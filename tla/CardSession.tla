---------------------------- MODULE CardSession ----------------------------
(***************************************************************************)
(* One card session of a terminal: the poll/find loop every mode runs, the *)
(* Card object with its cached sector, and the reader that carries the     *)
(* authentications, reads and writes, while the customer puts tags down    *)
(* and takes them away and other terminals write to the tags meanwhile.    *)
(*                                                                         *)
(* Sector 1 is the only sector the modes touch; Blocks are its blocks, in  *)
(* the order Card visits them.  A failed radio exchange ends the reader's  *)
(* session with the tag (link = NoTag): a MIFARE tag answers again only    *)
(* after it was selected again.                                            *)
(***************************************************************************)
EXTENDS Integers

CONSTANTS
    Tags,          \* the tags that may be laid on the reader
    Unsupported,   \* those that are not MIFARE Classic
    LastBlk,       \* the last block of the sector
    Values,        \* what a block can hold
    Zero,          \* the content of a block of a new Card
    KeyTries,      \* keys authenticate tries on one block
    OverreadHits,  \* may the bytes past the configured key be the tag's key?
    NoTag, Unseen

Blocks == 0 .. LastBlk
Readable == Tags \ Unsupported

ASSUME CardAssumption ==
    /\ Unsupported \subseteq Tags
    /\ LastBlk \in Nat
    /\ Zero \in Values
    /\ KeyTries \in Nat \ {0}
    /\ OverreadHits \subseteq BOOLEAN
    /\ NoTag \notin Tags
    /\ Unseen \notin Values

VARIABLES
    field,    \* the tag on the reader
    link,     \* the tag the reader is in session with
    mem,      \* the sector of every readable tag
    held,     \* the tag of the Card object, NoTag when there is none
    cache,    \* the Card's copy of the sector
    st,       \* the State of each cached block
    pc,       \* where the mode's loop is
    op,       \* "read" or "write": readSector or writeSector
    blk, key, \* the block, and the key index, authenticate is at
    seen,     \* history: what this Card last read or wrote in each block
    tainted,  \* history: an error on a block was printed for this Card
    done,     \* history: the blocks the current or last operation transferred
    skipped,  \* history: the blocks it printed an error for
    status    \* history: "done" when it returned true, "thrown", or "none"

world   == <<field, mem>>
image   == <<cache, st>>
history == <<seen, tainted, done, skipped, status>>
vars    == <<field, link, mem, held, cache, st, pc, op, blk, key,
             seen, tainted, done, skipped, status>>

States == {"CLEAN", "DIRTY", "MODIFIED"}
PCs    == {"poll", "find", "found", "edit", "auth", "retry", "xfer", "lost"}

Init ==
    /\ field = NoTag /\ link = NoTag
    /\ mem \in [Readable -> [Blocks -> Values]]
    /\ held = NoTag
    /\ cache = [b \in Blocks |-> Zero]
    /\ st = [b \in Blocks |-> "DIRTY"]
    /\ pc = "poll" /\ op = "read" /\ blk = 0 /\ key = 0
    /\ seen = [b \in Blocks |-> Unseen]
    /\ tainted = FALSE /\ done = {} /\ skipped = {} /\ status = "none"

-----------------------------------------------------------------------------
(* The customer, and the other terminals. *)

Place(t) ==
    /\ field = NoTag
    /\ field' = t
    /\ UNCHANGED <<link, mem, held, image, pc, op, blk, key, history>>

Remove ==
    /\ field # NoTag
    /\ field' = NoTag /\ link' = NoTag
    /\ UNCHANGED <<mem, held, image, pc, op, blk, key, history>>

Elsewhere(t, b, v) ==
    /\ field # t
    /\ mem' = [mem EXCEPT ![t][b] = v]
    /\ UNCHANGED <<field, link, held, image, pc, op, blk, key, history>>

-----------------------------------------------------------------------------
(* The loop of the modes. *)

(* findCard(uid) at the top of the loop: the card is still there. *)
PollPresent ==
    /\ pc = "poll" /\ held # NoTag /\ field = held
    /\ link' = held
    /\ UNCHANGED <<world, held, image, pc, op, blk, key, history>>

(* It is gone, or the poll was lost on the air. *)
PollMiss ==
    /\ pc = "poll" /\ held # NoTag
    /\ pc' = "find" /\ link' = NoTag
    /\ UNCHANGED <<world, held, image, op, blk, key, history>>

Finding == pc = "find" \/ (pc = "poll" /\ held = NoTag)

(* The old Card, and what was known of it, is gone; t's, if any, is blank. *)
NewCard(t) ==
    /\ held' = t /\ link' = t
    /\ cache' = [b \in Blocks |-> Zero]
    /\ st' = [b \in Blocks |-> "DIRTY"]
    /\ seen' = [b \in Blocks |-> Unseen]
    /\ tainted' = FALSE /\ done' = {} /\ skipped' = {} /\ status' = "none"

(* findCard(keys) selects a tag and makes a new Card of it. *)
FindCard ==
    /\ Finding
    /\ field \in Readable
    /\ NewCard(field)
    /\ pc' = "found"
    /\ UNCHANGED <<world, op, blk, key>>

(* No tag answers: the mode is left without a Card. *)
FindNothing ==
    /\ Finding
    /\ NewCard(NoTag)
    /\ pc' = "poll"
    /\ UNCHANGED <<world, op, blk, key>>

(* The Card constructor throws on another kind of tag: the old Card stays. *)
FindUnsupported ==
    /\ Finding
    /\ field \in Unsupported
    /\ link' = field
    /\ pc' = "poll"
    /\ UNCHANGED <<world, held, image, op, blk, key, history>>

StartRead ==
    /\ pc = "found"
    /\ pc' = "auth" /\ op' = "read" /\ blk' = 0 /\ key' = 0
    /\ UNCHANGED <<world, link, held, image, history>>

(* Admin writes a new card without reading it. *)
SkipRead ==
    /\ pc = "found"
    /\ pc' = "edit"
    /\ UNCHANGED <<world, link, held, image, op, blk, key, history>>

Edit(b, v) ==
    /\ pc = "edit"
    /\ cache' = [cache EXCEPT ![b] = v]
    /\ st' = [st EXCEPT ![b] = "MODIFIED"]
    /\ status' = "none"
    /\ UNCHANGED <<world, link, held, pc, op, blk, key, seen, tainted, done, skipped>>

StartWrite ==
    /\ pc = "edit"
    /\ pc' = "auth" /\ op' = "write" /\ blk' = 0 /\ key' = 0
    /\ done' = {} /\ skipped' = {} /\ status' = "none"
    /\ UNCHANGED <<world, link, held, image, seen, tainted>>

(* The mode is through with the card, and waits for it to be taken away. *)
EndProcess ==
    /\ pc = "edit"
    /\ pc' = "poll"
    /\ UNCHANGED <<world, link, held, image, op, blk, key, history>>

(* The mode returns (Admin card, or quit) and its Card dies with it. *)
Leave ==
    /\ pc = "edit"
    /\ NewCard(NoTag)
    /\ pc' = "poll"
    /\ UNCHANGED <<world, op, blk, key>>

-----------------------------------------------------------------------------
(* readMifareClassic and writeMifareClassic, block by block. *)

NextBlock == blk' = blk + 1 /\ key' = 0 /\ pc' = "auth"

(* Mutant: blocks that were read are written back too. *)
SkipDirtyOnly(b) == op = "write" /\ st[b] = "DIRTY"

Skip(b) == op = "write" /\ st[b] # "MODIFIED"

SkipBlock ==
    /\ pc = "auth" /\ blk \in Blocks /\ Skip(blk)
    /\ NextBlock
    /\ UNCHANGED <<world, link, held, image, op, history>>

(* The tag is still in session and holds the key tried. *)
CanAuth == link = held /\ (key = 0 \/ TRUE \in OverreadHits)

AuthOk ==
    /\ pc = "auth" /\ blk \in Blocks /\ ~Skip(blk)
    /\ CanAuth
    /\ pc' = "xfer"
    /\ UNCHANGED <<world, link, held, image, op, blk, key, history>>

AuthFail ==
    /\ pc = "auth" /\ blk \in Blocks /\ ~Skip(blk)
    /\ pc' = "retry" /\ link' = NoTag
    /\ UNCHANGED <<world, held, image, op, blk, key, history>>

(* Mutant: the error on a block is not printed. *)
GiveUpQuietly ==
    /\ NextBlock
    /\ UNCHANGED history

(* The error both "authenticate" and the transfers end a block with. *)
GiveUpBlock ==
    /\ tainted' = TRUE
    /\ skipped' = skipped \cup {blk}
    /\ NextBlock
    /\ UNCHANGED <<seen, done, status>>

(* Mutant: the key index does not advance. *)
RetrySameKey ==
    /\ pc = "retry" /\ field = held
    /\ link' = held /\ pc' = "auth"
    /\ UNCHANGED <<world, held, image, op, blk, key, history>>

(* findCard(uid) finds the tag again: next key, or no key is left. *)
RetryNextKey ==
    /\ pc = "retry" /\ field = held /\ key + 1 < KeyTries
    /\ link' = held /\ key' = key + 1 /\ pc' = "auth"
    /\ UNCHANGED <<world, held, image, op, blk, history>>

RetryGiveUp ==
    /\ pc = "retry" /\ field = held /\ key + 1 = KeyTries
    /\ link' = held
    /\ GiveUpBlock
    /\ UNCHANGED <<world, held, image, op>>

(* findCard(uid) finds nothing: an exception leaves readSector, and the    *)
(* loop goes on with the Card unread, or leaves writeSector, and writeCard *)
(* swallows it.                                                            *)
Throw ==
    /\ pc \in {"retry", "lost"}
    /\ link' = NoTag
    /\ pc' = IF op = "read" THEN "poll" ELSE "edit"
    /\ status' = "thrown" /\ blk' = 0 /\ key' = 0
    /\ UNCHANGED <<world, held, image, op, seen, tainted, done, skipped>>

ReadBlock ==
    /\ pc = "xfer" /\ op = "read" /\ link = held
    /\ cache' = [cache EXCEPT ![blk] = mem[held][blk]]
    /\ st' = [st EXCEPT ![blk] = "CLEAN"]
    /\ seen' = [seen EXCEPT ![blk] = mem[held][blk]]
    /\ done' = done \cup {blk}
    /\ NextBlock
    /\ UNCHANGED <<world, link, held, op, tainted, skipped, status>>

WriteBlock ==
    /\ pc = "xfer" /\ op = "write" /\ link = held
    /\ mem' = [mem EXCEPT ![held][blk] = cache[blk]]
    /\ seen' = [seen EXCEPT ![blk] = cache[blk]]
    /\ done' = done \cup {blk}
    /\ NextBlock
    /\ UNCHANGED <<field, link, held, image, op, tainted, skipped, status>>

(* The exchange fails; a write whose answer was lost is on the tag all the same. *)
XferFail ==
    /\ pc = "xfer"
    /\ pc' = "lost" /\ link' = NoTag
    /\ \/ mem' = mem
       \/ op = "write" /\ link = held /\ mem' = [mem EXCEPT ![held][blk] = cache[blk]]
    /\ UNCHANGED <<field, held, image, op, blk, key, history>>

LostGiveUp ==
    /\ pc = "lost" /\ field = held
    /\ link' = held
    /\ GiveUpBlock
    /\ UNCHANGED <<world, held, image, op>>

(* Mutant: the last block of the sector is left out. *)
EndOpEarly ==
    /\ pc = "auth" /\ blk = LastBlk
    /\ pc' = "edit" /\ status' = "done" /\ blk' = 0
    /\ UNCHANGED <<world, link, held, image, op, key, seen, tainted, done, skipped>>

(* Both return true whatever happened to the blocks. *)
EndOp ==
    /\ pc = "auth" /\ blk = LastBlk + 1
    /\ pc' = "edit" /\ status' = "done" /\ blk' = 0
    /\ UNCHANGED <<world, link, held, image, op, key, seen, tainted, done, skipped>>

-----------------------------------------------------------------------------
CardOp ==
    \/ SkipBlock \/ AuthOk \/ AuthFail \/ RetryNextKey \/ RetryGiveUp \/ Throw
    \/ ReadBlock \/ WriteBlock \/ XferFail \/ LostGiveUp \/ EndOp

Loop ==
    \/ PollPresent \/ PollMiss \/ FindCard \/ FindNothing \/ FindUnsupported
    \/ StartRead \/ SkipRead \/ StartWrite \/ EndProcess \/ Leave
    \/ \E b \in Blocks, v \in Values : Edit(b, v)

World ==
    \/ Remove
    \/ \E t \in Tags : Place(t)
    \/ \E t \in Readable, b \in Blocks, v \in Values : Elsewhere(t, b, v)

Next == CardOp \/ Loop \/ World

Spec     == Init /\ [][Next]_vars
(* The terminal's one thread keeps executing a card operation it is in. *)
FairSpec == Spec /\ WF_vars(CardOp)

-----------------------------------------------------------------------------
(* Every variable stays in its domain, a Card is held wherever the code    *)
(* dereferences one, and the reader is in session with the tag on it only. *)
TypeOK ==
    /\ field \in Tags \cup {NoTag}
    /\ link \in {NoTag, field}
    /\ mem \in [Readable -> [Blocks -> Values]]
    /\ held \in Readable \cup {NoTag}
    /\ cache \in [Blocks -> Values]
    /\ st \in [Blocks -> States]
    /\ pc \in PCs
    /\ op \in {"read", "write"}
    /\ blk \in 0 .. LastBlk + 1
    /\ key \in 0 .. KeyTries - 1
    /\ seen \in [Blocks -> Values \cup {Unseen}]
    /\ tainted \in BOOLEAN
    /\ done \subseteq Blocks
    /\ skipped \subseteq Blocks
    /\ status \in {"none", "done", "thrown"}
    /\ pc \in {"retry", "xfer", "lost"} => blk \in Blocks
    /\ held = NoTag => pc = "poll"

(* readSector and writeSector return true whatever happens (card.cpp:229,  *)
(* 285).  What that answer is still worth: every block of the sector (of   *)
(* the MODIFIED blocks, for a write) was transferred or had an error       *)
(* printed for it by this very operation.                                  *)
OpReported ==
    status = "done" =>
        {b \in Blocks : op = "write" => st[b] = "MODIFIED"} \subseteq done \cup skipped

(* A Card whose reader session is unbroken and that reported no error has  *)
(* seen what the tag holds: its cached credit is not stale.  Lifting the   *)
(* tag ends the session, and the one configured key is only tried before   *)
(* the tag is selected again (card.cpp:172-189).                           *)
FreshView ==
    ~tainted /\ link = held /\ held # NoTag /\ key = 0 /\ pc \notin {"poll", "find"} =>
        \A b \in Blocks : seen[b] \in {Unseen, mem[held][b]}

(* The tag lying on the reader changes only in blocks the mode has marked  *)
(* MODIFIED, to the content the mode gave them, and only if it is the tag  *)
(* the Card was made of, whatever was swapped on the reader meanwhile.     *)
OnlyEdited ==
    [][\A t \in Readable, b \in Blocks :
          t = field /\ mem'[t][b] # mem[t][b] =>
              t = held /\ st[b] = "MODIFIED" /\ mem'[t][b] = cache[b]]_vars

(* A read or write, once begun, ends: by its last block or by an exception. *)
OpTerminates ==
    pc \in {"auth", "retry", "xfer", "lost"} ~> pc \in {"edit", "poll"}

(* The terminal keeps the promise of CasCard.  A tag it does not support   *)
(* is no tag to it.                                                        *)
Cas == INSTANCE CasCard WITH Tags  <- Readable,
                             field <- IF field \in Readable THEN field ELSE NoTag
Refines == Cas!Spec
=============================================================================
