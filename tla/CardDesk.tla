------------------------------ MODULE CardDesk ------------------------------
(***************************************************************************)
(* What Caisse and Kve have in common: the card loop of a mode that waits  *)
(* at a prompt, while the card it has read is lifted, used at another      *)
(* terminal and put back.                                                  *)
(*                                                                         *)
(* readSector and writeSector are one step each, with the outcomes         *)
(* CardSession shows them to have: a tag that was lifted has lost its      *)
(* session, so the first block of the next operation fails; an operation   *)
(* that left a block out printed an error about it.                        *)
(***************************************************************************)
EXTENDS Integers, FiniteSets

CONSTANTS
    Tags,        \* the cards
    Unsupported, \* those that are not MIFARE Classic
    InitCard,    \* what each holds at the start
    Credits,     \* BOUND: the credits a card may hold
    MaxSuspect,  \* BOUND: how many cards errors are printed about
    Typed,       \* what may be typed at the prompt
    Top,         \* where a turn of the loop begins
    NoTag

Kinds  == {"ADMIN", "SOS", "DEBIT", "CONSO", "BLANK"}
(* Block 0 is the kind, block 1 the credit, block 2 the number of tickets  *)
(* and the conso they are for.                                             *)
Card   == [kind : Kinds, amt : Int, cnt : Nat, tid : Nat]
Blocks == 0 .. 2

ASSUME DeskAssumption ==
    /\ Unsupported \subseteq Tags /\ NoTag \notin Tags
    /\ InitCard \in [Tags -> Card]
    /\ Top \in {"poll", "top"}
    /\ Credits \subseteq Int /\ Typed \subseteq Int /\ MaxSuspect \in Nat

VARIABLES
    field,  \* the tag on the reader
    mem,    \* what every tag holds
    card,   \* the tag of "card", NoTag when it is null
    image,  \* its cached sector
    broken, \* the tag was lifted since the reader last selected it
    credit, \* what was typed at the prompt
    pc,     \* where run() is
    owed,   \* history, per tag: the credit its rows account for, a row whose
            \* write did not land counting for nothing
    suspect \* history: the tags about which a read, or a creation, printed an error

reader  == <<field, broken>>
copy    == <<card, image>>
history == <<owed, suspect>>
desk    == <<field, mem, card, image, broken, credit, pc, owed, suspect>>

Unread == [kind |-> "BLANK", amt |-> 0, cnt |-> 0, tid |-> 0]

DeskInit ==
    /\ field = NoTag /\ mem = InitCard
    /\ card = NoTag /\ image = Unread /\ broken = TRUE
    /\ credit = 0 /\ pc = Top
    /\ owed = [t \in Tags |-> InitCard[t].amt] /\ suspect = {}

-----------------------------------------------------------------------------
(* Customers, and the other terminals their cards go to. *)

Place(t) ==
    /\ field = NoTag
    /\ field' = t
    /\ UNCHANGED <<mem, copy, broken, credit, pc, history>>

Remove ==
    /\ field # NoTag
    /\ field' = NoTag /\ broken' = TRUE
    /\ UNCHANGED <<mem, copy, credit, pc, history>>

(* What a row, or another terminal, says of a card that is not suspect. *)
Owe(t, v) == owed' = IF t \in suspect THEN owed ELSE [owed EXCEPT ![t] = @ + v]

(* From here on, the rows say nothing of tag t. *)
Suspect(t) ==
    /\ suspect' = suspect \cup {t} /\ Cardinality(suspect') <= MaxSuspect
    /\ owed' = [owed EXCEPT ![t] = 0]

(* The blocks L of tag t now hold what those of c do. *)
Written(t, c, L) ==
    mem' = [mem EXCEPT ![t] = [kind |-> IF 0 \in L THEN c.kind ELSE @.kind,
                               amt  |-> IF 1 \in L THEN c.amt  ELSE @.amt,
                               cnt  |-> IF 2 \in L THEN c.cnt  ELSE @.cnt,
                               tid  |-> IF 2 \in L THEN c.tid  ELSE @.tid]]

(* Tag t is made a DEBIT card, and what it held is written anew; a card    *)
(* that is left unfinished is suspect.                                     *)
Created(t, L) ==
    /\ Written(t, [Unread EXCEPT !.kind = "DEBIT"], L)
    /\ IF L = Blocks THEN owed' = [owed EXCEPT ![t] = 0] /\ UNCHANGED suspect ELSE Suspect(t)

(* Another terminal changes the credit of a card that is not here: it may  *)
(* leave a debt, which a till does that is typed a negative sum.           *)
CreditElsewhere(t, v) ==
    /\ field # t /\ mem[t].kind = "DEBIT"
    /\ mem' = [mem EXCEPT ![t].amt = v]
    /\ Owe(t, v - mem[t].amt) /\ UNCHANGED suspect

(* Another terminal takes a ticket, and no money. *)
TicketElsewhere(t) ==
    /\ field # t /\ mem[t].kind = "DEBIT" /\ mem[t].cnt > 0
    /\ mem' = [mem EXCEPT ![t].cnt = @ - 1]
    /\ UNCHANGED history

(* Another terminal makes a card of one that was blank when it read it, or *)
(* was taken for blank after an error; or prints an error about a card     *)
(* that may be here by now, having written nothing (L = {}).               *)
CreateElsewhere(t, L) ==
    /\ L # {} => /\ field # t
                 /\ \/ t \in suspect \/ mem[t].kind = "BLANK"
                    \/ mem[t].kind = "DEBIT" /\ 0 \notin L
    /\ Created(t, L)

(* Nothing of it shows here but on the cards, and in the rows.             *)
Elsewhere ==
    /\ UNCHANGED <<reader, copy, credit, pc>>
    /\ \E t \in Tags \ Unsupported :
          \/ \E v \in Credits : CreditElsewhere(t, v)
          \/ TicketElsewhere(t)
          \/ \E L \in SUBSET Blocks : CreateElsewhere(t, L)

-----------------------------------------------------------------------------
(* One turn of the loop, up to a card that was read. *)

(* The turn is over.  The Card is kept to be polled for, but its blocks,   *)
(* and what was typed, are never looked at again.                          *)
EndTurn == pc' = Top /\ image' = Unread /\ credit' = 0

PollPresent ==
    /\ pc = "poll" /\ card # NoTag /\ field = card
    /\ EndTurn
    /\ UNCHANGED <<reader, mem, card, history>>

PollMiss ==
    /\ pc = "poll" /\ card # NoTag
    /\ pc' = "find"
    /\ UNCHANGED <<reader, mem, copy, credit, history>>

Finding == pc = "find" \/ (pc = "poll" /\ card = NoTag)

FindCard ==
    /\ Finding /\ field \in Tags \ Unsupported
    /\ card' = field /\ image' = Unread /\ broken' = FALSE
    /\ pc' = "read"
    /\ UNCHANGED <<field, mem, credit, history>>

FindNothing ==
    /\ Finding
    /\ card' = NoTag /\ EndTurn
    /\ UNCHANGED <<reader, mem, history>>

(* The constructor of Card throws: "card" stays as it was. *)
FindThrows ==
    /\ Finding /\ field \in Unsupported
    /\ EndTurn
    /\ UNCHANGED <<reader, mem, card, history>>

(* readSector returns true with the blocks R read, the others left blank.  *)
(* The tag may have been lifted, and found again, before the last error.   *)
Read(R) ==
    /\ pc = "read" /\ field = card
    /\ broken => 0 \notin R
    /\ image' = [kind |-> IF 0 \in R THEN mem[card].kind ELSE Unread.kind,
                 amt  |-> IF 1 \in R THEN mem[card].amt  ELSE Unread.amt,
                 cnt  |-> IF 2 \in R THEN mem[card].cnt  ELSE Unread.cnt,
                 tid  |-> IF 2 \in R THEN mem[card].tid  ELSE Unread.tid]
    /\ IF R = Blocks THEN UNCHANGED history ELSE Suspect(card)
    /\ broken' = FALSE /\ pc' = "process"
    /\ UNCHANGED <<field, mem, card, credit>>

(* The tag left: the loop goes on with a Card it will never read again. *)
ReadThrows ==
    /\ pc = "read"
    /\ EndTurn
    /\ UNCHANGED <<reader, mem, card, history>>

Processing(kind) == pc = "process" /\ image.kind = kind

(* run() returns, and its locals are gone when the mode runs again. *)
Leave ==
    /\ card' = NoTag /\ EndTurn
    /\ UNCHANGED <<reader, mem>>

(* The prompt waits for the operator, for as long as it takes. *)
getFloat(v) ==
    /\ pc = "prompt"
    /\ credit' = v /\ pc' = "typed"
    /\ UNCHANGED <<reader, mem, copy, history>>

-----------------------------------------------------------------------------
(* Mutant: writeCard finds the card again before it writes. *)
LandsOnceFound(F, L) == L # {} => field = card

(* The blocks a write may reach: none but with the tag there, and not the  *)
(* first one, F, when the tag was lifted since it was read.                *)
Lands(F, L) ==
    /\ L # {} => field = card
    /\ broken => F \notin L

(* The credit block gets v more; the row of it has still to be sent. *)
AddCredit(v, L) ==
    /\ image.amt + v \in Credits
    /\ image' = [image EXCEPT !.amt = @ + v]
    /\ L \subseteq {1} /\ Lands(1, L)
    /\ Written(card, image', L)
    /\ IF 1 \in L THEN UNCHANGED owed ELSE Owe(card, -v)

Loop ==
    \/ PollPresent \/ PollMiss \/ FindCard \/ FindNothing \/ FindThrows
    \/ \E R \in SUBSET Blocks : Read(R)
    \/ \E v \in Typed : getFloat(v)

World ==
    \/ Remove
    \/ \E t \in Tags : Place(t)
    \/ Elsewhere

DeskType ==
    /\ field \in Tags \cup {NoTag}
    /\ mem \in [Tags -> Card]
    /\ card \in (Tags \ Unsupported) \cup {NoTag}
    /\ image \in Card
    /\ broken \in BOOLEAN /\ credit \in Typed \cup {0}
    /\ owed \in [Tags -> Int] /\ suspect \subseteq Tags
    /\ pc \notin {"poll", Top} => card # NoTag
=============================================================================
