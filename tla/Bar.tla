-------------------------------- MODULE Bar --------------------------------
(***************************************************************************)
(* The bar terminal: CONSO cards laid on the reader build up an order, a   *)
(* DEBIT card pays for it, with its ticket first and its credit for the    *)
(* rest, and one history row is sent per ticket and per kind of drink.     *)
(*                                                                         *)
(* A read brings in some of the blocks, or throws; a write lands some of   *)
(* the MODIFIED blocks, and Bar never learns which: that is what           *)
(* CardSession says of readSector and of writeCard.  Amounts are counted   *)
(* in the currency's smallest step.                                        *)
(***************************************************************************)
EXTENDS Integers, FiniteSetsExt

CONSTANTS
    Tags,        \* the cards
    Unsupported, \* those that are not MIFARE Classic
    InitCard,    \* what each holds at the start
    Price,       \* the consos of the configuration: a function from their ids
    BadId,       \* an id no conso has
    MaxOrder,    \* BOUND: drinks in one order
    MaxSent,     \* BOUND: the amount of the rows of a card that is found again
    NoTag

Ids    == DOMAIN Price \cup {BadId}
Kinds  == {"ADMIN", "SOS", "DEBIT", "CONSO", "BLANK"}
(* Block 0 is the kind, block 1 the credit or the conso id, block 2 the    *)
(* number of tickets and the conso they are for.                           *)
Card   == [kind : Kinds, amt : Int, cnt : Nat, tid : Ids]
Blocks == 0 .. 2

ASSUME BarAssumption ==
    /\ BadId \in Nat /\ BadId \notin DOMAIN Price
    /\ IsFiniteSet(DOMAIN Price) /\ 0 \in DOMAIN Price
    /\ Price \in [DOMAIN Price -> Nat]
    /\ Unsupported \subseteq Tags
    /\ InitCard \in [Tags -> Card]
    /\ \A t \in Tags : InitCard[t].kind = "CONSO" => InitCard[t].amt \in Ids
    /\ MaxOrder \in Nat /\ MaxSent \in Nat /\ NoTag \notin Tags

VARIABLES
    field,  \* the tag on the reader
    mem,    \* what every tag holds
    card,   \* the tag of "card", NoTag when it is null
    image,  \* its cached sector
    dirty,  \* the cached blocks that are MODIFIED
    conso,  \* the order: how many of each id
    late,   \* ten seconds have passed since "time"
    pc,     \* where run() is
    fresh,  \* history: the tag on the reader was not found since it was put down, or missed
    due,    \* history: "card" was found with a fresh tag, and not counted yet
    sent,   \* history, per tag: the amounts of its rows of drinks that were sent
    unpaid, \* history: the tags of which a debit did not land
    cut,    \* history: the tags of which a power cut kept a row from being sent
    spent   \* history, per tag: ticket rows sent, up to the tickets it held

sale    == <<conso, late>>
copy    == <<card, image, dirty>>
accounts == <<sent, unpaid, cut, spent>>
history == <<fresh, due, accounts>>
vars    == <<field, mem, card, image, dirty, conso, late, pc, fresh, due,
             sent, unpaid, cut, spent>>

Unread == [kind |-> "BLANK", amt |-> 0, cnt |-> 0, tid |-> 0]
NoOrder == [i \in Ids |-> 0]

Init ==
    /\ field = NoTag /\ mem = InitCard
    /\ card = NoTag /\ image = Unread /\ dirty = {}
    /\ conso = NoOrder /\ late = FALSE /\ pc = "top"
    /\ fresh = TRUE /\ due = FALSE
    /\ sent = [t \in Tags |-> 0] /\ unpaid = {} /\ cut = {}
    /\ spent = [t \in Tags |-> 0]

-----------------------------------------------------------------------------
(* The counter: customers, the clock, the power supply. *)

Place(t) ==
    /\ field = NoTag
    /\ field' = t /\ fresh' = TRUE
    /\ UNCHANGED <<mem, copy, sale, pc, due, accounts>>

Remove ==
    /\ field # NoTag
    /\ field' = NoTag
    /\ UNCHANGED <<mem, copy, sale, pc, history>>

Tick ==
    /\ ~late
    /\ late' = TRUE
    /\ UNCHANGED <<field, mem, copy, conso, pc, history>>

getPrice(c) == MapThenSumSet(LAMBDA i : c[i] * Price[i], DOMAIN Price)
size(c)     == MapThenSumSet(LAMBDA i : c[i], Ids)
Invalid(c)  == c[BadId] > 0

(* Rows of a debit already written to the card, not yet sent. *)
Pending == IF pc = "rows" THEN getPrice(conso) ELSE 0

Fresh0 ==
    /\ card' = NoTag /\ image' = Unread /\ dirty' = {}
    /\ conso' = NoOrder /\ late' = FALSE /\ pc' = "top"
    /\ fresh' = TRUE /\ due' = FALSE

(* The rows that were not sent yet never will be. *)
PowerCut ==
    /\ Fresh0
    /\ cut' = IF Pending > 0 THEN cut \cup {card} ELSE cut
    /\ UNCHANGED <<field, mem, sent, unpaid, spent>>

-----------------------------------------------------------------------------
(* One turn of the loop up to a card that was read. *)

(* Mutant: an old order is not cancelled. *)
CheckKeyOnly(key) ==
    /\ pc = "top" /\ pc' = "poll"
    /\ IF conso # NoOrder /\ key
         THEN conso' = NoOrder /\ late' = FALSE
         ELSE UNCHANGED sale
    /\ UNCHANGED <<field, mem, copy, history>>

(* "-" was pressed, or the order is ten seconds old. *)
Check(key) ==
    /\ pc = "top" /\ pc' = "poll"
    /\ IF conso # NoOrder /\ (key \/ late)
         THEN conso' = NoOrder /\ late' = FALSE
         ELSE UNCHANGED sale
    /\ UNCHANGED <<field, mem, copy, history>>

(* Mutant: a card that is still there is read again. *)
PollPresentRereads ==
    /\ pc = "poll" /\ card # NoTag /\ field = card
    /\ pc' = "read"
    /\ UNCHANGED <<field, mem, copy, sale, history>>

PollPresent ==
    /\ pc = "poll" /\ card # NoTag /\ field = card
    /\ pc' = "top"
    /\ UNCHANGED <<field, mem, copy, sale, history>>

Cancel == /\ conso' = NoOrder
          /\ late' = IF conso = NoOrder THEN late ELSE FALSE

(* The order is kept when it was a CONSO card that left.  The poll may miss *)
(* a card that is there.                                                   *)
PollMiss ==
    /\ pc = "poll" /\ card # NoTag
    /\ IF image.kind = "CONSO" THEN UNCHANGED sale ELSE Cancel
    /\ pc' = "find" /\ fresh' = (fresh \/ field = card)
    /\ UNCHANGED <<field, mem, copy, due, accounts>>

Finding == pc = "find" \/ (pc = "poll" /\ card = NoTag)

FindCard ==
    /\ Finding /\ field \in Tags \ Unsupported
    /\ mem[field].kind = "CONSO" => size(conso) < MaxOrder
    /\ sent[field] <= MaxSent
    /\ card' = field /\ image' = Unread /\ dirty' = {}
    /\ pc' = "read"
    /\ due' = fresh /\ fresh' = FALSE
    /\ UNCHANGED <<field, mem, sale, accounts>>

FindNothing ==
    /\ Finding
    /\ card' = NoTag /\ image' = Unread /\ dirty' = {}
    /\ pc' = "top"
    /\ UNCHANGED <<field, mem, sale, history>>

(* The constructor of Card throws: "card" and "read" stay as they were. *)
FindThrows ==
    /\ Finding /\ field \in Unsupported
    /\ pc' = "top"
    /\ UNCHANGED <<field, mem, copy, sale, history>>

(* readSector returns true with the blocks R read, the others left blank. *)
Read(R) ==
    /\ pc = "read" /\ field = card
    /\ image' = [kind |-> IF 0 \in R THEN mem[card].kind ELSE Unread.kind,
                 amt  |-> IF 1 \in R THEN mem[card].amt  ELSE Unread.amt,
                 cnt  |-> IF 2 \in R THEN mem[card].cnt  ELSE Unread.cnt,
                 tid  |-> IF 2 \in R THEN mem[card].tid  ELSE Unread.tid]
    /\ pc' = "process"
    /\ UNCHANGED <<field, mem, card, dirty, sale, history>>

(* The tag left: the order is cancelled, the Card kept but never read again. *)
ReadThrows ==
    /\ pc = "read"
    /\ Cancel
    /\ pc' = "top"
    /\ UNCHANGED <<field, mem, copy, history>>

-----------------------------------------------------------------------------
(* What is done with it. *)

Processing(kind) == pc = "process" /\ image.kind = kind

(* run() returns, and its locals are gone when the mode runs again. *)
AdminCard ==
    /\ Processing("ADMIN")
    /\ Fresh0
    /\ UNCHANGED <<field, mem, accounts>>

(* An SOS card, a DEBIT card without an order, a card of no known kind. *)
OtherCard ==
    /\ Processing("SOS") \/ Processing("BLANK") \/ (Processing("DEBIT") /\ conso = NoOrder)
    /\ pc' = "top"
    /\ UNCHANGED <<field, mem, copy, sale, history>>

(* printCommand throws on an order with an unknown conso: "time" stays.    *)
(* A CONSO card whose block 1 was not read counts as conso 0.              *)
ConsoCard ==
    /\ Processing("CONSO")
    /\ conso' = [conso EXCEPT ![image.amt] = @ + 1]
    /\ late' = (late /\ Invalid(conso'))
    /\ pc' = "top" /\ due' = FALSE
    /\ UNCHANGED <<field, mem, copy, fresh, accounts>>

TicketFits == image.cnt > 0 /\ conso[image.tid] > 0

(* Mutant: the ticket's row is not sent before the card is written. *)
UseTicketUnlogged ==
    /\ Processing("DEBIT") /\ conso # NoOrder /\ TicketFits /\ image.tid # BadId
    /\ conso' = [conso EXCEPT ![image.tid] = @ - 1]
    /\ pc' = "ticket"
    /\ UNCHANGED <<field, mem, copy, late, history>>

(* The ticket's conso leaves the order and its row is sent, then the card  *)
(* is written.  getConso throws first when the ticket's id is unknown.     *)
UseTicket ==
    /\ Processing("DEBIT") /\ conso # NoOrder /\ TicketFits
    /\ IF image.tid = BadId
         THEN pc' = "top" /\ UNCHANGED <<conso, spent>>
         ELSE /\ conso' = [conso EXCEPT ![image.tid] = @ - 1]
              /\ spent' = [spent EXCEPT ![card] =
                              IF @ < InitCard[card].cnt THEN @ + 1 ELSE @]
              /\ pc' = "ticket"
    /\ UNCHANGED <<field, mem, copy, late, fresh, due, sent, unpaid, cut>>

NoTicket ==
    /\ Processing("DEBIT") /\ conso # NoOrder /\ ~TicketFits
    /\ pc' = "price"
    /\ UNCHANGED <<field, mem, copy, sale, history>>

(* writeCard: of the MODIFIED blocks, those in L land.  They stay MODIFIED. *)
WriteCard(L) ==
    /\ L # {} => field = card
    /\ L \subseteq dirty'
    /\ mem' = [mem EXCEPT ![card].amt = IF 1 \in L THEN image'.amt ELSE @,
                          ![card].cnt = IF 2 \in L THEN image'.cnt ELSE @]

decrementTicket(L) ==
    /\ pc = "ticket"
    /\ image' = [image EXCEPT !.cnt = IF @ > 0 THEN @ - 1 ELSE @]
    /\ dirty' = dirty \cup {2}
    /\ WriteCard(L)
    /\ pc' = "price"
    /\ UNCHANGED <<field, card, sale, history>>

(* getPrice throws on an unknown conso: the order stays. *)
PriceThrows ==
    /\ pc = "price" /\ Invalid(conso)
    /\ pc' = "top"
    /\ UNCHANGED <<field, mem, copy, sale, history>>

Enough == image.amt >= getPrice(conso)

Refuse ==
    /\ pc = "price" /\ ~Invalid(conso) /\ ~Enough
    /\ pc' = "settled"
    /\ UNCHANGED <<field, mem, copy, sale, history>>

(* The rows of the order are sent whether or not its debit landed. *)
Paid(L) == unpaid' = IF 1 \in L \/ getPrice(conso) = 0 THEN unpaid ELSE unpaid \cup {card}

(* Mutant: no early return, a credit of zero is written back. *)
decrementAlways(L) ==
    /\ pc = "price" /\ ~Invalid(conso) /\ Enough
    /\ pc' = "rows"
    /\ image' = [image EXCEPT !.amt = @ - getPrice(conso)]
    /\ dirty' = dirty \cup {1}
    /\ WriteCard(L)
    /\ Paid(L)
    /\ UNCHANGED <<field, card, sale, fresh, due, sent, cut, spent>>

(* decrementCredit; it returns early on a credit of zero. *)
decrementCredit(L) ==
    /\ pc = "price" /\ ~Invalid(conso) /\ Enough
    /\ pc' = "rows"
    /\ IF image.amt = 0
         THEN L = {} /\ UNCHANGED <<image, dirty, mem>>
         ELSE /\ image' = [image EXCEPT !.amt = @ - getPrice(conso)]
              /\ dirty' = dirty \cup {1}
              /\ WriteCard(L)
    /\ Paid(L)
    /\ UNCHANGED <<field, card, sale, fresh, due, sent, cut, spent>>

(* One history row per conso of the order, in any order of the map; here   *)
(* what is still to be sent is what is left in conso.                      *)
sendHistory(i) ==
    /\ pc = "rows" /\ conso[i] > 0
    /\ conso' = [conso EXCEPT ![i] = 0]
    /\ sent' = [sent EXCEPT ![card] = @ + conso[i] * Price[i]]
    /\ UNCHANGED <<field, mem, copy, late, pc, fresh, due, unpaid, cut, spent>>

RowsSent ==
    /\ pc = "rows" /\ conso = NoOrder
    /\ pc' = "settled"
    /\ UNCHANGED <<field, mem, copy, sale, history>>

Clear ==
    /\ pc = "settled"
    /\ conso' = NoOrder /\ late' = FALSE /\ pc' = "top"
    /\ UNCHANGED <<field, mem, copy, history>>

-----------------------------------------------------------------------------
Run ==
    \/ \E key \in BOOLEAN : Check(key)
    \/ PollPresent \/ PollMiss \/ FindCard \/ FindNothing \/ FindThrows \/ ReadThrows
    \/ \E R \in SUBSET Blocks : Read(R)
    \/ AdminCard \/ OtherCard \/ ConsoCard \/ UseTicket \/ NoTicket
    \/ \E L \in SUBSET Blocks : decrementTicket(L) \/ decrementCredit(L)
    \/ PriceThrows \/ Refuse \/ RowsSent \/ Clear
    \/ \E i \in DOMAIN Price : sendHistory(i)

Next == Run \/ Remove \/ Tick \/ PowerCut \/ \E t \in Tags : Place(t)

Spec     == Init /\ [][Next]_vars
(* The loop never blocks in this mode, and time passes. *)
FairSpec == Spec /\ WF_vars(Run) /\ WF_vars(Tick)

-----------------------------------------------------------------------------
PCs == {"top", "poll", "find", "read", "process", "ticket", "price", "rows", "settled"}

(* What left a card's credit and the amounts of its rows, those about to be *)
(* sent included, differ for two reasons only.  Money without a row: the   *)
(* power failed after the debit and before the rows (bar.cpp:159-161).  A  *)
(* row without money: the debit was not written, and its rows are sent all *)
(* the same (bar.cpp:160).  Nothing else does it, whatever blocks could be *)
(* read and whenever the card is lifted: a credit that could not be read is*)
(* not overwritten, because decrementCredit returns on zero.               *)
Ledger ==
    \A t \in Tags :
        LET left   == InitCard[t].amt - mem[t].amt
            logged == sent[t] + IF card = t THEN Pending ELSE 0
        IN  /\ t \notin cut => left <= logged
            /\ t \notin unpaid => logged <= left

(* A ticket never leaves a card without its history row, not even when the *)
(* power fails: the row is sent before the card is written (bar.cpp:152).  *)
TicketLogged == \A t \in Tags : InitCard[t].cnt - mem[t].cnt <= spent[t]

Counted == \E i \in Ids : conso'[i] > conso[i]

(* A CONSO card laid down once is ordered once, however long it lies there *)
(* (bar.cpp:87,99), and once more for each poll that missed it.            *)
CountedOnce == [][Counted => due]_vars

(* An order is settled, cancelled, or added to again and again: the ten    *)
(* seconds run from the last drink only (bar.cpp:75,177).                  *)
OrderSettles == []<>(conso = NoOrder) \/ []<><<Counted>>_vars
=============================================================================
