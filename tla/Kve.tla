-------------------------------- MODULE Kve --------------------------------
(***************************************************************************)
(* The Kve counter: a DEBIT card pays a price the operator types, or one   *)
(* ticket, when key "0" announced it less than ten seconds ago.            *)
(***************************************************************************)
EXTENDS CardDesk

ASSUME KveAssumption == Top = "top"

VARIABLES
    ticket,  \* a ticket was announced
    late,    \* ten seconds have passed since then
    armed    \* history: key "0" was pressed since a ticket was last taken

key  == <<ticket, late>>
vars == <<desk, ticket, late, armed>>

Init ==
    /\ DeskInit
    /\ ticket = FALSE /\ late = FALSE /\ armed = FALSE

-----------------------------------------------------------------------------
Tick ==
    /\ ticket /\ ~late
    /\ late' = TRUE
    /\ UNCHANGED <<desk, ticket, armed>>

NoTicket == ticket' = FALSE /\ late' = FALSE

(* "-" cancels, ten seconds cancel, "0" announces. *)
Keys(k) ==
    /\ pc = "top" /\ pc' = "poll"
    /\ ticket' = (k = "0" \/ (ticket /\ k # "-" /\ ~late))
    /\ late' = FALSE
    /\ armed' = (armed \/ k = "0")
    /\ UNCHANGED <<reader, mem, copy, credit, history>>

(* The ticket is dropped with the card that left too early. *)
ReadLost ==
    /\ ReadThrows
    /\ NoTicket
    /\ UNCHANGED armed

AdminCard ==
    /\ Processing("ADMIN")
    /\ Leave /\ NoTicket
    /\ UNCHANGED <<history, armed>>

(* An SOS or a CONSO card drops the ticket; a card of no known kind does not. *)
OtherCard ==
    /\ \/ (Processing("SOS") \/ Processing("CONSO")) /\ NoTicket
       \/ Processing("BLANK") /\ UNCHANGED key
    /\ EndTurn
    /\ UNCHANGED <<reader, mem, card, history, armed>>

hasTicket == image.cnt > 0

(* Mutant: the announced ticket is not dropped when it is taken. *)
TakeTicketAgain(L) ==
    /\ Processing("DEBIT") /\ ticket /\ hasTicket
    /\ L \subseteq {2} /\ Lands(2, L)
    /\ Written(card, [image EXCEPT !.cnt = @ - 1], L)
    /\ armed' = (armed /\ 2 \notin L) /\ EndTurn
    /\ UNCHANGED <<reader, card, history, key>>

(* decrementTicket.  The row that follows debits nothing; it names conso 0 *)
(* when this was the last ticket, and is not sent for an unknown conso.    *)
TakeTicket(L) ==
    /\ Processing("DEBIT") /\ ticket /\ hasTicket
    /\ NoTicket
    /\ L \subseteq {2} /\ Lands(2, L)
    /\ Written(card, [image EXCEPT !.cnt = @ - 1], L)
    /\ armed' = (armed /\ 2 \notin L) /\ EndTurn
    /\ UNCHANGED <<reader, card, history>>

Ask ==
    /\ Processing("DEBIT") /\ ~(ticket /\ hasTicket)
    /\ pc' = "prompt"
    /\ UNCHANGED <<reader, mem, copy, credit, history, key, armed>>

(* Mutant: any credit will do. *)
EnoughAny == image.amt > 0

Enough == image.amt >= credit

Refuse ==
    /\ pc = "typed" /\ ~Enough
    /\ EndTurn /\ NoTicket
    /\ UNCHANGED <<reader, mem, card, history, armed>>

(* decrementCredit, which returns early on a credit of zero. *)
decrementCredit(L) ==
    /\ pc = "typed" /\ Enough
    /\ IF image.amt = 0
         THEN L = {} /\ Owe(card, credit) /\ UNCHANGED <<image, mem>>
         ELSE AddCredit(-credit, L)
    /\ pc' = "row"
    /\ UNCHANGED <<reader, card, credit, suspect, key, armed>>

(* Mutant: the row is not sent. *)
sendNoRow ==
    /\ pc = "row"
    /\ EndTurn /\ NoTicket
    /\ UNCHANGED <<reader, mem, card, history, armed>>

sendHistory ==
    /\ pc = "row"
    /\ Owe(card, -credit)
    /\ EndTurn /\ NoTicket
    /\ UNCHANGED <<reader, mem, card, suspect, armed>>

(* The row a power cut keeps from being sent is counted all the same. *)
PowerCut ==
    /\ Leave /\ NoTicket
    /\ IF pc = "row" THEN Owe(card, -credit) ELSE UNCHANGED owed
    /\ UNCHANGED <<suspect, armed>>

-----------------------------------------------------------------------------
Run ==
    \/ \E k \in {"0", "-", "none"} : Keys(k)
    \/ Loop /\ UNCHANGED <<key, armed>>
    \/ ReadLost \/ AdminCard \/ OtherCard \/ Ask \/ Refuse \/ sendHistory
    \/ \E L \in SUBSET Blocks : TakeTicket(L) \/ decrementCredit(L)

Next ==
    \/ Run \/ Tick \/ PowerCut
    \/ World /\ UNCHANGED <<key, armed>>

Spec == Init /\ [][Next]_vars

-----------------------------------------------------------------------------
(* Domains, and a Card is held wherever run() dereferences one. *)
TypeOK ==
    /\ DeskType
    /\ pc \in {"top", "poll", "find", "read", "process", "prompt", "typed", "row"}
    /\ ticket \in BOOLEAN /\ armed \in BOOLEAN
    /\ late \in BOOLEAN /\ (late => ticket)

Pending(t) == IF pc = "row" /\ card = t THEN credit ELSE 0

(* While the operator types the price, the card may be lifted, spent       *)
(* elsewhere and put back: the debit computed from the old credit then     *)
(* never reaches it (kve.cpp:111,115).  A card about which no error was    *)
(* printed while it was read holds what its rows add up to, one whose      *)
(* write failed counting for nothing.                                      *)
Ledger ==
    \A t \in Tags \ suspect :
        mem[t].kind = "DEBIT" => mem[t].amt + Pending(t) = owed[t]

(* No price typed leaves a card of this counter in debt, a negative one or *)
(* one the credit no longer covers included, whatever the other terminals  *)
(* took or gave meanwhile (kve.cpp:112).                                   *)
NoOverdraft ==
    [][\A t \in Tags : field = t /\ mem'[t].amt # mem[t].amt => mem'[t].amt >= 0]_vars

(* One press of "0" takes at most one ticket, from whatever card, even     *)
(* when the ticket's id is unknown and its row cannot be sent (kve.cpp:    *)
(* 102-108).                                                               *)
TicketPerPress ==
    [][\A t \in Tags : field = t /\ mem'[t].cnt < mem[t].cnt => armed]_vars
=============================================================================
