------------------------------- MODULE Caisse -------------------------------
(***************************************************************************)
(* The till: a blank card laid on the reader becomes a DEBIT card, and the *)
(* operator is asked what to add to a card that is one already.            *)
(***************************************************************************)
EXTENDS CardDesk

CONSTANT Limit  \* the largest amount the till accepts, 250 euros

ASSUME CaisseAssumption == Top = "poll" /\ Limit \in Int

vars == desk

Init == DeskInit

-----------------------------------------------------------------------------
AdminCard ==
    /\ Processing("ADMIN")
    /\ Leave
    /\ UNCHANGED history

(* An SOS or a CONSO card. *)
OtherCard ==
    /\ Processing("SOS") \/ Processing("CONSO")
    /\ EndTurn
    /\ UNCHANGED <<reader, mem, card, history>>

(* Mutant: an SOS card is made a DEBIT card too. *)
createAnyway(L) ==
    /\ Processing("BLANK") \/ Processing("SOS")
    /\ Lands(0, L)
    /\ Created(card, L)
    /\ EndTurn
    /\ UNCHANGED <<reader, card>>

(* A card of no known kind loses what it held: kind, credit and tickets    *)
(* are all written anew.                                                   *)
createDebit(L) ==
    /\ Processing("BLANK")
    /\ Lands(0, L)
    /\ Created(card, L)
    /\ EndTurn
    /\ UNCHANGED <<reader, card>>

Ask ==
    /\ Processing("DEBIT")
    /\ pc' = "prompt"
    /\ UNCHANGED <<reader, mem, copy, credit, history>>

TooMuch ==
    /\ pc = "typed" /\ credit > Limit
    /\ EndTurn
    /\ UNCHANGED <<reader, mem, card, history>>

(* incrementCredit, which returns early when nothing is to be added. *)
incrementCredit(L) ==
    /\ pc = "typed" /\ credit <= Limit
    /\ IF credit = 0
         THEN L = {} /\ UNCHANGED <<image, mem, owed>>
         ELSE AddCredit(credit, L)
    /\ pc' = "row"
    /\ UNCHANGED <<reader, card, credit, suspect>>

sendHistory ==
    /\ pc = "row"
    /\ Owe(card, credit)
    /\ EndTurn
    /\ UNCHANGED <<reader, mem, card, suspect>>

(* The row a power cut keeps from being sent is counted all the same. *)
PowerCut ==
    /\ Leave
    /\ IF pc = "row" THEN Owe(card, credit) ELSE UNCHANGED owed
    /\ UNCHANGED suspect

-----------------------------------------------------------------------------
Run ==
    \/ Loop \/ ReadThrows
    \/ AdminCard \/ OtherCard \/ Ask \/ TooMuch \/ sendHistory
    \/ \E L \in SUBSET Blocks : createDebit(L) \/ incrementCredit(L)

Next == Run \/ World \/ PowerCut

Spec == Init /\ [][Next]_vars

-----------------------------------------------------------------------------
(* Domains, and a Card is held wherever run() dereferences one. *)
TypeOK ==
    /\ DeskType
    /\ pc \in {"poll", "find", "read", "process", "prompt", "typed", "row"}

Pending(t) == IF pc = "row" /\ card = t THEN credit ELSE 0

(* While the operator types, the card may be lifted, spent elsewhere and   *)
(* put back: the top-up computed from the old credit then never reaches it *)
(* (caisse.cpp:90,97).  A DEBIT card about which no error was printed      *)
(* while it was read or created holds what its rows add up to, one whose   *)
(* write failed counting for nothing.                                      *)
Ledger ==
    \A t \in Tags \ suspect :
        mem[t].kind = "DEBIT" => mem[t].amt = owed[t] + Pending(t)

(* Laying the wrong card down never costs its holder the card: the till    *)
(* formats a card (caisse.cpp:73-76) only if it was blank, unless an error *)
(* about that card was printed.                                            *)
KindKept ==
    [][\A t \in Tags : mem'[t].kind # mem[t].kind =>
          mem[t].kind = "BLANK" \/ t \in suspect]_vars
=============================================================================
