------------------------------- MODULE Event -------------------------------
(***************************************************************************)
(* Two terminals of one event, a till and a Kve counter, and the cards     *)
(* that customers carry between them.  Each terminal has a reader and a    *)
(* program of its own; all they share is what the cards hold, and the rows.*)
(***************************************************************************)
EXTENDS Integers, FiniteSets

CONSTANTS Tags, Unsupported, InitCard, Credits, MaxSuspect, Typed, Limit, NoTag

VARIABLES
    mem, owed, suspect,                      \* the cards and their rows
    tField, tCard, tImage, tBroken, tCredit, tPc,   \* the till
    kField, kCard, kImage, kBroken, kCredit, kPc,   \* the counter
    ticket, late, armed

Till == INSTANCE Caisse WITH
    Top <- "poll", field <- tField, card <- tCard, image <- tImage,
    broken <- tBroken, credit <- tCredit, pc <- tPc

Counter == INSTANCE Kve WITH
    Top <- "top", field <- kField, card <- kCard, image <- kImage,
    broken <- kBroken, credit <- kCredit, pc <- kPc

ASSUME EventAssumption ==
    /\ Unsupported \subseteq Tags /\ NoTag \notin Tags
    /\ InitCard \in [Tags -> Till!Card]
    /\ Credits \subseteq Int /\ Typed \subseteq Int
    /\ MaxSuspect \in Nat /\ Limit \in Int

till    == <<tField, tCard, tImage, tBroken, tCredit, tPc>>
counter == <<kField, kCard, kImage, kBroken, kCredit, kPc, ticket, late, armed>>
vars    == <<mem, owed, suspect, till, counter>>

Init == Till!Init /\ Counter!Init

-----------------------------------------------------------------------------
TillRun == (Till!Run \/ Till!PowerCut) /\ UNCHANGED counter

CounterRun == (Counter!Run \/ Counter!Tick \/ Counter!PowerCut) /\ UNCHANGED till

(* A card lies on one reader at a time. *)
Carry ==
    \/ Till!Remove /\ UNCHANGED counter
    \/ Counter!Remove /\ UNCHANGED <<till, ticket, late, armed>>
    \/ \E t \in Tags \ {kField} : Till!Place(t) /\ UNCHANGED counter
    \/ \E t \in Tags \ {tField} : Counter!Place(t) /\ UNCHANGED <<till, ticket, late, armed>>

Next == TillRun \/ CounterRun \/ Carry

Spec == Init /\ [][Next]_vars

-----------------------------------------------------------------------------
(* Money is neither made nor lost between the terminals: with a top-up     *)
(* typed at the till while the card is being debited at the counter, lifted*)
(* and swapped at will, a DEBIT card about which no error was printed holds*)
(* what the rows of both terminals add up to (caisse.cpp:90-103,           *)
(* kve.cpp:111-124).                                                       *)
Ledger ==
    \A t \in Tags \ suspect :
        mem[t].kind = "DEBIT" =>
            mem[t].amt = owed[t] + Till!Pending(t) - Counter!Pending(t)

(* What the other terminal's pending amount hides of an account.           *)
TillOwed    == [t \in Tags |-> IF t \in suspect THEN 0 ELSE owed[t] - Counter!Pending(t)]
CounterOwed == [t \in Tags |-> IF t \in suspect THEN 0 ELSE owed[t] + Till!Pending(t)]

TillWorld == INSTANCE Caisse WITH
    Top <- "poll", field <- tField, card <- tCard, image <- tImage,
    broken <- tBroken, credit <- tCredit, pc <- tPc, owed <- TillOwed

CounterWorld == INSTANCE Kve WITH
    Top <- "top", field <- kField, card <- kCard, image <- kImage,
    broken <- kBroken, credit <- kCredit, pc <- kPc, owed <- CounterOwed

(* What each terminal's theorems take from its surroundings, the other     *)
(* terminal gives: seen from the counter, every step of the till is one    *)
(* that leaves a card lying here alone, moves the credit of a card with its*)
(* account, and makes a card only of a blank one, unless an error was      *)
(* printed about it; and the other way round (caisse.cpp:73-98,            *)
(* kve.cpp:102-116).                                                       *)
Relies == TillWorld!Spec /\ CounterWorld!Spec
=============================================================================
