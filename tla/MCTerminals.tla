---------------------------- MODULE MCTerminals -----------------------------
(***************************************************************************)
(* What runs on the terminals, one part at a time:                         *)
(*   event        the till and the counter of one evening, and the cards   *)
(*                carried between the two readers;                         *)
(*   admin        the menu of the administrator, with cards used before    *)
(*                and a tag of another kind;                               *)
(*   application  the program around the modes;                            *)
(*   trailer      the access bits and the keys of a cached sector;         *)
(*   history      the rows that are sent to every database.                *)
(***************************************************************************)
EXTENDS Event, TLC

CONSTANTS
    Parts,  \* which of them a run takes
    MenuTags, MenuUnsupported, MenuCredits, \* the cards laid down for the menu
    NbConso, TicketIndex, Content,
    NbSqlInfo, MaxRows,
    Sizes, SectorKeys, NoKey, MaxCalls,
    a1, a2, m1, m2   \* two cards of the event, two of the menu

VARIABLES
    part,
    field, cards, card, image, modified, broken, asked, id, pc, made, lost,
    heap, mode, sql, db, obj, tmp, at, home,
    size, bytes, m_key, m_keyB, told, keyA, keyB, calls,
    up, table, m_mysql, next, stage, sent, missed, cut

menu    == <<field, cards, card, image, modified, broken, asked, id, pc, made, lost>>
program == <<heap, mode, sql, db, obj, tmp, at, home>>
trailer == <<size, bytes, m_key, m_keyB, told, keyA, keyB, calls>>
rows    == <<up, table, m_mysql, next, stage, sent, missed, cut>>

M == INSTANCE Admin WITH
    Tags <- MenuTags, Unsupported <- MenuUnsupported, Credits <- MenuCredits, mem <- cards

A == INSTANCE Application WITH pc <- at

S == INSTANCE Sector WITH last <- bytes, Keys <- SectorKeys

H == INSTANCE History WITH pc <- stage

(* The parts that stand still are in one state. *)
MCInit ==
    /\ part \in Parts
    /\ Init /\ M!Init /\ A!Init /\ S!Init /\ H!Init
    /\ part # "admin" => \A t \in MenuTags \ MenuUnsupported : cards[t] = M!Nothing
    /\ part # "trailer" => size = 4 /\ bytes = S!Zeroed /\ ~m_keyB
    /\ part # "history" => up = {}

MCNext ==
    \/ part = "event" /\ Next /\ UNCHANGED <<part, menu, program, trailer, rows>>
    \/ part = "admin" /\ M!Next /\ UNCHANGED <<part, vars, program, trailer, rows>>
    \/ part = "application" /\ A!Next /\ UNCHANGED <<part, vars, menu, trailer, rows>>
    \/ part = "trailer" /\ S!Next /\ UNCHANGED <<part, vars, menu, program, rows>>
    \/ part = "history" /\ H!Next /\ UNCHANGED <<part, vars, menu, program, trailer>>

MCSpec == MCInit /\ [][MCNext]_<<part, vars, menu, program, trailer, rows>>

ASSUME TerminalsAssumption ==
    /\ MenuUnsupported \subseteq MenuTags /\ NoTag \notin MenuTags
    /\ NbConso \in Nat /\ TicketIndex \in -1 .. NbConso - 1
    /\ MenuCredits \subseteq Int
    /\ \A c \in Content : c = [b \in M!Blocks |-> c[b]]
    /\ NbSqlInfo \in Nat /\ MaxRows \in Nat
    /\ Sizes \subseteq Nat /\ SectorKeys \subseteq [0..5 -> 0..255]

-----------------------------------------------------------------------------
(* Admin: a card written without an error is what the menu said, and what *)
(* it was given since.                                                     *)
AsAsked == M!AsAsked

(* "Mauvaise conso" (admin.cpp:95): a CONSO card is of one of the consos. *)
ConsoKnown == M!ConsoKnown

(* Application: nothing is used after clean() has freed it. *)
NoDangling == A!NoDangling

(* Application: the admin menu leads back to the desk it was entered from. *)
ReturnsHome == A!ReturnsHome

(* Sector: permissions and keys are where a card looks for them. *)
TrailerSays == S!TrailerSays

(* History: a database lacks only what it was down for, or left out of, the *)
(* row in flight and those a power cut took.                               *)
OnlyItsOwn == H!OnlyItsOwn

(* History: every table has its rows in the order they were sent, once.    *)
Mergeable == H!Mergeable

-----------------------------------------------------------------------------
MCSymmetry == Permutations({m1, m2})

(* A card with a ticket, and a blank one with bytes of an earlier use. *)
MCCards   == (a1 :> [kind |-> "DEBIT", amt |-> 1, cnt |-> 1, tid |-> 0])
          @@ (a2 :> [kind |-> "BLANK", amt |-> 1, cnt |-> 0, tid |-> 0])
MCCredits == -1 .. 1
MCTyped   == {-1, 1}
MCContent == {[b \in 0..2 |-> IF b = 0 THEN "BLANK" ELSE 0],
              [b \in 0..2 |-> IF b = 0 THEN "DEBIT" ELSE IF b = 1 THEN 5 ELSE 0]}
MCKeys    == {[i \in 0..5 |-> 16 + i], [i \in 0..5 |-> 32 + i]}
=============================================================================
