------------------------------- MODULE Screen -------------------------------
(***************************************************************************)
(* The lines of the LCD: a mode queues messages, print() shows the first   *)
(* of each line.  A message with a time is wiped after so many seconds, a  *)
(* message without one stays until the next comes.                         *)
(***************************************************************************)
EXTENDS Integers, Sequences

CONSTANTS
    Lines,    \* the lines of m_screen
    Messages, \* what is queued: [message |-> a text, time |-> seconds]
    Blank,    \* an empty line
    MaxQueue  \* BOUND: messages waiting for one line

VARIABLES
    m_screen, \* per line, the messages
    age,      \* per line, seconds since the first was printed, -1 if it was not
    lcd       \* what the display shows

vars == <<m_screen, age, lcd>>

Init ==
    /\ m_screen = [l \in Lines |-> <<>>]
    /\ age = [l \in Lines |-> -1]
    /\ lcd = [l \in Lines |-> Blank]

setCommand(l, m) ==
    /\ Len(m_screen[l]) < MaxQueue
    /\ m_screen' = [m_screen EXCEPT ![l] = Append(@, m)]
    /\ UNCHANGED <<age, lcd>>

Front(l)   == Head(m_screen[l])
Waiting(l) == m_screen[l] # <<>> /\ age[l] = -1

(* Mutant: only a message with a time gives way to the next. *)
OverTimed(l) ==
    /\ m_screen[l] # <<>> /\ age[l] # -1
    /\ Front(l).time # 0 /\ age[l] >= Front(l).time

Over(l) ==
    /\ m_screen[l] # <<>> /\ age[l] # -1
    /\ IF Front(l).time # 0 THEN age[l] >= Front(l).time ELSE Len(m_screen[l]) > 1

(* Once in each turn of the mode's loop, on all lines. *)
print ==
    /\ m_screen' = [l \in Lines |-> IF Over(l) THEN Tail(m_screen[l]) ELSE m_screen[l]]
    /\ age' = [l \in Lines |-> IF Waiting(l) THEN 0 ELSE IF Over(l) THEN -1 ELSE age[l]]
    /\ lcd' = [l \in Lines |-> IF Waiting(l) THEN Front(l).message ELSE IF Over(l) THEN Blank ELSE lcd[l]]

(* Seconds beyond the message's time make no difference. *)
Second ==
    /\ age' = [l \in Lines |-> IF age[l] # -1 /\ age[l] < Front(l).time THEN age[l] + 1 ELSE age[l]]
    /\ UNCHANGED <<m_screen, lcd>>

Next ==
    \/ \E l \in Lines, m \in Messages : setCommand(l, m)
    \/ print \/ Second

(* The loop of the mode goes on, and so does the clock. *)
Spec == Init /\ [][Next]_vars /\ WF_vars(print) /\ WF_vars(Second)

-----------------------------------------------------------------------------
Settled ==
    \A l \in Lines :
        \/ m_screen[l] = <<>> /\ lcd[l] = Blank
        \/ Len(m_screen[l]) = 1 /\ Front(l).time = 0 /\ lcd[l] = Front(l).message

Queued == \E l \in Lines : Len(m_screen'[l]) > Len(m_screen[l])

(* However many messages pile up, the display catches up once the mode is  *)
(* quiet: it ends with the last lasting message of each line, or nothing   *)
(* after a passing one (mode.cpp:24-37).                                   *)
CatchesUp == []<><<Queued>>_vars \/ <>[]Settled
=============================================================================
