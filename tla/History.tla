------------------------------ MODULE History ------------------------------
(***************************************************************************)
(* Where the rows of the modes go: Application::sendRequest sends each to  *)
(* every database that answered when the program started, one after the    *)
(* other, and never looks at what became of it.  The databases go down and *)
(* come up, the terminal may lose its power and is started again.          *)
(***************************************************************************)
EXTENDS Integers, Sequences, SequencesExt

CONSTANTS
    NbSqlInfo,  \* the databases of the configuration
    MaxRows     \* BOUND: rows the modes send

Servers == 1 .. NbSqlInfo
Rows    == 1 .. MaxRows

VARIABLES
    up,      \* the databases that answer
    table,   \* the history table of each, rows in the order they came
    m_mysql, \* the databases this run of the program sends to, in order
    next,    \* sendRequest's place in m_mysql, 0 when it is not running
    pc,      \* "boot", "run", or "off" when no database answered at start-up
    sent,    \* history: the rows the modes have handed to sendRequest
    missed,  \* history: for each database, the rows it did not take
    cut      \* history: the rows a power cut may have kept from a database

vars == <<up, table, m_mysql, next, pc, sent, missed, cut>>

Init ==
    /\ up \in SUBSET Servers
    /\ table = [s \in Servers |-> <<>>]
    /\ m_mysql = <<>> /\ next = 1 /\ pc = "boot"
    /\ sent = 0 /\ missed = [s \in Servers |-> {}] /\ cut = {}

-----------------------------------------------------------------------------
(* The servers and the power supply. *)

Crash(s) ==
    /\ s \in up /\ up' = up \ {s}
    /\ UNCHANGED <<table, m_mysql, next, pc, sent, missed, cut>>

Recover(s) ==
    /\ s \notin up /\ up' = up \cup {s}
    /\ UNCHANGED <<table, m_mysql, next, pc, sent, missed, cut>>

(* The power goes, perhaps in the middle of a row, and the program starts   *)
(* again.  The databases keep their tables.                                *)
PowerCut ==
    /\ m_mysql' = <<>> /\ next' = 1 /\ pc' = "boot"
    /\ cut' = IF pc = "run" /\ next # 0 THEN cut \cup {sent} ELSE cut
    /\ UNCHANGED <<up, table, sent, missed>>

-----------------------------------------------------------------------------
(* Start-up: the constructor of Mysql connects once, and throws if it      *)
(* cannot; the database is then left out until the program is restarted.   *)

Connect ==
    /\ pc = "boot" /\ next <= NbSqlInfo
    /\ m_mysql' = IF next \in up THEN Append(m_mysql, next) ELSE m_mysql
    /\ next' = next + 1
    /\ UNCHANGED <<up, table, pc, sent, missed, cut>>

Connected ==
    /\ pc = "boot" /\ next > NbSqlInfo
    /\ pc' = IF m_mysql = <<>> THEN "off" ELSE "run"
    /\ next' = 0
    /\ UNCHANGED <<up, table, m_mysql, sent, missed, cut>>

-----------------------------------------------------------------------------
(* The databases that are out of this run have missed the row already.     *)
LeftOut == Servers \ Range(m_mysql)

(* A mode sends its next row. *)
Request ==
    /\ pc = "run" /\ next = 0 /\ sent < MaxRows
    /\ sent' = sent + 1 /\ next' = 1
    /\ missed' = [s \in Servers |->
                    IF s \in LeftOut THEN missed[s] \cup {sent + 1} ELSE missed[s]]
    /\ UNCHANGED <<up, table, m_mysql, pc, cut>>

(* After the last database sendRequest returns. *)
Advance == next' = IF next < Len(m_mysql) THEN next + 1 ELSE 0

(* Mutant: a query whose answer was lost is sent again. *)
SendAgain ==
    /\ pc = "run" /\ next # 0 /\ m_mysql[next] \in up
    /\ Len(table[m_mysql[next]]) < MaxRows + 2
    /\ table' = [table EXCEPT ![m_mysql[next]] = Append(@, sent)]
    /\ next' \in {next, IF next < Len(m_mysql) THEN next + 1 ELSE 0}
    /\ UNCHANGED <<up, m_mysql, pc, sent, missed, cut>>

(* Mysql::sendRequest connects, runs the query and closes. *)
SendRow ==
    /\ pc = "run" /\ next # 0 /\ m_mysql[next] \in up
    /\ table' = [table EXCEPT ![m_mysql[next]] = Append(@, sent)]
    /\ Advance
    /\ UNCHANGED <<up, m_mysql, pc, sent, missed, cut>>

(* Mutant: the first database that does not answer ends the loop. *)
GiveUp ==
    /\ pc = "run" /\ next # 0 /\ m_mysql[next] \notin up
    /\ missed' = [missed EXCEPT ![m_mysql[next]] = @ \cup {sent}]
    /\ next' = 0
    /\ UNCHANGED <<up, table, m_mysql, pc, sent, cut>>

(* It cannot connect and returns false, or the query fails and it returns  *)
(* true all the same; nobody looks.                                        *)
MissRow ==
    /\ pc = "run" /\ next # 0
    /\ missed' = [missed EXCEPT ![m_mysql[next]] = @ \cup {sent}]
    /\ Advance
    /\ UNCHANGED <<up, table, m_mysql, pc, sent, cut>>

Terminal == Connect \/ Connected \/ Request \/ SendRow \/ MissRow
sendRequest == SendRow \/ MissRow

Next ==
    \/ Terminal \/ PowerCut
    \/ \E s \in Servers : Crash(s) \/ Recover(s)

Spec == Init /\ [][Next]_vars

-----------------------------------------------------------------------------
TypeOK ==
    /\ up \subseteq Servers
    /\ table \in [Servers -> Seq(Rows)]
    /\ m_mysql \in Seq(Servers)
    /\ next \in 0 .. NbSqlInfo + 1
    /\ pc \in {"boot", "run", "off"}
    /\ sent \in 0 .. MaxRows
    /\ missed \in [Servers -> SUBSET Rows]
    /\ cut \subseteq Rows
    /\ pc = "run" => next <= Len(m_mysql)

Has(s) == Range(table[s])

(* The databases still to get the row in flight. *)
Ahead == IF pc = "run" /\ next # 0
         THEN {m_mysql[i] : i \in next .. Len(m_mysql)} ELSE {}

(* A database lacks exactly the rows it was down for, or left out of,      *)
(* but for the row in flight and rows a power cut interrupted: one server  *)
(* that is down costs no other server a row (application.cpp:64-68).       *)
OnlyItsOwn ==
    \A s \in Servers :
        /\ Has(s) \cap missed[s] = {}
        /\ (1 .. sent) \ Has(s) \subseteq
               missed[s] \cup cut \cup (IF s \in Ahead THEN {sent} ELSE {})

(* Rows are in the order they were sent, each at most once, in every       *)
(* table: two tables can be merged into the history of the event, across   *)
(* servers that come and go and programs that are restarted.               *)
Mergeable ==
    \A s \in Servers : \A i, j \in DOMAIN table[s] :
        i < j => table[s][i] < table[s][j]
=============================================================================
