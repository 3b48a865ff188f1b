---------------------------- MODULE Application ----------------------------
(***************************************************************************)
(* The life of the program: the objects Application builds and frees, and  *)
(* the loop that runs one mode after the other.  The modes themselves are  *)
(* reduced to how run() may end: an ADMIN card ends BAR, CAISSE and KVE,   *)
(* and the admin menu sets the next mode, returns, quits, or throws.       *)
(***************************************************************************)
EXTENDS Integers

CONSTANT NbSqlInfo   \* the number of databases in the configuration

Desk    == {"BAR", "CAISSE", "KVE"}
Modes   == Desk \cup {"ADMIN"}
Objects == {"printer", "config", "nfc"}

VARIABLES
    heap,   \* of each object: "null", "live" or "freed"
    mode,   \* the mode in Config; "unset" before it is initialised
    sql,    \* m_mysql: the databases that answered at start-up
    db,     \* the next database to connect to
    obj,    \* the mode m_mode is an object of, "none" until the constructor ends
    tmp,    \* the local of run()
    pc,
    home    \* history: the desk chosen last, or the mode the program started in

vars == <<heap, mode, sql, db, obj, tmp, pc, home>>

Init ==
    /\ heap = [o \in Objects |-> IF o = "printer" THEN "live" ELSE "null"]
    /\ mode = "unset" /\ sql = {} /\ db = 1
    /\ obj = "none" /\ tmp = "unset" /\ pc = "config" /\ home = "unset"

-----------------------------------------------------------------------------
(* The constructor. *)

(* A mode name that is none of the four leaves m_mode as the memory was.   *)
NewConfig ==
    /\ pc = "config" /\ pc' = "sql"
    /\ heap' = [heap EXCEPT !["config"] = "live"]
    /\ mode' \in Modes \cup {"garbage"} /\ home' = mode'
    /\ UNCHANGED <<sql, db, obj, tmp>>

ConfigThrows ==
    /\ pc = "config" /\ pc' = "wait"
    /\ UNCHANGED <<heap, mode, sql, db, obj, tmp, home>>

(* A database that does not answer is left out for good. *)
Connect ==
    /\ pc = "sql" /\ db <= NbSqlInfo
    /\ sql' \in {sql, sql \cup {db}}
    /\ db' = db + 1
    /\ UNCHANGED <<heap, mode, obj, tmp, pc, home>>

Connected ==
    /\ pc = "sql" /\ db > NbSqlInfo
    /\ pc' = IF sql = {} THEN "wait" ELSE "nfc"
    /\ UNCHANGED <<heap, mode, sql, db, obj, tmp, home>>

NewNfc ==
    /\ pc = "nfc" /\ pc' = "create"
    /\ heap' = [heap EXCEPT !["nfc"] = "live"]
    /\ UNCHANGED <<mode, sql, db, obj, tmp, home>>

clean == heap' = [o \in Objects |-> IF heap[o] = "live" THEN "freed" ELSE heap[o]]

(* Mutant: the constructor of NfcDevice has its owner cleaned up as well. *)
NfcThrowsCleaned ==
    /\ pc = "nfc" /\ pc' = "wait"
    /\ clean
    /\ UNCHANGED <<mode, sql, db, obj, tmp, home>>

NfcThrows ==
    /\ pc = "nfc" /\ pc' = "wait"
    /\ UNCHANGED <<heap, mode, sql, db, obj, tmp, home>>

(* A key is pressed: the error is thrown on, out of the constructor, or    *)
(* into the handler of run(), which goes on.                               *)
CleanAndThrow ==
    /\ pc = "wait"
    /\ clean
    /\ pc' = IF obj = "none" THEN "dead" ELSE "loop"
    /\ UNCHANGED <<mode, sql, db, obj, tmp, home>>

-----------------------------------------------------------------------------
(* create_mode, called by the constructor and by run(). *)

CreateMode ==
    /\ pc = "create" /\ mode \in Modes
    /\ obj' = mode
    /\ pc' = IF obj = "none" THEN "loop" ELSE "restore"
    /\ UNCHANGED <<heap, mode, sql, db, tmp, home>>

ModeNotRecognized ==
    /\ pc = "create" /\ mode \notin Modes
    /\ pc' = "wait"
    /\ UNCHANGED <<heap, mode, sql, db, obj, tmp, home>>

-----------------------------------------------------------------------------
(* run(). *)

(* Mutant: the mode is saved once, before the loop. *)
SaveModeOnce ==
    /\ pc = "loop" /\ pc' = "mode"
    /\ tmp' = IF tmp = "unset" THEN mode ELSE tmp
    /\ UNCHANGED <<heap, mode, sql, db, obj, home>>

SaveMode ==
    /\ pc = "loop" /\ pc' = "mode"
    /\ tmp' = mode
    /\ UNCHANGED <<heap, mode, sql, db, obj, home>>

AdminCard ==
    /\ pc = "mode" /\ obj \in Desk
    /\ mode' = "ADMIN" /\ pc' = "create"
    /\ UNCHANGED <<heap, sql, db, obj, tmp, home>>

ChooseMode(m) ==
    /\ pc = "mode" /\ obj = "ADMIN"
    /\ mode' = m /\ home' = m
    /\ UNCHANGED <<heap, sql, db, obj, tmp, pc>>

LeaveAdmin ==
    /\ pc = "mode" /\ obj = "ADMIN"
    /\ pc' = "create"
    /\ UNCHANGED <<heap, mode, sql, db, obj, tmp, home>>

(* Creating a card throws, on a tag that is not supported: Admin catches   *)
(* nothing, run() does, and the same mode object runs again.               *)
AdminThrows ==
    /\ pc = "mode" /\ obj = "ADMIN"
    /\ pc' = "loop"
    /\ UNCHANGED <<heap, mode, sql, db, obj, tmp, home>>

(* The saved mode comes back while the admin menu runs. *)
RestoreMode ==
    /\ pc = "restore" /\ pc' = "loop"
    /\ mode' = IF mode = "ADMIN" THEN tmp ELSE mode
    /\ UNCHANGED <<heap, sql, db, obj, tmp, home>>

QuitProgram ==
    /\ pc = "mode" /\ obj = "ADMIN"
    /\ clean
    /\ pc' = "dead"
    /\ UNCHANGED <<mode, sql, db, obj, tmp, home>>

-----------------------------------------------------------------------------
Next ==
    \/ NewConfig \/ ConfigThrows \/ Connect \/ Connected \/ NewNfc \/ NfcThrows
    \/ CleanAndThrow \/ CreateMode \/ ModeNotRecognized
    \/ SaveMode \/ AdminCard \/ LeaveAdmin \/ AdminThrows \/ RestoreMode \/ QuitProgram
    \/ \E m \in Desk : ChooseMode(m)

Spec == Init /\ [][Next]_vars

-----------------------------------------------------------------------------
Boot    == {"config", "sql", "nfc"}
Running == {"loop", "mode", "restore"}

(* Domains, and what is built at each point of the constructor. *)
TypeOK ==
    /\ heap \in [Objects -> {"null", "live", "freed"}]
    /\ mode \in Modes \cup {"unset", "garbage"}
    /\ sql \subseteq 1 .. NbSqlInfo
    /\ db \in 1 .. NbSqlInfo + 1
    /\ obj \in Modes \cup {"none"}
    /\ tmp \in Modes \cup {"unset", "garbage"}
    /\ pc \in Boot \cup Running \cup {"create", "wait", "dead"}
    /\ home \in Modes \cup {"unset", "garbage"}

(* Nothing is used after clean() has freed it, or freed twice: what runs   *)
(* the modes finds all three objects alive, although clean() leaves the    *)
(* pointers set and run() would carry on after a failed create_mode        *)
(* (application.cpp:52-57, 83-87, 109).                                    *)
NoDangling ==
    /\ pc \in Boot \cup {"wait"} => \A o \in Objects : heap[o] # "freed"
    /\ pc \in Running \cup {"create"} => \A o \in Objects : heap[o] = "live"

(* The mode saved in tmp finds its way back (application.cpp:99,104-107):  *)
(* whenever a mode runs, Config names the desk to return to, and a desk    *)
(* that runs is that desk, however often the menu was entered, changed the *)
(* mode or was left by an exception.                                       *)
HomeKept ==
    pc = "mode" => mode = home /\ (obj \in Desk => obj = home)

(* A running mode is replaced by the admin menu only, and the menu by the  *)
(* desk it was entered from or that was chosen in it.                      *)
ReturnsHome ==
    [][obj # "none" /\ obj' # obj => obj' = IF obj = "ADMIN" THEN home ELSE "ADMIN"]_vars
=============================================================================
