------------------------------ MODULE CasCard ------------------------------
(***************************************************************************)
(* What the terminal promises about the blocks of a card it works on: a    *)
(* block is written by compare-and-swap against what the terminal last saw *)
(* of it, blindly only when the terminal never saw it, and without that    *)
(* guarantee only once an error about some block has been printed.         *)
(***************************************************************************)
CONSTANTS Tags, Blocks, Values, NoTag, Unseen

VARIABLES
    field,   \* the tag lying on the reader, or NoTag
    mem,     \* the content of every tag
    held,    \* the tag of the terminal's current session, or NoTag
    seen,    \* what the session last saw in each block, or Unseen
    tainted  \* an error about a block was printed in this session

vars == <<field, mem, held, seen, tainted>>

Init ==
    /\ field = NoTag
    /\ mem \in [Tags -> [Blocks -> Values]]
    /\ held = NoTag
    /\ seen = [b \in Blocks |-> Unseen]
    /\ tainted = FALSE

Move ==
    /\ field' \in Tags \cup {NoTag}
    /\ UNCHANGED <<mem, held, seen, tainted>>

(* Another terminal rewrites a block of a tag that is not on this reader. *)
Foreign(t, b, v) ==
    /\ field # t
    /\ mem' = [mem EXCEPT ![t][b] = v]
    /\ UNCHANGED <<field, held, seen, tainted>>

NewSession ==
    /\ held' \in {field, NoTag}
    /\ seen' = [b \in Blocks |-> Unseen]
    /\ tainted' = FALSE
    /\ UNCHANGED <<field, mem>>

Observe(b) ==
    /\ held # NoTag
    /\ seen' = [seen EXCEPT ![b] = mem[held][b]]
    /\ UNCHANGED <<field, mem, held, tainted>>

(* The swap; its acknowledgement may be lost, and seen is then left as it was. *)
Swap(b, v) ==
    /\ held # NoTag
    /\ field = held
    /\ seen[b] \in {Unseen, mem[held][b]} \/ tainted
    /\ mem' = [mem EXCEPT ![held][b] = v]
    /\ seen' \in {seen, [seen EXCEPT ![b] = v]}
    /\ UNCHANGED <<field, held, tainted>>

Report ==
    /\ tainted' = TRUE
    /\ UNCHANGED <<field, mem, held, seen>>

Next ==
    \/ Move
    \/ NewSession
    \/ Report
    \/ \E b \in Blocks : Observe(b)
    \/ \E b \in Blocks, v \in Values : Swap(b, v)
    \/ \E t \in Tags, b \in Blocks, v \in Values : Foreign(t, b, v)

Spec == Init /\ [][Next]_vars
=============================================================================
