---------------------------- MODULE RegisterFile ----------------------------
(***************************************************************************)
(* What the write-back cache of the PN53x promises to who writes registers *)
(* through it: the registers read as if each masked write had been done at *)
(* once, until a write-back fails, and then either every write that waited *)
(* is in the chip or every one of them is forgotten.                       *)
(***************************************************************************)
CONSTANTS Register, Bit

VARIABLES
    reg,  \* the registers as the writes left them
    hw    \* the registers as the chip has them

vars == <<reg, hw>>

Values == [Register -> SUBSET Bit]

(* The value of a register after a masked write to it. *)
Masked(old, mask, value) == (value \cap mask) \cup (old \ mask)

Init == hw \in Values /\ reg = hw

Write(r, mask, value) ==
    /\ reg' = [reg EXCEPT ![r] = Masked(reg[r], mask, value)]
    /\ UNCHANGED hw

(* A write that does not wait. *)
Poke(r, value) ==
    /\ reg' = [reg EXCEPT ![r] = value]
    /\ hw' = [hw EXCEPT ![r] = value]

Settle == hw' = reg /\ UNCHANGED reg

Forget == reg' = hw /\ UNCHANGED hw

(* A write of some bits is a write of them all, the others as they were: it *)
(* is enough to let the register have any new value.                       *)
Next ==
    \/ \E r \in Register : Write(r, Bit, reg'[r])
    \/ \E r \in Register : reg'[r] \subseteq Bit /\ Poke(r, reg'[r])
    \/ Settle
    \/ Forget

Spec == Init /\ [][Next]_vars
=============================================================================
