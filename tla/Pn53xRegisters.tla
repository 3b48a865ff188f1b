--------------------------- MODULE Pn53xRegisters ---------------------------
(***************************************************************************)
(* The registers of the PN53x seen through libnfc (chips/pn53x.c).         *)
(* pn53x_write_register only notes a masked write to a register of the     *)
(* cached range; the next pn53x_transceive, whatever its command, first    *)
(* reads the registers that are written in part, then writes all those     *)
(* that change, then sends its command.  Each exchange with the chip may   *)
(* fail, before the chip has done it or after.  A register is the set of   *)
(* its bits that are 1, and a mask a set of bits.                          *)
(***************************************************************************)
EXTENDS Naturals

CONSTANTS
    CachedRegister,  \* the registers of the write-back range
    DirectRegister,  \* the others
    Bit,
    Command,         \* the commands other than those on registers
    MaxFaults        \* BOUND: exchanges with the chip that fail

ASSUME RegistersAssumption ==
    /\ CachedRegister \cap DirectRegister = {} /\ MaxFaults \in Nat
    /\ \A c \in Command : c.op \notin {"ReadRegister", "WriteRegister", "Update"}

Register == CachedRegister \cup DirectRegister

Full == Bit  \* the mask 0xff

VARIABLES
    chip,       \* the registers in the chip
    wb_data, wb_mask, wb_trigged,
    pc,         \* the exchange awaited: "idle", "read" and "write" of the write-back, "cmd"
    cmd,        \* the command pn53x_transceive was called with
    res,        \* how the last call ended: "ok", or "error"
    faults,     \* exchanges that failed
    stranded    \* history: a write-back failed to read, no write has asked for another

queue == <<wb_data, wb_mask, wb_trigged>>
vars == <<chip, wb_data, wb_mask, wb_trigged, pc, cmd, res, faults, stranded>>

RegisterCommand ==
    [op : {"ReadRegister"}, reg : Register]
    \cup [op : {"WriteRegister"}, reg : DirectRegister, value : SUBSET Bit]
    \cup [op : {"Update"}, reg : DirectRegister, mask : SUBSET Bit, value : SUBSET Bit]

NoCommand == [op |-> "None"]

Masked(old, mask, value) == (value \cap mask) \cup (old \ mask)

Partial(mask) == {r \in CachedRegister : mask[r] # {} /\ mask[r] # Full}
Whole(mask)   == {r \in CachedRegister : mask[r] = Full}

(* pn53x_data_new: the write-back cache is clean. *)
Clean ==
    /\ wb_mask = [r \in CachedRegister |-> {}] /\ wb_trigged = FALSE
    /\ pc = "idle" /\ cmd = NoCommand /\ res = "ok" /\ faults = 0 /\ stranded = FALSE

Init ==
    /\ chip \in [Register -> SUBSET Bit]
    /\ wb_data \in [CachedRegister -> SUBSET Bit]  \* malloc, not cleared
    /\ Clean

-----------------------------------------------------------------------------
(* pn53x_write_register, for a register of the cached range. *)
Note(r, mask, value) ==
    /\ wb_data' = [wb_data EXCEPT ![r] = ((@ \cap wb_mask[r]) \ mask) \cup (value \cap mask)]
    /\ wb_mask' = [wb_mask EXCEPT ![r] = @ \cup mask]
    /\ wb_trigged' = TRUE /\ stranded' = FALSE

(* Mutant: nothing is written after a read. *)
AfterCommand(mask) == "cmd"

(* What follows the read-back in pn53x_transceive. *)
After(mask) == IF Whole(mask) # {} THEN "write" ELSE "cmd"

pn53x_transceive(c) ==
    /\ pc = "idle"
    /\ cmd' = c
    /\ pc' = IF ~wb_trigged THEN "cmd"
             ELSE IF Partial(wb_mask) # {} THEN "read" ELSE After(wb_mask)
    /\ wb_trigged' = FALSE
    /\ UNCHANGED <<chip, wb_data, wb_mask, res, faults, stranded>>

-----------------------------------------------------------------------------
(* pn53x_writeback_register. *)

(* Mutant: the chip's bits are kept where the mask is set. *)
ReadBackSwapped ==
    /\ pc = "read"
    /\ wb_data' = [r \in CachedRegister |->
            IF r \in Partial(wb_mask)
            THEN (wb_data[r] \ wb_mask[r]) \cup (chip[r] \cap wb_mask[r]) ELSE wb_data[r]]
    /\ wb_mask' = [r \in CachedRegister |->
            IF r \in Partial(wb_mask)
            THEN IF wb_data'[r] # chip[r] THEN Full ELSE {} ELSE wb_mask[r]]
    /\ pc' = After(wb_mask')
    /\ UNCHANGED <<chip, wb_trigged, cmd, res, faults, stranded>>

(* Its ReadRegister is answered. *)
ReadBack ==
    /\ pc = "read"
    /\ wb_data' = [r \in CachedRegister |->
            IF r \in Partial(wb_mask)
            THEN (wb_data[r] \cap wb_mask[r]) \cup (chip[r] \ wb_mask[r]) ELSE wb_data[r]]
    /\ wb_mask' = [r \in CachedRegister |->
            IF r \in Partial(wb_mask)
            THEN IF wb_data'[r] # chip[r] THEN Full ELSE {} ELSE wb_mask[r]]
    /\ pc' = After(wb_mask')
    /\ UNCHANGED <<chip, wb_trigged, cmd, res, faults, stranded>>

(* The chip executes its WriteRegister. *)
Written == [r \in Register |-> IF r \in Whole(wb_mask) THEN wb_data[r] ELSE chip[r]]

Cleared == [r \in CachedRegister |-> IF wb_mask[r] = Full THEN {} ELSE wb_mask[r]]

WriteBack ==
    /\ pc = "write" /\ chip' = Written /\ wb_mask' = Cleared /\ pc' = "cmd"
    /\ UNCHANGED <<wb_data, wb_trigged, cmd, res, faults, stranded>>

-----------------------------------------------------------------------------
(* The command itself.  A masked write to a register that is not cached is  *)
(* a read, then a write if it changes anything.                            *)

Executed ==
    IF cmd.op = "WriteRegister" THEN [chip EXCEPT ![cmd.reg] = cmd.value] ELSE chip

New == Masked(chip[cmd.reg], cmd.mask, cmd.value)

ReadDirect ==
    /\ pc = "cmd" /\ cmd.op = "Update" /\ New # chip[cmd.reg]
    /\ cmd' = [op |-> "WriteRegister", reg |-> cmd.reg, value |-> New]
    /\ UNCHANGED <<chip, queue, pc, res, faults, stranded>>

Answer ==
    /\ pc = "cmd" /\ (cmd.op = "Update" => New = chip[cmd.reg])
    /\ chip' = Executed
    /\ pc' = "idle" /\ cmd' = NoCommand /\ res' = "ok"
    /\ UNCHANGED <<queue, faults, stranded>>

(* An exchange fails: the command or its answer is lost on the way.  The    *)
(* masks are cleared before the write-back is sent, and stay so.           *)
Fail(done) ==
    /\ pc # "idle" /\ faults < MaxFaults
    /\ chip' = IF ~done THEN chip ELSE CASE pc = "read" -> chip
                                         [] pc = "write" -> Written
                                         [] pc = "cmd" -> Executed
    /\ wb_mask' = IF pc = "write" THEN Cleared ELSE wb_mask
    /\ stranded' = (stranded \/ pc = "read")
    /\ pc' = "idle" /\ cmd' = NoCommand /\ res' = "error" /\ faults' = faults + 1
    /\ UNCHANGED <<wb_data, wb_trigged>>

pn53x_write_register(r, mask, value) ==
    /\ pc = "idle" /\ Note(r, mask, value) /\ res' = "ok"
    /\ UNCHANGED <<chip, pc, cmd, faults>>

pn53x_write_direct(r, mask, value) ==
    pn53x_transceive(IF mask # Full THEN [op |-> "Update", reg |-> r, mask |-> mask, value |-> value]
                     ELSE [op |-> "WriteRegister", reg |-> r, value |-> value])

Exchange == ReadBack \/ WriteBack \/ ReadDirect \/ Answer \/ \E done \in BOOLEAN : Fail(done)

Next ==
    \/ \E r \in CachedRegister, mask, value \in SUBSET Bit : pn53x_write_register(r, mask, value)
    \/ \E r \in DirectRegister, mask, value \in SUBSET Bit : pn53x_write_direct(r, mask, value)
    \/ \E r \in Register : pn53x_transceive([op |-> "ReadRegister", reg |-> r])
    \/ \E c \in Command : pn53x_transceive(c)
    \/ Exchange

Spec == Init /\ [][Next]_vars

-----------------------------------------------------------------------------
TypeOK ==
    /\ chip \in [Register -> SUBSET Bit]
    /\ wb_data \in [CachedRegister -> SUBSET Bit] /\ wb_mask \in [CachedRegister -> SUBSET Bit]
    /\ wb_trigged \in BOOLEAN /\ stranded \in BOOLEAN
    /\ pc \in {"idle", "read", "write", "cmd"} /\ res \in {"ok", "error"}
    /\ cmd \in RegisterCommand \cup Command \cup {NoCommand}
    /\ faults \in 0 .. MaxFaults
    /\ pc = "write" => Partial(wb_mask) = {}

(* The registers as the calls to pn53x_write_register left them. *)
Asked == [r \in Register |->
             IF r \in CachedRegister THEN Masked(chip[r], wb_mask[r], wb_data[r]) ELSE chip[r]]

(* The chip never executes a command before the register writes asked for   *)
(* earlier, except when the read of a write-back has failed: wb_trigged was *)
(* reset before it, and the writes wait until another is asked for.        *)
CommandSeesWrites == pc = "cmd" /\ ~stranded => Asked = chip

(* wb_trigged never misses a write that waits, with the same exception.     *)
NothingWaitsUnseen ==
    pc = "idle" /\ ~wb_trigged /\ ~stranded => \A r \in CachedRegister : wb_mask[r] = {}

(* The cache is a register file whose writes are done at once, as long as  *)
(* no write-back fails: RegisterFile says what a failure may do.           *)
File == INSTANCE RegisterFile WITH reg <- Asked, hw <- chip

Writethrough == File!Spec

=============================================================================
