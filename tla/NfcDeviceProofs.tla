--------------------------- MODULE NfcDeviceProofs ---------------------------
(***************************************************************************)
(* The PN53x behind the reader, for every set of registers, bits and       *)
(* targets and any number of calls and of failing exchanges.               *)
(*   The registers: nothing waits unseen, no command overtakes a write, and *)
(*   the cache implements RegisterFile.                                    *)
(*   The settings and NfcDevice above them: their steps are steps of the   *)
(*   registers, the three copies of the number of tries agree, the copies  *)
(*   of the settings say what the chip holds or will, and                  *)
(*   nfc_initiator_init does what its documentation says.                  *)
(*   The targets: what a call says of a target was so meanwhile.           *)
(***************************************************************************)
EXTENDS MCNfcDevice, TLAPS

(* Outside a call, and when the command's turn has come, nothing waits that *)
(* wb_trigged does not tell of, unless a write-back failed to read; within *)
(* a call wb_trigged is reset.                                             *)
Told ==
    /\ pc # "idle" => ~wb_trigged
    /\ pc \in {"idle", "cmd"} /\ ~wb_trigged /\ ~stranded => \A r \in CachedRegister : wb_mask[r] = {}

Inv == TypeOK /\ Told

-----------------------------------------------------------------------------
(* What stays to be written when no write in part is left. *)
LEMMA NonePartial ==
    ASSUME NEW mask \in [CachedRegister -> SUBSET Bit], Partial(mask) = {}
    PROVE  /\ \A r \in CachedRegister : mask[r] \in {{}, Full}
           /\ Whole(mask) = {} => \A r \in CachedRegister : mask[r] = {}
BY DEF Partial, Whole, Full

LEMMA ClearedAll ==
    ASSUME TypeOK, Partial(wb_mask) = {}
    PROVE  /\ Cleared \in [CachedRegister -> SUBSET Bit]
           /\ \A r \in CachedRegister : Cleared[r] = {}
<1>1. \A r \in CachedRegister : wb_mask[r] \in {{}, Full}
    BY NonePartial DEF TypeOK
<1> QED  BY <1>1 DEF Cleared, TypeOK

LEMMA WrittenType == TypeOK => Written \in [Register -> SUBSET Bit]
BY DEF TypeOK, Written, Register, Whole

LEMMA CommandType ==
    ASSUME TypeOK, cmd.op \in {"WriteRegister", "Update"}
    PROVE  /\ cmd.reg \in DirectRegister /\ cmd.value \in SUBSET Bit
           /\ cmd.op = "Update" => cmd.mask \in SUBSET Bit
<1>1. cmd \notin Command
    BY RegistersAssumption
<1>2. cmd # NoCommand
    BY DEF NoCommand
<1>3. cmd \in RegisterCommand
    BY <1>1, <1>2 DEF TypeOK
<1>4. CASE cmd \in [op : {"ReadRegister"}, reg : Register]
    BY <1>4
<1>5. CASE cmd \in [op : {"WriteRegister"}, reg : DirectRegister, value : SUBSET Bit]
    BY <1>5
<1>6. CASE cmd \in [op : {"Update"}, reg : DirectRegister, mask : SUBSET Bit, value : SUBSET Bit]
    BY <1>6
<1> QED  BY <1>3, <1>4, <1>5, <1>6 DEF RegisterCommand

(* A command changes one register that is not cached, or none. *)
LEMMA ExecutedType ==
    ASSUME TypeOK
    PROVE  /\ Executed \in [Register -> SUBSET Bit]
           /\ Executed = chip \/ (/\ cmd.reg \in DirectRegister /\ cmd.value \in SUBSET Bit
                                 /\ Executed = [chip EXCEPT ![cmd.reg] = cmd.value])
<1>1. CASE cmd.op = "WriteRegister"
    BY <1>1, CommandType DEF Executed, TypeOK, Register
<1>2. CASE cmd.op # "WriteRegister"
    BY <1>2 DEF Executed, TypeOK
<1> QED  BY <1>1, <1>2

LEMMA NewType == TypeOK /\ cmd.op = "Update" => New \in SUBSET Bit
<1> SUFFICES ASSUME TypeOK, cmd.op = "Update" PROVE New \in SUBSET Bit
    OBVIOUS
<1>1. cmd.reg \in DirectRegister /\ cmd.value \in SUBSET Bit
    BY CommandType
<1>2. chip[cmd.reg] \in SUBSET Bit
    BY <1>1 DEF TypeOK, Register
<1> QED  BY <1>1, <1>2 DEF New, Masked

-----------------------------------------------------------------------------
LEMMA InitInv == Init => Inv
<1> SUFFICES ASSUME Init PROVE Inv
    OBVIOUS
<1>1. Partial(wb_mask) = {}
    BY DEF Init, Clean, Partial
<1>2. wb_mask \in [CachedRegister -> SUBSET Bit] /\ \A r \in CachedRegister : wb_mask[r] = {}
    BY DEF Init, Clean
<1>3. faults \in 0 .. MaxFaults
    BY RegistersAssumption DEF Init, Clean
<1>4. TypeOK
    BY <1>1, <1>2, <1>3 DEF Init, Clean, TypeOK
<1>5. Told
    BY <1>2 DEF Init, Clean, Told
<1> QED  BY <1>4, <1>5 DEF Inv

LEMMA NoteInv ==
    ASSUME Inv, NEW r \in CachedRegister, NEW mask \in SUBSET Bit, NEW value \in SUBSET Bit,
           pn53x_write_register(r, mask, value)
    PROVE  Inv'
<1>1. wb_data' \in [CachedRegister -> SUBSET Bit] /\ wb_mask' \in [CachedRegister -> SUBSET Bit]
    BY DEF Inv, TypeOK, pn53x_write_register, Note
<1> QED  BY <1>1 DEF Inv, TypeOK, Told, pn53x_write_register, Note

LEMMA TransceiveInv ==
    ASSUME Inv, NEW c \in RegisterCommand \cup Command, pn53x_transceive(c)
    PROVE  Inv'
<1> USE DEF Inv, pn53x_transceive
<1>1. UNCHANGED <<chip, wb_data, wb_mask, res, faults, stranded>> /\ ~wb_trigged' /\ cmd' = c
    OBVIOUS
<1>2. CASE ~wb_trigged
    <2>1. pc = "idle" /\ pc' = "cmd"
        BY <1>2
    <2>2. TypeOK'
        BY <1>1, <2>1 DEF TypeOK
    <2>3. wb_mask' = wb_mask /\ (stranded' <=> stranded)
        BY <1>1
    <2>4. ~stranded => \A r \in CachedRegister : wb_mask[r] = {}
        BY <1>2, <2>1 DEF Told
    <2>5. Told'
        BY <1>1, <2>3, <2>4 DEF Told
    <2> QED  BY <2>2, <2>5
<1>3. CASE wb_trigged /\ Partial(wb_mask) # {}
    BY <1>1, <1>3 DEF TypeOK, Told
<1>4. CASE wb_trigged /\ Partial(wb_mask) = {}
    <2>1. pc' = After(wb_mask)
        BY <1>4
    <2>2. Whole(wb_mask) = {} => \A r \in CachedRegister : wb_mask[r] = {}
        BY <1>4, NonePartial DEF TypeOK
    <2>3. Partial(wb_mask)' = {}
        BY <1>1, <1>4 DEF Partial
    <2> QED  BY <1>1, <2>1, <2>2, <2>3 DEF TypeOK, Told, After
<1> QED  BY <1>2, <1>3, <1>4

LEMMA ReadBackInv == Inv /\ ReadBack => Inv'
<1> SUFFICES ASSUME Inv, ReadBack PROVE Inv'
    OBVIOUS
<1> USE DEF Inv, ReadBack
<1>1. wb_data' \in [CachedRegister -> SUBSET Bit]
    BY DEF TypeOK, Register
<1>2. wb_mask' \in [CachedRegister -> SUBSET Bit] /\ \A r \in CachedRegister : wb_mask'[r] \in {{}, Full}
    BY DEF TypeOK, Partial, Full
<1>3. Partial(wb_mask') = {}
    BY <1>2 DEF Partial
<1>4. Whole(wb_mask') = {} => \A r \in CachedRegister : wb_mask'[r] = {}
    BY <1>2, <1>3, NonePartial
<1> QED  BY <1>1, <1>2, <1>3, <1>4 DEF TypeOK, Told, After, Partial

LEMMA WriteBackInv == Inv /\ WriteBack => Inv'
<1> SUFFICES ASSUME Inv, WriteBack PROVE Inv'
    OBVIOUS
<1>1. Cleared \in [CachedRegister -> SUBSET Bit] /\ \A r \in CachedRegister : Cleared[r] = {}
    BY ClearedAll DEF Inv, TypeOK, WriteBack
<1> QED  BY <1>1, WrittenType DEF Inv, TypeOK, Told, WriteBack

LEMMA ReadDirectInv == Inv /\ ReadDirect => Inv'
<1> SUFFICES ASSUME Inv, ReadDirect PROVE Inv'
    OBVIOUS
<1>1. cmd' \in RegisterCommand
    BY NewType, CommandType DEF Inv, ReadDirect, RegisterCommand
<1>2. UNCHANGED <<chip, wb_data, wb_mask, wb_trigged, pc, res, faults, stranded>>
    BY DEF ReadDirect, queue
<1> QED  BY <1>1, <1>2 DEF Inv, TypeOK, Told, Partial

LEMMA AnswerInv == Inv /\ Answer => Inv'
<1> SUFFICES ASSUME Inv, Answer PROVE Inv'
    OBVIOUS
<1>1. chip' \in [Register -> SUBSET Bit]
    BY ExecutedType DEF Inv, Answer
<1> QED  BY <1>1 DEF Inv, TypeOK, Told, Answer, queue

LEMMA FailInv == ASSUME Inv, NEW done \in BOOLEAN, Fail(done) PROVE Inv'
<1> USE DEF Inv
<1>1. /\ pc # "idle" /\ pc' = "idle" /\ cmd' = NoCommand /\ res' = "error" /\ faults' \in 0 .. MaxFaults
      /\ wb_data' = wb_data /\ wb_trigged' = wb_trigged /\ stranded' = (stranded \/ pc = "read")
    BY RegistersAssumption DEF Fail, TypeOK
<1>2. chip' \in [Register -> SUBSET Bit]
    BY WrittenType, ExecutedType DEF Fail, TypeOK
<1>3. CASE pc = "write"
    <2>1. wb_mask' \in [CachedRegister -> SUBSET Bit] /\ \A r \in CachedRegister : wb_mask'[r] = {}
        BY <1>3, ClearedAll DEF Fail, TypeOK
    <2> QED  BY <1>1, <1>2, <1>3, <2>1 DEF TypeOK, Told
<1>4. CASE pc # "write"
    BY <1>1, <1>2, <1>4 DEF Fail, TypeOK, Told
<1> QED  BY <1>3, <1>4

(* Every step keeps the invariant. *)
LEMMA NextInv == Inv /\ [Next]_vars => Inv'
<1> SUFFICES ASSUME Inv, [Next]_vars PROVE Inv'
    OBVIOUS
<1>1. ASSUME NEW r \in DirectRegister, NEW mask \in SUBSET Bit, NEW value \in SUBSET Bit,
             pn53x_write_direct(r, mask, value)
      PROVE  Inv'
    <2>1. CASE mask # Full
        BY <1>1, <2>1, TransceiveInv DEF pn53x_write_direct, RegisterCommand
    <2>2. CASE mask = Full
        BY <1>1, <2>2, TransceiveInv DEF pn53x_write_direct, RegisterCommand
    <2> QED  BY <2>1, <2>2
<1>2. ASSUME NEW r \in Register, pn53x_transceive([op |-> "ReadRegister", reg |-> r])
      PROVE  Inv'
    BY <1>2, TransceiveInv DEF RegisterCommand
<1>3. CASE UNCHANGED vars
    BY <1>3 DEF vars, Inv, TypeOK, Told, Partial
<1> QED  BY <1>1, <1>2, <1>3, NoteInv, TransceiveInv, ReadBackInv, WriteBackInv, ReadDirectInv, AnswerInv,
           FailInv DEF Next, Exchange

(* The registers, the cache and the machine of pn53x_transceive keep their  *)
(* domains, and a write-back is sent with nothing left to read.            *)
THEOREM Typing == Spec => []TypeOK
<1>1. Inv => TypeOK
    BY DEF Inv
<1> QED  BY InitInv, NextInv, <1>1, PTL DEF Spec

(* No write waits that the next command would not see to, unless the        *)
(* reading of a write-back failed (pn53x_transceive, wb_trigged).          *)
THEOREM Waiting == Spec => []NothingWaitsUnseen
<1>1. Inv => NothingWaitsUnseen
    BY DEF Inv, Told, NothingWaitsUnseen
<1> QED  BY InitInv, NextInv, <1>1, PTL DEF Spec

LEMMA ToldSees == Inv => CommandSeesWrites
<1> SUFFICES ASSUME Inv, pc = "cmd", ~stranded PROVE Asked = chip
    BY DEF CommandSeesWrites
<1>1. \A r \in CachedRegister : wb_mask[r] = {}
    BY DEF Inv, Told
<1>2. \A r \in Register : Asked[r] = chip[r]
    BY <1>1 DEF Asked, Masked, Register, Inv, TypeOK
<1> QED  BY <1>2 DEF Asked, Inv, TypeOK

(* A command never overtakes a register write (pn53x_transceive), with the  *)
(* same exception.                                                         *)
THEOREM NoOvertaking == Spec => []CommandSeesWrites
BY InitInv, NextInv, ToldSees, PTL DEF Spec

-----------------------------------------------------------------------------
(* The cache as a register file: what Asked is after each kind of step.     *)

LEMMA AskedType == TypeOK => Asked \in [Register -> SUBSET Bit]
BY DEF TypeOK, Asked, Masked, Register

LEMMA AskedTypeNext == TypeOK' => Asked' \in [Register -> SUBSET Bit]
BY DEF TypeOK, Asked, Masked, Register

LEMMA InitFile == Init => File!Init
<1> SUFFICES ASSUME Init PROVE File!Init
    OBVIOUS
<1>1. \A r \in CachedRegister : wb_mask[r] = {}
    BY DEF Init, Clean
<1>2. \A r \in Register : Asked[r] = chip[r]
    BY <1>1 DEF Init, Asked, Masked, Register
<1> QED  BY <1>2 DEF Init, Asked, File!Init, File!Values

(* A masked write of a cached register is a write of all of it. *)
LEMMA NoteFile ==
    ASSUME Inv, NEW r \in CachedRegister, NEW mask \in SUBSET Bit, NEW value \in SUBSET Bit,
           pn53x_write_register(r, mask, value)
    PROVE  File!Next
<1>1. chip' = chip
    BY DEF pn53x_write_register
<1>2. Asked' \in [Register -> SUBSET Bit] /\ Asked \in [Register -> SUBSET Bit] /\ r \in Register
    BY AskedType, AskedTypeNext, NoteInv DEF Inv, Register
<1>3. \A s \in Register \ {r} : Asked'[s] = Asked[s]
    <2> SUFFICES ASSUME NEW s \in Register, s # r PROVE Asked'[s] = Asked[s]
        OBVIOUS
    <2>1. s \in CachedRegister => wb_data'[s] = wb_data[s] /\ wb_mask'[s] = wb_mask[s]
        BY DEF pn53x_write_register, Note, Inv, TypeOK
    <2> QED  BY <1>1, <2>1 DEF Asked, Masked
<1>4. File!Masked(Asked[r], Bit, Asked'[r]) = Asked'[r]
    BY <1>2 DEF File!Masked
<1>5. Asked' = [Asked EXCEPT ![r] = Asked'[r]]
    BY <1>2, <1>3
<1>6. File!Write(r, Bit, Asked'[r])
    BY <1>1, <1>4, <1>5 DEF File!Write
<1> QED  BY <1>2, <1>6 DEF File!Next

(* A command at its end: it writes a register that is not cached, or none. *)
LEMMA ExecutedFile ==
    ASSUME Inv, Inv', chip' = Executed, wb_data' = wb_data, wb_mask' = wb_mask
    PROVE  [File!Next]_<<Asked, chip>>
<1>1. CASE Executed = chip
    BY <1>1 DEF Asked, Masked
<1>2. CASE /\ cmd.reg \in DirectRegister /\ cmd.value \in SUBSET Bit
           /\ Executed = [chip EXCEPT ![cmd.reg] = cmd.value]
    <2> DEFINE r == cmd.reg
    <2>1. r \in Register /\ r \notin CachedRegister
        BY <1>2, RegistersAssumption DEF Register
    <2>2. Asked' \in [Register -> SUBSET Bit] /\ Asked \in [Register -> SUBSET Bit]
        BY AskedType, AskedTypeNext DEF Inv
    <2>3. chip \in [Register -> SUBSET Bit]
        BY DEF Inv, TypeOK
    <2>4. Asked'[r] = cmd.value
        BY <1>2, <2>1, <2>3 DEF Asked
    <2>5. \A s \in Register \ {r} : Asked'[s] = Asked[s]
        BY <1>2, <2>3 DEF Asked, Masked
    <2>6. Asked' = [Asked EXCEPT ![r] = Asked'[r]]
        BY <2>2, <2>5
    <2>7. chip' = [chip EXCEPT ![r] = Asked'[r]]
        BY <1>2, <2>4
    <2>8. File!Poke(r, Asked'[r]) /\ Asked'[r] \subseteq Bit
        BY <2>1, <2>2, <2>6, <2>7 DEF File!Poke
    <2> QED  BY <2>1, <2>8 DEF File!Next
<1> QED  BY <1>1, <1>2, ExecutedType DEF Inv

(* The write of a write-back settles what was asked for; when it fails, all *)
(* of it is settled or all of it forgotten.                                *)
LEMMA WriteFile ==
    ASSUME Inv, Inv', pc = "write", chip' \in {chip, Written}, wb_mask' = Cleared
    PROVE  File!Next
<1>1. Partial(wb_mask) = {} /\ \A r \in CachedRegister : wb_mask[r] \in {{}, Full}
    BY NonePartial DEF Inv, TypeOK
<1>2. \A r \in CachedRegister : wb_mask'[r] = {}
    BY <1>1, ClearedAll DEF Inv
<1>3. /\ Asked \in [Register -> SUBSET Bit] /\ Asked' \in [Register -> SUBSET Bit]
      /\ chip' \in [Register -> SUBSET Bit]
    BY AskedType, AskedTypeNext DEF Inv, TypeOK
<1>4. \A r \in Register : Asked'[r] = chip'[r]
    BY <1>2, <1>3 DEF Asked, Masked
<1>5. Asked' = chip'
    BY <1>3, <1>4
<1>6. CASE chip' = chip
    BY <1>5, <1>6 DEF File!Next, File!Forget
<1>7. CASE chip' = Written
    <2>1. \A r \in Register : Written[r] = Asked[r]
        <3> SUFFICES ASSUME NEW r \in Register PROVE Written[r] = Asked[r]
            OBVIOUS
        <3>1. CASE r \notin CachedRegister
            BY <3>1 DEF Written, Asked, Whole
        <3>2. CASE r \in CachedRegister /\ wb_mask[r] = Full
            BY <3>2 DEF Written, Asked, Whole, Masked, Full, Inv, TypeOK
        <3>3. CASE r \in CachedRegister /\ wb_mask[r] # Full
            BY <1>1, <3>3 DEF Written, Asked, Whole, Masked, Inv, TypeOK
        <3> QED  BY <3>1, <3>2, <3>3
    <2>2. Written = Asked
        BY <1>3, <1>7, <2>1
    <2> QED  BY <1>5, <1>7, <2>2 DEF File!Next, File!Settle
<1> QED  BY <1>6, <1>7

(* Reading back completes the values that wait, and changes none. *)
LEMMA ReadBackFile == Inv /\ ReadBack => UNCHANGED <<Asked, chip>>
<1> SUFFICES ASSUME Inv, ReadBack PROVE UNCHANGED <<Asked, chip>>
    OBVIOUS
<1>1. chip' = chip
    BY DEF ReadBack
<1>2. Asked' \in [Register -> SUBSET Bit] /\ Asked \in [Register -> SUBSET Bit]
    BY AskedType, AskedTypeNext, ReadBackInv DEF Inv
<1>3. ASSUME NEW r \in CachedRegister PROVE Asked'[r] = Asked[r]
    <2>1. r \in Register /\ wb_mask[r] \in SUBSET Bit /\ wb_data[r] \in SUBSET Bit /\ chip[r] \in SUBSET Bit
        BY DEF Inv, TypeOK, Register
    <2>2. CASE r \in Partial(wb_mask)
        <3>1. wb_data'[r] = (wb_data[r] \cap wb_mask[r]) \cup (chip[r] \ wb_mask[r])
            BY <2>2 DEF ReadBack
        <3>2. wb_mask'[r] = IF wb_data'[r] # chip[r] THEN Full ELSE {}
            BY <2>2 DEF ReadBack
        <3> QED  BY <1>1, <2>1, <3>1, <3>2 DEF Asked, Masked, Full
    <2>3. CASE r \notin Partial(wb_mask)
        <3>1. wb_data'[r] = wb_data[r] /\ wb_mask'[r] = wb_mask[r]
            BY <2>3 DEF ReadBack
        <3> QED  BY <1>1, <2>1, <3>1 DEF Asked, Masked
    <2> QED  BY <2>2, <2>3
<1>4. \A r \in Register : Asked'[r] = Asked[r]
    BY <1>1, <1>3 DEF Asked
<1>5. Asked' = Asked
    BY <1>2, <1>4
<1> QED  BY <1>1, <1>5

LEMMA FailFile == ASSUME Inv, NEW done \in BOOLEAN, Fail(done) PROVE [File!Next]_<<Asked, chip>>
<1>1. Inv'
    BY FailInv
<1>2. CASE pc = "write"
    BY <1>1, <1>2, WriteFile DEF Fail
<1>3. CASE pc = "cmd" /\ done
    BY <1>1, <1>3, ExecutedFile DEF Fail
<1>4. CASE pc = "read" \/ (pc = "cmd" /\ ~done)
    <2>1. chip' = chip /\ wb_mask' = wb_mask /\ wb_data' = wb_data
        BY <1>4 DEF Fail
    <2> QED  BY <2>1 DEF Asked, Masked
<1> QED  BY <1>2, <1>3, <1>4 DEF Fail, Inv, TypeOK

LEMMA NextFile == Inv /\ [Next]_vars => [File!Next]_<<Asked, chip>>
<1> SUFFICES ASSUME Inv, [Next]_vars PROVE [File!Next]_<<Asked, chip>>
    OBVIOUS
<1>1. Inv'
    BY NextInv
<1>2. ASSUME UNCHANGED <<chip, wb_data, wb_mask>> PROVE UNCHANGED <<Asked, chip>>
    BY <1>2 DEF Asked, Masked
<1>3. ASSUME NEW c, pn53x_transceive(c) PROVE UNCHANGED <<chip, wb_data, wb_mask>>
    BY <1>3 DEF pn53x_transceive
<1>4. ASSUME NEW r, NEW mask, NEW value, pn53x_write_direct(r, mask, value)
      PROVE  UNCHANGED <<chip, wb_data, wb_mask>>
    BY <1>3, <1>4 DEF pn53x_write_direct
<1>5. CASE WriteBack
    BY <1>1, <1>5, WriteFile DEF WriteBack
<1>6. CASE ReadDirect
    BY <1>2, <1>6 DEF ReadDirect, queue
<1>7. CASE Answer
    BY <1>1, <1>7, ExecutedFile DEF Answer, queue
<1>8. CASE UNCHANGED vars
    BY <1>2, <1>8 DEF vars
<1> QED  BY <1>2, <1>3, <1>4, <1>5, <1>6, <1>7, <1>8, NoteFile, ReadBackFile, FailFile DEF Next, Exchange

(* The write-back cache implements a register file whose writes are done at *)
(* once; a write-back that fails has done all of them or none              *)
(* (pn53x_write_register, pn53x_writeback_register, pn53x_transceive).     *)
THEOREM Implements == Spec => Writethrough
<1>1. Inv /\ [Next]_vars => [File!Next]_(File!vars)
    BY NextFile DEF File!vars
<1> QED  BY InitInv, NextInv, InitFile, <1>1, PTL DEF Spec, Writethrough, File!Spec

-----------------------------------------------------------------------------
(* The settings above the registers. *)

Property == {"HANDLE_CRC", "HANDLE_PARITY", "EASY_FRAMING", "ACTIVATE_FIELD", "ACTIVATE_CRYPTO1",
             "INFINITE_SELECT", "ACCEPT_INVALID_FRAMES", "ACCEPT_MULTIPLE_FRAMES", "AUTO_ISO14443_4",
             "FORCE_ISO14443_A", "FORCE_ISO14443_B", "FORCE_SPEED_106"}
Parameters == SUBSET {AUTO_ATR_RES, AUTO_RATS}

WriteSteps == [do : {"write"}, reg : Register, mask : SUBSET Bit, value : SUBSET Bit]
Given      == Sent \cup {InListPassiveTarget}
SendSteps  == [do : {"send"}, cmd : Given]
FlagSteps  == [do : {"keep"}, name : Flag, value : BOOLEAN]
KeepSteps  == FlagSteps \cup [do : {"keep"}, name : {"ui8TxBits"}, value : Nat]
                        \cup [do : {"keep"}, name : {"ui8Parameters"}, value : Parameters]
SetSteps   == [do : {"set"}, property : Property, on : BOOLEAN]
TxSteps    == [do : {"tx"}, bits : Nat]
Steps == WriteSteps \cup SendSteps \cup KeepSteps \cup SetSteps \cup TxSteps

(* What a step is replaced by. *)
Expansion(s) == IF s.do = "set" THEN set_property_bool(s.property, s.on) ELSE set_tx_bits(s.bits)

DevType ==
    /\ DOMAIN dev = Flag \cup {"ui8TxBits", "ui8Parameters", "model"}
    /\ \A f \in Flag : dev[f] \in BOOLEAN
    /\ dev["ui8TxBits"] \in Nat /\ dev["ui8Parameters"] \in Parameters

Base ==
    /\ Inv /\ todo \in Seq(Steps) /\ DevType
    /\ parameters \in Parameters /\ retries \in {"forever", "few"} /\ field \in BOOLEAN
    /\ cmd \in IF pc = "idle" THEN {NoCommand} ELSE RegisterCommand \cup Given
    /\ res = "error" => AtRest
    /\ forgotten \/ unsure => faults # 0

LEMMA StepKinds ==
    ASSUME NEW s \in Steps
    PROVE  /\ s.do = "write" => s.reg \in Register /\ s.mask \in SUBSET Bit /\ s.value \in SUBSET Bit
           /\ s.do = "send" => s.cmd \in Given
           /\ s.do = "keep" => s \in KeepSteps
           /\ s.do = "set" => s.property \in Property /\ s.on \in BOOLEAN
           /\ s.do = "tx" => s.bits \in Nat
BY DEF Steps, WriteSteps, SendSteps, KeepSteps, FlagSteps, SetSteps, TxSteps

LEMMA WriteIsStep ==
    ASSUME NEW r \in Register, NEW mask \in SUBSET Bit, NEW value \in SUBSET Bit
    PROVE  Write(r, mask, value) \in Steps
BY DEF Write, Steps, WriteSteps

LEMMA SendIsStep == ASSUME NEW c \in Given PROVE Send(c) \in Steps
BY DEF Send, Steps, SendSteps

LEMMA KeepIsStep ==
    /\ \A f \in Flag, on \in BOOLEAN : Keep(f, on) \in Steps
    /\ \A count \in Nat : Keep("ui8TxBits", count) \in Steps
    /\ \A v \in Parameters : Keep("ui8Parameters", v) \in Steps
BY DEF Keep, Steps, KeepSteps, FlagSteps

LEMMA SetIsStep == ASSUME NEW prop \in Property, NEW on \in BOOLEAN PROVE Set(prop, on) \in Steps
BY DEF Set, Steps, SetSteps

LEMMA TxIsStep == ASSUME NEW count \in Nat PROVE TxBits(count) \in Steps
BY DEF TxBits, Steps, TxSteps

LEMMA One == ASSUME NEW S, NEW a \in S PROVE <<a>> \in Seq(S)
OBVIOUS
LEMMA Two == ASSUME NEW S, NEW a \in S, NEW b \in S PROVE <<a, b>> \in Seq(S)
OBVIOUS
LEMMA Three == ASSUME NEW S, NEW a \in S, NEW b \in S, NEW c \in S PROVE <<a, b, c>> \in Seq(S)
OBVIOUS
LEMMA None0 == ASSUME NEW S PROVE <<>> \in Seq(S)
OBVIOUS
LEMMA Joined == ASSUME NEW S, NEW x \in Seq(S), NEW y \in Seq(S) PROVE x \o y \in Seq(S)
OBVIOUS
(* The steps that an expansion is made of. *)
WritesOf(prop, on) ==
    CASE prop = "HANDLE_CRC" -> {Write("TxMode", {"crc"}, If(on, {"crc"})), Write("RxMode", {"crc"}, If(on, {"crc"}))}
      [] prop = "HANDLE_PARITY" -> {Write("ManualRCV", {"parity_disable"}, If(~on, {"parity_disable"}))}
      [] prop = "ACTIVATE_FIELD" -> {Write("P3", {"P31", "P34"}, IF on THEN {"P34"} ELSE {"P31"}), Write("P3", {"P32"}, If(~on, {"P32"}))}
      [] prop = "ACTIVATE_CRYPTO1" -> {Write("Status2", {"crypto1"}, If(on, {"crypto1"}))}
      [] prop = "ACCEPT_INVALID_FRAMES" -> {Write("RxMode", {"no_error"}, If(on, {"no_error"}))}
      [] prop = "ACCEPT_MULTIPLE_FRAMES" -> {Write("RxMode", {"multiple"}, If(on, {"multiple"}))}
      [] prop = "FORCE_ISO14443_A" -> {Write("TxMode", {"framing"}, {}), Write("RxMode", {"framing"}, {}),
                                    Write("TxAuto", {"force_100_ask"}, {"force_100_ask"})}
      [] prop = "FORCE_ISO14443_B" -> {Write("TxMode", {"framing"}, {"framing"}), Write("RxMode", {"framing"}, {"framing"})}
      [] prop = "FORCE_SPEED_106" -> {Write("TxMode", {"speed"}, {}), Write("RxMode", {"speed"}, {})}
      [] OTHER -> {}

KeepsOf(prop, on) ==
    CASE prop = "HANDLE_CRC" -> {Keep("bCrc", on)}
      [] prop = "HANDLE_PARITY" -> {Keep("bPar", on)}
      [] prop = "EASY_FRAMING" -> {Keep("bEasyFraming", on)}
      [] prop = "INFINITE_SELECT" -> {Keep("bInfiniteSelect", on)}
      [] prop = "AUTO_ISO14443_4" -> {Keep("bAutoIso14443_4", on)} \cup {Keep("ui8Parameters", v) : v \in Parameters}
      [] OTHER -> {}

SendsOf(prop, on) ==
    CASE prop = "ACTIVATE_FIELD" -> {Send(RFConfiguration__RF_field(on))}
      [] prop = "INFINITE_SELECT" -> {Send(RFConfiguration__MaxRetries(on))}
      [] prop = "AUTO_ISO14443_4" -> {Send(SetParameters(v)) : v \in Parameters}
      [] OTHER -> {}

Makes(s) ==
    IF s.do = "set" THEN WritesOf(s.property, s.on) \cup KeepsOf(s.property, s.on) \cup SendsOf(s.property, s.on)
    ELSE {Write("BitFraming", {"tx_last_bits"}, If(s.bits # 0, {"tx_last_bits"})), Keep("ui8TxBits", s.bits)}

LEMMA NewParameters ==
    ASSUME DevType, NEW on \in BOOLEAN
    PROVE  /\ dev.ui8Parameters \cup {AUTO_RATS} \in Parameters /\ dev.ui8Parameters \ {AUTO_RATS} \in Parameters
BY DEF DevType, Parameters

LEMMA ExpandsIn ==
    ASSUME DevType, NEW s \in Steps, s.do \in {"set", "tx"}, NEW S, Makes(s) \subseteq S
    PROVE  Expansion(s) \in Seq(S)
<1> USE None0, One, Two, Three
<1>1. CASE s.do = "tx"
  BY <1>1 DEF Expansion, Makes, set_tx_bits
<1>2. CASE s.do = "set"
  <2>0. s.property \in Property /\ s.on \in BOOLEAN /\ Expansion(s) = set_property_bool(s.property, s.on)
    BY <1>2, StepKinds DEF Expansion
  <2> DEFINE prop == s.property
             on == s.on
  <2>1. WritesOf(prop, on) \cup KeepsOf(prop, on) \cup SendsOf(prop, on) \subseteq S
    BY <1>2 DEF Makes
  <2>2. CASE prop = "HANDLE_CRC"
    BY <2>0, <2>1, <2>2 DEF set_property_bool, WritesOf, KeepsOf
  <2>3. CASE prop = "HANDLE_PARITY"
    BY <2>0, <2>1, <2>3 DEF set_property_bool, WritesOf, KeepsOf
  <2>4. CASE prop = "EASY_FRAMING"
    BY <2>0, <2>1, <2>4 DEF set_property_bool, WritesOf, KeepsOf
  <2>5. CASE prop = "ACTIVATE_FIELD"
    BY <2>0, <2>1, <2>5, Joined DEF set_property_bool, WritesOf, SendsOf, field_led
  <2>6. CASE prop = "ACTIVATE_CRYPTO1"
    BY <2>0, <2>1, <2>6 DEF set_property_bool, WritesOf
  <2>7. CASE prop = "INFINITE_SELECT"
    BY <2>0, <2>1, <2>7 DEF set_property_bool, KeepsOf, SendsOf
  <2>8. CASE prop = "ACCEPT_INVALID_FRAMES"
    BY <2>0, <2>1, <2>8 DEF set_property_bool, WritesOf
  <2>9. CASE prop = "ACCEPT_MULTIPLE_FRAMES"
    BY <2>0, <2>1, <2>9 DEF set_property_bool, WritesOf
  <2>10. CASE prop = "AUTO_ISO14443_4"
    <3>1. set_parameters(AUTO_RATS, on) \in Seq(S)
      BY <2>1, <2>10, NewParameters DEF set_parameters, KeepsOf, SendsOf
    <3>2. <<Keep("bAutoIso14443_4", on)>> \in Seq(S)
      BY <2>1, <2>10 DEF KeepsOf
    <3> QED
      BY <2>0, <2>10, <3>1, <3>2, Joined DEF set_property_bool
  <2>11. CASE prop = "FORCE_ISO14443_A"
    BY <2>0, <2>1, <2>11 DEF set_property_bool, WritesOf
  <2>12. CASE prop = "FORCE_ISO14443_B"
    BY <2>0, <2>1, <2>12 DEF set_property_bool, WritesOf
  <2>13. CASE prop = "FORCE_SPEED_106"
    BY <2>0, <2>1, <2>13 DEF set_property_bool, WritesOf
  <2> QED
    BY <2>0, <2>2, <2>3, <2>4, <2>5, <2>6, <2>7, <2>8, <2>9, <2>10, <2>11, <2>12, <2>13 DEF Property
<1> QED
  BY <1>1, <1>2

LEMMA Sends ==
    /\ Given \subseteq Command
    /\ \A v \in Parameters : SetParameters(v) \in Given
    /\ \A on \in BOOLEAN : RFConfiguration__RF_field(on) \in Given /\ RFConfiguration__MaxRetries(on) \in Given
    /\ CardCommand \in Given /\ InListPassiveTarget \in Given /\ [op |-> "GetFirmwareVersion"] \in Given
BY SettingsAssumption, DeviceAssumption
   DEF Given, Sent, SetParameters, RFConfiguration__RF_field, RFConfiguration__MaxRetries, Parameters

LEMMA GivenKinds ==
    ASSUME NEW c \in RegisterCommand \cup Given
    PROVE  /\ c.op = "SetParameters" => c.value \in Parameters
           /\ c.op = "RF_field" => c.on \in BOOLEAN
           /\ c.op = "MaxRetries" => c.many \in BOOLEAN
           /\ c.op # "None"
BY DEF Given, Sent, RegisterCommand, InListPassiveTarget, CardCommand, Parameters

LEMMA MakesSteps == ASSUME NEW s \in Steps, s.do \in {"set", "tx"} PROVE Makes(s) \subseteq Steps
<1>1. CASE s.do = "tx"
  <2>1. s.bits \in Nat
    BY <1>1, StepKinds
  <2> QED
    BY <1>1, <2>1, WriteIsStep, KeepIsStep, SettingsAssumption DEF Makes, If, Register
<1>2. CASE s.do = "set"
  <2>0. s.property \in Property /\ s.on \in BOOLEAN
    BY <1>2, StepKinds
  <2>1. WritesOf(s.property, s.on) \subseteq Steps
    BY <2>0, WriteIsStep, SettingsAssumption DEF WritesOf, If, Register
  <2>2. KeepsOf(s.property, s.on) \subseteq Steps
    BY <2>0, KeepIsStep DEF KeepsOf, Flag
  <2>3. SendsOf(s.property, s.on) \subseteq Steps
    BY <2>0, SendIsStep, Sends DEF SendsOf
  <2> QED
    BY <1>2, <2>1, <2>2, <2>3 DEF Makes
<1> QED
  BY <1>1, <1>2

LEMMA StepIn == ASSUME Base, todo # <<>> PROVE Step \in Steps /\ Tail(todo) \in Seq(Steps)
BY DEF Base, Step

(* What the code of the settings does to the registers is what               *)
(* pn53x_write_register and pn53x_transceive may do.                       *)
LEMMA UsesRegisters == ASSUME Base, Progress PROVE [Next]_vars
<1>1. CASE Expand \/ KeepStep
  BY <1>1 DEF Expand, KeepStep
<1>2. CASE WriteStep
  <2>1. Step.reg \in Register /\ Step.mask \in SUBSET Bit /\ Step.value \in SUBSET Bit
    BY <1>2, StepIn, StepKinds DEF WriteStep
  <2> QED
    BY <1>2, <2>1 DEF WriteStep, Next
<1>3. CASE SendStep
  <2>1. Step.cmd \in Command
    BY <1>3, StepIn, StepKinds, Sends DEF SendStep
  <2> QED
    BY <1>3, <2>1 DEF SendStep, Next
<1>4. CASE ExchangeStep
  BY <1>4 DEF ExchangeStep, Next, Exchange
<1>5. ASSUME NEW done \in BOOLEAN, FailStep(done) PROVE [Next]_vars
  BY <1>5 DEF FailStep, Next, Exchange
<1> QED
  BY <1>1, <1>2, <1>3, <1>4, <1>5 DEF Progress

-----------------------------------------------------------------------------
(* What the registers were asked to be, step by step. *)

LEMMA WrittenAsked ==
    ASSUME Inv, Inv', pc = "write", chip' = Written, wb_mask' = Cleared
    PROVE  Asked' = Asked
<1>1. Partial(wb_mask) = {} /\ \A r \in CachedRegister : wb_mask[r] \in {{}, Full}
  BY NonePartial DEF Inv, TypeOK
<1>2. \A r \in CachedRegister : wb_mask'[r] = {}
  BY <1>1, ClearedAll DEF Inv
<1>3. /\ Asked \in [Register -> SUBSET Bit] /\ Asked' \in [Register -> SUBSET Bit]
      /\ chip' \in [Register -> SUBSET Bit]
  BY AskedType, AskedTypeNext DEF Inv, TypeOK
<1>4. \A r \in Register : Asked'[r] = chip'[r]
  BY <1>2, <1>3 DEF Asked, Masked
<1>5. \A r \in Register : Written[r] = Asked[r]
  <2> SUFFICES ASSUME NEW r \in Register PROVE Written[r] = Asked[r]
    OBVIOUS
  <2>1. CASE r \notin CachedRegister
    BY <2>1 DEF Written, Asked, Whole
  <2>2. CASE r \in CachedRegister /\ wb_mask[r] = Full
    BY <2>2 DEF Written, Asked, Whole, Masked, Full, Inv, TypeOK
  <2>3. CASE r \in CachedRegister /\ wb_mask[r] # Full
    BY <1>1, <2>3 DEF Written, Asked, Whole, Masked, Inv, TypeOK
  <2> QED
    BY <2>1, <2>2, <2>3
<1> QED
  BY <1>3, <1>4, <1>5

LEMMA NotedAsked ==
    ASSUME Inv, NEW r \in CachedRegister, NEW mask \in SUBSET Bit, NEW value \in SUBSET Bit,
           pn53x_write_register(r, mask, value)
    PROVE  \A s \in CachedRegister : Asked'[s] = IF s = r THEN Masked(Asked[r], mask, value) ELSE Asked[s]
<1>1. chip' = chip
  BY DEF pn53x_write_register
<1>2. Inv'
  BY NoteInv
<1> SUFFICES ASSUME NEW s \in CachedRegister
             PROVE  Asked'[s] = IF s = r THEN Masked(Asked[r], mask, value) ELSE Asked[s]
  OBVIOUS
<1>3. s \in Register
  BY DEF Register
<1>4. CASE s # r
  <2>1. wb_data'[s] = wb_data[s] /\ wb_mask'[s] = wb_mask[s]
    BY <1>4 DEF pn53x_write_register, Note, Inv, TypeOK
  <2> QED
    BY <1>1, <1>3, <1>4, <2>1 DEF Asked, Masked
<1>5. CASE s = r
  <2>1. wb_data'[r] = ((wb_data[r] \cap wb_mask[r]) \ mask) \cup (value \cap mask)
    BY DEF pn53x_write_register, Note, Inv, TypeOK
  <2>2. wb_mask'[r] = wb_mask[r] \cup mask
    BY DEF pn53x_write_register, Note, Inv, TypeOK
  <2> QED
    BY <1>1, <1>3, <1>5, <2>1, <2>2 DEF Asked, Masked
<1> QED
  BY <1>4, <1>5

LEMMA ExecutedAsked ==
    ASSUME Inv, chip' \in {chip, Executed}, wb_data' = wb_data, wb_mask' = wb_mask
    PROVE  \A s \in CachedRegister : Asked'[s] = Asked[s]
<1>1. \A s \in CachedRegister : chip'[s] = chip[s]
  BY ExecutedType, RegistersAssumption DEF Register, Inv, TypeOK
<1> QED
  BY <1>1 DEF Asked, Masked, Register

(* Only the note of a write, and the loss of a write-back, change what a     *)
(* register that is cached was asked to be.                                *)
Noted == \A s \in CachedRegister :
            Asked'[s] = IF s = Step.reg THEN Masked(Asked[s], Step.mask, Step.value) ELSE Asked[s]
SameAsked == \A s \in CachedRegister : Asked'[s] = Asked[s]

LEMMA SameState == UNCHANGED <<chip, wb_data, wb_mask>> => SameAsked
BY DEF SameAsked, Asked, Masked

LEMMA NotedStep ==
    ASSUME Base, WriteStep
    PROVE  \/ Step.reg \in CachedRegister /\ Noted /\ pc = "idle" /\ pc' = "idle" /\ cmd' = cmd /\ chip' = chip
           \/ Step.reg \in DirectRegister /\ SameAsked /\ pc = "idle" /\ pn53x_write_direct(Step.reg, Step.mask, Step.value)
<1>1. Step.reg \in Register /\ Step.mask \in SUBSET Bit /\ Step.value \in SUBSET Bit
  BY StepIn, StepKinds DEF WriteStep
<1>2. CASE Step.reg \in CachedRegister /\ pn53x_write_register(Step.reg, Step.mask, Step.value)
  <2>0. Inv
    BY DEF Base
  <2>1. Noted
    <3> HIDE DEF Step
    <3>1. \A s \in CachedRegister : Asked'[s] = IF s = Step.reg THEN Masked(Asked[Step.reg], Step.mask, Step.value) ELSE Asked[s]
      BY <1>1, <1>2, <2>0, NotedAsked
    <3> QED
      BY <3>1 DEF Noted
  <2> QED
    BY <1>2, <2>1 DEF pn53x_write_register
<1>3. CASE Step.reg \in DirectRegister /\ pn53x_write_direct(Step.reg, Step.mask, Step.value)
  <2>1. pc = "idle" /\ UNCHANGED <<chip, wb_data, wb_mask>>
    BY <1>3 DEF pn53x_write_direct, pn53x_transceive
  <2> QED
    BY <1>3, <2>1, SameState
<1> QED
  BY <1>2, <1>3 DEF WriteStep

LEMMA AskedSteps ==
    ASSUME Base, Progress, ~WriteStep
    PROVE  SameAsked \/ forgotten'
<1>0. Inv /\ Inv'
  BY UsesRegisters, NextInv DEF Base
<1>1. CASE Expand \/ KeepStep
  BY <1>1, SameState DEF Expand, KeepStep, vars
<1>2. CASE SendStep
  BY <1>2, SameState DEF SendStep, pn53x_transceive
<1>3. CASE ExchangeStep
  <2>1. CASE ReadBack
    BY <1>0, <2>1, ReadBackFile DEF SameAsked
  <2>2. CASE WriteBack
    BY <1>0, <2>2, WrittenAsked DEF WriteBack, SameAsked
  <2>3. CASE ReadDirect \/ Answer
    BY <1>0, <2>3, ExecutedAsked DEF ReadDirect, Answer, queue, SameAsked
  <2> QED
    BY <1>3, <2>1, <2>2, <2>3 DEF ExchangeStep
<1>4. ASSUME NEW done \in BOOLEAN, FailStep(done) PROVE SameAsked \/ forgotten'
  <2>1. pc \in {"read", "write", "cmd"}
    BY <1>0, <1>4 DEF FailStep, Fail, Inv, TypeOK
  <2>2. CASE pc = "write" /\ done
    BY <1>0, <1>4, <2>2, WrittenAsked DEF FailStep, Fail, SameAsked
  <2>3. CASE pc = "write" /\ ~done
    BY <1>4, <2>3 DEF FailStep
  <2>4. CASE pc = "cmd" \/ pc = "read"
    BY <1>0, <1>4, <2>4, ExecutedAsked DEF FailStep, Fail, SameAsked
  <2> QED
    BY <2>1, <2>2, <2>3, <2>4
<1> QED
  BY <1>1, <1>2, <1>3, <1>4 DEF Progress

-----------------------------------------------------------------------------
(* The types are kept. *)

LEMMA ExpandSteps ==
    ASSUME Base, Expand
    PROVE  /\ pc = "idle" /\ Step \in Steps /\ Step.do \in {"set", "tx"} /\ Tail(todo) \in Seq(Steps)
           /\ todo' = Expansion(Step) \o Tail(todo) /\ Expansion(Step) \in Seq(Steps)
           /\ UNCHANGED <<vars, dev, settings, call, calls, forgotten, unsure>>
<1>1. Step \in Steps /\ Step.do \in {"set", "tx"} /\ Tail(todo) \in Seq(Steps)
  BY StepIn DEF Expand
<1>2. Expansion(Step) \in Seq(Steps)
  BY <1>1, ExpandsIn, MakesSteps DEF Base
<1> QED
  BY <1>1, <1>2 DEF Expand, Expansion

LEMMA KeptDev ==
    ASSUME Base, KeepStep
    PROVE  /\ DevType' /\ todo' = Tail(todo)
           /\ \A f \in DOMAIN dev : dev'[f] = IF f = Step.name THEN Step.value ELSE dev[f]
           /\ UNCHANGED <<vars, settings, call, calls, forgotten, unsure>>
<1>1. Step \in KeepSteps
  BY StepIn, StepKinds DEF KeepStep
<1> HIDE DEF Step
<1>2. dev' = [dev EXCEPT ![Step.name] = Step.value]
  BY DEF KeepStep
<1>3. DevType
  BY DEF Base
<1>4. DevType'
  <2>1. CASE Step \in FlagSteps
    BY <1>2, <1>3, <2>1 DEF FlagSteps, DevType, Flag
  <2>2. CASE Step.name = "ui8TxBits" /\ Step.value \in Nat
    BY <1>2, <1>3, <2>2 DEF DevType, Flag
  <2>3. CASE Step.name = "ui8Parameters" /\ Step.value \in Parameters
    BY <1>2, <1>3, <2>3 DEF DevType, Flag
  <2> QED
    BY <1>1, <2>1, <2>2, <2>3 DEF KeepSteps
<1> QED
  BY <1>2, <1>3, <1>4 DEF KeepStep, DevType

LEMMA ObeyedTypes ==
    ASSUME Base, pc # "idle", Obey
    PROVE  parameters' \in Parameters /\ retries' \in {"forever", "few"} /\ field' \in BOOLEAN
<1>1. cmd \in RegisterCommand \cup Given
  BY DEF Base
<1>2. parameters' \in Parameters
  BY <1>1, GivenKinds DEF Base, Obey
<1>3. retries' \in {"forever", "few"}
  BY <1>1, GivenKinds DEF Base, Obey
<1>4. field' \in BOOLEAN
  BY <1>1, GivenKinds, Zenon DEF Base, Obey
<1> QED
  BY <1>2, <1>3, <1>4

LEMMA DirectCommand ==
    ASSUME NEW r \in DirectRegister, NEW mask \in SUBSET Bit, NEW value \in SUBSET Bit, pn53x_write_direct(r, mask, value)
    PROVE  /\ cmd' \in RegisterCommand /\ pc = "idle" /\ pc' # "idle" /\ cmd'.op \in {"Update", "WriteRegister"}
           /\ UNCHANGED <<res, faults>>
BY DEF pn53x_write_direct, pn53x_transceive, RegisterCommand, After

LEMMA BaseProgress == ASSUME Base, Progress PROVE Base'
<1>0. Inv' /\ Inv
  BY UsesRegisters, NextInv DEF Base
<1> USE DEF Base, AtRest
<1>1. CASE Expand
  <2>1. todo' \in Seq(Steps) /\ pc = "idle" /\ UNCHANGED <<vars, dev, settings, forgotten, unsure>>
    BY <1>1, ExpandSteps, Joined
  <2>2. res # "error"
    BY <1>1 DEF Expand
  <2> QED
    BY <1>0, <2>1, <2>2 DEF vars, settings, DevType
<1>2. CASE KeepStep
  <2>1. DevType' /\ todo' = Tail(todo) /\ UNCHANGED <<vars, settings, forgotten, unsure>>
    BY <1>2, KeptDev
  <2>2. res # "error" /\ todo' \in Seq(Steps)
    BY <1>2, <2>1, StepIn DEF KeepStep
  <2> QED
    BY <1>0, <2>1, <2>2 DEF vars, settings
<1>3. CASE WriteStep
  <2>1. todo' \in Seq(Steps) /\ res # "error" /\ UNCHANGED <<dev, settings, forgotten, unsure>>
    BY <1>3, StepIn DEF WriteStep
  <2>2. Step.mask \in SUBSET Bit /\ Step.value \in SUBSET Bit
    BY <1>3, StepIn, StepKinds DEF WriteStep
  <2>3. CASE Step.reg \in CachedRegister /\ pn53x_write_register(Step.reg, Step.mask, Step.value)
    BY <1>0, <2>1, <2>3 DEF pn53x_write_register, settings, DevType
  <2>4. CASE Step.reg \in DirectRegister /\ pn53x_write_direct(Step.reg, Step.mask, Step.value)
    BY <1>0, <2>1, <2>2, <2>4, DirectCommand DEF settings, DevType
  <2> QED
    BY <1>3, <2>3, <2>4 DEF WriteStep
<1>4. CASE SendStep
  <2>1. todo' \in Seq(Steps) /\ Step.cmd \in Given /\ res # "error" /\ UNCHANGED <<dev, settings, forgotten, unsure>>
    BY <1>4, StepIn, StepKinds DEF SendStep
  <2>2. pc' # "idle" /\ cmd' = Step.cmd /\ UNCHANGED <<res, faults>>
    BY <1>4 DEF SendStep, pn53x_transceive, After
  <2> QED
    BY <1>0, <2>1, <2>2 DEF settings, DevType
<1>5. CASE ExchangeStep
  <2>1. pc # "idle" /\ res # "error"
    BY <1>5 DEF ExchangeStep, Answer, ReadBack, WriteBack, ReadDirect
  <2>2. CASE Answer /\ Obey
    BY <1>0, <1>5, <2>1, <2>2, ObeyedTypes DEF ExchangeStep, Answer, DevType
  <2>3. CASE (ReadBack \/ WriteBack) /\ UNCHANGED settings
    <3>1. pc' # "idle" /\ UNCHANGED <<cmd, res, faults, settings, dev, todo, forgotten, unsure>>
      BY <1>5, <2>3 DEF ExchangeStep, ReadBack, WriteBack, After
    <3> QED
      BY <1>0, <2>1, <3>1 DEF settings, DevType
  <2>4. CASE ReadDirect /\ UNCHANGED settings
    <3>1. cmd' \in RegisterCommand
      BY <1>0, <2>4, NewType, CommandType DEF Inv, ReadDirect, RegisterCommand
    <3>2. pc' # "idle" /\ UNCHANGED <<res, faults, settings, dev, todo, forgotten, unsure>>
      BY <1>5, <2>4 DEF ExchangeStep, ReadDirect
    <3> QED
      BY <1>0, <2>1, <3>1, <3>2 DEF settings, DevType
  <2> QED
    BY <1>5, <2>2, <2>3, <2>4 DEF ExchangeStep
<1>6. ASSUME NEW done \in BOOLEAN, FailStep(done) PROVE Base'
  <2>1. parameters' \in Parameters /\ retries' \in {"forever", "few"} /\ field' \in BOOLEAN
    BY <1>6, ObeyedTypes DEF FailStep, settings
  <2>2. pc' = "idle" /\ cmd' = NoCommand /\ todo' = <<>> /\ dev' = dev /\ faults' # 0
    BY <1>0, <1>6 DEF FailStep, Fail, Inv, TypeOK
  <2> QED
    BY <1>0, <2>1, <2>2, None0 DEF DevType
<1> QED
  BY <1>1, <1>2, <1>3, <1>4, <1>5, <1>6 DEF Progress

-----------------------------------------------------------------------------
(* Sequences of steps. *)

Cons(a, q) == <<a>> \o q
Has(q, G) == \E i \in 1..Len(q) : q[i] \in G

LEMMA ConsIs ==
    ASSUME NEW S, NEW a \in S, NEW q \in Seq(S)
    PROVE  Cons(a, q) \in Seq(S) /\ Cons(a, q) # <<>> /\ Head(Cons(a, q)) = a /\ Tail(Cons(a, q)) = q
<1>1. Cons(a, q) \in Seq(S) /\ Len(Cons(a, q)) = Len(q) + 1
  BY DEF Cons
<1>2. Cons(a, q)[1] = a /\ \A i \in 1..Len(q) : Cons(a, q)[i + 1] = q[i]
  BY DEF Cons
<1>3. Tail(Cons(a, q)) \in Seq(S) /\ Len(Tail(Cons(a, q))) = Len(q)
  BY <1>1
<1>4. \A i \in 1..Len(q) : Tail(Cons(a, q))[i] = q[i]
  BY <1>1, <1>2
<1>5. Tail(Cons(a, q)) = q
  BY <1>3, <1>4
<1> QED
  BY <1>1, <1>2, <1>5

LEMMA SameElements ==
    ASSUME NEW S, NEW x \in Seq(S), NEW y \in Seq(S), Len(x) = Len(y), \A i \in 1..Len(x) : x[i] = y[i]
    PROVE  x = y
OBVIOUS

LEMMA JoinedAssoc ==
    ASSUME NEW S, NEW x \in Seq(S), NEW y \in Seq(S), NEW z \in Seq(S)
    PROVE  (x \o y) \o z = x \o (y \o z)
BY SameElements

LEMMA TwoJoined ==
    ASSUME NEW S, NEW a \in S, NEW b \in S, NEW q \in Seq(S)
    PROVE  <<a, b>> \o q = Cons(a, Cons(b, q))
<1>1. <<a>> \in Seq(S) /\ <<b>> \in Seq(S) /\ <<a, b>> \in Seq(S)
  OBVIOUS
<1>2. <<a, b>> = <<a>> \o <<b>>
  <2> DEFINE x == <<a, b>>
             y == <<a>> \o <<b>>
  <2>1. Len(x) = 2 /\ x[1] = a /\ x[2] = b
    OBVIOUS
  <2>2. y \in Seq(S) /\ Len(y) = 2 /\ y[1] = a /\ y[2] = b
    BY <1>1
  <2>3. x \in Seq(S) /\ Len(x) = Len(y) /\ \A i \in 1..Len(x) : x[i] = y[i]
    BY <1>1, <2>1, <2>2
  <2> HIDE DEF x, y
  <2>4. x = y
    BY <2>2, <2>3, SameElements
  <2> QED
    BY <2>4 DEF x, y
<1>3. <<a, b>> \o q = <<a>> \o (<<b>> \o q)
  BY <1>1, <1>2, JoinedAssoc
<1> QED
  BY <1>3 DEF Cons

LEMMA ThreeJoined ==
    ASSUME NEW S, NEW a \in S, NEW b \in S, NEW c \in S, NEW q \in Seq(S)
    PROVE  <<a, b, c>> \o q = Cons(a, Cons(b, Cons(c, q)))
<1>1. <<a>> \in Seq(S) /\ <<b, c>> \in Seq(S) /\ <<a, b, c>> = <<a>> \o <<b, c>>
  OBVIOUS
<1>2. <<a, b, c>> \o q = Cons(a, <<b, c>> \o q)
  BY <1>1, JoinedAssoc DEF Cons
<1>3. <<b, c>> \o q = Cons(b, Cons(c, q))
  BY TwoJoined
<1> QED
  BY <1>2, <1>3

LEMMA EmptyJoined == ASSUME NEW S, NEW x \in Seq(S) PROVE <<>> \o x = x /\ x \o <<>> = x
BY SameElements

LEMMA TailJoined ==
    ASSUME NEW S, NEW x \in Seq(S), NEW y \in Seq(S), x # <<>>
    PROVE  Head(x \o y) = Head(x) /\ Tail(x \o y) = Tail(x) \o y /\ x \o y # <<>>
BY SameElements

LEMMA HasJoined ==
    ASSUME NEW S, NEW x \in Seq(S), NEW y \in Seq(S), NEW G
    PROVE  /\ Has(x, G) => Has(x \o y, G)
           /\ Has(y, G) => Has(x \o y, G)
<1>1. ASSUME Has(x, G) PROVE Has(x \o y, G)
  <2>1. PICK i \in 1..Len(x) : x[i] \in G
    BY <1>1 DEF Has
  <2>2. i \in 1..Len(x \o y) /\ (x \o y)[i] = x[i]
    OBVIOUS
  <2> QED
    BY <2>1, <2>2 DEF Has
<1>2. ASSUME Has(y, G) PROVE Has(x \o y, G)
  <2>1. PICK i \in 1..Len(y) : y[i] \in G
    BY <1>2 DEF Has
  <2>2. Len(x) + i \in 1..Len(x \o y) /\ (x \o y)[Len(x) + i] = y[i]
    OBVIOUS
  <2> QED
    BY <2>1, <2>2 DEF Has
<1> QED
  BY <1>1, <1>2

LEMMA HasTail ==
    ASSUME NEW S, NEW x \in Seq(S), x # <<>>, NEW G, Has(x, G), Head(x) \notin G
    PROVE  Has(Tail(x), G)
<1>1. PICK i \in 1..Len(x) : x[i] \in G
  BY DEF Has
<1>2. i # 1
  BY <1>1
<1>3. i - 1 \in 1..Len(Tail(x)) /\ Tail(x)[i - 1] = x[i]
  BY <1>2
<1> QED
  BY <1>1, <1>3 DEF Has

(* How the steps that are left move on. *)
LEMMA TodoMoves ==
    ASSUME Base, Progress
    PROVE  \/ ExchangeStep /\ todo' = todo
           \/ KeepStep \/ WriteStep \/ SendStep
           \/ Expand
           \/ (\E done \in BOOLEAN : FailStep(done)) /\ todo' = <<>> /\ res' = "error" /\ pc' = "idle"
BY DEF Progress, ExchangeStep, FailStep, Fail

LEMMA TailMoves == KeepStep \/ WriteStep \/ SendStep => todo # <<>> /\ todo' = Tail(todo)
BY DEF KeepStep, WriteStep, SendStep

LEMMA InTurn == KeepStep \/ WriteStep \/ SendStep \/ Expand => pc = "idle"
BY DEF KeepStep, WriteStep, SendStep, Expand, pn53x_write_register, pn53x_write_direct, pn53x_transceive

(* A step that is ahead stays there until its turn comes. *)
LEMMA StaysAhead ==
    ASSUME Base, Progress, NEW G, Has(todo, G), pc = "idle" => Step \notin G
    PROVE  Has(todo', G) \/ (AtRest /\ res = "error")'
<1>1. todo \in Seq(Steps)
  BY DEF Base
<1>2. CASE KeepStep \/ WriteStep \/ SendStep
  BY <1>1, <1>2, TailMoves, InTurn, HasTail DEF Step
<1>3. CASE Expand
  <2>1. todo # <<>> /\ Tail(todo) \in Seq(Steps) /\ Expansion(Step) \in Seq(Steps) /\ todo' = Expansion(Step) \o Tail(todo)
    BY <1>3, ExpandSteps DEF Expand
  <2> QED
    BY <1>1, <1>3, <2>1, InTurn, HasTail, HasJoined DEF Step
<1> QED
  BY <1>2, <1>3, TodoMoves DEF AtRest

-----------------------------------------------------------------------------
(* The start of a call. *)
Start(steps) ==
    /\ AtRest /\ todo' = steps /\ res' = "ok"
    /\ UNCHANGED <<chip, queue, pc, cmd, faults, stranded, dev, settings, forgotten, unsure>>

LEMMA BaseStart == ASSUME Base, NEW steps \in Seq(Steps), Start(steps) PROVE Base'
<1>1. /\ todo' \in Seq(Steps) /\ res' = "ok"
      /\ UNCHANGED <<chip, wb_data, wb_mask, wb_trigged, pc, cmd, faults, stranded>>
      /\ UNCHANGED <<dev, parameters, retries, field, forgotten, unsure>>
  BY DEF Start, queue, settings
<1>2. Inv'
  BY <1>1 DEF Base, Inv, TypeOK, Told, Partial
<1>3. DevType'
  BY <1>1 DEF Base, DevType
<1> QED
  BY <1>1, <1>2, <1>3 DEF Base

Programs == {Open, [name |-> "nfc_initiator_init"]} \cup CallSet

LEMMA Five ==
    ASSUME NEW S, NEW a \in S, NEW b \in S, NEW c \in S, NEW e \in S, NEW f \in S PROVE <<a, b, c, e, f>> \in Seq(S)
OBVIOUS
LEMMA Six ==
    ASSUME NEW S, NEW a \in S, NEW b \in S, NEW c \in S, NEW e \in S, NEW f \in S, NEW g \in S
    PROVE  <<a, b, c, e, f, g>> \in Seq(S)
OBVIOUS

LEMMA ResetSteps == reset_settings \in Seq(Steps) /\ pn53x_initiator_init \in Seq(Steps)
<1>1. Write("BitFraming", {"tx_last_bits"}, {}) \in Steps /\ Write("Control", {"initiator"}, {"initiator"}) \in Steps
  BY WriteIsStep, SettingsAssumption DEF Register
<1>2. Keep("ui8TxBits", 0) \in Steps
  BY KeepIsStep
<1>3. /\ Set("HANDLE_CRC", TRUE) \in Steps /\ Set("HANDLE_PARITY", TRUE) \in Steps /\ Set("EASY_FRAMING", TRUE) \in Steps
      /\ Set("ACTIVATE_CRYPTO1", FALSE) \in Steps
  BY SetIsStep DEF Property
<1>4. reset_settings \in Seq(Steps)
  BY <1>1, <1>2, <1>3, Six DEF reset_settings
<1> QED
  BY <1>1, <1>4, One, Joined DEF pn53x_initiator_init

LEMMA InitSteps ==
    ASSUME NEW S, \A prop \in Property \ {"INFINITE_SELECT"}, on \in BOOLEAN : Set(prop, on) \in S
    PROVE  /\ <<Set("ACTIVATE_FIELD", FALSE), Set("ACTIVATE_FIELD", TRUE)>> \in Seq(S)
           /\ <<Set("AUTO_ISO14443_4", TRUE), Set("FORCE_ISO14443_A", TRUE), Set("FORCE_SPEED_106", TRUE),
                Set("ACCEPT_INVALID_FRAMES", FALSE), Set("ACCEPT_MULTIPLE_FRAMES", FALSE)>> \in Seq(S)
<1>1. /\ Set("ACTIVATE_FIELD", FALSE) \in S /\ Set("ACTIVATE_FIELD", TRUE) \in S
      /\ Set("AUTO_ISO14443_4", TRUE) \in S /\ Set("FORCE_ISO14443_A", TRUE) \in S /\ Set("FORCE_SPEED_106", TRUE) \in S
      /\ Set("ACCEPT_INVALID_FRAMES", FALSE) \in S /\ Set("ACCEPT_MULTIPLE_FRAMES", FALSE) \in S
  BY DEF Property
<1> QED
  BY <1>1, Two, Five

(* nfc_initiator_init sets the number of tries third. *)
BeforeTries == <<Set("ACTIVATE_FIELD", FALSE), Set("ACTIVATE_FIELD", TRUE)>>
AfterTries  == <<Set("AUTO_ISO14443_4", TRUE), Set("FORCE_ISO14443_A", TRUE), Set("FORCE_SPEED_106", TRUE),
                 Set("ACCEPT_INVALID_FRAMES", FALSE), Set("ACCEPT_MULTIPLE_FRAMES", FALSE)>> \o pn53x_initiator_init

LEMMA TriesThird ==
    Program([name |-> "nfc_initiator_init"]) = BeforeTries \o Cons(Set("INFINITE_SELECT", TRUE), AfterTries)
<1> DEFINE a == Set("ACTIVATE_FIELD", FALSE)
           b == Set("ACTIVATE_FIELD", TRUE)
           c == Set("INFINITE_SELECT", TRUE)
           e == Set("AUTO_ISO14443_4", TRUE)
           f == Set("FORCE_ISO14443_A", TRUE)
           g == Set("FORCE_SPEED_106", TRUE)
           h == Set("ACCEPT_INVALID_FRAMES", FALSE)
           i == Set("ACCEPT_MULTIPLE_FRAMES", FALSE)
           q == pn53x_initiator_init
           A == Steps \cup {a, b, c, e, f, g, h, i}
           whole == <<a, b, c, e, f, g, h, i>> \o q
           split == <<a, b>> \o (<<c>> \o (<<e, f, g, h, i>> \o q))
<1>1. Program([name |-> "nfc_initiator_init"]) = whole
  BY DEF Program
<1>2. BeforeTries \o Cons(Set("INFINITE_SELECT", TRUE), AfterTries) = split
  BY DEF BeforeTries, AfterTries, Cons
<1>3. q \in Seq(Steps) /\ Steps \subseteq A
  BY ResetSteps
<1>4. a \in A /\ b \in A /\ c \in A /\ e \in A /\ f \in A /\ g \in A /\ h \in A /\ i \in A
  OBVIOUS
<1> HIDE DEF a, b, c, e, f, g, h, i, q, A
<1>5. q \in Seq(A)
  BY <1>3
<1>6a. whole \in Seq(A) /\ split \in Seq(A) /\ Len(whole) = Len(split)
  BY <1>5, <1>4
<1>6. \A k \in 1..Len(whole) : whole[k] = split[k]
  BY <1>5, <1>4
<1> HIDE DEF whole, split
<1>7. whole = split
  BY <1>6a, <1>6, SameElements
<1> QED
  BY <1>1, <1>2, <1>7

LEMMA ProgramSteps == ASSUME DevType, NEW c \in Programs PROVE Program(c) \in Seq(Steps)
<1> USE None0, One, Two
<1>1. CASE c = Open
  <2>1. <<Send([op |-> "GetFirmwareVersion"]), Send(SetParameters({AUTO_ATR_RES, AUTO_RATS})),
          Keep("ui8Parameters", {AUTO_ATR_RES, AUTO_RATS})>> \in Seq(Steps)
    BY Three, SendIsStep, KeepIsStep, Sends DEF Parameters
  <2>2. logo_init \in Seq(Steps)
    BY WriteIsStep, SettingsAssumption DEF logo_init, Register, Full
  <2> QED
    BY <1>1, <2>1, <2>2, ResetSteps, Joined DEF Program, Open
<1>2. CASE c = [name |-> "nfc_initiator_init"]
  <2>1. \A prop \in Property \ {"INFINITE_SELECT"}, on \in BOOLEAN : Set(prop, on) \in Steps
    BY SetIsStep
  <2>2. BeforeTries \in Seq(Steps) /\ AfterTries \in Seq(Steps)
    BY <2>1, InitSteps, ResetSteps, Joined DEF BeforeTries, AfterTries
  <2>3. Cons(Set("INFINITE_SELECT", TRUE), AfterTries) \in Seq(Steps)
    BY <2>2, SetIsStep, One, Joined DEF Cons, Property
  <2> QED
    BY <1>2, <2>2, <2>3, TriesThird, Joined
<1>3. CASE c \in CallSet
  <2>1. TxBits(0) \in Steps /\ Send(CardCommand) \in Steps
    BY TxIsStep, SendIsStep, Sends
  <2>2. CASE c = [name |-> "transceive_bytes"]
    BY <2>1, <2>2 DEF Program
  <2>3. CASE c \in [name : {"transceive_bits"}, bits : {0, 7}]
    <3>1. TxBits(c.bits) \in Steps
      BY <2>3, TxIsStep
    <3> QED
      BY <2>1, <2>3, <3>1 DEF Program
  <2>4. CASE c.name = "nfc_device_set_property_bool"
    <3>1. c.property \in Property /\ c.on \in BOOLEAN
      BY <1>3, <2>4 DEF CallSet, Property
    <3>2. Set(c.property, c.on) \in Steps
      BY <3>1, SetIsStep
    <3> QED
      BY <2>4, <3>2 DEF Program
  <2>5. c.name = "nfc_device_set_property_bool" \/ c \in [name : {"transceive_bits"}, bits : {0, 7}]
        \/ c = [name |-> "transceive_bytes"] \/ c = [name |-> "nfc_initiator_init"]
    BY <1>3 DEF CallSet
  <2> QED
    BY <1>2, <2>2, <2>3, <2>4, <2>5
<1> QED
  BY <1>1, <1>2, <1>3 DEF Programs

-----------------------------------------------------------------------------
(* The number of tries, on its way from the program to the chip. *)

Quiet == {s \in Steps : /\ ~(s.do = "set" /\ s.property = "INFINITE_SELECT")
                        /\ ~(s.do = "keep" /\ s.name = "bInfiniteSelect")
                        /\ ~(s.do = "send" /\ s.cmd.op = "MaxRetries")}

Broken == AtRest /\ res = "error"

(* Nothing that is left of the call changes the number of tries. *)
Settled == todo \in Seq(Quiet) /\ cmd.op # "MaxRetries"

Tries(i) == dev["bInfiniteSelect"] = i /\ (retries = IF i THEN "forever" ELSE "few")

Ahead(i) == cmd.op # "MaxRetries" /\ \E a, b \in Seq(Quiet) : todo = a \o Cons(Set("INFINITE_SELECT", i), b)
Noting(i) == /\ pc = "idle" /\ cmd.op # "MaxRetries"
             /\ \E b \in Seq(Quiet) : todo = Cons(Keep("bInfiniteSelect", i), Cons(Send(RFConfiguration__MaxRetries(i)), b))
Sending(i) == /\ pc = "idle" /\ dev["bInfiniteSelect"] = i
              /\ \E b \in Seq(Quiet) : todo = Cons(Send(RFConfiguration__MaxRetries(i)), b)
Telling(i) == pc # "idle" /\ cmd = RFConfiguration__MaxRetries(i) /\ todo \in Seq(Quiet) /\ dev["bInfiniteSelect"] = i
Tried(i) == Settled /\ Tries(i)

Pending(i) == Ahead(i) \/ Noting(i) \/ Sending(i) \/ Telling(i) \/ Tried(i)

LEMMA QuietSteps == Quiet \subseteq Steps /\ \A q \in Seq(Quiet) : q \in Seq(Steps)
BY DEF Quiet

LEMMA QuietMakes ==
    ASSUME NEW s \in Quiet, s.do \in {"set", "tx"} PROVE Makes(s) \subseteq Quiet
<1>0. s \in Steps /\ Makes(s) \subseteq Steps
  BY MakesSteps, QuietSteps
<1>1. ASSUME NEW x \in Makes(s), x.do = "keep" PROVE x.name # "bInfiniteSelect"
  <2>1. CASE s.do = "tx"
    BY <1>1, <2>1 DEF Makes, Write, Keep
  <2>2. CASE s.do = "set"
    <3>1. s.property \in Property /\ s.property # "INFINITE_SELECT"
      BY <1>0, <2>2, StepKinds DEF Quiet
    <3>2. \A y \in WritesOf(s.property, s.on) : y.do = "write"
      BY <3>1 DEF WritesOf, Write
    <3>3. \A y \in SendsOf(s.property, s.on) : y.do = "send"
      BY <3>1 DEF SendsOf, Send
    <3>4. \A y \in KeepsOf(s.property, s.on) : y.name # "bInfiniteSelect"
      BY <3>1 DEF KeepsOf, Keep
    <3> QED
      BY <1>1, <2>2, <3>2, <3>3, <3>4 DEF Makes
  <2> QED
    BY <2>1, <2>2
<1>2. ASSUME NEW x \in Makes(s), x.do = "send" PROVE x.cmd.op # "MaxRetries"
  <2>1. CASE s.do = "tx"
    BY <1>2, <2>1 DEF Makes, Write, Keep
  <2>2. CASE s.do = "set"
    <3>1. s.property \in Property /\ s.property # "INFINITE_SELECT"
      BY <1>0, <2>2, StepKinds DEF Quiet
    <3>2. \A y \in WritesOf(s.property, s.on) : y.do = "write"
      BY <3>1 DEF WritesOf, Write
    <3>3. \A y \in SendsOf(s.property, s.on) : y.cmd.op # "MaxRetries"
      BY <3>1 DEF SendsOf, Send, SetParameters, RFConfiguration__RF_field
    <3>4. \A y \in KeepsOf(s.property, s.on) : y.do = "keep"
      BY <3>1 DEF KeepsOf, Keep
    <3> QED
      BY <1>2, <2>2, <3>2, <3>3, <3>4 DEF Makes
  <2> QED
    BY <2>1, <2>2
<1>3. ASSUME NEW x \in Makes(s) PROVE x.do # "set"
  <2>1. CASE s.do = "tx"
    BY <2>1 DEF Makes, Write, Keep
  <2>2. CASE s.do = "set"
    BY <2>2 DEF Makes, WritesOf, KeepsOf, SendsOf, Write, Keep, Send
  <2> QED
    BY <2>1, <2>2
<1> QED
  BY <1>0, <1>1, <1>2, <1>3 DEF Quiet

LEMMA QuietExpansion ==
    ASSUME Base, NEW s \in Quiet, s.do \in {"set", "tx"} PROVE Expansion(s) \in Seq(Quiet)
BY QuietMakes, QuietSteps, ExpandsIn DEF Base

(* An exchange does not turn one command into another of these. *)
LEMMA SameCommand ==
    ASSUME ExchangeStep
    PROVE  /\ cmd' \in {cmd, NoCommand} \/ cmd'.op = "WriteRegister"
           /\ todo' = todo /\ dev' = dev /\ pc # "idle"
           /\ pc' = "idle" => cmd' = NoCommand /\ Obey
           /\ pc' # "idle" => retries' = retries /\ (cmd.op = "MaxRetries" => cmd' = cmd)
BY DEF ExchangeStep, Answer, ReadBack, WriteBack, ReadDirect, After, settings

LEMMA QuietDoes ==
    ASSUME Base, Progress, cmd.op # "MaxRetries", pc = "idle" /\ todo # <<>> => Step \in Quiet
    PROVE  cmd'.op # "MaxRetries" /\ dev'["bInfiniteSelect"] = dev["bInfiniteSelect"] /\ retries' = retries
<1>1. CASE Expand
  BY <1>1, ExpandSteps DEF vars, settings
<1>2. CASE KeepStep
  <2>1. pc = "idle" /\ todo # <<>> /\ Step.do = "keep"
    BY <1>2 DEF KeepStep
  <2>2. Step.name # "bInfiniteSelect"
    BY <2>1 DEF Quiet
  <2>3. "bInfiniteSelect" \in DOMAIN dev
    BY DEF Base, DevType, Flag
  <2> QED
    BY <1>2, <2>2, <2>3, KeptDev DEF vars, settings
<1>3. CASE WriteStep
  <2>1. cmd' = cmd \/ cmd'.op \in {"Update", "WriteRegister"}
    BY <1>3, NotedStep, DirectCommand, StepIn, StepKinds DEF WriteStep
  <2> QED
    BY <1>3, <2>1 DEF WriteStep, settings
<1>4. CASE SendStep
  <2>1. pc = "idle" /\ todo # <<>> /\ Step.do = "send" /\ cmd' = Step.cmd
    BY <1>4 DEF SendStep, pn53x_transceive
  <2>2. Step.cmd.op # "MaxRetries"
    BY <2>1 DEF Quiet
  <2> QED
    BY <1>4, <2>1, <2>2 DEF SendStep, settings
<1>5. CASE ExchangeStep
  <2>1. cmd'.op # "MaxRetries"
    BY <1>5, SameCommand DEF NoCommand
  <2>2. retries' = retries
    BY <1>5, SameCommand DEF Obey
  <2> QED
    BY <1>5, <2>1, <2>2, SameCommand
<1>6. ASSUME NEW done \in BOOLEAN, FailStep(done)
      PROVE  cmd'.op # "MaxRetries" /\ dev'["bInfiniteSelect"] = dev["bInfiniteSelect"] /\ retries' = retries
  BY <1>6 DEF FailStep, Fail, Obey, settings, NoCommand
<1> QED
  BY <1>1, <1>2, <1>3, <1>4, <1>5, <1>6 DEF Progress

LEMMA HeadIn == ASSUME NEW S, NEW x \in Seq(S), x # <<>> PROVE Head(x) \in S /\ Tail(x) \in Seq(S)
OBVIOUS

LEMMA FewerSteps ==
    ASSUME Base, Progress, todo \in Seq(Quiet) PROVE todo' \in Seq(Quiet)
<1>1. CASE Expand
  <2>1. todo # <<>> /\ Step.do \in {"set", "tx"} /\ todo' = Expansion(Step) \o Tail(todo)
    BY <1>1, ExpandSteps DEF Expand
  <2>2. Step \in Quiet /\ Tail(todo) \in Seq(Quiet)
    BY <2>1, HeadIn DEF Step
  <2>3. Expansion(Step) \in Seq(Quiet)
    BY <2>1, <2>2, QuietExpansion
  <2> QED
    BY <2>1, <2>2, <2>3, Joined
<1>2. CASE KeepStep \/ WriteStep \/ SendStep
  BY <1>2, TailMoves, HeadIn
<1> QED
  BY <1>1, <1>2, TodoMoves, None0

LEMMA Steady ==
    ASSUME Base, Progress, Settled
    PROVE  Settled' /\ dev'["bInfiniteSelect"] = dev["bInfiniteSelect"] /\ retries' = retries
<1>1. todo # <<>> => Step \in Quiet
  BY HeadIn DEF Settled, Step
<1> QED
  BY <1>1, QuietDoes, FewerSteps DEF Settled

LEMMA AheadMoves ==
    ASSUME Base, Progress, NEW i \in BOOLEAN, Ahead(i)
    PROVE  Broken' \/ Ahead(i)' \/ Noting(i)'
<1>0. PICK a \in Seq(Quiet), b \in Seq(Quiet) : todo = a \o Cons(Set("INFINITE_SELECT", i), b)
  BY DEF Ahead
<1> DEFINE c == Cons(Set("INFINITE_SELECT", i), b)
<1>1. /\ Set("INFINITE_SELECT", i) \in Steps /\ a \in Seq(Steps) /\ b \in Seq(Steps) /\ c \in Seq(Steps)
      /\ c # <<>> /\ Head(c) = Set("INFINITE_SELECT", i) /\ Tail(c) = b
  BY SetIsStep, QuietSteps, ConsIs DEF Property
<1>2. CASE a # <<>>
  <2>1. todo # <<>> /\ Head(todo) = Head(a) /\ Tail(todo) = Tail(a) \o c /\ Head(a) \in Quiet /\ Tail(a) \in Seq(Quiet)
    BY <1>0, <1>1, <1>2, TailJoined, HeadIn
  <2>2. cmd'.op # "MaxRetries"
    BY <2>1, QuietDoes DEF Ahead, Step
  <2>3. ASSUME NEW x \in Seq(Quiet), todo' = x \o c PROVE Ahead(i)'
    BY <2>2, <2>3 DEF Ahead
  <2>4. CASE KeepStep \/ WriteStep \/ SendStep
    BY <2>1, <2>3, <2>4, TailMoves
  <2>5. CASE Expand
    <3>1. Step \in Quiet /\ Step.do \in {"set", "tx"} /\ todo' = Expansion(Step) \o (Tail(a) \o c)
      BY <2>1, <2>5, ExpandSteps DEF Step
    <3>2. Expansion(Step) \in Seq(Quiet)
      BY <3>1, QuietExpansion
    <3>3. Expansion(Step) \in Seq(Steps) /\ Tail(a) \in Seq(Steps)
      BY <2>1, <3>2, QuietSteps
    <3> HIDE DEF c
    <3>4. (Expansion(Step) \o Tail(a)) \o c = Expansion(Step) \o (Tail(a) \o c)
      BY <1>1, <3>3, JoinedAssoc
    <3> QED
      BY <2>1, <2>3, <3>1, <3>2, <3>4, Joined
  <2>6. CASE todo' = todo
    BY <1>0, <2>3, <2>6
  <2> QED
    BY <2>4, <2>5, <2>6, TodoMoves DEF Broken, AtRest
<1>3. CASE a = <<>>
  <2>1. todo = c
    BY <1>0, <1>1, <1>3, EmptyJoined
  <2>2. Step = Set("INFINITE_SELECT", i) /\ todo # <<>> /\ Tail(todo) = b
    BY <1>1, <2>1 DEF Step
  <2>3. Step.do = "set" /\ Step.property = "INFINITE_SELECT" /\ Step.on = i
    BY <2>2 DEF Set
  <2>4. CASE KeepStep \/ WriteStep \/ SendStep
    BY <2>3, <2>4 DEF KeepStep, WriteStep, SendStep
  <2>5. CASE Expand
    <3>1. todo' = <<Keep("bInfiniteSelect", i), Send(RFConfiguration__MaxRetries(i))>> \o b
      BY <2>2, <2>3, <2>5, ExpandSteps DEF Expansion, set_property_bool
    <3>2. Keep("bInfiniteSelect", i) \in Steps /\ Send(RFConfiguration__MaxRetries(i)) \in Steps
      BY KeepIsStep, SendIsStep, Sends DEF Flag
    <3>3. todo' = Cons(Keep("bInfiniteSelect", i), Cons(Send(RFConfiguration__MaxRetries(i)), b))
      BY <1>1, <3>1, <3>2, TwoJoined
    <3>4. pc' = "idle" /\ cmd'.op # "MaxRetries"
      BY <2>5, ExpandSteps DEF vars, Ahead
    <3> QED
      BY <3>3, <3>4 DEF Noting
  <2>6. CASE ExchangeStep /\ todo' = todo
    <3>1. cmd'.op # "MaxRetries"
      BY <2>6, SameCommand DEF Ahead, NoCommand
    <3> QED
      BY <1>0, <2>6, <3>1 DEF Ahead
  <2> QED
    BY <2>4, <2>5, <2>6, TodoMoves DEF Broken, AtRest
<1> QED
  BY <1>2, <1>3

LEMMA NotingMoves ==
    ASSUME Base, Progress, NEW i \in BOOLEAN, Noting(i) PROVE Sending(i)'
<1>0. PICK b \in Seq(Quiet) : todo = Cons(Keep("bInfiniteSelect", i), Cons(Send(RFConfiguration__MaxRetries(i)), b))
  BY DEF Noting
<1>1. Keep("bInfiniteSelect", i) \in Steps /\ Send(RFConfiguration__MaxRetries(i)) \in Steps /\ b \in Seq(Steps)
  BY KeepIsStep, SendIsStep, Sends, QuietSteps DEF Flag
<1>2. Cons(Send(RFConfiguration__MaxRetries(i)), b) \in Seq(Steps)
  BY <1>1, ConsIs
<1>3. Step = Keep("bInfiniteSelect", i) /\ Tail(todo) = Cons(Send(RFConfiguration__MaxRetries(i)), b)
  BY <1>0, <1>1, <1>2, ConsIs DEF Step
<1>4. Step.do = "keep" /\ Step.name = "bInfiniteSelect" /\ Step.value = i
  BY <1>3 DEF Keep
<1>5. pc = "idle"
  BY DEF Noting
<1>6. ~ExchangeStep /\ ~\E done \in BOOLEAN : FailStep(done)
  BY <1>5, SameCommand DEF FailStep, Fail
<1>7. KeepStep
  BY <1>4, <1>6 DEF Progress, Expand, WriteStep, SendStep
<1>8. dev'["bInfiniteSelect"] = i /\ todo' = Tail(todo) /\ pc' = "idle"
  BY <1>4, <1>5, <1>7, KeptDev DEF Base, DevType, Flag, vars
<1> QED
  BY <1>3, <1>8 DEF Sending

LEMMA SendingMoves ==
    ASSUME Base, Progress, NEW i \in BOOLEAN, Sending(i) PROVE Telling(i)'
<1>0. PICK b \in Seq(Quiet) : todo = Cons(Send(RFConfiguration__MaxRetries(i)), b)
  BY DEF Sending
<1>1. Send(RFConfiguration__MaxRetries(i)) \in Steps /\ b \in Seq(Steps)
  BY SendIsStep, Sends, QuietSteps
<1>3. Step = Send(RFConfiguration__MaxRetries(i)) /\ Tail(todo) = b
  BY <1>0, <1>1, ConsIs DEF Step
<1>4. Step.do = "send" /\ Step.cmd = RFConfiguration__MaxRetries(i)
  BY <1>3 DEF Send
<1>5. pc = "idle"
  BY DEF Sending
<1>6. ~ExchangeStep /\ ~\E done \in BOOLEAN : FailStep(done)
  BY <1>5, SameCommand DEF FailStep, Fail
<1>7. SendStep
  BY <1>4, <1>6 DEF Progress, Expand, WriteStep, KeepStep
<1>8. cmd' = RFConfiguration__MaxRetries(i) /\ todo' = b /\ pc' # "idle" /\ dev' = dev
  BY <1>3, <1>4, <1>7 DEF SendStep, pn53x_transceive, After
<1> QED
  BY <1>8 DEF Sending, Telling

LEMMA TellingMoves ==
    ASSUME Base, Progress, NEW i \in BOOLEAN, Telling(i) PROVE Broken' \/ Telling(i)' \/ Tried(i)'
<1>1. cmd.op = "MaxRetries" /\ cmd.many = i /\ pc # "idle" /\ todo \in Seq(Quiet)
  BY DEF Telling, RFConfiguration__MaxRetries
<1>2. (ExchangeStep /\ todo' = todo) \/ Broken'
  BY <1>1, TodoMoves, InTurn DEF Broken, AtRest
<1>3. CASE ExchangeStep /\ pc' # "idle"
  BY <1>1, <1>3, SameCommand DEF Telling
<1>4. CASE ExchangeStep /\ pc' = "idle"
  <2>1. cmd' = NoCommand /\ Obey /\ todo' = todo /\ dev' = dev
    BY <1>4, SameCommand
  <2>2. retries' = IF i THEN "forever" ELSE "few"
    BY <1>1, <2>1 DEF Obey
  <2> QED
    BY <1>1, <2>1, <2>2 DEF Telling, Tried, Settled, Tries, NoCommand
<1> QED
  BY <1>2, <1>3, <1>4

(* A change of the number of tries that is under way goes on, or fails.     *)
LEMMA PendingMoves ==
    ASSUME Base, Progress, NEW i \in BOOLEAN, Pending(i) PROVE Broken' \/ Pending(i)'
<1>1. Tried(i) => Tried(i)'
  BY Steady DEF Tried, Tries
<1> QED
  BY <1>1, AheadMoves, NotingMoves, SendingMoves, TellingMoves DEF Pending

LEMMA PendingDone ==
    ASSUME NEW i, Pending(i), AtRest PROVE Tried(i)
<1>1. ~Ahead(i)
  <2> SUFFICES ASSUME NEW a \in Seq(Quiet), NEW b \in Seq(Quiet), todo = a \o (<<Set("INFINITE_SELECT", i)>> \o b) PROVE FALSE
    BY DEF Ahead, Cons
  <2>1. Len(todo) = Len(a) + (1 + Len(b))
    OBVIOUS
  <2> QED
    BY <2>1 DEF AtRest
<1>2. ASSUME NEW x, NEW y, todo = Cons(x, y), NEW S, y \in Seq(S) PROVE FALSE
  <2>1. Len(todo) = 1 + Len(y)
    BY <1>2 DEF Cons
  <2> QED
    BY <1>2, <2>1 DEF AtRest
<1>3. ~Noting(i) /\ ~Sending(i)
  <2>1. \A b \in Seq(Quiet) : \E S : Cons(Send(RFConfiguration__MaxRetries(i)), b) \in Seq(S)
    <3> TAKE b \in Seq(Quiet)
    <3>1. Cons(Send(RFConfiguration__MaxRetries(i)), b) \in Seq(Quiet \cup {Send(RFConfiguration__MaxRetries(i))})
      BY DEF Cons
    <3> QED
      BY <3>1
  <2> QED
    BY <1>2, <2>1 DEF Noting, Sending
<1> QED
  BY <1>1, <1>3 DEF Pending, Telling, AtRest

-----------------------------------------------------------------------------
(* NfcDevice on top. *)

Mine == 
    /\ m_infinite \in BOOLEAN /\ infinite \in BOOLEAN /\ doubt \in BOOLEAN
    /\ m_device \in {"opening", "initiator", "open", "none", "libnfc"} /\ job \in {"idle", "infinite", "select", "card"}
    /\ m_device # "open" => job = "idle"
    /\ m_device \in {"opening", "initiator"} => m_infinite = TRUE
    /\ m_device = "initiator" => Broken \/ Pending(TRUE)
    /\ m_device = "open" /\ job = "infinite" => Broken \/ Pending(infinite)
    /\ m_device = "open" /\ job # "infinite" => Settled /\ (doubt \/ Tries(m_infinite))

DInv == Base /\ Mine

LEMMA BaseInit == SettingsInit => Base
<1> SUFFICES ASSUME SettingsInit PROVE Base
  OBVIOUS
<1>1. chip \in [Register -> SUBSET Bit]
  BY SettingsAssumption DEF SettingsInit, PoweredUp, LeftRaw
<1>2. Init
  BY <1>1 DEF SettingsInit, Init
<1>3. Inv
  BY <1>2, InitInv
<1>4. DevType
  <2>1. PICK model \in Models : dev = Closed(model)
    BY DEF SettingsInit
  <2>2. "ui8TxBits" \notin Flag /\ "ui8Parameters" \notin Flag
    BY DEF Flag
  <2>3. /\ DOMAIN dev = Flag \cup {"ui8TxBits", "ui8Parameters", "model"}
        /\ \A f \in Flag : dev[f] = FALSE
        /\ dev["ui8TxBits"] = 0 /\ dev["ui8Parameters"] = {}
    BY <2>1, <2>2 DEF Closed
  <2>4. \A f \in Flag : dev[f] \in BOOLEAN
    BY <2>3
  <2>5. dev["ui8TxBits"] \in Nat /\ dev["ui8Parameters"] \in Parameters
    BY <2>3 DEF Parameters
  <2> QED
    BY <2>3, <2>4, <2>5 DEF DevType
<1>5. todo \in Seq(Steps)
  BY <1>4, ProgramSteps DEF SettingsInit, Programs
<1> QED
  BY <1>3, <1>4, <1>5 DEF Base, SettingsInit, Clean, Parameters, AtRest

LEMMA MineInit == ASSUME SettingsInit, DeviceInit \/ DeviceLent PROVE Mine
BY DEF DeviceInit, DeviceLent, Mine

LEMMA DInvInit == MCInit => DInv
BY BaseInit, MineInit DEF MCInit, DInv, DeviceInit

(* Nothing of what the invariant speaks of has changed. *)
LEMMA DInvSame == ASSUME DInv, UNCHANGED <<vars, dev, settings, todo, forgotten, unsure>> PROVE Base'
<1>1. /\ todo' = todo
      /\ UNCHANGED <<chip, wb_data, wb_mask, wb_trigged, pc, cmd, res, faults, stranded>>
      /\ UNCHANGED <<dev, parameters, retries, field, forgotten, unsure>>
  BY DEF vars, settings
<1>2. Inv'
  BY <1>1 DEF DInv, Base, Inv, TypeOK, Told, Partial
<1>3. DevType'
  BY <1>1 DEF DInv, Base, DevType
<1> QED
  BY <1>1, <1>2, <1>3 DEF DInv, Base, AtRest

LEMMA SameTries ==
    ASSUME UNCHANGED <<vars, dev, settings, todo>>
    PROVE  /\ \A i : Tries(i)' <=> Tries(i)
           /\ \A i : Pending(i)' <=> Pending(i)
           /\ Broken' <=> Broken
           /\ Settled' <=> Settled
           /\ AtRest' <=> AtRest
BY DEF Pending, Ahead, Noting, Sending, Telling, Tried, Settled, Tries, Broken, AtRest, vars, settings

LEMMA QuietCalls ==
    /\ <<Send(InListPassiveTarget)>> \in Seq(Quiet)
    /\ <<Set("EASY_FRAMING", TRUE), TxBits(0), Send(CardCommand)>> \in Seq(Quiet)
<1>1. Send(InListPassiveTarget) \in Quiet /\ Send(CardCommand) \in Quiet
  BY SendIsStep, Sends DEF Quiet, Send, InListPassiveTarget, CardCommand
<1>2. Set("EASY_FRAMING", TRUE) \in Quiet
  BY SetIsStep DEF Quiet, Set, Property
<1>3. TxBits(0) \in Quiet
  BY TxIsStep DEF Quiet, TxBits
<1> QED
  BY <1>1, <1>2, <1>3, One, Three

LEMMA QuietStart ==
    ASSUME Base, NEW steps \in Seq(Quiet), Start(steps)
    PROVE  Base' /\ Settled' /\ \A i : Tries(i)' <=> Tries(i)
<1>1. steps \in Seq(Steps)
  BY QuietSteps
<1>2. cmd' = NoCommand
  BY DEF Base, Start, AtRest
<1> QED
  BY <1>1, <1>2, BaseStart DEF Start, Settled, Tries, NoCommand, settings

LEMMA BeginStarts == ASSUME NEW steps, NEW name, Begin(steps, name) PROVE Start(steps)
BY DEF Begin, Start

LEMMA TriesStart ==
    ASSUME Base, NEW i \in BOOLEAN, NEW a \in Seq(Quiet), NEW b \in Seq(Quiet),
           Start(a \o Cons(Set("INFINITE_SELECT", i), b))
    PROVE  Base' /\ Pending(i)'
<1>1. a \o Cons(Set("INFINITE_SELECT", i), b) \in Seq(Steps)
  BY QuietSteps, SetIsStep, ConsIs, Joined DEF Property
<1>2. cmd' = NoCommand
  BY DEF Base, Start, AtRest
<1>3. todo' = a \o Cons(Set("INFINITE_SELECT", i), b) /\ cmd'.op # "MaxRetries"
  BY <1>2 DEF Start, NoCommand
<1>4. Ahead(i)'
  BY <1>3 DEF Ahead
<1> QED
  BY <1>1, <1>4, BaseStart DEF Pending

LEMMA QuietInit == BeforeTries \in Seq(Quiet) /\ AfterTries \in Seq(Quiet)
<1>1. \A prop \in Property \ {"INFINITE_SELECT"}, on \in BOOLEAN : Set(prop, on) \in Quiet
  BY SetIsStep DEF Quiet, Set
<1>2. reset_settings \in Seq(Quiet)
  <2>1. Write("BitFraming", {"tx_last_bits"}, {}) \in Quiet /\ Keep("ui8TxBits", 0) \in Quiet
    BY WriteIsStep, KeepIsStep, SettingsAssumption DEF Quiet, Write, Keep, Register
  <2>2. /\ Set("HANDLE_CRC", TRUE) \in Quiet /\ Set("HANDLE_PARITY", TRUE) \in Quiet /\ Set("EASY_FRAMING", TRUE) \in Quiet
        /\ Set("ACTIVATE_CRYPTO1", FALSE) \in Quiet
    BY <1>1 DEF Property
  <2> QED
    BY <2>1, <2>2, Six DEF reset_settings
<1>3. Write("Control", {"initiator"}, {"initiator"}) \in Quiet
  BY WriteIsStep, SettingsAssumption DEF Quiet, Write, Register
<1>4. pn53x_initiator_init \in Seq(Quiet)
  BY <1>2, <1>3, One, Joined DEF pn53x_initiator_init
<1> QED
  BY <1>1, <1>4, InitSteps, Joined DEF BeforeTries, AfterTries

(* The steps of libnfc. *)
LEMMA MineProgress ==
    ASSUME DInv, Progress, UNCHANGED <<m_infinite, m_device, job, infinite, doubt>>
    PROVE  DInv'
<1>1. Base'
  BY BaseProgress DEF DInv
<1>2. ASSUME NEW i \in BOOLEAN, Broken \/ Pending(i) PROVE (Broken \/ Pending(i))'
  <2>1. CASE Broken
    <3>1. UNCHANGED <<todo, pc, res>>
      BY <2>1, InTurn, SameCommand DEF Broken, AtRest, Progress, Expand, KeepStep, WriteStep, SendStep, FailStep, Fail
    <3> QED
      BY <2>1, <3>1 DEF Broken, AtRest
  <2>2. CASE Pending(i)
    BY <2>2, PendingMoves DEF DInv
  <2> QED
    BY <1>2, <2>1, <2>2
<1>3. m_device = "initiator" => (Broken \/ Pending(TRUE))'
  BY <1>2 DEF DInv, Mine
<1>4. m_device = "open" /\ job = "infinite" => (Broken \/ Pending(infinite))'
  BY <1>2 DEF DInv, Mine
<1>5. m_device = "open" /\ job # "infinite" => Settled' /\ (doubt \/ Tries(m_infinite)')
  BY Steady DEF DInv, Mine, Tries
<1>6. (Broken \/ Pending(infinite))' <=> Broken' \/ Pending(infinite)'
  OBVIOUS
<1> QED
  BY <1>1, <1>3, <1>4, <1>5 DEF DInv, Mine, Tries

LEMMA DInvDevice == ASSUME DInv, DeviceNext PROVE DInv'
<1>0. Base /\ Mine
  BY DEF DInv
<1>1. CASE OpenDevice
  <2>1. CASE res = "ok"
    <3> DEFINE a == BeforeTries
               b == AfterTries
    <3>1. a \in Seq(Quiet) /\ b \in Seq(Quiet)
      BY QuietInit
    <3>2. Start(Program([name |-> "nfc_initiator_init"]))
      BY <1>1, <2>1, BeginStarts DEF OpenDevice
    <3>3. Start(a \o Cons(Set("INFINITE_SELECT", TRUE), b))
      BY <3>2, TriesThird
    <3> HIDE DEF a, b
    <3>4. Base' /\ Pending(TRUE)'
      BY <1>0, <3>1, <3>3, TriesStart
    <3>5. m_device' = "initiator" /\ UNCHANGED <<m_infinite, job, infinite, doubt>> /\ m_device = "opening"
      BY <1>1, <2>1 DEF OpenDevice
    <3> QED
      BY <1>0, <3>4, <3>5 DEF DInv, Mine
  <2>2. CASE res # "ok"
    <3>1. m_device' = "none" /\ UNCHANGED <<allvars, m_infinite, job, infinite, doubt>> /\ m_device = "opening"
      BY <1>1, <2>2 DEF OpenDevice
    <3>2. Base'
      BY <3>1, DInvSame DEF allvars
    <3> QED
      BY <1>0, <3>1, <3>2 DEF DInv, Mine
  <2> QED
    BY <2>1, <2>2
<1>2. CASE DeviceReady
  <2>1. UNCHANGED <<allvars, m_infinite, job, infinite, doubt>> /\ m_device = "initiator" /\ AtRest /\ m_device' \in {"open", "none"}
    BY <1>2 DEF DeviceReady
  <2>2. Base'
    BY <2>1, DInvSame DEF allvars
  <2>3. m_device' = "open" => Settled' /\ Tries(TRUE)'
    <3>1. m_device' = "open" => res = "ok"
      BY <1>2 DEF DeviceReady
    <3>2. res = "ok" => Pending(TRUE)
      BY <1>0, <2>1 DEF Mine, Broken
    <3>3. res = "ok" => Tried(TRUE)
      BY <2>1, <3>2, PendingDone
    <3> QED
      BY <2>1, <3>1, <3>3, SameTries DEF Tried, allvars
  <2>4. m_infinite = TRUE /\ job = "idle"
    BY <1>0, <2>1 DEF Mine
  <2> QED
    BY <1>0, <2>1, <2>2, <2>3, <2>4 DEF DInv, Mine
<1>3. CASE InfiniteDone
  <2>1. Start(<<Send(InListPassiveTarget)>>) /\ job' = "select" /\ job = "infinite" /\ AtRest /\ UNCHANGED <<m_device, infinite>>
    BY <1>3, BeginStarts DEF InfiniteDone, select
  <2>2. Base' /\ Settled' /\ \A i : Tries(i)' <=> Tries(i)
    BY <1>0, <2>1, QuietStart, QuietCalls
  <2>3. m_device = "open"
    BY <1>0, <2>1 DEF Mine
  <2>4. m_infinite' \in BOOLEAN /\ doubt' \in BOOLEAN
    BY <1>0, <1>3 DEF Mine, InfiniteDone
  <2>5. CASE res = "error"
    <3>1. doubt' = TRUE
      BY <1>3, <2>5 DEF InfiniteDone
    <3> QED
      BY <1>0, <2>1, <2>2, <2>3, <2>4, <3>1 DEF DInv, Mine
  <2>6. CASE res # "error"
    <3>1. Tries(infinite)
      BY <1>0, <2>1, <2>3, <2>6, PendingDone DEF Mine, Broken, Tried
    <3>2. m_infinite' = infinite
      BY <1>0, <1>3, <2>6 DEF InfiniteDone, Base, Inv, TypeOK
    <3>3. (Tries(m_infinite))'
      BY <2>2, <3>1, <3>2 DEF Tries
    <3> QED
      BY <1>0, <2>1, <2>2, <2>3, <2>4, <3>3 DEF DInv, Mine
  <2> QED
    BY <2>5, <2>6
<1>4. CASE JobDone
  <2>1. /\ UNCHANGED <<vars, dev, settings, todo, forgotten, unsure, m_infinite, m_device, infinite, doubt>>
        /\ job' = "idle" /\ job \in {"select", "card"}
    BY <1>4 DEF JobDone
  <2>2. Base'
    BY <2>1, DInvSame
  <2>3. m_device = "open"
    BY <1>0, <2>1 DEF Mine
  <2>4. Settled' /\ (doubt' \/ (Tries(m_infinite))')
    BY <1>0, <2>1, <2>3, SameTries DEF Mine, Tries, settings
  <2> QED
    BY <1>0, <2>1, <2>2, <2>3, <2>4 DEF DInv, Mine
<1>5. CASE LibnfcStep
  BY <1>5, MineProgress DEF LibnfcStep
<1>6. CASE Card
  <2>1. UNCHANGED <<allvars, m_infinite, m_device, job, infinite, doubt>>
    BY <1>6 DEF Card
  <2>2. Base'
    BY <2>1, DInvSame DEF allvars
  <2>3. /\ Broken' <=> Broken
        /\ Pending(TRUE)' <=> Pending(TRUE)
        /\ Pending(infinite)' <=> Pending(infinite)
        /\ Settled' <=> Settled
        /\ Tries(m_infinite)' <=> Tries(m_infinite)
    BY <2>1, SameTries DEF allvars
  <2> QED
    BY <1>0, <2>1, <2>2, <2>3 DEF DInv, Mine
<1>7. CASE mifareCmd
  <2>1. /\ Start(<<Set("EASY_FRAMING", TRUE), TxBits(0), Send(CardCommand)>>)
        /\ job' = "card" /\ job = "idle" /\ m_device = "open" /\ UNCHANGED <<m_infinite, m_device, infinite, doubt>>
    BY <1>7, BeginStarts DEF mifareCmd
  <2>2. Base' /\ Settled' /\ \A i : Tries(i)' <=> Tries(i)
    BY <1>0, <2>1, QuietStart, QuietCalls
  <2>3. doubt' \/ (Tries(m_infinite))'
    BY <1>0, <2>1, <2>2 DEF Mine, Tries
  <2> QED
    BY <1>0, <2>1, <2>2, <2>3 DEF DInv, Mine
<1>8. ASSUME NEW i \in BOOLEAN, findCard(i) PROVE DInv'
  <2>1. infinite' = i /\ UNCHANGED <<m_infinite, m_device, doubt>> /\ m_device = "open" /\ job = "idle"
    BY <1>8 DEF findCard, infiniteSelect
  <2>2. CASE infiniteSelect(i)
    <3>1. Start(<<Set("INFINITE_SELECT", i)>>) /\ job' = "infinite"
      BY <2>2, BeginStarts DEF infiniteSelect
    <3>2. <<Set("INFINITE_SELECT", i)>> = <<>> \o Cons(Set("INFINITE_SELECT", i), <<>>)
      BY EmptyJoined, One DEF Cons
    <3>3. Base' /\ Pending(i)'
      BY <1>0, <3>1, <3>2, TriesStart, None0
    <3>4. Pending(infinite)'
      BY <2>1, <3>3 DEF Pending, Ahead, Noting, Sending, Telling, Tried, Tries
    <3> QED
      BY <1>0, <2>1, <3>1, <3>3, <3>4 DEF DInv, Mine
  <2>3. CASE select
    <3>1. Start(<<Send(InListPassiveTarget)>>) /\ job' = "select"
      BY <2>3, BeginStarts DEF select
    <3>2. Base' /\ Settled' /\ \A j : Tries(j)' <=> Tries(j)
      BY <1>0, <3>1, QuietStart, QuietCalls
    <3>3. doubt' \/ (Tries(m_infinite))'
      BY <1>0, <2>1, <3>2 DEF Mine, Tries
    <3> QED
      BY <1>0, <2>1, <3>1, <3>2, <3>3 DEF DInv, Mine
  <2> QED
    BY <1>8, <2>2, <2>3 DEF findCard
<1> QED
  BY <1>1, <1>2, <1>3, <1>4, <1>5, <1>6, <1>7, <1>8 DEF DeviceNext, Device

LEMMA CallStarts == ASSUME NEW c, Call(c) PROVE Start(Program(c))
BY DEF Call, Start

LEMMA DInvNext == ASSUME DInv, [DeviceStep \/ TargetStep]_<<part, devvars, targets>> PROVE DInv'
<1>0. Base /\ Mine
  BY DEF DInv
<1>1. CASE UNCHANGED devvars
  <2>1. UNCHANGED <<allvars, m_infinite, m_device, job, infinite, doubt>>
    BY <1>1 DEF devvars, mine
  <2>2. Base'
    BY <2>1, DInvSame DEF allvars
  <2>3. /\ Broken' <=> Broken
        /\ Pending(TRUE)' <=> Pending(TRUE)
        /\ Pending(infinite)' <=> Pending(infinite)
        /\ Settled' <=> Settled
        /\ Tries(m_infinite)' <=> Tries(m_infinite)
    BY <2>1, SameTries DEF allvars
  <2> QED
    BY <1>0, <2>1, <2>2, <2>3 DEF DInv, Mine
<1>2. CASE m_device = "libnfc" /\ SettingsNext /\ UNCHANGED mine
  <2>1. UNCHANGED <<m_infinite, m_device, job, infinite, doubt>> /\ m_device = "libnfc"
    BY <1>2 DEF mine
  <2>2. CASE Progress
    BY <2>1, <2>2, MineProgress
  <2>3. ASSUME NEW c \in CallSet, Call(c) PROVE DInv'
    <3>1. Program(c) \in Seq(Steps)
      BY <1>0, ProgramSteps DEF Base, Programs
    <3>2. Base'
      BY <1>0, <2>3, <3>1, CallStarts, BaseStart
    <3> QED
      BY <1>0, <2>1, <3>2 DEF DInv, Mine
  <2> QED
    BY <1>2, <2>2, <2>3 DEF SettingsNext
<1> QED
  BY <1>1, <1>2, DInvDevice DEF DeviceStep, TargetStep

(* Between two jobs m_infinite, libnfc's bInfiniteSelect and the number of   *)
(* tries in the chip agree, whatever exchanges fail, except from a change  *)
(* that failed to the next that did not (infiniteSelect, findCard).        *)
THEOREM TriesAgree == MCSpec => []InfiniteKnown
<1>1. DInv => InfiniteKnown
  BY DEF DInv, Mine, InfiniteKnown, Tries, Settled
<1>2. DInv /\ [DeviceStep \/ TargetStep]_<<part, devvars, targets>> => DInv'
  BY DInvNext
<1> QED
  BY DInvInit, <1>1, <1>2, PTL DEF MCSpec

-----------------------------------------------------------------------------
(* The registers below the device: its steps are theirs, or change none. *)

LEMMA StartAsked == ASSUME UNCHANGED <<chip, wb_data, wb_mask>> PROVE UNCHANGED <<Asked, chip>>
BY DEF Asked, Masked

LEMMA DeviceKinds ==
    ASSUME [DeviceStep \/ TargetStep]_<<part, devvars, targets>>
    PROVE  Progress \/ UNCHANGED <<chip, wb_data, wb_mask>>
<1>1. ASSUME NEW steps, NEW name, Begin(steps, name) PROVE UNCHANGED <<chip, wb_data, wb_mask>>
  BY <1>1 DEF Begin, queue
<1>2. ASSUME NEW c, Call(c) PROVE UNCHANGED <<chip, wb_data, wb_mask>>
  BY <1>2 DEF Call, queue
<1>3. CASE UNCHANGED devvars
  BY <1>3 DEF devvars, allvars, vars
<1>4. CASE Device
  BY <1>1, <1>4 DEF Device, OpenDevice, DeviceReady, InfiniteDone, select, JobDone, LibnfcStep, allvars, vars
<1>5. CASE Card \/ mifareCmd
  BY <1>1, <1>5 DEF Card, mifareCmd, allvars, vars
<1>6. ASSUME NEW i \in BOOLEAN, findCard(i) PROVE UNCHANGED <<chip, wb_data, wb_mask>>
  BY <1>1, <1>6 DEF findCard, infiniteSelect, select
<1> QED
  BY <1>2, <1>3, <1>4, <1>5, <1>6 DEF DeviceStep, TargetStep, DeviceNext, SettingsNext

(* With the settings and NfcDevice above it the cache still is a register   *)
(* file whose writes are done at once: whatever pn53x_set_property_bool,   *)
(* pn53x_init and the commands to a card do to it.                         *)
THEOREM DeviceImplements == MCSpec => Writethrough
<1>1. MCInit => Init
  <2>1. SettingsInit => chip \in [Register -> SUBSET Bit]
    BY SettingsAssumption DEF SettingsInit, PoweredUp, LeftRaw
  <2> QED
    BY <2>1 DEF MCInit, DeviceInit, SettingsInit, Init
<1>2. MCInit => File!Init
  BY <1>1, InitFile
<1>3. DInv /\ [DeviceStep \/ TargetStep]_<<part, devvars, targets>> => [File!Next]_(File!vars)
  <2> SUFFICES ASSUME DInv, [DeviceStep \/ TargetStep]_<<part, devvars, targets>> PROVE [File!Next]_<<Asked, chip>>
    BY DEF File!vars
  <2>1. CASE Progress
    BY <2>1, UsesRegisters, NextFile DEF DInv, Base
  <2> QED
    BY <2>1, DeviceKinds, StartAsked
<1>4. DInv /\ [DeviceStep \/ TargetStep]_<<part, devvars, targets>> => DInv'
  BY DInvNext
<1> QED
  BY DInvInit, <1>2, <1>3, <1>4, PTL DEF MCSpec, Writethrough, File!Spec

(* No command of the device reaches the chip before the register writes     *)
(* that were asked for earlier, unless a write-back failed to read.        *)
THEOREM DeviceNoOvertaking == MCSpec => []CommandSeesWrites
<1>1. DInv => CommandSeesWrites
  BY ToldSees DEF DInv, Base
<1>2. DInv /\ [DeviceStep \/ TargetStep]_<<part, devvars, targets>> => DInv'
  BY DInvNext
<1> QED
  BY DInvInit, <1>1, <1>2, PTL DEF MCSpec

-----------------------------------------------------------------------------
(* How any steps move on. *)

(* The step whose turn it is is done. *)
LEMMA FirstDone ==
    ASSUME Base, Progress, pc = "idle", NEW x \in Steps, NEW b \in Seq(Steps), todo = Cons(x, b)
    PROVE  /\ Step = x
           /\ x.do = "write" => WriteStep /\ todo' = b
           /\ x.do = "keep" => KeepStep /\ todo' = b
           /\ x.do = "send" => SendStep /\ todo' = b
           /\ x.do \in {"set", "tx"} => Expand /\ todo' = Expansion(x) \o b
<1>1. Step = x /\ Tail(todo) = b
  BY ConsIs DEF Step
<1>2. ~ExchangeStep /\ ~\E done \in BOOLEAN : FailStep(done)
  BY SameCommand DEF FailStep, Fail
<1>3. Expand \/ KeepStep \/ WriteStep \/ SendStep
  BY <1>2 DEF Progress
<1>4. Expand => x.do \in {"set", "tx"} /\ todo' = Expansion(x) \o b
  BY <1>1, ExpandSteps
<1>5. /\ KeepStep => x.do = "keep" /\ todo' = b
      /\ WriteStep => x.do = "write" /\ todo' = b
      /\ SendStep => x.do = "send" /\ todo' = b
  BY <1>1 DEF KeepStep, WriteStep, SendStep
<1> QED
  BY <1>1, <1>3, <1>4, <1>5

(* Steps of a kind stay of that kind, and what stands behind them waits.    *)
LEMMA KindStays ==
    ASSUME Base, Progress, NEW G, G \subseteq Steps, todo \in Seq(G),
           Expand => Expansion(Step) \in Seq(G)
    PROVE  todo' \in Seq(G)
<1>1. CASE Expand
  <2>1. todo # <<>> /\ todo' = Expansion(Step) \o Tail(todo)
    BY <1>1, ExpandSteps DEF Expand
  <2>2. Tail(todo) \in Seq(G)
    BY <2>1, HeadIn
  <2> QED
    BY <1>1, <2>1, <2>2, Joined
<1>2. CASE KeepStep \/ WriteStep \/ SendStep
  BY <1>2, TailMoves, HeadIn
<1> QED
  BY <1>1, <1>2, TodoMoves, None0

LEMMA BeforeMoves ==
    ASSUME Base, Progress, NEW G, G \subseteq Steps, NEW a \in Seq(G), NEW c \in Seq(Steps), todo = a \o c,
           a # <<>> \/ pc # "idle", Expand => Expansion(Step) \in Seq(G)
    PROVE  Broken' \/ \E x \in Seq(G) : todo' = x \o c
<1>0. a \in Seq(Steps)
  OBVIOUS
<1>1. CASE a # <<>>
  <2>1. todo # <<>> /\ Tail(todo) = Tail(a) \o c /\ Tail(a) \in Seq(G)
    BY <1>0, <1>1, TailJoined, HeadIn
  <2>2. CASE KeepStep \/ WriteStep \/ SendStep
    BY <2>1, <2>2, TailMoves
  <2>3. CASE Expand
    <3>1. todo' = Expansion(Step) \o (Tail(a) \o c) /\ Expansion(Step) \in Seq(G)
      BY <2>1, <2>3, ExpandSteps
    <3>2. Expansion(Step) \in Seq(Steps) /\ Tail(a) \in Seq(Steps)
      BY <2>1, <3>1
    <3>3. (Expansion(Step) \o Tail(a)) \o c = Expansion(Step) \o (Tail(a) \o c)
      BY <3>2, JoinedAssoc
    <3>4. Expansion(Step) \o Tail(a) \in Seq(G)
      BY <2>1, <3>1, Joined
    <3> QED
      BY <3>1, <3>3, <3>4
  <2> QED
    BY <2>2, <2>3, TodoMoves DEF Broken, AtRest
<1>2. CASE pc # "idle"
  BY <1>2, TodoMoves, InTurn DEF Broken, AtRest
<1> QED
  BY <1>1, <1>2

(* A bit of a cached register, and a copy, that a step does not speak of.   *)
LEMMA BitKept ==
    ASSUME Base, Progress, NEW r \in CachedRegister, NEW bit, WriteStep /\ Step.reg = r => bit \notin Step.mask
    PROVE  forgotten' \/ (bit \in Asked'[r] <=> bit \in Asked[r])
<1>1. CASE WriteStep
  <2>1. CASE Noted
    BY <1>1, <2>1 DEF Noted, Masked
  <2> QED
    BY <1>1, <2>1, NotedStep DEF SameAsked
<1>2. CASE ~WriteStep
  BY <1>2, AskedSteps DEF SameAsked
<1> QED
  BY <1>1, <1>2

LEMMA BitWritten ==
    ASSUME Base, WriteStep, Step.reg \in CachedRegister, NEW bit \in Step.mask
    PROVE  /\ bit \in Asked'[Step.reg] <=> bit \in Step.value
           /\ pc' = "idle" /\ UNCHANGED <<dev, call, forgotten, cmd>>
<1>1. Step.reg \notin DirectRegister
  BY RegistersAssumption
<1>2. Noted /\ pc' = "idle" /\ cmd' = cmd
  BY <1>1, NotedStep
<1>3. Asked'[Step.reg] = Masked(Asked[Step.reg], Step.mask, Step.value)
  BY <1>2 DEF Noted
<1> QED
  BY <1>2, <1>3 DEF Masked, WriteStep

LEMMA CopyKept ==
    ASSUME Base, Progress, NEW f \in DOMAIN dev, KeepStep => Step.name # f
    PROVE  dev'[f] = dev[f]
<1>1. CASE KeepStep
  BY <1>1, KeptDev
<1>2. CASE ~KeepStep
  BY <1>2 DEF Progress, Expand, WriteStep, SendStep, ExchangeStep, FailStep
<1> QED
  BY <1>1, <1>2

LEMMA CopyNoted ==
    ASSUME Base, KeepStep, Step.name \in DOMAIN dev
    PROVE  dev'[Step.name] = Step.value /\ UNCHANGED <<vars, settings, call, forgotten, unsure>> /\ SameAsked
<1>1. UNCHANGED <<vars, settings, call, forgotten, unsure>> /\ dev'[Step.name] = Step.value
  BY KeptDev
<1> QED
  BY <1>1, SameState DEF vars

LEMMA Forgetful == Progress => call' = call /\ (forgotten => forgotten') /\ (unsure => unsure')
<1> SUFFICES ASSUME Progress PROVE call' = call /\ (forgotten => forgotten') /\ (unsure => unsure')
  OBVIOUS
<1>1. call' = call
  BY DEF Progress, Expand, KeepStep, WriteStep, SendStep, ExchangeStep, FailStep
<1>2. CASE Expand \/ KeepStep \/ WriteStep \/ SendStep \/ ExchangeStep
  <2>1. forgotten' = forgotten /\ unsure' = unsure
    BY <1>2 DEF Expand, KeepStep, WriteStep, SendStep, ExchangeStep
  <2>2. forgotten => forgotten'
    BY <2>1
  <2>3. unsure => unsure'
    BY <2>1
  <2> QED
    BY <1>1, <2>2, <2>3
<1>3. ASSUME NEW done \in BOOLEAN, FailStep(done) PROVE (forgotten => forgotten') /\ (unsure => unsure')
  BY <1>3, Zenon DEF FailStep
<1> QED
  BY <1>1, <1>2, <1>3 DEF Progress

(* What fails stays so until the next call. *)
LEMMA StaysBroken == Broken /\ Progress => Broken'
<1> SUFFICES ASSUME Broken, Progress PROVE Broken'
  OBVIOUS
<1>1. UNCHANGED <<todo, pc, res>>
  BY InTurn, SameCommand DEF Broken, AtRest, Progress, Expand, KeepStep, WriteStep, SendStep, FailStep, Fail
<1> QED
  BY <1>1 DEF Broken, AtRest

LEMMA Writes ==
    ASSUME NEW r, NEW mask, NEW value
    PROVE  /\ Write(r, mask, value).do = "write" /\ Write(r, mask, value).reg = r
           /\ Write(r, mask, value).mask = mask /\ Write(r, mask, value).value = value
BY DEF Write
LEMMA Keeps == ASSUME NEW f, NEW v PROVE Keep(f, v).do = "keep" /\ Keep(f, v).name = f /\ Keep(f, v).value = v
BY DEF Keep

-----------------------------------------------------------------------------
(* A copy and the bit of a cached register that it stands for. *)
Copied == {"TxMode", "RxMode", "ManualRCV", "BitFraming"}
BitOf(r)   == CASE r \in {"TxMode", "RxMode"} -> "crc" [] r = "ManualRCV" -> "parity_disable" [] OTHER -> "tx_last_bits"
CopyOf(r)  == CASE r \in {"TxMode", "RxMode"} -> "bCrc" [] r = "ManualRCV" -> "bPar" [] OTHER -> "ui8TxBits"
OwnerOf(r) == CASE r \in {"TxMode", "RxMode"} -> "HANDLE_CRC" [] r = "ManualRCV" -> "HANDLE_PARITY" [] OTHER -> "none"
Values(r)  == IF r = "BitFraming" THEN Nat ELSE BOOLEAN
Says(r, v) == CASE r \in {"TxMode", "RxMode"} -> v = TRUE [] r = "ManualRCV" -> v = FALSE [] OTHER -> v # 0

Agree(r) == BitOf(r) \in Asked[r] <=> Says(r, dev[CopyOf(r)])

(* Steps that have nothing to do with the two. *)
Aside(r) == {s \in Steps : /\ ~(s.do = "write" /\ s.reg = r /\ BitOf(r) \in s.mask)
                           /\ ~(s.do = "keep" /\ s.name = CopyOf(r))}
Notes(r) == {s \in Aside(r) : s.do = "write" /\ s.reg \in CachedRegister}

(* The write that says v. *)
Tells(w, r, v) == /\ w \in Steps /\ w.do = "write" /\ w.reg = r /\ BitOf(r) \in w.mask
                  /\ BitOf(r) \in w.value <=> Says(r, v)

(* The two agree and will; the register is about to be written; it was, and  *)
(* the copy follows.                                                       *)
Calm(r)    == Agree(r) /\ todo \in Seq(Aside(r))
Opens(r, q) == \E v \in Values(r), w \in Steps, x \in Seq(Notes(r)), y \in Seq(Notes(r)), b \in Seq(Aside(r)) :
                   Tells(w, r, v) /\ q = x \o Cons(w, y \o Cons(Keep(CopyOf(r), v), b))
Writing(r) == pc = "idle" /\ Opens(r, todo)
Marked(r)  == pc = "idle" /\ \E v \in Values(r), y \in Seq(Notes(r)), b \in Seq(Aside(r)) :
                  (BitOf(r) \in Asked[r] <=> Says(r, v)) /\ todo = y \o Cons(Keep(CopyOf(r), v), b)

LEMMA CopiedKinds ==
    ASSUME NEW r \in Copied
    PROVE  /\ r \in CachedRegister /\ r \in Register
           /\ \A v \in Values(r) : Keep(CopyOf(r), v) \in Steps
           /\ DevType => CopyOf(r) \in DOMAIN dev /\ dev[CopyOf(r)] \in Values(r)
           /\ Aside(r) \subseteq Steps /\ Notes(r) \subseteq Steps /\ Notes(r) \subseteq Aside(r)
<1>1. r \in CachedRegister /\ r \in Register
  BY SettingsAssumption DEF Copied, Register
<1>2. \A v \in Values(r) : Keep(CopyOf(r), v) \in Steps
  BY KeepIsStep DEF Copied, CopyOf, Values, Flag
<1>3. DevType => CopyOf(r) \in DOMAIN dev /\ dev[CopyOf(r)] \in Values(r)
  BY DEF Copied, CopyOf, Values, Flag, DevType
<1> QED
  BY <1>1, <1>2, <1>3 DEF Aside, Notes

LEMMA SeqSub == ASSUME NEW S, NEW U, S \subseteq U, NEW q \in Seq(S) PROVE q \in Seq(U)
OBVIOUS

(* What a step that has nothing to do with them leaves alone. *)
LEMMA AsideKeeps ==
    ASSUME Base, Progress, NEW r \in Copied, pc = "idle" /\ todo # <<>> => Step \in Aside(r)
    PROVE  dev'[CopyOf(r)] = dev[CopyOf(r)] /\ (forgotten' \/ (BitOf(r) \in Asked'[r] <=> BitOf(r) \in Asked[r]))
<1>1. WriteStep /\ Step.reg = r => BitOf(r) \notin Step.mask
  BY InTurn DEF WriteStep, Aside
<1>2. KeepStep => Step.name # CopyOf(r)
  BY InTurn DEF KeepStep, Aside
<1>3. r \in CachedRegister /\ CopyOf(r) \in DOMAIN dev
  BY CopiedKinds DEF Base
<1>4. dev'[CopyOf(r)] = dev[CopyOf(r)]
  BY <1>2, <1>3, CopyKept
<1>5. forgotten' \/ (BitOf(r) \in Asked'[r] <=> BitOf(r) \in Asked[r])
  BY <1>1, <1>3, BitKept
<1> QED
  BY <1>4, <1>5

LEMMA NotesMove ==
    ASSUME Base, Progress, NEW r \in Copied, pc = "idle", NEW x \in Seq(Notes(r)), x # <<>>, NEW c \in Seq(Steps), todo = x \o c
    PROVE  /\ pc' = "idle" /\ todo' = Tail(x) \o c /\ Tail(x) \in Seq(Notes(r)) /\ dev' = dev
           /\ forgotten' \/ (BitOf(r) \in Asked'[r] <=> BitOf(r) \in Asked[r])
<1>0. x \in Seq(Steps) /\ Notes(r) \subseteq Aside(r)
  BY CopiedKinds, SeqSub
<1>1. todo # <<>> /\ Step = Head(x) /\ Tail(todo) = Tail(x) \o c
  BY <1>0, TailJoined DEF Step
<1>2. Head(x) \in Notes(r) /\ Tail(x) \in Seq(Notes(r))
  BY HeadIn
<1>3. Step.do = "write" /\ Step.reg \in CachedRegister /\ Step \in Aside(r)
  BY <1>0, <1>1, <1>2 DEF Notes
<1>4. ~ExchangeStep /\ ~\E done \in BOOLEAN : FailStep(done)
  BY SameCommand DEF FailStep, Fail
<1>5. WriteStep
  BY <1>3, <1>4 DEF Progress, Expand, KeepStep, SendStep
<1>6. pc' = "idle" /\ todo' = Tail(todo) /\ dev' = dev
  BY <1>3, <1>5, NotedStep, RegistersAssumption DEF WriteStep
<1>7. forgotten' \/ (BitOf(r) \in Asked'[r] <=> BitOf(r) \in Asked[r])
  BY <1>3, AsideKeeps
<1> QED
  BY <1>1, <1>2, <1>6, <1>7

LEMMA WritingMoves ==
    ASSUME Base, Progress, NEW r \in Copied, Writing(r)
    PROVE  forgotten' \/ Writing(r)' \/ Marked(r)'
<1>1. PICK v \in Values(r), w \in Steps, x \in Seq(Notes(r)), y \in Seq(Notes(r)), b \in Seq(Aside(r)) :
          Tells(w, r, v) /\ todo = x \o Cons(w, y \o Cons(Keep(CopyOf(r), v), b))
  BY DEF Writing, Opens
<1> DEFINE q == y \o Cons(Keep(CopyOf(r), v), b)
<1>2. x \in Seq(Steps) /\ q \in Seq(Steps) /\ Cons(w, q) \in Seq(Steps)
  <2>1. x \in Seq(Steps) /\ y \in Seq(Steps) /\ b \in Seq(Steps)
    BY CopiedKinds, SeqSub
  <2>2. Cons(Keep(CopyOf(r), v), b) \in Seq(Steps)
    BY <2>1, CopiedKinds, ConsIs
  <2>3. q \in Seq(Steps)
    BY <2>1, <2>2, Joined
  <2> QED
    BY <2>1, <2>3, ConsIs
<1>3. pc = "idle" /\ todo = x \o Cons(w, q)
  BY <1>1 DEF Writing, Opens
<1>4. CASE x # <<>>
  <2>1. pc' = "idle" /\ todo' = Tail(x) \o Cons(w, q) /\ Tail(x) \in Seq(Notes(r))
    <3> HIDE DEF q
    <3> QED
      BY <1>2, <1>3, <1>4, NotesMove
  <2> QED
    BY <1>1, <2>1 DEF Writing, Opens
<1>5. CASE x = <<>>
  <2> HIDE DEF q
  <2>1. todo = Cons(w, q)
    BY <1>2, <1>3, <1>5, EmptyJoined
  <2>2. Step = w /\ WriteStep /\ todo' = q
    BY <1>1, <1>2, <1>3, <2>1, FirstDone DEF Tells
  <2>3. r \in CachedRegister /\ Step.reg = r /\ BitOf(r) \in Step.mask
    BY <1>1, <2>2, CopiedKinds DEF Tells
  <2>4. (BitOf(r) \in Asked'[r] <=> BitOf(r) \in w.value) /\ pc' = "idle"
    <3>1. (BitOf(r) \in Asked'[Step.reg] <=> BitOf(r) \in Step.value) /\ pc' = "idle"
      BY <2>2, <2>3, BitWritten
    <3> QED
      BY <2>2, <2>3, <3>1
  <2>5. BitOf(r) \in Asked'[r] <=> Says(r, v)
    BY <1>1, <2>4 DEF Tells
  <2> QED
    BY <2>2, <2>4, <2>5 DEF Marked, q
<1> QED
  BY <1>4, <1>5

LEMMA MarkedMoves ==
    ASSUME Base, Progress, NEW r \in Copied, Marked(r)
    PROVE  forgotten' \/ Marked(r)' \/ Calm(r)'
<1>1. PICK v \in Values(r), y \in Seq(Notes(r)), b \in Seq(Aside(r)) :
          (BitOf(r) \in Asked[r] <=> Says(r, v)) /\ todo = y \o Cons(Keep(CopyOf(r), v), b)
  BY DEF Marked
<1> DEFINE k == Keep(CopyOf(r), v)
<1>2. k \in Steps /\ y \in Seq(Steps) /\ b \in Seq(Steps) /\ Cons(k, b) \in Seq(Steps)
  BY CopiedKinds, SeqSub, ConsIs
<1>3. pc = "idle" /\ todo = y \o Cons(k, b)
  BY <1>1 DEF Marked
<1>4. CASE y # <<>>
  <2>1. /\ pc' = "idle" /\ todo' = Tail(y) \o Cons(k, b) /\ Tail(y) \in Seq(Notes(r))
        /\ forgotten' \/ (BitOf(r) \in Asked'[r] <=> BitOf(r) \in Asked[r])
    <3> HIDE DEF k
    <3> QED
      BY <1>2, <1>3, <1>4, NotesMove
  <2> QED
    BY <1>1, <2>1 DEF Marked
<1>5. CASE y = <<>>
  <2>1. todo = Cons(k, b)
    <3> HIDE DEF k
    <3> QED
      BY <1>2, <1>3, <1>5, EmptyJoined
  <2>2. k.do = "keep" /\ k.name = CopyOf(r) /\ k.value = v
    BY Keeps
  <2> HIDE DEF k
  <2>3. Step = k /\ KeepStep /\ todo' = b
    BY <1>2, <1>3, <2>1, <2>2, FirstDone
  <2>4. Step.name \in DOMAIN dev
    BY <2>2, <2>3, CopiedKinds DEF Base
  <2>5. dev'[Step.name] = Step.value /\ SameAsked
    BY <2>3, <2>4, CopyNoted
  <2>6. dev'[CopyOf(r)] = v /\ Asked'[r] = Asked[r]
    BY <2>2, <2>3, <2>5, CopiedKinds DEF SameAsked
  <2>7. Agree(r)'
    BY <1>1, <2>6 DEF Agree
  <2> QED
    BY <2>3, <2>7 DEF Calm
<1> QED
  BY <1>4, <1>5

(* A step that concerns neither is replaced by such steps. *)
LEMMA AsideMakes ==
    ASSUME NEW r \in Copied, NEW s \in Steps, s.do \in {"set", "tx"},
           s.do = "set" => s.property # OwnerOf(r), s.do = "tx" => r # "BitFraming"
    PROVE  Makes(s) \subseteq Aside(r)
<1> SUFFICES ASSUME NEW m \in Makes(s) PROVE m \in Aside(r)
  OBVIOUS
<1>0. m \in Steps
  BY MakesSteps
<1>1. CASE s.do = "tx"
  BY <1>0, <1>1, Writes, Keeps DEF Makes, Aside, Copied, CopyOf
<1>2. CASE s.do = "set"
  <2>1. s.property \in Property /\ s.property # OwnerOf(r)
    BY <1>2, StepKinds
  <2>2. ASSUME m \in WritesOf(s.property, s.on) PROVE m \in Aside(r)
    <3>1. m.do = "write" /\ ~(m.reg = r /\ BitOf(r) \in m.mask)
      BY <2>1, <2>2, Writes DEF WritesOf, Property, OwnerOf, BitOf, Copied
    <3> QED
      BY <1>0, <3>1 DEF Aside
  <2>3. ASSUME m \in KeepsOf(s.property, s.on) PROVE m \in Aside(r)
    <3>1. m.do = "keep" /\ m.name # CopyOf(r)
      BY <2>1, <2>3, Keeps DEF KeepsOf, Property, OwnerOf, CopyOf, Copied
    <3> QED
      BY <1>0, <3>1 DEF Aside
  <2>4. ASSUME m \in SendsOf(s.property, s.on) PROVE m \in Aside(r)
    <3>1. m.do = "send"
      BY <2>1, <2>4 DEF SendsOf, Send
    <3> QED
      BY <1>0, <3>1 DEF Aside
  <2> QED
    BY <1>2, <2>2, <2>3, <2>4 DEF Makes
<1> QED
  BY <1>1, <1>2

(* What a step that concerns them is replaced by, and then b. *)
LEMMA Spread ==
    ASSUME DevType, NEW r \in Copied, NEW s \in Steps, NEW b \in Seq(Aside(r)), NEW v \in Values(r),
           (s.do = "set" /\ s.property = OwnerOf(r) /\ s.on = v) \/ (s.do = "tx" /\ r = "BitFraming" /\ s.bits = v)
    PROVE  IF v = dev[CopyOf(r)] THEN Expansion(s) = <<>> ELSE Opens(r, Expansion(s) \o b)
<1>0. b \in Seq(Steps) /\ Keep(CopyOf(r), v) \in Steps
  BY CopiedKinds, SeqSub
<1>1. CASE v = dev[CopyOf(r)]
  <2>1. CASE s.do = "set" /\ r \in {"TxMode", "RxMode"}
    BY <1>1, <2>1 DEF Expansion, set_property_bool, CopyOf, OwnerOf
  <2>2. CASE s.do = "set" /\ r = "ManualRCV"
    BY <1>1, <2>2 DEF Expansion, set_property_bool, CopyOf, OwnerOf
  <2>3. CASE s.do = "tx" /\ r = "BitFraming"
    BY <1>1, <2>3 DEF Expansion, set_tx_bits, CopyOf
  <2>4. ~(s.do = "set" /\ r = "BitFraming")
    BY StepKinds DEF OwnerOf, Property
  <2> QED
    BY <1>1, <2>1, <2>2, <2>3, <2>4 DEF Copied
<1>2. CASE v # dev[CopyOf(r)]
  <2>1. CASE s.do = "set" /\ r \in {"TxMode", "RxMode"}
    <3> DEFINE one == Write("TxMode", {"crc"}, If(v, {"crc"}))
               two == Write("RxMode", {"crc"}, If(v, {"crc"}))
               last == Keep("bCrc", v)
    <3>1. Expansion(s) = <<one, two, last>> /\ v \in BOOLEAN
      BY <1>2, <2>1 DEF Expansion, set_property_bool, CopyOf, OwnerOf, Values
    <3>2. one \in Steps /\ two \in Steps /\ last \in Steps
      BY <1>0, <2>1, <3>1, WriteIsStep, SettingsAssumption DEF If, Register, CopyOf
    <3>3. /\ one.do = "write" /\ one.reg = "TxMode" /\ one.mask = {"crc"} /\ ("crc" \in one.value <=> v = TRUE)
          /\ two.do = "write" /\ two.reg = "RxMode" /\ two.mask = {"crc"} /\ ("crc" \in two.value <=> v = TRUE)
      BY <3>1, Writes DEF If
    <3>4. last = Keep(CopyOf(r), v)
      BY <2>1 DEF CopyOf
    <3> HIDE DEF one, two, last
    <3>5. Expansion(s) \o b = Cons(one, Cons(two, Cons(last, b)))
      BY <1>0, <3>1, <3>2, ThreeJoined
    <3>6. CASE r = "TxMode"
      <4>1. Tells(one, r, v) /\ two \in Notes(r)
        BY <3>2, <3>3, <3>6, SettingsAssumption DEF Tells, Notes, Aside, BitOf, Says
      <4>2. <<>> \in Seq(Notes(r)) /\ <<two>> \in Seq(Notes(r))
        BY <4>1
      <4>3. Cons(one, Cons(two, Cons(last, b))) \in Seq(Steps)
        BY <1>0, <3>2, ConsIs
      <4>4. Expansion(s) \o b = <<>> \o Cons(one, <<two>> \o Cons(Keep(CopyOf(r), v), b))
        BY <3>4, <3>5, <4>3, EmptyJoined DEF Cons
      <4> QED
        BY <1>2, <3>2, <4>1, <4>2, <4>4 DEF Opens
    <3>7. CASE r = "RxMode"
      <4>1. Tells(two, r, v) /\ one \in Notes(r)
        BY <3>2, <3>3, <3>7, SettingsAssumption DEF Tells, Notes, Aside, BitOf, Says
      <4>2. <<>> \in Seq(Notes(r)) /\ <<one>> \in Seq(Notes(r))
        BY <4>1
      <4>3. Cons(last, b) \in Seq(Steps)
        BY <1>0, <3>2, ConsIs
      <4>4. <<>> \o Cons(last, b) = Cons(last, b)
        BY <4>3, EmptyJoined
      <4>5. Expansion(s) \o b = <<one>> \o Cons(two, <<>> \o Cons(Keep(CopyOf(r), v), b))
        BY <3>4, <3>5, <4>4 DEF Cons
      <4> QED
        BY <1>2, <3>2, <4>1, <4>2, <4>5 DEF Opens
    <3> QED
      BY <2>1, <3>6, <3>7
  <2>2. CASE (s.do = "set" /\ r = "ManualRCV") \/ (s.do = "tx" /\ r = "BitFraming")
    <3> DEFINE one == IF r = "ManualRCV" THEN Write("ManualRCV", {"parity_disable"}, If(~v, {"parity_disable"}))
                                         ELSE Write("BitFraming", {"tx_last_bits"}, If(v # 0, {"tx_last_bits"}))
               last == Keep(CopyOf(r), v)
    <3>1. Expansion(s) = <<one, last>>
      BY <1>2, <2>2 DEF Expansion, set_property_bool, set_tx_bits, CopyOf, OwnerOf
    <3>2. one \in Steps /\ last \in Steps
      BY <1>0, <2>2, WriteIsStep, SettingsAssumption DEF If, Register
    <3>3. r = "ManualRCV" => v \in BOOLEAN
      BY DEF Values
    <3>4. one.do = "write" /\ one.reg = r /\ one.mask = {BitOf(r)} /\ (BitOf(r) \in one.value <=> Says(r, v))
      BY <2>2, <3>3, Writes DEF If, Says, BitOf
    <3> HIDE DEF one, last
    <3>5. Cons(last, b) \in Seq(Steps) /\ Cons(one, Cons(last, b)) \in Seq(Steps)
      BY <1>0, <3>2, ConsIs
    <3>6. Expansion(s) \o b = <<>> \o Cons(one, <<>> \o Cons(last, b))
      <4>1. <<one, last>> \o b = Cons(one, Cons(last, b))
        BY <1>0, <3>2, TwoJoined
      <4>2. <<>> \o Cons(last, b) = Cons(last, b) /\ <<>> \o Cons(one, Cons(last, b)) = Cons(one, Cons(last, b))
        BY <3>5, EmptyJoined
      <4> QED
        BY <3>1, <4>1, <4>2
    <3>7. Tells(one, r, v) /\ <<>> \in Seq(Notes(r))
      BY <3>2, <3>4 DEF Tells
    <3> QED
      BY <1>2, <3>2, <3>6, <3>7 DEF Opens, last
  <2>3. ~(s.do = "set" /\ r = "BitFraming")
    BY StepKinds DEF OwnerOf, Property
  <2> QED
    BY <2>1, <2>2, <2>3 DEF Copied
<1> QED
  BY <1>1, <1>2

LEMMA CalmMoves ==
    ASSUME Base, Progress, NEW r \in Copied, Calm(r)
    PROVE  forgotten' \/ Calm(r)' \/ Writing(r)'
<1>0. DevType /\ Aside(r) \subseteq Steps /\ todo \in Seq(Aside(r))
  BY CopiedKinds DEF Base, Calm
<1>1. todo # <<>> => Step \in Aside(r) /\ Tail(todo) \in Seq(Aside(r))
  BY <1>0, HeadIn DEF Step
<1>2. forgotten' \/ Agree(r)'
  <2>1. dev'[CopyOf(r)] = dev[CopyOf(r)] /\ (forgotten' \/ (BitOf(r) \in Asked'[r] <=> BitOf(r) \in Asked[r]))
    BY <1>1, AsideKeeps
  <2> QED
    BY <2>1 DEF Calm, Agree
<1>3. CASE Expand /\ ((Step.do = "set" /\ Step.property = OwnerOf(r)) \/ (Step.do = "tx" /\ r = "BitFraming"))
  <2>1. /\ todo # <<>> /\ pc = "idle" /\ pc' = "idle" /\ Step \in Steps
        /\ todo' = Expansion(Step) \o Tail(todo)
    BY <1>3, ExpandSteps DEF Expand, vars
  <2> DEFINE v == IF Step.do = "set" THEN Step.on ELSE Step.bits
  <2>2. v \in Values(r)
    BY <1>3, <2>1, StepKinds DEF Values, OwnerOf, Copied, Property
  <2>3. IF v = dev[CopyOf(r)] THEN Expansion(Step) = <<>> ELSE Opens(r, Expansion(Step) \o Tail(todo))
    <3>1. (Step.do = "set" /\ Step.property = OwnerOf(r) /\ Step.on = v) \/ (Step.do = "tx" /\ r = "BitFraming" /\ Step.bits = v)
      BY <1>3
    <3> HIDE DEF v, Step
    <3> QED
      BY <1>0, <1>1, <2>1, <2>2, <3>1, Spread
  <2> HIDE DEF v
  <2>4. CASE v = dev[CopyOf(r)]
    <3>1. todo' = Tail(todo)
      BY <1>1, <2>1, <2>3, <2>4, EmptyJoined
    <3> QED
      BY <1>1, <1>2, <2>1, <3>1 DEF Calm
  <2>5. CASE v # dev[CopyOf(r)]
    BY <2>1, <2>3, <2>5 DEF Writing
  <2> QED
    BY <2>4, <2>5
<1>4. CASE ~(Expand /\ ((Step.do = "set" /\ Step.property = OwnerOf(r)) \/ (Step.do = "tx" /\ r = "BitFraming")))
  <2>1. Expand => Expansion(Step) \in Seq(Aside(r))
    <3> SUFFICES ASSUME Expand PROVE Expansion(Step) \in Seq(Aside(r))
      OBVIOUS
    <3>1. Step \in Steps /\ Step.do \in {"set", "tx"}
      BY ExpandSteps
    <3>2. Makes(Step) \subseteq Aside(r)
      BY <1>4, <3>1, AsideMakes
    <3> QED
      BY <1>0, <3>1, <3>2, ExpandsIn
  <2>2. todo' \in Seq(Aside(r))
    BY <1>0, <2>1, KindStays
  <2> QED
    BY <1>2, <2>2 DEF Calm
<1> QED
  BY <1>3, <1>4

(* While the device is opened the copies are FALSE until they are set, and  *)
(* what the chip holds is not known.                                       *)
Fresh(r) == {s \in Aside(r) : s.do = "set" /\ s.property = OwnerOf(r) => s.on = TRUE}
FirstTime(r) == call = Open /\ dev[CopyOf(r)] = FALSE /\ todo \in Seq(Fresh(r)) /\ Has(todo, {Set(OwnerOf(r), TRUE)})

LEMMA MakesNoSet == ASSUME NEW s, NEW m \in Makes(s) PROVE m.do # "set"
<1>1. CASE s.do = "set"
  BY <1>1 DEF Makes, WritesOf, KeepsOf, SendsOf, Write, Keep, Send
<1>2. CASE s.do # "set"
  BY <1>2 DEF Makes, Write, Keep
<1> QED
  BY <1>1, <1>2

LEMMA SetStepIs == ASSUME NEW s \in Steps, s.do = "set" PROVE s = Set(s.property, s.on)
BY DEF Steps, WriteSteps, SendSteps, KeepSteps, FlagSteps, SetSteps, TxSteps, Set

LEMMA FirstTimeMoves ==
    ASSUME Base, Progress, NEW r \in Copied \ {"BitFraming"}, FirstTime(r)
    PROVE  forgotten' \/ (call = Open /\ Broken)' \/ FirstTime(r)' \/ Writing(r)'
<1>0. /\ DevType /\ Aside(r) \subseteq Steps /\ Fresh(r) \subseteq Aside(r) /\ Fresh(r) \subseteq Steps
      /\ todo \in Seq(Fresh(r)) /\ call = Open /\ dev[CopyOf(r)] = FALSE
  BY CopiedKinds DEF Base, FirstTime, Fresh
<1>1. todo # <<>> => Step \in Fresh(r) /\ Tail(todo) \in Seq(Fresh(r))
  BY <1>0, HeadIn DEF Step
<1>2. call' = Open
  BY <1>0, Forgetful
<1>3. dev'[CopyOf(r)] = FALSE
  BY <1>0, <1>1, AsideKeeps
<1>4. CASE pc = "idle" /\ todo # <<>> /\ Step = Set(OwnerOf(r), TRUE)
  <2>1. Step.do = "set" /\ Step.property = OwnerOf(r) /\ Step.on = TRUE /\ Step \in Steps
    BY <1>0, <1>1, <1>4 DEF Set
  <2>2. Expand
    <3>1. ~ExchangeStep /\ ~\E done \in BOOLEAN : FailStep(done)
      BY <1>4, SameCommand DEF FailStep, Fail
    <3> QED
      BY <2>1, <3>1 DEF Progress, KeepStep, WriteStep, SendStep
  <2>3. pc' = "idle" /\ todo' = Expansion(Step) \o Tail(todo)
    BY <1>4, <2>2, ExpandSteps DEF vars
  <2>4. TRUE \in Values(r) /\ Tail(todo) \in Seq(Aside(r))
    BY <1>0, <1>1, <1>4, SeqSub DEF Values
  <2>5. Opens(r, Expansion(Step) \o Tail(todo))
    <3> HIDE DEF Step
    <3>1. TRUE # dev[CopyOf(r)]
      BY <1>0
    <3>2. IF TRUE = dev[CopyOf(r)] THEN Expansion(Step) = <<>> ELSE Opens(r, Expansion(Step) \o Tail(todo))
      BY <1>0, <2>1, <2>4, Spread
    <3> QED
      BY <3>1, <3>2
  <2> QED
    BY <2>3, <2>5 DEF Writing
<1>5. CASE ~(pc = "idle" /\ todo # <<>> /\ Step = Set(OwnerOf(r), TRUE))
  <2>0. todo # <<>>
    BY <1>0 DEF FirstTime, Has
  <2>1. Has(todo', {Set(OwnerOf(r), TRUE)}) \/ (AtRest /\ res = "error")'
    BY <1>5, <2>0, StaysAhead DEF FirstTime
  <2>2. Expand => Expansion(Step) \in Seq(Fresh(r))
    <3> SUFFICES ASSUME Expand PROVE Expansion(Step) \in Seq(Fresh(r))
      OBVIOUS
    <3>1. Step \in Steps /\ Step.do \in {"set", "tx"} /\ pc = "idle"
      BY ExpandSteps
    <3>2. ~(Step.do = "set" /\ Step.property = OwnerOf(r))
      BY <1>1, <1>5, <2>0, <3>1, SetStepIs DEF Fresh
    <3>3. Makes(Step) \subseteq Aside(r)
      BY <3>1, <3>2, AsideMakes
    <3>4. Makes(Step) \subseteq Fresh(r)
      BY <3>3, MakesNoSet DEF Fresh
    <3> QED
      BY <1>0, <3>1, <3>4, ExpandsIn
  <2>3. todo' \in Seq(Fresh(r))
    BY <1>0, <2>2, KindStays
  <2> QED
    BY <1>2, <1>3, <2>1, <2>3 DEF FirstTime, Broken
<1> QED
  BY <1>4, <1>5

(* pn53x_reset_settings sets the copy of the last bits and then the register. *)
ToZero == Keep("ui8TxBits", 0)
Zeroing == Write("BitFraming", {"tx_last_bits"}, {})
Untx == {s \in Aside("BitFraming") : s.do # "tx"}
Resetting ==
    /\ call = Open \/ Agree("BitFraming")
    /\ \E x \in Seq(Untx), b \in Seq(Aside("BitFraming")) : todo = x \o Cons(ToZero, Cons(Zeroing, b))
Reset == pc = "idle" /\ dev["ui8TxBits"] = 0 /\ \E b \in Seq(Aside("BitFraming")) : todo = Cons(Zeroing, b)

LEMMA ResetKinds ==
    /\ ToZero \in Steps /\ Zeroing \in Steps /\ ToZero.do = "keep" /\ ToZero.name = "ui8TxBits" /\ ToZero.value = 0
    /\ Zeroing.do = "write" /\ Zeroing.reg = "BitFraming" /\ Zeroing.mask = {"tx_last_bits"} /\ Zeroing.value = {}
    /\ "BitFraming" \in Copied /\ Untx \subseteq Aside("BitFraming")
    /\ BitOf("BitFraming") = "tx_last_bits" /\ CopyOf("BitFraming") = "ui8TxBits"
<1>1. ToZero \in Steps
  BY KeepIsStep DEF ToZero
<1>2. Zeroing \in Steps
  BY WriteIsStep, SettingsAssumption DEF Zeroing, Register
<1> QED
  BY <1>1, <1>2, Writes, Keeps DEF ToZero, Zeroing, Copied, Untx, BitOf, CopyOf

LEMMA ResettingMoves ==
    ASSUME Base, Progress, Resetting
    PROVE  forgotten' \/ (call = Open /\ Broken)' \/ Resetting' \/ Reset' \/ Calm("BitFraming")'
<1>0. /\ "BitFraming" \in Copied /\ Untx \subseteq Aside("BitFraming") /\ Aside("BitFraming") \subseteq Steps
      /\ Untx \subseteq Steps /\ "ui8TxBits" \in DOMAIN dev
  BY ResetKinds, CopiedKinds DEF Base, DevType
<1>1. PICK x \in Seq(Untx), b \in Seq(Aside("BitFraming")) : todo = x \o Cons(ToZero, Cons(Zeroing, b))
  BY DEF Resetting
<1> DEFINE c == Cons(ToZero, Cons(Zeroing, b))
<1>2. x \in Seq(Steps) /\ b \in Seq(Steps) /\ Cons(Zeroing, b) \in Seq(Steps) /\ c \in Seq(Steps)
  <2>1. x \in Seq(Steps) /\ b \in Seq(Steps)
    BY <1>0, SeqSub
  <2>2. Cons(Zeroing, b) \in Seq(Steps)
    BY <2>1, ResetKinds, ConsIs
  <2> QED
    BY <2>1, <2>2, ResetKinds, ConsIs
<1>3. todo = x \o c
  BY <1>1
<1>4. CASE x # <<>> \/ pc # "idle"
  <2>1. pc = "idle" => Step \in Untx
    <3>1. pc = "idle" => x # <<>> /\ Step = Head(x)
      <4> HIDE DEF c
      <4> QED
        BY <1>2, <1>3, <1>4, TailJoined DEF Step
    <3> QED
      BY <3>1, HeadIn
  <2>2. Expand => Expansion(Step) \in Seq(Untx)
    <3> SUFFICES ASSUME Expand PROVE Expansion(Step) \in Seq(Untx)
      OBVIOUS
    <3>1. Step \in Steps /\ Step.do \in {"set", "tx"} /\ pc = "idle"
      BY ExpandSteps
    <3>2. Step.do = "set" /\ Step.property # OwnerOf("BitFraming")
      BY <2>1, <3>1, StepKinds DEF Untx, OwnerOf, Property
    <3>3. Makes(Step) \subseteq Aside("BitFraming")
      BY <1>0, <3>1, <3>2, AsideMakes
    <3>4. \A m \in Makes(Step) : m.do # "tx"
      BY <3>2 DEF Makes, WritesOf, KeepsOf, SendsOf, Write, Keep, Send
    <3>5. Makes(Step) \subseteq Untx
      BY <3>3, <3>4 DEF Untx
    <3> QED
      BY <1>0, <3>1, <3>5, ExpandsIn DEF Base
  <2>3. Broken' \/ \E z \in Seq(Untx) : todo' = z \o c
    <3> HIDE DEF c
    <3> QED
      BY <1>0, <1>2, <1>3, <1>4, <2>2, BeforeMoves
  <2>4. call = Open => call' = Open
    BY Forgetful
  <2>5. Agree("BitFraming") => forgotten' \/ Agree("BitFraming")'
    <3>1. pc = "idle" /\ todo # <<>> => Step \in Aside("BitFraming")
      BY <1>0, <2>1
    <3>2. /\ dev'[CopyOf("BitFraming")] = dev[CopyOf("BitFraming")]
          /\ forgotten' \/ (BitOf("BitFraming") \in Asked'["BitFraming"] <=> BitOf("BitFraming") \in Asked["BitFraming"])
      BY <1>0, <3>1, AsideKeeps
    <3> QED
      BY <3>2 DEF Agree
  <2>6. CASE Broken'
    <3>1. todo' \in Seq(Aside("BitFraming"))
      BY <2>6, None0 DEF Broken, AtRest
    <3> QED
      BY <2>4, <2>5, <2>6, <3>1 DEF Resetting, Calm
  <2>7. CASE \E z \in Seq(Untx) : todo' = z \o c
    BY <2>4, <2>5, <2>7 DEF Resetting
  <2> QED
    BY <2>3, <2>6, <2>7
<1>5. CASE x = <<>> /\ pc = "idle"
  <2>1. todo = c
    <3> HIDE DEF c
    <3> QED
      BY <1>2, <1>3, <1>5, EmptyJoined
  <2>2. Step = ToZero /\ KeepStep /\ todo' = Cons(Zeroing, b)
    BY <1>2, <1>5, <2>1, FirstDone, ResetKinds
  <2>3. dev'["ui8TxBits"] = 0 /\ pc' = "idle"
    <3>1. Step.name \in DOMAIN dev
      BY <1>0, <2>2, ResetKinds
    <3>2. dev'[Step.name] = Step.value /\ UNCHANGED vars
      BY <2>2, <3>1, CopyNoted
    <3> QED
      BY <1>5, <2>2, <3>2, ResetKinds DEF vars
  <2> QED
    BY <2>2, <2>3 DEF Reset
<1> QED
  BY <1>4, <1>5

LEMMA ResetMoves == ASSUME Base, Progress, Reset PROVE forgotten' \/ Calm("BitFraming")'
<1>0. "BitFraming" \in CachedRegister /\ Aside("BitFraming") \subseteq Steps
  BY ResetKinds, CopiedKinds
<1>1. PICK b \in Seq(Aside("BitFraming")) : todo = Cons(Zeroing, b)
  BY DEF Reset
<1>2. b \in Seq(Steps)
  BY <1>0, SeqSub
<1>3. Step = Zeroing /\ WriteStep /\ todo' = b
  BY <1>1, <1>2, FirstDone, ResetKinds DEF Reset
<1>4. ("tx_last_bits" \in Asked'["BitFraming"] <=> FALSE) /\ dev' = dev
  <2>1. Step.reg \in CachedRegister /\ "tx_last_bits" \in Step.mask
    BY <1>0, <1>3, ResetKinds
  <2>2. ("tx_last_bits" \in Asked'[Step.reg] <=> "tx_last_bits" \in Step.value) /\ dev' = dev
    BY <1>3, <2>1, BitWritten
  <2> QED
    BY <1>3, <2>2, ResetKinds
<1>5. Agree("BitFraming")'
  BY <1>4, ResetKinds DEF Agree, Reset, Says
<1> QED
  BY <1>3, <1>5 DEF Calm

(* A copy and the bit it stands for, until a write-back was lost.           *)
Follows(r) ==
    \/ forgotten \/ (call = Open /\ Broken)
    \/ Calm(r) \/ Writing(r) \/ Marked(r)
    \/ r # "BitFraming" /\ FirstTime(r)
    \/ r = "BitFraming" /\ (Resetting \/ Reset)

LEMMA FollowsMoves == ASSUME Base, Progress, NEW r \in Copied, Follows(r) PROVE Follows(r)'
<1>1. CASE forgotten
  <2>1. forgotten'
    BY <1>1, Forgetful
  <2> QED
    BY <2>1 DEF Follows
<1>2. CASE call = Open /\ Broken
  <2>1. (call = Open /\ Broken)'
    BY <1>2, Forgetful, StaysBroken
  <2> QED
    BY <2>1 DEF Follows
<1>3. CASE Calm(r)
  BY <1>3, CalmMoves DEF Follows
<1>4. CASE Writing(r)
  BY <1>4, WritingMoves DEF Follows
<1>5. CASE Marked(r)
  BY <1>5, MarkedMoves DEF Follows
<1>6. CASE r # "BitFraming" /\ FirstTime(r)
  BY <1>6, FirstTimeMoves DEF Follows
<1>7. CASE r = "BitFraming" /\ Resetting
  BY <1>7, ResettingMoves DEF Follows
<1>8. CASE r = "BitFraming" /\ Reset
  BY <1>8, ResetMoves DEF Follows
<1> QED
  BY <1>1, <1>2, <1>3, <1>4, <1>5, <1>6, <1>7, <1>8 DEF Follows

LEMMA ConsNotEmpty == ASSUME NEW S, NEW a \in S, NEW b \in Seq(S), NEW x \in Seq(S) PROVE x \o Cons(a, b) # <<>>
<1>1. Len(x \o Cons(a, b)) = Len(x) + (1 + Len(b))
  BY DEF Cons
<1> QED
  BY <1>1

LEMMA FollowsDone ==
    ASSUME Base, NEW r \in Copied, Follows(r), AtRest
    PROVE  forgotten \/ (call = Open /\ Broken) \/ Calm(r)
<1>0. Aside(r) \subseteq Steps /\ Notes(r) \subseteq Steps
  BY CopiedKinds
<1>1. ~Writing(r)
  <2> SUFFICES ASSUME NEW v \in Values(r), NEW w \in Steps, NEW x \in Seq(Notes(r)), NEW y \in Seq(Notes(r)), NEW b \in Seq(Aside(r)),
                      todo = x \o Cons(w, y \o Cons(Keep(CopyOf(r), v), b))
               PROVE  FALSE
    BY DEF Writing, Opens
  <2>1. x \in Seq(Steps) /\ y \in Seq(Steps) /\ b \in Seq(Steps) /\ Keep(CopyOf(r), v) \in Steps
    BY <1>0, SeqSub, CopiedKinds
  <2>2. y \o Cons(Keep(CopyOf(r), v), b) \in Seq(Steps)
    BY <2>1, ConsIs, Joined
  <2> QED
    BY <2>1, <2>2, ConsNotEmpty DEF AtRest
<1>2. ~Marked(r)
  <2> SUFFICES ASSUME NEW v \in Values(r), NEW y \in Seq(Notes(r)), NEW b \in Seq(Aside(r)),
                      todo = y \o Cons(Keep(CopyOf(r), v), b)
               PROVE  FALSE
    BY DEF Marked
  <2>1. y \in Seq(Steps) /\ b \in Seq(Steps) /\ Keep(CopyOf(r), v) \in Steps
    BY <1>0, SeqSub, CopiedKinds
  <2> QED
    BY <2>1, ConsNotEmpty DEF AtRest
<1>3. ~FirstTime(r)
  BY DEF FirstTime, Has, AtRest
<1>4. r = "BitFraming" => ~Resetting
  <2> SUFFICES ASSUME r = "BitFraming", NEW x \in Seq(Untx), NEW b \in Seq(Aside(r)), todo = x \o Cons(ToZero, Cons(Zeroing, b))
               PROVE  FALSE
    BY DEF Resetting
  <2>1. x \in Seq(Steps) /\ b \in Seq(Steps) /\ ToZero \in Steps /\ Zeroing \in Steps
    <3>1. Untx \subseteq Steps
      BY DEF Untx, Aside
    <3> QED
      BY <1>0, <3>1, SeqSub, ResetKinds
  <2>2. Cons(Zeroing, b) \in Seq(Steps)
    BY <2>1, ConsIs
  <2> QED
    BY <2>1, <2>2, ConsNotEmpty DEF AtRest
<1>5. r = "BitFraming" => ~Reset
  <2> SUFFICES ASSUME r = "BitFraming", NEW b \in Seq(Aside(r)), todo = Cons(Zeroing, b) PROVE FALSE
    BY DEF Reset
  <2>1. b \in Seq(Steps) /\ Zeroing \in Steps
    BY <1>0, SeqSub, ResetKinds
  <2> QED
    BY <2>1, ConsIs DEF AtRest
<1> QED
  BY <1>1, <1>2, <1>3, <1>4, <1>5 DEF Follows

-----------------------------------------------------------------------------
(* What the calls start with. *)
InitCall == [name |-> "nfc_initiator_init"]
Usual == SetSteps \cup TxSteps \cup {Send(CardCommand), Send(InListPassiveTarget)}
Begins ==
    \E steps \in Seq(Steps) :
        /\ Start(steps) /\ call' # Open /\ (call = Open => res = "ok")
        /\ steps \in Seq(Usual) \/ steps = Program(InitCall)
        /\ call'.name = "nfc_initiator_init" => steps = Program(InitCall)

Rests == {Set("HANDLE_CRC", TRUE), Set("HANDLE_PARITY", TRUE), Set("EASY_FRAMING", TRUE), Set("ACTIVATE_CRYPTO1", FALSE)}
Inits == {Set("ACTIVATE_FIELD", FALSE), Set("ACTIVATE_FIELD", TRUE), Set("INFINITE_SELECT", TRUE),
          Set("AUTO_ISO14443_4", TRUE), Set("FORCE_ISO14443_A", TRUE), Set("FORCE_SPEED_106", TRUE),
          Set("ACCEPT_INVALID_FRAMES", FALSE), Set("ACCEPT_MULTIPLE_FRAMES", FALSE)}
Led == Write("P3", Full, {"P31"})
Heads == {Send([op |-> "GetFirmwareVersion"]), Send(SetParameters({AUTO_ATR_RES, AUTO_RATS})),
          Keep("ui8Parameters", {AUTO_ATR_RES, AUTO_RATS})}
ResetRest == <<Set("HANDLE_CRC", TRUE), Set("HANDLE_PARITY", TRUE), Set("EASY_FRAMING", TRUE), Set("ACTIVATE_CRYPTO1", FALSE)>>
InitSets == <<Set("ACTIVATE_FIELD", FALSE), Set("ACTIVATE_FIELD", TRUE), Set("INFINITE_SELECT", TRUE),
              Set("AUTO_ISO14443_4", TRUE), Set("FORCE_ISO14443_A", TRUE), Set("FORCE_SPEED_106", TRUE),
              Set("ACCEPT_INVALID_FRAMES", FALSE), Set("ACCEPT_MULTIPLE_FRAMES", FALSE)>>
Initiating == Write("Control", {"initiator"}, {"initiator"})
OpenHead == <<Send([op |-> "GetFirmwareVersion"]), Send(SetParameters({AUTO_ATR_RES, AUTO_RATS})),
              Keep("ui8Parameters", {AUTO_ATR_RES, AUTO_RATS})>>

LEMMA SixSplit ==
    ASSUME NEW S, NEW a \in S, NEW b \in S, NEW c \in S, NEW e \in S, NEW f \in S, NEW g \in S
    PROVE  <<a, b, c, e, f, g>> = Cons(a, Cons(b, <<c, e, f, g>>))
<1> DEFINE q == <<c, e, f, g>>
           x == <<a, b, c, e, f, g>>
           y == <<a, b>> \o q
<1>1. q \in Seq(S) /\ <<a, b>> \in Seq(S)
  OBVIOUS
<1>2. y = Cons(a, Cons(b, q))
  <2> HIDE DEF q
  <2> QED
    BY <1>1, TwoJoined
<1>3. x \in Seq(S) /\ y \in Seq(S) /\ Len(x) = Len(y) /\ \A i \in 1..Len(x) : x[i] = y[i]
  BY <1>1
<1> HIDE DEF x, y
<1>4. x = y
  BY <1>3, SameElements
<1> QED
  BY <1>2, <1>4 DEF x

LEMMA ResetPart ==
    ASSUME NEW pre \in Seq(Steps), NEW q \in Seq(Steps)
    PROVE  /\ (pre \o reset_settings) \o q = pre \o Cons(ToZero, Cons(Zeroing, ResetRest \o q))
           /\ ResetRest \in Seq(Rests) /\ ResetRest \in Seq(Steps) /\ Rests \subseteq SetSteps
<1>1. /\ Set("HANDLE_CRC", TRUE) \in SetSteps /\ Set("HANDLE_PARITY", TRUE) \in SetSteps
      /\ Set("EASY_FRAMING", TRUE) \in SetSteps /\ Set("ACTIVATE_CRYPTO1", FALSE) \in SetSteps
  BY DEF Set, SetSteps, Property
<1> DEFINE s1 == Set("HANDLE_CRC", TRUE)
           s2 == Set("HANDLE_PARITY", TRUE)
           s3 == Set("EASY_FRAMING", TRUE)
           s4 == Set("ACTIVATE_CRYPTO1", FALSE)
<1>2. ResetRest \in Seq(Rests)
  <2>1. s1 \in Rests /\ s2 \in Rests /\ s3 \in Rests /\ s4 \in Rests
    BY DEF Rests
  <2>2. ResetRest = <<s1, s2, s3, s4>>
    BY DEF ResetRest
  <2> HIDE DEF s1, s2, s3, s4, Rests
  <2>3. <<s1, s2, s3, s4>> \in Seq(Rests)
    BY <2>1
  <2> QED
    BY <2>2, <2>3
<1>2a. Rests \subseteq SetSteps /\ SetSteps \subseteq Steps
  BY <1>1 DEF Rests, Steps
<1>3. ToZero \in Steps /\ Zeroing \in Steps /\ ResetRest \in Seq(Steps)
  BY <1>2, <1>2a, ResetKinds, SeqSub
<1>4. reset_settings = Cons(ToZero, Cons(Zeroing, ResetRest))
  <2>1. s1 \in Steps /\ s2 \in Steps /\ s3 \in Steps /\ s4 \in Steps
    BY <1>1, <1>2a
  <2>2. reset_settings = <<ToZero, Zeroing, s1, s2, s3, s4>> /\ ResetRest = <<s1, s2, s3, s4>>
    BY DEF reset_settings, ResetRest, ToZero, Zeroing
  <2> HIDE DEF s1, s2, s3, s4
  <2>3. <<ToZero, Zeroing, s1, s2, s3, s4>> = Cons(ToZero, Cons(Zeroing, <<s1, s2, s3, s4>>))
    BY <1>3, <2>1, SixSplit
  <2> QED
    BY <2>2, <2>3
<1> HIDE DEF s1, s2, s3, s4
<1> DEFINE rr == ResetRest
           z == ToZero
           w == Zeroing
           S == Steps
<1>5. rr \in Seq(S) /\ z \in S /\ w \in S /\ pre \in Seq(S) /\ q \in Seq(S)
  BY <1>3
<1> HIDE DEF rr, z, w, S
<1>6. <<z>> \in Seq(S) /\ <<w>> \in Seq(S) /\ <<w>> \o rr \in Seq(S) /\ <<z>> \o (<<w>> \o rr) \in Seq(S)
  BY <1>5, One, Joined
<1>7. (pre \o (<<z>> \o (<<w>> \o rr))) \o q = pre \o ((<<z>> \o (<<w>> \o rr)) \o q)
  BY <1>5, <1>6, JoinedAssoc
<1>8. (<<z>> \o (<<w>> \o rr)) \o q = <<z>> \o ((<<w>> \o rr) \o q)
  BY <1>5, <1>6, JoinedAssoc
<1>9. (<<w>> \o rr) \o q = <<w>> \o (rr \o q)
  BY <1>5, <1>6, JoinedAssoc
<1>10. (pre \o Cons(z, Cons(w, rr))) \o q = pre \o Cons(z, Cons(w, rr \o q))
  BY <1>7, <1>8, <1>9 DEF Cons
<1> QED
  BY <1>2, <1>2a, <1>3, <1>4, <1>10 DEF z, w, rr

LEMMA OpenIs ==
    /\ Heads \subseteq Steps /\ Led \in Steps
    /\ OpenHead \in Seq(Heads) /\ ResetRest \in Seq(Rests) /\ logo_init \in Seq({Led}) /\ ResetRest \o logo_init \in Seq(Rests \cup {Led})
    /\ Program(Open) = OpenHead \o Cons(ToZero, Cons(Zeroing, ResetRest \o logo_init))
    /\ Program(Open) \in Seq(Heads \cup Rests \cup {Led, ToZero, Zeroing})
<1>1. Heads \subseteq Steps /\ Led \in Steps
  BY SendIsStep, KeepIsStep, WriteIsStep, Sends, SettingsAssumption DEF Heads, Led, Parameters, Register, Full
<1>2. OpenHead \in Seq(Heads)
  BY Three DEF OpenHead, Heads
<1>3. logo_init \in Seq({Led})
  BY None0, One DEF logo_init, Led
<1>4. OpenHead \in Seq(Steps) /\ logo_init \in Seq(Steps)
  BY <1>1, <1>2, <1>3, SeqSub
<1>5. ResetRest \in Seq(Rests)
  BY <1>4, ResetPart
<1>6. Program(Open) = OpenHead \o Cons(ToZero, Cons(Zeroing, ResetRest \o logo_init))
  <2>1. Program(Open) = (OpenHead \o reset_settings) \o logo_init
    BY DEF Program, Open, OpenHead
  <2>2. (OpenHead \o reset_settings) \o logo_init = OpenHead \o Cons(ToZero, Cons(Zeroing, ResetRest \o logo_init))
    BY <1>4, ResetPart
  <2> QED
    BY <2>1, <2>2
<1>7. ResetRest \o logo_init \in Seq(Rests \cup {Led})
  BY <1>3, <1>5, SeqSub, Joined
<1> DEFINE All == Heads \cup Rests \cup {Led, ToZero, Zeroing}
           q == ResetRest \o logo_init
           z == ToZero
           w == Zeroing
<1>8. z \in All /\ w \in All /\ q \in Seq(All) /\ OpenHead \in Seq(All)
  BY <1>2, <1>7, SeqSub
<1>9. OpenHead \o Cons(z, Cons(w, q)) \in Seq(All)
  <2> HIDE DEF All, q, z, w
  <2>1. Cons(w, q) \in Seq(All)
    BY <1>8, ConsIs
  <2>2. Cons(z, Cons(w, q)) \in Seq(All)
    BY <1>8, <2>1, ConsIs
  <2> QED
    BY <1>8, <2>2, Joined
<1> QED
  BY <1>1, <1>2, <1>3, <1>5, <1>6, <1>7, <1>9

LEMMA InitIs ==
    /\ Inits \subseteq SetSteps /\ Initiating \in Steps
    /\ InitSets \in Seq(Inits) /\ ResetRest \o <<Initiating>> \in Seq(Rests \cup {Initiating})
    /\ Program(InitCall) = InitSets \o Cons(ToZero, Cons(Zeroing, ResetRest \o <<Initiating>>))
    /\ Program(InitCall) \in Seq(Inits \cup Rests \cup {Initiating, ToZero, Zeroing})
<1>1. Inits \subseteq SetSteps /\ Inits \subseteq Steps
  BY DEF Inits, Set, SetSteps, Property, Steps
<1>2. Initiating \in Steps
  BY WriteIsStep, SettingsAssumption DEF Initiating, Register
<1>3. InitSets \in Seq(Inits)
  <2> DEFINE a == Set("ACTIVATE_FIELD", FALSE)
             b == Set("ACTIVATE_FIELD", TRUE)
             c == Set("INFINITE_SELECT", TRUE)
             e == Set("AUTO_ISO14443_4", TRUE)
             f == Set("FORCE_ISO14443_A", TRUE)
             g == Set("FORCE_SPEED_106", TRUE)
             h == Set("ACCEPT_INVALID_FRAMES", FALSE)
             i == Set("ACCEPT_MULTIPLE_FRAMES", FALSE)
  <2>1. /\ a \in Inits /\ b \in Inits /\ c \in Inits /\ e \in Inits /\ f \in Inits
        /\ g \in Inits /\ h \in Inits /\ i \in Inits
        /\ InitSets = <<a, b, c, e, f, g, h, i>>
    BY DEF Inits, InitSets
  <2> HIDE DEF a, b, c, e, f, g, h, i, Inits
  <2> QED
    BY <2>1
<1>4. InitSets \in Seq(Steps) /\ <<Initiating>> \in Seq(Steps) /\ reset_settings \in Seq(Steps)
  BY <1>1, <1>2, <1>3, SeqSub, One, ResetSteps
<1>5. ResetRest \in Seq(Rests)
  BY <1>4, ResetPart
<1>6. Program(InitCall) = InitSets \o Cons(ToZero, Cons(Zeroing, ResetRest \o <<Initiating>>))
  <2>1. Program(InitCall) = InitSets \o (reset_settings \o <<Initiating>>)
    BY DEF Program, InitCall, InitSets, pn53x_initiator_init, Initiating
  <2>2. (InitSets \o reset_settings) \o <<Initiating>> = InitSets \o (reset_settings \o <<Initiating>>)
    BY <1>4, JoinedAssoc
  <2>3. (InitSets \o reset_settings) \o <<Initiating>> = InitSets \o Cons(ToZero, Cons(Zeroing, ResetRest \o <<Initiating>>))
    BY <1>4, ResetPart
  <2> QED
    BY <2>1, <2>2, <2>3
<1>7. ResetRest \o <<Initiating>> \in Seq(Rests \cup {Initiating})
  BY <1>5, SeqSub, One, Joined
<1> DEFINE All == Inits \cup Rests \cup {Initiating, ToZero, Zeroing}
           q == ResetRest \o <<Initiating>>
           z == ToZero
           w == Zeroing
<1>8. z \in All /\ w \in All /\ q \in Seq(All) /\ InitSets \in Seq(All)
  BY <1>3, <1>7, SeqSub
<1>9. InitSets \o Cons(z, Cons(w, q)) \in Seq(All)
  <2> HIDE DEF All, q, z, w
  <2>1. Cons(w, q) \in Seq(All)
    BY <1>8, ConsIs
  <2>2. Cons(z, Cons(w, q)) \in Seq(All)
    BY <1>8, <2>1, ConsIs
  <2> QED
    BY <1>8, <2>2, Joined
<1> QED
  BY <1>1, <1>2, <1>3, <1>6, <1>7, <1>9

LEMMA HasCons == ASSUME NEW S, NEW a \in S, NEW q \in Seq(S), NEW G, Has(q, G) PROVE Has(Cons(a, q), G)
<1>1. <<a>> \in Seq(S)
  OBVIOUS
<1> QED
  BY <1>1, HasJoined DEF Cons

LEMMA RestsAre == ResetRest \in Seq(Rests) /\ Rests \subseteq SetSteps /\ Rests \subseteq Steps /\ \A s \in Rests : s.do = "set"
<1>1. <<>> \in Seq(Steps)
  OBVIOUS
<1>2. ResetRest \in Seq(Rests) /\ Rests \subseteq SetSteps
  BY <1>1, ResetPart
<1>3. \A s \in SetSteps : s \in Steps /\ s.do = "set"
  BY DEF SetSteps, Steps
<1> QED
  BY <1>2, <1>3

LEMMA FollowsInit == ASSUME SettingsInit, NEW r \in Copied PROVE Follows(r)
<1>0. todo = Program(Open) /\ call = Open /\ "BitFraming" \in Copied
  BY DEF SettingsInit, Copied
<1> DEFINE q == ResetRest \o logo_init
<1>1. CASE r # "BitFraming"
  <2>1. Heads \cup Rests \cup {Led, ToZero, Zeroing} \subseteq Fresh(r)
    <3>1. Heads \subseteq Aside(r)
      BY <1>1, OpenIs, Keeps DEF Heads, Aside, Send, Copied, CopyOf
    <3>2. Rests \subseteq Aside(r)
      BY RestsAre DEF Aside
    <3>3. Led \in Aside(r)
      BY OpenIs, Writes, CopiedKinds, SettingsAssumption, RegistersAssumption DEF Led, Aside
    <3>4. ToZero \in Aside(r) /\ Zeroing \in Aside(r)
      BY <1>1, ResetKinds DEF Aside, Copied, CopyOf
    <3>5. \A s \in Rests : s.do = "set" /\ s.property = OwnerOf(r) => s.on = TRUE
      BY <1>1 DEF Rests, Set, OwnerOf, Copied
    <3>6. \A s \in Heads \cup {Led, ToZero, Zeroing} : s.do # "set"
      BY ResetKinds DEF Heads, Led, Send, Keep, Write
    <3> QED
      BY <3>1, <3>2, <3>3, <3>4, <3>5, <3>6 DEF Fresh
  <2>2. todo \in Seq(Fresh(r))
    BY <1>0, <2>1, OpenIs, SeqSub
  <2>3. dev[CopyOf(r)] = FALSE
    <3>1. PICK model \in Models : dev = Closed(model)
      BY DEF SettingsInit
    <3>2. CopyOf(r) \in Flag
      BY <1>1 DEF CopyOf, Copied, Flag
    <3> QED
      BY <3>1, <3>2 DEF Closed
  <2>4. Has(ResetRest, {Set(OwnerOf(r), TRUE)})
    <3>1. Len(ResetRest) = 4 /\ ResetRest[1] = Set("HANDLE_CRC", TRUE) /\ ResetRest[2] = Set("HANDLE_PARITY", TRUE)
      BY DEF ResetRest
    <3>2. OwnerOf(r) = "HANDLE_CRC" \/ OwnerOf(r) = "HANDLE_PARITY"
      BY <1>1 DEF OwnerOf, Copied
    <3> HIDE DEF ResetRest
    <3>3. 1 \in 1..Len(ResetRest) /\ 2 \in 1..Len(ResetRest)
      BY <3>1
    <3> QED
      BY <3>1, <3>2, <3>3 DEF Has
  <2>5. ResetRest \in Seq(Steps) /\ logo_init \in Seq(Steps) /\ OpenHead \in Seq(Steps) /\ q \in Seq(Steps)
    BY OpenIs, RestsAre, SeqSub, Joined
  <2>6. Has(q, {Set(OwnerOf(r), TRUE)})
    BY <2>4, <2>5, HasJoined
  <2> HIDE DEF q
  <2>7. Has(Cons(Zeroing, q), {Set(OwnerOf(r), TRUE)}) /\ Cons(Zeroing, q) \in Seq(Steps)
    BY <2>5, <2>6, HasCons, ResetKinds, ConsIs
  <2>8. Has(Cons(ToZero, Cons(Zeroing, q)), {Set(OwnerOf(r), TRUE)}) /\ Cons(ToZero, Cons(Zeroing, q)) \in Seq(Steps)
    BY <2>7, HasCons, ResetKinds, ConsIs
  <2>9. Has(OpenHead \o Cons(ToZero, Cons(Zeroing, q)), {Set(OwnerOf(r), TRUE)})
    BY <2>5, <2>8, HasJoined
  <2>10. Has(todo, {Set(OwnerOf(r), TRUE)})
    BY <1>0, <2>9, OpenIs DEF q
  <2> QED
    BY <1>0, <1>1, <2>2, <2>3, <2>10 DEF Follows, FirstTime
<1>2. CASE r = "BitFraming"
  <2>1. Heads \subseteq Untx
    BY OpenIs, Keeps DEF Heads, Untx, Aside, Send, Keep, CopyOf
  <2>2. Rests \cup {Led} \subseteq Aside("BitFraming")
    <3>1. Rests \subseteq Aside("BitFraming")
      BY RestsAre DEF Aside
    <3>2. Led \in Aside("BitFraming")
      BY OpenIs, Writes DEF Led, Aside
    <3> QED
      BY <3>1, <3>2
  <2>3. OpenHead \in Seq(Untx) /\ q \in Seq(Aside("BitFraming"))
    BY <2>1, <2>2, OpenIs, SeqSub
  <2>4. todo = OpenHead \o Cons(ToZero, Cons(Zeroing, q))
    BY <1>0, OpenIs
  <2> HIDE DEF q
  <2>5. Resetting
    BY <1>0, <2>3, <2>4 DEF Resetting
  <2> QED
    BY <1>2, <2>5 DEF Follows
<1> QED
  BY <1>1, <1>2

LEMMA FollowsStart ==
    ASSUME Base, NEW steps \in Seq(Steps), Start(steps), call = Open => res = "ok",
           steps \in Seq(Usual) \/ steps = Program(InitCall), NEW r \in Copied, Follows(r)
    PROVE  Follows(r)'
<1>1. AtRest /\ todo' = steps /\ UNCHANGED <<chip, wb_data, wb_mask, dev, forgotten>>
  BY DEF Start, queue
<1>2. forgotten \/ Calm(r)
  BY <1>1, FollowsDone DEF Broken
<1>3. CASE forgotten
  <2>1. forgotten' = forgotten
    BY <1>1
  <2>2. forgotten'
    BY <1>3, <2>1
  <2> QED
    BY <2>2 DEF Follows
<1>4. CASE Calm(r)
  <2>1. Agree(r)'
    <3>1. Asked' = Asked /\ dev' = dev
      BY <1>1 DEF Asked, Masked
    <3> QED
      BY <1>4, <3>1 DEF Agree, Calm
  <2>2. Usual \subseteq Aside(r)
    BY SendIsStep, Sends DEF Usual, Aside, Steps, SetSteps, TxSteps, Send
  <2>3. Rests \cup {Initiating} \subseteq Aside(r)
    <3>1. Rests \subseteq Usual
      BY RestsAre DEF Usual
    <3>2. Initiating \in Aside(r)
      BY InitIs, Writes DEF Initiating, Aside, BitOf, Copied
    <3> QED
      BY <2>2, <3>1, <3>2
  <2>4. CASE steps \in Seq(Usual)
    <3>1. todo' \in Seq(Aside(r))
      BY <1>1, <2>2, <2>4, SeqSub
    <3> QED
      BY <2>1, <3>1 DEF Follows, Calm
  <2>5. CASE steps = Program(InitCall) /\ r # "BitFraming"
    <3>1. Inits \subseteq Aside(r)
      BY <2>2, InitIs DEF Usual
    <3>2. {ToZero, Zeroing} \subseteq Aside(r)
      BY <2>5, ResetKinds DEF Aside, Copied, CopyOf
    <3>3. Inits \cup Rests \cup {Initiating, ToZero, Zeroing} \subseteq Aside(r)
      BY <2>3, <3>1, <3>2
    <3>4. Program(InitCall) \in Seq(Inits \cup Rests \cup {Initiating, ToZero, Zeroing})
      BY InitIs
    <3>5. todo' \in Seq(Aside(r))
      BY <1>1, <2>5, <3>3, <3>4, SeqSub
    <3> QED
      BY <2>1, <3>5 DEF Follows, Calm
  <2>6. CASE steps = Program(InitCall) /\ r = "BitFraming"
    <3> DEFINE q == ResetRest \o <<Initiating>>
    <3>1. Inits \subseteq Untx
      BY <2>2, <2>6, InitIs DEF Usual, Untx, Inits, Set
    <3>2. InitSets \in Seq(Untx) /\ q \in Seq(Aside("BitFraming"))
      BY <2>3, <2>6, <3>1, InitIs, SeqSub
    <3>3. todo' = InitSets \o Cons(ToZero, Cons(Zeroing, q))
      BY <1>1, <2>6, InitIs
    <3> HIDE DEF q
    <3>4. Resetting'
      BY <2>1, <2>6, <3>2, <3>3 DEF Resetting
    <3> QED
      BY <2>6, <3>4 DEF Follows
  <2> QED
    BY <2>4, <2>5, <2>6
<1> QED
  BY <1>2, <1>3, <1>4

(* The program has no device until nfc_open has returned one. *)
Named == m_device \in {"initiator", "open"} => call # Open
Same  == UNCHANGED <<vars, dev, settings, todo, call, forgotten, unsure>>

LEMMA UsualCalls ==
    /\ Usual \subseteq Steps
    /\ \A i \in BOOLEAN : <<Set("INFINITE_SELECT", i)>> \in Seq(Usual)
    /\ <<Send(InListPassiveTarget)>> \in Seq(Usual)
    /\ <<Set("EASY_FRAMING", TRUE), TxBits(0), Send(CardCommand)>> \in Seq(Usual)
    /\ \A c \in CallSet : c # InitCall => Program(c) \in Seq(Usual)
<1>1. \A prop \in Property, on \in BOOLEAN : Set(prop, on) \in Usual
  BY DEF Usual, SetSteps, Set
<1>2. \A count \in Nat : TxBits(count) \in Usual
  BY DEF Usual, TxSteps, TxBits
<1>3. Send(CardCommand) \in Usual /\ Send(InListPassiveTarget) \in Usual
  BY DEF Usual
<1>4. Usual \subseteq Steps
  BY SendIsStep, Sends DEF Usual, Steps
<1>5. ASSUME NEW c \in CallSet, c # InitCall PROVE Program(c) \in Seq(Usual)
  <2>1. CASE c = [name |-> "transceive_bytes"]
    BY <1>2, <1>3, <2>1, Two DEF Program
  <2>2. CASE c \in [name : {"transceive_bits"}, bits : {0, 7}]
    <3>1. c.name = "transceive_bits" /\ TxBits(c.bits) \in Usual
      BY <1>2, <2>2
    <3> QED
      BY <1>3, <3>1, Two DEF Program
  <2>3. CASE c.name = "nfc_device_set_property_bool"
    <3>1. c.property \in Property /\ c.on \in BOOLEAN
      BY <1>5, <2>3 DEF CallSet, Property
    <3>2. Set(c.property, c.on) \in Usual
      BY <1>1, <3>1
    <3> QED
      BY <2>3, <3>2, One DEF Program
  <2> QED
    BY <1>5, <2>1, <2>2, <2>3 DEF CallSet, InitCall
<1> QED
  BY <1>1, <1>2, <1>3, <1>4, <1>5, One, Three DEF Property

LEMMA BeginBegins ==
    ASSUME NEW steps \in Seq(Usual), NEW name, name # "nfc_initiator_init", name # "open", Begin(steps, [name |-> name]), call # Open
    PROVE  Begins
<1>1. Start(steps) /\ call' = [name |-> name]
  BY DEF Begin, Start
<1>2. steps \in Seq(Steps)
  BY UsualCalls, SeqSub
<1>3. call' # Open /\ call'.name # "nfc_initiator_init"
  BY <1>1 DEF Open
<1> QED
  BY <1>1, <1>2, <1>3 DEF Begins

LEMMA StepIs ==
    ASSUME DInv, Named, [DeviceStep \/ TargetStep]_<<part, devvars, targets>>
    PROVE  Named' /\ (Progress \/ Begins \/ Same)
<1>0. Base /\ Mine
  BY DEF DInv
<1>1. CASE Progress /\ m_device' = m_device
  BY <1>1, Forgetful DEF Named
<1>2. CASE UNCHANGED devvars
  BY <1>2 DEF devvars, allvars, mine, Named, Same
<1>3. ASSUME NEW c \in CallSet, Call(c), m_device = "libnfc", UNCHANGED mine PROVE Named' /\ Begins
  <2>1. Start(Program(c)) /\ call' = c /\ (call = Open => res = "ok")
    BY <1>3, CallStarts DEF Call
  <2>2. Program(c) \in Seq(Steps)
    BY <1>0, ProgramSteps DEF Base, Programs
  <2>3. c # Open /\ (c.name = "nfc_initiator_init" => c = InitCall)
    BY DEF CallSet, Open, InitCall
  <2>4. Program(c) \in Seq(Usual) \/ c = InitCall
    BY UsualCalls
  <2>5. Begins
    BY <2>1, <2>2, <2>3, <2>4 DEF Begins
  <2>6. m_device' = "libnfc"
    BY <1>3 DEF mine
  <2> QED
    BY <2>5, <2>6 DEF Named
<1>4. CASE OpenDevice
  <2>1. CASE res = "ok"
    <3>1. Start(Program(InitCall)) /\ call' = InitCall
      BY <1>4, <2>1, BeginStarts DEF OpenDevice, Begin, InitCall
    <3>2. Program(InitCall) \in Seq(Steps)
      BY <1>0, ProgramSteps DEF Base, Programs, InitCall
    <3>3. call' # Open
      BY <3>1 DEF InitCall, Open
    <3> QED
      BY <2>1, <3>1, <3>2, <3>3 DEF Begins, Named
  <2>2. CASE res # "ok"
    BY <1>4, <2>2 DEF OpenDevice, allvars, Named, Same
  <2> QED
    BY <2>1, <2>2
<1>5. CASE DeviceReady \/ JobDone \/ Card
  <2>1. Same /\ (m_device' = m_device \/ m_device = "initiator")
    BY <1>5 DEF DeviceReady, JobDone, Card, allvars, Same
  <2> QED
    BY <2>1 DEF Named, Same
<1>6. CASE InfiniteDone
  <2>1. m_device = "open" /\ m_device' = m_device
    BY <1>0, <1>6 DEF InfiniteDone, Mine
  <2>2. Begins
    BY <1>6, <2>1, BeginBegins, UsualCalls DEF InfiniteDone, select, Named
  <2> QED
    BY <2>1, <2>2 DEF Named, Begins
<1>7. CASE mifareCmd
  <2>1. m_device = "open" /\ m_device' = m_device
    BY <1>7 DEF mifareCmd
  <2>2. Begins
    BY <1>7, <2>1, BeginBegins, UsualCalls DEF mifareCmd, Named
  <2> QED
    BY <2>1, <2>2 DEF Named, Begins
<1>8. ASSUME NEW i \in BOOLEAN, findCard(i) PROVE Named' /\ Begins
  <2>1. m_device = "open" /\ m_device' = m_device
    BY <1>8 DEF findCard
  <2>2. Begins
    BY <1>8, <2>1, BeginBegins, UsualCalls DEF findCard, infiniteSelect, select, Named
  <2> QED
    BY <2>1, <2>2 DEF Named, Begins
<1>9. CASE LibnfcStep
  BY <1>1, <1>9 DEF LibnfcStep
<1>10. CASE m_device = "libnfc" /\ SettingsNext /\ UNCHANGED mine
  <2>1. m_device' = m_device
    BY <1>10 DEF mine
  <2> QED
    BY <1>1, <1>3, <1>10, <2>1 DEF SettingsNext
<1> QED
  BY <1>2, <1>4, <1>5, <1>6, <1>7, <1>8, <1>9, <1>10 DEF DeviceStep, TargetStep, DeviceNext, Device

-----------------------------------------------------------------------------
(* The chip's parameters, their copy and bAutoIso14443_4.                   *)

(* Steps that leave the three alone. *)
Tacit == {s \in Steps : /\ ~(s.do = "keep" /\ s.name \in {"ui8Parameters", "bAutoIso14443_4"})
                        /\ ~(s.do = "send" /\ s.cmd.op = "SetParameters")}

Believed   == dev["ui8Parameters"] = parameters
AutoIn(v)  == dev["bAutoIso14443_4"] = TRUE => AUTO_RATS \in v
Ask(v, b)  == Cons(Send(SetParameters(v)), Cons(Keep("ui8Parameters", v), b))

(* They agree and will; or, in the order of a change: bAutoIso14443_4 is    *)
(* about to follow the parameters as they are, or as they are about to be, *)
(* the command is about to be sent, is under way, is done; or the device   *)
(* is opened, which begins with another command.                           *)
Sure     == Believed /\ AutoIn(parameters) /\ cmd.op # "SetParameters" /\ todo \in Seq(Tacit)
AutoOnly == /\ pc = "idle" /\ Believed
            /\ \E on \in BOOLEAN, b \in Seq(Tacit) :
                  (on = TRUE => AUTO_RATS \in parameters) /\ todo = Cons(Keep("bAutoIso14443_4", on), b)
AutoToo  == /\ pc = "idle"
            /\ \E on \in BOOLEAN, v \in Parameters, b \in Seq(Tacit) :
                  (on = TRUE => AUTO_RATS \in v) /\ todo = Cons(Keep("bAutoIso14443_4", on), Ask(v, b))
ToAsk    == pc = "idle" /\ \E v \in Parameters, b \in Seq(Tacit) : AutoIn(v) /\ todo = Ask(v, b)
Posed    == pc # "idle" /\ \E v \in Parameters, b \in Seq(Tacit) :
                              AutoIn(v) /\ cmd = SetParameters(v) /\ todo = Cons(Keep("ui8Parameters", v), b)
Heard    == pc = "idle" /\ \E v \in Parameters, b \in Seq(Tacit) :
                              AutoIn(v) /\ parameters = v /\ todo = Cons(Keep("ui8Parameters", v), b)
Greeting == Send([op |-> "GetFirmwareVersion"])
Greeted  == /\ Believed /\ dev["bAutoIso14443_4"] = FALSE /\ cmd.op # "SetParameters"
            /\ \E v \in Parameters, b \in Seq(Tacit) : todo = IF pc = "idle" THEN Cons(Greeting, Ask(v, b)) ELSE Ask(v, b)

Reckoned == unsure \/ Sure \/ AutoOnly \/ AutoToo \/ ToAsk \/ Posed \/ Heard \/ Greeted

LEMMA TacitMakes ==
    ASSUME NEW s \in Tacit, s.do \in {"set", "tx"}, ~(s.do = "set" /\ s.property = "AUTO_ISO14443_4")
    PROVE  Makes(s) \subseteq Tacit
<1>0. s \in Steps /\ Makes(s) \subseteq Steps
  BY MakesSteps DEF Tacit
<1> SUFFICES ASSUME NEW m \in Makes(s) PROVE m \in Tacit
  OBVIOUS
<1>1. CASE s.do = "tx"
  BY <1>0, <1>1, Writes, Keeps DEF Makes, Tacit
<1>2. CASE s.do = "set"
  <2>1. s.property \in Property /\ s.property # "AUTO_ISO14443_4"
    BY <1>0, <1>2, StepKinds
  <2>2. ASSUME m \in WritesOf(s.property, s.on) PROVE m \in Tacit
    <3>1. m.do = "write"
      BY <2>1, <2>2, Writes DEF WritesOf
    <3> QED
      BY <1>0, <3>1 DEF Tacit
  <2>3. ASSUME m \in KeepsOf(s.property, s.on) PROVE m \in Tacit
    <3>1. m.do = "keep" /\ m.name \notin {"ui8Parameters", "bAutoIso14443_4"}
      BY <2>1, <2>3, Keeps DEF KeepsOf
    <3> QED
      BY <1>0, <3>1 DEF Tacit
  <2>4. ASSUME m \in SendsOf(s.property, s.on) PROVE m \in Tacit
    <3>1. m.do = "send" /\ m.cmd.op # "SetParameters"
      BY <2>1, <2>4 DEF SendsOf, Send, RFConfiguration__RF_field, RFConfiguration__MaxRetries
    <3> QED
      BY <1>0, <3>1 DEF Tacit
  <2> QED
    BY <1>2, <2>2, <2>3, <2>4 DEF Makes
<1> QED
  BY <1>1, <1>2

(* A command that is not a masked write stays itself until it is answered.  *)
LEMMA CommandKept ==
    ASSUME ExchangeStep, cmd.op # "Update"
    PROVE  /\ pc' # "idle" => cmd' = cmd /\ UNCHANGED settings
           /\ pc' = "idle" => cmd' = NoCommand /\ Obey
           /\ UNCHANGED <<dev, todo, call>>
BY DEF ExchangeStep, Answer, ReadBack, WriteBack, ReadDirect, After

LEMMA TacitDoes ==
    ASSUME Base, Progress, cmd.op # "SetParameters", pc = "idle" /\ todo # <<>> => Step \in Tacit
    PROVE  /\ cmd'.op # "SetParameters" /\ parameters' = parameters
           /\ dev'["ui8Parameters"] = dev["ui8Parameters"] /\ dev'["bAutoIso14443_4"] = dev["bAutoIso14443_4"]
<1>0. "ui8Parameters" \in DOMAIN dev /\ "bAutoIso14443_4" \in DOMAIN dev
  BY DEF Base, DevType, Flag
<1>1. KeepStep => Step.name # "ui8Parameters" /\ Step.name # "bAutoIso14443_4"
  BY InTurn DEF KeepStep, Tacit
<1>2. dev'["ui8Parameters"] = dev["ui8Parameters"] /\ dev'["bAutoIso14443_4"] = dev["bAutoIso14443_4"]
  BY <1>0, <1>1, CopyKept
<1>3. cmd'.op # "SetParameters" /\ parameters' = parameters
  <2>1. CASE Expand \/ KeepStep
    BY <2>1 DEF Expand, KeepStep, vars, settings
  <2>2. CASE WriteStep
    <3>1. cmd' = cmd \/ cmd'.op \in {"Update", "WriteRegister"}
      BY <2>2, NotedStep, DirectCommand, StepIn, StepKinds DEF WriteStep
    <3> QED
      BY <2>2, <3>1 DEF WriteStep, settings
  <2>3. CASE SendStep
    <3>1. pc = "idle" /\ todo # <<>> /\ Step.do = "send" /\ cmd' = Step.cmd
      BY <2>3 DEF SendStep, pn53x_transceive
    <3>2. Step.cmd.op # "SetParameters"
      BY <3>1 DEF Tacit
    <3> QED
      BY <2>3, <3>1, <3>2 DEF SendStep, settings
  <2>4. CASE ExchangeStep
    <3>1. cmd'.op # "SetParameters"
      BY <2>4, SameCommand DEF NoCommand
    <3>2. parameters' = parameters
      BY <2>4 DEF ExchangeStep, Obey, settings
    <3> QED
      BY <3>1, <3>2
  <2>5. ASSUME NEW done \in BOOLEAN, FailStep(done) PROVE cmd'.op # "SetParameters" /\ parameters' = parameters
    BY <2>5 DEF FailStep, Fail, Obey, settings, NoCommand
  <2> QED
    BY <2>1, <2>2, <2>3, <2>4, <2>5 DEF Progress
<1> QED
  BY <1>2, <1>3

(* The call ends with the exchange that fails. *)
LEMMA Fallen ==
    ASSUME Base, Progress, pc # "idle"
    PROVE  \/ ExchangeStep
           \/ /\ todo' = <<>> /\ (cmd.op = "SetParameters" => unsure')
<1>1. ASSUME NEW done \in BOOLEAN, FailStep(done) PROVE todo' = <<>> /\ (cmd.op = "SetParameters" => unsure')
  <2>1. unsure' = (unsure \/ cmd.op \in {"SetParameters", "MaxRetries"})
    BY <1>1 DEF FailStep
  <2>2. cmd.op = "SetParameters" => unsure'
    BY <2>1
  <2> QED
    BY <1>1, <2>2 DEF FailStep
<1> QED
  BY <1>1, InTurn DEF Progress

LEMMA SureMoves == ASSUME Base, Progress, Sure PROVE Reckoned'
<1>0. Tacit \subseteq Steps /\ DevType
  BY DEF Tacit, Base
<1>1. todo # <<>> => Step \in Tacit /\ Tail(todo) \in Seq(Tacit)
  BY HeadIn DEF Sure, Step
<1>2. Believed' /\ AutoIn(parameters)' /\ cmd'.op # "SetParameters"
  <2>1. /\ cmd'.op # "SetParameters" /\ parameters' = parameters
        /\ dev'["ui8Parameters"] = dev["ui8Parameters"] /\ dev'["bAutoIso14443_4"] = dev["bAutoIso14443_4"]
    BY <1>1, TacitDoes DEF Sure
  <2> QED
    BY <2>1 DEF Sure, Believed, AutoIn
<1>3. CASE Expand /\ Step.do = "set" /\ Step.property = "AUTO_ISO14443_4"
  <2>1. /\ todo # <<>> /\ pc' = "idle" /\ Step \in Steps /\ todo' = Expansion(Step) \o Tail(todo)
        /\ parameters' = parameters
    BY <1>3, ExpandSteps DEF Expand, vars, settings
  <2> DEFINE on == Step.on
             b == Tail(todo)
             v == IF on THEN dev.ui8Parameters \cup {AUTO_RATS} ELSE dev.ui8Parameters \ {AUTO_RATS}
             k == Keep("bAutoIso14443_4", on)
  <2>2. on \in BOOLEAN /\ b \in Seq(Tacit) /\ b \in Seq(Steps) /\ v \in Parameters /\ k \in Steps
    BY <1>0, <1>1, <1>3, <2>1, StepKinds, NewParameters, KeepIsStep, SeqSub DEF Flag
  <2>3. on = TRUE => AUTO_RATS \in v
    OBVIOUS
  <2>4. CASE on = dev.bAutoIso14443_4
    <3>1. todo' = b
      BY <1>3, <2>1, <2>2, <2>4, EmptyJoined DEF Expansion, set_property_bool
    <3> QED
      BY <1>2, <2>2, <3>1 DEF Reckoned, Sure
  <2>5. CASE on # dev.bAutoIso14443_4 /\ v = dev.ui8Parameters
    <3>1. Expansion(Step) = <<k>> \o <<>>
      BY <1>3, <2>5 DEF Expansion, set_property_bool, set_parameters
    <3>2. <<k>> \o <<>> = <<k>>
      BY <2>2, One, EmptyJoined
    <3>3. todo' = Cons(k, b)
      BY <2>1, <3>1, <3>2 DEF Cons
    <3>4. on = TRUE => AUTO_RATS \in parameters'
      BY <2>1, <2>3, <2>5 DEF Sure, Believed
    <3> QED
      BY <1>2, <2>1, <2>2, <3>3, <3>4 DEF Reckoned, AutoOnly
  <2>6. CASE on # dev.bAutoIso14443_4 /\ v # dev.ui8Parameters
    <3> DEFINE s1 == Send(SetParameters(v))
               s2 == Keep("ui8Parameters", v)
    <3>1. Expansion(Step) = <<k>> \o <<s1, s2>>
      BY <1>3, <2>6 DEF Expansion, set_property_bool, set_parameters
    <3>2. s1 \in Steps /\ s2 \in Steps
      BY <2>2, SendIsStep, Sends, KeepIsStep
    <3> HIDE DEF s1, s2, k, b, v, on
    <3>3. (<<k>> \o <<s1, s2>>) \o b = <<k>> \o (<<s1, s2>> \o b)
      BY <2>2, <3>2, One, Two, JoinedAssoc
    <3>4. <<s1, s2>> \o b = Cons(s1, Cons(s2, b))
      BY <2>2, <3>2, TwoJoined
    <3>5. todo' = Cons(k, Cons(s1, Cons(s2, b)))
      BY <2>1, <3>1, <3>3, <3>4 DEF Cons, b
    <3>6. todo' = Cons(Keep("bAutoIso14443_4", on), Ask(v, b))
      BY <3>5 DEF Ask, s1, s2, k
    <3> QED
      BY <2>1, <2>2, <2>3, <3>6 DEF Reckoned, AutoToo
  <2> QED
    BY <2>4, <2>5, <2>6
<1>4. CASE ~(Expand /\ Step.do = "set" /\ Step.property = "AUTO_ISO14443_4")
  <2>1. Expand => Expansion(Step) \in Seq(Tacit)
    <3> SUFFICES ASSUME Expand PROVE Expansion(Step) \in Seq(Tacit)
      OBVIOUS
    <3>1. Step \in Steps /\ Step.do \in {"set", "tx"} /\ Step \in Tacit
      BY <1>1, ExpandSteps DEF Expand
    <3>2. Makes(Step) \subseteq Tacit
      BY <1>4, <3>1, TacitMakes
    <3> QED
      BY <1>0, <3>1, <3>2, ExpandsIn
  <2>2. todo' \in Seq(Tacit)
    BY <1>0, <2>1, KindStays DEF Sure
  <2> QED
    BY <1>2, <2>2 DEF Reckoned, Sure
<1> QED
  BY <1>3, <1>4

LEMMA AskIs ==
    ASSUME NEW v \in Parameters, NEW b \in Seq(Tacit)
    PROVE  /\ b \in Seq(Steps) /\ Send(SetParameters(v)) \in Steps /\ Keep("ui8Parameters", v) \in Steps
           /\ Cons(Keep("ui8Parameters", v), b) \in Seq(Steps) /\ Ask(v, b) \in Seq(Steps)
<1>1. b \in Seq(Steps)
  BY SeqSub DEF Tacit
<1>2. Send(SetParameters(v)) \in Steps /\ Keep("ui8Parameters", v) \in Steps
  BY SendIsStep, Sends, KeepIsStep
<1>3. Cons(Keep("ui8Parameters", v), b) \in Seq(Steps)
  BY <1>1, <1>2, ConsIs
<1> QED
  BY <1>1, <1>2, <1>3, ConsIs DEF Ask

LEMMA AutoOnlyMoves == ASSUME Base, Progress, AutoOnly PROVE Sure'
<1>1. PICK on \in BOOLEAN, b \in Seq(Tacit) :
          (on = TRUE => AUTO_RATS \in parameters) /\ todo = Cons(Keep("bAutoIso14443_4", on), b)
  BY DEF AutoOnly
<1>2. Keep("bAutoIso14443_4", on) \in Steps /\ b \in Seq(Steps)
  BY KeepIsStep, SeqSub DEF Tacit, Flag
<1>3. Step = Keep("bAutoIso14443_4", on) /\ KeepStep /\ todo' = b
  BY <1>1, <1>2, FirstDone, Keeps DEF AutoOnly
<1>4. Step.name = "bAutoIso14443_4" /\ Step.value = on /\ "bAutoIso14443_4" \in DOMAIN dev /\ "ui8Parameters" \in DOMAIN dev
  BY <1>3, Keeps DEF Base, DevType, Flag
<1>5. dev'["bAutoIso14443_4"] = on /\ dev'["ui8Parameters"] = dev["ui8Parameters"] /\ UNCHANGED <<pc, cmd, parameters>>
  BY <1>3, <1>4, KeptDev DEF vars, settings
<1>6. cmd' = NoCommand
  BY <1>5 DEF Base, AutoOnly
<1> QED
  BY <1>1, <1>3, <1>5, <1>6 DEF Sure, AutoOnly, Believed, AutoIn, NoCommand

LEMMA AutoTooMoves == ASSUME Base, Progress, AutoToo PROVE ToAsk'
<1>1. PICK on \in BOOLEAN, v \in Parameters, b \in Seq(Tacit) :
          (on = TRUE => AUTO_RATS \in v) /\ todo = Cons(Keep("bAutoIso14443_4", on), Ask(v, b))
  BY DEF AutoToo
<1>2. Keep("bAutoIso14443_4", on) \in Steps /\ Ask(v, b) \in Seq(Steps)
  BY KeepIsStep, AskIs DEF Flag
<1>3. Step = Keep("bAutoIso14443_4", on) /\ KeepStep /\ todo' = Ask(v, b)
  BY <1>1, <1>2, FirstDone, Keeps DEF AutoToo
<1>4. Step.name = "bAutoIso14443_4" /\ Step.value = on /\ "bAutoIso14443_4" \in DOMAIN dev
  BY <1>3, Keeps DEF Base, DevType, Flag
<1>5. dev'["bAutoIso14443_4"] = on /\ pc' = "idle"
  BY <1>3, <1>4, KeptDev DEF vars, AutoToo
<1>6. AutoIn(v)'
  BY <1>1, <1>5 DEF AutoIn
<1> QED
  BY <1>3, <1>5, <1>6 DEF ToAsk

LEMMA ToAskMoves == ASSUME Base, Progress, ToAsk PROVE Posed'
<1>1. PICK v \in Parameters, b \in Seq(Tacit) : AutoIn(v) /\ todo = Ask(v, b)
  BY DEF ToAsk
<1> DEFINE q == Cons(Keep("ui8Parameters", v), b)
           c == SetParameters(v)
<1>2. Send(c) \in Steps /\ q \in Seq(Steps) /\ todo = Cons(Send(c), q)
  BY <1>1, AskIs DEF Ask
<1>3. Send(c).do = "send" /\ Send(c).cmd = c
  BY DEF Send
<1> HIDE DEF q, c
<1>4. Step = Send(c) /\ SendStep /\ todo' = q
  BY <1>2, <1>3, FirstDone DEF ToAsk
<1>5. cmd' = c /\ pc' # "idle" /\ dev' = dev
  BY <1>3, <1>4 DEF SendStep, pn53x_transceive, After
<1>6. AutoIn(v)'
  BY <1>1, <1>5 DEF AutoIn
<1> QED
  BY <1>4, <1>5, <1>6 DEF Posed, q, c

LEMMA PosedMoves == ASSUME Base, Progress, Posed PROVE unsure' \/ Posed' \/ Heard'
<1>1. PICK v \in Parameters, b \in Seq(Tacit) : AutoIn(v) /\ cmd = SetParameters(v) /\ todo = Cons(Keep("ui8Parameters", v), b)
  BY DEF Posed
<1>2. cmd.op = "SetParameters" /\ cmd.value = v /\ pc # "idle"
  BY <1>1 DEF SetParameters, Posed
<1>3. unsure' \/ ExchangeStep
  BY <1>2, Fallen
<1>4. CASE ExchangeStep
  <2>1. todo' = todo /\ dev' = dev
    BY <1>2, <1>4, CommandKept
  <2>2. AutoIn(v)'
    BY <1>1, <2>1 DEF AutoIn
  <2>3. CASE pc' # "idle"
    <3>1. cmd' = cmd
      BY <1>2, <1>4, <2>3, CommandKept
    <3> QED
      BY <1>1, <2>1, <2>2, <2>3, <3>1 DEF Posed
  <2>4. CASE pc' = "idle"
    <3>1. parameters' = v
      BY <1>2, <1>4, <2>4, CommandKept DEF Obey
    <3> QED
      BY <1>1, <2>1, <2>2, <2>4, <3>1 DEF Heard
  <2> QED
    BY <2>3, <2>4
<1> QED
  BY <1>3, <1>4

LEMMA HeardMoves == ASSUME Base, Progress, Heard PROVE Sure'
<1>1. PICK v \in Parameters, b \in Seq(Tacit) : AutoIn(v) /\ parameters = v /\ todo = Cons(Keep("ui8Parameters", v), b)
  BY DEF Heard
<1>2. Keep("ui8Parameters", v) \in Steps /\ b \in Seq(Steps)
  BY AskIs
<1>3. Step = Keep("ui8Parameters", v) /\ KeepStep /\ todo' = b
  BY <1>1, <1>2, FirstDone, Keeps DEF Heard
<1>4. Step.name = "ui8Parameters" /\ Step.value = v /\ "bAutoIso14443_4" \in DOMAIN dev /\ "ui8Parameters" \in DOMAIN dev
  BY <1>3, Keeps DEF Base, DevType, Flag
<1>5. dev'["bAutoIso14443_4"] = dev["bAutoIso14443_4"] /\ dev'["ui8Parameters"] = v /\ UNCHANGED <<pc, cmd, parameters>>
  BY <1>3, <1>4, KeptDev DEF vars, settings
<1>6. cmd' = NoCommand
  BY <1>5 DEF Base, Heard
<1> QED
  BY <1>1, <1>3, <1>5, <1>6 DEF Sure, Believed, AutoIn, NoCommand

LEMMA GreetedMoves == ASSUME Base, Progress, Greeted PROVE Greeted' \/ ToAsk' \/ Sure'
<1>1. PICK v \in Parameters, b \in Seq(Tacit) : todo = IF pc = "idle" THEN Cons(Greeting, Ask(v, b)) ELSE Ask(v, b)
  BY DEF Greeted
<1>2. Greeting \in Steps /\ Ask(v, b) \in Seq(Steps)
  BY SendIsStep, Sends, AskIs DEF Greeting
<1>3. Greeting.do = "send" /\ Greeting.cmd.op = "GetFirmwareVersion"
  BY DEF Greeting, Send
<1> HIDE DEF Greeting
<1>4. CASE pc = "idle"
  <2>1. Step = Greeting /\ SendStep /\ todo' = Ask(v, b)
    BY <1>1, <1>2, <1>3, <1>4, FirstDone
  <2>2. cmd' = Greeting.cmd /\ pc' # "idle" /\ UNCHANGED <<dev, parameters>>
    BY <2>1 DEF SendStep, pn53x_transceive, After, settings
  <2> QED
    BY <1>3, <2>1, <2>2 DEF Greeted, Believed
<1>5. CASE pc # "idle"
  <2>0. todo = Ask(v, b) /\ todo \in Seq(Steps)
    BY <1>1, <1>2, <1>5
  <2>1. pc = "idle" /\ todo # <<>> => Step \in Tacit
    BY <1>5
  <2>2. /\ cmd'.op # "SetParameters" /\ parameters' = parameters
        /\ dev'["ui8Parameters"] = dev["ui8Parameters"] /\ dev'["bAutoIso14443_4"] = dev["bAutoIso14443_4"]
    BY <2>1, TacitDoes DEF Greeted
  <2>3. Believed' /\ dev'["bAutoIso14443_4"] = FALSE
    BY <2>2 DEF Greeted, Believed
  <2>4. CASE todo' = <<>>
    <3>1. todo' \in Seq(Tacit)
      BY <2>4
    <3> QED
      BY <2>2, <2>3, <3>1 DEF Sure, AutoIn
  <2>5. CASE ExchangeStep
    <3>1. todo' = Ask(v, b)
      BY <2>0, <2>5, SameCommand
    <3>2. AutoIn(v)'
      BY <2>3 DEF AutoIn
    <3>3. pc' = "idle" => ToAsk'
      BY <3>1, <3>2 DEF ToAsk
    <3>4. pc' # "idle" => Greeted'
      BY <2>2, <2>3, <3>1 DEF Greeted
    <3> QED
      BY <3>3, <3>4
  <2> QED
    BY <1>5, <2>4, <2>5, Fallen
<1> QED
  BY <1>4, <1>5

LEMMA ReckonedMoves == ASSUME Base, Progress, Reckoned PROVE Reckoned'
<1>1. CASE unsure
  <2>1. unsure'
    BY <1>1, Forgetful
  <2> QED
    BY <2>1 DEF Reckoned
<1> QED
  BY <1>1, SureMoves, AutoOnlyMoves, AutoTooMoves, ToAskMoves, PosedMoves, HeardMoves, GreetedMoves DEF Reckoned

LEMMA ReckonedDone == ASSUME Base, Reckoned, AtRest PROVE unsure \/ Sure
<1>1. \A f, v, b : todo = Cons(Keep(f, v), b) /\ Keep(f, v) \in Steps /\ b \in Seq(Steps) => FALSE
  BY ConsIs DEF AtRest
<1>2. \A v \in Parameters, b \in Seq(Tacit) : todo # Ask(v, b) /\ todo # Cons(Greeting, Ask(v, b)) /\ todo # Cons(Keep("ui8Parameters", v), b)
  <2> TAKE v \in Parameters, b \in Seq(Tacit)
  <2>1. Ask(v, b) # <<>>
    BY AskIs, ConsIs DEF Ask
  <2>2. Greeting \in Steps
    BY SendIsStep, Sends DEF Greeting
  <2>3. Cons(Greeting, Ask(v, b)) # <<>>
    BY <2>2, AskIs, ConsIs
  <2> QED
    BY <1>1, <2>1, <2>3, AskIs DEF AtRest
<1>3. ~AutoOnly
  <2> SUFFICES ASSUME NEW on \in BOOLEAN, NEW b \in Seq(Tacit), todo = Cons(Keep("bAutoIso14443_4", on), b) PROVE FALSE
    BY DEF AutoOnly
  <2>1. Keep("bAutoIso14443_4", on) \in Steps /\ b \in Seq(Steps)
    BY KeepIsStep, SeqSub DEF Tacit, Flag
  <2> QED
    BY <1>1, <2>1
<1>4. ~AutoToo
  <2> SUFFICES ASSUME NEW on \in BOOLEAN, NEW v \in Parameters, NEW b \in Seq(Tacit), todo = Cons(Keep("bAutoIso14443_4", on), Ask(v, b))
               PROVE  FALSE
    BY DEF AutoToo
  <2>1. Keep("bAutoIso14443_4", on) \in Steps /\ Ask(v, b) \in Seq(Steps)
    BY KeepIsStep, AskIs DEF Flag
  <2> QED
    BY <1>1, <2>1
<1>5. ~ToAsk /\ ~Heard /\ ~Greeted
  BY <1>2 DEF ToAsk, Heard, Greeted, AtRest
<1> QED
  BY <1>3, <1>4, <1>5 DEF Reckoned, Posed, AtRest

LEMMA ReckonedInit == ASSUME SettingsInit PROVE Reckoned
<1> DEFINE q == ResetRest \o logo_init
           v == {AUTO_ATR_RES, AUTO_RATS}
           b == Cons(ToZero, Cons(Zeroing, q))
           s2 == Send(SetParameters(v))
           s3 == Keep("ui8Parameters", v)
<1>1. Rests \cup {Led, ToZero, Zeroing} \subseteq Tacit
  BY RestsAre, OpenIs, ResetKinds, Writes DEF Tacit, Led
<1>2. b \in Seq(Tacit)
  <2> DEFINE z == ToZero
             w == Zeroing
  <2>1. q \in Seq(Tacit) /\ z \in Tacit /\ w \in Tacit
    BY <1>1, OpenIs, SeqSub
  <2> HIDE DEF q, z, w
  <2>2. Cons(w, q) \in Seq(Tacit)
    BY <2>1, ConsIs
  <2>3. Cons(z, Cons(w, q)) \in Seq(Tacit)
    BY <2>1, <2>2, ConsIs
  <2> QED
    BY <2>3 DEF z, w
<1>3. v \in Parameters
  BY DEF Parameters
<1>4. Greeting \in Steps /\ s2 \in Steps /\ s3 \in Steps /\ b \in Seq(Steps)
  <2>1. b \in Seq(Steps)
    BY <1>2, SeqSub DEF Tacit
  <2> QED
    BY <1>3, <2>1, SendIsStep, KeepIsStep, Sends DEF Greeting
<1>5. todo = <<Greeting, s2, s3>> \o b
  BY OpenIs DEF SettingsInit, OpenHead, Greeting
<1>6. todo = Cons(Greeting, Ask(v, b))
  <2> HIDE DEF b, s2, s3, Greeting
  <2>1. <<Greeting, s2, s3>> \o b = Cons(Greeting, Cons(s2, Cons(s3, b)))
    BY <1>4, ThreeJoined
  <2> QED
    BY <1>5, <2>1 DEF Ask, s2, s3
<1>7. /\ dev["bAutoIso14443_4"] = FALSE /\ dev["ui8Parameters"] = {} /\ parameters = {}
      /\ pc = "idle" /\ cmd = NoCommand
  <2>1. PICK model \in Models : dev = Closed(model)
    BY DEF SettingsInit
  <2> QED
    BY <2>1 DEF Closed, Flag, SettingsInit, Clean
<1> HIDE DEF v, b
<1>8. Greeted
  BY <1>2, <1>3, <1>6, <1>7 DEF Greeted, Believed, NoCommand
<1> QED
  BY <1>8 DEF Reckoned

LEMMA ReckonedStart ==
    ASSUME Base, NEW steps \in Seq(Steps), Start(steps), steps \in Seq(Usual) \/ steps = Program(InitCall), Reckoned
    PROVE  Reckoned'
<1>1. AtRest /\ todo' = steps /\ UNCHANGED <<dev, cmd, parameters, unsure>>
  BY DEF Start, settings
<1>2. unsure \/ Sure
  BY <1>1, ReckonedDone
<1>3. CASE unsure
  <2>1. unsure' = unsure
    BY <1>1
  <2>2. unsure'
    BY <1>3, <2>1
  <2> QED
    BY <2>2 DEF Reckoned
<1>4. CASE Sure
  <2>1. Usual \subseteq Tacit
    BY SendIsStep, Sends DEF Usual, Tacit, Steps, SetSteps, TxSteps, Send, CardCommand, InListPassiveTarget
  <2>2. Inits \cup Rests \cup {Initiating, ToZero, Zeroing} \subseteq Tacit
    <3>1. Inits \subseteq Tacit /\ Rests \subseteq Tacit
      BY <2>1, InitIs, RestsAre DEF Usual
    <3>2. Initiating \in Tacit /\ ToZero \in Tacit /\ Zeroing \in Tacit
      BY InitIs, ResetKinds, Writes DEF Tacit, Initiating
    <3> QED
      BY <3>1, <3>2
  <2>3. todo' \in Seq(Tacit)
    <3>1. CASE steps \in Seq(Usual)
      BY <1>1, <2>1, <3>1, SeqSub
    <3>2. CASE steps = Program(InitCall)
      <4>1. Program(InitCall) \in Seq(Inits \cup Rests \cup {Initiating, ToZero, Zeroing})
        BY InitIs
      <4> QED
        BY <1>1, <2>2, <3>2, <4>1, SeqSub
    <3> QED
      BY <3>1, <3>2
  <2> QED
    BY <1>1, <1>4, <2>3 DEF Reckoned, Sure, Believed, AutoIn
<1> QED
  BY <1>2, <1>3, <1>4

-----------------------------------------------------------------------------
(* What nfc_initiator_init does to the bits that it clears, and to the      *)
(* flags that it sets.                                                     *)

Wipe(r, b) == [reg |-> r, bit |-> b]
Wiped == {Wipe("TxMode", "framing"), Wipe("RxMode", "framing"), Wipe("TxMode", "speed"), Wipe("RxMode", "speed"),
          Wipe("RxMode", "no_error"), Wipe("RxMode", "multiple"), Wipe("Status2", "crypto1")}
Wiper(i) ==
    CASE i.bit = "framing" -> Set("FORCE_ISO14443_A", TRUE)
      [] i.bit = "speed" -> Set("FORCE_SPEED_106", TRUE)
      [] i.bit = "no_error" -> Set("ACCEPT_INVALID_FRAMES", FALSE)
      [] i.bit = "multiple" -> Set("ACCEPT_MULTIPLE_FRAMES", FALSE)
      [] OTHER -> Set("ACTIVATE_CRYPTO1", FALSE)
Wiping(i) == Write(i.reg, {i.bit}, {})
Gone(i)   == Has(todo, {Wiper(i), Wiping(i)}) \/ i.bit \notin Asked[i.reg]

Raised == {"bCrc", "bPar", "bEasyFraming", "bAutoIso14443_4"}
Raising(f) ==
    Set(CASE f = "bCrc" -> "HANDLE_CRC" [] f = "bPar" -> "HANDLE_PARITY"
          [] f = "bEasyFraming" -> "EASY_FRAMING" [] OTHER -> "AUTO_ISO14443_4", TRUE)
Up(f) == Has(todo, {Raising(f), Keep(f, TRUE)}) \/ dev[f] = TRUE

(* The steps of the call, which undo neither. *)
Setup == {s \in Steps : /\ s.do = "set" => s \in Inits \cup Rests
                        /\ s.do # "tx"
                        /\ s.do = "keep" /\ s.name \in Flag => s.value = TRUE
                        /\ s.do = "write" => \A i \in Wiped : s.reg = i.reg /\ i.bit \in s.mask => i.bit \notin s.value}

LEMMA SetupMakes == ASSUME NEW s \in Setup, s.do \in {"set", "tx"} PROVE Makes(s) \subseteq Setup
<1>0. s \in Steps /\ s.do = "set" /\ s \in Inits \cup Rests /\ Makes(s) \subseteq Steps
  BY MakesSteps DEF Setup
<1> SUFFICES ASSUME NEW m \in Makes(s) PROVE m \in Setup
  OBVIOUS
<1>1. s.property \in Property /\ s.on \in BOOLEAN /\ (s.on = FALSE => s.property \in {"ACTIVATE_FIELD", "ACCEPT_INVALID_FRAMES", "ACCEPT_MULTIPLE_FRAMES", "ACTIVATE_CRYPTO1"})
      /\ (s.on = TRUE => s.property \notin {"ACCEPT_INVALID_FRAMES", "ACCEPT_MULTIPLE_FRAMES", "ACTIVATE_CRYPTO1", "FORCE_ISO14443_B"})
  <2>1. s.property \in Property /\ s.on \in BOOLEAN
    BY <1>0, StepKinds
  <2>2. CASE s \in Inits
    BY <2>1, <2>2 DEF Inits, Set
  <2>3. CASE s \in Rests
    BY <2>1, <2>3 DEF Rests, Set
  <2> QED
    BY <1>0, <2>2, <2>3
<1>2. ASSUME m \in WritesOf(s.property, s.on) PROVE m \in Setup
  <2>1. m.do = "write" /\ m.value \cap {"framing", "speed", "no_error", "multiple", "crypto1"} = {}
    <3>1. CASE s.on = TRUE
      BY <1>1, <1>2, <3>1, Writes DEF WritesOf, Property, If
    <3>2. CASE s.on = FALSE
      BY <1>1, <1>2, <3>2, Writes DEF WritesOf, Property, If
    <3> QED
      BY <1>1, <3>1, <3>2
  <2>2. \A i \in Wiped : i.bit \in {"framing", "speed", "no_error", "multiple", "crypto1"}
    BY DEF Wiped, Wipe
  <2>3. \A i \in Wiped : i.bit \notin m.value
    BY <2>1, <2>2
  <2> QED
    BY <1>0, <2>1, <2>3 DEF Setup
<1>3. ASSUME m \in KeepsOf(s.property, s.on) PROVE m \in Setup
  <2>1. m.do = "keep" /\ (m.name \in Flag => m.value = TRUE)
    BY <1>1, <1>3, Keeps DEF KeepsOf, Property, Flag
  <2> QED
    BY <1>0, <2>1 DEF Setup
<1>4. ASSUME m \in SendsOf(s.property, s.on) PROVE m \in Setup
  <2>1. m.do = "send"
    BY <1>1, <1>4 DEF SendsOf, Send, Property
  <2> QED
    BY <1>0, <2>1 DEF Setup
<1> QED
  BY <1>0, <1>2, <1>3, <1>4 DEF Makes

LEMMA SetupStays == ASSUME Base, Progress, todo \in Seq(Setup) PROVE todo' \in Seq(Setup)
<1>0. Setup \subseteq Steps
  BY DEF Setup
<1>1. Expand => Expansion(Step) \in Seq(Setup)
  <2> SUFFICES ASSUME Expand PROVE Expansion(Step) \in Seq(Setup)
    OBVIOUS
  <2>1. Step \in Steps /\ Step.do \in {"set", "tx"} /\ Step \in Setup
    BY ExpandSteps, HeadIn DEF Expand, Step
  <2>2. Makes(Step) \subseteq Setup
    BY <2>1, SetupMakes
  <2> QED
    BY <2>1, <2>2, ExpandsIn DEF Base
<1> QED
  BY <1>0, <1>1, KindStays

(* What the sets of the call are replaced by clears its bits. *)
LEMMA WipingIn ==
    ASSUME NEW i \in Wiped
    PROVE  /\ Wiper(i) \in Steps /\ Wiper(i).do = "set" /\ Has(Expansion(Wiper(i)), {Wiping(i)})
           /\ i.reg \in CachedRegister /\ Wiping(i) \in Steps
<1>1. Wiper(i) \in Steps /\ Wiper(i).do = "set"
  BY SetIsStep DEF Wiper, Property, Set
<1>2. i.reg \in CachedRegister /\ Wiping(i) \in Steps
  <2>1. i.reg \in CachedRegister /\ i.bit \in Bit
    BY SettingsAssumption DEF Wiped, Wipe
  <2> QED
    BY <2>1, WriteIsStep DEF Wiping, Register
<1>4. CASE i.bit = "framing"
  <2> DEFINE q == <<Write("TxMode", {"framing"}, {}), Write("RxMode", {"framing"}, {}), Write("TxAuto", {"force_100_ask"}, {"force_100_ask"})>>
  <2>1. Expansion(Wiper(i)) = q /\ (i.reg = "TxMode" \/ i.reg = "RxMode")
    BY <1>4 DEF Wiped, Wipe, Wiper, Expansion, set_property_bool, Set
  <2>2. Len(q) = 3 /\ q[1] = Write("TxMode", {"framing"}, {}) /\ q[2] = Write("RxMode", {"framing"}, {})
    OBVIOUS
  <2> HIDE DEF q
  <2>3. 1 \in 1..Len(q) /\ 2 \in 1..Len(q)
    BY <2>2
  <2> QED
    BY <1>1, <1>2, <1>4, <2>1, <2>2, <2>3 DEF Has, Wiping
<1>5. CASE i.bit = "speed"
  <2> DEFINE q == <<Write("TxMode", {"speed"}, {}), Write("RxMode", {"speed"}, {})>>
  <2>1. Expansion(Wiper(i)) = q /\ (i.reg = "TxMode" \/ i.reg = "RxMode")
    BY <1>5 DEF Wiped, Wipe, Wiper, Expansion, set_property_bool, Set
  <2>2. Len(q) = 2 /\ q[1] = Write("TxMode", {"speed"}, {}) /\ q[2] = Write("RxMode", {"speed"}, {})
    OBVIOUS
  <2> HIDE DEF q
  <2>3. 1 \in 1..Len(q) /\ 2 \in 1..Len(q)
    BY <2>2
  <2> QED
    BY <1>1, <1>2, <1>5, <2>1, <2>2, <2>3 DEF Has, Wiping
<1>6. CASE i.bit \in {"no_error", "multiple", "crypto1"}
  <2>1. Expansion(Wiper(i)) = <<Wiping(i)>>
    <3>1. i.reg = IF i.bit = "crypto1" THEN "Status2" ELSE "RxMode"
      BY <1>6 DEF Wiped, Wipe
    <3>2. CASE i.bit = "no_error"
      BY <3>1, <3>2 DEF Wiper, Expansion, set_property_bool, Set, Wiping, If
    <3>3. CASE i.bit = "multiple"
      BY <3>1, <3>3 DEF Wiper, Expansion, set_property_bool, Set, Wiping, If
    <3>4. CASE i.bit = "crypto1"
      BY <3>1, <3>4 DEF Wiper, Expansion, set_property_bool, Set, Wiping, If
    <3> QED
      BY <1>6, <3>2, <3>3, <3>4
  <2>2. Len(<<Wiping(i)>>) = 1 /\ <<Wiping(i)>>[1] = Wiping(i)
    OBVIOUS
  <2> QED
    BY <1>1, <1>2, <2>1, <2>2 DEF Has
<1>7. i.bit \in {"framing", "speed", "no_error", "multiple", "crypto1"}
  BY DEF Wiped, Wipe
<1> QED
  BY <1>1, <1>2, <1>4, <1>5, <1>6, <1>7

LEMMA GoneMoves ==
    ASSUME Base, Progress, todo \in Seq(Setup), NEW i \in Wiped, Gone(i)
    PROVE  forgotten' \/ Broken' \/ Gone(i)'
<1>0. /\ Wiper(i) \in Steps /\ Wiper(i).do = "set" /\ Has(Expansion(Wiper(i)), {Wiping(i)})
      /\ i.reg \in CachedRegister /\ Wiping(i) \in Steps
  BY WipingIn
<1> DEFINE w == Wiping(i)
           G == {Wiper(i), w}
<1>1. w.do = "write" /\ w.reg = i.reg /\ i.bit \in w.mask /\ i.bit \notin w.value
  BY Writes DEF Wiping
<1>2. todo # <<>> => Step \in Setup /\ Tail(todo) \in Seq(Steps)
  BY HeadIn, StepIn DEF Step
<1> HIDE DEF w
<1>3. CASE i.bit \notin Asked[i.reg]
  <2>1. CASE WriteStep /\ Step.reg = i.reg /\ i.bit \in Step.mask
    <3>1. i.bit \notin Step.value
      BY <1>2, <2>1 DEF WriteStep, Setup
    <3>2. i.bit \in Asked'[Step.reg] <=> i.bit \in Step.value
      BY <1>0, <2>1, BitWritten
    <3> QED
      BY <2>1, <3>1, <3>2 DEF Gone
  <2>2. CASE ~(WriteStep /\ Step.reg = i.reg /\ i.bit \in Step.mask)
    <3>1. forgotten' \/ (i.bit \in Asked'[i.reg] <=> i.bit \in Asked[i.reg])
      BY <1>0, <2>2, BitKept
    <3> QED
      BY <1>3, <3>1 DEF Gone
  <2> QED
    BY <2>1, <2>2
<1>4. CASE Has(todo, G)
  <2>0. todo # <<>>
    BY <1>4 DEF Has
  <2>1. CASE pc = "idle" /\ Step = w
    <3>1. WriteStep
      BY <1>1, <2>1, SameCommand DEF Progress, Expand, KeepStep, SendStep, FailStep, Fail
    <3>2. Step.reg \in CachedRegister /\ i.bit \in Step.mask
      BY <1>0, <1>1, <2>1
    <3>3. i.bit \in Asked'[Step.reg] <=> i.bit \in Step.value
      BY <3>1, <3>2, BitWritten
    <3> QED
      BY <1>1, <2>1, <3>3 DEF Gone
  <2>2. CASE pc = "idle" /\ Step = Wiper(i)
    <3>1. Expand
      BY <1>0, <2>2, SameCommand DEF Progress, WriteStep, KeepStep, SendStep, FailStep, Fail
    <3>2. todo' = Expansion(Step) \o Tail(todo) /\ Expansion(Step) \in Seq(Steps)
      BY <3>1, ExpandSteps
    <3>3. Has(todo', {w})
      BY <1>0, <1>2, <2>0, <2>2, <3>2, HasJoined DEF w
    <3>4. Has(todo', G)
      BY <3>3 DEF Has
    <3> QED
      BY <3>4 DEF Gone, w
  <2>3. CASE pc = "idle" => Step \notin G
    <3>1. Has(todo', G) \/ (AtRest /\ res = "error")'
      BY <1>4, <2>3, StaysAhead
    <3> QED
      BY <3>1 DEF Gone, Broken, w
  <2> QED
    BY <2>1, <2>2, <2>3
<1> QED
  BY <1>3, <1>4 DEF Gone, w

LEMMA RaisingIn ==
    ASSUME DevType, NEW f \in Raised
    PROVE  /\ Raising(f) \in Steps /\ Raising(f).do = "set" /\ Keep(f, TRUE) \in Steps /\ f \in Flag
           /\ dev[f] = TRUE \/ Has(Expansion(Raising(f)), {Keep(f, TRUE)})
<1>1. Raising(f) \in Steps /\ Raising(f).do = "set"
  BY SetIsStep DEF Raised, Raising, Property, Set
<1>2. f \in Flag /\ Keep(f, TRUE) \in Steps /\ dev[f] \in BOOLEAN
  BY KeepIsStep DEF Raised, Flag, DevType
<1>3. ASSUME dev[f] # TRUE PROVE Has(Expansion(Raising(f)), {Keep(f, TRUE)})
  <2>1. CASE f = "bCrc"
    <3> DEFINE q == <<Write("TxMode", {"crc"}, If(TRUE, {"crc"})), Write("RxMode", {"crc"}, If(TRUE, {"crc"})), Keep("bCrc", TRUE)>>
    <3>1. Expansion(Raising(f)) = q
      BY <1>3, <2>1 DEF Raising, Expansion, set_property_bool, Set
    <3>2. Len(q) = 3 /\ q[3] = Keep("bCrc", TRUE)
      OBVIOUS
    <3> HIDE DEF q
    <3>3. 3 \in 1..Len(q)
      BY <3>2
    <3> QED
      BY <2>1, <3>1, <3>2, <3>3 DEF Has
  <2>2. CASE f = "bPar"
    <3> DEFINE q == <<Write("ManualRCV", {"parity_disable"}, If(~TRUE, {"parity_disable"})), Keep("bPar", TRUE)>>
    <3>1. Expansion(Raising(f)) = q
      BY <1>3, <2>2 DEF Raising, Expansion, set_property_bool, Set
    <3>2. Len(q) = 2 /\ q[2] = Keep("bPar", TRUE)
      OBVIOUS
    <3> HIDE DEF q
    <3>3. 2 \in 1..Len(q)
      BY <3>2
    <3> QED
      BY <2>2, <3>1, <3>2, <3>3 DEF Has
  <2>3. CASE f = "bEasyFraming"
    <3>1. Expansion(Raising(f)) = <<Keep("bEasyFraming", TRUE)>>
      BY <1>3, <2>3 DEF Raising, Expansion, set_property_bool, Set
    <3> DEFINE k == Keep("bEasyFraming", TRUE)
    <3>2. Len(<<k>>) = 1 /\ <<k>>[1] = k /\ 1 \in 1..1
      OBVIOUS
    <3> HIDE DEF k
    <3>3. Has(<<k>>, {k})
      BY <3>2 DEF Has
    <3> QED
      BY <2>3, <3>1, <3>3 DEF k
  <2>4. CASE f = "bAutoIso14443_4"
    <3> DEFINE k == Keep("bAutoIso14443_4", TRUE)
               ps == set_parameters(AUTO_RATS, TRUE)
    <3>1. Expansion(Raising(f)) = <<k>> \o ps
      BY <1>3, <2>4 DEF Raising, Expansion, set_property_bool, Set
    <3>2. ps \in Seq(Steps) /\ k \in Steps
      BY <1>2, <2>4, NewParameters, SendIsStep, KeepIsStep, Sends, None0, Two DEF set_parameters
    <3>3. Len(<<k>>) = 1 /\ <<k>>[1] = k
      OBVIOUS
    <3> HIDE DEF k, ps
    <3>4. Has(<<k>>, {k}) /\ <<k>> \in Seq(Steps)
      BY <3>2, <3>3 DEF Has
    <3>5. Has(<<k>> \o ps, {k})
      BY <3>2, <3>4, HasJoined
    <3> QED
      BY <2>4, <3>1, <3>5 DEF k
  <2> QED
    BY <2>1, <2>2, <2>3, <2>4 DEF Raised
<1> QED
  BY <1>1, <1>2, <1>3

LEMMA UpMoves ==
    ASSUME Base, Progress, todo \in Seq(Setup), NEW f \in Raised, Up(f)
    PROVE  Broken' \/ Up(f)'
<1>0. /\ Raising(f) \in Steps /\ Raising(f).do = "set" /\ Keep(f, TRUE) \in Steps /\ f \in Flag
      /\ dev[f] = TRUE \/ Has(Expansion(Raising(f)), {Keep(f, TRUE)})
  BY RaisingIn DEF Base
<1> DEFINE k == Keep(f, TRUE)
           s == Raising(f)
           G == {s, k}
<1>1. k.do = "keep" /\ k.name = f /\ k.value = TRUE
  BY Keeps
<1>2. todo # <<>> => Step \in Setup /\ Tail(todo) \in Seq(Steps)
  BY HeadIn, StepIn DEF Step
<1>2a. f \in DOMAIN dev
  BY <1>0 DEF Base, DevType
<1> HIDE DEF k, s
<1>3. CASE dev[f] = TRUE
  <2>1. CASE KeepStep /\ Step.name = f
    <3>1. Step.value = TRUE
      BY <1>0, <1>2, <2>1 DEF KeepStep, Setup
    <3> QED
      BY <1>2a, <2>1, <3>1, KeptDev DEF Up
  <2>2. CASE ~(KeepStep /\ Step.name = f)
    BY <1>2a, <1>3, <2>2, CopyKept DEF Up
  <2> QED
    BY <2>1, <2>2
<1>4. CASE Has(todo, G) /\ dev[f] # TRUE
  <2>0. todo # <<>>
    BY <1>4 DEF Has
  <2>1. CASE pc = "idle" /\ Step = k
    <3>1. KeepStep
      BY <1>1, <2>1, SameCommand DEF Progress, Expand, WriteStep, SendStep, FailStep, Fail
    <3> QED
      BY <1>1, <1>2a, <2>1, <3>1, KeptDev DEF Up
  <2>2. CASE pc = "idle" /\ Step = s
    <3>1. Expand
      BY <1>0, <2>2, SameCommand DEF Progress, WriteStep, KeepStep, SendStep, FailStep, Fail, s
    <3>2. todo' = Expansion(Step) \o Tail(todo) /\ Expansion(Step) \in Seq(Steps)
      BY <3>1, ExpandSteps
    <3>3. Has(todo', {k})
      BY <1>0, <1>2, <1>4, <2>0, <2>2, <3>2, HasJoined DEF k, s
    <3>4. Has(todo', G)
      BY <3>3 DEF Has
    <3> QED
      BY <3>4 DEF Up, k, s
  <2>3. CASE pc = "idle" => Step \notin G
    <3>1. Has(todo', G) \/ (AtRest /\ res = "error")'
      BY <1>4, <2>3, StaysAhead
    <3> QED
      BY <3>1 DEF Up, Broken, k, s
  <2> QED
    BY <2>1, <2>2, <2>3
<1> QED
  BY <1>3, <1>4 DEF Up, k, s

(* Each of its sets is made by the call. *)
LEMMA InitHas == ASSUME NEW s \in Inits \cup Rests PROVE Has(Program(InitCall), {s})
<1> DEFINE q == ResetRest \o <<Initiating>>
<1>1. q \in Seq(Steps) /\ ResetRest \in Seq(Steps) /\ <<Initiating>> \in Seq(Steps) /\ InitSets \in Seq(Steps)
  <2>1. Inits \subseteq Steps
    BY InitIs DEF Steps
  <2>2. ResetRest \in Seq(Steps) /\ InitSets \in Seq(Steps)
    BY <2>1, InitIs, RestsAre, SeqSub
  <2>3. <<Initiating>> \in Seq(Steps)
    BY InitIs, One
  <2> QED
    BY <2>2, <2>3, Joined
<1>2. s \in Inits => Has(InitSets, {s})
  <2>1. /\ Len(InitSets) = 8 /\ InitSets[1] = Set("ACTIVATE_FIELD", FALSE) /\ InitSets[2] = Set("ACTIVATE_FIELD", TRUE)
        /\ InitSets[3] = Set("INFINITE_SELECT", TRUE) /\ InitSets[4] = Set("AUTO_ISO14443_4", TRUE)
        /\ InitSets[5] = Set("FORCE_ISO14443_A", TRUE) /\ InitSets[6] = Set("FORCE_SPEED_106", TRUE)
        /\ InitSets[7] = Set("ACCEPT_INVALID_FRAMES", FALSE) /\ InitSets[8] = Set("ACCEPT_MULTIPLE_FRAMES", FALSE)
    BY DEF InitSets
  <2> HIDE DEF InitSets
  <2>2. \A k \in 1..8 : k \in 1..Len(InitSets)
    BY <2>1
  <2>3. /\ Has(InitSets, {InitSets[1]}) /\ Has(InitSets, {InitSets[2]}) /\ Has(InitSets, {InitSets[3]}) /\ Has(InitSets, {InitSets[4]})
        /\ Has(InitSets, {InitSets[5]}) /\ Has(InitSets, {InitSets[6]}) /\ Has(InitSets, {InitSets[7]}) /\ Has(InitSets, {InitSets[8]})
    BY <2>2 DEF Has
  <2> QED
    BY <2>1, <2>3 DEF Inits
<1>3. s \in Rests => Has(ResetRest, {s})
  <2>1. /\ Len(ResetRest) = 4 /\ ResetRest[1] = Set("HANDLE_CRC", TRUE) /\ ResetRest[2] = Set("HANDLE_PARITY", TRUE)
        /\ ResetRest[3] = Set("EASY_FRAMING", TRUE) /\ ResetRest[4] = Set("ACTIVATE_CRYPTO1", FALSE)
    BY DEF ResetRest
  <2> HIDE DEF ResetRest
  <2>2. \A k \in 1..4 : k \in 1..Len(ResetRest)
    BY <2>1
  <2>3. Has(ResetRest, {ResetRest[1]}) /\ Has(ResetRest, {ResetRest[2]}) /\ Has(ResetRest, {ResetRest[3]}) /\ Has(ResetRest, {ResetRest[4]})
    BY <2>2 DEF Has
  <2> QED
    BY <2>1, <2>3 DEF Rests
<1>4. Cons(Zeroing, q) \in Seq(Steps) /\ Cons(ToZero, Cons(Zeroing, q)) \in Seq(Steps)
  <2> HIDE DEF q
  <2>1. Cons(Zeroing, q) \in Seq(Steps)
    BY <1>1, ResetKinds, ConsIs
  <2> QED
    BY <2>1, ResetKinds, ConsIs
<1>5. CASE s \in Inits
  <2> DEFINE c == Cons(ToZero, Cons(Zeroing, q))
  <2>1. Program(InitCall) = InitSets \o c /\ c \in Seq(Steps)
    BY <1>4, InitIs
  <2> HIDE DEF c
  <2>2. Has(InitSets \o c, {s})
    BY <1>1, <1>2, <1>5, <2>1, HasJoined
  <2> QED
    BY <2>1, <2>2
<1>6. CASE s \in Rests
  <2>1. Has(q, {s})
    BY <1>1, <1>3, <1>6, HasJoined
  <2>2. Program(InitCall) = InitSets \o Cons(ToZero, Cons(Zeroing, q))
    BY InitIs
  <2> HIDE DEF q
  <2>3. Has(Cons(Zeroing, q), {s})
    BY <1>1, <2>1, ResetKinds, HasCons
  <2>4. Has(Cons(ToZero, Cons(Zeroing, q)), {s})
    BY <1>4, <2>3, ResetKinds, HasCons
  <2>5. Has(InitSets \o Cons(ToZero, Cons(Zeroing, q)), {s})
    BY <1>1, <1>4, <2>4, HasJoined
  <2> QED
    BY <2>2, <2>5
<1> QED
  BY <1>5, <1>6

LEMMA InitStart ==
    ASSUME Start(Program(InitCall))
    PROVE  todo' \in Seq(Setup) /\ (\A i \in Wiped : Gone(i)') /\ (\A f \in Raised : Up(f)')
<1>0. todo' = Program(InitCall)
  BY DEF Start
<1>1. todo' \in Seq(Setup)
  <2>1. Inits \cup Rests \subseteq Setup
    BY InitIs, RestsAre DEF Setup, SetSteps, Steps
  <2>2. Initiating \in Setup
    BY InitIs, Writes DEF Setup, Initiating, Wiped, Wipe
  <2>3. ToZero \in Setup /\ Zeroing \in Setup
    BY ResetKinds DEF Setup, Flag, Wiped, Wipe
  <2>4. Inits \cup Rests \cup {Initiating, ToZero, Zeroing} \subseteq Setup
    BY <2>1, <2>2, <2>3
  <2>5. Program(InitCall) \in Seq(Inits \cup Rests \cup {Initiating, ToZero, Zeroing})
    BY InitIs
  <2> QED
    BY <1>0, <2>4, <2>5, SeqSub
<1>2. ASSUME NEW i \in Wiped PROVE Gone(i)'
  <2>1. Wiper(i) \in Inits \cup Rests
    BY DEF Wiper, Inits, Rests
  <2>2. Has(todo', {Wiper(i)})
    BY <1>0, <2>1, InitHas
  <2>3. Has(todo', {Wiper(i), Wiping(i)})
    BY <2>2 DEF Has
  <2> QED
    BY <2>3 DEF Gone
<1>3. ASSUME NEW f \in Raised PROVE Up(f)'
  <2>1. Raising(f) \in Inits \cup Rests
    BY DEF Raising, Inits, Rests
  <2>2. Has(todo', {Raising(f)})
    BY <1>0, <2>1, InitHas
  <2>3. Has(todo', {Raising(f), Keep(f, TRUE)})
    BY <2>2 DEF Has
  <2> QED
    BY <2>3 DEF Up
<1> QED
  BY <1>1, <1>2, <1>3

(* The field: it is turned off, then on. *)
Unlit == {s \in Steps : /\ ~(s.do = "set" /\ s.property = "ACTIVATE_FIELD")
                        /\ ~(s.do = "send" /\ s.cmd.op = "RF_field")}
LightUp  == Set("ACTIVATE_FIELD", TRUE)
Lighting == RFConfiguration__RF_field(TRUE)

FieldAhead == \E x \in Seq(Steps), b \in Seq(Unlit) : todo = x \o Cons(LightUp, b)
FieldNext  == pc = "idle" /\ \E b \in Seq(Unlit) : todo = Cons(Send(Lighting), b)
FieldSent  == pc # "idle" /\ cmd = Lighting /\ todo \in Seq(Unlit)
FieldOn    == field = TRUE /\ cmd.op # "RF_field" /\ todo \in Seq(Unlit)
Fielded    == Broken \/ FieldAhead \/ FieldNext \/ FieldSent \/ FieldOn

LEMMA UnlitMakes ==
    ASSUME NEW s \in Unlit, s.do \in {"set", "tx"} PROVE Makes(s) \subseteq Unlit
<1>0. s \in Steps /\ Makes(s) \subseteq Steps
  BY MakesSteps DEF Unlit
<1> SUFFICES ASSUME NEW m \in Makes(s) PROVE m \in Unlit
  OBVIOUS
<1>1. CASE s.do = "tx"
  BY <1>0, <1>1, Writes, Keeps DEF Makes, Unlit
<1>2. CASE s.do = "set"
  <2>1. s.property \in Property /\ s.property # "ACTIVATE_FIELD"
    BY <1>0, <1>2, StepKinds DEF Unlit
  <2>2. ASSUME m \in WritesOf(s.property, s.on) PROVE m.do = "write"
    BY <2>1, <2>2, Writes DEF WritesOf
  <2>3. ASSUME m \in KeepsOf(s.property, s.on) PROVE m.do = "keep"
    BY <2>1, <2>3, Keeps DEF KeepsOf
  <2>4. ASSUME m \in SendsOf(s.property, s.on) PROVE m.do = "send" /\ m.cmd.op # "RF_field"
    BY <2>1, <2>4 DEF SendsOf, Send, SetParameters, RFConfiguration__MaxRetries
  <2> QED
    BY <1>0, <1>2, <2>2, <2>3, <2>4 DEF Makes, Unlit
<1> QED
  BY <1>1, <1>2

LEMMA UnlitStays == ASSUME Base, Progress, todo \in Seq(Unlit) PROVE todo' \in Seq(Unlit)
<1>0. Unlit \subseteq Steps
  BY DEF Unlit
<1>1. Expand => Expansion(Step) \in Seq(Unlit)
  <2> SUFFICES ASSUME Expand PROVE Expansion(Step) \in Seq(Unlit)
    OBVIOUS
  <2>1. Step \in Steps /\ Step.do \in {"set", "tx"} /\ Step \in Unlit
    BY ExpandSteps, HeadIn DEF Expand, Step
  <2>2. Makes(Step) \subseteq Unlit
    BY <2>1, UnlitMakes
  <2> QED
    BY <2>1, <2>2, ExpandsIn DEF Base
<1> QED
  BY <1>0, <1>1, KindStays

LEMMA UnlitDoes ==
    ASSUME Base, Progress, cmd.op # "RF_field", pc = "idle" /\ todo # <<>> => Step \in Unlit
    PROVE  cmd'.op # "RF_field" /\ field' = field
<1>1. CASE Expand \/ KeepStep
  BY <1>1 DEF Expand, KeepStep, vars, settings
<1>2. CASE WriteStep
  <2>1. cmd' = cmd \/ cmd'.op \in {"Update", "WriteRegister"}
    BY <1>2, NotedStep, DirectCommand, StepIn, StepKinds DEF WriteStep
  <2> QED
    BY <1>2, <2>1 DEF WriteStep, settings
<1>3. CASE SendStep
  <2>1. pc = "idle" /\ todo # <<>> /\ Step.do = "send" /\ cmd' = Step.cmd
    BY <1>3 DEF SendStep, pn53x_transceive
  <2>2. Step.cmd.op # "RF_field"
    BY <2>1 DEF Unlit
  <2> QED
    BY <1>3, <2>1, <2>2 DEF SendStep, settings
<1>4. CASE ExchangeStep
  <2>1. cmd'.op # "RF_field"
    BY <1>4, SameCommand DEF NoCommand
  <2>2. field' = field
    BY <1>4 DEF ExchangeStep, Obey, settings
  <2> QED
    BY <2>1, <2>2
<1>5. ASSUME NEW done \in BOOLEAN, FailStep(done) PROVE cmd'.op # "RF_field" /\ field' = field
  BY <1>5 DEF FailStep, Fail, Obey, settings, NoCommand
<1> QED
  BY <1>1, <1>2, <1>3, <1>4, <1>5 DEF Progress

LEMMA LightUpIs ==
    /\ LightUp \in Steps /\ LightUp.do = "set" /\ Send(Lighting) \in Steps /\ Send(Lighting).do = "send" /\ Send(Lighting).cmd = Lighting
    /\ Expansion(LightUp) = <<Send(Lighting)>> \o field_led(TRUE) /\ Lighting.op = "RF_field" /\ Lighting.on = TRUE
<1>1. LightUp \in Steps /\ LightUp.do = "set" /\ LightUp.property = "ACTIVATE_FIELD" /\ LightUp.on = TRUE
  BY SetIsStep DEF LightUp, Property, Set
<1>2. Send(Lighting) \in Steps /\ Send(Lighting).do = "send" /\ Send(Lighting).cmd = Lighting
  BY SendIsStep, Sends DEF Lighting, Send
<1>3. Lighting.op = "RF_field" /\ Lighting.on = TRUE
  BY DEF Lighting, RFConfiguration__RF_field
<1>4. Expansion(LightUp) = <<Send(Lighting)>> \o field_led(TRUE)
  BY <1>1 DEF Expansion, set_property_bool, Lighting
<1> QED
  BY <1>1, <1>2, <1>3, <1>4

LEMMA LedSteps == field_led(TRUE) \in Seq(Unlit) /\ field_led(TRUE) \in Seq(Steps)
<1> DEFINE one == Write("P3", {"P31", "P34"}, {"P34"})
           two == Write("P3", {"P32"}, {})
<1>1. one \in Steps /\ two \in Steps
  BY WriteIsStep, SettingsAssumption DEF Register
<1>2. one \in Unlit /\ two \in Unlit
  BY <1>1, Writes DEF Unlit
<1>3. field_led(TRUE) \in {<<one>>, <<two>>, <<>>}
  BY DEF field_led, If
<1>4. field_led(TRUE) \in Seq(Unlit)
  BY <1>2, <1>3, One, None0
<1> QED
  BY <1>4, SeqSub DEF Unlit

(* An ahead step that is replaced, or moves nearer. *)
LEMMA FieldAheadMoves == ASSUME Base, Progress, FieldAhead PROVE Broken' \/ FieldAhead' \/ FieldNext'
<1>1. PICK x \in Seq(Steps), b \in Seq(Unlit) : todo = x \o Cons(LightUp, b)
  BY DEF FieldAhead
<1> DEFINE c == Cons(LightUp, b)
<1>2. b \in Seq(Steps) /\ c \in Seq(Steps)
  BY LightUpIs, ConsIs, SeqSub DEF Unlit
<1>3. CASE x # <<>> \/ pc # "idle"
  <2>1. Expand => Expansion(Step) \in Seq(Steps)
    BY ExpandSteps
  <2>2. Broken' \/ \E y \in Seq(Steps) : todo' = y \o c
    <3>1. todo = x \o c
      BY <1>1
    <3> HIDE DEF c
    <3> QED
      BY <1>2, <1>3, <2>1, <3>1, BeforeMoves
  <2> QED
    BY <2>2 DEF FieldAhead
<1>4. CASE x = <<>> /\ pc = "idle"
  <2>1. todo = c
    <3>1. todo = x \o c
      BY <1>1
    <3> HIDE DEF c
    <3> QED
      BY <1>2, <1>4, <3>1, EmptyJoined
  <2>2. Expand /\ todo' = Expansion(LightUp) \o b
    BY <1>2, <1>4, <2>1, LightUpIs, FirstDone
  <2>3. pc' = "idle"
    BY <1>4, <2>2, ExpandSteps DEF vars
  <2> DEFINE l == field_led(TRUE)
             s == Send(Lighting)
  <2>4. l \in Seq(Unlit) /\ l \in Seq(Steps) /\ s \in Steps /\ todo' = (<<s>> \o l) \o b
    BY <2>2, LedSteps, LightUpIs
  <2> HIDE DEF l, s
  <2>5. (<<s>> \o l) \o b = <<s>> \o (l \o b)
    BY <1>2, <2>4, One, JoinedAssoc
  <2>6. todo' = Cons(s, l \o b) /\ l \o b \in Seq(Unlit)
    BY <2>4, <2>5, Joined DEF Cons
  <2> QED
    BY <2>3, <2>6 DEF FieldNext, s
<1> QED
  BY <1>3, <1>4

LEMMA FieldedMoves == ASSUME Base, Progress, Fielded PROVE Fielded'
<1>1. CASE Broken
  BY <1>1, StaysBroken DEF Fielded
<1>2. CASE FieldAhead
  BY <1>2, FieldAheadMoves DEF Fielded
<1>3. CASE FieldNext
  <2>1. PICK b \in Seq(Unlit) : todo = Cons(Send(Lighting), b)
    BY <1>3 DEF FieldNext
  <2>2. b \in Seq(Steps)
    BY SeqSub DEF Unlit
  <2>3. Step = Send(Lighting) /\ SendStep /\ todo' = b
    BY <1>3, <2>1, <2>2, LightUpIs, FirstDone DEF FieldNext
  <2>4. cmd' = Lighting /\ pc' # "idle"
    BY <2>3, LightUpIs DEF SendStep, pn53x_transceive, After
  <2> QED
    BY <2>3, <2>4 DEF Fielded, FieldSent
<1>4. CASE FieldSent
  <2>1. pc # "idle" /\ cmd = Lighting /\ cmd.op = "RF_field" /\ cmd.on = TRUE /\ todo \in Seq(Unlit)
    BY <1>4, LightUpIs DEF FieldSent
  <2>2. (ExchangeStep /\ todo' = todo) \/ Broken'
    BY <2>1, TodoMoves, InTurn DEF Broken, AtRest
  <2>3. CASE ExchangeStep /\ pc' # "idle"
    <3>1. cmd' = cmd /\ todo' = todo
      BY <2>1, <2>3, CommandKept
    <3> QED
      BY <2>1, <2>3, <3>1 DEF Fielded, FieldSent
  <2>4. CASE ExchangeStep /\ pc' = "idle"
    <3>1. cmd' = NoCommand /\ Obey /\ todo' = todo
      BY <2>1, <2>4, CommandKept
    <3>2. field' = TRUE
      BY <2>1, <3>1 DEF Obey
    <3> QED
      BY <2>1, <3>1, <3>2 DEF Fielded, FieldOn, NoCommand
  <2> QED
    BY <2>2, <2>3, <2>4 DEF Fielded
<1>5. CASE FieldOn
  <2>1. todo # <<>> => Step \in Unlit
    BY <1>5, HeadIn DEF FieldOn, Step
  <2>2. cmd'.op # "RF_field" /\ field' = field
    BY <1>5, <2>1, UnlitDoes DEF FieldOn
  <2>3. todo' \in Seq(Unlit)
    BY <1>5, UnlitStays DEF FieldOn
  <2>4. field' = TRUE
    BY <1>5, <2>2 DEF FieldOn
  <2> QED
    BY <2>2, <2>3, <2>4 DEF Fielded, FieldOn
<1> QED
  BY <1>1, <1>2, <1>3, <1>4, <1>5 DEF Fielded

LEMMA FieldedDone == ASSUME Base, Fielded, AtRest, res = "ok" PROVE field = TRUE
<1>1. ~FieldAhead
  <2> SUFFICES ASSUME NEW x \in Seq(Steps), NEW b \in Seq(Unlit), todo = x \o Cons(LightUp, b) PROVE FALSE
    BY DEF FieldAhead
  <2>1. b \in Seq(Steps)
    BY SeqSub DEF Unlit
  <2> QED
    BY <2>1, LightUpIs, ConsNotEmpty DEF AtRest
<1>2. ~FieldNext
  <2> SUFFICES ASSUME NEW b \in Seq(Unlit), todo = Cons(Send(Lighting), b) PROVE FALSE
    BY DEF FieldNext
  <2>1. b \in Seq(Steps)
    BY SeqSub DEF Unlit
  <2> QED
    BY <2>1, LightUpIs, ConsIs DEF AtRest
<1> QED
  BY <1>1, <1>2 DEF Fielded, FieldSent, FieldOn, AtRest, Broken

(* The progressive field of the LoGO, which follows the field. *)
Dark == {s \in Unlit : ~(s.do = "write" /\ s.reg = "P3")}
LedOn == Write("P3", {"P31", "P34"}, {"P34"})
Bright(v) == "P34" \in v /\ "P31" \notin v
OnP3(c) == c.op \in {"Update", "WriteRegister"} /\ c.reg = "P3"

LedAhead == \E x \in Seq(Steps), b \in Seq(Dark) : todo = x \o Cons(LightUp, b)
LedNext  == \E x \in Seq(Steps), b \in Seq(Dark) : todo = x \o Cons(LedOn, b)
LedSent  == /\ pc # "idle" /\ todo \in Seq(Dark) /\ OnP3(cmd)
            /\ IF cmd.op = "Update" THEN cmd.mask = {"P31", "P34"} /\ cmd.value = {"P34"} ELSE Bright(cmd.value)
LedLit   == Bright(chip["P3"]) /\ ~OnP3(cmd) /\ todo \in Seq(Dark)
Ledded   == Broken \/ dev["model"] # "ASK_LOGO" \/ LedAhead \/ LedNext \/ LedSent \/ LedLit

LEMMA DarkMakes ==
    ASSUME NEW s \in Dark, s.do \in {"set", "tx"} PROVE Makes(s) \subseteq Dark
<1>0. s \in Unlit /\ s \in Steps
  BY DEF Dark, Unlit
<1>1. Makes(s) \subseteq Unlit
  BY <1>0, UnlitMakes
<1> SUFFICES ASSUME NEW m \in Makes(s) PROVE ~(m.do = "write" /\ m.reg = "P3")
  BY <1>1 DEF Dark
<1>2. CASE s.do = "tx"
  BY <1>2, Writes, Keeps DEF Makes
<1>3. CASE s.do = "set"
  <2>1. s.property \in Property /\ s.property # "ACTIVATE_FIELD"
    BY <1>0, <1>3, StepKinds DEF Unlit
  <2>2. ASSUME m \in WritesOf(s.property, s.on) PROVE m.reg # "P3"
    BY <2>1, <2>2, Writes DEF WritesOf
  <2>3. ASSUME m \in KeepsOf(s.property, s.on) PROVE m.do = "keep"
    BY <2>1, <2>3, Keeps DEF KeepsOf
  <2>4. ASSUME m \in SendsOf(s.property, s.on) PROVE m.do = "send"
    BY <2>1, <2>4 DEF SendsOf, Send
  <2> QED
    BY <1>3, <2>2, <2>3, <2>4 DEF Makes
<1> QED
  BY <1>0, <1>2, <1>3

LEMMA DarkStays == ASSUME Base, Progress, todo \in Seq(Dark) PROVE todo' \in Seq(Dark)
<1>0. Dark \subseteq Steps
  BY DEF Dark, Unlit
<1>1. Expand => Expansion(Step) \in Seq(Dark)
  <2> SUFFICES ASSUME Expand PROVE Expansion(Step) \in Seq(Dark)
    OBVIOUS
  <2>1. Step \in Steps /\ Step.do \in {"set", "tx"} /\ Step \in Dark
    BY ExpandSteps, HeadIn DEF Expand, Step
  <2>2. Makes(Step) \subseteq Dark
    BY <2>1, DarkMakes
  <2> QED
    BY <2>1, <2>2, ExpandsIn DEF Base
<1> QED
  BY <1>0, <1>1, KindStays

LEMMA LedOnIs ==
    /\ LedOn \in Steps /\ LedOn.do = "write" /\ LedOn.reg = "P3" /\ LedOn.mask = {"P31", "P34"} /\ LedOn.value = {"P34"}
    /\ LedOn.mask # Full /\ "P3" \in DirectRegister /\ "P3" \notin CachedRegister
    /\ dev["model"] = "ASK_LOGO" => field_led(TRUE) = <<LedOn>>
<1>1. LedOn \in Steps
  BY WriteIsStep, SettingsAssumption DEF LedOn, Register
<1>2. {"P31", "P34"} # Full
  BY SettingsAssumption DEF Full
<1>3. "P3" \in DirectRegister /\ "P3" \notin CachedRegister
  BY SettingsAssumption, RegistersAssumption
<1>4. dev["model"] = "ASK_LOGO" => field_led(TRUE) = <<LedOn>>
  BY DEF field_led, LedOn
<1>5. LedOn.do = "write" /\ LedOn.reg = "P3" /\ LedOn.mask = {"P31", "P34"} /\ LedOn.value = {"P34"}
  BY Writes DEF LedOn
<1>6. LedOn.mask # Full
  BY <1>2, <1>5
<1> QED
  BY <1>1, <1>3, <1>4, <1>5, <1>6

LEMMA LedAheadMoves == ASSUME Base, Progress, dev["model"] = "ASK_LOGO", LedAhead PROVE Broken' \/ LedAhead' \/ LedNext'
<1>1. PICK x \in Seq(Steps), b \in Seq(Dark) : todo = x \o Cons(LightUp, b)
  BY DEF LedAhead
<1> DEFINE c == Cons(LightUp, b)
<1>2. b \in Seq(Steps) /\ c \in Seq(Steps)
  BY LightUpIs, ConsIs, SeqSub DEF Dark, Unlit
<1>3. CASE x # <<>> \/ pc # "idle"
  <2>1. Expand => Expansion(Step) \in Seq(Steps)
    BY ExpandSteps
  <2>2. Broken' \/ \E y \in Seq(Steps) : todo' = y \o c
    <3>1. todo = x \o c
      BY <1>1
    <3> HIDE DEF c
    <3> QED
      BY <1>2, <1>3, <2>1, <3>1, BeforeMoves
  <2> QED
    BY <2>2 DEF LedAhead
<1>4. CASE x = <<>> /\ pc = "idle"
  <2>1. todo = c
    <3>1. todo = x \o c
      BY <1>1
    <3> HIDE DEF c
    <3> QED
      BY <1>2, <1>4, <3>1, EmptyJoined
  <2>2. Expand /\ todo' = Expansion(LightUp) \o b
    BY <1>2, <1>4, <2>1, LightUpIs, FirstDone
  <2> DEFINE l == LedOn
             s == Send(Lighting)
  <2>3. l \in Steps /\ s \in Steps /\ todo' = (<<s>> \o <<l>>) \o b
    BY <2>2, LightUpIs, LedOnIs
  <2> HIDE DEF l, s
  <2>4. <<s>> \in Seq(Steps) /\ <<l>> \in Seq(Steps)
    BY <2>3, One
  <2>5. (<<s>> \o <<l>>) \o b = <<s>> \o (<<l>> \o b)
    BY <1>2, <2>4, JoinedAssoc
  <2>6. todo' = <<s>> \o Cons(l, b)
    BY <2>3, <2>5 DEF Cons
  <2> QED
    BY <2>4, <2>6 DEF LedNext, l
<1> QED
  BY <1>3, <1>4

LEMMA LedNextMoves == ASSUME Base, Progress, LedNext PROVE Broken' \/ LedNext' \/ LedSent'
<1>1. PICK x \in Seq(Steps), b \in Seq(Dark) : todo = x \o Cons(LedOn, b)
  BY DEF LedNext
<1> DEFINE c == Cons(LedOn, b)
<1>2. b \in Seq(Steps) /\ c \in Seq(Steps)
  BY LedOnIs, ConsIs, SeqSub DEF Dark, Unlit
<1>3. CASE x # <<>> \/ pc # "idle"
  <2>1. Expand => Expansion(Step) \in Seq(Steps)
    BY ExpandSteps
  <2>2. Broken' \/ \E y \in Seq(Steps) : todo' = y \o c
    <3>1. todo = x \o c
      BY <1>1
    <3> HIDE DEF c
    <3> QED
      BY <1>2, <1>3, <2>1, <3>1, BeforeMoves
  <2> QED
    BY <2>2 DEF LedNext
<1>4. CASE x = <<>> /\ pc = "idle"
  <2>1. todo = c
    <3>1. todo = x \o c
      BY <1>1
    <3> HIDE DEF c
    <3> QED
      BY <1>2, <1>4, <3>1, EmptyJoined
  <2>2. Step = LedOn /\ WriteStep /\ todo' = b
    BY <1>2, <1>4, <2>1, LedOnIs, FirstDone
  <2>3. pn53x_write_direct("P3", {"P31", "P34"}, {"P34"})
    BY <2>2, LedOnIs, NotedStep
  <2>4. pc' # "idle" /\ cmd' = [op |-> "Update", reg |-> "P3", mask |-> {"P31", "P34"}, value |-> {"P34"}]
    BY <2>3, LedOnIs DEF pn53x_write_direct, pn53x_transceive, After
  <2> QED
    BY <2>2, <2>4 DEF LedSent, OnP3
<1> QED
  BY <1>3, <1>4

(* Only a command to P3 changes P3. *)
LEMMA P3Kept ==
    ASSUME Base, Progress, ~OnP3(cmd), pc = "idle" /\ todo # <<>> => Step \in Dark
    PROVE  Broken' \/ (chip'["P3"] = chip["P3"] /\ ~OnP3(cmd'))
<1>0. "P3" \in Register /\ "P3" \notin CachedRegister /\ "P3" \in DOMAIN chip
  BY LedOnIs DEF Register, Base, Inv, TypeOK
<1>1. CASE Expand \/ KeepStep
  BY <1>1 DEF Expand, KeepStep, vars
<1>2. CASE WriteStep
  <2>1. Step \in Dark /\ Step.reg # "P3"
    BY <1>2, InTurn DEF WriteStep, Dark
  <2>2. CASE cmd' = cmd /\ chip' = chip
    BY <2>2
  <2>3. CASE pn53x_write_direct(Step.reg, Step.mask, Step.value)
    BY <2>1, <2>3 DEF pn53x_write_direct, pn53x_transceive, OnP3
  <2> QED
    BY <1>2, <2>2, <2>3, NotedStep
<1>3. CASE SendStep
  <2>1. Step.cmd \in Command
    BY <1>3, StepIn, StepKinds, Sends DEF SendStep
  <2>2. cmd' = Step.cmd /\ chip' = chip
    BY <1>3 DEF SendStep, pn53x_transceive
  <2> QED
    BY <2>1, <2>2, RegistersAssumption DEF OnP3
<1>4. CASE ExchangeStep
  <2>1. CASE ReadBack
    BY <2>1 DEF ReadBack
  <2>2. CASE WriteBack
    BY <1>0, <2>2 DEF WriteBack, Written, Whole
  <2>3. CASE ReadDirect
    BY <2>3 DEF ReadDirect, OnP3
  <2>4. CASE Answer
    <3>1. Executed["P3"] = chip["P3"]
      BY <1>0 DEF Executed, OnP3
    <3> QED
      BY <2>4, <3>1 DEF Answer, NoCommand, OnP3
  <2> QED
    BY <1>4, <2>1, <2>2, <2>3, <2>4 DEF ExchangeStep
<1>5. ASSUME NEW done \in BOOLEAN, FailStep(done) PROVE Broken'
  BY <1>5 DEF FailStep, Fail, Broken, AtRest
<1> QED
  BY <1>1, <1>2, <1>3, <1>4, <1>5 DEF Progress

LEMMA LedSentMoves == ASSUME Base, Progress, LedSent PROVE Broken' \/ LedSent' \/ LedLit'
<1>0. "P3" \in DOMAIN chip /\ cmd.op # "None" /\ cmd.reg = "P3"
  BY LedOnIs DEF Register, Base, Inv, TypeOK, LedSent, OnP3
<1>1. (ExchangeStep /\ todo' = todo) \/ Broken'
  BY TodoMoves, InTurn DEF Broken, AtRest, LedSent
<1>2. CASE ExchangeStep /\ todo' = todo
  <2>1. CASE ReadBack \/ WriteBack
    BY <1>2, <2>1 DEF ReadBack, WriteBack, After, LedSent
  <2>2. CASE ReadDirect
    <3>1. cmd.op = "Update" /\ cmd.mask = {"P31", "P34"} /\ cmd.value = {"P34"}
      BY <2>2 DEF ReadDirect, LedSent
    <3>2. Bright(New)
      BY <3>1 DEF New, Masked, Bright
    <3>3. cmd' = [op |-> "WriteRegister", reg |-> "P3", value |-> New] /\ pc' # "idle"
      BY <1>0, <2>2 DEF ReadDirect
    <3>4. OnP3(cmd') /\ cmd'.op # "Update" /\ cmd'.value = New
      BY <3>3 DEF OnP3
    <3> QED
      BY <1>2, <3>2, <3>3, <3>4 DEF LedSent
  <2>3. CASE Answer
    <3>1. Bright(chip'["P3"])
      <4>1. CASE cmd.op = "Update"
        <5>1. New = chip["P3"] /\ chip' = chip
          BY <1>0, <2>3, <4>1 DEF Answer, Executed
        <5>2. Bright(New)
          BY <4>1 DEF New, Masked, Bright, LedSent
        <5> QED
          BY <5>1, <5>2
      <4>2. CASE cmd.op # "Update"
        <5>1. cmd.op = "WriteRegister" /\ Bright(cmd.value)
          BY <4>2 DEF LedSent, OnP3
        <5> QED
          BY <1>0, <2>3, <5>1 DEF Answer, Executed
      <4> QED
        BY <4>1, <4>2
    <3>2. cmd' = NoCommand
      BY <2>3 DEF Answer
    <3>3. ~OnP3(cmd')
      BY <3>2 DEF NoCommand, OnP3
    <3> QED
      BY <1>2, <3>1, <3>3 DEF LedLit, LedSent
  <2> QED
    BY <1>2, <2>1, <2>2, <2>3 DEF ExchangeStep
<1> QED
  BY <1>1, <1>2

LEMMA LeddedMoves == ASSUME Base, Progress, Ledded PROVE Ledded'
<1>0. dev'["model"] = dev["model"]
  <2>1. KeepStep => Step.name # "model"
    BY StepIn, StepKinds DEF KeepStep, KeepSteps, FlagSteps, Flag
  <2>2. "model" \in DOMAIN dev
    BY DEF Base, DevType
  <2> QED
    BY <2>1, <2>2, CopyKept
<1>1. CASE Broken
  BY <1>1, StaysBroken DEF Ledded
<1>2. CASE dev["model"] # "ASK_LOGO"
  BY <1>0, <1>2 DEF Ledded
<1>3. CASE dev["model"] = "ASK_LOGO" /\ LedAhead
  BY <1>3, LedAheadMoves DEF Ledded
<1>4. CASE LedNext
  BY <1>4, LedNextMoves DEF Ledded
<1>5. CASE LedSent
  BY <1>5, LedSentMoves DEF Ledded
<1>6. CASE LedLit
  <2>1. todo # <<>> => Step \in Dark
    BY <1>6, HeadIn DEF LedLit, Step
  <2>2. Broken' \/ (chip'["P3"] = chip["P3"] /\ ~OnP3(cmd'))
    BY <1>6, <2>1, P3Kept DEF LedLit
  <2>3. todo' \in Seq(Dark)
    BY <1>6, DarkStays DEF LedLit
  <2> QED
    BY <1>6, <2>2, <2>3 DEF Ledded, LedLit
<1> QED
  BY <1>1, <1>2, <1>3, <1>4, <1>5, <1>6 DEF Ledded

LEMMA LeddedDone == ASSUME Base, Ledded, AtRest, res = "ok" PROVE dev["model"] = "ASK_LOGO" => Bright(chip["P3"])
<1>1. ~LedAhead
  <2> SUFFICES ASSUME NEW x \in Seq(Steps), NEW b \in Seq(Dark), todo = x \o Cons(LightUp, b) PROVE FALSE
    BY DEF LedAhead
  <2>1. b \in Seq(Steps)
    BY SeqSub DEF Dark, Unlit
  <2> QED
    BY <2>1, LightUpIs, ConsNotEmpty DEF AtRest
<1>2. ~LedNext
  <2> SUFFICES ASSUME NEW x \in Seq(Steps), NEW b \in Seq(Dark), todo = x \o Cons(LedOn, b) PROVE FALSE
    BY DEF LedNext
  <2>1. b \in Seq(Steps)
    BY SeqSub DEF Dark, Unlit
  <2> QED
    BY <2>1, LedOnIs, ConsNotEmpty DEF AtRest
<1> QED
  BY <1>1, <1>2 DEF Ledded, LedSent, LedLit, AtRest, Broken

(* The call begins with the field. *)
LEMMA FieldStart == ASSUME Start(Program(InitCall)) PROVE Fielded' /\ Ledded'
<1> DEFINE q == Cons(Set("INFINITE_SELECT", TRUE), AfterTries)
           off == Set("ACTIVATE_FIELD", FALSE)
<1>1. \A prop \in Property \ {"ACTIVATE_FIELD"}, on \in BOOLEAN : Set(prop, on) \in Dark
  BY SetIsStep DEF Dark, Unlit, Set
<1>2. reset_settings \in Seq(Dark) /\ <<Initiating>> \in Seq(Dark)
  <2>1. ToZero \in Dark /\ Zeroing \in Dark /\ Initiating \in Dark
    BY ResetKinds, InitIs, Writes DEF Dark, Unlit, Initiating
  <2>2. /\ Set("HANDLE_CRC", TRUE) \in Dark /\ Set("HANDLE_PARITY", TRUE) \in Dark /\ Set("EASY_FRAMING", TRUE) \in Dark
        /\ Set("ACTIVATE_CRYPTO1", FALSE) \in Dark
    BY <1>1 DEF Property
  <2> QED
    BY <2>1, <2>2, Six, One DEF reset_settings, ToZero, Zeroing
<1>3. AfterTries \in Seq(Dark)
  <2>1. /\ Set("AUTO_ISO14443_4", TRUE) \in Dark /\ Set("FORCE_ISO14443_A", TRUE) \in Dark /\ Set("FORCE_SPEED_106", TRUE) \in Dark
        /\ Set("ACCEPT_INVALID_FRAMES", FALSE) \in Dark /\ Set("ACCEPT_MULTIPLE_FRAMES", FALSE) \in Dark
    BY <1>1 DEF Property
  <2>2. pn53x_initiator_init \in Seq(Dark)
    BY <1>2, Joined DEF pn53x_initiator_init, Initiating
  <2> QED
    BY <2>1, <2>2, Five, Joined DEF AfterTries
<1>4. q \in Seq(Dark)
  <2>1. Set("INFINITE_SELECT", TRUE) \in Dark
    BY <1>1 DEF Property
  <2> QED
    BY <1>3, <2>1, ConsIs
<1>5. q \in Seq(Unlit) /\ q \in Seq(Steps) /\ off \in Steps
  <2>1. Dark \subseteq Unlit /\ Dark \subseteq Steps
    BY DEF Dark, Unlit
  <2>2. off \in Steps
    BY SetIsStep DEF Property
  <2> QED
    BY <1>4, <2>1, <2>2, SeqSub
<1>6. todo' = <<off, LightUp>> \o q
  BY TriesThird DEF Start, InitCall, BeforeTries, LightUp
<1> HIDE DEF q, off
<1>7. <<off, LightUp>> \o q = Cons(off, Cons(LightUp, q))
  BY <1>5, LightUpIs, TwoJoined
<1>8. todo' = <<off>> \o Cons(LightUp, q) /\ <<off>> \in Seq(Steps)
  BY <1>5, <1>6, <1>7, One DEF Cons
<1>9. FieldAhead' /\ LedAhead'
  BY <1>4, <1>5, <1>8 DEF FieldAhead, LedAhead
<1> QED
  BY <1>9 DEF Fielded, Ledded

-----------------------------------------------------------------------------
(* What nfc_initiator_init asks for is done or still to be done. *)
Initiated ==
    call.name = "nfc_initiator_init" =>
        /\ Broken \/ Pending(TRUE)
        /\ todo \in Seq(Setup)
        /\ forgotten \/ Broken \/ \A i \in Wiped : Gone(i)
        /\ Broken \/ \A f \in Raised : Up(f)
        /\ Fielded /\ Ledded

(* The invariant of the settings: the four copies of registers, the        *)
(* parameters, and nfc_initiator_init.                                     *)
SInv == DInv /\ Named /\ (\A r \in Copied : Follows(r)) /\ Reckoned /\ Initiated

LEMMA SInvInit == MCInit => SInv
<1> SUFFICES ASSUME MCInit PROVE SInv
  OBVIOUS
<1>1. SettingsInit
  BY DEF MCInit, DeviceInit
<1>2. Named
  BY DEF MCInit, DeviceInit, DeviceLent, Named
<1>3. Initiated
  BY <1>1 DEF SettingsInit, Open, Initiated
<1> QED
  BY <1>1, <1>2, <1>3, DInvInit, FollowsInit, ReckonedInit DEF SInv

LEMMA InitiatedMoves == ASSUME Base, Progress, Initiated PROVE Initiated'
<1> SUFFICES ASSUME call'.name = "nfc_initiator_init"
             PROVE  /\ Broken' \/ Pending(TRUE)'
                    /\ todo' \in Seq(Setup)
                    /\ forgotten' \/ Broken' \/ \A i \in Wiped : Gone(i)'
                    /\ Broken' \/ \A f \in Raised : Up(f)'
                    /\ Fielded' /\ Ledded'
  BY DEF Initiated
<1>0. call.name = "nfc_initiator_init" /\ (forgotten => forgotten')
  BY Forgetful
<1>1. Broken \/ Pending(TRUE)
  BY <1>0 DEF Initiated
<1>2. todo \in Seq(Setup)
  BY <1>0 DEF Initiated
<1>3. forgotten \/ Broken \/ \A i \in Wiped : Gone(i)
  BY <1>0 DEF Initiated
<1>4. Broken \/ \A f \in Raised : Up(f)
  BY <1>0 DEF Initiated
<1>5. Fielded /\ Ledded
  BY <1>0 DEF Initiated
<1>6. Broken' \/ Pending(TRUE)'
  BY <1>1, StaysBroken, PendingMoves
<1>7. todo' \in Seq(Setup)
  BY <1>2, SetupStays
<1>8. forgotten' \/ Broken' \/ \A i \in Wiped : Gone(i)'
  BY <1>0, <1>2, <1>3, StaysBroken, GoneMoves
<1>9. Broken' \/ \A f \in Raised : Up(f)'
  BY <1>2, <1>4, StaysBroken, UpMoves
<1>10. Fielded' /\ Ledded'
  BY <1>5, FieldedMoves, LeddedMoves
<1> QED
  BY <1>6, <1>7, <1>8, <1>9, <1>10

LEMMA InitiatedStart == ASSUME Base, Begins PROVE Initiated'
<1>1. PICK steps \in Seq(Steps) : Start(steps) /\ (call'.name = "nfc_initiator_init" => steps = Program(InitCall))
  BY DEF Begins
<1> SUFFICES ASSUME Start(Program(InitCall)) PROVE Initiated'
  BY <1>1 DEF Initiated
<1>2. todo' \in Seq(Setup) /\ (\A i \in Wiped : Gone(i)') /\ (\A f \in Raised : Up(f)')
  BY InitStart
<1>3. Fielded' /\ Ledded'
  BY FieldStart
<1> DEFINE a == BeforeTries
           b == AfterTries
<1>4. a \in Seq(Quiet) /\ b \in Seq(Quiet)
  BY QuietInit
<1>5. Start(a \o Cons(Set("INFINITE_SELECT", TRUE), b))
  BY TriesThird DEF InitCall
<1> HIDE DEF a, b
<1>6. Pending(TRUE)'
  BY <1>4, <1>5, TriesStart
<1> QED
  BY <1>2, <1>3, <1>6 DEF Initiated

(* Nothing of what they speak of has changed. *)
LEMMA SameSettings ==
    ASSUME Same
    PROVE  /\ \A r \in Copied : Follows(r) => Follows(r)'
           /\ Reckoned => Reckoned'
           /\ Initiated => Initiated'
<1>1. /\ UNCHANGED <<chip, wb_data, wb_mask, wb_trigged, pc, cmd, res, faults, stranded>>
      /\ UNCHANGED <<dev, parameters, retries, field, todo, call>>
  BY DEF Same, vars, queue, settings
<1>2. (forgotten => forgotten') /\ (unsure => unsure')
  <2>1. forgotten' = forgotten /\ unsure' = unsure
    BY DEF Same
  <2> QED
    BY <2>1
<1>3. Asked' = Asked
  BY <1>1 DEF Asked, Masked
<1>4. (Broken' <=> Broken) /\ (Pending(TRUE) => Pending(TRUE)')
  <2>1. UNCHANGED <<vars, dev, settings, todo>>
    BY DEF Same
  <2> QED
    BY <2>1, SameTries
<1>5. ASSUME NEW r \in Copied, Follows(r) PROVE Follows(r)'
  <2>1. Calm(r) => Calm(r)'
    BY <1>1, <1>3 DEF Calm, Agree
  <2>2. Writing(r) => Writing(r)'
    BY <1>1 DEF Writing
  <2>3. Marked(r) => Marked(r)'
    BY <1>1, <1>3 DEF Marked
  <2>4. FirstTime(r) => FirstTime(r)'
    BY <1>1 DEF FirstTime
  <2>5. Resetting => Resetting'
    BY <1>1, <1>3 DEF Resetting, Agree
  <2>6. Reset => Reset'
    BY <1>1 DEF Reset
  <2> QED
    BY <1>1, <1>2, <1>4, <1>5, <2>1, <2>2, <2>3, <2>4, <2>5, <2>6 DEF Follows
<1>6. ASSUME Reckoned PROVE Reckoned'
  <2>1. Sure => Sure'
    BY <1>1 DEF Sure, Believed, AutoIn
  <2>2. AutoOnly => AutoOnly'
    BY <1>1 DEF AutoOnly, Believed
  <2>3. AutoToo => AutoToo'
    BY <1>1 DEF AutoToo
  <2>4. ToAsk => ToAsk'
    BY <1>1 DEF ToAsk, AutoIn
  <2>5. Posed => Posed'
    BY <1>1 DEF Posed, AutoIn
  <2>6. Heard => Heard'
    BY <1>1 DEF Heard, AutoIn
  <2>7. Greeted => Greeted'
    BY <1>1 DEF Greeted, Believed
  <2> QED
    BY <1>2, <1>6, <2>1, <2>2, <2>3, <2>4, <2>5, <2>6, <2>7 DEF Reckoned
<1>7. ASSUME Initiated PROVE Initiated'
  <2>1. \A i : Gone(i) => Gone(i)'
    BY <1>1, <1>3 DEF Gone
  <2>2. \A f : Up(f) => Up(f)'
    BY <1>1 DEF Up
  <2>3. Fielded => Fielded'
    <3>1. FieldAhead => FieldAhead'
      BY <1>1 DEF FieldAhead
    <3>2. FieldNext => FieldNext'
      BY <1>1 DEF FieldNext
    <3>3. FieldSent => FieldSent'
      BY <1>1 DEF FieldSent
    <3>4. FieldOn => FieldOn'
      BY <1>1 DEF FieldOn
    <3> QED
      BY <1>4, <3>1, <3>2, <3>3, <3>4 DEF Fielded
  <2>4. Ledded => Ledded'
    <3>1. LedAhead => LedAhead'
      BY <1>1 DEF LedAhead
    <3>2. LedNext => LedNext'
      BY <1>1 DEF LedNext
    <3>3. LedSent => LedSent'
      BY <1>1 DEF LedSent
    <3>4. LedLit => LedLit'
      BY <1>1 DEF LedLit
    <3> QED
      BY <1>1, <1>4, <3>1, <3>2, <3>3, <3>4 DEF Ledded
  <2> QED
    BY <1>1, <1>2, <1>4, <1>7, <2>1, <2>2, <2>3, <2>4 DEF Initiated
<1> QED
  BY <1>5, <1>6, <1>7

LEMMA SInvNext == ASSUME SInv, [DeviceStep \/ TargetStep]_<<part, devvars, targets>> PROVE SInv'
<1>0. DInv /\ Base /\ Named /\ (\A r \in Copied : Follows(r)) /\ Reckoned /\ Initiated
  BY DEF SInv, DInv
<1>1. DInv'
  BY <1>0, DInvNext
<1>2. Named' /\ (Progress \/ Begins \/ Same)
  BY <1>0, StepIs
<1>3. CASE Progress
  <2>1. \A r \in Copied : Follows(r)'
    BY <1>0, <1>3, FollowsMoves
  <2>2. Reckoned' /\ Initiated'
    BY <1>0, <1>3, ReckonedMoves, InitiatedMoves
  <2> QED
    BY <1>1, <1>2, <2>1, <2>2 DEF SInv
<1>4. CASE Begins
  <2>1. PICK steps \in Seq(Steps) : /\ Start(steps) /\ (call = Open => res = "ok")
                                    /\ steps \in Seq(Usual) \/ steps = Program(InitCall)
    BY <1>4 DEF Begins
  <2>2. \A r \in Copied : Follows(r)'
    BY <1>0, <2>1, FollowsStart
  <2>3. Reckoned'
    BY <1>0, <2>1, ReckonedStart
  <2>4. Initiated'
    BY <1>0, <1>4, InitiatedStart
  <2> QED
    BY <1>1, <1>2, <2>2, <2>3, <2>4 DEF SInv
<1>5. CASE Same
  BY <1>0, <1>1, <1>2, <1>5, SameSettings DEF SInv
<1> QED
  BY <1>2, <1>3, <1>4, <1>5

LEMMA SaysTrue == ASSUME SInv PROVE CopiesTrue
<1> SUFFICES ASSUME AtRest, Opened PROVE (~forgotten => RegistersTrue) /\ (~unsure => ParametersTrue)
  BY DEF CopiesTrue
<1>0. Base /\ DevType /\ (\A r \in Copied : Follows(r)) /\ Reckoned /\ Initiated
  BY DEF SInv, DInv, Base
<1>1. ~(call = Open /\ Broken)
  BY DEF Opened, Broken
<1>2. ASSUME ~forgotten PROVE RegistersTrue
  <2>1. \A r \in Copied : Agree(r)
    BY <1>0, <1>1, <1>2, FollowsDone DEF Calm
  <2>2. Agree("TxMode") /\ Agree("RxMode") /\ Agree("ManualRCV") /\ Agree("BitFraming")
    BY <2>1 DEF Copied
  <2>3. \A r \in {"TxMode", "RxMode"} : "crc" \in Asked[r] <=> dev["bCrc"] = TRUE
    BY <2>2 DEF Agree, BitOf, CopyOf, Says
  <2>4. "parity_disable" \in Asked["ManualRCV"] <=> dev["bPar"] = FALSE
    BY <2>2 DEF Agree, BitOf, CopyOf, Says
  <2>5. "tx_last_bits" \in Asked["BitFraming"] <=> dev["ui8TxBits"] # 0
    BY <2>2 DEF Agree, BitOf, CopyOf, Says
  <2>6. dev["bCrc"] \in BOOLEAN /\ dev["bPar"] \in BOOLEAN
    BY <1>0 DEF DevType, Flag
  <2> QED
    BY <2>3, <2>4, <2>5, <2>6 DEF RegistersTrue
<1>3. ASSUME ~unsure PROVE ParametersTrue
  <2>1. Sure
    BY <1>0, <1>3, ReckonedDone
  <2>2. dev["ui8Parameters"] = parameters /\ (dev["bAutoIso14443_4"] = TRUE => AUTO_RATS \in parameters)
    BY <2>1 DEF Sure, Believed, AutoIn
  <2>3. ASSUME call.name = "nfc_initiator_init", res = "ok" PROVE retries = "forever"
    <3>1. Pending(TRUE)
      BY <1>0, <2>3 DEF Initiated, Broken
    <3> QED
      BY <3>1, PendingDone DEF Tried, Tries
  <2>4. dev["bAutoIso14443_4"] \in BOOLEAN
    BY <1>0 DEF DevType, Flag
  <2> QED
    BY <2>2, <2>3, <2>4 DEF ParametersTrue
<1> QED
  BY <1>2, <1>3

LEMMA SettlesTrue == ASSUME SInv PROVE InitSettles
<1> SUFFICES ASSUME faults = 0, call.name = "nfc_initiator_init", AtRest, res = "ok" PROVE Documented
  BY DEF InitSettles
<1>0. Base /\ DevType /\ Initiated /\ CopiesTrue
  BY SaysTrue DEF SInv, DInv, Base
<1>1. ~forgotten /\ ~unsure /\ Opened /\ ~Broken
  BY <1>0 DEF Base, Opened, Broken
<1>2. RegistersTrue /\ ParametersTrue
  BY <1>0, <1>1 DEF CopiesTrue
<1>3. \A G : ~Has(todo, G)
  BY DEF AtRest, Has
<1>4. \A i \in Wiped : i.bit \notin Asked[i.reg]
  BY <1>0, <1>1, <1>3 DEF Initiated, Gone
<1>5. \A f \in Raised : dev[f] = TRUE
  BY <1>0, <1>1, <1>3 DEF Initiated, Up
<1>6. /\ "framing" \notin Asked["TxMode"] /\ "speed" \notin Asked["TxMode"]
      /\ "framing" \notin Asked["RxMode"] /\ "speed" \notin Asked["RxMode"]
      /\ "no_error" \notin Asked["RxMode"] /\ "multiple" \notin Asked["RxMode"] /\ "crypto1" \notin Asked["Status2"]
  <2>1. \A reg, b : Wipe(reg, b).reg = reg /\ Wipe(reg, b).bit = b
    BY DEF Wipe
  <2> QED
    BY <1>4, <2>1 DEF Wiped
<1>7. dev["bCrc"] = TRUE /\ dev["bPar"] = TRUE /\ dev["bEasyFraming"] = TRUE /\ dev["bAutoIso14443_4"] = TRUE
  BY <1>5 DEF Raised
<1>8. (\A r \in {"TxMode", "RxMode"} : "crc" \in Asked[r]) /\ "parity_disable" \notin Asked["ManualRCV"]
  BY <1>2, <1>7 DEF RegistersTrue
<1>9. AUTO_RATS \in parameters /\ retries = "forever"
  BY <1>2, <1>7 DEF ParametersTrue
<1>10. field = TRUE
  BY <1>0, FieldedDone DEF Initiated
<1>11. dev["model"] = "ASK_LOGO" => "P34" \in chip["P3"] /\ "P31" \notin chip["P3"]
  <2>1. dev["model"] = "ASK_LOGO" => Bright(chip["P3"])
    BY <1>0, LeddedDone DEF Initiated
  <2> QED
    BY <2>1 DEF Bright
<1>12. \A r \in {"TxMode", "RxMode"} : "crc" \in Asked[r] /\ Asked[r] \cap {"framing", "speed"} = {}
  BY <1>6, <1>8
<1>13. Asked["RxMode"] \cap {"no_error", "multiple"} = {}
  BY <1>6
<1>14. dev.bEasyFraming /\ field
  BY <1>7, <1>10
<1> QED
  BY <1>6, <1>8, <1>9, <1>11, <1>12, <1>13, <1>14 DEF Documented

(* Between two calls the copies of libnfc say what the chip's registers and *)
(* parameters are or will be at the next command, unless the exchange that *)
(* was to change one was lost; and nfc_initiator_init leaves the device as *)
(* its documentation says, in whatever state the chip was found.           *)
THEOREM SettingsTrue == MCSpec => []SettingsKnown
<1>1. SInv => SettingsKnown
  BY SaysTrue, SettlesTrue DEF SettingsKnown
<1>2. SInv /\ [DeviceStep \/ TargetStep]_<<part, devvars, targets>> => SInv'
  BY SInvNext
<1> QED
  BY SInvInit, <1>1, <1>2, PTL DEF MCSpec

-----------------------------------------------------------------------------
(* The targets. *)

TargetTypes ==
    /\ near \in SUBSET Target
    /\ selected \in Target \cup {None} /\ current_target \in Target \cup {None}
    /\ bInfiniteSelect \in BOOLEAN /\ saved \in BOOLEAN /\ tries \in {"forever", "few"}
    /\ lost \in Nat /\ asks \in Nat /\ failed \in BOOLEAN /\ mistaken \in BOOLEAN
    /\ asks > 0 <=> asking # "none"

(* What is known of the target in hand: until a listing has failed, the chip *)
(* has selected none or the one of current_target, and only that one is    *)
(* pinged.                                                                 *)
InHand ==
    /\ exchange # "idle" => asking # "none"
    /\ asking # "none" => near \subseteq seen
    /\ ~mistaken /\ current_target # None => selected \in {None, current_target}
    /\ exchange \in {"ping", "diagnose"} => asking = "is_present" /\ current_target # None
    /\ exchange \in {"idle", "restore"} /\ asking = "is_present" /\ ret = "SUCCESS" /\ ~mistaken =>
          current_target # None /\ current_target \in seen

(* Where the copy of the number of tries is what the call found, and where *)
(* the chip has the copy.                                                  *)
InStep ==
    /\ asking \notin T!Setters => bInfiniteSelect = saved \/ asking = "none"
    /\ exchange \in {"end", "auto", "ping", "diagnose", "release", "restore"} => bInfiniteSelect = saved
    /\ exchange = "deselect" /\ asking # "list" => bInfiniteSelect = saved
    /\ exchange = "idle" /\ asking # "none" /\ ~failed => bInfiniteSelect = saved
    /\ exchange \notin {"set", "restore"} /\ lost = 0 => (tries = "forever" <=> bInfiniteSelect)

TargetsInv == TargetTypes /\ InHand /\ InStep

LEMMA TargetsInit == T!Init => TargetsInv
<1> SUFFICES ASSUME T!Init PROVE TargetsInv
  OBVIOUS
<1>1. TargetTypes
  <2>1. asks \in Nat /\ lost \in Nat /\ (asks > 0 <=> asking # "none")
    BY DEF T!Init
  <2> QED
    BY <2>1, Zenon DEF T!Init, TargetTypes
<1>2. InHand
  BY DEF T!Init, InHand
<1>3. InStep
  BY Zenon DEF T!Init, InStep
<1> QED
  BY <1>1, <1>2, <1>3 DEF TargetsInv

LEMMA Entered ==
    ASSUME TargetsInv, NEW name, T!Enter(name), name # "none"
    PROVE  /\ exchange = "idle" /\ asks \in Nat /\ asks' = asks + 1 /\ asking' = name
           /\ near' = near /\ seen' = near /\ selected' = selected /\ tries' = tries /\ lost' = lost
           /\ mistaken' = mistaken /\ failed' = FALSE /\ ret' = "none" /\ saved' = bInfiniteSelect
           /\ asks' > 0 /\ asks' \in Nat
<1>1. asks \in Nat
  BY DEF TargetsInv, TargetTypes
<1>2. asks' = asks + 1
  BY DEF T!Enter
<1>3. asks' > 0 /\ asks' \in Nat
  BY <1>1, <1>2
<1> QED
  BY <1>1, <1>2, <1>3 DEF T!Enter

LEMMA EnteredInv ==
    ASSUME TargetsInv, NEW name, T!Enter(name), name # "none", exchange' # "idle",
           current_target' \in {None, current_target}, bInfiniteSelect' \in BOOLEAN,
           exchange' \in {"ping", "diagnose"} => name = "is_present" /\ current_target' # None,
           exchange' = "set" \/ bInfiniteSelect' = bInfiniteSelect,
           bInfiniteSelect' = bInfiniteSelect \/ name \in T!Setters,
           exchange' # "restore"
    PROVE  TargetsInv'
<1>1. TargetTypes'
  <2>1. asks' > 0 /\ asks' \in Nat /\ asking' # "none"
    BY Entered
  <2>2. near' \in SUBSET Target /\ selected' \in Target \cup {None} /\ current_target' \in Target \cup {None}
    BY Entered DEF TargetsInv, TargetTypes
  <2>3. saved' \in BOOLEAN
    BY Entered, Zenon DEF TargetsInv, TargetTypes
  <2>4. failed' \in BOOLEAN /\ mistaken' \in BOOLEAN
    BY Entered, Zenon DEF TargetsInv, TargetTypes
  <2>5. lost' \in Nat /\ tries' \in {"forever", "few"}
    BY Entered, Zenon DEF TargetsInv, TargetTypes
  <2> QED
    BY <2>1, <2>2, <2>3, <2>4, <2>5, Zenon DEF TargetTypes
<1>2. InHand'
  <2>1. ~mistaken' /\ current_target' # None => selected' \in {None, current_target'}
    BY Entered DEF TargetsInv, InHand
  <2>2. exchange' # "idle" /\ exchange' # "restore" /\ asking' # "none" /\ near' \subseteq seen'
    BY Entered
  <2>3. exchange' \in {"ping", "diagnose"} => asking' = "is_present" /\ current_target' # None
    BY Entered
  <2> QED
    BY <2>1, <2>2, <2>3 DEF InHand
<1>3. InStep'
  <2>1. exchange' # "set" => bInfiniteSelect' = saved'
    BY Entered
  <2>2. asking' \notin T!Setters => bInfiniteSelect' = saved'
    BY Entered
  <2>3. exchange' # "set" /\ lost' = 0 => (tries' = "forever" <=> bInfiniteSelect')
    <3>1. exchange = "idle" /\ (lost = 0 => (tries = "forever" <=> bInfiniteSelect))
      BY Entered DEF TargetsInv, InStep
    <3>2. exchange' # "set" => bInfiniteSelect' = bInfiniteSelect
      OBVIOUS
    <3>3. lost' = lost /\ tries' = tries
      BY Entered
    <3>4. lost' = 0 => (tries' = "forever" <=> bInfiniteSelect)
      BY <3>1, <3>3
    <3>5. exchange' # "set" => (bInfiniteSelect' <=> bInfiniteSelect)
      BY <3>2
    <3> QED
      BY <3>4, <3>5, Zenon
  <2> QED
    BY <2>1, <2>2, <2>3, Zenon DEF InStep
<1> QED
  BY <1>1, <1>2, <1>3 DEF TargetsInv

LEMMA TargetsStep == TargetsInv /\ [T!Next]_(T!vars) => TargetsInv'
<1> SUFFICES ASSUME TargetsInv, [T!Next]_(T!vars) PROVE TargetsInv'
  OBVIOUS
<1> USE TargetsAssumption
<1>0. bInfiniteSelect \in BOOLEAN
  BY DEF TargetsInv, TargetTypes
<1>1. ASSUME NEW m, T!Select(m) PROVE TargetsInv'
  <2>1. T!Enter("select") /\ exchange' # "idle" /\ exchange' # "restore"
    BY <1>1 DEF T!Select, T!SelectExt
  <2>2. current_target' \in {None, current_target}
    BY <1>1 DEF T!Select, T!SelectExt
  <2>3. exchange' \notin {"ping", "diagnose"}
    BY <1>1 DEF T!Select, T!SelectExt
  <2>4. bInfiniteSelect' = bInfiniteSelect
    BY <1>1 DEF T!Select, T!SelectExt
  <2>5. bInfiniteSelect' \in BOOLEAN
    BY <1>0, <2>4
  <2> QED
    BY <2>1, <2>2, <2>3, <2>4, <2>5, EnteredInv
<1>2. ASSUME NEW m, T!List(m) PROVE TargetsInv'
  <2>1. T!Enter("list") /\ exchange' # "idle" /\ exchange' # "restore"
    BY <1>2 DEF T!List
  <2>2. current_target' \in {None, current_target}
    BY <1>2 DEF T!List
  <2>3. exchange' \notin {"ping", "diagnose"}
    BY <1>2 DEF T!List
  <2>4. exchange' = "set" \/ bInfiniteSelect' = bInfiniteSelect
    BY <1>0, <1>2 DEF T!List
  <2>5. bInfiniteSelect' \in BOOLEAN
    BY <1>0, <1>2 DEF T!List
  <2>6. "list" \in T!Setters
    BY DEF T!Setters
  <2> QED
    BY <2>1, <2>2, <2>3, <2>4, <2>5, <2>6, EnteredInv
<1>3. CASE T!PollDep
  <2>1. T!Enter("poll_dep") /\ exchange' # "idle" /\ exchange' # "restore"
    BY <1>3 DEF T!PollDep
  <2>2. current_target' \in {None, current_target}
    BY <1>3 DEF T!PollDep
  <2>3. exchange' \notin {"ping", "diagnose"}
    BY <1>3 DEF T!PollDep
  <2>4. exchange' = "set" \/ bInfiniteSelect' = bInfiniteSelect
    BY <1>0, <1>3 DEF T!PollDep
  <2>5. bInfiniteSelect' \in BOOLEAN
    BY <1>0, <1>3 DEF T!PollDep
  <2>6. "poll_dep" \in T!Setters
    BY DEF T!Setters
  <2> QED
    BY <2>1, <2>2, <2>3, <2>4, <2>5, <2>6, EnteredInv
<1>4. CASE T!Poll
  <2>1. T!Enter("poll") /\ exchange' # "idle" /\ exchange' # "restore"
    BY <1>4 DEF T!Poll
  <2>2. current_target' \in {None, current_target}
    BY <1>4 DEF T!Poll
  <2>3. exchange' \notin {"ping", "diagnose"}
    BY <1>4 DEF T!Poll
  <2>4. exchange' = "set" \/ bInfiniteSelect' = bInfiniteSelect
    BY <1>0, <1>4 DEF T!Poll
  <2>5. bInfiniteSelect' \in BOOLEAN
    BY <1>0, <1>4 DEF T!Poll
  <2>6. "poll" \in T!Setters
    BY DEF T!Setters
  <2> QED
    BY <2>1, <2>2, <2>3, <2>4, <2>5, <2>6, EnteredInv
<1>5. CASE T!Deselect
  <2>1. T!Enter("deselect") /\ exchange' # "idle" /\ exchange' # "restore"
    BY <1>5 DEF T!Deselect
  <2>2. current_target' \in {None, current_target}
    BY <1>5 DEF T!Deselect
  <2>3. exchange' \notin {"ping", "diagnose"}
    BY <1>5 DEF T!Deselect
  <2>4. bInfiniteSelect' = bInfiniteSelect
    BY <1>5 DEF T!Deselect
  <2>5. bInfiniteSelect' \in BOOLEAN
    BY <1>0, <2>4
  <2> QED
    BY <2>1, <2>2, <2>3, <2>4, <2>5, EnteredInv
<1>6. CASE T!Idle
  <2>1. T!Enter("idle") /\ exchange' # "idle" /\ exchange' # "restore"
    BY <1>6 DEF T!Idle
  <2>2. current_target' \in {None, current_target}
    BY <1>6 DEF T!Idle
  <2>3. exchange' \notin {"ping", "diagnose"}
    BY <1>6 DEF T!Idle
  <2>4. bInfiniteSelect' = bInfiniteSelect
    BY <1>6 DEF T!Idle
  <2>5. bInfiniteSelect' \in BOOLEAN
    BY <1>0, <2>4
  <2> QED
    BY <2>1, <2>2, <2>3, <2>4, <2>5, EnteredInv
<1>7. ASSUME NEW t, T!IsPresent(t) PROVE TargetsInv'
  <2>1. T!Enter("is_present") /\ exchange' # "idle" /\ exchange' # "restore"
    BY <1>7 DEF T!IsPresent, T!Ping
  <2>2. current_target' \in {None, current_target}
    BY <1>7 DEF T!IsPresent, T!Ping
  <2>3. exchange' \in {"ping", "diagnose"} => current_target' # None
    BY <1>7 DEF T!IsPresent, T!Ping
  <2>4. exchange' = "set" \/ bInfiniteSelect' = bInfiniteSelect
    BY <1>0, <1>7 DEF T!IsPresent, T!Ping
  <2>5. bInfiniteSelect' \in BOOLEAN
    BY <1>0, <1>7 DEF T!IsPresent, T!Ping
  <2>6. "is_present" \in T!Setters
    BY DEF T!Setters
  <2> QED
    BY <2>1, <2>2, <2>3, <2>4, <2>5, <2>6, EnteredInv
<1> USE DEF TargetsInv, TargetTypes, InHand, InStep, T!Setters, T!env, T!state, T!local, T!past
<1>8. CASE T!End
  BY <1>8 DEF T!End
<1>9. CASE T!SetAnswered
  <2>1. ASSUME T!Well PROVE TargetsInv'
    <3>1. TargetTypes'
      BY <1>9, <2>1 DEF T!SetAnswered, T!Well, T!Fault, T!Told, T!SelectExt, T!Return, T!Gone
    <3>2. InHand'
      BY <1>9, <2>1 DEF T!SetAnswered, T!Well, T!Fault, T!Told, T!SelectExt, T!Return, T!Gone
    <3>3. InStep'
      BY <1>9, <2>1 DEF T!SetAnswered, T!Well, T!Fault, T!Told, T!SelectExt, T!Return, T!Gone
    <3> QED
      BY <3>1, <3>2, <3>3
  <2>2. ASSUME T!Fault PROVE TargetsInv'
    <3>1. lost' \in Nat /\ lost' # 0 /\ failed' = TRUE
      BY <2>2 DEF T!Fault
    <3>2. asks' = asks /\ asking' = asking
      BY <1>9 DEF T!SetAnswered, T!Told, T!SelectExt, T!Return, T!Gone
    <3>3. TargetTypes'
      BY <1>9, <3>1, <3>2 DEF T!SetAnswered, T!Told, T!SelectExt, T!Return, T!Gone
    <3>4. InHand'
      BY <1>9, <3>1 DEF T!SetAnswered, T!Told, T!SelectExt, T!Return, T!Gone
    <3>5. InStep'
      BY <1>9, <3>1 DEF T!SetAnswered, T!Told, T!SelectExt, T!Return, T!Gone
    <3> QED
      BY <3>3, <3>4, <3>5
  <2> QED
    BY <1>9, <2>1, <2>2 DEF T!SetAnswered, T!Well, T!Fault, T!Told, T!SelectExt, T!Return, T!Gone
<1>10. CASE T!RestoreAnswered
  <2>1. ASSUME T!Well PROVE TargetsInv'
    <3>1. TargetTypes'
      BY <1>10, <2>1 DEF T!RestoreAnswered, T!Well, T!Fault, T!Told, T!Return, T!Gone
    <3>2. InHand'
      BY <1>10, <2>1 DEF T!RestoreAnswered, T!Well, T!Fault, T!Told, T!Return, T!Gone
    <3>3. InStep'
      BY <1>10, <2>1 DEF T!RestoreAnswered, T!Well, T!Fault, T!Told, T!Return, T!Gone
    <3> QED
      BY <3>1, <3>2, <3>3
  <2>2. ASSUME T!Fault PROVE TargetsInv'
    <3>1. lost' \in Nat /\ lost' # 0 /\ failed' = TRUE
      BY <2>2 DEF T!Fault
    <3>2. asks' = asks /\ asking' = asking
      BY <1>10 DEF T!RestoreAnswered, T!Told, T!Return, T!Gone
    <3>3. TargetTypes'
      BY <1>10, <3>1, <3>2 DEF T!RestoreAnswered, T!Told, T!Return, T!Gone
    <3>4. InHand'
      BY <1>10, <3>1 DEF T!RestoreAnswered, T!Told, T!Return, T!Gone
    <3>5. InStep'
      BY <1>10, <3>1 DEF T!RestoreAnswered, T!Told, T!Return, T!Gone
    <3> QED
      BY <3>3, <3>4, <3>5
  <2> QED
    BY <1>10, <2>1, <2>2 DEF T!RestoreAnswered, T!Well, T!Fault, T!Told, T!Return, T!Gone
<1>11. ASSUME NEW t \in Target, T!Take(t) PROVE TargetsInv'
  BY <1>11 DEF T!Take, T!Found, T!Well, T!Settled
<1>12. ASSUME NEW t \in Target, T!TakeListed(t) PROVE TargetsInv'
  BY <1>12 DEF T!TakeListed, T!Found, T!Well, T!Settled
<1>13. CASE T!NextListed
  <2>1. ASSUME T!Well PROVE TargetsInv'
    <3>1. TargetTypes'
      BY <1>13, <2>1 DEF T!NextListed, T!Well, T!Fault, T!Restore, T!Return, T!Gone
    <3>2. InHand'
      BY <1>13, <2>1 DEF T!NextListed, T!Well, T!Fault, T!Restore, T!Return, T!Gone
    <3>3. InStep'
      BY <1>13, <2>1 DEF T!NextListed, T!Well, T!Fault, T!Restore, T!Return, T!Gone
    <3> QED
      BY <3>1, <3>2, <3>3
  <2>2. ASSUME T!Fault PROVE TargetsInv'
    <3>1. lost' \in Nat /\ lost' # 0 /\ failed' = TRUE
      BY <2>2 DEF T!Fault
    <3>2. asks' = asks /\ asking' = asking
      BY <1>13 DEF T!NextListed, T!Restore, T!Return, T!Gone
    <3>3. TargetTypes'
      BY <1>13, <3>1, <3>2 DEF T!NextListed, T!Restore, T!Return, T!Gone
    <3>4. InHand'
      BY <1>13, <3>1 DEF T!NextListed, T!Restore, T!Return, T!Gone
    <3>5. InStep'
      BY <1>13, <3>1 DEF T!NextListed, T!Restore, T!Return, T!Gone
    <3> QED
      BY <3>3, <3>4, <3>5
  <2> QED
    BY <1>13, <2>1, <2>2 DEF T!NextListed, T!Well, T!Fault, T!Restore, T!Return, T!Gone
<1>14. CASE T!NoDep
  BY <1>14 DEF T!NoDep, T!Well, T!Restore, T!Return, T!Gone
<1>15. CASE T!NotFound
  BY <1>15 DEF T!NotFound, T!Well, T!Restore, T!Return, T!Gone
<1>16. CASE T!NotFoundRaw
  BY <1>16 DEF T!NotFoundRaw, T!Well, T!Restore, T!Return, T!Gone
<1>17. CASE T!TimeOut
  BY <1>17 DEF T!TimeOut, T!Well, T!Restore, T!Return, T!Gone, T!SelectExt
<1>18. CASE T!ListFails
  BY <1>18 DEF T!ListFails, T!Fault, T!Found, T!Restore, T!Return, T!Gone
<1>19. CASE T!AutoPoll
  <2>1. ASSUME T!Well PROVE TargetsInv'
    <3>1. TargetTypes'
      BY <1>19, <2>1 DEF T!AutoPoll, T!Well, T!Fault
    <3>2. InHand'
      BY <1>19, <2>1 DEF T!AutoPoll, T!Well, T!Fault
    <3>3. InStep'
      BY <1>19, <2>1 DEF T!AutoPoll, T!Well, T!Fault
    <3> QED
      BY <3>1, <3>2, <3>3
  <2>2. ASSUME T!Fault PROVE TargetsInv'
    <3>1. lost' \in Nat /\ lost' # 0 /\ failed' = TRUE
      BY <2>2 DEF T!Fault
    <3>2. asks' = asks /\ asking' = asking
      BY <1>19 DEF T!AutoPoll
    <3>3. TargetTypes'
      BY <1>19, <3>1, <3>2 DEF T!AutoPoll
    <3>4. InHand'
      BY <1>19, <3>1 DEF T!AutoPoll
    <3>5. InStep'
      BY <1>19, <3>1 DEF T!AutoPoll
    <3> QED
      BY <3>3, <3>4, <3>5
  <2> QED
    BY <1>19, <2>1, <2>2 DEF T!AutoPoll, T!Well, T!Fault
<1>20. CASE T!Let
  <2>1. ASSUME T!Well PROVE TargetsInv'
    <3>1. TargetTypes'
      BY <1>20, <2>1 DEF T!Let, T!Well, T!Fault
    <3>2. InHand'
      BY <1>20, <2>1 DEF T!Let, T!Well, T!Fault
    <3>3. InStep'
      BY <1>20, <2>1 DEF T!Let, T!Well, T!Fault
    <3> QED
      BY <3>1, <3>2, <3>3
  <2>2. ASSUME T!Fault PROVE TargetsInv'
    <3>1. lost' \in Nat /\ lost' # 0 /\ failed' = TRUE
      BY <2>2 DEF T!Fault
    <3>2. asks' = asks /\ asking' = asking
      BY <1>20 DEF T!Let
    <3>3. TargetTypes'
      BY <1>20, <3>1, <3>2 DEF T!Let
    <3>4. InHand'
      BY <1>20, <3>1 DEF T!Let
    <3>5. InStep'
      BY <1>20, <3>1 DEF T!Let
    <3> QED
      BY <3>3, <3>4, <3>5
  <2> QED
    BY <1>20, <2>1, <2>2 DEF T!Let, T!Well, T!Fault
<1>21. CASE T!Answers
  BY <1>21 DEF T!Answers, T!Alive, T!Well, T!Pinged, T!Return, T!Gone
<1>22. CASE T!Silent
  BY <1>22 DEF T!Silent, T!Well, T!Pinged, T!Again, T!Return, T!Gone
<1>23. CASE T!PingFails
  BY <1>23 DEF T!PingFails, T!Fault, T!Pinged, T!Again, T!Return, T!Gone
<1>24. ASSUME NEW t \in Target, T!ComeOrGo(t) PROVE TargetsInv'
  BY <1>24 DEF T!ComeOrGo
<1>25. CASE UNCHANGED T!vars
  BY <1>25 DEF T!vars
<1> QED
  BY <1>1, <1>2, <1>3, <1>4, <1>5, <1>6, <1>7, <1>8, <1>9, <1>10, <1>11, <1>12, <1>13, <1>14, <1>15, <1>16, <1>17, <1>18, <1>19, <1>20, <1>21, <1>22, <1>23, <1>24, <1>25 DEF T!Next, T!Exchange

(* What a program may conclude from a call that succeeded: a target said to *)
(* be present was in the field meanwhile, and polls, lists and checks leave *)
(* the number of tries as they found it (pn53x_initiator_target_is_present,*)
(* pn53x_initiator_poll_target, nfc_initiator_list_passive_targets).       *)
THEOREM CallsTell == MCSpec => []CallsTold
<1>1. MCInit => T!Init
  BY DEF MCInit
<1>2. [DeviceStep \/ TargetStep]_<<part, devvars, targets>> => [T!Next]_(T!vars)
  BY DEF DeviceStep, TargetStep, targets, T!vars, T!env, T!state, T!local, T!past
<1>3. TargetsInv => CallsTold
  BY DEF TargetsInv, TargetTypes, InHand, InStep, CallsTold, T!CallsTold, T!PresentWasThere, T!TriesKept
<1> QED
  BY <1>1, <1>2, <1>3, TargetsInit, TargetsStep, PTL DEF MCSpec
=============================================================================
