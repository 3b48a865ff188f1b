--------------------------- MODULE Pn53xSettings ----------------------------
(***************************************************************************)
(* The settings of the PN53x, above its registers: pn53x_init,             *)
(* pn53x_set_property_bool, nfc_initiator_init and the commands to a card  *)
(* that depend on them.  libnfc keeps a copy of most settings, in the      *)
(* nfc_device and in its chip data, and returns early when the copy says   *)
(* that there is nothing to do; a copy is never read back from the chip.   *)
(* A call is a list of steps; a failed exchange ends the call.             *)
(***************************************************************************)
EXTENDS Pn53xRegisters, Sequences

CONSTANT MaxCalls  \* BOUND: calls made by the program

VARIABLES
    dev,        \* the copies: bCrc, bPar, bEasyFraming, bInfiniteSelect,
                \* bAutoIso14443_4, ui8TxBits, ui8Parameters
    parameters, \* the chip's: SetParameters,
    retries,    \* RFConfiguration item 5: "forever", or "few"
    field,      \* RFConfiguration item 1
    todo,       \* the steps left of the call
    call,       \* the last call made
    calls,      \* calls made
    forgotten,  \* history: a write-back was lost on its way
    unsure      \* history: a SetParameters or RFConfiguration failed

settings == <<parameters, retries, field>>
allvars  == <<vars, dev, settings, todo, call, calls, forgotten, unsure>>

Flag == {"bCrc", "bPar", "bEasyFraming", "bInfiniteSelect", "bAutoIso14443_4"}
AUTO_ATR_RES == "PARAM_AUTO_ATR_RES"
AUTO_RATS    == "PARAM_AUTO_RATS"

SetParameters(value)   == [op |-> "SetParameters", value |-> value]
RFConfiguration__RF_field(on)     == [op |-> "RF_field", on |-> on]
RFConfiguration__MaxRetries(many) == [op |-> "MaxRetries", many |-> many]
CardCommand == [op |-> "InDataExchange"]

(* What the settings are kept in, and the commands that are sent for them. *)
Sent ==
    [op : {"SetParameters"}, value : SUBSET {AUTO_ATR_RES, AUTO_RATS}]
    \cup [op : {"RF_field"}, on : BOOLEAN] \cup [op : {"MaxRetries"}, many : BOOLEAN]
    \cup {[op |-> "GetFirmwareVersion"], CardCommand}

ASSUME SettingsAssumption ==
    /\ {"TxMode", "RxMode", "ManualRCV", "Status2", "BitFraming", "Control", "TxAuto"} \subseteq CachedRegister
    /\ "P3" \in DirectRegister /\ Sent \subseteq Command
    /\ {"crc", "framing", "speed", "no_error", "multiple", "parity_disable", "crypto1", "tx_last_bits",
        "initiator", "force_100_ask", "P31", "P32", "P34"} \subseteq Bit

(* The steps of a call. *)
Write(r, mask, value) == [do |-> "write", reg |-> r, mask |-> mask, value |-> value]
Send(c)               == [do |-> "send", cmd |-> c]
Keep(name, value)     == [do |-> "keep", name |-> name, value |-> value]
Set(property, on)     == [do |-> "set", property |-> property, on |-> on]
TxBits(n)             == [do |-> "tx", bits |-> n]

If(on, bits) == IF on THEN bits ELSE {}

(* pn53x_set_parameters. *)
set_parameters(bit, on) ==
    LET value == IF on THEN dev.ui8Parameters \cup {bit} ELSE dev.ui8Parameters \ {bit}
    IN  IF value = dev.ui8Parameters THEN <<>>
        ELSE <<Send(SetParameters(value)), Keep("ui8Parameters", value)>>

(* What pn53x_usb_set_property_bool adds on the readers with GPIOs wired to *)
(* LEDs and, on the LoGO, to the progressive field.                         *)
field_led(on) ==
    CASE dev.model = "ASK_LOGO" -> <<Write("P3", {"P31", "P34"}, IF on THEN {"P34"} ELSE {"P31"})>>
      [] dev.model = "SCM_SCL3711" -> <<Write("P3", {"P32"}, If(~on, {"P32"}))>>
      [] OTHER -> <<>>

(* pn53x_set_property_bool. *)
set_property_bool(property, on) ==
    CASE property = "HANDLE_CRC" ->
            IF on = dev.bCrc THEN <<>>
            ELSE <<Write("TxMode", {"crc"}, If(on, {"crc"})),
                   Write("RxMode", {"crc"}, If(on, {"crc"})), Keep("bCrc", on)>>
      [] property = "HANDLE_PARITY" ->
            IF on = dev.bPar THEN <<>>
            ELSE <<Write("ManualRCV", {"parity_disable"}, If(~on, {"parity_disable"})),
                   Keep("bPar", on)>>
      [] property = "EASY_FRAMING" -> <<Keep("bEasyFraming", on)>>
      [] property = "ACTIVATE_FIELD" -> <<Send(RFConfiguration__RF_field(on))>> \o field_led(on)
      [] property = "ACTIVATE_CRYPTO1" -> <<Write("Status2", {"crypto1"}, If(on, {"crypto1"}))>>
      [] property = "INFINITE_SELECT" ->
            <<Keep("bInfiniteSelect", on), Send(RFConfiguration__MaxRetries(on))>>
      [] property = "ACCEPT_INVALID_FRAMES" -> <<Write("RxMode", {"no_error"}, If(on, {"no_error"}))>>
      [] property = "ACCEPT_MULTIPLE_FRAMES" -> <<Write("RxMode", {"multiple"}, If(on, {"multiple"}))>>
      [] property = "AUTO_ISO14443_4" ->
            IF on = dev.bAutoIso14443_4 THEN <<>>
            ELSE <<Keep("bAutoIso14443_4", on)>> \o set_parameters(AUTO_RATS, on)
      [] property = "FORCE_ISO14443_A" ->
            IF ~on THEN <<>>
            ELSE <<Write("TxMode", {"framing"}, {}), Write("RxMode", {"framing"}, {}),
                   Write("TxAuto", {"force_100_ask"}, {"force_100_ask"})>>
      [] property = "FORCE_ISO14443_B" ->
            IF ~on THEN <<>>
            ELSE <<Write("TxMode", {"framing"}, {"framing"}), Write("RxMode", {"framing"}, {"framing"})>>
      [] property = "FORCE_SPEED_106" ->
            IF ~on THEN <<>> ELSE <<Write("TxMode", {"speed"}, {}), Write("RxMode", {"speed"}, {})>>

(* pn53x_set_tx_bits. *)
set_tx_bits(n) ==
    IF n = dev.ui8TxBits THEN <<>>
    ELSE <<Write("BitFraming", {"tx_last_bits"}, If(n # 0, {"tx_last_bits"})), Keep("ui8TxBits", n)>>

(* Mutant: the copies are trusted, and the registers of a chip that was in  *)
(* use before are not written.                                             *)
reset_settings_trusting == <<Keep("bCrc", TRUE), Keep("bPar", TRUE)>>

(* pn53x_reset_settings. *)
reset_settings ==
    <<Keep("ui8TxBits", 0), Write("BitFraming", {"tx_last_bits"}, {}),
      Set("HANDLE_CRC", TRUE), Set("HANDLE_PARITY", TRUE), Set("EASY_FRAMING", TRUE),
      Set("ACTIVATE_CRYPTO1", FALSE)>>

pn53x_initiator_init == reset_settings \o <<Write("Control", {"initiator"}, {"initiator"})>>

(* The end of pn53x_usb_init: the first LED on, the progressive field off. *)
logo_init ==
    IF dev.model # "ASK_LOGO" THEN <<>>
    ELSE <<Write("P3", Full, {"P31"})>>

(* The calls.  "open" stands for pn53x_init, which nfc_open makes through   *)
(* its driver, after GetFirmwareVersion.                                   *)
Program(c) ==
    CASE c.name = "open" ->
            <<Send([op |-> "GetFirmwareVersion"]), Send(SetParameters({AUTO_ATR_RES, AUTO_RATS})),
              Keep("ui8Parameters", {AUTO_ATR_RES, AUTO_RATS})>> \o reset_settings \o logo_init
      [] c.name = "nfc_initiator_init" ->
            <<Set("ACTIVATE_FIELD", FALSE), Set("ACTIVATE_FIELD", TRUE), Set("INFINITE_SELECT", TRUE),
              Set("AUTO_ISO14443_4", TRUE), Set("FORCE_ISO14443_A", TRUE), Set("FORCE_SPEED_106", TRUE),
              Set("ACCEPT_INVALID_FRAMES", FALSE), Set("ACCEPT_MULTIPLE_FRAMES", FALSE)>>
            \o pn53x_initiator_init
      [] c.name = "nfc_device_set_property_bool" -> <<Set(c.property, c.on)>>
      [] c.name = "transceive_bytes" -> <<TxBits(0), Send(CardCommand)>>
      [] c.name = "transceive_bits" -> <<TxBits(c.bits), Send(CardCommand)>>

Open == [name |-> "open"]

-----------------------------------------------------------------------------
Models == {"other", "ASK_LOGO", "SCM_SCL3711"}

(* pn53x_data_new and nfc_device_new. *)
Closed(model) ==
    [f \in Flag \cup {"ui8TxBits", "ui8Parameters", "model"} |->
         IF f \in Flag THEN FALSE ELSE IF f = "ui8TxBits" THEN 0 ELSE IF f = "model" THEN model ELSE {}]

(* The chip is as it was powered up, or as a program that was killed while  *)
(* it talked to a card in raw mode left it.                                *)
PoweredUp == [r \in Register |-> IF r \in {"TxMode", "RxMode"} THEN {"crc"} ELSE {}]
LeftRaw   == [r \in Register |->
                 CASE r \in {"TxMode", "RxMode"} -> {"framing", "speed"}
                   [] r = "ManualRCV" -> {"parity_disable"}
                   [] r = "Status2" -> {"crypto1"}
                   [] r = "BitFraming" -> {"tx_last_bits"}
                   [] OTHER -> {}]

SettingsInit ==
    /\ chip \in {PoweredUp, LeftRaw} /\ wb_data = [r \in CachedRegister |-> {}] /\ Clean
    /\ dev \in {Closed(model) : model \in Models} /\ parameters = {} /\ retries \in {"forever", "few"} /\ field \in BOOLEAN
    /\ todo = Program(Open) /\ call = Open /\ calls = 0
    /\ forgotten = FALSE /\ unsure = FALSE

AtRest == pc = "idle" /\ todo = <<>>

(* A call that the program makes once the device is open; when nfc_open     *)
(* fails it has no device.                                                 *)
Call(c) ==
    /\ AtRest /\ calls < MaxCalls /\ (call = Open => res = "ok")
    /\ todo' = Program(c) /\ call' = c /\ calls' = calls + 1 /\ res' = "ok"
    /\ UNCHANGED <<chip, queue, pc, cmd, faults, stranded, dev, settings, forgotten, unsure>>

Step == Head(todo)

Expand ==
    /\ pc = "idle" /\ todo # <<>> /\ Step.do \in {"set", "tx"}
    /\ todo' = (IF Step.do = "set" THEN set_property_bool(Step.property, Step.on)
                ELSE set_tx_bits(Step.bits)) \o Tail(todo)
    /\ UNCHANGED <<vars, dev, settings, call, calls, forgotten, unsure>>

KeepStep ==
    /\ pc = "idle" /\ todo # <<>> /\ Step.do = "keep"
    /\ dev' = [dev EXCEPT ![Step.name] = Step.value] /\ todo' = Tail(todo)
    /\ UNCHANGED <<vars, settings, call, calls, forgotten, unsure>>

WriteStep ==
    /\ todo # <<>> /\ Step.do = "write"
    /\ \/ Step.reg \in CachedRegister /\ pn53x_write_register(Step.reg, Step.mask, Step.value)
       \/ Step.reg \in DirectRegister /\ pn53x_write_direct(Step.reg, Step.mask, Step.value)
    /\ todo' = Tail(todo)
    /\ UNCHANGED <<dev, settings, call, calls, forgotten, unsure>>

SendStep ==
    /\ todo # <<>> /\ Step.do = "send"
    /\ pn53x_transceive(Step.cmd) /\ todo' = Tail(todo)
    /\ UNCHANGED <<dev, settings, call, calls, forgotten, unsure>>

(* What the chip does with a command on its settings. *)
Obey ==
    /\ parameters' = IF cmd.op = "SetParameters" THEN cmd.value ELSE parameters
    /\ retries' = IF cmd.op = "MaxRetries" THEN IF cmd.many THEN "forever" ELSE "few" ELSE retries
    /\ field' = IF cmd.op = "RF_field" THEN cmd.on ELSE field

ExchangeStep ==
    /\ \/ Answer /\ Obey
       \/ (ReadBack \/ WriteBack \/ ReadDirect) /\ UNCHANGED settings
    /\ UNCHANGED <<dev, todo, call, calls, forgotten, unsure>>

FailStep(done) ==
    /\ Fail(done) /\ todo' = <<>>
    /\ IF pc = "cmd" /\ done THEN Obey ELSE UNCHANGED settings
    /\ forgotten' = (forgotten \/ (pc = "write" /\ ~done))
    /\ unsure' = (unsure \/ cmd.op \in {"SetParameters", "MaxRetries"})
    /\ UNCHANGED <<dev, call, calls>>

CallSet ==
    {[name |-> "nfc_initiator_init"], [name |-> "transceive_bytes"]}
    \cup [name : {"transceive_bits"}, bits : {0, 7}]
    \cup [name : {"nfc_device_set_property_bool"}, on : BOOLEAN,
          property : {"HANDLE_CRC", "HANDLE_PARITY", "INFINITE_SELECT", "AUTO_ISO14443_4",
                      "FORCE_ISO14443_B", "ACTIVATE_CRYPTO1"}]

Progress == Expand \/ KeepStep \/ WriteStep \/ SendStep \/ ExchangeStep
            \/ \E done \in BOOLEAN : FailStep(done)

SettingsNext == Progress \/ \E c \in CallSet : Call(c)

-----------------------------------------------------------------------------
Opened == call # Open \/ (AtRest /\ res = "ok")

RegistersTrue ==
    /\ \A r \in {"TxMode", "RxMode"} : "crc" \in Asked[r] <=> dev.bCrc
    /\ "parity_disable" \in Asked["ManualRCV"] <=> ~dev.bPar
    /\ "tx_last_bits" \in Asked["BitFraming"] <=> dev.ui8TxBits # 0

ParametersTrue ==
    /\ dev.ui8Parameters = parameters
    /\ call.name = "nfc_initiator_init" /\ res = "ok" => retries = "forever"
    /\ res = "ok" /\ dev.bAutoIso14443_4 => AUTO_RATS \in parameters

(* Between two calls the copies say what the registers will be when the     *)
(* next command reaches the chip, whatever state the chip was opened in,   *)
(* unless a write-back was lost: nobody tells the copies.  The chip's      *)
(* parameters and retries are what libnfc believes too, unless the command *)
(* that should have changed them failed, itself or the write-back before it.*)
CopiesTrue ==
    AtRest /\ Opened =>
        /\ ~forgotten => RegistersTrue
        /\ ~unsure => ParametersTrue

(* What the documentation of nfc_initiator_init (nfc.c:439 on) says holds   *)
(* once it has returned 0; and the LoGO's LED and progressive field.        *)
Documented ==
    /\ \A r \in {"TxMode", "RxMode"} : "crc" \in Asked[r] /\ Asked[r] \cap {"framing", "speed"} = {}
    /\ "parity_disable" \notin Asked["ManualRCV"] /\ "crypto1" \notin Asked["Status2"]
    /\ Asked["RxMode"] \cap {"no_error", "multiple"} = {}
    /\ dev.bEasyFraming /\ AUTO_RATS \in parameters /\ retries = "forever" /\ field
    /\ dev.model = "ASK_LOGO" => "P34" \in chip["P3"] /\ "P31" \notin chip["P3"]

(* After nfc_initiator_init the device is as documented, in whatever state  *)
(* it was found, as long as no exchange has failed since it was opened.     *)
InitSettles ==
    faults = 0 /\ call.name = "nfc_initiator_init" /\ AtRest /\ res = "ok" => Documented

(* What a program knows of the settings when a call returns: that the       *)
(* copies are true, and that nfc_initiator_init did what it says.           *)
SettingsKnown == CopiesTrue /\ InitSettles
=============================================================================
