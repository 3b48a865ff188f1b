---------------------------- MODULE MCLibraries ----------------------------
(***************************************************************************)
(* What lies between the mode and the reader, one part at a time:          *)
(*   link   the exchanges of one open driver, with one fault and one abort;*)
(*   open   programs that scan, open and close the readers there are;      *)
(*   context  libnfc's configuration, and the two lookups that use it;     *)
(*   frames what a program sends and receives through the chip.            *)
(***************************************************************************)
EXTENDS HostLink, FiniteSets

CONSTANTS
    Programs, Ports,                  \* of DriverOpen
    OpenCalls, MaxDevices, MaxKills,  \* BOUNDS of DriverOpen
    UserNames, Connstrings, MaxUserDevices, \* of NfcContext
    MaxLines, MaxLen, Lookups,        \* BOUNDS of NfcContext
    CounterMax, PrescalerMax, Word, BitCycles, Lengths, Room, MaxCycles, Late, \* of Pn53xEmulation
    None

VARIABLES
    part,
    oDriver, todo, fn, port, mine, devices, lost, listed, refs, claimed, attempts, raced, twice, abandoned, kills,
    phase, user, lines, allow_autoscan, allow_intrusive_scan, nfc_drivers, readers, device, len, found, uses,
    type, fphase, bPar, bEasyFraming, bCrc, bAutoIso14443_4, ui8TxBits, pnt, ptm, activated, fTarget, switched, fcall

opening == <<oDriver, todo, fn, port, mine, devices, lost, listed, refs, claimed, attempts, raced, twice, abandoned, kills>>
context == <<phase, user, lines, allow_autoscan, allow_intrusive_scan, nfc_drivers, readers, device, len, found, uses>>
frames  == <<type, fphase, bPar, bEasyFraming, bCrc, bAutoIso14443_4, ui8TxBits, pnt, ptm, activated, fTarget, switched, fcall>>

(* The link is not modelled for acr122s, which no open ever returns. *)
Openable == Drivers \cup {"acr122s"}

O == INSTANCE DriverOpen WITH driver <- oDriver, found <- listed, Drivers <- Openable, MaxCalls <- OpenCalls

C == INSTANCE NfcContext WITH Names <- UserNames, MaxCalls <- Lookups

F == INSTANCE Pn53xEmulation WITH phase <- fphase, current_target <- fTarget, call <- fcall

ASSUME LibrariesAssumption ==
    /\ Drivers \subseteq {"pn532_uart", "arygon", "acr122s", "pn53x_usb", "acr122_usb", "acr122_pcsc", "pn532_spi", "pn532_i2c"}
    /\ Ports \in Nat \ {0}

ASSUME ContextAssumption == IsFiniteSet(Connstrings) /\ MaxLen \in Nat

ASSUME FramesAssumption ==
    /\ {CounterMax, Word} \subseteq Nat \ {0} /\ {PrescalerMax, BitCycles} \subseteq Nat
    /\ Lengths \subseteq Nat \ {0} /\ (Room \cup MaxCycles \cup Late) \subseteq Nat

(* The parts that stand still are in one state. *)
MCInit ==
    /\ part \in {"link", "open", "context", "frames"} /\ Init /\ O!Init /\ C!Init /\ F!FInit
    /\ part # "link" => driver = "arygon"
    /\ part # "open" => oDriver = "arygon"
    /\ part # "context" => user = <<>>
    /\ part # "frames" => type = "PN531"

MCNext ==
    \/ part = "link" /\ Next /\ UNCHANGED <<part, opening, context, frames>>
    \/ part = "open" /\ O!Next /\ UNCHANGED <<part, vars, context, frames>>
    \/ part = "context" /\ C!Next /\ UNCHANGED <<part, vars, opening, frames>>
    \/ part = "frames" /\ F!FNext /\ UNCHANGED <<part, vars, opening, context>>

MCSpec == MCInit /\ [][MCNext]_<<part, vars, opening, context, frames>> /\ WF_vars(Host) /\ WF_vars(Arrive)

-----------------------------------------------------------------------------
(* DriverOpen: what is given back was held, once, and what is forgotten. *)
Balanced == O!Balanced

(* DriverOpen: the mark in the settings of a serial port. *)
ClaimTells == O!ClaimTells

(* NfcContext: what nfc_list_devices writes has room in the caller's array. *)
ListFits == C!ListFits

(* NfcContext: the device that is opened has the name its user gave it. *)
UserNamed == C!UserNamed

(* Pn53xEmulation: what is on the air is what the program gave or was told, *)
(* in the protocol the chip was told to speak.                             *)
CallsFit == F!CallsFit
=============================================================================
