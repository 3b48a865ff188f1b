---------------------------- MODULE MCNfcDevice -----------------------------
(***************************************************************************)
(* The PN53x behind the reader, one part at a time:                        *)
(*   device   the registers the settings live in and a port, a failure or  *)
(*            two.  The device belongs to the program's NfcDevice, or to   *)
(*            "libnfc", any program that calls its functions;              *)
(*   targets  two MIFARE Classic cards, which answer to the same modula-   *)
(*            tion, and a FeliCa one; or three targets whose pings need a  *)
(*            framing of their own; or two of D.E.P. and a Jewel.          *)
(***************************************************************************)
EXTENDS NfcDevice

CONSTANTS
    Target, Kinds, Polled, None,
    MaxPolls, MaxListed, MaxChecks, MaxLost, \* the bounds of Pn53xTargets
    c1, c2, d   \* three targets

VARIABLES
    part,
    type, Kind, near, selected, current_target, bInfiniteSelect, bEasyFraming, tries,
    exchange, asking, asked, nm, p, n, failures, saved, ret, asks, lost, seen, failed, mistaken, took

targets == <<type, Kind, near, selected, current_target, bInfiniteSelect, bEasyFraming, tries,
             exchange, asking, asked, nm, p, n, failures, saved, ret, asks, lost, seen, failed, mistaken, took>>

T == INSTANCE Pn53xTargets WITH
    present <- near, retries <- tries, pc <- exchange, call <- asking, calls <- asks, faults <- lost,
    MaxCalls <- MaxChecks, MaxFaults <- MaxLost

ASSUME TargetsAssumption == None \notin Target

(* The part that stands still is in one state. *)
StandsStill ==
    /\ type = "PN532" /\ near = {} /\ Kind[d] = "FELICA"

MCInit ==
    \/ /\ part = "device" /\ T!Init /\ StandsStill
       /\ DeviceInit \/ (SettingsInit /\ DeviceLent)
    \/ /\ part = "targets" /\ T!Init /\ near = {}
       /\ Kind[d] = "JEWEL" => type = "PN532"  \* the others would do the same
       /\ Kind[d] = "FELICA" => type # "PN531"
       /\ SettingsInit /\ DeviceLent /\ chip = PoweredUp /\ dev = Closed(CHOOSE m \in Models : TRUE)
       /\ retries = "forever" /\ ~field

DeviceStep ==
    /\ part = "device" /\ UNCHANGED <<part, targets>>
    /\ DeviceNext \/ (m_device = "libnfc" /\ SettingsNext /\ UNCHANGED mine)

TargetStep == part = "targets" /\ T!Next /\ UNCHANGED <<part, devvars>>

MCSpec ==
    /\ MCInit /\ [][DeviceStep \/ TargetStep]_<<part, devvars, targets>>
    /\ WF_devvars(part = "device" /\ Device)

-----------------------------------------------------------------------------
(* Pn53xTargets: a target said to be present was in the field meanwhile, and *)
(* polls and checks leave the number of tries as it was.                   *)
CallsTold == T!CallsTold

-----------------------------------------------------------------------------
MCCached == {"TxMode", "RxMode", "ManualRCV", "Status2", "BitFraming", "Control", "TxAuto"}
MCBit == {"crc", "framing", "speed", "no_error", "multiple", "parity_disable", "crypto1",
          "tx_last_bits", "initiator", "force_100_ask", "P31", "P32", "P34"}
MCKinds == {[t \in Target |-> IF t = d THEN "FELICA" ELSE "MFC"],
            [t \in Target |-> CASE t = c1 -> "A4" [] t = c2 -> "B" [] t = d -> "B2SR"],
            [t \in Target |-> IF t = d THEN "JEWEL" ELSE "DEP"]}
MCCommand == Sent \cup {InListPassiveTarget}
MCPolled == <<"A", "FELICA", "B">>
=============================================================================
