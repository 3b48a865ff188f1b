----------------------------- MODULE NfcDevice ------------------------------
(***************************************************************************)
(* The program's NfcDevice (nfc_driver.cpp) on top of the settings of the  *)
(* PN53x: the constructor, infiniteSelect, the two findCard and mifareCmd. *)
(* A search for a card waits in the chip for as many tries as RFConfigu-   *)
(* ration says; m_infinite is the third copy of that number, after the     *)
(* bInfiniteSelect of libnfc, and a change that fails is not looked at.    *)
(* Customers put one card on the reader and take it away.                  *)
(***************************************************************************)
EXTENDS Pn53xSettings

VARIABLES
    m_infinite, m_device,  \* m_device: "opening", "initiator", "open", or "none" after an exception
    job,      \* "idle", "infinite" in infiniteSelect, "select" in a search, "card" in a command
    infinite, \* what the search under way asked for
    found,    \* the result of the last search
    present,  \* a card is on the reader
    doubt     \* history: the last change of the number of tries failed

mine   == <<m_infinite, m_device, job, infinite, found, present, doubt>>
devvars == <<allvars, mine>>

InListPassiveTarget == [op |-> "InListPassiveTarget"]

ASSUME DeviceAssumption == InListPassiveTarget \in Command

DeviceInit ==
    /\ SettingsInit
    /\ m_infinite = TRUE /\ m_device = "opening" /\ job = "idle" /\ infinite = TRUE
    /\ found = FALSE /\ present \in BOOLEAN /\ doubt = FALSE

(* Another program than this one has the device. *)
DeviceLent ==
    /\ m_infinite = TRUE /\ m_device = "libnfc" /\ job = "idle" /\ infinite = TRUE
    /\ found = FALSE /\ present = FALSE /\ doubt = FALSE

Begin(steps, name) ==
    /\ AtRest /\ todo' = steps /\ call' = name /\ res' = "ok"
    /\ UNCHANGED <<chip, queue, pc, cmd, faults, stranded, dev, settings, calls, forgotten, unsure>>

(* The constructor, after nfc_open. *)
OpenDevice ==
    /\ m_device = "opening" /\ AtRest
    /\ IF res = "ok"
       THEN m_device' = "initiator" /\ Begin(Program([name |-> "nfc_initiator_init"]), [name |-> "nfc_initiator_init"])
       ELSE m_device' = "none" /\ UNCHANGED allvars
    /\ UNCHANGED <<m_infinite, job, infinite, found, present, doubt>>

DeviceReady ==
    /\ m_device = "initiator" /\ AtRest
    /\ m_device' = IF res = "ok" THEN "open" ELSE "none"
    /\ UNCHANGED <<allvars, m_infinite, job, infinite, found, present, doubt>>

infiniteSelect(i) ==
    /\ m_infinite # i /\ UNCHANGED m_infinite
    /\ Begin(<<Set("INFINITE_SELECT", i)>>, [name |-> "infiniteSelect"]) /\ job' = "infinite"

select ==
    /\ Begin(<<Send(InListPassiveTarget)>>, [name |-> "select"]) /\ job' = "select"

(* Mutant: the search goes on with the number of tries of the last one. *)
findCardAsIs(i) ==
    /\ m_device = "open" /\ job = "idle" /\ calls < MaxCalls
    /\ infinite' = i /\ select
    /\ UNCHANGED <<m_infinite, m_device, found, present, doubt>>

findCard(i) ==
    /\ m_device = "open" /\ job = "idle" /\ calls < MaxCalls
    /\ infinite' = i
    /\ infiniteSelect(i) \/ (m_infinite = i /\ select /\ UNCHANGED m_infinite)
    /\ UNCHANGED <<m_device, found, present, doubt>>

(* Mutant: m_infinite is left as the constructor set it. *)
InfiniteDoneForgets ==
    /\ job = "infinite" /\ AtRest
    /\ doubt' = (res = "error") /\ select
    /\ UNCHANGED <<m_infinite, m_device, infinite, found, present>>

(* The result of infiniteSelect is dropped by both findCard. *)
InfiniteDone ==
    /\ job = "infinite" /\ AtRest
    /\ m_infinite' = IF res = "ok" THEN infinite ELSE m_infinite
    /\ doubt' = (res = "error")
    /\ select
    /\ UNCHANGED <<m_device, infinite, found, present>>

(* nfc_initiator_mifare_cmd asks for easy framing each time. *)
mifareCmd ==
    /\ m_device = "open" /\ job = "idle" /\ calls < MaxCalls
    /\ Begin(<<Set("EASY_FRAMING", TRUE), TxBits(0), Send(CardCommand)>>, [name |-> "mifareCmd"])
    /\ job' = "card"
    /\ UNCHANGED <<m_infinite, m_device, infinite, found, present, doubt>>

JobDone ==
    /\ job \in {"select", "card"} /\ AtRest
    /\ found' = IF job = "select" /\ res = "error" THEN FALSE ELSE found
    /\ job' = "idle" /\ calls' = calls + 1
    /\ UNCHANGED <<vars, dev, settings, todo, call, forgotten, unsure,
                   m_infinite, m_device, infinite, present, doubt>>

Searching == pc = "cmd" /\ cmd = InListPassiveTarget

(* The chip answers a search when it has found a card, or has tried as many *)
(* times as it was told to; the host waits for it without a time limit.    *)
LibnfcStep ==
    /\ m_device # "libnfc" /\ Progress
    /\ Searching /\ pc' = "idle" /\ res' = "ok" => present \/ retries = "few"
    /\ found' = IF Searching /\ pc' = "idle" THEN present ELSE found
    /\ UNCHANGED <<m_infinite, m_device, job, infinite, present, doubt>>

Card ==
    /\ m_device # "libnfc" /\ present' = ~present
    /\ UNCHANGED <<allvars, m_infinite, m_device, job, infinite, found, doubt>>

Device == OpenDevice \/ DeviceReady \/ InfiniteDone \/ JobDone \/ LibnfcStep

DeviceNext == Device \/ Card \/ mifareCmd \/ \E i \in BOOLEAN : findCard(i)

-----------------------------------------------------------------------------
(* Of the three copies, m_infinite is the one the chip agrees with between  *)
(* two jobs, and until a change has failed; bInfiniteSelect then too.       *)
InfiniteKnown ==
    m_device = "open" /\ job = "idle" /\ ~doubt =>
        /\ m_infinite <=> retries = "forever"
        /\ m_infinite = dev.bInfiniteSelect

(* A search that was not to wait for a card, the test whether the card is   *)
(* still there, comes back though no card ever comes, unless the last       *)
(* change of the number of tries failed.                                   *)
SearchReturns == (job = "select" /\ ~infinite) ~> (job = "idle" \/ doubt)
=============================================================================
