----------------------------- MODULE NfcContext -----------------------------
(***************************************************************************)
(* The context of libnfc: the drivers that nfc_init registers, the devices *)
(* its configuration files and environment define, and nfc_list_devices    *)
(* and nfc_open, which look for a device with them.                        *)
(***************************************************************************)
EXTENDS Naturals, Sequences, FiniteSets, SequencesExt

CONSTANTS
    Names, Connstrings,  \* of the devices that a user defines
    MaxUserDevices,      \* MAX_USER_DEFINED_DEVICES
    MaxLines,            \* BOUND: lines of the configuration files
    MaxLen,              \* BOUND: the length of the caller's array
    MaxCalls             \* BOUND: calls of nfc_list_devices and nfc_open

VARIABLES
    phase,      \* "conf" in libnfc.conf, "devices" in a file of devices.d, "ready"
    user,       \* user_defined_devices
    lines,      \* lines of the files that were about devices
    allow_autoscan, allow_intrusive_scan,
    nfc_drivers,  \* the registered drivers, the last one first
    readers,    \* what is plugged in when it is over: the driver behind each connection string
    device,     \* the device that is open, its connection string and name, or NoDevice
    len, found, \* of the last nfc_list_devices
    uses

conf == <<user, lines, allow_autoscan, allow_intrusive_scan>>
vars == <<phase, conf, nfc_drivers, readers, device, len, found, uses>>

NoDevice == [connstring |-> "", name |-> ""]  \* no device
Unplugged == "none"

(* Some of the drivers, in the order of nfc_drivers_init: when their scan   *)
(* is allowed, and when it tests that the array is full.                   *)
Registered == <<"pn53x_usb", "acr122_pcsc", "pn532_uart">>
Intrusive == {"pn532_uart"}
Test == [pn53x_usb |-> "equal", acr122_pcsc |-> "before", pn532_uart |-> "after"]

-----------------------------------------------------------------------------
Blank == [name |-> "", connstring |-> "", optional |-> FALSE]

(* nfc_context_new, with LIBNFC_DEFAULT_DEVICE. *)
Init ==
    /\ phase = "conf" /\ lines = 0
    /\ user \in {<<>>} \cup {<<[Blank EXCEPT !.name = "default", !.connstring = c]>> : c \in Connstrings}
    /\ allow_autoscan = TRUE /\ allow_intrusive_scan = FALSE
    /\ nfc_drivers = <<>> /\ device = NoDevice /\ len = 0 /\ found = 0 /\ uses = 0
    /\ readers = [c \in Connstrings |-> Unplugged]

(* string_as_boolean turns a value round, or does not understand. *)
string_as_boolean(v, s) == IF s = "unknown" THEN v ELSE s = "true"
Strings == {"true", "false", "unknown"}

LastUser == user[Len(user)]

(* A key goes to the last device, or to a new one when the last has it. *)
AddTo(taken, k, v) ==
    LET new == IF user = <<>> \/ taken THEN Append(user, Blank) ELSE user
    IN  IF Len(new) > MaxUserDevices THEN UNCHANGED user
        ELSE user' = [new EXCEPT ![Len(new)][k] = v]

AddName(n)       == AddTo(user # <<>> /\ LastUser.name # "", "name", n)
AddConnstring(c) == AddTo(user # <<>> /\ LastUser.connstring # "", "connstring", c)
AddOptional(o)   == AddTo(user # <<>> /\ LastUser.optional, "optional", o)

(* conf_parse_file calls it with each line; only libnfc.conf sets options. *)
conf_keyvalue_context ==
    /\ phase \in {"conf", "devices"} /\ lines < MaxLines /\ lines' = lines + 1
    /\ \/ \E n \in Names : AddName(n)
       \/ \E c \in Connstrings : AddConnstring(c)
       \/ \E o \in BOOLEAN : AddOptional(o)
    /\ UNCHANGED <<phase, allow_autoscan, allow_intrusive_scan, nfc_drivers, readers, device, len, found, uses>>

conf_options ==
    /\ phase = "conf"
    /\ \E s, t \in Strings : /\ allow_autoscan' = string_as_boolean(allow_autoscan, s)
                             /\ allow_intrusive_scan' = string_as_boolean(allow_intrusive_scan, t)
    /\ UNCHANGED <<phase, user, lines, nfc_drivers, readers, device, len, found, uses>>

conf_devices_load ==
    /\ phase = "conf" /\ phase' = "devices"
    /\ UNCHANGED <<conf, nfc_drivers, readers, device, len, found, uses>>

(* The rest of nfc_context_new: LIBNFC_DEVICE makes one device of all, and  *)
(* leaves the first one's "optional" as it is.  Then nfc_drivers_init.     *)
nfc_init ==
    /\ phase \in {"conf", "devices"} /\ phase' = "ready"
    /\ \/ UNCHANGED user
       \/ \E c \in Connstrings :
             user' = <<[Blank EXCEPT !.name = "only", !.connstring = c, !.optional = user # <<>> /\ user[1].optional]>>
    /\ nfc_drivers' = IF nfc_drivers = <<>> THEN Reverse(Registered) ELSE nfc_drivers
    /\ readers' \in [Connstrings -> ToSet(Registered) \cup {Unplugged}]
    /\ UNCHANGED <<lines, allow_autoscan, allow_intrusive_scan, device, len, found, uses>>

(* nfc_exit unregisters the drivers, whoever else has a context. *)
nfc_exit ==
    /\ phase = "ready" /\ device = NoDevice /\ phase' = "over" /\ nfc_drivers' = <<>>
    /\ UNCHANGED <<conf, readers, device, len, found, uses>>

-----------------------------------------------------------------------------
(* How many connection strings the scan of d writes into an array with room *)
(* for n.  Those that test after they wrote, or for being right at the end,*)
(* write into an array that has none.                                      *)
ScanCount(d, n) ==
    LET k == Cardinality({c \in Connstrings : readers[c] = d})
    IN  CASE Test[d] = "before"           -> IF k < n THEN k ELSE n
          [] Test[d] = "after" /\ n = 0   -> IF k < 1 THEN k ELSE 1
          [] Test[d] = "equal" /\ n = 0   -> k
          [] OTHER                        -> IF k < n THEN k ELSE n

ScanAllowed(d) == d \notin Intrusive \/ allow_intrusive_scan

(* The scans stop at the driver that comes to the end of the array; past it *)
(* the room left is a very large number.                                   *)
autoscan(n, max) ==
    LET Scan(m, d) ==
            IF m.full \/ ~ScanAllowed(d) THEN m
            ELSE LET k == IF m.n > max THEN ScanCount(d, Cardinality(Connstrings)) ELSE ScanCount(d, max - m.n)
                 IN  [n |-> m.n + k, full |-> k > 0 /\ m.n + k = max]
    IN  IF allow_autoscan THEN FoldLeft(Scan, [n |-> n, full |-> FALSE], nfc_drivers).n ELSE n

There(c) == c # "" /\ readers[c] # Unplugged

(* The devices of the user: an optional one is opened to see whether it is  *)
(* there.                                                                  *)
Taken ==
    LET Keep(taken, u) == IF u.optional /\ ~There(u.connstring) THEN taken ELSE Append(taken, u)
    IN  FoldLeft(Keep, <<>>, user)

(* Mutant: an optional device never ends the list. *)
UserDevicesOptional(max) ==
    LET last == {i \in DOMAIN Taken : i >= max /\ ~Taken[i].optional}
    IN  IF last = {} THEN [n |-> Len(Taken), over |-> FALSE] ELSE [n |-> CHOOSE i \in last : \A j \in last : i <= j, over |-> TRUE]

(* They end the list when they fill it; but when it is an optional one that *)
(* does, only the loop over the user's devices ends.                       *)
UserDevices(max) ==
    IF Len(Taken) < max THEN [n |-> Len(Taken), over |-> FALSE]
    ELSE [n |-> max, over |-> ~Taken[max].optional]

ListCount(max) == LET u == UserDevices(max) IN IF u.over THEN u.n ELSE autoscan(u.n, max)

nfc_list_devices(max) ==
    /\ phase = "ready" /\ uses < MaxCalls /\ uses' = uses + 1
    /\ len' = max /\ found' = ListCount(max)
    /\ UNCHANGED <<phase, conf, nfc_drivers, readers, device>>

(* nfc_open: without a connection string, the first device of the list.  A  *)
(* device has the name its driver gave it: the loop over the user's names  *)
(* never runs.                                                             *)
nfc_open(c) ==
    /\ phase = "ready" /\ uses < MaxCalls /\ uses' = uses + 1 /\ device = NoDevice
    /\ device' = IF There(c) /\ nfc_drivers # <<>> THEN [connstring |-> c, name |-> readers[c]] ELSE NoDevice
    /\ UNCHANGED <<phase, conf, nfc_drivers, readers, len, found>>

First ==
    IF Taken # <<>> THEN {Taken[1].connstring}
    ELSE IF ~allow_autoscan THEN {}
    ELSE LET able == SelectSeq(nfc_drivers, LAMBDA d : ScanAllowed(d) /\ \E c \in Connstrings : readers[c] = d)
         IN  IF able = <<>> THEN {} ELSE {c \in Connstrings : readers[c] = able[1]}

nfc_open_first ==
    \/ \E c \in First : nfc_open(c)
    \/ First = {} /\ phase = "ready" /\ uses < MaxCalls /\ uses' = uses + 1 /\ device = NoDevice
       /\ UNCHANGED <<phase, conf, nfc_drivers, readers, device, len, found>>

nfc_close ==
    /\ device # NoDevice /\ device' = NoDevice
    /\ UNCHANGED <<phase, conf, nfc_drivers, readers, len, found, uses>>

Next ==
    \/ conf_keyvalue_context \/ conf_options \/ conf_devices_load \/ nfc_init \/ nfc_exit
    \/ \E n \in 1..MaxLen : nfc_list_devices(n)
    \/ \E c \in Connstrings : nfc_open(c)
    \/ nfc_open_first \/ nfc_close

Spec == Init /\ [][Next]_vars

-----------------------------------------------------------------------------
(* nfc_list_devices does not find more than its caller has room for, unless *)
(* the last place was filled by an optional device of the user that is     *)
(* there: the scans then begin with no room at all.                        *)
ListFits == found > len => allow_autoscan /\ Len(Taken) >= len /\ Taken[len].optional

(* nfc_open: "This is a device sets by user, we use the device name given   *)
(* by user".                                                               *)
UserNamed ==
    device # NoDevice => \A i \in DOMAIN user : user[i].connstring = device.connstring /\ user[i].name # "" =>
        \E j \in DOMAIN user : user[j].connstring = device.connstring /\ user[j].name = device.name
=============================================================================
