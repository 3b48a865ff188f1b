----------------------------- MODULE DriverOpen -----------------------------
(***************************************************************************)
(* The scan, open and close functions of the eight drivers of libnfc:      *)
(* what they acquire, what each error path gives back, and how programs    *)
(* that share the readers keep out of each other's way.  A function is the *)
(* sequence of its fallible calls; the handles, memory and pipes they      *)
(* return are the resources.                                               *)
(***************************************************************************)
EXTENDS Naturals, Sequences, FiniteSets

CONSTANTS
    Drivers,
    Programs,   \* that use libnfc on this machine
    Ports,      \* serial ports, buses or USB devices, in the order they are listed
    MaxCalls,   \* BOUND: calls of scan and open
    MaxDevices, \* BOUND: devices a program has open
    MaxKills    \* BOUND: programs killed

VARIABLES
    driver,
    todo,     \* the fallible calls that the function under way still makes
    fn,       \* the function under way: "none", "scan", "open", "close"
    port,     \* where it is in the list of ports
    mine,     \* what it has acquired there
    devices,  \* devices open: where, and what they hold
    lost,     \* what the program holds and no device of it has: where, and what
    found,    \* the ports a scan has put on its list
    refs,     \* _iSCardContextRefCount
    claimed,  \* the serial ports with CCLAIMED in their settings
    attempts,
    raced,    \* history: the ports two programs found free before either claimed them
    twice,    \* history: something was given back that was not held
    abandoned, \* history: the ports left marked, by a program that was killed or
               \* by one that could not put the settings back
    kills

vars == <<driver, todo, fn, port, mine, devices, lost, found, refs, claimed, attempts, raced, twice, abandoned, kills>>

Serial == {"pn532_uart", "arygon", "acr122s"}
Usb    == {"pn53x_usb", "acr122_usb"}

Lost(i, r) == {[port |-> i, what |-> x] : x \in r}
Holds(p, i, r) ==
    \/ port[p] = i /\ r \in mine[p]
    \/ \E d \in devices[p] : d.port = i /\ r \in d.has
    \/ Lost(i, {r}) \subseteq lost[p]

-----------------------------------------------------------------------------
(* A call that acquires r, or fails: undo is what the error path gives back,*)
(* and the error ends the function, or the scan goes on with the next port.*)
Get(r, undo)  == [take |-> {r}, give |-> {}, undo |-> undo, next |-> FALSE]
Try(r, undo)  == [take |-> {r}, give |-> {}, undo |-> undo, next |-> TRUE]

(* An exchange with the reader. *)
Ask(undo)     == [take |-> {}, give |-> {}, undo |-> undo, next |-> FALSE]
Give(r)       == [take |-> {}, give |-> r, undo |-> {}, next |-> FALSE]

(* A scan closes the port whether or not a reader answers. *)
Visit(give)   == [take |-> {}, give |-> give, undo |-> give, next |-> TRUE]

(* The two pointers of a device may still be NULL when it is freed, and the *)
(* settings of a serial port are put back even if they could not be set.   *)
nfc_device_free == {"device", "driver_data"}
NeedNotHold == nfc_device_free \cup {"claim"}

(* uart_close puts the settings back to what uart_open read in them. *)
uart_close == {"port", "claim"}

(* malloc and open, then the test of CCLAIMED in what tcgetattr read, then  *)
(* tcsetattr with CCLAIMED; when that fails too the settings are put back, *)
(* and with them goes a mark another program made in the meantime.         *)
uart_open(next) ==
    << [take |-> {"port"}, give |-> {}, undo |-> {}, next |-> next],
       [take |-> {"claim"}, give |-> {}, undo |-> uart_close, next |-> next] >>
spi_open(next) == <<[take |-> {"port"}, give |-> {}, undo |-> {}, next |-> next]>>
spi_close == {"port"}
i2c_open(next) ==  \* the address is set by an ioctl of its own
    << [take |-> {"port"}, give |-> {}, undo |-> {}, next |-> next],
       [take |-> {}, give |-> {}, undo |-> {"port"}, next |-> next] >>

(* Mutant: the error path of the device frees the data of its chip too. *)
AllocateFreesAll(close) ==
    << Get("device", close \cup {"chip_data"}), Get("driver_data", close \cup nfc_device_free),
       Get("chip_data", close \cup nfc_device_free) >>

(* The allocations that the drivers share. *)
Allocate(close) ==
    << Get("device", close), Get("driver_data", close \cup nfc_device_free),
       Get("chip_data", close \cup nfc_device_free) >>
Pipe(close) == Get("pipe", close \cup {"chip_data"} \cup nfc_device_free)
Closed(close) == close \cup {"chip_data"} \cup nfc_device_free

-----------------------------------------------------------------------------
pn532_uart_close == Closed(uart_close) \cup {"pipe"}
arygon_close     == Closed(uart_close) \cup {"pipe"}
acr122s_close    == Closed(uart_close) \cup {"pipe"}
pn532_spi_close  == Closed(spi_close)
pn532_i2c_close  == Closed({"port"})
pn53x_usb_close  == Closed({"handle", "interface"})
acr122_usb_close == Closed({"handle", "interface"})
acr122_pcsc_close == Closed({"card", "context"})

(* The scans of the serial ports do not close the pipe they made. *)
pn532_uart_scan == uart_open(TRUE) \o Allocate(uart_close) \o <<Pipe(uart_close), Visit(Closed(uart_close))>>
arygon_scan     == uart_open(TRUE) \o Allocate(uart_close) \o <<Pipe(uart_close), Visit(Closed(uart_close))>>
acr122s_scan ==
    uart_open(TRUE) \o SubSeq(Allocate(uart_close), 1, 2) \o
    << Get("pipe", uart_close \cup nfc_device_free), Get("chip_data", uart_close \cup nfc_device_free),
       Visit(Closed(uart_close)) >>
pn532_spi_scan  == spi_open(TRUE) \o Allocate(spi_close) \o <<Visit(Closed(spi_close))>>
pn532_i2c_scan  == i2c_open(TRUE) \o Allocate({"port"}) \o <<Visit(Closed({"port"}))>>
pn53x_usb_scan  == <<Try("handle", {}), Visit({"handle"})>>
acr122_usb_scan == <<Try("handle", {}), Give({"handle"})>>
acr122_pcsc_scan == <<Get("context", {}), Ask({}), Give({"context"})>>  \* SCardListReaders

pn532_uart_open == uart_open(FALSE) \o Allocate(uart_close) \o <<Pipe(uart_close), Ask(pn532_uart_close)>>
arygon_open     == uart_open(FALSE) \o Allocate(uart_close) \o <<Pipe(uart_close), Ask(arygon_close)>>

(* acr122s_get_firmware_version passes a command without data, for which   *)
(* acr122s_build_frame builds no frame: the reader is never asked, and the *)
(* error path is always taken.                                             *)
acr122s_open ==
    uart_open(FALSE) \o SubSeq(Allocate(uart_close), 1, 2) \o
    << Get("pipe", uart_close \cup nfc_device_free), Get("chip_data", uart_close \cup nfc_device_free),
       Ask(acr122s_close) >>
pn532_spi_open  == spi_open(FALSE) \o Allocate(spi_close) \o <<Ask(pn532_spi_close)>>
pn532_i2c_open  ==
    <<Get("name", {})>> \o i2c_open(FALSE) \o Allocate({"port"}) \o <<Ask(pn532_i2c_close)>>

(* The label error frees the device and nothing else. *)
pn53x_usb_open ==
    << Try("handle", {}), Ask({"handle"}),  \* usb_set_configuration
       Get("interface", {"handle"}),
       Get("device", nfc_device_free), Get("driver_data", nfc_device_free), Get("chip_data", nfc_device_free),
       Ask({"handle"} \cup nfc_device_free) >>
acr122_usb_open ==
    << Try("handle", {}), Get("interface", {"handle"}), Ask({"handle"}),  \* usb_set_altinterface
       Get("device", nfc_device_free), Get("driver_data", nfc_device_free), Get("chip_data", nfc_device_free),
       Ask({"handle"} \cup nfc_device_free) >>

(* Without a reader's name the first one listed is opened.  A number is     *)
(* decoded, then replaced by the name which the list has there.            *)
acr122_pcsc_open(by) ==
    (CASE by = "name"   -> <<>>
       [] by = "first"  -> acr122_pcsc_scan
       [] by = "number" -> << Get("number", {}), Get("context", {"number"}), Ask({"number"}), Give({"context"}) >>) \o
    << Get("name", {}), Get("device", {"name"} \cup nfc_device_free),
       Get("driver_data", {"name"} \cup nfc_device_free), Get("chip_data", {"name"} \cup nfc_device_free),
       Get("context", {"name"} \cup nfc_device_free), Get("card", {"name"} \cup nfc_device_free),
       Ask({"name"} \cup nfc_device_free), Give({"name"}) >>

Scan ==
    CASE driver = "pn532_uart" -> pn532_uart_scan [] driver = "arygon" -> arygon_scan
      [] driver = "acr122s" -> acr122s_scan       [] driver = "pn532_spi" -> pn532_spi_scan
      [] driver = "pn532_i2c" -> pn532_i2c_scan   [] driver = "pn53x_usb" -> pn53x_usb_scan
      [] driver = "acr122_usb" -> acr122_usb_scan [] driver = "acr122_pcsc" -> acr122_pcsc_scan

Open ==
    CASE driver = "pn532_uart" -> {pn532_uart_open} [] driver = "arygon" -> {arygon_open}
      [] driver = "acr122s" -> {acr122s_open}       [] driver = "pn532_spi" -> {pn532_spi_open}
      [] driver = "pn532_i2c" -> {pn532_i2c_open}   [] driver = "pn53x_usb" -> {pn53x_usb_open}
      [] driver = "acr122_usb" -> {acr122_usb_open} [] driver = "acr122_pcsc" -> {acr122_pcsc_open(by) : by \in {"name", "first", "number"}}

Close ==
    CASE driver = "pn532_uart" -> pn532_uart_close [] driver = "arygon" -> arygon_close
      [] driver = "acr122s" -> acr122s_close       [] driver = "pn532_spi" -> pn532_spi_close
      [] driver = "pn532_i2c" -> pn532_i2c_close   [] driver = "pn53x_usb" -> pn53x_usb_close
      [] driver = "acr122_usb" -> acr122_usb_close [] driver = "acr122_pcsc" -> acr122_pcsc_close

-----------------------------------------------------------------------------
Init ==
    /\ driver \in Drivers /\ claimed = {} /\ abandoned = {}
    /\ todo = [p \in Programs |-> <<>>] /\ fn = [p \in Programs |-> "none"]
    /\ port = [p \in Programs |-> 0] /\ mine = [p \in Programs |-> {}]
    /\ devices = [p \in Programs |-> {}] /\ lost = [p \in Programs |-> {}]
    /\ found = [p \in Programs |-> {}] /\ refs = [p \in Programs |-> 0]
    /\ attempts = 0 /\ raced = {} /\ twice = FALSE /\ kills = 0

(* What is left of held when r was given back: with its handle an interface *)
(* goes too.                                                               *)
Left(held, r) == held \ (r \cup IF "handle" \in r THEN {"interface"} ELSE {})

(* The settings of a serial port are put back to what uart_open read, in    *)
(* which it was free; or this fails, and nobody looks.                     *)
Restore(i, held, r) ==
    \/ /\ claimed' = IF "claim" \in r THEN claimed \ {i} ELSE claimed
       /\ UNCHANGED abandoned
    \/ /\ "claim" \in r /\ UNCHANGED claimed
       /\ abandoned' = IF "claim" \in held THEN abandoned \cup {i} ELSE abandoned

Release(p, i, held, r) ==
    /\ Restore(i, held, r)
    /\ refs' = IF "context" \in r /\ refs[p] > 0 THEN [refs EXCEPT ![p] = @ - 1] ELSE refs
    /\ twice' = (twice \/ ~ r \subseteq held \cup NeedNotHold)
    /\ lost' = [lost EXCEPT ![p] = @ \cup Lost(i, Left(held, r))]

Begin(p, f) ==
    /\ fn[p] = "none" /\ attempts < MaxCalls /\ attempts' = attempts + 1
    /\ fn' = [fn EXCEPT ![p] = f] /\ mine' = [mine EXCEPT ![p] = {}]
    /\ found' = [found EXCEPT ![p] = {}]
    /\ UNCHANGED <<driver, devices, lost, refs, claimed, raced, twice, abandoned, kills>>

DoScan(p) ==
    /\ Begin(p, "scan") /\ port' = [port EXCEPT ![p] = 1] /\ todo' = [todo EXCEPT ![p] = Scan]

(* The connection string names a port; without one a USB driver takes the   *)
(* first device it can open.                                               *)
DoOpen(p, i) ==
    /\ Cardinality(devices[p]) < MaxDevices
    /\ Begin(p, "open") /\ port' = [port EXCEPT ![p] = i]
    /\ \E calls_ \in Open : todo' = [todo EXCEPT ![p] = calls_]

(* The function returns. *)
Return(p) == fn' = [fn EXCEPT ![p] = "none"] /\ todo' = [todo EXCEPT ![p] = <<>>] /\ UNCHANGED port

(* A scan goes on with the next port, and so does the open of a USB device  *)
(* that was not named.                                                     *)
NextPort(p) ==
    \/ /\ fn[p] = "scan" \/ driver \in Usb
       /\ port[p] < Ports /\ driver # "acr122_pcsc"
       /\ port' = [port EXCEPT ![p] = @ + 1] /\ UNCHANGED fn
       /\ \E c \in IF fn[p] = "scan" THEN {Scan} ELSE Open : todo' = [todo EXCEPT ![p] = c]
    \/ (fn[p] = "scan" => port[p] = Ports \/ driver = "acr122_pcsc") /\ Return(p)

(* Mutant: the mark of a serial port is not tested. *)
CanTakeClaimed(p, s) ==
    s.take = {"interface"} => \A q \in Programs : ~Holds(q, port[p], "interface")

(* What another program, or this one, has claimed. *)
CanTake(p, s) ==
    /\ s.take = {"port"} /\ driver \in Serial => port[p] \notin claimed
    /\ s.take = {"interface"} => \A q \in Programs : ~Holds(q, port[p], "interface")

(* Program q found serial port i free, and has not marked it yet. *)
Between(q, i) == driver \in Serial /\ port[q] = i /\ "port" \in mine[q] /\ "claim" \notin mine[q]

(* A call succeeds, and is not the last. *)
Succeeds(p) ==
    LET s == Head(todo[p])
    IN  /\ fn[p] \in {"scan", "open"} /\ Len(todo[p]) > 1 /\ CanTake(p, s)
        /\ mine' = [mine EXCEPT ![p] = (@ \cup s.take) \ s.give]
        /\ todo' = [todo EXCEPT ![p] = Tail(@)]
        /\ claimed' = IF s.take = {"claim"} THEN claimed \cup {port[p]} ELSE claimed
        /\ raced' = IF s.take = {"port"} /\ \E q \in Programs \ {p} : Between(q, port[p])
                    THEN raced \cup {port[p]} ELSE raced
        /\ refs' = IF "context" \in s.take THEN [refs EXCEPT ![p] = @ + 1]
                   ELSE IF "context" \in s.give THEN [refs EXCEPT ![p] = @ - 1] ELSE refs
    /\ UNCHANGED <<driver, fn, port, devices, lost, found, attempts, twice, abandoned, kills>>

(* A reader was found at this port. *)
Found(p) ==
    LET s == Head(todo[p])
    IN  /\ fn[p] = "scan" /\ Len(todo[p]) = 1 /\ CanTake(p, s) /\ driver # "acr122s"
        /\ Release(p, port[p], mine[p], s.give) /\ mine' = [mine EXCEPT ![p] = {}]
        /\ found' = [found EXCEPT ![p] = @ \cup {port[p]}] /\ NextPort(p)
    /\ UNCHANGED <<driver, devices, attempts, raced, kills>>

(* The device is open. *)
Opened(p) ==
    LET s == Head(todo[p])
        has == mine[p] \ s.give
    IN  /\ fn[p] = "open" /\ Len(todo[p]) = 1 /\ driver # "acr122s"
        /\ devices' = [devices EXCEPT ![p] = @ \cup {[port |-> port[p], call |-> attempts, has |-> has]}]
        /\ mine' = [mine EXCEPT ![p] = {}] /\ Return(p)
    /\ UNCHANGED <<driver, lost, found, refs, claimed, attempts, raced, twice, abandoned, kills>>

(* A call fails.  An error that ends a scan forgets what it had found. *)
Fails(p) ==
    LET s == Head(todo[p])
    IN  /\ fn[p] \in {"scan", "open"} /\ (s.give = {} \/ s.undo # {})
        /\ Release(p, port[p], mine[p], s.undo) /\ mine' = [mine EXCEPT ![p] = {}]
        /\ IF s.next THEN NextPort(p) /\ UNCHANGED found
           ELSE Return(p) /\ found' = [found EXCEPT ![p] = {}]
    /\ UNCHANGED <<driver, devices, attempts, raced, kills>>

(* The close function of the driver. *)
DoClose(p, d) ==
    /\ fn[p] = "none" /\ d \in devices[p]
    /\ devices' = [devices EXCEPT ![p] = @ \ {d}]
    /\ Release(p, d.port, d.has, Close)
    /\ UNCHANGED <<driver, todo, fn, port, mine, found, attempts, raced, kills>>

(* The program dies: the system takes everything back, but the settings of  *)
(* a serial port stay as they are.                                         *)
Kill(p) ==
    /\ kills < MaxKills /\ kills' = kills + 1
    /\ abandoned' = abandoned \cup {i \in 1..Ports : Holds(p, i, "claim")}
    /\ todo' = [todo EXCEPT ![p] = <<>>] /\ fn' = [fn EXCEPT ![p] = "none"] /\ mine' = [mine EXCEPT ![p] = {}]
    /\ devices' = [devices EXCEPT ![p] = {}] /\ lost' = [lost EXCEPT ![p] = {}]
    /\ found' = [found EXCEPT ![p] = {}] /\ refs' = [refs EXCEPT ![p] = 0]
    /\ UNCHANGED <<driver, port, claimed, attempts, raced, twice>>

Next ==
    \E p \in Programs :
        \/ DoScan(p) \/ Succeeds(p) \/ Found(p) \/ Opened(p) \/ Fails(p) \/ Kill(p)
        \/ \E i \in 1..Ports : DoOpen(p, i)
        \/ \E d \in devices[p] : DoClose(p, d)

Spec == Init /\ [][Next]_vars

-----------------------------------------------------------------------------
(* What the functions of a driver forget.  A USB reader whose interface is  *)
(* forgotten cannot be opened again until the program ends.                *)
Forgets ==
    CASE driver \in Serial -> {"pipe"}
      [] driver \in Usb -> {"handle", "interface", "chip_data"}
      [] driver = "pn532_spi" -> {}
      [] driver = "pn532_i2c" -> {"name"}
      [] driver = "acr122_pcsc" -> {"context", "card", "chip_data", "number"}

(* No error path gives back what it does not hold, or twice, nor forgets    *)
(* anything else; and the PC/SC context that the devices of a program share*)
(* is counted as often as they use it, so that it is there as long as one  *)
(* of them is open.                                                        *)
Balanced ==
    /\ ~twice
    /\ \A p \in Programs : {l.what : l \in lost[p]} \subseteq Forgets
    /\ \A p \in Programs :
          LET users == Cardinality({d \in devices[p] : "context" \in d.has}) +
                       (IF "context" \in mine[p] THEN 1 ELSE 0)
          IN  IF \E i \in 1..Ports : Holds(p, i, "context") /\ Lost(i, {"context"}) \subseteq lost[p]
              THEN refs[p] > users ELSE refs[p] = users

(* CCLAIMED tells the truth: a serial port is marked as long as a program  *)
(* has it and no longer, however often others find it taken, or fail to    *)
(* mark one that was free; unless two programs found it free at the same   *)
(* time, or it was left marked by one that was killed or could not put the *)
(* settings back.                                                          *)
ClaimTells ==
    \A i \in 1..Ports \ (raced \cup abandoned) :
        i \in claimed <=> \E p \in Programs : Holds(p, i, "claim")
=============================================================================
