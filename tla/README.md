# A TLA+ model of programmeBeeGadz

programmeBeeGadz is the program of a contactless payment terminal: a PN532 reader through libnfc,
MIFARE Classic cards that carry a credit and tickets, a history table in one or more MySQL servers,
and four modes. **Bar** sells drinks: CONSO cards laid on the reader make up an order, and a DEBIT
card pays for it. **Caisse** is the till. **Kve** debits a typed price. **Admin** is the menu that
creates cards and chooses the mode. The credit lives *on the card*. Nothing but a few pages of
sequential C++ stands between a card that is lifted, torn, re-laid or used elsewhere in the middle
of an operation and a wrong credit, and that is what this project is about.

Under it lie libnfc 1.7.1 and jsoncpp, which the repository carries along: what the program believes
of a card is what libnfc's copies of the PN53x's settings, its register cache and its exchanges with
the reader let through, and the evening's prices are what jsoncpp makes of a hand-edited file. They
are modelled too.

The reference is the code: line numbers in the comments are those of `src/src/*.cpp` or of the file
of libnfc they name. The program itself has no tests, and hardly a comment.

## 1. Inventory

### The terminal

| component | state | operations | hard behaviours | what makes it correct |
|---|---|---|---|---|
| **Card / Sector / Block** (`card.cpp`, `sector.cpp`, `block.cpp`) | cached sectors, a state CLEAN / DIRTY / MODIFIED per block, UID, keys | construction, `readSector`, `writeSector`, `authenticate`, `readData`, `writeData`; `setPermissions`, `setKeyA`, `setKeyB` | the tag leaves between any two radio exchanges, and comes back; an answer is lost; an operation returns true with blocks left out; the key loop runs past the keys; permissions of four groups share three bytes | a block is written only over the content that was read, or an error is printed; only MODIFIED blocks of the right tag change; a trailer says what was asked |
| **NfcDevice** (`nfc_driver.cpp`), **mifare.c** | libnfc device, cached infinite-select flag | `findCard(keys)`, `findCard(uid)`, `infiniteSelect`, `mifareCmd` | selection ends and starts sessions; an unsupported tag makes the Card constructor throw; a change of the number of tries fails and nobody looks | no exchange with a tag other than the selected one; a test for a card comes back |
| **Mode** (`mode.cpp`) | pointers to printer, device, config; LCD queues | `isAdmin` ... `isConso`, `getCredit`, `getTicket`, `createDebit`, `writeCard`, `sendHistory`, `setCommand`, `print`, `sendSOS` | `writeCard` swallows everything; messages pile up | the modes' properties; the display catches up |
| **Bar** | card, `read`, the order, the time of its last change | `run` and its helpers | partial reads, torn writes, unknown consos, ten seconds, missed polls; rows sent after the debit, and sent for a debit that was not written | credit and rows part only by a power cut after the debit or a debit not written; one placement is one drink; tickets have rows |
| **Caisse** | card, `read` | `run`, `incrementCredit` | waits at a prompt for as long as the operator likes | a top-up never undoes a debit made meanwhile; only blank cards are formatted |
| **Kve** | card, `read`, `ticket`, its time | `run` | the same prompt, and a ticket announced before the card comes | as Caisse; no price leaves a debt; one press, one ticket |
| **Admin** | none of its own | menu, `createAdmin`, `createConso`, `createSOS`, `createDebit`, `setTicket` | writes cards it never read; a prompt between the card and its ticket; an exception leaves the menu | a card is what the menu said, or an error was printed; the right mode runs next |
| **Application** | printer, config, nfc, databases, the mode object | constructor, `clean`, `create_mode`, `run`, `sendRequest` | failure at each step of the start; freeing and then throwing | nothing freed is used; the menu leads back to the desk it came from |
| **Mysql** | one connection each | constructor, `sendRequest` | a server that is down misses the row, the others have it; a power cut between two servers | a server lacks only what it missed itself; tables can be merged |
| **Config** | mode, consos, keys, ticket index | `getMode`, `setMode`, `getConso`, `getKeys` | a mode that is none of the four; an unknown conso | the modes' properties |
| **Printer**, **Python bridge**, LCD scripts, updater | terminal | output, keys | | pure I/O |

### What it carries along

| component | state | operations | hard behaviours | what makes it correct |
|---|---|---|---|---|
| **Registers and settings of the PN53x** (`chips/pn53x.c`, `nfc.c`, `nfc-device.c`) | write-back cache and masks; the booleans of `nfc_device`; parameters and tries in the chip | `pn53x_write_register`, `pn53x_writeback_register`, `pn53x_transceive`, `pn53x_set_property_bool`, `nfc_initiator_init` | masked writes wait for the next command; an exchange fails before or after the chip did it; a copy that agrees stops a setting from being sent | no command overtakes a register write; a copy that is believed is true |
| **Targets** (`chips/pn53x.c`) | `current_target` beside the chip's own selection, the number of tries | select, list, poll, deselect, idle, one way per kind of target to ask whether it is present | targets come and go during a call; the answer of a listing is lost | "present" was answered by that target; each call leaves the tries as they were |
| **Frames and emulated targets** (`chips/pn53x.c`, `mirror-subr.c`) | bits of the last byte, timer | `wrap_frame`, `unwrap_frame`, the transceive calls, `target_init`, a target's calls | parity bits shift every byte; the timer's prescaler is rounded; the command depends on settings of earlier calls | bit for bit what was given is sent and what came is returned |
| **Exchanges of the drivers** (`drivers/*.c`) | power mode, last command, abort pipe or flag | send, receive, abort of seven drivers | late, lost and garbled answers; an abort from another thread | an answer is that of its call; the link comes back in step |
| **Scan, open, close** (`drivers/*.c`, `buses/*.c`) | handles, memory, pipes, claims, the PC/SC context | `*_scan`, `*_open`, `*_close` of eight drivers | every call may fail, putting settings back included; two programs, one reader; a killed program | nothing is given back twice or without having been taken; the mark of a port tells the truth |
| **Context** (`nfc.c`, `nfc-internal.c`, `conf.c`) | configuration, user's devices, registered drivers | `nfc_init`, `nfc_list_devices`, `nfc_open`, `nfc_exit` | optional devices in a caller's array | no more devices than there is room for |
| **JSON library** (`jsoncpp.cpp`, `json.h`) | a tree of values | conversions, orders, changes, two writers, the reader | ends of number ranges, holes in arrays, commas and comments in odd places | what is written is read back; the reader takes JSON |

How they interact: `main` builds one Application, which builds Printer, Config, NfcDevice, the Mysql
objects and a Mode. `Application::run` calls `Mode::run` until the user quits. A mode polls NfcDevice,
which builds the Card; the Card calls back into NfcDevice for each exchange, and NfcDevice calls
libnfc, whose chip code calls its driver; rows go through the `std::function` m_sql to
`Application::sendRequest` and every database. Config reads its file with jsoncpp, once. There is one
thread. All concurrency is that of the terminal with the customers, the other terminals, the clock,
the databases and the power supply - and, in libnfc, with the chip, the line and whoever calls
`nfc_abort_command`.

`PROJECT.json` lists every hazard at its line with the properties that watch over it.

## 2. Modules

```
 the evening        Event  =  Caisse || Kve  on shared cards
                                 \      /
 the modes            Bar       CardDesk        Admin        Application     Screen
                        \          |           /                  |
 one card            CardSession ----- refines ----> CasCard    History      Sector
                           |
 the reader           NfcDevice
                           |  EXTENDS
                      Pn53xSettings
                           |  EXTENDS
                      Pn53xRegisters -- refines ----> RegisterFile

 beside it            Pn53xTargets     Pn53xEmulation --EXTENDS--> Pn53xFrames
 below it             HostLink         DriverOpen          NfcContext
 the file             JsonText --EXTENDS--> JsonValue
```

| module | role |
|---|---|
| `CasCard` | abstract: what a terminal promises about the blocks of a card |
| `CardSession` | Card, NfcDevice and the card loop of the modes, exchange by exchange |
| `Bar` | `Bar::run` with all its helpers |
| `CardDesk` | what `Caisse::run` and `Kve::run` share |
| `Caisse`, `Kve` | the two modes with a prompt |
| `Event` | a till and a counter, and the cards carried between them |
| `Admin` | the cards the menu creates |
| `Application` | constructor, `clean`, `create_mode`, `run` |
| `History` | `sendRequest` over the databases |
| `Screen` | the queues of the LCD |
| `Sector` | the trailer of a cached sector |
| `RegisterFile` | abstract: what a register cache promises |
| `Pn53xRegisters` | the write-back cache |
| `Pn53xSettings` | the settings and their copies, `nfc_initiator_init`, the commands that depend on them |
| `NfcDevice` | the program's NfcDevice on those settings |
| `Pn53xTargets` | selection, polls and presence checks |
| `Pn53xFrames`, `Pn53xEmulation` | frames and timers; the calls that use them |
| `HostLink`, `DriverOpen`, `NfcContext` | exchanges; scan, open and close; configuration and lookup |
| `JsonValue`, `JsonText` | values; their texts |
| `MC*` | small instances, one `.cfg` each; `MCUserNamed.cfg`, `MCJsonResize.cfg` and `MCAdminConso.cfg` ask one more question of `MCLibraries`, `MCJson` and `MCTerminals`, and `MCEvent.cfg` is the evening of `MCTerminals` |
| `*Proofs` | theorems, section 4 |

`MCNfcDevice` (the device; targets), `MCTerminals` (menu; evening; application; sector; history),
`MCJson` (JSON; screen) and `MCLibraries` (link; drivers; context; frames) check several specifications in one run:
a variable `part` chooses one at the start (of those the run is about, `Parts` in `MCTerminals`) and only that one moves. Their states add up, nothing is
multiplied, and a property of a part is a property of every behaviour in which it moves. Theorems
about such a run are theorems of its `MCSpec`, or (`LibrariesProofs`) of the specification of the one part,
of which the run's behaviours are special cases.

Operators with the comment *Mutant* are deliberate bugs, each next to the definition it would
replace; no specification uses them. They document what the properties can detect.

### CardSession and CasCard

State: the tag on the reader (`field`), the tag the reader is in session with (`link`), what every
tag holds (`mem`), the Card object (`held`, `cache`, `st`), and the program counter: `poll`, `find`,
`found`, `edit` are places of a mode's loop, `auth`, `retry`, `xfer`, `lost` of `authenticate`,
`readData` and `writeData`, with the operation, the block and the key index as further state. Actions are one radio exchange or one decision each, so tags are lifted and
put back, and rewritten elsewhere, between any two of them.

Two facts carry the safety of the whole program, and neither is written down in it. A MIFARE tag
that was lifted, or an exchange that failed, has lost its session: it answers again only after it
was selected again. And `authenticate` first *tries a key*, and looks for the tag again only
after that failed - moving on to the *next* key, of which the configuration has none
(`card.cpp:172-189`, `config_driver.cpp:64-75`: `m_keys` holds six bytes, one key). So the first
block after a lift is never written: what looks like a useless retry loop is what makes a write a
compare-and-swap. The loop does read past the configured key (`card.cpp:189` multiplies a byte
count by six); `OverreadHits` says whether what lies there may be the tag's key. The
run and two of the theorems assume it is not.

`CasCard` states the promise: a block is written only if it still holds what the session last saw
of it; blindly only if the session never saw it (Admin does not read); and freely only after an
error about a block has been printed. `CardSession` refines it with the same names.

### Bar

`readSector` and `writeSector` are one step each here, with the outcomes CardSession gives them: any
set of blocks read, or an exception; any set of MODIFIED blocks landed. The steps of a turn are the
places where another row is sent or the card is written, so that a power cut can come between them:
`top` (keys and clock), `poll`, `find`, `read`, `process`, `ticket`, `price`, `rows`, `settled`.
`getConso` throws where the code's does, and the order then stays as the code leaves it. Amounts are
integers of the currency's smallest step (prices are multiples of half a euro, which floats
represent exactly). Four history variables keep the accounts: `sent`, the amounts of the rows that really
were sent (`Log` adds one row at a time, a power cut adds none), `spent` for the ticket's rows, `unpaid` and `cut`,
the cards of which a debit was not written or a row was never sent: `writeCard` swallows what goes wrong, and the rows
come after the card.

### CardDesk, Caisse, Kve, Event

`CardDesk` is the loop up to a card that was read, with the prompt as a place (`prompt`) where
anything may happen outside: customers lift the card, other terminals change its credit (to a debt, too: the
till takes a negative sum like any other, `caisse.cpp:90-97`), take a ticket,
make a card of a blank one or leave it half made (`Elsewhere`), it is put back. `broken` says the tag was lifted since it was last selected; by CardSession the first block
of the next operation then fails (`Lands`; a first block that cannot be read, in `Read`). A read that
left blocks out, or a creation that did, makes its card `suspect`: an error was printed about it.
`owed` is the account: a tag's initial credit and its rows, a row whose write did not land counting
for nothing. `EndTurn` forgets the cached blocks, which the code keeps and never looks at again.

Caisse adds `createDebit`, the limit of 250, `incrementCredit` with its early return, and the row.
Kve adds the announced ticket with its keys and ten seconds, `decrementTicket`, the comparison with
the credit, `Bar::decrementCredit` with its early return on zero, and the row.

`Event` instantiates both over the same `mem`, `owed` and `suspect`, each with a reader of its own; a
card lies on one reader at a time. `Relies` closes the circle: what the theorems of one mode assume of "other
terminals" (`Elsewhere`) is what the other mode does, step by step. It is stated as two refinements: the
evening, with the counter's state hidden, is a behaviour of Caisse among other terminals, and with the
till's hidden one of Kve. What is written to a card before its row is sent is the other terminal's
secret: the account a terminal sees (`TillOwed`, `CounterOwed`) allows for it.

### Admin, Application, History

`Admin` has one place per prompt (`cards`, `conso`, `lay`, `create`, `ticket`), `made` is what each
card held, what the menu has promised of its blocks since and the credit it was given elsewhere, `lost` the cards about which an error
was printed when they were last written. Blocks stay MODIFIED after a write, so
the ticket writes the credit and the kind again; only the broken session protects a card that was
topped up in between. The ticket index of a conso that does not exist is stored as a byte.

The objects `clean` frees are null, live or freed; the constructor may fail at each step; a key
press after an error goes through `clean` and throws; `create_mode` is shared by constructor and
`run`; `run` saves the mode in `tmp` and restores it once the menu object exists. `m_mode` is uninitialised when the mode's
name is none of the four: `mode` is then any of them, or garbage. Modes are reduced to how they end.
(`Printer` is taken as built: a missing `lcd.py` throws before anything else exists.)

`History` keeps `m_mysql`, the databases that answered at start-up, and walks them row by row (`next`).
Servers crash and recover between any two steps, a query may fail on a server that is up, and a
power cut may come between two servers. Nobody looks at the result of a query, and so does the model.

### Screen, Sector

`Screen` is `Mode::setCommand` and `Mode::print`: a queue per line, the age of the message shown, and
the display. `Sector` is byte by byte, for four and sixteen blocks, as the code is: the access bits are
computed by shifts and masks, and the property reads them the way a card does. Nothing in the
program sets permissions; `Sector` is checked as the library function it is.

### Pn53xRegisters, RegisterFile, Pn53xSettings, NfcDevice

A register is a set of bits. `wb_data`, `wb_mask`, `wb_trigged` and the registers of the chip are
state; a command's way is `cmd` (asked), `read` and `write` (the write-back of
`pn53x_writeback_register`), `idle`. Each exchange succeeds, fails before the chip did it, or after. The
abstract `RegisterFile` has a register `reg` as its writers left it and `hw` as the chip has it.

`Pn53xSettings` adds `pn53x_set_property_bool` with its early returns and copies, `nfc_initiator_init`,
`pn53x_initiator_init`, the settings of each driver, and the transceive calls that change
`BitFraming`. A call is a list of steps (`todo`) that a failure cuts short: that is how the C code's
chains of `if ((res = ...) < 0) return res` are modelled. `NfcDevice` puts the program's own copy
`m_infinite` on top, the search that waits in the chip, and a customer.

### Pn53xTargets, Pn53xFrames, Pn53xEmulation

`Pn53xTargets` is one exchange per action, with the driver's local variables, over targets of the
eleven kinds the code tells apart. `selected` is the chip's, `current_target` the driver's.

In `Pn53xFrames` a bit is named and not valued: data bit *i* is *i*, a parity bit says whose it is. A
frame that loses, repeats or swaps a bit can then be told from one that does not, whatever its
values would have been. The timer is arithmetic modulo the width of the code's integers, the prescaler
modulo that of the chip's register; both are small in the run (`CounterMax`, `PrescalerMax`, `Word`). The driver rounds the prescaler
down, where the documentation of the timed calls (`nfc.c:834`) gives a precision of one count: `CyclesTrue` says how far a
result may be from the truth. `nfc_target_init` turns easy framing on (`nfc.c:951`), its documentation says off (`nfc.c:919`); the code is followed.

### HostLink, DriverOpen, NfcContext

`HostLink` has the line as a sequence, what the chip still owes, and a stack of calls (a wake-up
nests a SAMConfiguration into a send, an ARYGON abort a Diagnose). In `DriverOpen` each function is
the sequence of its fallible calls with what each takes, gives back and undoes, so that one set of
actions runs eight drivers. `NfcContext` reads the configuration, registers drivers and looks devices
up.

### JsonValue, JsonText

The conversions are modelled at small widths (three bits for `Int`, five for `Int64`; a real counts
halves), as all of them are comparisons with ends of ranges. `JsonText` writes and reads sequences
of tokens; `parse` is a recursive function over positions, as `Reader::readValue` is. Its reference
definition, `Denotes`, is JSON's grammar and has nothing to do with the reader.

## 3. What is checked

| run | states | asks |
|---|---|---|
| `card_session` | 637 k | `OpReported`: "true" means each block was transferred or had an error printed; `FreshView`: an unbroken session without an error has a fresh copy; `OnlyEdited`: the tag on the reader changes only in MODIFIED blocks of its own Card; `OpTerminates`; `Refines`: CasCard |
| `bar` | 951 k | `Ledger`: what left a card's credit and its rows differ only by the rows a power cut kept from being sent and by those of a debit that was not written; `TicketLogged`: no ticket leaves a card without its row, power cut or not; `CountedOnce`: one placement of a CONSO card is one drink, and one more per missed poll; `OrderSettles`: an order is settled, cancelled or added to for ever |
| `caisse` | 651 k | `Ledger` through the prompt; `KindKept`: only blank cards are formatted |
| `kve` | 725 k | `Ledger` through the prompt; `NoOverdraft`: no price, a negative one included, leaves a card in debt; `TicketPerPress`: a ticket is taken only after a press, one for one |
| `event` | 808 k | `Ledger` over both terminals; `Relies`: each is, step by step, what the other's theorems assume |
| `terminals` | 2,229 k | menu: `AsAsked`, a card without an error printed is what the menu said, or what it was, and keeps what it was given since, be it the one laid down or another swapped in. Application: `NoDangling`, nothing freed is used; `ReturnsHome`, the menu leads back. `TrailerSays`: bits and keys of a trailer are those last asked for. History: `OnlyItsOwn`, a table lacks only the rows its own server missed; `Mergeable`, in order, each once |
| `json` | 36 k | `ValuesSound`, what a value says of its conversions is what they do, and the order is total; `RoundTrip`, either writer's text is read back; `ReaderExact`, the reader takes JSON and gives its value. `CatchesUp`: once the mode is quiet, each line of the screen ends with its last message or nothing |
| `nfc_device` | 877 k | `CommandSeesWrites`: a command reaches the chip after the register writes asked for earlier; `Writethrough`: RegisterFile; `SettingsKnown`: the copies are true, `nfc_initiator_init` does what its documentation says; `InfiniteKnown`, `SearchReturns`: the program's third copy of the number of tries, and the test for a card comes back; `CallsTold`: a target said to be present was there, calls leave the tries as they were |
| `libraries` | 542 k | `OwnAnswer`, `BackInStep`, `AbortEnds` of the link; `Balanced`, `ClaimTells` of scan, open and close; `ListFits` of the device list; `CallsFit` of frames, timers and modes |
| `admin_conso` | | violated: `ConsoKnown` |
| `user_named` | | violated: `UserNamed` |
| `json_resize` | | violated: `ResizeAssertion` |

The last three are expected to fail, and are findings (section 3.1). All others hold. What was learnt on the way:

- The protection against a stale write-back, and therefore all ledgers, rests on the reader
  session and on there being exactly one key. A second configured key would be found on the retry,
  and a card debited elsewhere during the prompt would get its money back.
- Bar debits a card before it sends the rows (`bar.cpp:159-161`) and sends them without asking whether the debit was
  written: a power cut between the two loses them, and a card lifted in time drinks for rows without money. `Ledger`
  says that these two, `cut` and `unpaid`, are all: it has one inequality for each. Errors of reading are no third, *because* `decrementCredit`
  returns on a credit of zero (`bar.cpp:28`): a credit block that was not read looks like zero.
  Caisse has no such guard, and a card whose credit was not read gets the typed amount as its whole
  credit; an error was printed then. The same holds for a card whose first block was not read: it
  is formatted.
- A CONSO card that one poll misses counts twice, though it never moved; `CountedOnce` says that this is the only way.
- An order with an unknown conso (Admin can create the card: `admin.cpp:93` lets one past the last
  through) blocks every payment until the ten seconds or `-` cancel it, but it always is cancelled.
- Bar sends a ticket's row before it writes the card, Kve after: a power cut loses Kve's row, never
  Bar's (for a ticket; the rows of the price come after the debit in both). In Kve the row of a card's last ticket is named after conso 0, because `getTicket` looks at
  the decremented count.
- A register write whose write-back fails is forgotten, and the copies go on saying it was done
  (`forgotten` in `CopiesTrue`); `wb_trigged` is reset before the first read of a write-back, so that a
  failed *read* leaves writes that wait unseen until the next one (`stranded` in `CommandSeesWrites`).
- A presence check may be answered by another target once a listing failed on the host's side
  (`mistaken` in `PresentWasThere`).
- Frames come through bit for bit, but in the cases `Excepted` names, and in every one of them they do
  not: a single byte with a parity bit of the program's own, bytes sent by a target after bits,
  `bits_timed` after whole bytes, and last bytes that are not whole.
- The reader of the JSON library refuses a comment in an empty array and before a colon, and minds
  nothing after a comment that follows a member (`Refused`, `Indulged`).
- `CCLAIMED` on a serial port is a test and a later set, survives a program that is killed, and is taken back by
  whoever fails to set it (`uart.c:133-135` puts back the settings as they were read): of two programs that found
  a port free, the one whose `tcsetattr` fails unmarks the port of the other. `ClaimTells` therefore excepts a port from the
  moment a second program finds it free (`raced`), and one whose settings could not be put back (`abandoned`).
- With room for a number of devices, an optional one of the user that is there and takes the last place leaves the
  scans with no room at all (`ListFits`); one that is not there, or that comes earlier, does not.

### 3.1 Findings

- `admin_conso`: `admin.cpp:93` compares with `>`, so that the digit after the last conso is accepted
  although the message of that guard is "Mauvaise conso".
- `user_named`: the loop of `nfc_open` that should give the device its user's name (`nfc.c:277`) runs
  while `i > user_defined_device_count`, from zero: never.
- `json_resize`: `resize` of an array whose elements below the new size were never touched makes it
  shorter than asked, against the `assert(size() == newSize)` of `jsoncpp.cpp:2302`.

### Bounds, and why they are enough

- `card_session`: two tags and one unsupported tag, so that swapping, re-laying and throwing all happen;
  two blocks, enough for a torn write in both orders; two values; `KeyTries = 2` for the real loop's
  six, enough for "next key" and "no key left", which is all the index decides.
- `bar`: two DEBIT cards, one with a ticket that can pay a part of what may be ordered, one that can pay nothing; a CONSO card of each of
  two consos and one of none (`BadId`); a card is found again until rows for more than `MaxSent = 1` went out, so that
  a second order follows a first one whether it was debited, not written or cut; `MaxOrder = 2` drinks, so that orders that mix prices, a
  ticket that covers part of an order, and an order that empties all occur.
- `caisse`, `kve`: cards that the mode tells apart, each once (to Kve a CONSO card is what an SOS card is; `kve` has two tickets on its DEBIT card, so that a
  second press could take a second one); `Credits` and `Typed` include negative amounts, a
  credit of zero, an amount over the limit (Caisse) and one above the credit (Kve); `MaxSuspect = 1` card about
  which errors are printed, any number of times. The blank card of `caisse` carries bytes of an earlier use.
- `event`: a card that holds money and a ticket, a blank one with bytes of an earlier use, credits from -1 to 1 and sums of
  -1 and 1 at a limit of 2, so that a top-up may leave a debt and a price may be negative: each terminal creates, credits or debits a card or takes the ticket while the other waits at its prompt with a copy
  of the same card. No error is printed about a card here (`MaxSuspect = 0`): `caisse` and `kve` have those, from both
  sides, and `TerminalsRely` covers them in what the terminals do to each other.
- `terminals`: a new card, a used one and a tag of another kind for the menu, one conso so that the number past the last exists;
  three databases, one more than the configuration names, so that one lies between two others, and two rows, so that
  one may be missed or interrupted and the other not; sectors of both sizes, two keys, three calls, so that one group
  is set twice with another in between. The two cards of the menu are interchangeable, and `MCSymmetry` says so: no
  property of this run is a liveness property, and swapping them maps `MCInit`, the steps and every property to themselves.
- `json`: values up to two levels deep with every type and every end of a range, texts of four of
  them with two edits. Screen: two lines, three messages in a queue, two lasting and a passing one.
- `nfc_device`: three calls, two failures, thirteen of the bits and seven cached registers, every one
  the modelled calls touch. Targets: three calls, one failure, three targets in three combinations of kinds: two that
  answer to the same modulation and one that does not.
- `libraries`: three calls, a fault and an abort per link, so that a disturbed call is followed by one
  that may take its answer and one that must be in step again; two programs, two ports, one
  kill; four lines of configuration, two user devices; frames of 7, 8, 12 and 76 bits: a short frame, a whole byte,
  a byte and a rest, and nine bytes and a half, one more than a carry of parity bits takes to come round.

The theorems of section 4 have none of these bounds but those that count calls or rows, and hold for every value of them.

### Fairness and deadlock

`CardSession` assumes weak fairness of `CardOp`: the one thread keeps executing an operation it has
begun; nothing is assumed of customers, nor of the mode. Bar's `FairSpec` assumes weak fairness of `Run` (its loop polls without ever waiting: keys and cards are
read in non-blocking mode) and of the clock. `NfcDevice` and `HostLink` assume that the host goes on with the call it is in, and `HostLink` that
what the chip owes arrives; not that it arrives in time. `Screen` assumes that the mode's loop
prints and that seconds pass. Nothing is assumed at the prompts of Caisse and Kve, of databases or of targets, and no liveness is claimed for them.

Deadlock is checked but in `terminals` and `event` (the program really stops: `dead`), `json`, `nfc_device` and `libraries` (bounded
numbers of calls; a device that could not be opened).

## 4. What is proved

| theorem | statement |
|---|---|
| `CardSessionProofs!TypeCorrect`, `OpAnswer`, `WritesOnlyEdited` | `TypeOK`, `OpReported`, `OnlyEdited` |
| `CardSessionProofs!CacheFresh`, `CardImplementsCas` | `FreshView`, and `Spec => Cas!Spec`, if `NoLuck` |
| `BarProofs!TicketsLogged`, `BarLedger`, `BarCountsOnce` | `TicketLogged`, `Ledger`, `CountedOnce` |
| `CaisseProofs!CaisseType`, `CaisseLedger`, `CaisseKeepsKinds` | `TypeOK`, `Ledger`, `KindKept` |
| `KveProofs!KveType`, `KveLedger`, `KveNoOverdraft`, `KveTicketPerPress` | `TypeOK`, `Ledger`, `NoOverdraft`, `TicketPerPress` |
| `TerminalsProofs!EventLedger` | `Ledger` of till and counter together |
| `TerminalsProofs!TerminalsRely` | `Relies`, whatever is typed |
| `TerminalsProofs!MenuAsAsked` | `AsAsked` of the administrator's menu |
| `TerminalsProofs!ApplicationType`, `NeverDangling`, `HomeAlwaysKept`, `AlwaysReturnsHome` | `TypeOK`, `NoDangling`, `HomeKept`, `ReturnsHome` of the program |
| `TerminalsProofs!TrailerTells` | `TrailerSays` of a sector |
| `TerminalsProofs!LossesStayLocal`, `TablesMerge` | `OnlyItsOwn`, `Mergeable` of the history tables |
| `NfcDeviceProofs!Typing`, `Waiting`, `NoOvertaking`, `Implements` | of the registers alone: `TypeOK`, `NothingWaitsUnseen`, `CommandSeesWrites`, and `Spec => File!Spec` |
| `NfcDeviceProofs!DeviceNoOvertaking`, `DeviceImplements` | `CommandSeesWrites` and `Writethrough` of the whole device |
| `NfcDeviceProofs!TriesAgree` | `InfiniteKnown` |
| `NfcDeviceProofs!SettingsTrue` | `SettingsKnown` |
| `NfcDeviceProofs!CallsTell` | `CallsTold` of the targets |
| `LibrariesProofs!OwnAnswerHolds`, `BackInStepHolds` | `OwnAnswer`, `BackInStep` of every driver |
| `LibrariesProofs!BalancedHolds`, `ClaimTellsHolds` | `Balanced`, `ClaimTells` of every driver's scan, open and close |
| `LibrariesProofs!ListFitsHolds` | `ListFits`, for any devices and lengths of the list |
| `LibrariesProofs!CallsFitHolds` | `CallsFit`, for frames of any lengths, any answers and any timer |

Assumptions: only the modules' `ASSUME`s on the constants, all evaluated by the runs, and, where section 2 says
so, `NoLuck == TRUE \notin OverreadHits`, a hypothesis of the theorem itself. What they ask is what the
code's types and tables give: amounts are integers, of either sign where they are typed or on a card (`getFloat` takes
both), the prices of the bar's table are not negative, the
bytes of a key are bytes (`TerminalsAssumption`), the registers and bits that libnfc names are among those
of the chip (`SettingsAssumption`), the command that selects a card is one of the commands
(`DeviceAssumption`), no target is the null pointer (`TargetsAssumption`), the drivers are among libnfc's eight
and there is a port (`LibrariesAssumption`), there are finitely many connection strings (`ContextAssumption`), and the lengths of frames and the ranges of timer and
cycles are positive (`FramesAssumption`).

The arguments:

- *CardSession.* `FreshView` is not inductive, since a session may be re-established by the retry's
  `findCard`. The strengthening adds `OtherKey` (a session re-established during an operation goes
  with a later key or with an error printed), `SessionBroken` (after a failed exchange the session
  is down), `Targeted` (an operation is on a held Card, in a block of it) and `OpProgress` (the
  blocks before the current one are done or skipped). With them every write of a block finds it as
  it was seen, and each step maps to a step of CasCard or to a stutter.
- *Caisse and Kve.* `Ledger` needs `View`: between the read and the write, either the tag was lifted
  (and its first block will not land), or it lies there and holds exactly what was read of it,
  unless an error was printed. `View` and the account are carried through the shared steps by
  `LoopStep` and `WorldStep`, and through the write by `AddCreditFacts`. `TicketPerPress` needs
  that an announced ticket implies an unused press (`Announced`).
- *Event.* `EventInv` puts the inductive invariants of the two modes side by side, with the fact that a card
  lies on one reader only. A step of the till leaves what the counter knows of its own card alone, and
  the other way round; `TillStep` and `CounterStep` of the two modes' proofs give the rest, as they
  say what a step does to the account with no assumption about who else moves.
- *Relies.* The steps of a mode are its own in the refinement too (`TillSees`, `CounterSees`): they only have to be
  shown to book on the account that is seen what they book on the real one (`AccountsSeen`). What the other mode does is classified by what it does to a card (`TillHere`,
  `CounterHere` of the two modes' proofs): nothing, a ticket, a credit written with a row to come, a card created, an error printed; each of these is
  `Elsewhere`. Nothing is asked of what is typed: a debt left by a negative sum at the till is among what `Elsewhere` allows.
- *Admin.* `MenuInv` adds to `AsAsked`, which speaks of every card, where the card is between the choice and the end of its creation
  (`Laid`): on the reader unless it was lifted, and at the ticket prompt every block is MODIFIED and
  holds what the menu promised, unless it was lifted or an error was printed.
- *Application.* `NoDangling` and `HomeKept` need what is built at each place of the constructor
  (`Built`) and what `tmp` holds at each place of the loop (`WayHome`).
- *Sector.* `TrailerInv` says which bits of bytes 6, 7 and 8 each group owns. The shifts and masks of the code are
  division and remainder; that setting one group's three bits leaves the other groups' alone is
  shown bit by bit, by cases on the group and on the value.
- *Bar.* `TicketLogged` is not inductive: what matters is what may *still* be written. `Logged` says,
  place by place, that the rows sent so far allow for whatever number of tickets the cached block
  holds there (`Allows`): the number read at `process`, one less at `ticket`, and at `price` only if
  the block is to be written at all. `Ledger` is two inequalities, each with the cards it excepts, and needs that a credit about to be written back was read and not
  left blank (`Copied`), and what the price of an order does when one drink is added, paid by a
  ticket or sent as a row. A price is a fold over a set. The facts about it (it is an
  integer, it depends on the entries of the set alone, one entry more adds its value) are proved by
  induction over the subsets of the finite set of consos (`Induction`, from the least element of a set of numbers): the
  induction theorems of the library take an operator, which no installed prover can instantiate.
  `CountedOnce` needs that a tag already found since it was put down is the card that was found (`Told`).
- *History.* Connections are distinct, and the row in flight is in no table of a server still to
  come: an appended row is then later than all in its table, and a server that is passed over has
  the row among those it missed.
- *Registers.* Between two write-backs no mask is set unless `wb_trigged` says so, but for a write-back
  that failed to read (`Told`). Then what a command sees is what was asked (`Asked = chip`), and
  each step is a write, a success or a failure of the abstract file, or a stutter.
- *NfcDevice.* The registers' invariant is kept by every step of the settings and of NfcDevice, as each is a step of
  the registers or leaves them alone: hence the same two theorems for the device. `TriesAgree` follows a change
  of the number of tries through its call. `Pending(i)` says how far it is: the setting is among the
  steps left (`Ahead`), the copy is about to be changed (`Noting`), the command is about to be sent
  (`Sending`) or on its way (`Telling`), or chip and copy agree and nothing that is left touches them
  (`Tried`). Each exchange moves it on or breaks the call; in the first case `Mine` says that
  `m_infinite` follows, in the second that it is in `doubt`.
- *Settings.* `SInv` adds to it, for `SettingsTrue`: for each register that a copy speaks of, until a
  write-back was lost, `Follows(r)`: copy and register agree and no step left parts them (`Calm`); the register is to be
  written and the copy noted after it (`Writing`, `Marked`), with nothing between that could fail, as writes to
  cached registers only wait; or, while the device is opened and the register's content is not known, both are still to
  be set (`FirstTime`, `Resetting`, `Reset`). `Reckoned` follows `ui8Parameters`, `bAutoIso14443_4` and the chip's
  parameters through the three steps of their change. `Initiated` says of each thing that
  `nfc_initiator_init` promises that it is so or that a step left of the call makes it so (`Gone`, `Up`,
  `Fielded`, `Ledded`), and that no step left undoes it (`Setup`). `FirstTime` is why the chip may be found in any state:
  it rests on the copies being FALSE in a new `nfc_device`, so that the first `reset_settings` writes every register.
- *Targets.* `CallsTold` needs, until a listing has failed, that what the chip selected is `current_target` or
  nothing (`InHand`), and at each exchange of a call whether the copy of the number of tries is what
  the call found, and whether the chip has it (`InStep`).
- *HostLink.* What matters is the queue of what the host will still read: the line, then what the chip
  owes (`Q`), so that a message that arrives changes nothing. In a call that began with nothing under way
  `Mine` says at each point what the queue may hold: before a command, no acknowledgement and at most `K` messages
  (`Calm`); then the acknowledgement once at most, with nothing stale from there on (`Acking`); then nothing that
  could be taken for another answer (`Answering`). A message that is lost or garbled spoils none of these, as
  they only forbid. `Stacked` says that the exchange of the call is the outermost, for the part that is read
  next. For `BackInStep` the queue of a call that nothing disturbs is known exactly (`Going`): the acknowledgement and the answer,
  then the answer, then nothing. Neither theorem asks anything of the constants: any number of calls, faults and aborts.
- *DriverOpen.* A function is a list of calls, and what it holds before each is known from its text: `Sound` asks for such
  an assignment, in which every failure gives back all that is held but what `Forgets` lists, and an open
  ends with what `Close` can give back. It is shown for each of the scans and opens of the eight drivers, call by call
  (`FunctionsGood`). `OpenInv` then says that what is left of the function under way is `Sound` from what the program
  holds, that every device can be closed, and that the PC/SC context is counted once for each of its users, or more often
  once it was forgotten; each step takes the first call off the list. For `ClaimTells` a marked port has exactly one
  holder and an unmarked one none (`Exact`), and where a program found a port free and has not marked it yet (`Between`) it is the only
  one and the port is unmarked: so the settings a failing `tcsetattr` puts back are those of a port nobody marked, and closing one device
  does not unmark another's port; a step either keeps `Exact` or makes the port `raced` or `abandoned`. Both theorems are about any programs and ports,
  opens, devices and kills.

- *Device list.* `autoscan` and the user's devices are folds over sequences. A fold is a function on the subsets of the
  sequence's indices, chosen by its equation; `FoldExists` shows that there is such a function, `Folded` that on `1..k` it
  is what the first `k` elements make of the start, for any step function and any set of values the steps stay in. With
  room left at the start, a scan keeps "no more than there is room for, and the list is ended when there is none" (`ScansFit`);
  without, an optional device of the user that is there took the last place: the devices found so far are a fold whose last element is
  the last place (`TakenStays`), and it is one of those configured (`TakenGiven`). `ListInv`
  adds that nothing is listed before the configuration is complete.
- *Frames.* `wrap_frame` is a fold over the bytes, so `Folded` asks for one turn only (`ByteWrapped`): after `k` bytes
  all bits before place `9k` of the frame are right, and the byte begun holds those that fill no byte (`Wrapped`). A place is both
  `8j + o`, bit `o` of frame byte `j`, and `9a + c`, bit or parity bit `c` of data byte `a`; a turn shifts by `k % 8`, so the proof
  writes `k = 8g + p` and goes through the eight values of `p`. `unwrap_frame` is the same without a fold (`ByteUnwrapped`).
  `WrapIs` and `UnwrapIs` hold for any bits and parity bits, whatever they are called. `CyclesRight` adds up what the
  chip divides and the driver multiplies: the remainder is the tick, half a bit either way is the guessed parity, and the width
  of a number of cycles drops out, as it is a remainder of a sum that is right. What the calls do follows one by one, and
  where each of the excepted cases is wrong is shown as well, by a length or by a bit that differs. `ModeFits` needs
  `ModeOf`: from `target_init` on, what was asked of the chip, `ptm`, the kind of `current_target` and (unless it was switched)
  `bAutoIso14443_4` go together.

What the attempts showed about the model: `SettingsKnown` was stated with too narrow an exception.
`AUTO_ISO14443_4` on and off again, a write to a register that waits, and `AUTO_ISO14443_4` on whose
write-back then fails leave a parameter in the copy that the chip was never told, although the command itself
was never sent; `unsure` now covers the write-back before the command. It takes five calls,
more than the run makes.

Only model-checked:

- all liveness (`OpTerminates`, `OrderSettles`, `SearchReturns`, `AbortEnds`, `CatchesUp`): out of the prover's reach;
- `ValuesSound`, `RoundTrip`, `ReaderExact`, about texts and values of JSON, whose definitions recurse.

## 5. What is not modelled

- Printer, Python bridge, the LCD scripts and the updater: output, prompts and installation. What is
  typed is an input of the modes, what is shown is `Screen`'s `lcd`.
- `readAllCard` and `writeAllCard`, which loop `readSector` and `writeSector` over a card, and `Mysql::getData`,
  `getNextData` and `sendRequestData`: nothing calls them.
- The bytes of commands and value blocks in `mifare.c`: an exchange succeeds, fails, or succeeds with a lost answer.
- In Kve and Caisse, another terminal adds no tickets to a card that has a credit.
- Of jsoncpp: the text of comments and of numbers, `Path`, iterators, and the optional internal map and array.
- Of libnfc: the printing of targets and errors, the log, the CRC (the chip computes it), the command
  line tools and examples, which are programs of their own. `acr122s` is in `DriverOpen` only: its open
  never gets as far as an exchange.

## 6. What could come next

1. `readAllCard` and `writeAllCard` over several sectors, on `CardSession`, should a mode ever call them.
2. A theorem for the order of the messages of a line in `Screen`.
