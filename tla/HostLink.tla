------------------------------ MODULE HostLink ------------------------------
(***************************************************************************)
(* One exchange with a PN53x through a driver of libnfc: the send and      *)
(* receive functions of pn532_uart, arygon, pn53x_usb, acr122_usb,         *)
(* acr122_pcsc, pn532_spi and pn532_i2c, and pn53x_transceive which calls  *)
(* them.  A command is answered by an acknowledgement, then by an answer;  *)
(* both may come late, and an answer carries no more than the code of its  *)
(* command.  Another thread may abort the call that waits.  acr122s is not *)
(* here: its open never succeeds (see DriverOpen).                         *)
(***************************************************************************)
EXTENDS Naturals, Sequences

CONSTANTS
    Drivers,
    Commands,   \* the commands the program sends
    MaxCalls,   \* BOUND: calls of pn53x_transceive
    MaxFaults,  \* BOUND: messages lost or garbled, time limits passed, writes that fail
    MaxAborts   \* BOUND: calls of nfc_abort_command

VARIABLES
    driver,
    owed,         \* what the chip still has to put on the line, in order
    line,         \* what has arrived and is not read
    asleep,       \* the chip has to be woken up before it takes a command
    pc,           \* "idle", "send", "ack", "answer", or "drain" before the flush of an error
    stack,        \* the exchanges under way, the innermost first
    power_mode, last_command, last_error,
    abort,        \* abort_flag, or the pipe the reader waits on is closed
    answer,       \* the parts of the answer that were read
    result,       \* of the last call: "none", "ok", "empty", "error", "aborted"
    calls, faults, aborts,
    clean,        \* history: nothing of an earlier call was under way when this one began
    hurt          \* history: a fault or an abort met this call

chipvars == <<owed, line, asleep>>
hist     == <<clean, hurt>>
bounds   == <<calls, faults, aborts>>
vars     == <<driver, chipvars, pc, stack, power_mode, last_command, last_error, abort,
              answer, result, bounds, hist>>

Serial  == {"pn532_uart", "arygon"}                   \* bytes, and a flush before each command
Usb     == {"pn53x_usb", "acr122_usb"}                \* reads of 200 ms at a time
PN532   == {"pn532_uart", "pn532_spi", "pn532_i2c"}   \* opened in LOWVBAT
Polled  == {"pn532_spi", "pn532_i2c"}
Acked   == Serial \cup Polled \cup {"pn53x_usb"}
Patient == {"InListPassiveTarget", "TgInitAsTarget"}  \* sent without a time limit

Ack     == [kind |-> "ack"]
Junk    == [kind |-> "junk"]
Unknown == [kind |-> "unknown mode"]  \* of the micro-controller of an ARYGON reader
Answer(x, more) == [kind |-> "answer", cmd |-> x.cmd, call |-> x.call, part |-> x.part, more |-> more]

Exchange(c, n) == [cmd |-> c, call |-> n, part |-> 1, aborting |-> FALSE]
Nested(c) == Exchange(c, 0)
SAMConfiguration == "SAMConfiguration"
Diagnose == "Diagnose"

Top == Head(stack)

-----------------------------------------------------------------------------
(* The driver and the chip are just opened. *)
Init ==
    /\ driver \in Drivers
    /\ owed = <<>> /\ line = <<>> /\ asleep = (driver \in PN532)
    /\ pc = "idle" /\ stack = <<>>
    /\ power_mode = IF driver \in PN532 THEN "LOWVBAT" ELSE "NORMAL"
    /\ last_command = "none" /\ last_error = "ok" /\ abort = FALSE
    /\ answer = <<>> /\ result = "none"
    /\ calls = 0 /\ faults = 0 /\ aborts = 0 /\ clean = TRUE /\ hurt = FALSE

(* pn53x_transceive.  The functions of nfc.c reset last_error, but one of   *)
(* them may make several exchanges.                                        *)
Call(c) ==
    /\ pc = "idle" /\ calls < MaxCalls
    /\ stack' = <<Exchange(c, calls + 1)>> /\ pc' = "send" /\ calls' = calls + 1
    /\ last_error' \in {last_error, "ok"} /\ answer' = <<>>
    /\ clean' = (/\ owed = <<>> /\ ~abort
                 /\ asleep => power_mode # "NORMAL"
                 /\ line = <<>> \/ driver \in Serial
                 /\ driver = "pn532_i2c" => last_error' # "aborted")
    /\ hurt' = FALSE
    /\ UNCHANGED <<driver, chipvars, power_mode, last_command, abort, result, faults, aborts>>

(* The innermost exchange ends.  An error ends all of them; what follows an *)
(* abort on an ARYGON reader cannot change that the call was aborted.      *)
End(res) ==
    LET rest == Tail(stack)
        resumed == rest # <<>> /\ ~Head(rest).aborting /\ res \in {"ok", "empty"}
    IN  /\ stack' = IF resumed THEN rest ELSE <<>>
        /\ pc' = IF resumed THEN "send" ELSE "idle"
        /\ result' = IF resumed THEN result
                     ELSE IF rest # <<>> /\ Head(rest).aborting THEN "aborted" ELSE res

Fault == faults < MaxFaults /\ faults' = faults + 1 /\ hurt' = TRUE

(* A time limit passes: before its time, or because nothing comes any more. *)
TimeUp == Fault \/ (owed = <<>> /\ line = <<>> /\ UNCHANGED <<faults, hurt>>)

-----------------------------------------------------------------------------
(* What the chip and the line do: outside src/. *)

(* A new command, or an acknowledgement of the host, ends the one under way;*)
(* what it had already said may still come.                                *)
Interrupted == IF asleep THEN {owed} ELSE {owed, <<>>}

Take(x) ==
    IF asleep /\ driver # "pn532_i2c" THEN UNCHANGED <<owed, asleep>>
    ELSE /\ \E old \in Interrupted, more \in IF x.cmd = "InDataExchange" THEN {x.part = 1, FALSE} ELSE {FALSE} :
               owed' = IF driver \in Acked THEN old \o <<Ack, Answer(x, more)>>
                       ELSE Append(old, Answer(x, more))
         /\ asleep' = (x.cmd = "TgInitAsTarget" /\ driver \in PN532)

Deliver(m) ==
    /\ line' = Append(line, m) /\ owed' = Tail(owed)
    /\ asleep' = IF Head(owed).kind = "answer" /\ Head(owed).cmd = "TgInitAsTarget" THEN FALSE ELSE asleep

Arrive ==
    /\ owed # <<>> /\ Deliver(Head(owed))
    /\ UNCHANGED <<driver, pc, stack, power_mode, last_command, last_error, abort, answer, result, bounds, hist>>

Garble ==
    /\ owed # <<>> /\ Fault
    /\ Deliver(Junk) \/ (owed' = Tail(owed) /\ UNCHANGED <<line, asleep>>)
    /\ UNCHANGED <<driver, pc, stack, power_mode, last_command, last_error, abort, answer, result, calls, aborts, clean>>

-----------------------------------------------------------------------------
(* Mutant: what was on the line is left there. *)
uart_flush_nothing == line

(* uart_flush_input eats what has arrived. *)
uart_flush_input == <<>>

Flushed == IF driver \in Serial THEN uart_flush_input ELSE line

(* pn532_uart_wakeup, pn532_spi_wakeup, pn532_i2c_wakeup and the switch of  *)
(* the send functions.  An SPI chip that is asleep shows 0xff and is woken *)
(* by a SAMConfiguration at low speed, before the one LOWVBAT asks for.    *)
Wakeup ==
    /\ pc = "send" /\ driver \in PN532 /\ power_mode # "NORMAL"
    /\ LET first  == IF driver = "pn532_spi" /\ asleep THEN <<Nested(SAMConfiguration)>> ELSE <<>>
           second == IF power_mode = "LOWVBAT" THEN <<Nested(SAMConfiguration)>> ELSE <<>>
       IN  stack' = first \o second \o stack
    /\ power_mode' = "NORMAL" /\ asleep' = FALSE /\ line' = Flushed
    /\ UNCHANGED <<driver, owed, pc, last_command, last_error, abort, answer, result, bounds, hist>>

(* The frame is written. *)
Written ==
    /\ line' = Flushed
    /\ IF driver \in Acked THEN pc' = "ack" /\ UNCHANGED <<last_command, power_mode>>
       ELSE pc' = "answer" /\ last_command' = Top.cmd /\ UNCHANGED power_mode

Awake == driver \in PN532 => power_mode = "NORMAL"

Send ==
    /\ pc = "send" /\ Awake /\ driver # "acr122_pcsc" /\ Written /\ Take(Top)
    /\ UNCHANGED <<driver, stack, last_error, abort, answer, result, bounds, hist>>

(* The micro-controller of the ARYGON reader did not understand the first   *)
(* byte, and answers so.                                                   *)
SendMisread ==
    /\ pc = "send" /\ driver = "arygon" /\ Fault /\ Written
    /\ owed' = Append(owed, Unknown) /\ UNCHANGED asleep
    /\ UNCHANGED <<driver, stack, last_error, abort, answer, result, calls, aborts, clean>>

SendFails ==
    /\ pc = "send" /\ Awake /\ driver # "acr122_pcsc" /\ Fault
    /\ last_error' = "error" /\ line' = Flushed /\ End("error")
    /\ UNCHANGED <<driver, owed, asleep, power_mode, last_command, abort, answer, calls, aborts, clean>>

(* acr122_pcsc_send: the answer is back, and kept for the receive. *)
PcscSend ==
    /\ pc = "send" /\ driver = "acr122_pcsc"
    /\ \/ \E more \in IF Top.cmd = "InDataExchange" THEN {Top.part = 1, FALSE} ELSE {FALSE} :
             /\ line' = <<Answer(Top, more)>> /\ pc' = "answer" /\ last_command' = Top.cmd
             /\ UNCHANGED <<stack, result, last_error, faults, hurt>>
       \/ Fault /\ End("error") /\ line' = <<>> /\ last_error' = "error" /\ UNCHANGED last_command
    /\ UNCHANGED <<driver, owed, asleep, power_mode, abort, answer, calls, aborts, clean>>

-----------------------------------------------------------------------------
(* The acknowledgement. *)
AckRead ==
    /\ pc = "ack" /\ line # <<>> /\ Head(line) = Ack
    /\ line' = Tail(line) /\ pc' = "answer" /\ last_command' = Top.cmd
    /\ power_mode' = IF Top.cmd = "TgInitAsTarget" /\ driver \in PN532 THEN "POWERDOWN" ELSE power_mode
    /\ UNCHANGED <<driver, owed, asleep, stack, last_error, abort, answer, result, bounds, hist>>

(* The rest of a message of which six bytes, or five, were read. *)
Rest == IF driver \in Serial /\ Head(line).kind = "answer" THEN <<Junk>> \o Tail(line) ELSE Tail(line)

(* Something else comes.  pn53x_usb sends a NACK, for the chip to answer    *)
(* again, and goes on as if it had been acknowledged.  arygon goes on too  *)
(* after an "unknown mode", of which it reads the end: it returns the 0 of *)
(* that last read.                                                         *)
AckMismatch ==
    /\ pc = "ack" /\ line # <<>> /\ Head(line) # Ack
    /\ line' = Rest
    /\ IF driver = "pn53x_usb" \/ (driver = "arygon" /\ Head(line) = Unknown)
       THEN /\ pc' = "answer" /\ last_command' = Top.cmd /\ UNCHANGED <<stack, result>>
            /\ \E again \in IF driver = "pn53x_usb" THEN {<<Answer(Top, FALSE)>>, <<>>} ELSE {<<>>} :
                  owed' = owed \o again
            /\ last_error' = IF driver = "arygon" THEN "ok" ELSE "error"
       ELSE End("error") /\ last_error' = "error" /\ UNCHANGED <<owed, last_command>>
    /\ UNCHANGED <<driver, asleep, power_mode, abort, answer, bounds, hist>>

(* No acknowledgement in time; pn53x_usb tells the chip to stop. *)
AckTimeout ==
    /\ pc = "ack" /\ line = <<>> /\ TimeUp
    /\ owed' \in IF driver = "pn53x_usb" THEN Interrupted ELSE {owed}
    /\ End("error") /\ last_error' = "error"
    /\ UNCHANGED <<driver, line, asleep, power_mode, last_command, abort, answer, calls, aborts, clean>>

(* pn532_spi and pn532_i2c see the flag while they wait for it. *)
AckAborted ==
    /\ pc = "ack" /\ driver \in Polled /\ abort /\ abort' = FALSE
    /\ IF driver = "pn532_i2c" THEN owed' \in Interrupted /\ line' \in {line, IF line = <<>> THEN <<>> ELSE Tail(line)}
       ELSE line = <<>> /\ UNCHANGED <<owed, line>>
    /\ End("aborted") /\ last_error' = "aborted"
    /\ UNCHANGED <<driver, asleep, power_mode, last_command, answer, bounds, hist>>

-----------------------------------------------------------------------------
(* The answer. *)

Fits(m) == m.kind = "answer" /\ m.cmd = last_command

(* Mutant: one part of the answer is taken for the whole. *)
ReceiveOnePart ==
    /\ pc = "answer" /\ line # <<>> /\ Fits(Head(line))
    /\ ~(driver = "pn532_i2c" /\ (abort \/ last_error = "aborted"))
    /\ line' = Tail(line) /\ answer' = IF Tail(stack) = <<>> THEN Append(answer, Head(line)) ELSE answer
    /\ power_mode' = IF Top.cmd = "TgInitAsTarget" /\ driver \in PN532 THEN "NORMAL" ELSE power_mode
    /\ End("ok") /\ last_error' = "ok"
    /\ UNCHANGED <<driver, owed, asleep, last_command, abort, bounds, hist>>

Receive ==
    /\ pc = "answer" /\ line # <<>> /\ Fits(Head(line))
    /\ ~(driver = "pn532_i2c" /\ (abort \/ last_error = "aborted"))
    /\ line' = Tail(line) /\ answer' = IF Tail(stack) = <<>> THEN Append(answer, Head(line)) ELSE answer
    /\ power_mode' = IF Top.cmd = "TgInitAsTarget" /\ driver \in PN532 THEN "NORMAL" ELSE power_mode
    /\ IF Head(line).more  \* the card has more: the same command again
       THEN stack' = <<[Top EXCEPT !.part = @ + 1]>> \o Tail(stack) /\ pc' = "send" /\ UNCHANGED <<result, last_error>>
       ELSE End("ok") /\ last_error' = "ok"
    /\ UNCHANGED <<driver, owed, asleep, last_command, abort, bounds, hist>>

(* Anything else is an error.  pn532_uart waits 50 ms and flushes. *)
ReceiveMismatch ==
    /\ pc = "answer" /\ line # <<>> /\ ~Fits(Head(line))
    /\ ~(driver = "pn532_i2c" /\ (abort \/ last_error = "aborted"))
    /\ line' = Rest /\ last_error' = "error"
    /\ IF driver = "pn532_uart" THEN pc' = "drain" /\ UNCHANGED <<stack, result>> ELSE End("error")
    /\ UNCHANGED <<driver, owed, asleep, power_mode, last_command, abort, answer, bounds, hist>>

(* No answer in time.  A USB driver takes 200 ms off the time it was given  *)
(* before it reads at all.  pn532_i2c returns last_error, which nobody set.*)
ReceiveTimeout ==
    /\ pc = "answer" /\ driver # "acr122_pcsc" /\ last_command \notin Patient /\ (line = <<>> \/ driver \in Usb) /\ TimeUp
    /\ CASE driver = "pn532_uart" -> pc' = "drain" /\ last_error' = "error" /\ UNCHANGED <<stack, result>>
         [] driver = "pn532_i2c" -> End(IF last_error = "ok" THEN "empty" ELSE "error") /\ UNCHANGED last_error
         [] OTHER -> End("error") /\ last_error' = "error"
    /\ UNCHANGED <<driver, chipvars, power_mode, last_command, abort, answer, calls, aborts, clean>>

(* The error label of pn532_uart_receive. *)
Drain ==
    /\ pc = "drain" /\ line' = uart_flush_input /\ End("error")
    /\ UNCHANGED <<driver, owed, asleep, power_mode, last_command, last_error, abort, answer, bounds, hist>>

(* The wait is aborted: select sees the pipe before the bytes, a USB read   *)
(* has to pass its 200 ms without any, pn532_spi has asked for the status. *)
Seen == abort /\ pc = "answer" /\ (driver \in Serial \/ line = <<>>)

(* Mutant: the flag is reset, and the wait goes on. *)
NoticeGoesOn ==
    /\ Seen /\ driver \in Usb \cup {"pn532_spi", "pn532_uart"} /\ abort' = FALSE
    /\ UNCHANGED <<driver, chipvars, pc, stack, power_mode, last_command, last_error, answer, result, bounds, hist>>

(* pn532_uart, pn532_spi and the USB drivers tell the chip to stop.         *)
(* acr122_usb does it by a GetFirmwareVersion, whose answer it reads.       *)
(* pn532_spi returns what the writing of its acknowledgement returned: 0.  *)
Notice ==
    /\ Seen /\ driver \in Usb \cup {"pn532_spi", "pn532_uart"} /\ abort' = FALSE
    /\ owed' \in Interrupted
    /\ power_mode' = IF driver = "pn532_uart" THEN "NORMAL" ELSE power_mode
    /\ asleep' = IF driver = "pn532_uart" THEN FALSE ELSE asleep
    /\ last_error' = IF driver = "pn532_spi" THEN "ok" ELSE "aborted"
    /\ End(IF driver = "pn532_spi" THEN "empty" ELSE "aborted")
    /\ UNCHANGED <<driver, line, last_command, answer, bounds, hist>>

(* arygon_abort cannot acknowledge: it wakes the chip and has it answer a   *)
(* Diagnose.                                                               *)
NoticeArygon ==
    /\ Seen /\ driver = "arygon" /\ abort' = FALSE
    /\ owed' \in Interrupted
    /\ stack' = <<Nested(Diagnose), [Top EXCEPT !.aborting = TRUE]>> /\ pc' = "send"
    /\ UNCHANGED <<driver, line, asleep, power_mode, last_command, last_error, answer, result, bounds, hist>>

(* pn532_i2c_wait_rdyframe looks at the flag after the read, and drops what *)
(* was read; pn532_i2c_receive looks for the abort in last_error, where    *)
(* nobody put it.                                                          *)
NoticeI2c ==
    /\ pc = "answer" /\ driver = "pn532_i2c" /\ (abort \/ (last_error = "aborted" /\ line # <<>>)) /\ abort' = FALSE
    /\ line' = IF line = <<>> THEN <<>> ELSE Tail(line)
    /\ IF last_error = "aborted" THEN owed' \in Interrupted /\ last_error' = "ok" /\ End("empty")
       ELSE End(IF last_error = "ok" THEN "empty" ELSE "error") /\ UNCHANGED <<owed, last_error>>
    /\ UNCHANGED <<driver, asleep, power_mode, last_command, answer, bounds, hist>>

(* nfc_abort_command, from another thread.  A pipe only wakes the reader    *)
(* that waits on it; a flag stays until somebody looks at it.              *)
nfc_abort_command ==
    /\ driver # "acr122_pcsc" /\ calls > 0 /\ aborts < MaxAborts /\ aborts' = aborts + 1
    /\ abort' = (abort \/ driver \notin Serial \/ pc = "answer")
    /\ hurt' = TRUE
    /\ UNCHANGED <<driver, chipvars, pc, stack, power_mode, last_command, last_error, answer, result, calls, faults, clean>>

Host ==
    \/ Wakeup \/ Send \/ SendMisread \/ SendFails \/ PcscSend
    \/ AckRead \/ AckMismatch \/ AckTimeout \/ AckAborted
    \/ Receive \/ ReceiveMismatch \/ ReceiveTimeout \/ Drain
    \/ Notice \/ NoticeArygon \/ NoticeI2c

Next == Host \/ Arrive \/ Garble \/ nfc_abort_command \/ \E c \in Commands : Call(c)

Spec == Init /\ [][Next]_vars /\ WF_vars(Host) /\ WF_vars(Arrive)

-----------------------------------------------------------------------------
Ended == pc = "idle" /\ calls > 0

(* A call that succeeds has its own answer, whole and in order, when what   *)
(* earlier calls left on the line was read or thrown away before it: the   *)
(* code of the command alone does not tell two answers apart.              *)
OwnAnswer ==
    Ended /\ clean /\ result = "ok" =>
        /\ \A i \in DOMAIN answer : answer[i].call = calls /\ answer[i].part = i
        /\ answer # <<>> /\ ~answer[Len(answer)].more

(* The link comes back in step by itself: whatever the calls before met, a  *)
(* call that begins when all they were owed has come, and that meets no    *)
(* fault, succeeds.  A USB, SPI or I2C driver also needs that it was read, *)
(* and a chip that was put to sleep that the driver knows of it.           *)
BackInStep == Ended /\ clean /\ ~hurt => result = "ok"

(* An abort asked for while a driver waits for the answer of the command it *)
(* was given ends the call.  One that falls into the SAMConfiguration which*)
(* wakes the chip up ends only that: the two drivers whose reads return 0  *)
(* then go on with the command.                                            *)
AbortEnds == (abort /\ pc = "answer" /\ Tail(stack) = <<>>) ~> (pc = "idle")
=============================================================================
