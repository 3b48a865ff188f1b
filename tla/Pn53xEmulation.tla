---------------------------- MODULE Pn53xEmulation ---------------------------
(***************************************************************************)
(* Frames that a program sends and receives through a PN53x, as an         *)
(* initiator or as the target that the chip plays for an outside reader:   *)
(* what is on the air against what the program gave or was told.           *)
(***************************************************************************)
EXTENDS Pn53xFrames

CONSTANTS
    Lengths,    \* of frames, in bits
    Room,       \* bytes of the program's buffer
    MaxCycles,  \* what a program sets *cycles to
    Late,       \* cycles until the answer comes
    None        \* model value

Message(n, own) == [own |-> own, bits |-> [i \in 1..n |-> i],
                    parity |-> [j \in 1..Up(n, 8) |-> (IF own THEN Own ELSE Odd) + j]]
Messages == {Message(n, own) : n \in Lengths, own \in BOOLEAN}
Whole(m) == Len(m.bits) % 8 = 0

Modulations == {"A", "FELICA", "DEP", "B"}
Asked == {a \in [nmt : Modulations, fixed : BOOLEAN, sak4 : BOOLEAN, nbr : {"UNDEFINED", "106", "212"},
                 ndm : {"UNDEFINED", "ACTIVE", "PASSIVE"}] :
              /\ a.nmt # "A" => ~a.fixed /\ ~a.sak4
              /\ a.nmt # "DEP" => a.ndm = "UNDEFINED"}
Activations == {[nmt |-> "A", nbr |-> "106", ndm |-> "UNDEFINED"], [nmt |-> "FELICA", nbr |-> "212", ndm |-> "UNDEFINED"]}
    \cup [nmt : {"DEP"}, nbr : {"106", "212"}, ndm : {"ACTIVE", "PASSIVE"}]

VARIABLES
    type, phase,       \* the chip; "initiator", "awaiting" a reader, "target" or "idle"
    bPar, bEasyFraming, bCrc, bAutoIso14443_4, ui8TxBits,
    pnt, ptm, activated, current_target,
    switched,          \* history: NP_AUTO_ISO14443_4 was set since target_init
    call               \* the last call, until the program makes another

settings == <<bPar, bEasyFraming, bCrc, bAutoIso14443_4>>
target   == <<pnt, ptm, activated, current_target, switched>>
fvars    == <<type, phase, settings, ui8TxBits, target, call>>

Nothing == [name |-> "none", cmd |-> "none", ret |-> "done", given |-> Message(0, FALSE), air |-> <<>>,
            heard |-> Message(0, FALSE), got |-> [bits |-> <<>>, parity |-> <<>>],
            stale |-> 0, prescaler |-> 0, late |-> 0, blurred |-> FALSE, cycles |-> 0]

Defaults == bPar' = TRUE /\ bEasyFraming' = TRUE /\ bCrc' = TRUE /\ bAutoIso14443_4' = TRUE /\ ui8TxBits' = 0

FInit ==
    /\ type \in {"PN531", "PN532"} /\ phase = "initiator"
    /\ bPar = TRUE /\ bEasyFraming = TRUE /\ bCrc = TRUE /\ bAutoIso14443_4 = TRUE /\ ui8TxBits = 0
    /\ pnt = None /\ ptm = {} /\ activated = None /\ current_target = None /\ switched = FALSE
    /\ call = Nothing

-----------------------------------------------------------------------------
(* The chip.  It sends what it is handed, but for the last byte, of which   *)
(* it sends t bits if t is not 0; it adds and checks the parity if asked to.*)

WithParity(bits, parity) ==
    [k \in 1..(Len(bits) + (Len(bits) \div 8)) |->
        LET j == (k - 1) \div 9
        IN  IF (k - 1) % 9 = 8 THEN parity[j + 1] ELSE bits[8 * j + ((k - 1) % 9) + 1]]

Padded(bits) == Bits(Bytes(bits), 8 * Up(Len(bits), 8))

OnAir(bits, t) ==
    LET sent == SubSeq(Padded(bits), 1, 8 * Up(Len(bits), 8) - (IF t = 0 THEN 0 ELSE 8 - t))
    IN  IF bPar THEN WithParity(sent, Message(Len(sent), FALSE).parity) ELSE sent

Garbled(h) == bPar /\ h.own /\ Len(h.bits) >= 8

Raw(h) == IF bPar THEN h.bits ELSE WithParity(h.bits, h.parity)

-----------------------------------------------------------------------------
(* Calls of an initiator. *)

Framed(m) == IF bPar THEN m.bits ELSE wrap_frame(m.bits, m.parity)

Unframed(h) == IF bPar THEN [bits |-> h.bits, parity |-> <<>>] ELSE unwrap_frame(Raw(h))

AsBytes(h) == [bits |-> Padded(Raw(h)), parity |-> <<>>]

Overflow(h, room) == Up(Len(Raw(h)), 8) > room

(* The call c with the answer h, got as r. *)
Heard(c, h, r) ==
    IF Garbled(h) THEN [c EXCEPT !.ret = "ERFTRANS"] ELSE [c EXCEPT !.heard = h, !.got = r]

Refused(name, error) == call' = [Nothing EXCEPT !.name = name, !.ret = error] /\ UNCHANGED ui8TxBits

(* pn53x_initiator_transceive_bits *)
TransceiveBits(m, h) ==
    /\ phase = "initiator"
    /\ ui8TxBits' = Len(Framed(m)) % 8
    /\ LET c == [Nothing EXCEPT !.name = "transceive_bits", !.given = m, !.air = OnAir(Framed(m), ui8TxBits')]
       IN  call' = Heard(c, h, Unframed(h))

(* pn53x_initiator_transceive_bytes *)
TransceiveBytes(m, h, room) ==
    /\ phase = "initiator" /\ Whole(m)
    /\ IF ~bPar THEN Refused("transceive_bytes", "EINVARG")
       ELSE /\ ui8TxBits' = 0
            /\ LET c == [Nothing EXCEPT !.name = "transceive_bytes", !.given = m, !.air = OnAir(m.bits, 0)]
               IN  call' = IF Overflow(h, room) /\ ~Garbled(h) THEN [c EXCEPT !.ret = "EOVFLOW"]
                           ELSE Heard(c, h, AsBytes(h))

(* The timed calls write the chip's registers themselves: BitFraming is set *)
(* behind the back of ui8TxBits.  ends: the last parity bit sent is a one;  *)
(* without an answer (h = None) nothing was received, and the timer ran out.*)
Timed(c, h, room, max, late, ends, thought) ==
    LET prescaler == timer_prescaler(max)
        counter   == IF h = None THEN 0 ELSE Counter(type, prescaler, late, ends, 0)
        heard     == [c EXCEPT !.prescaler = prescaler, !.late = late, !.blurred = (ends # thought),
                               !.cycles = get_timer(type, prescaler, counter, thought, 0)]
    IN  CASE h = None -> heard
          [] h # None /\ Overflow(h, room) -> [heard EXCEPT !.ret = "EOVFLOW"]
          [] OTHER -> [heard EXCEPT !.heard = h, !.got = AsBytes(h)]

(* pn53x_initiator_transceive_bits_timed: whole bytes are followed by one   *)
(* more; the correction is by the parity of a byte not wholly sent.         *)
TransceiveBitsTimed(m, h, max, late, ends, thought) ==
    /\ phase = "initiator"
    /\ IF ~bPar \/ bEasyFraming \/ bCrc THEN Refused("bits_timed", "ENOTIMPL")
       ELSE /\ UNCHANGED ui8TxBits
            /\ LET n == Len(m.bits)
                   fifo == m.bits \o (IF Whole(m) THEN [i \in 1..8 |-> 0] ELSE <<>>)
                   c == [Nothing EXCEPT !.name = "bits_timed", !.given = m, !.air = OnAir(fifo, n % 8)]
               IN  call' = Timed(c, h, 100, max, late, ends, thought)

(* pn53x_initiator_transceive_bytes_timed: with a CRC of the chip's own, the *)
(* last byte sent is known for the framings of type A and B.               *)
TransceiveBytesTimed(m, h, room, max, late, ends, thought, framing) ==
    /\ phase = "initiator" /\ Whole(m) /\ (framing \in {"A", "B"} \/ ~bCrc => ends = thought)
    /\ IF ~bPar THEN Refused("bytes_timed", "EINVARG")
       ELSE IF bEasyFraming THEN Refused("bytes_timed", "ENOTIMPL")
       ELSE /\ UNCHANGED ui8TxBits
            /\ LET c == [Nothing EXCEPT !.name = "bytes_timed", !.given = m, !.air = OnAir(m.bits, 0)]
               IN  call' = Timed(c, h, room, max, late, ends, thought)

-----------------------------------------------------------------------------
(* Being a target. *)

(* nfc_target_init and pn53x_target_init, up to the wait for a reader.  Only *)
(* a UID that starts as the chip's own can be played.                      *)
TargetInit(a) ==
    /\ phase \in {"initiator", "idle"} /\ Defaults /\ switched' = FALSE /\ pnt' = a /\ activated' = None /\ UNCHANGED <<type, current_target>>
    /\ LET error == CASE a.nmt = "A" /\ ~a.fixed -> "EINVARG" [] a.nmt = "B" -> "EDEVNOTSUPP" [] OTHER -> "done"
       IN  /\ call' = [Nothing EXCEPT !.name = "target_init", !.ret = error]
           /\ phase' = IF error = "done" THEN "awaiting" ELSE "idle"
    /\ ptm' = CASE a.nmt = "DEP" -> {"DEP_ONLY"} \cup {f \in {"PASSIVE_ONLY"} : a.ndm = "PASSIVE"}
                [] OTHER -> {"PASSIVE_ONLY"} \cup {f \in {"PICC_ONLY"} : a.nmt = "A" /\ a.sak4 /\ type = "PN532"}

(* What the chip lets a reader do (TgInitAsTarget). *)
Lets(a) ==
    /\ "DEP_ONLY" \in ptm => a.nmt = "DEP"
    /\ "PASSIVE_ONLY" \in ptm => a.ndm # "ACTIVE"
    /\ "PICC_ONLY" \in ptm => a.nmt = "A"

Fits(a) ==
    /\ pnt.nmt = a.nmt /\ pnt.nbr \in {"UNDEFINED", a.nbr}
    /\ pnt.nmt = "DEP" => pnt.ndm \in {"UNDEFINED", a.ndm}

(* A reader activates the chip; it waits again if it was not as asked.      *)
Activated(a) ==
    /\ phase = "awaiting" /\ Lets(a)
    /\ IF Fits(a)
       THEN phase' = "target" /\ activated' = a
            /\ current_target' = [pnt EXCEPT !.nbr = a.nbr, !.ndm = IF a.nmt = "DEP" THEN a.ndm ELSE pnt.ndm]
       ELSE UNCHANGED <<phase, activated, current_target>>
    /\ call' = Nothing /\ UNCHANGED <<type, settings, ui8TxBits, pnt, ptm, switched>>

(* No reader in time: pn53x_idle, which the program may call as well. *)
BecomeIdle ==
    /\ phase \in {"awaiting", "target"} /\ phase' = "idle" /\ current_target' = None /\ activated' = None
    /\ call' = Nothing /\ UNCHANGED <<type, settings, ui8TxBits, pnt, ptm, switched>>

(* Which command a call for bytes gives: the chip speaks the protocol by     *)
(* itself for DEP, and for ISO 14443-4 if it is a PN532 told to.            *)
Command(data, raw) ==
    CASE ~bEasyFraming -> raw
      [] bEasyFraming /\ current_target.nmt = "DEP" -> data
      [] bEasyFraming /\ current_target.nmt = "A" /\ current_target.sak4 ->
             IF type = "PN532" /\ bAutoIso14443_4 THEN data ELSE "ENOTIMPL"
      [] OTHER -> raw

TargetReceiveBits(h, room) ==
    /\ phase = "target" /\ UNCHANGED ui8TxBits
    /\ LET c == [Nothing EXCEPT !.name = "receive_bits", !.cmd = "TgGetInitiatorCommand"]
       IN  call' = IF bPar /\ Overflow(h, room) /\ ~Garbled(h) THEN [c EXCEPT !.ret = "EOVFLOW"]
                   ELSE Heard(c, h, Unframed(h))

TargetReceiveBytes(h, room) ==
    /\ phase = "target"
    /\ LET cmd == Command("TgGetData", "TgGetInitiatorCommand")
           c == [Nothing EXCEPT !.name = "receive_bytes", !.cmd = cmd]
       IN  IF cmd = "ENOTIMPL" THEN Refused("receive_bytes", cmd)
           ELSE /\ UNCHANGED ui8TxBits
                /\ call' = IF Overflow(h, room) /\ ~Garbled(h) THEN [c EXCEPT !.ret = "EOVFLOW"]
                           ELSE Heard(c, h, AsBytes(h))

TargetSendBits(m) ==
    /\ phase = "target" /\ ui8TxBits' = Len(Framed(m)) % 8
    /\ call' = [Nothing EXCEPT !.name = "send_bits", !.cmd = "TgResponseToInitiator", !.given = m,
                               !.air = OnAir(Framed(m), ui8TxBits')]

(* Unlike an initiator's call, it leaves BitFraming as the last send of bits *)
(* set it.                                                                 *)
TargetSendBytes(m) ==
    /\ phase = "target" /\ Whole(m)
    /\ LET cmd == Command("TgSetData", "TgResponseToInitiator")
       IN  IF ~bPar THEN Refused("send_bytes", "ECHIP")
           ELSE IF cmd = "ENOTIMPL" THEN Refused("send_bytes", cmd)
           ELSE /\ call' = [Nothing EXCEPT !.name = "send_bytes", !.cmd = cmd, !.given = m, !.stale = ui8TxBits,
                                           !.air = OnAir(m.bits, ui8TxBits)]
                /\ UNCHANGED ui8TxBits

-----------------------------------------------------------------------------
(* nfc_initiator_init; the program let go of its target before. *)
InitiatorInit ==
    /\ phase = "idle" /\ phase' = "initiator" /\ Defaults /\ call' = Nothing
    /\ pnt' = None /\ ptm' = {} /\ switched' = FALSE /\ UNCHANGED <<type, activated, current_target>>

(* nfc_device_set_property_bool.  For a target, bCrc is the chip's affair. *)
SetProperty ==
    /\ phase \in {"initiator", "target"} /\ call' = Nothing
    /\ \/ bPar' = ~bPar /\ UNCHANGED <<bEasyFraming, bCrc, bAutoIso14443_4, switched>>
       \/ bEasyFraming' = ~bEasyFraming /\ UNCHANGED <<bPar, bCrc, bAutoIso14443_4, switched>>
       \/ phase = "initiator" /\ bCrc' = ~bCrc /\ UNCHANGED <<bPar, bEasyFraming, bAutoIso14443_4, switched>>
       \/ bAutoIso14443_4' = ~bAutoIso14443_4 /\ switched' = (phase = "target") /\ UNCHANGED <<bPar, bEasyFraming, bCrc>>
    /\ UNCHANGED <<type, phase, ui8TxBits, pnt, ptm, activated, current_target>>

Clock == [max : MaxCycles, late : Late, ends : BOOLEAN, thought : BOOLEAN]

TimedCalls ==
    \E n, len \in Lengths \cup {0}, room \in Room, c \in Clock, framing \in {"A", "B", "other"} :
        LET h == IF len = 0 THEN None ELSE Message(len, FALSE)
        IN  /\ n # 0
            /\ \/ TransceiveBitsTimed(Message(n, FALSE), h, c.max, c.late, c.ends, c.thought)
               \/ TransceiveBytesTimed(Message(n, FALSE), h, room, c.max, c.late, c.ends, c.thought, framing)

Calls ==
    \/ TimedCalls
    \/ \E m, h \in Messages : TransceiveBits(m, h) \/ (\E room \in Room : TransceiveBytes(m, h, room))
    \/ \E h \in Messages, room \in Room : TargetReceiveBits(h, room) \/ TargetReceiveBytes(h, room)
    \/ \E m \in Messages : TargetSendBits(m) \/ TargetSendBytes(m)

(* The result of a call is looked at, then the program goes on. *)
FNext ==
    IF call # Nothing THEN call' = Nothing /\ UNCHANGED <<type, phase, settings, ui8TxBits, target>>
    ELSE \/ Calls /\ UNCHANGED <<type, phase, settings, target>>
         \/ \E a \in Asked : TargetInit(a)
         \/ \E a \in Activations : Activated(a)
         \/ BecomeIdle \/ InitiatorInit \/ SetProperty

FSpec == FInit /\ [][FNext]_fvars

-----------------------------------------------------------------------------
Faithful(c) ==
    /\ c.air = WithParity(c.given.bits, IF bPar THEN Message(Len(c.given.bits), FALSE).parity ELSE c.given.parity)
    /\ c.got = [bits |-> c.heard.bits,
                parity |-> IF bPar THEN <<>> ELSE SubSeq(c.heard.parity, 1, Len(c.heard.bits) \div 8)]

(* What the code gets wrong: one byte with a parity bit of the program's    *)
(* goes out without it (wrap_frame takes it for a short frame); a target's  *)
(* bytes are cut after its bits; bits_timed sends a byte too many after     *)
(* whole bytes; calls for bytes do not say that the last one is not whole,  *)
(* and a target's takes the parity bits for data.                          *)
Excepted(c) ==
    \/ ~bPar /\ c.name \in {"transceive_bits", "send_bits"} /\ Len(c.given.bits) = 8
    \/ c.name = "send_bytes" /\ c.stale # 0
    \/ c.name = "bits_timed" /\ Whole(c.given)
    \/ c.name \in {"transceive_bytes", "bytes_timed", "bits_timed", "receive_bytes"} /\ (~bPar \/ ~Whole(c.heard))

(* The cycles reported are those until the answer, up to a tick of the      *)
(* timer and, where the parity was guessed, up to half a bit around; as     *)
(* long as the chip's prescaler holds what the driver divides by.          *)
CyclesTrue(c) ==
    LET half == BitCycles \div 2
        slack == IF c.blurred THEN half ELSE 0
    IN  c.prescaler <= PrescalerMax /\ c.heard.bits # <<>> =>
            \/ (Word + c.late + 1 + slack - c.cycles) % Word \in 0..(Ticks(c.prescaler) - 1 + 2 * slack)
            \/ /\ c.cycles = Saturated
               /\ c.late + RxBits(type) * BitCycles >= CounterMax * Ticks(c.prescaler)

(* What a call puts on the air is what it was given, and what it returns is *)
(* what came, bit for bit, with the parity bits of whoever handles them,    *)
(* in exactly all the cases but the excepted ones; a timed call tells the   *)
(* cycles (transceive, transceive_timed, target_send and target_receive of  *)
(* pn53x.c).                                                               *)
CallTrue ==
    call.ret = "done" /\ call.name \notin {"none", "target_init"} =>
        /\ Faithful(call) <=> ~Excepted(call)
        /\ call.name \in {"bits_timed", "bytes_timed"} => CyclesTrue(call)

(* The commands for protocol data are given in the modes in which the chip  *)
(* speaks the protocol, and in these only them: what target_init asked of   *)
(* the chip, what a reader made of it and what later calls conclude from    *)
(* current_target agree, unless NP_AUTO_ISO14443_4 is changed in between.   *)
ModeFits ==
    call.cmd # "none" /\ call.name \in {"receive_bytes", "send_bytes"} /\ bEasyFraming /\ ~switched =>
        (call.cmd \in {"TgGetData", "TgSetData"} <=> (activated.nmt = "DEP" \/ "PICC_ONLY" \in ptm))

(* The bits are true, and spoken in the mode they are for. *)
CallsFit == CallTrue /\ ModeFits
=============================================================================
