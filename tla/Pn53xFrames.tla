---------------------------- MODULE Pn53xFrames -----------------------------
(***************************************************************************)
(* What libnfc computes for a transfer of bits: the frames with parity bits*)
(* that it makes and takes apart itself (wrap_frame, unwrap_frame of       *)
(* chips/pn53x.c), and the cycles of a timed transfer.                     *)
(* A bit is named, not valued: data bit i is i, the parity bit of byte j is*)
(* Own + j if the caller chose it and Odd + j if it is the right one; 0 is *)
(* a bit that nobody set.  A byte is written in the order of the air, as   *)
(* mirror makes it, so that >> moves a bit to a later place.               *)
(***************************************************************************)
EXTENDS Naturals, Sequences, SequencesExt

CONSTANTS
    CounterMax,    \* the chip's timer counts down from it: 0xFFFF
    PrescalerMax,  \* what its prescaler holds: 0xFFF
    Word,          \* the range of a number of cycles: 2^32
    BitCycles      \* cycles of a bit on the air: 128

Own == 100
Odd == 200

Zero == [i \in 1..8 |-> 0]
Right(a, k) == [i \in 1..8 |-> IF i > k THEN a[i - k] ELSE 0]
Left(a, k)  == [i \in 1..8 |-> IF i + k <= 8 THEN a[i + k] ELSE 0]
Or(a, b)    == [i \in 1..8 |-> IF a[i] # 0 THEN a[i] ELSE b[i]]

Up(x, k) == (x + k - 1) \div k

(* Bits put into bytes, and the bits of bytes.  What lies behind is unset.  *)
Bytes(bits) ==
    [j \in 0..(Up(Len(bits), 8) + 2) |->
        [i \in 1..8 |-> IF 8 * j + i <= Len(bits) THEN bits[8 * j + i] ELSE 0]]
Bits(bytes, n) == [i \in 1..n |-> bytes[(i - 1) \div 8][((i - 1) % 8) + 1]]

(* Every eight bytes of data make one byte of frame more.                  *)
FramePos(dataPos) == dataPos + (dataPos \div 8)

-----------------------------------------------------------------------------
(* Mutant: the parity bit goes where it would go in the first byte. *)
WrapByteUnmoved(data, parity, s, d) ==
    LET uiBitPos == d % 8
        first == Or(IF uiBitPos = 0 THEN Zero ELSE s.btFrame, Right(data[d], uiBitPos))
        rest  == Or(Left(data[d], 8 - uiBitPos), Right([Zero EXCEPT ![1] = parity[d + 1]], 0))
    IN  [frame |-> [s.frame EXCEPT ![FramePos(d)] = first, ![FramePos(d) + 1] = rest], btFrame |-> rest]

(* One turn of the loop of wrap_frame: what fits of the data byte d goes    *)
(* into the frame byte begun, the rest and the parity bit into the next.   *)
WrapByte(data, parity, s, d) ==
    LET uiBitPos == d % 8
        first == Or(IF uiBitPos = 0 THEN Zero ELSE s.btFrame, Right(data[d], uiBitPos))
        rest  == Or(Left(data[d], 8 - uiBitPos), Right([Zero EXCEPT ![1] = parity[d + 1]], uiBitPos))
    IN  [frame |-> [s.frame EXCEPT ![FramePos(d)] = first, ![FramePos(d) + 1] = rest], btFrame |-> rest]

(* Up to eight bits go as they are, a whole byte too.  Otherwise the last   *)
(* byte is done when less than nine bits are left.                         *)
wrap_frame(bits, parity) ==
    LET n     == Len(bits)
        data  == Bytes(bits)
        empty == [frame |-> [j \in 0..(2 * Up(n, 8) + 2) |-> Zero], btFrame |-> Zero]
        done  == FoldLeft(LAMBDA s, d : WrapByte(data, parity, s, d - 1), empty, [i \in 1..Up(n, 8) |-> i])
    IN  IF n < 9 THEN bits ELSE Bits(done.frame, n + (n \div 8))

(* Byte d of the data of a frame, and its parity bit. *)
UnwrapByte(frame, d) ==
    LET uiBitPos == d % 8
        next == frame[FramePos(d) + 1]
    IN  [data |-> Or(Left(frame[FramePos(d)], uiBitPos), Right(next, 8 - uiBitPos)), parity |-> next[uiBitPos + 1]]

(* The parity bits of the whole bytes; no bits are an error of the caller's,*)
(* and up to eight bits have no parity.                                    *)
unwrap_frame(frame) ==
    LET n     == Len(frame)
        bytes == Bytes(frame)
        last  == n \div 9
        data  == [d \in 0..last |-> UnwrapByte(bytes, d).data]
    IN  IF n < 9 THEN [bits |-> frame, parity |-> <<>>]
        ELSE [bits |-> Bits(data, n - (n \div 9)), parity |-> [j \in 1..last |-> UnwrapByte(bytes, j - 1).parity]]

-----------------------------------------------------------------------------
(* __pn53x_init_timer; the chip gets the part of the prescaler that it has  *)
(* room for.                                                               *)
timer_prescaler(max_cycles) ==
    IF max_cycles > CounterMax THEN (max_cycles \div CounterMax - 1) \div 2 ELSE 0

Ticks(prescaler) == 2 * prescaler + 1

(* The timer stops when that many bits of the answer have come. *)
RxBits(type) == IF type = "PN531" THEN 2 ELSE 5

(* The chip's timer runs from the last bit sent, half a bit earlier when    *)
(* that is a one, and stays at zero once it gets there.                    *)
Counter(type, prescaler, cycles, one, correction) ==
    LET count == (cycles + RxBits(type) * BitCycles - (IF one THEN BitCycles \div 2 ELSE 0) - correction)
                     \div Ticks(prescaler % (PrescalerMax + 1))
    IN  IF count >= CounterMax THEN 0 ELSE CounterMax - count

Saturated == Word - 1

(* __pn53x_get_timer *)
get_timer(type, prescaler, counter, one, correction) ==
    IF counter = 0 THEN Saturated
    ELSE (Word + (CounterMax - counter) * Ticks(prescaler) + 1 - RxBits(type) * BitCycles
             + (IF one THEN BitCycles \div 2 ELSE 0) + correction) % Word
=============================================================================
