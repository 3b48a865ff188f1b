--------------------------- MODULE LibrariesProofs ---------------------------
(***************************************************************************)
(* What lies between the mode and the reader, one part at a time.          *)
(*                                                                         *)
(* The link, for every set of drivers and commands, any number of calls,   *)
(* faults and aborts: a call that succeeds has its own answer, and the     *)
(* link comes back in step.  Both are about what the host will still read: *)
(* the messages on the line, then those the chip owes.  A queue of messages*)
(* grows at its end and shrinks at its head, so that a message on its way  *)
(* from the chip to the host does not change it.                           *)
(*                                                                         *)
(* Scan, open and close, for any programs, ports and bounds: nothing is    *)
(* given back twice or forgotten that the code does not forget, and the    *)
(* mark of a claimed port tells the truth.  What a function holds before   *)
(* each of its calls is known from its text, driver by driver (Sound); the *)
(* invariant of the programs then follows one call at a time.              *)
(*                                                                         *)
(* The device list, for any devices and lengths of it: what a scan takes   *)
(* of the room that is left.  It is a fold over a sequence, and the lemmas *)
(* about folds come first.                                                 *)
(*                                                                         *)
(* Frames, for any lengths and bits: where each bit of a message is in the *)
(* frame that wrap_frame makes of it, and back; what the timer tells; and  *)
(* then each call of a program, and the mode it is made in.                *)
(***************************************************************************)
EXTENDS MCLibraries, SequenceTheorems, FiniteSetTheorems, WellFoundedInduction, TLAPS

(* What is on the line, and the exchanges that are stacked. *)
Command   == Commands \cup {SAMConfiguration, Diagnose}
Exchanges == [cmd : Command, call : Nat, part : Nat \ {0}, aborting : BOOLEAN]
Answers   == [kind : {"answer"}, cmd : Command, call : Nat, part : Nat \ {0}, more : BOOLEAN]
Msg       == {Ack, Junk, Unknown} \cup Answers

TypeOK ==
    /\ driver \in Drivers
    /\ owed \in Seq(Msg) /\ line \in Seq(Msg) /\ asleep \in BOOLEAN
    /\ pc \in {"idle", "send", "ack", "answer", "drain"}
    /\ stack \in Seq(Exchanges)
    /\ (pc = "idle") = (stack = <<>>)
    /\ abort \in BOOLEAN /\ answer \in Seq(Msg)
    /\ calls \in Nat /\ clean \in BOOLEAN /\ hurt \in BOOLEAN

-----------------------------------------------------------------------------
(* Messages. *)
LEMMA AnswerType ==
    ASSUME NEW x \in Exchanges, NEW more \in BOOLEAN
    PROVE  Answer(x, more) \in Answers
BY DEF Answer, Answers, Exchanges

LEMMA MsgKinds ==
    ASSUME NEW m \in Msg
    PROVE  /\ m.kind = "ack" => m = Ack
           /\ m.kind = "answer" => m \in Answers
<1>1. m \in Answers => m.kind = "answer"
  BY DEF Answers
<1>2. Ack.kind = "ack" /\ Junk.kind = "junk" /\ Unknown.kind = "unknown mode"
  BY DEF Ack, Junk, Unknown
<1>3. m = Ack \/ m = Junk \/ m = Unknown \/ m \in Answers
  BY DEF Msg
<1> QED BY <1>1, <1>2, <1>3, Zenon

LEMMA Kinds ==
    /\ Ack \in Msg /\ Junk \in Msg /\ Unknown \in Msg
    /\ Ack.kind = "ack" /\ Junk.kind = "junk" /\ Unknown.kind = "unknown mode"
BY DEF Msg, Ack, Junk, Unknown

LEMMA ExchangeType ==
    ASSUME NEW c \in Command, NEW n \in Nat
    PROVE  /\ Exchange(c, n) \in Exchanges
           /\ Exchange(c, n).cmd = c /\ Exchange(c, n).call = n
           /\ Exchange(c, n).part = 1 /\ Exchange(c, n).aborting = FALSE
BY DEF Exchange, Exchanges

-----------------------------------------------------------------------------
(* Sequences. *)
LEMMA TailFacts ==
    ASSUME NEW S, NEW s \in Seq(S), s # <<>>
    PROVE  /\ Tail(s) \in Seq(S) /\ Head(s) \in S /\ Head(s) = s[1]
           /\ Len(Tail(s)) = Len(s) - 1 /\ Len(s) \in Nat \ {0}
           /\ \A i \in 1..Len(s) - 1 : Tail(s)[i] = s[i + 1]
           /\ Tail(s) = <<>> <=> Len(s) = 1
<1>1. Len(s) \in Nat \ {0}
  BY EmptySeq
<1>2. Tail(s) \in Seq(S) /\ Head(s) \in S /\ Len(Tail(s)) = Len(s) - 1
  BY HeadTailProperties
<1>3. Head(s) = s[1]
  OBVIOUS
<1>4. \A i \in 1..Len(s) - 1 : Tail(s)[i] = s[i + 1]
  BY <1>2, HeadTailProperties
<1>5. Tail(s) = <<>> <=> Len(Tail(s)) = 0
  BY <1>2, EmptySeq
<1> QED BY <1>1, <1>2, <1>3, <1>4, <1>5

LEMMA ConcatFacts ==
    ASSUME NEW S, NEW s \in Seq(S), NEW t \in Seq(S)
    PROVE  /\ s \o t \in Seq(S) /\ Len(s \o t) = Len(s) + Len(t)
           /\ Len(s) \in Nat /\ Len(t) \in Nat
           /\ \A i \in 1..Len(s) : (s \o t)[i] = s[i]
           /\ \A i \in 1..Len(t) : (s \o t)[Len(s) + i] = t[i]
           /\ \A i \in 1..Len(s \o t) : (s \o t)[i] = IF i <= Len(s) THEN s[i] ELSE t[i - Len(s)]
OBVIOUS

LEMMA One == ASSUME NEW S, NEW a \in S PROVE <<a>> \in Seq(S) /\ Len(<<a>>) = 1 /\ <<a>>[1] = a
OBVIOUS

LEMMA Two == ASSUME NEW S, NEW a \in S, NEW b \in S
             PROVE <<a, b>> \in Seq(S) /\ Len(<<a, b>>) = 2 /\ <<a, b>>[1] = a /\ <<a, b>>[2] = b /\ <<a>> \o <<b>> = <<a, b>>
<1>1. <<a, b>> \in Seq(S) /\ Len(<<a, b>>) = 2 /\ <<a, b>>[1] = a /\ <<a, b>>[2] = b
  OBVIOUS
<1>2. <<a>> \in Seq(S) /\ <<b>> \in Seq(S)
  OBVIOUS
<1>3. <<a>> \o <<b>> \in Seq(S) /\ Len(<<a>> \o <<b>>) = 2
  BY <1>2, ConcatProperties
<1>4. (<<a>> \o <<b>>)[1] = a /\ (<<a>> \o <<b>>)[2] = b
  BY <1>2, ConcatProperties
<1> DEFINE p == <<a>> \o <<b>>
           q == <<a, b>>
<1>5. p = q
  <2>1. p \in Seq(S) /\ q \in Seq(S) /\ Len(p) = 2 /\ Len(q) = 2 /\ p[1] = q[1] /\ p[2] = q[2]
    BY <1>1, <1>3, <1>4
  <2> HIDE DEF p, q
  <2>2. \A i \in 1..Len(p) : p[i] = q[i]
    BY <2>1
  <2> QED BY <2>1, <2>2, SeqEqual
<1> QED BY <1>1, <1>5

LEMMA TailConcat ==
    ASSUME NEW S, NEW s \in Seq(S), NEW t \in Seq(S), s # <<>>
    PROVE  Tail(s \o t) = Tail(s) \o t /\ Head(s \o t) = Head(s) /\ s \o t # <<>>
BY SeqEqual

LEMMA Pass ==
    ASSUME NEW S, NEW s \in Seq(S), NEW t \in Seq(S), t # <<>>
    PROVE  Append(s, Head(t)) \o Tail(t) = s \o t
BY SeqEqual

(* The innermost exchange, and what the operators of the driver make of    *)
(* the line.                                                               *)
LEMMA TopType == TypeOK /\ pc # "idle" => Top \in Exchanges /\ stack # <<>> /\ Tail(stack) \in Seq(Exchanges)
BY TailFacts DEF TypeOK, Top

LEMMA FlushedType == TypeOK => Flushed \in Seq(Msg)
BY EmptySeq DEF TypeOK, Flushed, uart_flush_input

LEMMA RestType == TypeOK /\ line # <<>> => Rest \in Seq(Msg) /\ Tail(line) \in Seq(Msg) /\ Head(line) \in Msg
<1> SUFFICES ASSUME TypeOK, line # <<>>
             PROVE  Rest \in Seq(Msg) /\ Tail(line) \in Seq(Msg) /\ Head(line) \in Msg
  OBVIOUS
<1>1. Tail(line) \in Seq(Msg) /\ Head(line) \in Msg
  BY TailFacts DEF TypeOK
<1>2. <<Junk>> \in Seq(Msg)
  BY Kinds, One, Zenon
<1>3. <<Junk>> \o Tail(line) \in Seq(Msg)
  BY <1>1, <1>2, ConcatFacts
<1> QED BY <1>1, <1>3 DEF Rest

LEMMA InterruptedType == TypeOK => Interrupted \subseteq Seq(Msg)
BY EmptySeq DEF TypeOK, Interrupted

(* The end of an exchange. *)
LEMMA EndFacts ==
    ASSUME TypeOK, pc # "idle", NEW res, End(res)
    PROVE  \/ /\ pc' = "send" /\ stack' = Tail(stack) /\ Tail(stack) # <<>> /\ ~Head(Tail(stack)).aborting
              /\ res \in {"ok", "empty"} /\ result' = result
           \/ /\ pc' = "idle" /\ stack' = <<>>
              /\ \/ result' = "aborted" /\ Tail(stack) # <<>> /\ Head(Tail(stack)).aborting
                 \/ result' = res /\ (Tail(stack) = <<>> \/ res \notin {"ok", "empty"})
<1> DEFINE rest == Tail(stack)
           resumed == rest # <<>> /\ ~Head(rest).aborting /\ res \in {"ok", "empty"}
<1>1. /\ stack' = IF resumed THEN rest ELSE <<>>
      /\ pc' = IF resumed THEN "send" ELSE "idle"
      /\ result' = IF resumed THEN result
                   ELSE IF rest # <<>> /\ Head(rest).aborting THEN "aborted" ELSE res
  BY Zenon DEF End
<1>2. CASE resumed
  BY <1>1, <1>2
<1>3. CASE ~resumed
  <2>1. CASE rest # <<>> /\ Head(rest).aborting
    BY <1>1, <1>3, <2>1
  <2>2. CASE rest = <<>> \/ res \notin {"ok", "empty"}
    BY <1>1, <1>3, <2>2
  <2> QED BY <1>3, <2>1, <2>2
<1> QED BY <1>2, <1>3

(* An error ends all the exchanges. *)
LEMMA EndFails ==
    ASSUME TypeOK, pc # "idle", NEW res, End(res), res \notin {"ok", "empty"}
    PROVE  pc' = "idle" /\ stack' = <<>> /\ result' \in {"aborted", res}
BY DEF End

LEMMA EndType ==
    ASSUME TypeOK, pc # "idle", NEW res, End(res)
    PROVE  stack' \in Seq(Exchanges) /\ pc' \in {"idle", "send"} /\ (pc' = "idle") = (stack' = <<>>)
BY EndFacts, TopType, EmptySeq

(* An exchange is put before the others: the chip is woken up, or asked    *)
(* to diagnose itself.                                                     *)
LEMMA Pushed ==
    ASSUME TypeOK, Wakeup
    PROVE  /\ stack' \in Seq(Exchanges) /\ stack' # <<>> /\ Len(stack) \in Nat \ {0}
           /\ Len(stack') >= Len(stack) /\ stack'[Len(stack')] = stack[Len(stack)]
           /\ stack' = stack \/ (Len(stack') > 1 /\ Head(stack') = Nested(SAMConfiguration))
           /\ \A i \in 1..Len(stack') : \/ stack'[i] = Nested(SAMConfiguration)
                                        \/ \E j \in 1..Len(stack) : stack'[i] = stack[j]
<1> DEFINE e == Nested(SAMConfiguration)
<1>1. stack \in Seq(Exchanges) /\ stack # <<>> /\ Len(stack) \in Nat \ {0}
  BY EmptySeq DEF TypeOK, Wakeup
<1>2. e \in Exchanges
  BY ExchangeType DEF Nested, Command
<1>3. stack' \in {<<>> \o <<>> \o stack, <<>> \o <<e>> \o stack, <<e>> \o <<>> \o stack, <<e>> \o <<e>> \o stack}
  BY DEF Wakeup
<1> HIDE DEF e
<1>4. stack' \in {stack, <<e>> \o stack, <<e, e>> \o stack}
  <2>1. <<>> \o <<>> = <<>> /\ <<>> \o <<e>> = <<e>> /\ <<e>> \o <<>> = <<e>> /\ <<e>> \o <<e>> = <<e, e>>
    <3>1. <<>> \in Seq(Exchanges) /\ <<e>> \in Seq(Exchanges)
      BY <1>2, One, EmptySeq
    <3> QED BY <1>2, <3>1, Two, ConcatEmptySeq
  <2>2. <<>> \o stack = stack
    BY <1>1, ConcatEmptySeq
  <2> QED BY <1>3, <2>1, <2>2
<1>5. CASE stack' = stack
  BY <1>1, <1>5
<1>6. CASE stack' = <<e>> \o stack
  <2>1. <<e>> \in Seq(Exchanges) /\ Len(<<e>>) = 1
    BY <1>2
  <2>2. stack' \in Seq(Exchanges) /\ Len(stack') = Len(stack) + 1 /\ \A i \in 1..Len(stack) + 1 : stack'[i] = IF i = 1 THEN e ELSE stack[i - 1]
    BY <1>1, <1>6, <2>1, ConcatProperties
  <2>3. Head(stack') = e /\ stack' # <<>>
    BY <2>2, <1>1
  <2> QED BY <2>2, <2>3, <1>1 DEF e
<1>7. CASE stack' = <<e, e>> \o stack
  <2>1. <<e, e>> \in Seq(Exchanges) /\ Len(<<e, e>>) = 2 /\ <<e, e>>[1] = e /\ <<e, e>>[2] = e
    BY <1>2
  <2>2. stack' \in Seq(Exchanges) /\ Len(stack') = Len(stack) + 2 /\ \A i \in 1..Len(stack) + 2 : stack'[i] = IF i <= 2 THEN e ELSE stack[i - 2]
    BY <1>1, <1>7, <2>1, ConcatProperties
  <2>3. Head(stack') = e /\ stack' # <<>>
    BY <2>2, <1>1
  <2> QED BY <2>2, <2>3, <1>1 DEF e
<1> QED BY <1>4, <1>5, <1>6, <1>7

(* What the chip does. *)
LEMMA DeliverType ==
    ASSUME TypeOK, owed # <<>>, NEW m \in Msg, Deliver(m)
    PROVE  owed' \in Seq(Msg) /\ line' \in Seq(Msg) /\ asleep' \in BOOLEAN
<1>1. line \in Seq(Msg) /\ owed \in Seq(Msg)
  BY DEF TypeOK
<1>2. owed' \in Seq(Msg)
  BY <1>1, TailFacts DEF Deliver
<1>3. line' \in Seq(Msg)
  BY <1>1, AppendProperties DEF Deliver
<1>4. asleep' \in BOOLEAN
  BY DEF Deliver, TypeOK
<1> QED BY <1>2, <1>3, <1>4

LEMMA TakeType ==
    ASSUME TypeOK, NEW x \in Exchanges, Take(x)
    PROVE  owed' \in Seq(Msg) /\ asleep' \in BOOLEAN
<1>1. CASE UNCHANGED <<owed, asleep>>
  BY <1>1 DEF TypeOK
<1>2. CASE ~ UNCHANGED <<owed, asleep>>
  <2>1. PICK old \in Interrupted, more \in BOOLEAN :
          owed' = old \o <<Ack, Answer(x, more)>> \/ owed' = Append(old, Answer(x, more))
    BY <1>2 DEF Take
  <2>2. asleep' \in BOOLEAN
    BY <1>2 DEF Take
  <2>3. Ack \in Msg /\ Answer(x, more) \in Msg /\ old \in Seq(Msg)
    BY Kinds, AnswerType, InterruptedType, Zenon DEF Msg
  <2>4. owed' \in Seq(Msg)
    <3> DEFINE a == Answer(x, more)
    <3> HIDE DEF a
    <3>1. <<Ack, a>> \in Seq(Msg)
      BY <2>3, Two DEF a
    <3>2. old \o <<Ack, a>> \in Seq(Msg)
      BY <2>3, <3>1, ConcatProperties
    <3>3. Append(old, a) \in Seq(Msg)
      BY <2>3, AppendProperties DEF a
    <3> QED BY <2>1, <3>2, <3>3 DEF a
  <2> QED BY <2>2, <2>4
<1> QED BY <1>1, <1>2

LEMMA TypeInit == Init => TypeOK
<1> SUFFICES ASSUME Init PROVE TypeOK
  OBVIOUS
<1>1. asleep \in BOOLEAN
  BY DEF Init
<1>2. <<>> \in Seq(Msg) /\ <<>> \in Seq(Exchanges)
  BY EmptySeq
<1> QED BY <1>1, <1>2 DEF Init, TypeOK

(* Every step keeps the types. *)
LEMMA TypeStep == TypeOK /\ [Next]_vars => TypeOK'
<1> SUFFICES ASSUME TypeOK, [Next]_vars PROVE TypeOK'
  OBVIOUS
<1> USE TopType, RestType
<1>1. ASSUME NEW c \in Commands, Call(c) PROVE TypeOK'
  <2>1. Exchange(c, calls + 1) \in Exchanges
    <3>1. c \in Command /\ calls + 1 \in Nat
      BY DEF TypeOK, Command
    <3> QED BY <3>1, ExchangeType
  <2>2. stack' \in Seq(Exchanges) /\ stack' # <<>> /\ answer' \in Seq(Msg)
    BY <1>1, <2>1, One, EmptySeq DEF Call
  <2>3. clean' \in BOOLEAN
    BY <1>1 DEF Call
  <2>4. /\ driver' = driver /\ owed' = owed /\ line' = line /\ asleep' = asleep /\ abort' = abort
        /\ pc' = "send" /\ calls' = calls + 1 /\ hurt' = FALSE
    BY <1>1 DEF Call, chipvars
  <2>5. asleep' \in BOOLEAN /\ abort' \in BOOLEAN /\ hurt' \in BOOLEAN
    BY <2>4 DEF TypeOK
  <2>6. driver' \in Drivers /\ owed' \in Seq(Msg) /\ line' \in Seq(Msg) /\ calls' \in Nat
    BY <2>4 DEF TypeOK
  <2> QED BY <2>2, <2>3, <2>4, <2>5, <2>6 DEF TypeOK
<1>2. CASE Wakeup
  BY <1>2, Pushed, FlushedType DEF Wakeup, TypeOK, bounds, hist
<1>3. CASE Send
  <2>1. line' \in Seq(Msg) /\ pc' \in {"ack", "answer"}
    BY <1>3, FlushedType DEF Send, Written
  <2>2. owed' \in Seq(Msg) /\ asleep' \in BOOLEAN
    BY <1>3, TakeType DEF Send
  <2> QED BY <1>3, <2>1, <2>2 DEF Send, TypeOK, bounds, hist
<1>4. CASE SendMisread
  <2>1. line' \in Seq(Msg) /\ pc' \in {"ack", "answer"}
    BY <1>4, FlushedType DEF SendMisread, Written
  <2>2. owed' \in Seq(Msg)
    BY <1>4, Kinds, AppendProperties, Zenon DEF SendMisread, TypeOK
  <2> QED BY <1>4, <2>1, <2>2 DEF SendMisread, TypeOK, Fault
<1>5. CASE SendFails
  <2>1. stack' \in Seq(Exchanges) /\ pc' \in {"idle", "send"} /\ (pc' = "idle") = (stack' = <<>>)
    BY <1>5, EndType DEF SendFails
  <2>2. line' \in Seq(Msg)
    BY <1>5, FlushedType DEF SendFails
  <2> QED BY <1>5, <2>1, <2>2 DEF SendFails, TypeOK, Fault
<1>6. CASE PcscSend
  <2>1. CASE Fault /\ End("error") /\ line' = <<>>
    <3>1. stack' \in Seq(Exchanges) /\ pc' \in {"idle", "send"} /\ (pc' = "idle") = (stack' = <<>>)
      BY <1>6, <2>1, EndType DEF PcscSend
    <3> QED BY <1>6, <2>1, <3>1, EmptySeq DEF PcscSend, TypeOK, Fault
  <2>2. CASE ~(Fault /\ End("error") /\ line' = <<>>)
    <3>1. PICK more \in BOOLEAN : line' = <<Answer(Top, more)>>
      BY <1>6, <2>2 DEF PcscSend
    <3>2. line' \in Seq(Msg)
      <4>1. Answer(Top, more) \in Msg
        BY <1>6, AnswerType DEF PcscSend, Msg
      <4> QED BY <3>1, <4>1, One
    <3>3. pc' = "answer" /\ UNCHANGED <<stack, hurt>>
      BY <1>6, <2>2 DEF PcscSend
    <3> QED BY <1>6, <3>2, <3>3 DEF PcscSend, TypeOK
  <2> QED BY <2>1, <2>2
<1>7. CASE AckRead
  BY <1>7 DEF AckRead, TypeOK, bounds, hist
<1>8. CASE AckMismatch
  <2>1. line' \in Seq(Msg)
    BY <1>8 DEF AckMismatch
  <2>2. CASE driver = "pn53x_usb" \/ (driver = "arygon" /\ Head(line) = Unknown)
    <3>1. pc' = "answer" /\ stack' = stack
      BY <1>8, <2>2 DEF AckMismatch
    <3>2. owed' \in Seq(Msg)
      <4>1. \/ owed' = owed \o <<>>
            \/ owed' = owed \o <<Answer(Top, FALSE)>>
        BY <1>8, <2>2 DEF AckMismatch
      <4>2. Answer(Top, FALSE) \in Msg
        BY <1>8, AnswerType DEF AckMismatch, Msg
      <4>3. owed \in Seq(Msg) /\ <<Answer(Top, FALSE)>> \in Seq(Msg)
        BY <4>2, One DEF TypeOK
      <4>4. owed \o <<Answer(Top, FALSE)>> \in Seq(Msg) /\ owed \o <<>> = owed
        BY <4>3, ConcatProperties, ConcatEmptySeq
      <4> QED BY <4>1, <4>3, <4>4
    <3> QED BY <1>8, <2>1, <3>1, <3>2 DEF AckMismatch, TypeOK, bounds, hist
  <2>3. CASE ~(driver = "pn53x_usb" \/ (driver = "arygon" /\ Head(line) = Unknown))
    <3>1. End("error") /\ owed' = owed
      BY <1>8, <2>3 DEF AckMismatch
    <3>2. stack' \in Seq(Exchanges) /\ pc' \in {"idle", "send"} /\ (pc' = "idle") = (stack' = <<>>)
      BY <1>8, <3>1, EndType DEF AckMismatch
    <3> QED BY <1>8, <2>1, <3>1, <3>2 DEF AckMismatch, TypeOK, bounds, hist
  <2> QED BY <2>2, <2>3
<1>9. CASE AckTimeout
  <2>1. stack' \in Seq(Exchanges) /\ pc' \in {"idle", "send"} /\ (pc' = "idle") = (stack' = <<>>)
    BY <1>9, EndType DEF AckTimeout
  <2>2. owed' \in Seq(Msg) /\ hurt' \in BOOLEAN
    BY <1>9, InterruptedType DEF AckTimeout, TypeOK, TimeUp, Fault
  <2> QED BY <1>9, <2>1, <2>2 DEF AckTimeout, TypeOK
<1>10. CASE AckAborted
  <2>1. stack' \in Seq(Exchanges) /\ pc' \in {"idle", "send"} /\ (pc' = "idle") = (stack' = <<>>)
    BY <1>10, EndType DEF AckAborted
  <2>2. owed' \in Seq(Msg)
    BY <1>10, InterruptedType DEF AckAborted, TypeOK
  <2>3. line' \in Seq(Msg)
    BY <1>10, EmptySeq DEF AckAborted, TypeOK
  <2> QED BY <1>10, <2>1, <2>2, <2>3 DEF AckAborted, TypeOK, bounds, hist
<1>11. CASE Receive
  <2>1. line' \in Seq(Msg)
    BY <1>11 DEF Receive
  <2>2. answer' \in Seq(Msg)
    BY <1>11, AppendProperties DEF Receive, TypeOK
  <2>3. stack' \in Seq(Exchanges) /\ pc' \in {"idle", "send"} /\ (pc' = "idle") = (stack' = <<>>)
    <3>1. CASE Head(line).more
      <4> DEFINE top == [Top EXCEPT !.part = @ + 1]
      <4>1. stack' = <<top>> \o Tail(stack) /\ pc' = "send"
        BY <1>11, <3>1 DEF Receive
      <4>2. top \in Exchanges /\ Tail(stack) \in Seq(Exchanges)
        <5>1. Top \in Exchanges /\ Tail(stack) \in Seq(Exchanges)
          BY <1>11 DEF Receive
        <5> QED BY <5>1 DEF Exchanges
      <4> HIDE DEF top
      <4>3. <<top>> \in Seq(Exchanges) /\ Len(<<top>>) = 1
        BY <4>2, One
      <4>4. stack' \in Seq(Exchanges) /\ Len(stack') = 1 + Len(Tail(stack)) /\ Len(Tail(stack)) \in Nat
        BY <4>1, <4>2, <4>3, ConcatProperties, LenProperties
      <4>5. stack' # <<>>
        BY <4>4, EmptySeq
      <4> QED BY <4>1, <4>4, <4>5
    <3>2. CASE ~Head(line).more
      BY <1>11, <3>2, EndType DEF Receive
    <3> QED BY <3>1, <3>2
  <2> QED BY <1>11, <2>1, <2>2, <2>3 DEF Receive, TypeOK, bounds, hist
<1>12. CASE ReceiveMismatch
  <2>1. line' \in Seq(Msg)
    BY <1>12 DEF ReceiveMismatch
  <2>2. stack' \in Seq(Exchanges) /\ pc' \in {"idle", "send", "drain"} /\ (pc' = "idle") = (stack' = <<>>)
    BY <1>12, EndType DEF ReceiveMismatch, TypeOK
  <2> QED BY <1>12, <2>1, <2>2 DEF ReceiveMismatch, TypeOK, bounds, hist
<1>13. CASE ReceiveTimeout
  <2>1. (pc' = "drain" /\ stack' = stack) \/ End("error") \/ End("empty")
    BY <1>13 DEF ReceiveTimeout
  <2>2. stack' \in Seq(Exchanges) /\ pc' \in {"idle", "send", "drain"} /\ (pc' = "idle") = (stack' = <<>>)
    BY <1>13, <2>1, EndType DEF ReceiveTimeout, TypeOK
  <2>3. hurt' \in BOOLEAN
    BY <1>13 DEF ReceiveTimeout, TypeOK, TimeUp, Fault
  <2> QED BY <1>13, <2>2, <2>3 DEF ReceiveTimeout, TypeOK, chipvars
<1>14. CASE Drain
  <2>1. stack' \in Seq(Exchanges) /\ pc' \in {"idle", "send"} /\ (pc' = "idle") = (stack' = <<>>)
    BY <1>14, EndType DEF Drain
  <2> QED BY <1>14, <2>1, EmptySeq DEF Drain, TypeOK, bounds, hist, uart_flush_input
<1>15. CASE Notice
  <2>1. stack' \in Seq(Exchanges) /\ pc' \in {"idle", "send"} /\ (pc' = "idle") = (stack' = <<>>)
    BY <1>15, EndType DEF Notice, Seen
  <2>2. owed' \in Seq(Msg) /\ asleep' \in BOOLEAN
    BY <1>15, InterruptedType DEF Notice, TypeOK
  <2> QED BY <1>15, <2>1, <2>2 DEF Notice, TypeOK, bounds, hist
<1>16. CASE NoticeArygon
  <2>1. Nested(Diagnose) \in Exchanges /\ [Top EXCEPT !.aborting = TRUE] \in Exchanges
    BY <1>16, ExchangeType DEF NoticeArygon, Seen, Nested, Command, Exchanges
  <2>2. stack' \in Seq(Exchanges) /\ stack' # <<>>
    BY <1>16, <2>1, Two, EmptySeq DEF NoticeArygon
  <2>3. owed' \in Seq(Msg)
    BY <1>16, InterruptedType DEF NoticeArygon
  <2> QED BY <1>16, <2>2, <2>3 DEF NoticeArygon, TypeOK, bounds, hist
<1>17. CASE NoticeI2c
  <2>1. End("empty") \/ End("error")
    BY <1>17 DEF NoticeI2c
  <2>2. stack' \in Seq(Exchanges) /\ pc' \in {"idle", "send"} /\ (pc' = "idle") = (stack' = <<>>)
    BY <1>17, <2>1, EndType DEF NoticeI2c
  <2>3. owed' \in Seq(Msg)
    BY <1>17, InterruptedType DEF NoticeI2c, TypeOK
  <2>4. line' \in Seq(Msg)
    BY <1>17, EmptySeq DEF NoticeI2c
  <2> QED BY <1>17, <2>2, <2>3, <2>4 DEF NoticeI2c, TypeOK, bounds, hist
<1>18. CASE Arrive
  <2>1. Head(owed) \in Msg
    BY <1>18, TailFacts DEF Arrive, TypeOK
  <2>2. owed' \in Seq(Msg) /\ line' \in Seq(Msg) /\ asleep' \in BOOLEAN
    BY <1>18, <2>1, DeliverType DEF Arrive
  <2> QED BY <1>18, <2>2 DEF Arrive, TypeOK, bounds, hist
<1>19. CASE Garble
  <2>1. owed' \in Seq(Msg) /\ line' \in Seq(Msg) /\ asleep' \in BOOLEAN
    <3>1. CASE Deliver(Junk)
      BY <1>19, <3>1, DeliverType, Kinds, Zenon DEF Garble
    <3>2. CASE owed' = Tail(owed) /\ UNCHANGED <<line, asleep>>
      BY <1>19, <3>2, TailFacts DEF Garble, TypeOK
    <3> QED BY <1>19, <3>1, <3>2 DEF Garble
  <2> QED BY <1>19, <2>1 DEF Garble, TypeOK, Fault
<1>20. CASE nfc_abort_command
  BY <1>20 DEF nfc_abort_command, TypeOK, chipvars
<1>21. CASE UNCHANGED vars
  BY <1>21 DEF vars, chipvars, bounds, hist, TypeOK
<1> QED
  BY <1>1, <1>2, <1>3, <1>4, <1>5, <1>6, <1>7, <1>8, <1>9, <1>10, <1>11, <1>12, <1>13, <1>14, <1>15, <1>16, <1>17, <1>18, <1>19, <1>20, <1>21
  DEF Next, Host

-----------------------------------------------------------------------------
(* The exchange of the call itself: the others are nested in it. *)
Base == stack[Len(stack)]

(* The exchange of the call is the outermost one, of the call and of the   *)
(* part that is read next, unless the call is being aborted; a USB driver  *)
(* nests none, and what aborts a call is nested in it.                     *)
Stacked ==
    /\ Len(stack) = 1 => ~Top.aborting
    /\ driver = "pn53x_usb" => Len(stack) <= 1
    /\ stack # <<>> /\ ~Base.aborting => Base.call = calls /\ Len(answer) = Base.part - 1

(* The outermost exchange stays when an inner one ends. *)
LEMMA LastOfTail ==
    ASSUME NEW S, NEW s \in Seq(S), Tail(s) # <<>>, s # <<>>
    PROVE  Tail(s)[Len(Tail(s))] = s[Len(s)] /\ Len(Tail(s)) = Len(s) - 1 /\ Len(s) \in Nat /\ Len(s) > 1
BY TailFacts

LEMMA StackedSame ==
    ASSUME TypeOK, Stacked, UNCHANGED <<driver, stack, answer, calls>>
    PROVE  Stacked'
BY DEF Stacked, Base, Top

LEMMA StackedEmpty ==
    ASSUME stack' = <<>> PROVE Stacked'
<1>1. Len(stack') = 0
  OBVIOUS
<1> QED BY <1>1 DEF Stacked

LEMMA StackedTail ==
    ASSUME TypeOK, Stacked, stack # <<>>, stack' = Tail(stack), Tail(stack) # <<>>, ~Head(Tail(stack)).aborting,
           UNCHANGED <<driver, answer, calls>>
    PROVE  Stacked' /\ Base' = Base
<1>1. Base' = Base /\ Len(stack') = Len(stack) - 1 /\ Len(stack) \in Nat
  BY LastOfTail DEF TypeOK, Base
<1>2. ~Top'.aborting
  BY DEF Top
<1> QED BY <1>1, <1>2 DEF Stacked

LEMMA StackedEnd ==
    ASSUME TypeOK, Stacked, pc # "idle", NEW res, End(res), UNCHANGED <<driver, answer, calls>>
    PROVE  Stacked'
BY EndFacts, TopType, StackedTail, StackedEmpty

(* The card has more: the exchange on top becomes its next part. *)
LEMMA Continued ==
    ASSUME TypeOK, Receive, Head(line).more
    PROVE  /\ stack' \in Seq(Exchanges) /\ Len(stack') = Len(stack) /\ Len(stack) \in Nat \ {0}
           /\ Head(stack') = [Top EXCEPT !.part = @ + 1] /\ Top \in Exchanges /\ Top = stack[1]
           /\ stack'[1] = [Top EXCEPT !.part = @ + 1]
           /\ \A i \in 2..Len(stack) : stack'[i] = stack[i]
<1> DEFINE top == [Top EXCEPT !.part = @ + 1]
<1>1. Top \in Exchanges /\ Tail(stack) \in Seq(Exchanges) /\ stack # <<>> /\ stack \in Seq(Exchanges)
  BY TopType DEF Receive, TypeOK
<1>2. stack' = <<top>> \o Tail(stack)
  BY DEF Receive
<1>3. top \in Exchanges
  BY <1>1 DEF Exchanges
<1> HIDE DEF top
<1>4. <<top>> \in Seq(Exchanges) /\ Len(<<top>>) = 1 /\ <<top>>[1] = top
  BY <1>3, One
<1>5. Len(Tail(stack)) = Len(stack) - 1 /\ Len(stack) \in Nat \ {0} /\ \A i \in 1..Len(stack) - 1 : Tail(stack)[i] = stack[i + 1]
  BY <1>1, TailFacts
<1>6. /\ stack' \in Seq(Exchanges) /\ Len(stack') = Len(stack)
      /\ \A i \in 1..Len(stack) : stack'[i] = IF i <= 1 THEN <<top>>[i] ELSE Tail(stack)[i - 1]
  BY <1>1, <1>2, <1>4, <1>5, ConcatProperties
<1>7. stack'[1] = top /\ \A i \in 2..Len(stack) : stack'[i] = stack[i]
  BY <1>4, <1>5, <1>6
<1>8. Head(stack') = stack'[1] /\ Top = stack[1]
  BY <1>1, <1>5, <1>6, TailFacts DEF Top
<1> QED BY <1>1, <1>5, <1>6, <1>7, <1>8 DEF top

(* Every step keeps the exchanges stacked. *)
LEMMA StackedStep == TypeOK /\ Stacked /\ [Next]_vars => Stacked'
<1> SUFFICES ASSUME TypeOK, Stacked, [Next]_vars PROVE Stacked'
  OBVIOUS
<1> USE StackedSame, StackedEnd
<1>1. ASSUME NEW c \in Commands, Call(c) PROVE Stacked'
  <2>1. c \in Command /\ calls + 1 \in Nat
    BY DEF TypeOK, Command
  <2> DEFINE x == Exchange(c, calls + 1)
  <2>2. x \in Exchanges /\ x.call = calls + 1 /\ x.part = 1 /\ x.aborting = FALSE
    BY <2>1, ExchangeType
  <2>3. stack' = <<x>> /\ calls' = calls + 1 /\ answer' = <<>>
    BY <1>1 DEF Call
  <2> HIDE DEF x
  <2>4. Len(stack') = 1 /\ stack'[1] = x /\ Head(stack') = x /\ Len(answer') = 0
    BY <2>2, <2>3
  <2> QED BY <2>2, <2>3, <2>4 DEF Stacked, Top, Base
<1>2. CASE Wakeup
  <2>1. driver # "pn53x_usb" /\ UNCHANGED <<driver, answer, calls>>
    BY <1>2 DEF Wakeup, PN532, bounds
  <2>2. stack # <<>> /\ stack' # <<>> /\ Base' = Base /\ (stack' = stack \/ Len(stack') > 1)
    BY <1>2, Pushed, EmptySeq DEF Base, TypeOK
  <2>3. CASE stack' = stack
    BY <2>1, <2>3
  <2>4. CASE Len(stack') > 1
    <3>1. ~Base.aborting => Base.call = calls /\ Len(answer) = Base.part - 1
      BY <2>2 DEF Stacked
    <3>2. ~Base'.aborting => Base'.call = calls' /\ Len(answer') = Base'.part - 1
      BY <3>1, <2>1, <2>2
    <3>3. Len(stack') # 1 /\ driver' # "pn53x_usb"
      <4>1. Len(stack') \in Nat
        BY <1>2, Pushed, LenProperties
      <4>2. Len(stack') # 1
        <5> DEFINE n == Len(stack')
        <5>1. n \in Nat /\ n > 1
          BY ONLY <2>4, <4>1
        <5> HIDE DEF n
        <5>2. n # 1
          BY ONLY <5>1
        <5> QED BY ONLY <5>2 DEF n
      <4>3. driver' # "pn53x_usb"
        BY ONLY <2>1
      <4> QED BY <4>2, <4>3
    <3> QED BY <3>2, <3>3 DEF Stacked
  <2> QED BY <2>2, <2>3, <2>4
<1>3. CASE Send
  BY <1>3 DEF Send, bounds
<1>4. CASE SendMisread
  BY <1>4 DEF SendMisread
<1>5. CASE SendFails
  BY <1>5 DEF SendFails
<1>6. CASE PcscSend
  BY <1>6 DEF PcscSend
<1>7. CASE AckRead
  BY <1>7 DEF AckRead, bounds
<1>8. CASE AckMismatch
  BY <1>8 DEF AckMismatch, bounds
<1>9. CASE AckTimeout
  BY <1>9 DEF AckTimeout
<1>10. CASE AckAborted
  BY <1>10 DEF AckAborted, bounds
<1>11. CASE Receive
  <2>0. pc = "answer" /\ stack # <<>> /\ UNCHANGED <<driver, calls>>
    BY <1>11, TopType DEF Receive, bounds
  <2>1. CASE Head(line).more
    <3>1. \/ Len(stack) = 1 /\ answer' = Append(answer, Head(line))
          \/ Len(stack) > 1 /\ answer' = answer
      <4>1. Tail(stack) = <<>> <=> Len(stack) = 1
        BY <2>0, TailFacts DEF TypeOK
      <4>2. Len(stack) \in Nat \ {0}
        BY <2>0, EmptySeq DEF TypeOK
      <4> QED BY <1>11, <4>1, <4>2 DEF Receive
    <3>2. CASE Len(stack) = 1 /\ answer' = Append(answer, Head(line))
      <4>1. Len(answer') = Len(answer) + 1
        BY <3>2, <2>0, <1>11, RestType, AppendProperties DEF TypeOK, Receive
      <4>2. Base = Top /\ Top' = [Top EXCEPT !.part = @ + 1] /\ Base' = Top' /\ Len(stack') = 1 /\ Top \in Exchanges
        BY <1>11, <2>1, <3>2, Continued DEF Base, Top
      <4>3. Top'.aborting = Top.aborting /\ Top'.call = Top.call /\ Top'.part = Top.part + 1 /\ Top.part \in Nat
        BY <4>2 DEF Exchanges
      <4>4. Len(answer) \in Nat
        BY DEF TypeOK
      <4> QED BY <2>0, <3>2, <4>1, <4>2, <4>3, <4>4 DEF Stacked
    <3>3. CASE Len(stack) > 1 /\ answer' = answer
      <4>1. Base' = Base /\ Len(stack') = Len(stack) /\ Len(stack) \in Nat
        BY <1>11, <2>1, <3>3, Continued DEF Base
      <4> QED BY <2>0, <3>3, <4>1 DEF Stacked
    <3> QED BY <3>1, <3>2, <3>3
  <2>2. CASE ~Head(line).more
    <3>1. End("ok") /\ (Tail(stack) # <<>> => answer' = answer)
      BY <1>11, <2>2 DEF Receive
    <3> QED BY <2>0, <3>1, EndFacts, StackedTail, StackedEmpty
  <2> QED BY <2>1, <2>2
<1>12. CASE ReceiveMismatch
  BY <1>12 DEF ReceiveMismatch, bounds
<1>13. CASE ReceiveTimeout
  <2>1. stack' = stack \/ End("error") \/ End("empty")
    BY <1>13 DEF ReceiveTimeout
  <2> QED BY <1>13, <2>1 DEF ReceiveTimeout
<1>14. CASE Drain
  BY <1>14 DEF Drain, bounds
<1>15. CASE Notice
  BY <1>15 DEF Notice, Seen, bounds
<1>16. CASE NoticeArygon
  <2> DEFINE x == [Top EXCEPT !.aborting = TRUE]
             d == Nested(Diagnose)
  <2>1. d \in Exchanges /\ x \in Exchanges /\ x.aborting = TRUE
    BY <1>16, TopType, ExchangeType DEF NoticeArygon, Seen, Nested, Command, Exchanges
  <2>2. stack' = <<d, x>> /\ UNCHANGED driver /\ driver = "arygon"
    BY <1>16 DEF NoticeArygon
  <2> HIDE DEF x, d
  <2>3. Len(stack') = 2 /\ stack'[2] = x
    BY <2>1, <2>2
  <2> QED BY <2>1, <2>2, <2>3 DEF Stacked, Base
<1>17. CASE NoticeI2c
  BY <1>17 DEF NoticeI2c, bounds
<1>18. CASE Arrive
  BY <1>18 DEF Arrive, bounds
<1>19. CASE Garble
  BY <1>19 DEF Garble
<1>20. CASE nfc_abort_command
  BY <1>20 DEF nfc_abort_command
<1>21. CASE UNCHANGED vars
  BY <1>21 DEF vars, bounds
<1> QED
  BY <1>1, <1>2, <1>3, <1>4, <1>5, <1>6, <1>7, <1>8, <1>9, <1>10, <1>11, <1>12, <1>13, <1>14, <1>15, <1>16, <1>17, <1>18, <1>19, <1>20, <1>21
  DEF Next, Host

-----------------------------------------------------------------------------
(* What the host will read: of the line, and after it of the chip.  A flush *)
(* leaves what has not arrived.                                            *)
Q == line \o owed
Kept == IF driver \in Serial THEN owed ELSE Q

(* How many messages of before the host may still have to read. *)
K == IF driver = "pn53x_usb" THEN Top.part - 1 ELSE IF driver \in Polled THEN 1 ELSE 0

(* An answer that would be taken for the one of exchange x. *)
Stale(m, x) ==
    /\ m.kind = "answer" /\ m.cmd = x.cmd
    /\ ~(m.call = x.call /\ m.part = x.part /\ (m.more => m.part = 1))

(* Between two exchanges the driver has at most k messages to read of an   *)
(* earlier one, and no acknowledgement.                                    *)
NoAck(q) == \A i \in 1..Len(q) : q[i].kind # "ack"
Calm(q, k) == Len(q) <= k /\ NoAck(q)

(* While the acknowledgement of x is awaited: it is there once at most,    *)
(* after k messages and before one; what comes from then on is no other    *)
(* exchange's answer.                                                      *)
Acking(q, k, x) ==
    /\ Len(q) <= k + 2
    /\ \A i \in 1..Len(q) : q[i].kind = "ack" => i <= k + 1 /\ Len(q) <= i + 1
    /\ \A i, j \in 1..Len(q) : q[i].kind = "ack" /\ q[j].kind = "ack" => i = j
    /\ \A i \in 1..Len(q) : i > k => ~Stale(q[i], x)

(* While the answer of x is awaited: nothing there can be taken for it.    *)
(* A pn53x_usb reader may have been asked to answer twice.                 *)
Answering(q, x, d) ==
    /\ \A i \in 1..Len(q) : ~Stale(q[i], x)
    /\ d # "pn53x_usb" => Len(q) <= 1
    /\ d = "pn53x_usb" /\ x.part = 1 => Len(q) <= 2
    /\ d # "pn53x_usb" \/ x.part = 1 => NoAck(q)

(* The parts of the answer so far are this call's, in order. *)
Own == \A i \in 1..Len(answer) : answer[i].call = calls /\ answer[i].part = i

(* The call began with nothing under way, and goes on. *)
Live == clean /\ pc # "idle" /\ ~Base.aborting

(* What the host will read, at each point of an exchange. *)
Waiting ==
    /\ driver = "pn53x_usb" => Top.part <= 2
    /\ Own
    /\ pc = "send" => Calm(Kept, K)
    /\ pc = "ack" => Acking(Q, K, Top)
    /\ pc = "answer" => last_command = Top.cmd /\ Answering(Q, Top, driver)

(* The strengthening of OwnAnswer. *)
Mine == Live => Waiting

(* r is q without its n-th message, or with noise instead of it. *)
Loses(q, r, n)  == n \in 1..Len(q) /\ Len(r) = Len(q) - 1 /\ \A i \in 1..Len(r) : r[i] = IF i < n THEN q[i] ELSE q[i + 1]
Spoils(q, r, n) == n \in 1..Len(q) /\ Len(r) = Len(q) /\ \A i \in 1..Len(r) : r[i] = IF i = n THEN Junk ELSE q[i]

(* Noise and loss spoil none of these. *)
LEMMA JunkHarmless == ASSUME NEW x PROVE ~Stale(Junk, x) /\ Junk.kind # "ack"
BY Kinds, Zenon DEF Stale

LEMMA CalmHurt ==
    ASSUME NEW q \in Seq(Msg), NEW r \in Seq(Msg), NEW n, NEW k \in Nat, Calm(q, k), Loses(q, r, n) \/ Spoils(q, r, n)
    PROVE  Calm(r, k)
<1>1. CASE Loses(q, r, n)
  BY <1>1 DEF Calm, NoAck, Loses
<1>2. CASE Spoils(q, r, n)
  BY <1>2, JunkHarmless DEF Calm, NoAck, Spoils
<1> QED BY <1>1, <1>2

LEMMA AckingHurt ==
    ASSUME NEW q \in Seq(Msg), NEW r \in Seq(Msg), NEW n, NEW k \in Nat, NEW x, Acking(q, k, x), Loses(q, r, n) \/ Spoils(q, r, n)
    PROVE  Acking(r, k, x)
<1>1. CASE Loses(q, r, n)
  <2>0. Len(q) \in Nat /\ Len(r) \in Nat /\ Len(r) = Len(q) - 1 /\ n \in Nat
    BY <1>1 DEF Loses
  <2> DEFINE at(i) == IF i < n THEN i ELSE i + 1
  <2>1. \A i \in 1..Len(r) : at(i) \in 1..Len(q) /\ r[i] = q[at(i)] /\ at(i) >= i /\ at(i) <= i + 1
    BY <2>0, <1>1 DEF Loses
  <2>2. \A i, j \in 1..Len(r) : at(i) = at(j) => i = j
    BY <2>0
  <2> HIDE DEF at
  <2>3. ASSUME NEW i \in 1..Len(r), r[i].kind = "ack"
        PROVE  i <= k + 1 /\ Len(r) <= i + 1
    <3>1. at(i) <= k + 1 /\ Len(q) <= at(i) + 1 /\ at(i) \in Nat
      <4>1. at(i) \in 1..Len(q) /\ q[at(i)].kind = "ack"
        BY <2>1, <2>3
      <4> QED BY <4>1 DEF Acking
    <3> QED BY <2>0, <2>1, <3>1
  <2>4. ASSUME NEW i \in 1..Len(r), NEW j \in 1..Len(r), r[i].kind = "ack", r[j].kind = "ack"
        PROVE  i = j
    BY <2>1, <2>2, <2>4 DEF Acking
  <2>5. ASSUME NEW i \in 1..Len(r), i > k
        PROVE  ~Stale(r[i], x)
    <3>1. at(i) > k /\ at(i) \in 1..Len(q)
      BY <2>1, <2>5
    <3> QED BY <2>1, <3>1 DEF Acking
  <2>6. Len(r) <= k + 2
    BY <2>0 DEF Acking
  <2> QED BY <2>3, <2>4, <2>5, <2>6 DEF Acking
<1>2. CASE Spoils(q, r, n)
  BY <1>2, JunkHarmless DEF Acking, Spoils
<1> QED BY <1>1, <1>2

LEMMA AnsweringHurt ==
    ASSUME NEW q \in Seq(Msg), NEW r \in Seq(Msg), NEW n, NEW x, NEW d, Answering(q, x, d), Loses(q, r, n) \/ Spoils(q, r, n)
    PROVE  Answering(r, x, d)
<1>0. Len(q) \in Nat /\ Len(r) \in Nat
  OBVIOUS
<1>1. CASE Loses(q, r, n)
  <2>1. \A i \in 1..Len(r) : ~Stale(r[i], x)
    BY <1>0, <1>1 DEF Answering, Loses
  <2>2. NoAck(q) => NoAck(r)
    BY <1>0, <1>1 DEF NoAck, Loses
  <2>3. Len(r) = Len(q) - 1
    BY <1>1 DEF Loses
  <2> QED BY <1>0, <2>1, <2>2, <2>3 DEF Answering
<1>2. CASE Spoils(q, r, n)
  <2>1. \A i \in 1..Len(r) : ~Stale(r[i], x)
    BY <1>0, <1>2, JunkHarmless DEF Answering, Spoils
  <2>2. NoAck(q) => NoAck(r)
    BY <1>0, <1>2, JunkHarmless DEF NoAck, Spoils
  <2>3. Len(r) = Len(q)
    BY <1>2 DEF Spoils
  <2> QED BY <1>0, <2>1, <2>2, <2>3 DEF Answering
<1> QED BY <1>1, <1>2

LEMMA TailLoses ==
    ASSUME NEW S, NEW q \in Seq(S), q # <<>>
    PROVE  Loses(q, Tail(q), 1)
BY TailFacts DEF Loses

(* What a message lost or garbled on its way does. *)
LEMMA LostOnTheWay ==
    ASSUME NEW s \in Seq(Msg), NEW t \in Seq(Msg), t # <<>>
    PROVE  /\ Loses(s \o t, s \o Tail(t), Len(s) + 1)
           /\ Spoils(s \o t, Append(s, Junk) \o Tail(t), Len(s) + 1)
<1>1. /\ Tail(t) \in Seq(Msg) /\ Len(Tail(t)) = Len(t) - 1 /\ Len(t) \in Nat \ {0}
      /\ \A i \in 1..Len(t) - 1 : Tail(t)[i] = t[i + 1]
  BY TailFacts
<1>2. Len(s) \in Nat
  OBVIOUS
<1>3. Len(s \o t) = Len(s) + Len(t) /\ \A i \in 1..Len(s) + Len(t) : (s \o t)[i] = IF i <= Len(s) THEN s[i] ELSE t[i - Len(s)]
  BY ConcatProperties
<1>4. Loses(s \o t, s \o Tail(t), Len(s) + 1)
  <2> DEFINE u == Tail(t)
  <2>1. Len(s \o u) = Len(s) + Len(u) /\ \A i \in 1..Len(s) + Len(u) : (s \o u)[i] = IF i <= Len(s) THEN s[i] ELSE u[i - Len(s)]
    BY <1>1, ConcatProperties
  <2>2. ASSUME NEW i \in 1..Len(s \o u)
        PROVE  (s \o u)[i] = IF i < Len(s) + 1 THEN (s \o t)[i] ELSE (s \o t)[i + 1]
    <3>1. CASE i <= Len(s)
      BY <1>1, <1>2, <1>3, <2>1, <3>1
    <3>2. CASE i > Len(s)
      <4>1. (s \o u)[i] = u[i - Len(s)] /\ i - Len(s) \in 1..Len(t) - 1
        BY <1>1, <1>2, <2>1, <3>2
      <4>2. u[i - Len(s)] = t[i - Len(s) + 1]
        BY <1>1, <4>1
      <4>3. (s \o t)[i + 1] = t[i + 1 - Len(s)]
        BY <1>1, <1>2, <1>3, <4>1, <3>2
      <4>4. i - Len(s) + 1 = i + 1 - Len(s)
        BY <1>2
      <4> QED BY <1>2, <3>2, <4>1, <4>2, <4>3, <4>4
    <3> QED BY <1>2, <3>1, <3>2
  <2> QED BY <1>1, <1>2, <1>3, <2>1, <2>2 DEF Loses
<1>5. Spoils(s \o t, Append(s, Junk) \o Tail(t), Len(s) + 1)
  <2> DEFINE v == Append(s, Junk)
             u == Tail(t)
  <2>1. v \in Seq(Msg) /\ Len(v) = Len(s) + 1 /\ \A i \in 1..Len(s) + 1 : v[i] = IF i <= Len(s) THEN s[i] ELSE Junk
    <3>1. /\ v \in Seq(Msg) /\ Len(v) = Len(s) + 1
          /\ \A i \in 1..Len(s) : v[i] = s[i]
          /\ v[Len(s) + 1] = Junk
      <4>1. Junk \in Msg
        BY Kinds, Zenon
      <4> QED BY <4>1, AppendProperties
    <3> QED BY <1>2, <3>1
  <2> HIDE DEF v
  <2>2. Len(v \o u) = Len(v) + Len(u) /\ \A i \in 1..Len(v) + Len(u) : (v \o u)[i] = IF i <= Len(v) THEN v[i] ELSE u[i - Len(v)]
    BY <1>1, <2>1, ConcatProperties
  <2>3. ASSUME NEW i \in 1..Len(v \o u)
        PROVE  (v \o u)[i] = IF i = Len(s) + 1 THEN Junk ELSE (s \o t)[i]
    <3>1. CASE i <= Len(s) + 1
      BY <1>1, <1>2, <1>3, <2>1, <2>2, <3>1
    <3>2. CASE i > Len(s) + 1
      <4>1. (v \o u)[i] = u[i - Len(v)] /\ i - Len(v) \in 1..Len(t) - 1 /\ i - Len(v) + 1 = i - Len(s)
        BY <1>1, <1>2, <2>1, <2>2, <3>2
      <4>2. u[i - Len(v)] = t[i - Len(s)]
        BY <1>1, <4>1
      <4>3. (s \o t)[i] = t[i - Len(s)]
        BY <1>1, <1>2, <1>3, <2>1, <2>2, <3>2
      <4> QED BY <1>2, <3>2, <4>1, <4>2, <4>3
    <3>3. i \in Nat
      BY <1>1, <1>2, <2>1, <2>2
    <3>4. i <= Len(s) + 1 \/ i > Len(s) + 1
      BY <1>2, <3>3
    <3> QED BY <3>1, <3>2, <3>4
  <2> QED BY <1>1, <1>2, <1>3, <2>1, <2>2, <2>3 DEF Spoils, v
<1> QED BY <1>4, <1>5

(* The queue and its bound. *)
LEMMA QType ==
    ASSUME TypeOK
    PROVE  /\ Q \in Seq(Msg) /\ Kept \in Seq(Msg) /\ Kept = Flushed \o owed
           /\ Len(Q) \in Nat /\ Len(Kept) \in Nat /\ Len(Kept) <= Len(Q)
<1>1. line \in Seq(Msg) /\ owed \in Seq(Msg)
  BY DEF TypeOK
<1>2. line \o owed \in Seq(Msg) /\ Len(line \o owed) = Len(line) + Len(owed) /\ Len(line) \in Nat /\ Len(owed) \in Nat
  BY <1>1, ConcatProperties, LenProperties
<1>3. <<>> \o owed = owed
  BY <1>1, ConcatEmptySeq
<1> QED BY <1>1, <1>2, <1>3 DEF Q, Kept, Flushed, uart_flush_input

LEMMA KType == ASSUME TypeOK, pc # "idle" PROVE K \in Nat
BY TopType DEF K, Exchanges

LEMMA NoAckParts ==
    ASSUME NEW s \in Seq(Msg), NEW t \in Seq(Msg)
    PROVE  NoAck(s \o t) <=> NoAck(s) /\ NoAck(t)
<1>1. Len(s) \in Nat /\ Len(t) \in Nat /\ Len(s \o t) = Len(s) + Len(t)
  BY ConcatProperties, LenProperties
<1>2. ASSUME NoAck(s \o t) PROVE NoAck(s) /\ NoAck(t)
  <2>1. ASSUME NEW i \in 1..Len(s) PROVE s[i].kind # "ack"
    <3>1. (s \o t)[i] = s[i] /\ i \in 1..Len(s \o t)
      BY <1>1, ConcatFacts
    <3> QED BY <1>2, <3>1 DEF NoAck
  <2>2. ASSUME NEW i \in 1..Len(t) PROVE t[i].kind # "ack"
    <3>1. (s \o t)[Len(s) + i] = t[i] /\ Len(s) + i \in 1..Len(s \o t)
      BY <1>1, ConcatFacts
    <3> QED BY <1>2, <3>1 DEF NoAck
  <2> QED BY <2>1, <2>2 DEF NoAck
<1>3. ASSUME NoAck(s), NoAck(t), NEW i \in 1..Len(s \o t) PROVE (s \o t)[i].kind # "ack"
  <2>1. (s \o t)[i] = IF i <= Len(s) THEN s[i] ELSE t[i - Len(s)]
    BY ConcatFacts
  <2>2. i <= Len(s) => i \in 1..Len(s)
    BY <1>1
  <2>3. ~(i <= Len(s)) => i - Len(s) \in 1..Len(t)
    BY <1>1
  <2> QED BY <1>3, <2>1, <2>2, <2>3 DEF NoAck
<1> QED BY <1>2, <1>3 DEF NoAck

(* A shorter queue, a fresh answer, a queue that is read. *)
LEMMA CalmPrefix ==
    ASSUME NEW s \in Seq(Msg), NEW t \in Seq(Msg), NEW k \in Nat, Calm(s \o t, k)
    PROVE  Calm(s, k) /\ Calm(t, k)
<1>1. Len(s) \in Nat /\ Len(t) \in Nat /\ Len(s \o t) = Len(s) + Len(t)
  BY ConcatProperties, LenProperties
<1> QED BY <1>1, NoAckParts DEF Calm

LEMMA NoAckTail ==
    ASSUME NEW q \in Seq(Msg), NoAck(q), q # <<>>
    PROVE  NoAck(Tail(q))
BY TailFacts DEF NoAck

LEMMA NoneLeft == NoAck(<<>>) /\ \A k \in Nat : Calm(<<>>, k)
BY DEF Calm, NoAck

LEMMA FreshAnswer ==
    ASSUME NEW x \in Exchanges, NEW more \in BOOLEAN, more => x.part = 1
    PROVE  /\ ~Stale(Answer(x, more), x) /\ Answer(x, more).kind = "answer" /\ Answer(x, more) \in Msg
           /\ ~Stale(Ack, x) /\ ~Stale(Unknown, x)
<1>1. Answer(x, more).call = x.call /\ Answer(x, more).part = x.part /\ Answer(x, more).kind = "answer"
  BY DEF Answer
<1>2. Answer(x, more).more = more
  BY DEF Answer
<1>3. Answer(x, more) \in Msg
  BY AnswerType DEF Msg
<1>4. Answer(x, more).more => Answer(x, more).part = 1
  BY <1>1, <1>2
<1>5. ~Stale(Answer(x, more), x)
  BY <1>1, <1>4 DEF Stale
<1> QED BY <1>1, <1>3, <1>5, Kinds, Zenon DEF Stale

LEMMA AckingCalm ==
    ASSUME NEW q \in Seq(Msg), NEW k \in Nat, NEW x, Calm(q, k)
    PROVE  Acking(q, k, x)
<1>1. Len(q) \in Nat /\ Len(q) <= k
  BY LenProperties DEF Calm
<1>2. \A i \in 1..Len(q) : q[i].kind # "ack"
  BY DEF Calm, NoAck
<1>3. \A i \in 1..Len(q) : ~(i > k)
  BY <1>1
<1> QED BY <1>1, <1>2, <1>3 DEF Acking

LEMMA AckingBuilt ==
    ASSUME NEW p \in Seq(Msg), NEW k \in Nat, NEW x \in Exchanges, Calm(p, k), NEW more \in BOOLEAN, more => x.part = 1
    PROVE  Acking(p \o <<Ack, Answer(x, more)>>, k, x)
<1> DEFINE a == Answer(x, more)
           t == <<Ack, a>>
           q == p \o t
<1>1. a \in Msg /\ a.kind = "answer" /\ ~Stale(a, x) /\ Ack \in Msg /\ Ack.kind = "ack" /\ ~Stale(Ack, x)
  BY FreshAnswer, Kinds, Zenon
<1> HIDE DEF a
<1>2. t \in Seq(Msg) /\ Len(t) = 2 /\ t[1] = Ack /\ t[2] = a
  BY <1>1, Two
<1> HIDE DEF t
<1>3. Len(p) \in Nat /\ Len(q) = Len(p) + 2 /\ \A i \in 1..Len(p) + 2 : q[i] = IF i <= Len(p) THEN p[i] ELSE t[i - Len(p)]
  <2>1. Len(q) = Len(p) + Len(t) /\ \A i \in 1..Len(p) + Len(t) : q[i] = IF i <= Len(p) THEN p[i] ELSE t[i - Len(p)]
    BY <1>2, ConcatProperties
  <2>2. Len(p) \in Nat
    OBVIOUS
  <2> HIDE DEF q
  <2> QED BY <1>2, <2>1, <2>2
<1>4. Len(p) <= k /\ \A i \in 1..Len(p) : p[i].kind # "ack"
  BY DEF Calm, NoAck
<1> HIDE DEF q
<1>5. \A i \in 1..Len(p) : q[i].kind # "ack"
  BY <1>3, <1>4
<1>6. q[Len(p) + 1] = Ack /\ q[Len(p) + 2] = a
  BY <1>2, <1>3
<1>7. \A i \in 1..Len(q) : q[i].kind = "ack" => i = Len(p) + 1
  <2> SUFFICES ASSUME NEW i \in 1..Len(q), i # Len(p) + 1 PROVE q[i].kind # "ack"
    OBVIOUS
  <2>1. i \in 1..Len(p) \/ i = Len(p) + 2
    BY <1>3
  <2> QED BY <1>1, <1>5, <1>6, <2>1
<1>8. \A i \in 1..Len(q) : i > k => ~Stale(q[i], x)
  <2> SUFFICES ASSUME NEW i \in 1..Len(q), i > k PROVE ~Stale(q[i], x)
    OBVIOUS
  <2>1. i = Len(p) + 1 \/ i = Len(p) + 2
    BY <1>3, <1>4
  <2> QED BY <1>1, <1>6, <2>1
<1>9. Acking(q, k, x)
  <2>1. Len(q) <= k + 2 /\ Len(p) + 1 <= k + 1 /\ Len(q) <= Len(p) + 1 + 1
    BY <1>3, <1>4
  <2> QED BY <1>7, <1>8, <2>1 DEF Acking
<1> QED BY <1>9 DEF q, t, a

LEMMA AnsweringShort ==
    ASSUME NEW q \in Seq(Msg), Len(q) <= 1, NEW x, q # <<>> => ~Stale(q[1], x) /\ q[1].kind # "ack", NEW d
    PROVE  Answering(q, x, d)
<1>1. Len(q) \in Nat /\ (q # <<>> => Len(q) = 1)
  BY EmptySeq
<1>2. \A i \in 1..Len(q) : i = 1 /\ q # <<>>
  BY <1>1
<1>3. NoAck(q) /\ \A i \in 1..Len(q) : ~Stale(q[i], x)
  BY <1>2 DEF NoAck
<1> QED BY <1>1, <1>3 DEF Answering

LEMMA AnsweringNothing == ASSUME NEW x, NEW d PROVE Answering(<<>>, x, d)
<1>1. Len(<<>>) = 0
  OBVIOUS
<1> QED BY <1>1 DEF Answering, NoAck

LEMMA AnsweringOne ==
    ASSUME NEW a \in Msg, NEW x, ~Stale(a, x), a.kind # "ack", NEW d
    PROVE  Answering(<<a>>, x, d)
<1>1. Len(<<a>>) = 1 /\ <<a>>[1] = a
  BY One
<1>2. \A i \in 1..Len(<<a>>) : <<a>>[i] = a
  BY <1>1
<1> QED BY <1>1, <1>2 DEF Answering, NoAck

LEMMA AckingRead ==
    ASSUME NEW q \in Seq(Msg), q # <<>>, NEW k \in 0..1, NEW x, NEW d, Acking(q, k, x), Head(q).kind = "ack"
    PROVE  Answering(Tail(q), x, d)
<1>1. /\ Tail(q) \in Seq(Msg) /\ Len(Tail(q)) = Len(q) - 1 /\ Len(q) \in Nat \ {0} /\ Head(q) = q[1]
      /\ \A i \in 1..Len(q) - 1 : Tail(q)[i] = q[i + 1]
  BY TailFacts
<1>2. Len(q) <= 2
  BY <1>1 DEF Acking
<1>3. Len(q) = 2 => q[2].kind # "ack"
  <2> SUFFICES ASSUME Len(q) = 2, q[2].kind = "ack" PROVE FALSE
    OBVIOUS
  <2>1. 1 \in 1..Len(q) /\ 2 \in 1..Len(q) /\ q[1].kind = "ack"
    BY <1>1
  <2>2. \A i, j \in 1..Len(q) : q[i].kind = "ack" /\ q[j].kind = "ack" => i = j
    BY DEF Acking
  <2>3. 1 = 2
    BY <2>1, <2>2
  <2> QED BY <2>3
<1>4. Len(q) = 2 => ~Stale(q[2], x)
  BY <1>1 DEF Acking
<1>5. Tail(q) # <<>> => Len(q) = 2 /\ Tail(q)[1] = q[2]
  <2>1. Tail(q) # <<>> => Len(Tail(q)) \in Nat \ {0}
    BY <1>1, EmptySeq
  <2> QED BY <1>1, <1>2, <2>1
<1>6. Len(Tail(q)) <= 1
  BY <1>1, <1>2
<1> QED BY <1>1, <1>3, <1>4, <1>5, <1>6, AnsweringShort

LEMMA AckingSkipped ==
    ASSUME NEW q \in Seq(Msg), q # <<>>, NEW k \in 0..1, NEW x, Acking(q, k, x), Head(q).kind # "ack"
    PROVE  /\ \A i \in 1..Len(Tail(q)) : ~Stale(Tail(q)[i], x)
           /\ k = 0 => NoAck(Tail(q)) /\ Len(Tail(q)) <= 1
<1>1. /\ Tail(q) \in Seq(Msg) /\ Len(Tail(q)) = Len(q) - 1 /\ Len(q) \in Nat \ {0} /\ Head(q) = q[1]
      /\ \A i \in 1..Len(q) - 1 : Tail(q)[i] = q[i + 1]
  BY TailFacts
<1>2. ASSUME NEW i \in 1..Len(Tail(q)) PROVE ~Stale(Tail(q)[i], x) /\ (k = 0 => Tail(q)[i].kind # "ack")
  <2>1. i + 1 \in 1..Len(q) /\ i + 1 > k /\ i \in Nat /\ i >= 1 /\ Tail(q)[i] = q[i + 1]
    BY <1>1
  <2>2. ~Stale(q[i + 1], x)
    BY <2>1 DEF Acking
  <2>3. k = 0 => q[i + 1].kind # "ack"
    <3>1. q[i + 1].kind = "ack" => i + 1 <= k + 1
      BY <2>1 DEF Acking
    <3> QED BY <2>1, <3>1
  <2> QED BY <2>1, <2>2, <2>3
<1>3. k = 0 => Len(Tail(q)) <= 1
  BY <1>1 DEF Acking
<1> QED BY <1>2, <1>3 DEF NoAck

(* A step that leaves the exchanges alone. *)
(* A step that leaves the queue and the exchange alone. *)
LEMMA MineKept ==
    ASSUME TypeOK, Mine, Live', UNCHANGED <<pc, stack, clean, answer, calls, driver, last_command>>
    PROVE  /\ Live /\ Waiting /\ Top' = Top /\ K' = K
           /\ Own' /\ (driver = "pn53x_usb" => Top.part <= 2)
<1>1. Base' = Base
  BY DEF Base
<1>2. Live
  BY <1>1 DEF Live
<1>3. Top' = Top
  BY DEF Top
<1>4. Waiting
  BY <1>2 DEF Mine
<1>5. Own'
  BY <1>4 DEF Waiting, Own
<1>6. K' = K
  BY <1>3 DEF K
<1> QED BY <1>2, <1>3, <1>4, <1>5, <1>6 DEF Waiting

(* The exchange on top stays there. *)
LEMMA MineTop ==
    ASSUME TypeOK, Mine, pc # "idle", Live', UNCHANGED <<stack, clean, answer, calls, driver>>
    PROVE  /\ Live /\ Waiting /\ Top' = Top /\ K' = K
           /\ Own' /\ (driver = "pn53x_usb" => Top.part <= 2)
<1>1. Base' = Base
  BY DEF Base
<1>2. Live
  BY <1>1 DEF Live
<1>3. Top' = Top
  BY DEF Top
<1>4. Waiting
  BY <1>2 DEF Mine
<1>5. Own'
  BY <1>4 DEF Waiting, Own
<1>6. K' = K
  BY <1>3 DEF K
<1> QED BY <1>2, <1>3, <1>4, <1>5, <1>6 DEF Waiting

(* Each step keeps Mine: a message arrives, is garbled or lost, a call     *)
(* begins, the chip is woken up, the command is sent.                      *)
LEMMA MineArrive == TypeOK /\ TypeOK' /\ Mine /\ Arrive => Mine'
<1> SUFFICES ASSUME TypeOK, TypeOK', Mine, Arrive, Live' PROVE Waiting'
  BY DEF Mine
<1>1. UNCHANGED <<pc, stack, clean, answer, calls, driver, last_command>>
  BY DEF Arrive, bounds, hist
<1>2. /\ Live /\ Waiting /\ Top' = Top /\ K' = K
      /\ Own' /\ (driver = "pn53x_usb" => Top.part <= 2)
  BY <1>1, MineKept
<1>3. line \in Seq(Msg) /\ owed \in Seq(Msg) /\ owed # <<>>
  BY DEF Arrive, TypeOK
<1>4. line' = Append(line, Head(owed)) /\ owed' = Tail(owed)
  BY DEF Arrive, Deliver
<1>5. Q' = Q
  BY <1>3, <1>4, Pass DEF Q
<1>6. pc = "send" => Calm(Kept', K)
  <2> SUFFICES ASSUME pc = "send" PROVE Calm(Kept', K)
    OBVIOUS
  <2>1. Calm(Kept, K) /\ K \in Nat
    BY <1>2, KType DEF Waiting
  <2>2. CASE driver \in Serial
    <3>1. Kept = owed /\ Kept' = Tail(owed)
      BY <1>1, <1>4, <2>2 DEF Kept
    <3>2. Loses(owed, Tail(owed), 1) /\ Tail(owed) \in Seq(Msg)
      BY <1>3, TailLoses, TailFacts
    <3> QED BY <1>3, <2>1, <3>1, <3>2, CalmHurt
  <2>3. CASE driver \notin Serial
    BY <1>1, <1>5, <2>1, <2>3 DEF Kept
  <2> QED BY <2>2, <2>3
<1> QED BY <1>1, <1>2, <1>5, <1>6 DEF Waiting

LEMMA MineGarble == TypeOK /\ TypeOK' /\ Mine /\ Garble => Mine'
<1> SUFFICES ASSUME TypeOK, TypeOK', Mine, Garble, Live' PROVE Waiting'
  BY DEF Mine
<1>1. UNCHANGED <<pc, stack, clean, answer, calls, driver, last_command>>
  BY DEF Garble
<1>2. /\ Live /\ Waiting /\ Top' = Top /\ K' = K
      /\ Own' /\ (driver = "pn53x_usb" => Top.part <= 2)
  BY <1>1, MineKept
<1>3. line \in Seq(Msg) /\ owed \in Seq(Msg) /\ owed # <<>> /\ Tail(owed) \in Seq(Msg)
  BY TailFacts DEF Garble, TypeOK
<1>4. owed' = Tail(owed) /\ (line' = line \/ line' = Append(line, Junk))
  BY DEF Garble, Deliver
<1> DEFINE n == Len(line) + 1
<1>5. Loses(Q, Q', n) \/ Spoils(Q, Q', n)
  BY <1>3, <1>4, LostOnTheWay DEF Q
<1>6. Q \in Seq(Msg) /\ Q' \in Seq(Msg)
  <2>1. line' \in Seq(Msg) /\ owed' \in Seq(Msg)
    BY DEF TypeOK
  <2> QED BY <1>3, <2>1, ConcatProperties DEF Q
<1>7. K \in Nat
  BY <1>2, KType DEF Live
<1> HIDE DEF n
<1>8. pc = "send" => Calm(Kept', K)
  <2> SUFFICES ASSUME pc = "send" PROVE Calm(Kept', K)
    OBVIOUS
  <2>1. Calm(Kept, K)
    BY <1>2 DEF Waiting
  <2>2. CASE driver \in Serial
    <3>1. Kept = owed /\ Kept' = Tail(owed)
      BY <1>1, <1>4, <2>2 DEF Kept
    <3>2. Loses(owed, Tail(owed), 1)
      BY <1>3, TailLoses
    <3> QED BY <1>3, <1>7, <2>1, <3>1, <3>2, CalmHurt
  <2>3. CASE driver \notin Serial
    <3>1. Kept = Q /\ Kept' = Q'
      BY <1>1, <2>3 DEF Kept
    <3> QED BY <1>5, <1>6, <1>7, <2>1, <3>1, CalmHurt
  <2> QED BY <2>2, <2>3
<1>9. pc = "ack" => Acking(Q', K, Top)
  BY <1>2, <1>5, <1>6, <1>7, AckingHurt DEF Waiting
<1>10. pc = "answer" => Answering(Q', Top, driver)
  BY <1>2, <1>5, <1>6, AnsweringHurt DEF Waiting
<1> QED BY <1>1, <1>2, <1>8, <1>9, <1>10 DEF Waiting

LEMMA MineCall == ASSUME TypeOK, TypeOK', Mine, NEW c \in Commands, Call(c) PROVE Mine'
<1> SUFFICES ASSUME Live' PROVE Waiting'
  BY DEF Mine
<1>1. stack' = <<Exchange(c, calls + 1)>> /\ answer' = <<>> /\ pc' = "send" /\ UNCHANGED <<driver, line, owed>>
  BY DEF Call, chipvars
<1>2. Exchange(c, calls + 1).part = 1
  BY DEF Exchange
<1>3. Top'.part = 1
  BY <1>1, <1>2 DEF Top
<1>4. clean'
  BY DEF Live
<1>5. owed = <<>> /\ (line = <<>> \/ driver \in Serial)
  BY <1>4 DEF Call
<1>6. Kept' = <<>>
  BY <1>1, <1>5 DEF Kept, Q
<1>7. K' \in Nat
  BY <1>1, KType, <1>3 DEF K
<1>8. Own'
  BY <1>1 DEF Own
<1> QED BY <1>1, <1>3, <1>6, <1>7, <1>8, NoneLeft DEF Waiting

LEMMA MineWakeup == TypeOK /\ TypeOK' /\ Mine /\ Wakeup => Mine'
<1> SUFFICES ASSUME TypeOK, TypeOK', Mine, Wakeup, Live' PROVE Waiting'
  BY DEF Mine
<1>1. pc = "send" /\ driver \in PN532 /\ UNCHANGED <<driver, owed, pc, clean, answer, calls>> /\ line' = Flushed
  BY DEF Wakeup, bounds, hist
<1>2. Base' = Base
  BY Pushed DEF Base
<1>3. Live /\ Waiting
  BY <1>1, <1>2 DEF Live, Mine
<1>4. K' = K /\ driver # "pn53x_usb"
  BY <1>1 DEF K, PN532, Polled
<1>5. Kept' = Kept
  <2>1. CASE driver \in Serial
    BY <1>1, <2>1 DEF Kept
  <2>2. CASE driver \notin Serial
    BY <1>1, <2>2 DEF Kept, Q, Flushed
  <2> QED BY <2>1, <2>2
<1>6. Own'
  BY <1>1, <1>3 DEF Waiting, Own
<1> QED BY <1>1, <1>3, <1>4, <1>5, <1>6 DEF Waiting

(* The command is on its way to the chip, and what it will say. *)
LEMMA MineSend == TypeOK /\ TypeOK' /\ Mine /\ Send => Mine'
<1> SUFFICES ASSUME TypeOK, TypeOK', Mine, Send, Live' PROVE Waiting'
  BY DEF Mine
<1>1. pc = "send" /\ Take(Top) /\ line' = Flushed /\ UNCHANGED <<driver, stack, clean, answer, calls>>
  BY DEF Send, Written, bounds, hist
<1>2. /\ Live /\ Waiting /\ Top' = Top /\ K' = K
      /\ Own' /\ (driver = "pn53x_usb" => Top.part <= 2)
  BY <1>1, MineTop
<1>3. K \in Nat /\ Calm(Kept, K) /\ Top \in Exchanges
  BY <1>1, <1>2, KType, TopType DEF Waiting
<1>4. Kept = Flushed \o owed /\ Flushed \in Seq(Msg) /\ owed \in Seq(Msg)
  BY QType, FlushedType DEF TypeOK
<1>5. Calm(Flushed, K)
  BY <1>3, <1>4, CalmPrefix
<1>6. ASSUME NEW old \in Interrupted
      PROVE  old \in Seq(Msg) /\ Flushed \o old \in Seq(Msg) /\ Calm(Flushed \o old, K)
  <2>1. old = owed \/ old = <<>>
    BY DEF Interrupted
  <2>2. Flushed \o <<>> = Flushed
    BY <1>4, ConcatEmptySeq
  <2> QED BY <1>3, <1>4, <1>5, <2>1, <2>2, ConcatProperties, InterruptedType
<1>7. CASE driver \in Acked
  <2>1. pc' = "ack"
    BY <1>7 DEF Send, Written
  <2>2. Acking(Q', K, Top)
    <3>1. CASE UNCHANGED <<owed, asleep>>
      <4>1. Q' = Kept
        BY <1>1, <1>4, <3>1 DEF Q
      <4> QED BY <1>3, <4>1, QType, AckingCalm
    <3>2. CASE ~ UNCHANGED <<owed, asleep>>
      <4>1. PICK old \in Interrupted, more \in BOOLEAN :
              (more => Top.part = 1) /\ owed' = old \o <<Ack, Answer(Top, more)>>
        BY <1>1, <1>7, <3>2 DEF Take
      <4>2. <<Ack, Answer(Top, more)>> \in Seq(Msg)
        BY <1>3, <4>1, FreshAnswer, Kinds, Two, Zenon
      <4>3. Q' = (Flushed \o old) \o <<Ack, Answer(Top, more)>>
        BY <1>1, <1>4, <1>6, <4>1, <4>2, ConcatAssociative DEF Q
      <4>4. Flushed \o old \in Seq(Msg) /\ Calm(Flushed \o old, K)
        BY <1>6
      <4>5. Acking((Flushed \o old) \o <<Ack, Answer(Top, more)>>, K, Top)
        BY <1>3, <4>1, <4>4, AckingBuilt
      <4> QED BY <4>3, <4>5
    <3> QED BY <3>1, <3>2
  <2> QED BY <1>1, <1>2, <2>1, <2>2 DEF Waiting
<1>8. CASE driver \notin Acked
  <2>1. pc' = "answer" /\ last_command' = Top.cmd
    BY <1>8 DEF Send, Written
  <2>2. K = 0
    BY <1>8 DEF K, Acked
  <2>3. Answering(Q', Top, driver)
    <3>1. CASE UNCHANGED <<owed, asleep>>
      <4>1. Q' = Kept
        BY <1>1, <1>4, <3>1 DEF Q
      <4>2. Kept = <<>>
        <5>1. Len(Kept) = 0
          BY <1>3, <2>2, QType DEF Calm
        <5> QED BY <5>1, QType, EmptySeq
      <4> QED BY <4>1, <4>2, AnsweringNothing
    <3>2. CASE ~ UNCHANGED <<owed, asleep>>
      <4>1. PICK old \in Interrupted, more \in BOOLEAN :
              (more => Top.part = 1) /\ owed' = Append(old, Answer(Top, more))
        BY <1>1, <1>8, <3>2 DEF Take
      <4> DEFINE a == Answer(Top, more)
      <4>2. a \in Msg /\ ~Stale(a, Top) /\ a.kind = "answer"
        BY <1>3, <4>1, FreshAnswer
      <4> HIDE DEF a
      <4>3. Flushed \o old = <<>>
        <5>1. Flushed \o old \in Seq(Msg) /\ Len(Flushed \o old) <= 0
          BY <1>6, <2>2 DEF Calm
        <5> QED BY <5>1, EmptySeq
      <4>4. Flushed = <<>> /\ old = <<>>
        BY <1>4, <1>6, <4>3, ConcatEqualIffEmpty
      <4>5. owed' = <<a>>
        BY <4>1, <4>4 DEF a
      <4>6. Q' = <<a>>
        <5>1. <<a>> \in Seq(Msg)
          BY <4>2, One
        <5> QED BY <1>1, <4>4, <4>5, <5>1, ConcatEmptySeq DEF Q
      <4>8. Answering(<<a>>, Top, driver)
        <5>1. a.kind # "ack"
          BY <4>2
        <5> QED BY <4>2, <5>1, AnsweringOne
      <4> QED BY <4>6, <4>8
    <3> QED BY <3>1, <3>2
  <2> QED BY <1>1, <1>2, <2>1, <2>3 DEF Waiting
<1> QED BY <1>7, <1>8

LEMMA MineSendMisread == TypeOK /\ TypeOK' /\ Mine /\ SendMisread => Mine'
<1> SUFFICES ASSUME TypeOK, TypeOK', Mine, SendMisread, Live' PROVE Waiting'
  BY DEF Mine
<1>1. /\ pc = "send" /\ driver = "arygon" /\ line' = <<>> /\ owed' = Append(owed, Unknown) /\ pc' = "ack"
      /\ UNCHANGED <<driver, stack, clean, answer, calls>>
  BY DEF SendMisread, Written, Flushed, uart_flush_input, Serial, Acked
<1>2. /\ Live /\ Waiting /\ Top' = Top /\ K' = K
      /\ Own' /\ (driver = "pn53x_usb" => Top.part <= 2)
  BY <1>1, MineTop
<1>3. K = 0 /\ Kept = owed
  BY <1>1 DEF K, Kept, Polled, Serial
<1>4. owed = <<>>
  <2>1. Calm(owed, 0) /\ owed \in Seq(Msg)
    BY <1>1, <1>2, <1>3 DEF Waiting, TypeOK
  <2> QED BY <2>1, EmptySeq DEF Calm
<1>5. Q' = <<Unknown>>
  <2>1. <<Unknown>> \in Seq(Msg)
    BY Kinds, One, Zenon
  <2>2. owed' = <<Unknown>>
    BY <1>1, <1>4
  <2> QED BY <1>1, <2>1, <2>2, ConcatEmptySeq DEF Q
<1>6. Acking(<<Unknown>>, 0, Top)
  <2>1. Unknown.kind # "ack" /\ ~Stale(Unknown, Top)
    BY Kinds, Zenon DEF Stale
  <2>2. Len(<<Unknown>>) = 1 /\ <<Unknown>>[1] = Unknown
    BY Kinds, One, Zenon
  <2>3. \A i \in 1..Len(<<Unknown>>) : <<Unknown>>[i] = Unknown
    BY <2>2
  <2> QED BY <2>1, <2>2, <2>3 DEF Acking
<1> QED BY <1>1, <1>2, <1>3, <1>5, <1>6 DEF Waiting

LEMMA MinePcscSend == TypeOK /\ TypeOK' /\ Mine /\ PcscSend => Mine'
<1> SUFFICES ASSUME TypeOK, TypeOK', Mine, PcscSend, Live' PROVE Waiting'
  BY DEF Mine
<1>0. pc = "send" /\ driver = "acr122_pcsc" /\ UNCHANGED <<driver, clean, answer, calls, owed>>
  BY DEF PcscSend
<1>1. ~End("error")
  BY <1>0, EndFails DEF Live
<1>2. stack' = stack /\ pc' = "answer" /\ last_command' = Top.cmd
  BY <1>1 DEF PcscSend
<1>3. PICK more \in BOOLEAN : (more => Top.part = 1) /\ line' = <<Answer(Top, more)>>
  BY <1>1 DEF PcscSend
<1>4. /\ Live /\ Waiting /\ Top' = Top /\ K' = K
      /\ Own' /\ (driver = "pn53x_usb" => Top.part <= 2)
  BY <1>0, <1>2, MineTop
<1>5. K = 0 /\ Kept = Q
  BY <1>0 DEF K, Kept, Polled, Serial
<1>6. owed = <<>>
  <2>1. Calm(Q, 0) /\ Q \in Seq(Msg)
    BY <1>0, <1>4, <1>5, QType DEF Waiting
  <2>2. Q = <<>>
    BY <2>1, EmptySeq DEF Calm
  <2>3. line \in Seq(Msg) /\ owed \in Seq(Msg)
    BY DEF TypeOK
  <2> QED BY <2>2, <2>3, ConcatEqualIffEmpty DEF Q
<1>7. Top \in Exchanges
  BY <1>0, TopType
<1> DEFINE a == Answer(Top, more)
<1>8. a \in Msg /\ ~Stale(a, Top) /\ a.kind = "answer"
  BY <1>3, <1>7, FreshAnswer
<1>9. line' = <<a>>
  BY <1>3
<1> HIDE DEF a
<1>10. Q' = <<a>>
  <2>1. <<a>> \in Seq(Msg)
    BY <1>8, One
  <2> QED BY <1>0, <1>6, <1>9, <2>1, ConcatEmptySeq DEF Q
<1>11. a.kind # "ack"
  BY <1>8
<1>12. Answering(<<a>>, Top, driver)
  BY <1>8, <1>11, AnsweringOne
<1> QED BY <1>0, <1>2, <1>4, <1>10, <1>12 DEF Waiting

(* The acknowledgement comes, or something else does. *)
LEMMA HeadOfQ ==
    ASSUME TypeOK, line # <<>>
    PROVE  Head(Q) = Head(line) /\ Tail(Q) = Tail(line) \o owed /\ Q # <<>> /\ Tail(Q) \in Seq(Msg) /\ Head(Q) \in Msg
<1>1. line \in Seq(Msg) /\ owed \in Seq(Msg)
  BY DEF TypeOK
<1> QED BY <1>1, QType, TailConcat, TailFacts DEF Q

LEMMA MineAckRead == TypeOK /\ TypeOK' /\ Mine /\ AckRead => Mine'
<1> SUFFICES ASSUME TypeOK, TypeOK', Mine, AckRead, Live' PROVE Waiting'
  BY DEF Mine
<1>1. /\ pc = "ack" /\ pc' = "answer" /\ last_command' = Top.cmd
      /\ line # <<>> /\ Head(line) = Ack /\ line' = Tail(line) /\ owed' = owed
      /\ UNCHANGED <<driver, stack, clean, answer, calls>>
  BY DEF AckRead, bounds, hist
<1>2. /\ Live /\ Waiting /\ Top' = Top /\ K' = K
      /\ Own' /\ (driver = "pn53x_usb" => Top.part <= 2)
  BY <1>1, MineTop
<1>3. K \in 0..1
  <2>1. Top.part \in Nat \ {0}
    BY <1>1, TopType DEF Exchanges
  <2> QED BY <1>2, <2>1 DEF K
<1>4. Q' = Tail(Q)
  BY <1>1, HeadOfQ DEF Q
<1>5. Acking(Q, K, Top) /\ Head(Q).kind = "ack"
  BY <1>1, <1>2, HeadOfQ, Kinds, Zenon DEF Waiting
<1>6. Answering(Tail(Q), Top, driver)
  BY <1>1, <1>3, <1>5, HeadOfQ, QType, AckingRead
<1> QED BY <1>1, <1>2, <1>4, <1>6 DEF Waiting

(* pn53x_usb and arygon go on after something else than an acknowledgement. *)
LEMMA MineAckMismatch == TypeOK /\ TypeOK' /\ Mine /\ AckMismatch => Mine'
<1> SUFFICES ASSUME TypeOK, TypeOK', Mine, AckMismatch, Live' PROVE Waiting'
  BY DEF Mine
<1>0. /\ pc = "ack" /\ line # <<>> /\ Head(line) # Ack /\ UNCHANGED <<driver, clean, answer, calls>>
  BY DEF AckMismatch, bounds, hist
<1>1. ~End("error")
  BY <1>0, EndFails DEF Live
<1>2. \/ driver = "pn53x_usb" /\ line' = Tail(line) /\ owed' \in {owed \o <<Answer(Top, FALSE)>>, owed \o <<>>}
      \/ driver = "arygon" /\ line' = Tail(line) /\ owed' = owed \o <<>>
  <2>1. driver = "pn53x_usb" \/ (driver = "arygon" /\ Head(line) = Unknown)
    BY <1>1 DEF AckMismatch
  <2>2. line' = Tail(line)
    BY <2>1, Kinds, Zenon DEF AckMismatch, Rest, Serial
  <2>3. CASE driver = "pn53x_usb"
    BY <2>2, <2>3 DEF AckMismatch
  <2>4. CASE driver = "arygon" /\ Head(line) = Unknown
    BY <2>2, <2>4 DEF AckMismatch
  <2> QED BY <2>1, <2>3, <2>4
<1>3. pc' = "answer" /\ last_command' = Top.cmd /\ stack' = stack
  BY <1>1 DEF AckMismatch
<1>4. /\ Live /\ Waiting /\ Top' = Top /\ K' = K
      /\ Own' /\ (driver = "pn53x_usb" => Top.part <= 2)
  BY <1>0, <1>3, MineTop
<1>5. Top \in Exchanges /\ Top.part \in Nat \ {0}
  BY <1>0, TopType DEF Exchanges
<1>6. K \in 0..1 /\ (driver = "pn53x_usb" /\ Top.part = 1 => K = 0) /\ (driver = "arygon" => K = 0)
  BY <1>4, <1>5 DEF K, Polled
<1> DEFINE r == Tail(Q)
<1>7. Head(Q).kind # "ack" /\ Q # <<>> /\ Q \in Seq(Msg) /\ r \in Seq(Msg) /\ r = Tail(line) \o owed
  BY <1>0, HeadOfQ, MsgKinds, QType
<1>8. /\ \A i \in 1..Len(r) : ~Stale(r[i], Top)
      /\ K = 0 => NoAck(r) /\ Len(r) <= 1
  BY <1>0, <1>4, <1>6, <1>7, AckingSkipped DEF Waiting
<1>9. Tail(line) \in Seq(Msg) /\ owed \in Seq(Msg)
  BY <1>0, RestType DEF TypeOK
<1> HIDE DEF r
<1>10. CASE owed' = owed \o <<>>
  <2>1. Q' = r
    BY <1>2, <1>7, <1>9, <1>10, ConcatEmptySeq DEF Q
  <2>2. Len(r) \in Nat
    BY <1>7, LenProperties
  <2>3. Answering(r, Top, driver)
    <3>1. CASE driver = "pn53x_usb"
      BY <1>6, <1>8, <2>2, <3>1 DEF Answering
    <3>2. CASE driver = "arygon"
      BY <1>6, <1>8, <2>2, <3>2 DEF Answering
    <3> QED BY <1>2, <3>1, <3>2
  <2> QED BY <1>0, <1>3, <1>4, <2>1, <2>3 DEF Waiting
<1>11. CASE driver = "pn53x_usb" /\ owed' = owed \o <<Answer(Top, FALSE)>>
  <2> DEFINE a == Answer(Top, FALSE)
             t == <<a>>
  <2>1. a \in Msg /\ ~Stale(a, Top) /\ a.kind = "answer"
    BY <1>5, FreshAnswer
  <2>2. owed' = owed \o t
    BY <1>11
  <2> HIDE DEF a
  <2>3. t \in Seq(Msg) /\ Len(t) = 1 /\ t[1] = a
    BY <2>1, One
  <2> HIDE DEF t
  <2>4. Q' = r \o t
    <3>1. Q' = Tail(line) \o (owed \o t)
      BY <1>2, <1>11, <2>2, Zenon DEF Q
    <3>2. Tail(line) \o (owed \o t) = (Tail(line) \o owed) \o t
      <4>1. Tail(line) \in Seq(Msg) /\ owed \in Seq(Msg) /\ t \in Seq(Msg)
        BY <1>9, <2>3
      <4> QED BY ONLY <4>1, ConcatAssociative
    <3> QED BY <1>7, <3>1, <3>2, Zenon
  <2>5. Len(r) \in Nat /\ Len(r \o t) = Len(r) + 1 /\ \A i \in 1..Len(r) + 1 : (r \o t)[i] = IF i <= Len(r) THEN r[i] ELSE t[i - Len(r)]
    <3>1. Len(r \o t) = Len(r) + Len(t) /\ \A i \in 1..Len(r) + Len(t) : (r \o t)[i] = IF i <= Len(r) THEN r[i] ELSE t[i - Len(r)]
      <4>1. r \in Seq(Msg) /\ t \in Seq(Msg)
        BY <1>7, <2>3
      <4> QED BY ONLY <4>1, ConcatProperties
    <3>2. Len(r) \in Nat
      BY <1>7, LenProperties
    <3> QED BY <2>3, <3>1, <3>2
  <2> DEFINE q == r \o t
  <2>6. q[Len(r) + 1] = a /\ \A i \in 1..Len(r) : q[i] = r[i]
    BY <2>3, <2>5
  <2>7. \A i \in 1..Len(q) : i = Len(r) + 1 \/ i \in 1..Len(r)
    BY <2>5
  <2>8. Len(q) = Len(r) + 1
    BY <2>5
  <2> HIDE DEF q
  <2>9. \A i \in 1..Len(q) : ~Stale(q[i], Top)
    BY <1>8, <2>1, <2>6, <2>7
  <2>10. K = 0 => NoAck(q)
    BY <1>8, <2>1, <2>6, <2>7 DEF NoAck
  <2>11. Answering(q, Top, driver)
    BY <1>6, <1>8, <1>11, <2>5, <2>8, <2>9, <2>10 DEF Answering
  <2>12. Q' = q
    BY <2>4 DEF q
  <2> QED BY <1>0, <1>3, <1>4, <2>11, <2>12 DEF Waiting
<1> QED BY <1>2, <1>10, <1>11

(* The two drivers whose reads return 0: what is under way goes on. *)
(* A nested exchange has ended, and the one around it sends its command. *)
LEMMA MineResumed ==
    ASSUME TypeOK, TypeOK', Stacked, Mine, pc \in {"ack", "answer"}, NEW res, End(res), Live',
           UNCHANGED <<driver, clean, answer, calls>>
    PROVE  /\ pc' = "send" /\ Live /\ Waiting /\ Own' /\ driver # "pn53x_usb" /\ res \in {"ok", "empty"}
           /\ K' = IF driver \in Polled THEN 1 ELSE 0
<1>1. /\ pc' = "send" /\ stack' = Tail(stack) /\ Tail(stack) # <<>> /\ ~Head(Tail(stack)).aborting
      /\ res \in {"ok", "empty"}
  BY EndFacts DEF Live
<1>2. stack # <<>> /\ Base' = Base
  BY <1>1, TopType, StackedTail
<1>3. Live /\ Waiting
  BY <1>2 DEF Live, Mine
<1>4. Own'
  BY <1>3 DEF Waiting, Own
<1>5. driver # "pn53x_usb"
  <2>1. Len(stack) \in Nat /\ Len(stack) > 1
    BY <1>1, <1>2, LastOfTail DEF TypeOK
  <2> DEFINE n == Len(stack)
  <2>2. n \in Nat /\ n > 1
    BY <2>1
  <2>3. driver = "pn53x_usb" => n <= 1
    BY DEF Stacked
  <2> HIDE DEF n
  <2>4. ~(n <= 1)
    BY ONLY <2>2
  <2> QED BY ONLY <2>3, <2>4
<1>6. K' = IF driver \in Polled THEN 1 ELSE 0
  BY <1>5 DEF K
<1> QED BY <1>1, <1>3, <1>4, <1>5, <1>6

LEMMA CalmPieces ==
    ASSUME NEW s \in Seq(Msg), NEW t \in Seq(Msg), NEW u \in Seq(Msg), NEW v \in Seq(Msg), NEW k \in Nat,
           Len(s \o t) <= k, NoAck(s \o t), u = s \/ (s # <<>> /\ u = Tail(s)), v = t \/ v = <<>>
    PROVE  Calm(u \o v, k)
<1>1. Len(s) \in Nat /\ Len(t) \in Nat /\ Len(s \o t) = Len(s) + Len(t)
  BY ConcatProperties, LenProperties
<1>2. NoAck(s) /\ NoAck(t)
  BY NoAckParts
<1>3. NoAck(u) /\ Len(u) <= Len(s) /\ Len(u) \in Nat
  <2>1. CASE u = s
    BY <1>1, <1>2, <2>1
  <2>2. CASE s # <<>> /\ u = Tail(s)
    BY <1>1, <1>2, <2>2, NoAckTail, TailFacts
  <2> QED BY <2>1, <2>2
<1>4. NoAck(v) /\ Len(v) <= Len(t) /\ Len(v) \in Nat
  <2>1. CASE v = t
    BY <1>1, <1>2, <2>1
  <2>2. CASE v = <<>>
    <3>1. Len(v) = 0
      BY <2>2
    <3> QED BY <1>1, <2>2, <3>1, NoneLeft
  <2> QED BY <2>1, <2>2
<1>5. NoAck(u \o v) /\ Len(u \o v) = Len(u) + Len(v)
  BY <1>3, <1>4, NoAckParts, ConcatProperties
<1>6. Len(u \o v) <= k
  BY <1>1, <1>3, <1>4, <1>5
<1> QED BY <1>5, <1>6 DEF Calm

(* A call that was aborted, or that got nothing, while it woke the chip up. *)
LEMMA MineEmpty ==
    ASSUME TypeOK, TypeOK', Stacked, Mine, pc = "answer", driver \in Polled, NEW res, End(res), Live',
           UNCHANGED <<driver, clean, answer, calls>>,
           line' = line \/ (line # <<>> /\ line' = Tail(line)), owed' = owed \/ owed' = <<>>
    PROVE  Waiting'
<1>1. /\ pc' = "send" /\ Live /\ Waiting /\ Own' /\ driver # "pn53x_usb" /\ res \in {"ok", "empty"}
      /\ K' = IF driver \in Polled THEN 1 ELSE 0
  BY MineResumed
<1>2. Answering(Q, Top, driver)
  BY <1>1 DEF Waiting
<1>3. Len(Q) <= 1 /\ NoAck(Q)
  BY <1>1, <1>2 DEF Answering
<1>4. line \in Seq(Msg) /\ owed \in Seq(Msg) /\ line' \in Seq(Msg) /\ owed' \in Seq(Msg) /\ 1 \in Nat
  BY DEF TypeOK
<1>5. Calm(line' \o owed', 1)
  BY <1>3, <1>4, CalmPieces DEF Q
<1>6. Kept' = line' \o owed'
  BY DEF Kept, Q, Polled, Serial
<1> QED BY <1>1, <1>5, <1>6 DEF Waiting

(* The answer does not come, or the wait is aborted. *)
LEMMA MineReceiveTimeout == TypeOK /\ TypeOK' /\ Stacked /\ Mine /\ ReceiveTimeout => Mine'
<1> SUFFICES ASSUME TypeOK, TypeOK', Stacked, Mine, ReceiveTimeout, Live' PROVE Waiting'
  BY DEF Mine
<1>1. pc = "answer" /\ UNCHANGED <<driver, clean, answer, calls, line, owed>>
  BY DEF ReceiveTimeout, chipvars
<1>2. ~End("error")
  BY <1>1, EndFails DEF Live
<1>3. CASE driver = "pn532_uart"
  <2>1. pc' = "drain" /\ stack' = stack
    BY <1>3 DEF ReceiveTimeout
  <2>2. Own' /\ (driver = "pn53x_usb" => Top.part <= 2) /\ Top' = Top
    BY <1>1, <2>1, MineTop
  <2> QED BY <1>1, <2>1, <2>2 DEF Waiting
<1>4. CASE driver = "pn532_i2c"
  <2>1. End("empty")
    BY <1>2, <1>4 DEF ReceiveTimeout
  <2> QED BY <1>1, <1>4, <2>1, MineEmpty DEF Polled
<1>5. CASE driver \notin {"pn532_uart", "pn532_i2c"}
  BY <1>2, <1>5 DEF ReceiveTimeout
<1> QED BY <1>3, <1>4, <1>5

LEMMA MineNotice == TypeOK /\ TypeOK' /\ Stacked /\ Mine /\ Notice => Mine'
<1> SUFFICES ASSUME TypeOK, TypeOK', Stacked, Mine, Notice, Live' PROVE Waiting'
  BY DEF Mine
<1>1. pc = "answer" /\ UNCHANGED <<driver, clean, answer, calls, line>> /\ (owed' = owed \/ owed' = <<>>)
  BY DEF Notice, Seen, bounds, hist, Interrupted
<1>2. CASE driver = "pn532_spi"
  <2>1. End("empty")
    BY <1>2 DEF Notice
  <2> QED BY <1>1, <1>2, <2>1, MineEmpty DEF Polled
<1>3. CASE driver # "pn532_spi"
  <2>1. End("aborted")
    BY <1>3 DEF Notice
  <2>2. pc' = "idle"
    BY <1>1, <2>1, EndFails
  <2> QED BY <2>2 DEF Live
<1> QED BY <1>2, <1>3

LEMMA MineNoticeI2c == TypeOK /\ TypeOK' /\ Stacked /\ Mine /\ NoticeI2c => Mine'
<1> SUFFICES ASSUME TypeOK, TypeOK', Stacked, Mine, NoticeI2c, Live' PROVE Waiting'
  BY DEF Mine
<1>1. /\ pc = "answer" /\ driver = "pn532_i2c" /\ UNCHANGED <<driver, clean, answer, calls>>
      /\ (owed' = owed \/ owed' = <<>>)
  BY DEF NoticeI2c, bounds, hist, Interrupted
<1>2. line' = line \/ (line # <<>> /\ line' = Tail(line))
  BY DEF NoticeI2c
<1>3. PICK res \in {"empty", "error"} : End(res)
  BY DEF NoticeI2c
<1> QED BY <1>1, <1>2, <1>3, MineEmpty DEF Polled

LEMMA MineNoticeArygon == TypeOK /\ NoticeArygon => Mine'
<1> SUFFICES ASSUME TypeOK, NoticeArygon PROVE ~Live'
  BY DEF Mine
<1> DEFINE x == [Top EXCEPT !.aborting = TRUE]
           d == Nested(Diagnose)
<1>1. d \in Exchanges /\ x \in Exchanges /\ x.aborting = TRUE
  BY TopType, ExchangeType DEF NoticeArygon, Seen, Nested, Command, Exchanges
<1>2. stack' = <<d, x>>
  BY DEF NoticeArygon
<1> HIDE DEF x, d
<1>3. Len(stack') = 2 /\ stack'[2] = x
  BY <1>1, <1>2
<1> QED BY <1>1, <1>3 DEF Live, Base

(* What is read is the exchange's own, and no older one follows. *)
(* The answer comes: it is the next part of this call's. *)
LEMMA Received ==
    ASSUME TypeOK, Live, Waiting, Receive
    PROVE  /\ Head(line).call = Top.call /\ Head(line).part = Top.part
           /\ Head(line).more => Top.part = 1
           /\ driver # "pn53x_usb" => Tail(Q) = <<>>
           /\ driver = "pn53x_usb" /\ Top.part = 1 => NoAck(Tail(Q)) /\ Len(Tail(Q)) <= 1
           /\ Q' = Tail(Q) /\ Tail(Q) \in Seq(Msg)
<1>1. /\ pc = "answer" /\ line # <<>> /\ line' = Tail(line) /\ owed' = owed
      /\ Head(line).kind = "answer" /\ Head(line).cmd = last_command
  BY DEF Receive, Fits
<1>2. last_command = Top.cmd /\ Answering(Q, Top, driver)
  BY <1>1 DEF Waiting
<1>3. Head(Q) = Head(line) /\ Tail(Q) = Tail(line) \o owed /\ Q # <<>> /\ Q \in Seq(Msg) /\ Tail(Q) \in Seq(Msg)
  BY <1>1, HeadOfQ, QType
<1>4. Head(Q) = Q[1] /\ Len(Q) \in Nat \ {0} /\ Len(Tail(Q)) = Len(Q) - 1
  BY <1>3, TailFacts
<1>5. ~Stale(Head(line), Top)
  <2>1. \A i \in 1..Len(Q) : ~Stale(Q[i], Top)
    BY <1>2 DEF Answering
  <2>2. 1 \in 1..Len(Q) /\ Q[1] = Head(line)
    <3> DEFINE n == Len(Q)
    <3>1. n \in Nat \ {0}
      BY <1>4
    <3> HIDE DEF n
    <3>2. 1 \in 1..n
      BY ONLY <3>1
    <3>3. Q[1] = Head(line)
      BY <1>3, <1>4, Zenon
    <3> QED BY <3>2, <3>3 DEF n
  <2>3. ~Stale(Q[1], Top)
    BY <2>1, <2>2
  <2> QED BY <2>2, <2>3
<1>6. /\ Head(line).call = Top.call /\ Head(line).part = Top.part
      /\ Head(line).more => Head(line).part = 1
  BY <1>1, <1>2, <1>5 DEF Stale
<1>7. driver # "pn53x_usb" => Len(Tail(Q)) = 0
  BY <1>2, <1>4 DEF Answering
<1>8. driver = "pn53x_usb" /\ Top.part = 1 => NoAck(Q) /\ Len(Q) <= 2
  BY <1>2 DEF Answering
<1>9. driver = "pn53x_usb" /\ Top.part = 1 => NoAck(Tail(Q)) /\ Len(Tail(Q)) <= 1
  <2> SUFFICES ASSUME driver = "pn53x_usb" /\ Top.part = 1 PROVE NoAck(Tail(Q)) /\ Len(Tail(Q)) <= 1
    OBVIOUS
  <2>1. NoAck(Tail(Q))
    BY <1>3, <1>8, NoAckTail
  <2>2. Len(Tail(Q)) <= 1
    BY <1>4, <1>8
  <2> QED BY <2>1, <2>2
<1>10. driver # "pn53x_usb" => Tail(Q) = <<>>
  BY <1>3, <1>7, EmptySeq
<1>11. Q' = Tail(Q)
  BY <1>1, <1>3 DEF Q
<1> QED BY <1>3, <1>6, <1>9, <1>10, <1>11

(* The part that was read is the next of the answer. *)
LEMMA OwnNext ==
    ASSUME TypeOK, Stacked, Live, Waiting, Receive
    PROVE  (\A i \in 1..Len(answer') : answer'[i].call = calls /\ answer'[i].part = i) /\ calls' = calls
<1>0. calls' = calls /\ stack # <<>> /\ pc = "answer" /\ line # <<>>
  BY TopType DEF Receive, bounds
<1>1. \A i \in 1..Len(answer) : answer[i].call = calls /\ answer[i].part = i
  BY DEF Waiting, Own
<1>2. CASE Tail(stack) # <<>>
  BY <1>0, <1>1, <1>2 DEF Receive
<1>3. CASE Tail(stack) = <<>>
  <2> DEFINE m == Head(line)
             b == Append(answer, m)
  <2>1. answer' = b
    BY <1>3 DEF Receive
  <2>2. Base = Top /\ Base.call = calls /\ Len(answer) = Base.part - 1 /\ Top.part \in Nat
    <3>1. Len(stack) = 1 /\ Head(stack) = stack[1]
      BY <1>0, <1>3, TailFacts DEF TypeOK
    <3>2. Base = Top
      BY <3>1 DEF Base, Top
    <3>3. Top \in Exchanges
      BY <1>0, TopType
    <3> QED BY <1>0, <3>2, <3>3 DEF Stacked, Live, Exchanges
  <2>3. m.call = calls /\ m.part = Len(answer) + 1
    <3>1. m.call = Top.call /\ m.part = Top.part
      BY Received
    <3>2. Len(answer) \in Nat
      BY DEF TypeOK
    <3> QED BY <2>2, <3>1, <3>2
  <2>4. m \in Msg /\ answer \in Seq(Msg)
    BY <1>0, RestType DEF TypeOK
  <2> HIDE DEF m
  <2>5. /\ Len(b) = Len(answer) + 1 /\ \A i \in 1..Len(answer) : b[i] = answer[i]
        /\ b[Len(answer) + 1] = m /\ Len(answer) \in Nat
    BY <2>4, AppendProperties, LenProperties
  <2> HIDE DEF b
  <2>6. \A i \in 1..Len(b) : i \in 1..Len(answer) \/ i = Len(answer) + 1
    BY <2>5
  <2>7. \A i \in 1..Len(b) : b[i].call = calls /\ b[i].part = i
    BY <1>1, <2>3, <2>5, <2>6
  <2> QED BY <1>0, <2>1, <2>7
<1> QED BY <1>2, <1>3

LEMMA MineReceive == TypeOK /\ TypeOK' /\ Stacked /\ Mine /\ Receive => Mine'
<1> SUFFICES ASSUME TypeOK, TypeOK', Stacked, Mine, Receive, Live' PROVE Waiting'
  BY DEF Mine
<1>0. pc = "answer" /\ UNCHANGED <<driver, clean, calls>>
  BY DEF Receive, bounds, hist
<1>1. /\ pc' = "send" /\ Base'.aborting = Base.aborting
      /\ driver = "pn53x_usb" => Head(line).more /\ Top'.part = Top.part + 1
  <2>1. CASE Head(line).more
    <3>1. pc' = "send"
      BY <2>1 DEF Receive
    <3>2. Len(stack') = Len(stack) /\ Len(stack) \in Nat \ {0} /\ Top' = [Top EXCEPT !.part = @ + 1]
      BY <2>1, Continued DEF Top
    <3>3. Top'.part = Top.part + 1 /\ Top'.aborting = Top.aborting
      BY <2>1, <3>2, Continued DEF Exchanges
    <3>4. Base'.aborting = Base.aborting
      <4>1. CASE Len(stack) = 1
        <5>1. Base = Top /\ Base' = Top'
          BY <2>1, <3>2, <4>1, Continued DEF Base, Top
        <5> QED BY <3>3, <5>1
      <4>2. CASE Len(stack) # 1
        <5>1. Base' = Base
          BY <2>1, <3>2, <4>2, Continued DEF Base
        <5> QED BY <5>1
      <4> QED BY <4>1, <4>2
    <3> QED BY <2>1, <3>1, <3>3, <3>4
  <2>2. CASE ~Head(line).more
    <3>1. End("ok")
      BY <2>2 DEF Receive
    <3>2. pc' = "send" /\ stack' = Tail(stack) /\ Tail(stack) # <<>>
      BY <1>0, <3>1, EndFacts DEF Live
    <3>3. stack # <<>> /\ stack \in Seq(Exchanges)
      BY <1>0, TopType DEF TypeOK
    <3>4. Base' = Base /\ Len(stack) \in Nat /\ Len(stack) > 1
      BY <3>2, <3>3, LastOfTail DEF Base
    <3>5. driver # "pn53x_usb"
      <4> DEFINE n == Len(stack)
      <4>1. n \in Nat /\ n > 1
        BY <3>4
      <4>2. driver = "pn53x_usb" => n <= 1
        BY DEF Stacked
      <4> HIDE DEF n
      <4>3. ~(n <= 1)
        BY ONLY <4>1
      <4> QED BY ONLY <4>2, <4>3
    <3> QED BY <3>2, <3>4, <3>5
  <2> QED BY <2>1, <2>2
<1>2. Live /\ Waiting
  BY <1>0, <1>1 DEF Live, Mine
<1>3. Own'
  BY <1>2, OwnNext DEF Own
<1>4. Q' = Tail(Q)
  BY <1>2, Received
<1>5. K' \in Nat
  <2>1. stack' \in Seq(Exchanges) /\ stack' # <<>>
    BY <1>1 DEF TypeOK
  <2>2. Top' \in Exchanges
    BY <2>1, TailFacts DEF Top
  <2> QED BY <2>2 DEF K, Exchanges
<1>6. Kept' \in Seq(Msg) /\ Len(Kept') \in Nat /\ Len(Kept') <= Len(Q')
  <2> DEFINE ln == line'
             ow == owed'
  <2>1. ln \in Seq(Msg) /\ ow \in Seq(Msg)
    BY DEF TypeOK
  <2>2. Kept' \in {ow, ln \o ow} /\ Q' = ln \o ow
    BY DEF Kept, Q
  <2> HIDE DEF ln, ow
  <2>3. ln \o ow \in Seq(Msg) /\ Len(ln \o ow) = Len(ln) + Len(ow) /\ Len(ln) \in Nat /\ Len(ow) \in Nat
    BY <2>1, ConcatProperties, LenProperties
  <2>4. CASE Kept' = ow
    BY <2>1, <2>2, <2>3, <2>4
  <2>5. CASE Kept' = ln \o ow
    BY <2>2, <2>3, <2>5
  <2> QED BY <2>2, <2>4, <2>5
<1>7. CASE driver = "pn53x_usb"
  <2>1. Top.part = 1 /\ NoAck(Tail(Q)) /\ Len(Tail(Q)) <= 1
    BY <1>1, <1>2, <1>7, Received
  <2>2. Top'.part = 2
    BY <1>1, <1>7, <2>1
  <2>3. K' = 1 /\ Kept' = Q'
    BY <1>0, <1>7, <2>2 DEF K, Kept, Serial
  <2>4. Calm(Kept', K')
    BY <1>4, <2>1, <2>3 DEF Calm
  <2> QED BY <1>1, <1>3, <2>2, <2>4 DEF Waiting
<1>8. CASE driver # "pn53x_usb"
  <2>1. Tail(Q) = <<>>
    BY <1>2, <1>8, Received
  <2>2. Len(Q') = 0
    BY <1>4, <2>1
  <2>3. Kept' = <<>>
    <3> DEFINE kp == Kept'
    <3>1. Len(kp) \in Nat /\ Len(kp) <= 0 /\ kp \in Seq(Msg)
      BY <1>6, <2>2
    <3> HIDE DEF kp
    <3>2. kp = <<>>
      BY <3>1, EmptySeq
    <3> QED BY <3>2 DEF kp
  <2>4. Calm(Kept', K')
    BY <1>5, <2>3, NoneLeft
  <2> QED BY <1>0, <1>1, <1>3, <1>8, <2>4 DEF Waiting
<1> QED BY <1>7, <1>8

(* Every step keeps Mine. *)
LEMMA MineStep == TypeOK /\ TypeOK' /\ Stacked /\ Mine /\ [Next]_vars => Mine'
<1> SUFFICES ASSUME TypeOK, TypeOK', Stacked, Mine, [Next]_vars PROVE Mine'
  OBVIOUS
<1>1. ASSUME NEW c \in Commands, Call(c) PROVE Mine'
  BY <1>1, MineCall
<1>2. CASE Wakeup
  BY <1>2, MineWakeup
<1>3. CASE Send
  BY <1>3, MineSend
<1>4. CASE SendMisread
  BY <1>4, MineSendMisread
<1>5. CASE SendFails
  <2>1. pc' = "idle"
    BY <1>5, EndFails DEF SendFails
  <2> QED BY <2>1 DEF Mine, Live
<1>6. CASE PcscSend
  BY <1>6, MinePcscSend
<1>7. CASE AckRead
  BY <1>7, MineAckRead
<1>8. CASE AckMismatch
  BY <1>8, MineAckMismatch
<1>9. CASE AckTimeout
  <2>1. pc' = "idle"
    BY <1>9, EndFails DEF AckTimeout
  <2> QED BY <2>1 DEF Mine, Live
<1>10. CASE AckAborted
  <2>1. pc' = "idle"
    BY <1>10, EndFails DEF AckAborted
  <2> QED BY <2>1 DEF Mine, Live
<1>11. CASE Receive
  BY <1>11, MineReceive
<1>12. CASE ReceiveMismatch
  <2>1. CASE driver = "pn532_uart"
    <3>1. pc = "answer" /\ pc' = "drain" /\ UNCHANGED <<stack, clean, answer, calls, driver>>
      BY <1>12, <2>1 DEF ReceiveMismatch, bounds, hist
    <3>2. Live' => Own' /\ driver # "pn53x_usb"
      BY <2>1, <3>1, MineTop
    <3> QED BY <3>1, <3>2 DEF Mine, Waiting
  <2>2. CASE driver # "pn532_uart"
    <3>1. pc = "answer" /\ End("error")
      BY <1>12, <2>2 DEF ReceiveMismatch
    <3>2. pc' = "idle"
      BY <3>1, EndFails
    <3> QED BY <3>2 DEF Mine, Live
  <2> QED BY <2>1, <2>2
<1>13. CASE ReceiveTimeout
  BY <1>13, MineReceiveTimeout
<1>14. CASE Drain
  <2>1. pc' = "idle"
    BY <1>14, EndFails DEF Drain
  <2> QED BY <2>1 DEF Mine, Live
<1>15. CASE Notice
  BY <1>15, MineNotice
<1>16. CASE NoticeArygon
  BY <1>16, MineNoticeArygon
<1>17. CASE NoticeI2c
  BY <1>17, MineNoticeI2c
<1>18. CASE Arrive
  BY <1>18, MineArrive
<1>19. CASE Garble
  BY <1>19, MineGarble
<1>20. CASE UNCHANGED <<driver, chipvars, pc, stack, last_command, answer, calls, clean>>
  <2>1. UNCHANGED <<driver, line, owed, pc, stack, last_command, answer, calls, clean>>
    BY <1>20 DEF chipvars
  <2>2. ASSUME Live' PROVE Waiting'
    <3>1. /\ Live /\ Waiting /\ Top' = Top /\ K' = K
          /\ Own' /\ (driver = "pn53x_usb" => Top.part <= 2)
      BY <2>1, <2>2, MineKept
    <3>2. Q' = Q /\ Kept' = Kept
      BY <2>1 DEF Q, Kept
    <3> QED BY <2>1, <3>1, <3>2 DEF Waiting
  <2> QED BY <2>2 DEF Mine
<1>21. nfc_abort_command \/ UNCHANGED vars => UNCHANGED <<driver, chipvars, pc, stack, last_command, answer, calls, clean>>
  BY DEF nfc_abort_command, vars, bounds, hist
<1> QED
  BY <1>1, <1>2, <1>3, <1>4, <1>5, <1>6, <1>7, <1>8, <1>9, <1>10, <1>11, <1>12, <1>13, <1>14, <1>15, <1>16, <1>17, <1>18, <1>19, <1>20, <1>21
  DEF Next, Host

(* A call ends well only by the last part of its own answer. *)
(* The answer of a call that ends is whole: its last part says so. *)
LEMMA OwnStep == TypeOK /\ Stacked /\ Mine /\ OwnAnswer /\ [Next]_vars => OwnAnswer'
<1> SUFFICES ASSUME TypeOK, Stacked, Mine, OwnAnswer, [Next]_vars, Ended', clean', result' = "ok"
             PROVE  /\ \A i \in DOMAIN answer' : answer'[i].call = calls' /\ answer'[i].part = i
                    /\ answer' # <<>> /\ ~answer'[Len(answer')].more
  BY DEF OwnAnswer
<1>0. pc' = "idle" /\ calls' > 0
  BY DEF Ended
<1>1. CASE pc = "idle"
  <2>1. UNCHANGED <<answer, calls, pc, clean, result>>
    <3>1. CASE Arrive
      BY <3>1 DEF Arrive, bounds, hist
    <3>2. CASE Garble
      BY <3>2 DEF Garble
    <3>3. CASE nfc_abort_command
      BY <3>3 DEF nfc_abort_command
    <3>4. CASE UNCHANGED vars
      BY <3>4, Zenon DEF vars, bounds, hist
    <3>5. ~Host
      BY <1>1 DEF Host, Wakeup, Send, SendMisread, SendFails, PcscSend, AckRead, AckMismatch, AckTimeout, AckAborted,
                  Receive, ReceiveMismatch, ReceiveTimeout, Drain, Notice, NoticeArygon, NoticeI2c, Seen
    <3>6. ASSUME NEW c \in Commands, Call(c) PROVE FALSE
      BY <1>0, <3>6 DEF Call
    <3> QED BY <3>1, <3>2, <3>3, <3>4, <3>5, <3>6 DEF Next
  <2>2. Ended /\ clean /\ result = "ok"
    BY <1>0, <1>1, <2>1 DEF Ended
  <2>3. /\ \A i \in DOMAIN answer : answer[i].call = calls /\ answer[i].part = i
        /\ answer # <<>> /\ ~answer[Len(answer)].more
    BY <2>2 DEF OwnAnswer
  <2> QED BY <2>1, <2>3
<1>2. CASE pc # "idle"
  <2>1. Receive /\ ~Head(line).more
    <3>1. ASSUME NEW res, End(res), res # "ok" PROVE FALSE
      BY <1>0, <1>2, <3>1, EndFacts
    <3>2. ~SendFails /\ ~PcscSend /\ ~AckMismatch /\ ~AckTimeout /\ ~AckAborted /\ ~Drain /\ ~Notice /\ ~NoticeI2c
      <4>1. ~SendFails /\ ~AckTimeout /\ ~AckAborted /\ ~Drain
        BY <3>1 DEF SendFails, AckTimeout, AckAborted, Drain
      <4>2. ~PcscSend
        BY <1>0, <3>1 DEF PcscSend
      <4>3. ~AckMismatch
        BY <1>0, <3>1 DEF AckMismatch
      <4>4. ~Notice
        BY <3>1 DEF Notice
      <4>5. ~NoticeI2c
        BY <3>1 DEF NoticeI2c
      <4> QED BY <4>1, <4>2, <4>3, <4>4, <4>5
    <3>3. ~ReceiveMismatch
      BY <1>0, <3>1 DEF ReceiveMismatch
    <3>4. ~ReceiveTimeout
      BY <1>0, <3>1 DEF ReceiveTimeout
    <3>5. ~Wakeup /\ ~AckRead /\ ~NoticeArygon
      BY <1>0, <1>2 DEF Wakeup, AckRead, NoticeArygon
    <3>6. ~Send /\ ~SendMisread
      BY <1>0 DEF Send, SendMisread, Written
    <3>7. ~Arrive /\ ~Garble /\ ~nfc_abort_command /\ ~UNCHANGED vars
      BY <1>0, <1>2 DEF Arrive, Garble, nfc_abort_command, vars
    <3>8. \A c \in Commands : ~Call(c)
      BY <1>2 DEF Call
    <3>9. Receive
      BY <3>2, <3>3, <3>4, <3>5, <3>6, <3>7, <3>8 DEF Next, Host
    <3>10. ~Head(line).more
      BY <1>0, <3>9 DEF Receive
    <3> QED BY <3>9, <3>10
  <2>2. End("ok")
    BY <2>1 DEF Receive
  <2>3. Tail(stack) = <<>>
    BY <1>0, <1>2, <2>2, EndFacts
  <2>4. stack # <<>> /\ line # <<>> /\ clean
    BY <1>2, <2>1, TopType DEF Receive, bounds, hist
  <2>5. Live
    <3>1. Len(stack) = 1 /\ Head(stack) = stack[1]
      BY <2>3, <2>4, TailFacts DEF TypeOK
    <3>2. ~Top.aborting /\ Base = Top
      BY <3>1 DEF Stacked, Base, Top
    <3> QED BY <1>2, <2>4, <3>2 DEF Live
  <2>6. Waiting
    BY <2>5 DEF Mine
  <2>7. (\A i \in 1..Len(answer') : answer'[i].call = calls /\ answer'[i].part = i) /\ calls' = calls
    BY <2>1, <2>5, <2>6, OwnNext
  <2> DEFINE m == Head(line)
             b == Append(answer, m)
  <2>8. answer' = b
    BY <2>1, <2>3 DEF Receive
  <2>9. m \in Msg /\ answer \in Seq(Msg)
    BY <2>4, RestType DEF TypeOK
  <2>10. ~m.more
    BY <2>1
  <2> HIDE DEF m
  <2>11. Len(b) = Len(answer) + 1 /\ b[Len(answer) + 1] = m /\ b # <<>> /\ b \in Seq(Msg)
    BY <2>9, AppendProperties
  <2>12. b[Len(b)] = m /\ DOMAIN b = 1..Len(b)
    BY <2>11, LenProperties
  <2> HIDE DEF b
  <2> QED BY <2>7, <2>8, <2>10, <2>11, <2>12
<1> QED BY <1>1, <1>2

-----------------------------------------------------------------------------
(* A call that nothing disturbs: the chip owes what was asked, and no more. *)
(* Only a PN532 sleeps. *)
Woken == asleep => driver \in PN532

(* Nothing was under way when the call began, and nothing met it since. *)
Smooth == clean /\ ~hurt /\ calls > 0

(* What there is to read is then the acknowledgement and the answer of the *)
(* exchange, and nothing else; the chip sleeps only while it waits for an  *)
(* initiator.                                                              *)
Going ==
    /\ ~abort
    /\ driver = "pn532_i2c" => last_error # "aborted"
    /\ pc # "drain"
    /\ pc = "idle" => result = "ok"
    /\ \A i \in 1..Len(stack) : ~stack[i].aborting
    /\ pc = "send" => Kept = <<>> /\ (asleep => power_mode # "NORMAL")
    /\ pc = "ack" => \E more \in BOOLEAN : Q = <<Ack, Answer(Top, more)>>
    /\ pc = "answer" => last_command = Top.cmd /\ \E more \in BOOLEAN : Q = <<Answer(Top, more)>>
    /\ pc \in {"ack", "answer"} /\ asleep => owed # <<>> /\ Top.cmd = "TgInitAsTarget"

(* The strengthening of BackInStep. *)
Plain == Smooth => Going

(* Every step keeps Woken. *)
LEMMA WokenStep == TypeOK /\ Woken /\ [Next]_vars => Woken'
<1> SUFFICES ASSUME TypeOK, Woken, [Next]_vars, asleep' PROVE driver' \in PN532
  BY DEF Woken
<1>1. driver' = driver
  BY DEF Next, Host, vars, Wakeup, Send, SendMisread, SendFails, PcscSend, AckRead, AckMismatch, AckTimeout, AckAborted,
         Receive, ReceiveMismatch, ReceiveTimeout, Drain, Notice, NoticeArygon, NoticeI2c, Arrive, Garble,
         nfc_abort_command, Call
<1>2. CASE asleep
  BY <1>1, <1>2 DEF Woken
<1>3. CASE ~asleep
  <2>1. CASE Send
    BY <1>1, <1>3, <2>1 DEF Send, Take
  <2>2. CASE Arrive \/ Garble
    BY <1>3, <2>2 DEF Arrive, Garble, Deliver
  <2>3. CASE ~Send /\ ~Arrive /\ ~Garble
    <3>1. asleep' = asleep \/ asleep' = FALSE
      BY <2>3 DEF Next, Host, vars, chipvars, Wakeup, SendMisread, SendFails, PcscSend, AckRead, AckMismatch, AckTimeout, AckAborted,
         Receive, ReceiveMismatch, ReceiveTimeout, Drain, Notice, NoticeArygon, NoticeI2c, nfc_abort_command, Call
    <3> QED BY <1>3, <3>1
  <2> QED BY <2>1, <2>2, <2>3
<1> QED BY <1>2, <1>3

(* What a queue of one or two messages is made of. *)
LEMMA QueueOfOne ==
    ASSUME NEW s \in Seq(Msg), NEW t \in Seq(Msg), NEW a \in Msg, s \o t = <<a>>
    PROVE  /\ s \o t # <<>>
           /\ s # <<>> => Head(s) = a /\ Tail(s) = <<>> /\ t = <<>>
           /\ t # <<>> => t[Len(t)] = a
<1>1. Len(s \o t) = Len(s) + Len(t) /\ Len(s) \in Nat /\ Len(t) \in Nat
  BY ConcatProperties, LenProperties
<1>2. Len(<<a>>) = 1 /\ <<a>>[1] = a /\ <<a>> # <<>> /\ Tail(<<a>>) = <<>> /\ Head(<<a>>) = a
  OBVIOUS
<1>3. s # <<>> => Head(s) = a /\ Tail(s) \o t = <<>>
  <2>1. s # <<>> => Tail(s \o t) = Tail(s) \o t /\ Head(s \o t) = Head(s)
    BY TailConcat
  <2> QED BY <1>2, <2>1, Zenon
<1>4. s # <<>> => Tail(s) = <<>> /\ t = <<>>
  BY <1>3, TailFacts, ConcatEqualIffEmpty
<1>5. t # <<>> => s = <<>>
  BY <1>4
<1>6. s = <<>> => t = <<a>>
  BY ConcatEmptySeq
<1> QED BY <1>2, <1>3, <1>4, <1>5, <1>6

LEMMA QueueOfTwo ==
    ASSUME NEW s \in Seq(Msg), NEW t \in Seq(Msg), NEW a \in Msg, NEW b \in Msg, s \o t = <<a, b>>
    PROVE  /\ s \o t # <<>> /\ Tail(s \o t) = <<b>>
           /\ s # <<>> => Head(s) = a
           /\ t # <<>> => t[Len(t)] = b
<1>1. Len(s \o t) = Len(s) + Len(t) /\ Len(s) \in Nat /\ Len(t) \in Nat
  BY ConcatProperties, LenProperties
<1>2. <<a, b>> # <<>> /\ Tail(<<a, b>>) = <<b>> /\ Head(<<a, b>>) = a
  OBVIOUS
<1>3. s # <<>> => Head(s) = a /\ Tail(s) \o t = <<b>>
  <2>1. s # <<>> => Tail(s \o t) = Tail(s) \o t /\ Head(s \o t) = Head(s)
    BY TailConcat
  <2> QED BY <1>2, <2>1, Zenon
<1>4. s # <<>> /\ t # <<>> => t[Len(t)] = b
  <2> SUFFICES ASSUME s # <<>>, t # <<>> PROVE t[Len(t)] = b
    OBVIOUS
  <2> DEFINE u == Tail(s)
  <2>1. u \in Seq(Msg) /\ u \o t = <<b>>
    BY <1>3, TailFacts
  <2> HIDE DEF u
  <2> QED BY <2>1, QueueOfOne
<1>5. s = <<>> => t = <<a, b>>
  BY ConcatEmptySeq
<1>6. s = <<>> => t[Len(t)] = b
  <2>1. Len(<<a, b>>) = 2 /\ <<a, b>>[2] = b
    BY Two
  <2> QED BY <1>5, <2>1
<1> QED BY <1>2, <1>3, <1>4, <1>6

(* A call that is smooth after a step was so before it. *)
LEMMA SmoothBefore ==
    ASSUME Plain, Smooth', UNCHANGED <<clean, calls, hurt>>
    PROVE  Smooth /\ Going
BY DEF Plain, Smooth

(* What the chip owes while it is waited for. *)
LEMMA AckOwed ==
    ASSUME TypeOK, Going, pc = "ack"
    PROVE  \E more \in BOOLEAN :
             LET a == Answer(Top, more)
             IN  /\ a \in Msg /\ a.kind = "answer" /\ a.cmd = Top.cmd
                 /\ line \o owed = <<Ack, a>> /\ Tail(line \o owed) = <<a>>
                 /\ ~(line = <<>> /\ owed = <<>>)
                 /\ line # <<>> => Head(line) = Ack
                 /\ owed # <<>> => owed[Len(owed)] = a
<1>1. PICK more \in BOOLEAN : Q = <<Ack, Answer(Top, more)>>
  BY DEF Going
<1> DEFINE a == Answer(Top, more)
<1>2. a \in Msg /\ a.kind = "answer" /\ a.cmd = Top.cmd
  <2>1. Top \in Exchanges
    BY TopType
  <2>2. a \in Answers
    BY <2>1, AnswerType
  <2>3. a.kind = "answer" /\ a.cmd = Top.cmd
    BY DEF Answer
  <2> QED BY <2>2, <2>3 DEF Msg
<1>3. line \o owed = <<Ack, a>>
  BY <1>1 DEF Q
<1>4. line \in Seq(Msg) /\ owed \in Seq(Msg) /\ Ack \in Msg
  BY Kinds, Zenon DEF TypeOK
<1> HIDE DEF a
<1>5. /\ line \o owed # <<>> /\ Tail(line \o owed) = <<a>>
      /\ line # <<>> => Head(line) = Ack
      /\ owed # <<>> => owed[Len(owed)] = a
  BY <1>2, <1>3, <1>4, QueueOfTwo
<1>6. ~(line = <<>> /\ owed = <<>>)
  BY <1>4, <1>5, ConcatEqualIffEmpty
<1>7. /\ a \in Msg /\ a.kind = "answer" /\ a.cmd = Top.cmd
      /\ line \o owed = <<Ack, a>> /\ Tail(line \o owed) = <<a>>
      /\ ~(line = <<>> /\ owed = <<>>)
      /\ line # <<>> => Head(line) = Ack
      /\ owed # <<>> => owed[Len(owed)] = a
  BY <1>2, <1>3, <1>5, <1>6
<1> QED BY <1>7 DEF a

LEMMA AnswerOwed ==
    ASSUME TypeOK, Going, pc = "answer"
    PROVE  \E more \in BOOLEAN :
             LET a == Answer(Top, more)
             IN  /\ a \in Msg /\ a.kind = "answer" /\ a.cmd = Top.cmd /\ last_command = Top.cmd
                 /\ ~(line = <<>> /\ owed = <<>>)
                 /\ line # <<>> => Head(line) = a /\ Tail(line) = <<>> /\ owed = <<>>
                 /\ owed # <<>> => owed[Len(owed)] = a
<1>1. PICK more \in BOOLEAN : Q = <<Answer(Top, more)>>
  BY DEF Going
<1> DEFINE a == Answer(Top, more)
<1>2. a \in Msg /\ a.kind = "answer" /\ a.cmd = Top.cmd
  <2>1. Top \in Exchanges
    BY TopType
  <2>2. a \in Answers
    BY <2>1, AnswerType
  <2>3. a.kind = "answer" /\ a.cmd = Top.cmd
    BY DEF Answer
  <2> QED BY <2>2, <2>3 DEF Msg
<1>3. line \o owed = <<a>>
  BY <1>1 DEF Q
<1>4. line \in Seq(Msg) /\ owed \in Seq(Msg)
  BY DEF TypeOK
<1> HIDE DEF a
<1>5. /\ line \o owed # <<>>
      /\ line # <<>> => Head(line) = a /\ Tail(line) = <<>> /\ owed = <<>>
      /\ owed # <<>> => owed[Len(owed)] = a
  BY <1>2, <1>3, <1>4, QueueOfOne
<1>6. ~(line = <<>> /\ owed = <<>>)
  BY <1>4, <1>5, ConcatEqualIffEmpty
<1>7. /\ a \in Msg /\ a.kind = "answer" /\ a.cmd = Top.cmd /\ last_command = Top.cmd
      /\ ~(line = <<>> /\ owed = <<>>)
      /\ line # <<>> => Head(line) = a /\ Tail(line) = <<>> /\ owed = <<>>
      /\ owed # <<>> => owed[Len(owed)] = a
  BY <1>2, <1>5, <1>6 DEF Going
<1> QED BY <1>7 DEF a

LEMMA SendOwes ==
    ASSUME TypeOK, Going, pc = "send"
    PROVE  Flushed = <<>> /\ owed = <<>>
<1>1. Flushed \o owed = <<>>
  BY QType DEF Going
<1>2. Flushed \in Seq(Msg) /\ owed \in Seq(Msg)
  BY FlushedType DEF TypeOK
<1> QED BY <1>1, <1>2, ConcatEqualIffEmpty

(* Each step of a call that nothing disturbs keeps Plain. *)
LEMMA PlainCall == ASSUME TypeOK, Plain, NEW c \in Commands, Call(c) PROVE Plain'
<1> SUFFICES ASSUME Smooth' PROVE Going'
  BY DEF Plain
<1>1. /\ stack' = <<Exchange(c, calls + 1)>> /\ pc' = "send" /\ UNCHANGED <<driver, line, owed, asleep, abort, power_mode>>
  BY DEF Call, chipvars
<1>2. clean'
  BY DEF Smooth
<1>3. /\ owed = <<>> /\ ~abort /\ (asleep => power_mode # "NORMAL") /\ (line = <<>> \/ driver \in Serial)
      /\ (driver = "pn532_i2c" => last_error' # "aborted")
  BY <1>2 DEF Call
<1>4. Kept' = <<>>
  BY <1>1, <1>3 DEF Kept, Q
<1>5. \A i \in 1..Len(stack') : ~stack'[i].aborting
  <2> DEFINE x == Exchange(c, calls + 1)
  <2>1. x \in Exchanges /\ x.aborting = FALSE
    <3>1. c \in Command /\ calls + 1 \in Nat
      BY DEF TypeOK, Command
    <3> QED BY <3>1, ExchangeType
  <2>2. stack' = <<x>>
    BY <1>1
  <2> HIDE DEF x
  <2>3. Len(stack') = 1 /\ stack'[1] = x
    BY <2>1, <2>2
  <2>4. \A i \in 1..Len(stack') : i = 1
    BY <2>3
  <2> QED BY <2>1, <2>3, <2>4
<1>6. ~abort' /\ (driver' = "pn532_i2c" => last_error' # "aborted") /\ (asleep' => power_mode' # "NORMAL")
  BY <1>1, <1>3
<1> QED BY <1>1, <1>4, <1>5, <1>6 DEF Going

LEMMA PlainWakeup == TypeOK /\ Plain /\ Wakeup => Plain'
<1> SUFFICES ASSUME TypeOK, Plain, Wakeup, Smooth' PROVE Going'
  BY DEF Plain
<1>1. /\ pc = "send" /\ pc' = "send" /\ asleep' = FALSE /\ line' = Flushed
      /\ UNCHANGED <<driver, owed, abort, last_error, clean, calls, hurt>>
  BY DEF Wakeup, bounds, hist
<1>2. Going
  BY <1>1, SmoothBefore
<1>3. Flushed = <<>> /\ owed = <<>>
  BY <1>1, <1>2, SendOwes
<1>4. Kept' = <<>>
  BY <1>1, <1>3 DEF Kept, Q
<1>5. \A i \in 1..Len(stack') : ~stack'[i].aborting
  <2> SUFFICES ASSUME NEW i \in 1..Len(stack') PROVE ~stack'[i].aborting
    OBVIOUS
  <2>1. stack'[i] = Nested(SAMConfiguration) \/ \E j \in 1..Len(stack) : stack'[i] = stack[j]
    BY Pushed
  <2>2. Nested(SAMConfiguration).aborting = FALSE
    BY DEF Nested, Exchange
  <2>3. \A j \in 1..Len(stack) : ~stack[j].aborting
    BY <1>2 DEF Going
  <2>4. CASE stack'[i] = Nested(SAMConfiguration)
    BY <2>2, <2>4
  <2>5. CASE \E j \in 1..Len(stack) : stack'[i] = stack[j]
    BY <2>3, <2>5
  <2> QED BY <2>1, <2>4, <2>5
<1>6. ~abort' /\ (driver' = "pn532_i2c" => last_error' # "aborted")
  BY <1>1, <1>2 DEF Going
<1>7. ~asleep'
  BY <1>1
<1> QED BY <1>1, <1>4, <1>5, <1>6, <1>7 DEF Going

LEMMA PlainSend == TypeOK /\ Woken /\ Plain /\ Send => Plain'
<1> SUFFICES ASSUME TypeOK, Woken, Plain, Send, Smooth' PROVE Going'
  BY DEF Plain
<1>1. /\ pc = "send" /\ line' = Flushed /\ Take(Top) /\ Awake
      /\ UNCHANGED <<driver, stack, abort, last_error, clean, calls, hurt>>
  BY DEF Send, Written, bounds, hist
<1>2. Going
  BY <1>1, SmoothBefore
<1>3. Flushed = <<>> /\ owed = <<>>
  BY <1>1, <1>2, SendOwes
<1>4. ~asleep
  BY <1>1, <1>2 DEF Going, Awake, Woken
<1>5. Top' = Top /\ \A i \in 1..Len(stack') : ~stack'[i].aborting
  BY <1>1, <1>2 DEF Top, Going
<1>6. ~abort' /\ (driver' = "pn532_i2c" => last_error' # "aborted")
  BY <1>1, <1>2 DEF Going
<1>7. Top \in Exchanges
  BY <1>1, TopType
<1>8. asleep' => Top.cmd = "TgInitAsTarget"
  BY <1>1, <1>4 DEF Take
<1>9. PICK more \in BOOLEAN :
        owed' = IF driver \in Acked THEN <<>> \o <<Ack, Answer(Top, more)>> ELSE Append(<<>>, Answer(Top, more))
  BY <1>1, <1>3, <1>4 DEF Take, Interrupted
<1> DEFINE a == Answer(Top, more)
           two == <<Ack, a>>
           one == <<a>>
<1>10. a \in Msg /\ Ack \in Msg
  BY <1>7, AnswerType, Kinds, Zenon DEF Msg
<1>11. two \in Seq(Msg) /\ one \in Seq(Msg) /\ two # <<>> /\ one # <<>>
  <2> HIDE DEF a
  <2> QED BY <1>10, One, Two
<1>12. owed' = IF driver \in Acked THEN two ELSE one
  <2>1. <<>> \o two = two
    BY <1>11, ConcatEmptySeq
  <2>2. Append(<<>>, a) = one
    OBVIOUS
  <2> QED BY <1>9, <2>1, <2>2
<1>13. Q' = owed'
  <2>1. owed' \in Seq(Msg)
    BY <1>11, <1>12
  <2>2. <<>> \o owed' = owed'
    BY <2>1, ConcatEmptySeq
  <2> QED BY <1>1, <1>3, <2>2 DEF Q
<1>14. owed' # <<>>
  BY <1>11, <1>12
<1>15. CASE driver \in Acked
  <2>1. pc' = "ack"
    BY <1>15 DEF Send, Written
  <2>2. Q' = <<Ack, Answer(Top', more)>>
    BY <1>5, <1>12, <1>13, <1>15
  <2> QED BY <1>5, <1>6, <1>8, <1>14, <2>1, <2>2 DEF Going
<1>16. CASE driver \notin Acked
  <2>1. pc' = "answer" /\ last_command' = Top.cmd
    BY <1>16 DEF Send, Written
  <2>2. Q' = <<Answer(Top', more)>>
    BY <1>5, <1>12, <1>13, <1>16
  <2> QED BY <1>5, <1>6, <1>8, <1>14, <2>1, <2>2 DEF Going
<1> QED BY <1>15, <1>16

LEMMA PlainPcscSend == TypeOK /\ Woken /\ Plain /\ PcscSend => Plain'
<1> SUFFICES ASSUME TypeOK, Woken, Plain, PcscSend, Smooth' PROVE Going'
  BY DEF Plain
<1>1. ~Fault
  BY DEF Fault, Smooth
<1>2. PICK more \in BOOLEAN : line' = <<Answer(Top, more)>>
  BY <1>1 DEF PcscSend
<1>3. /\ pc = "send" /\ pc' = "answer" /\ last_command' = Top.cmd /\ driver = "acr122_pcsc"
      /\ UNCHANGED <<driver, stack, abort, last_error, clean, calls, hurt, owed, asleep>>
  BY <1>1 DEF PcscSend
<1>4. Going
  BY <1>3, SmoothBefore
<1>5. owed = <<>>
  BY <1>3, <1>4, SendOwes
<1>6. ~asleep
  BY <1>3 DEF Woken, PN532
<1>7. Top' = Top /\ \A i \in 1..Len(stack') : ~stack'[i].aborting
  BY <1>3, <1>4 DEF Top, Going
<1>8. ~abort' /\ (driver' = "pn532_i2c" => last_error' # "aborted")
  BY <1>3, <1>4 DEF Going
<1> DEFINE a == Answer(Top, more)
           one == <<a>>
<1>9. one \in Seq(Msg)
  <2>1. Top \in Exchanges
    BY <1>3, TopType
  <2>2. a \in Msg
    BY <2>1, AnswerType DEF Msg
  <2> HIDE DEF a
  <2> QED BY <2>2, One
<1>10. Q' = one
  <2>1. one \o <<>> = one
    BY <1>9, ConcatEmptySeq
  <2> QED BY <1>2, <1>3, <1>5, <2>1 DEF Q
<1>11. Q' = <<Answer(Top', more)>>
  BY <1>7, <1>10
<1>12. ~asleep'
  BY <1>3, <1>6
<1> QED BY <1>3, <1>7, <1>8, <1>11, <1>12 DEF Going

LEMMA PlainAckRead == TypeOK /\ Plain /\ AckRead => Plain'
<1> SUFFICES ASSUME TypeOK, Plain, AckRead, Smooth' PROVE Going'
  BY DEF Plain
<1>1. /\ pc = "ack" /\ pc' = "answer" /\ last_command' = Top.cmd /\ line # <<>> /\ line' = Tail(line)
      /\ UNCHANGED <<driver, stack, abort, last_error, clean, calls, hurt, owed, asleep>>
  BY DEF AckRead, bounds, hist
<1>2. Going
  BY <1>1, SmoothBefore
<1>3. Top' = Top /\ \A i \in 1..Len(stack') : ~stack'[i].aborting
  BY <1>1, <1>2 DEF Top, Going
<1>4. ~abort' /\ (driver' = "pn532_i2c" => last_error' # "aborted")
  BY <1>1, <1>2 DEF Going
<1>5. PICK more \in BOOLEAN : Tail(line \o owed) = <<Answer(Top, more)>>
  BY <1>1, <1>2, AckOwed
<1>6. Q' = <<Answer(Top', more)>>
  <2>1. Q' = Tail(line) \o owed
    BY <1>1 DEF Q
  <2>2. Tail(line \o owed) = Tail(line) \o owed
    BY <1>1, TailConcat DEF TypeOK
  <2> QED BY <1>3, <1>5, <2>1, <2>2
<1>7. asleep' => owed' # <<>> /\ Top'.cmd = "TgInitAsTarget"
  BY <1>1, <1>2, <1>3 DEF Going
<1> QED BY <1>1, <1>3, <1>4, <1>6, <1>7 DEF Going

LEMMA PlainArrive == TypeOK /\ Plain /\ Arrive => Plain'
<1> SUFFICES ASSUME TypeOK, Plain, Arrive, Smooth' PROVE Going'
  BY DEF Plain
<1>1. /\ owed # <<>> /\ line' = Append(line, Head(owed)) /\ owed' = Tail(owed)
      /\ UNCHANGED <<driver, pc, stack, power_mode, last_command, last_error, abort, result, clean, calls, hurt>>
  BY DEF Arrive, Deliver, bounds, hist
<1>2. Going
  BY <1>1, SmoothBefore
<1>3. pc # "send"
  BY <1>1, <1>2, SendOwes
<1>4. Q' = Q
  BY <1>1, Pass DEF Q, TypeOK
<1>5. Top' = Top /\ \A i \in 1..Len(stack') : ~stack'[i].aborting
  BY <1>1, <1>2 DEF Top, Going
<1>6. /\ ~abort' /\ (driver' = "pn532_i2c" => last_error' # "aborted")
      /\ pc' # "drain" /\ (pc' = "idle" => result' = "ok")
  BY <1>1, <1>2 DEF Going
<1>7. pc \in {"ack", "answer"} /\ asleep' => owed' # <<>> /\ Top.cmd = "TgInitAsTarget"
  <2> SUFFICES ASSUME pc \in {"ack", "answer"}, asleep' PROVE owed' # <<>> /\ Top.cmd = "TgInitAsTarget"
    OBVIOUS
  <2>1. asleep /\ ~(Head(owed).kind = "answer" /\ Head(owed).cmd = "TgInitAsTarget")
    BY DEF Arrive, Deliver
  <2>2. Top.cmd = "TgInitAsTarget"
    BY <1>2, <2>1 DEF Going
  <2>3. owed[Len(owed)].kind = "answer" /\ owed[Len(owed)].cmd = Top.cmd
    <3>1. CASE pc = "ack"
      <4>1. PICK more \in BOOLEAN : /\ Answer(Top, more).kind = "answer" /\ Answer(Top, more).cmd = Top.cmd
                                    /\ owed[Len(owed)] = Answer(Top, more)
        BY <1>1, <1>2, <3>1, AckOwed
      <4> QED BY <4>1
    <3>2. CASE pc = "answer"
      <4>1. PICK more \in BOOLEAN : /\ Answer(Top, more).kind = "answer" /\ Answer(Top, more).cmd = Top.cmd
                                    /\ owed[Len(owed)] = Answer(Top, more)
        BY <1>1, <1>2, <3>2, AnswerOwed
      <4> QED BY <4>1
    <3> QED BY <3>1, <3>2
  <2>4. Len(owed) # 1
    <3>1. Head(owed) = owed[1]
      BY <1>1, TailFacts DEF TypeOK
    <3> QED BY <2>1, <2>2, <2>3, <3>1
  <2>5. Tail(owed) # <<>>
    BY <1>1, <2>4, TailFacts DEF TypeOK
  <2> QED BY <1>1, <2>2, <2>5
<1>8. pc' = "ack" => \E more \in BOOLEAN : Q' = <<Ack, Answer(Top', more)>>
  BY <1>1, <1>2, <1>4, <1>5 DEF Going
<1>9. pc' = "answer" => last_command' = Top'.cmd /\ \E more \in BOOLEAN : Q' = <<Answer(Top', more)>>
  BY <1>1, <1>2, <1>4, <1>5 DEF Going
<1>10. pc' # "send"
  BY <1>1, <1>3
<1>11. pc' \in {"ack", "answer"} /\ asleep' => owed' # <<>> /\ Top'.cmd = "TgInitAsTarget"
  BY <1>1, <1>5, <1>7
<1> QED BY <1>5, <1>6, <1>8, <1>9, <1>10, <1>11 DEF Going

LEMMA PlainReceive == TypeOK /\ Plain /\ Receive => Plain'
<1> SUFFICES ASSUME TypeOK, Plain, Receive, Smooth' PROVE Going'
  BY DEF Plain
<1>1. /\ pc = "answer" /\ line # <<>> /\ line' = Tail(line)
      /\ UNCHANGED <<driver, abort, clean, calls, hurt, owed, asleep>>
  BY DEF Receive, bounds, hist
<1>2. Going
  BY <1>1, SmoothBefore
<1>3. owed = <<>> /\ Tail(line) = <<>>
  BY <1>1, <1>2, AnswerOwed
<1>4. ~asleep'
  BY <1>1, <1>2, <1>3 DEF Going
<1>5. ~abort' /\ (driver' = "pn532_i2c" => last_error' # "aborted")
  <2>1. last_error' = last_error \/ last_error' = "ok"
    BY DEF Receive
  <2> QED BY <1>1, <1>2, <2>1 DEF Going
<1>6. Kept' = <<>>
  BY <1>1, <1>3 DEF Kept, Q
<1>7. \A i \in 1..Len(stack) : ~stack[i].aborting
  BY <1>2 DEF Going
<1>8. stack # <<>> /\ stack \in Seq(Exchanges)
  BY <1>1, TopType DEF TypeOK
<1>9. CASE Head(line).more
  <2>1. pc' = "send"
    BY <1>9 DEF Receive
  <2>2. \A i \in 1..Len(stack') : ~stack'[i].aborting
    <3>1. /\ Len(stack') = Len(stack) /\ Len(stack) \in Nat \ {0} /\ Top = stack[1] /\ Top \in Exchanges
          /\ stack'[1] = [Top EXCEPT !.part = @ + 1]
          /\ \A i \in 2..Len(stack) : stack'[i] = stack[i]
      BY <1>9, Continued
    <3>2. stack'[1].aborting = Top.aborting
      BY <3>1 DEF Exchanges
    <3>3. \A i \in 1..Len(stack') : i = 1 \/ i \in 2..Len(stack)
      BY <3>1
    <3>4. ~Top.aborting /\ \A i \in 2..Len(stack) : ~stack'[i].aborting
      <4>1. 1 \in 1..Len(stack) /\ \A i \in 2..Len(stack) : i \in 1..Len(stack)
        BY <3>1
      <4> QED BY <1>7, <3>1, <4>1
    <3> QED BY <3>2, <3>3, <3>4
  <2> QED BY <1>4, <1>5, <1>6, <2>1, <2>2 DEF Going
<1>10. CASE ~Head(line).more
  <2>1. End("ok")
    BY <1>10 DEF Receive
  <2>2. /\ Tail(stack) \in Seq(Exchanges) /\ Len(Tail(stack)) = Len(stack) - 1 /\ Len(stack) \in Nat \ {0}
        /\ \A i \in 1..Len(stack) - 1 : Tail(stack)[i] = stack[i + 1]
    BY <1>8, TailFacts
  <2>3. \A i \in 1..Len(Tail(stack)) : ~Tail(stack)[i].aborting
    <3> SUFFICES ASSUME NEW i \in 1..Len(Tail(stack)) PROVE ~Tail(stack)[i].aborting
      OBVIOUS
    <3>1. Tail(stack)[i] = stack[i + 1] /\ i + 1 \in 1..Len(stack)
      BY <2>2
    <3> QED BY <1>7, <3>1
  <2>4. Tail(stack) # <<>> => ~Head(Tail(stack)).aborting
    <3> SUFFICES ASSUME Tail(stack) # <<>> PROVE ~Head(Tail(stack)).aborting
      OBVIOUS
    <3> DEFINE u == Tail(stack)
               n == Len(u)
    <3>1. Head(u) = u[1] /\ n \in Nat \ {0}
      BY <2>2, TailFacts
    <3>2. \A i \in 1..n : ~u[i].aborting
      BY <2>3
    <3> HIDE DEF u, n
    <3>3. 1 \in 1..n
      BY ONLY <3>1
    <3>4. ~Head(u).aborting
      BY <3>1, <3>2, <3>3
    <3> QED BY <3>4 DEF u
  <2>5. \/ pc' = "send" /\ stack' = Tail(stack)
        \/ pc' = "idle" /\ stack' = <<>> /\ result' = "ok"
    BY <1>1, <2>1, <2>4, EndFacts
  <2>6. CASE pc' = "send" /\ stack' = Tail(stack)
    <3>1. \A i \in 1..Len(stack') : ~stack'[i].aborting
      BY <2>3, <2>6
    <3> QED BY <1>4, <1>5, <1>6, <2>6, <3>1 DEF Going
  <2>7. CASE pc' = "idle" /\ stack' = <<>> /\ result' = "ok"
    <3>1. \A i \in 1..Len(stack') : ~stack'[i].aborting
      <4>1. Len(stack') = 0
        BY <2>7
      <4> QED BY <4>1
    <3> QED BY <1>4, <1>5, <2>7, <3>1 DEF Going
  <2> QED BY <2>5, <2>6, <2>7
<1> QED BY <1>9, <1>10

(* Nothing of this can meet a call that nothing disturbs. *)
(* The others cannot be taken in such a call, or disturb it. *)
LEMMA PlainNever ==
    ASSUME TypeOK, Plain, Smooth'
    PROVE  /\ ~Garble /\ ~SendMisread /\ ~SendFails /\ ~nfc_abort_command
           /\ ~AckMismatch /\ ~AckTimeout /\ ~AckAborted
           /\ ~ReceiveMismatch /\ ~ReceiveTimeout /\ ~Drain /\ ~Notice /\ ~NoticeArygon /\ ~NoticeI2c
<1>1. ~Garble /\ ~SendMisread /\ ~SendFails /\ ~nfc_abort_command
  BY DEF Smooth, Garble, SendMisread, SendFails, nfc_abort_command, Fault
<1>2. ~AckMismatch
  <2> SUFFICES ASSUME AckMismatch PROVE FALSE
    OBVIOUS
  <2>1. pc = "ack" /\ line # <<>> /\ Head(line) # Ack /\ UNCHANGED <<clean, calls, hurt>>
    BY DEF AckMismatch, bounds, hist
  <2>2. Going
    BY <2>1, SmoothBefore
  <2> QED BY <2>1, <2>2, AckOwed
<1>3. ~AckTimeout
  <2> SUFFICES ASSUME AckTimeout PROVE FALSE
    OBVIOUS
  <2>1. pc = "ack" /\ owed = <<>> /\ line = <<>> /\ UNCHANGED <<clean, calls, hurt>>
    BY DEF AckTimeout, TimeUp, Fault, Smooth
  <2>2. Going
    BY <2>1, SmoothBefore
  <2> QED BY <2>1, <2>2, AckOwed
<1>4. ~AckAborted
  <2> SUFFICES ASSUME AckAborted PROVE FALSE
    OBVIOUS
  <2>1. abort /\ UNCHANGED <<clean, calls, hurt>>
    BY DEF AckAborted, bounds, hist
  <2>2. Going
    BY <2>1, SmoothBefore
  <2> QED BY <2>1, <2>2 DEF Going
<1>5. ~ReceiveMismatch
  <2> SUFFICES ASSUME ReceiveMismatch PROVE FALSE
    OBVIOUS
  <2>1. pc = "answer" /\ line # <<>> /\ ~Fits(Head(line)) /\ UNCHANGED <<clean, calls, hurt>>
    BY DEF ReceiveMismatch, bounds, hist
  <2>2. Going
    BY <2>1, SmoothBefore
  <2>3. PICK more \in BOOLEAN : /\ Answer(Top, more).kind = "answer" /\ Answer(Top, more).cmd = Top.cmd
                                /\ last_command = Top.cmd /\ Head(line) = Answer(Top, more)
    BY <2>1, <2>2, AnswerOwed
  <2> QED BY <2>1, <2>3 DEF Fits
<1>6. ~ReceiveTimeout
  <2> SUFFICES ASSUME ReceiveTimeout PROVE FALSE
    OBVIOUS
  <2>1. pc = "answer" /\ owed = <<>> /\ line = <<>> /\ UNCHANGED <<clean, calls, hurt>>
    BY DEF ReceiveTimeout, TimeUp, Fault, Smooth
  <2>2. Going
    BY <2>1, SmoothBefore
  <2> QED BY <2>1, <2>2, AnswerOwed
<1>7. ~Drain
  <2> SUFFICES ASSUME Drain PROVE FALSE
    OBVIOUS
  <2>1. pc = "drain" /\ UNCHANGED <<clean, calls, hurt>>
    BY DEF Drain, bounds, hist
  <2>2. Going
    BY <2>1, SmoothBefore
  <2> QED BY <2>1, <2>2 DEF Going
<1>8. ~Notice /\ ~NoticeArygon
  <2> SUFFICES ASSUME Notice \/ NoticeArygon PROVE FALSE
    OBVIOUS
  <2>1. abort /\ UNCHANGED <<clean, calls, hurt>>
    BY DEF Notice, NoticeArygon, Seen, bounds, hist
  <2>2. Going
    BY <2>1, SmoothBefore
  <2> QED BY <2>1, <2>2 DEF Going
<1>9. ~NoticeI2c
  <2> SUFFICES ASSUME NoticeI2c PROVE FALSE
    OBVIOUS
  <2>1. driver = "pn532_i2c" /\ (abort \/ last_error = "aborted") /\ UNCHANGED <<clean, calls, hurt>>
    BY DEF NoticeI2c, bounds, hist
  <2>2. Going
    BY <2>1, SmoothBefore
  <2> QED BY <2>1, <2>2 DEF Going
<1> QED BY <1>1, <1>2, <1>3, <1>4, <1>5, <1>6, <1>7, <1>8, <1>9

(* Every step keeps Plain. *)
LEMMA PlainStep == TypeOK /\ Woken /\ Plain /\ [Next]_vars => Plain'
<1> SUFFICES ASSUME TypeOK, Woken, Plain, [Next]_vars, Smooth' PROVE Plain'
  BY DEF Plain
<1>1. ASSUME NEW c \in Commands, Call(c) PROVE Plain'
  BY <1>1, PlainCall
<1>2. CASE Wakeup \/ Send \/ PcscSend \/ AckRead \/ Receive \/ Arrive
  BY <1>2, PlainWakeup, PlainSend, PlainPcscSend, PlainAckRead, PlainReceive, PlainArrive
<1>3. CASE UNCHANGED vars
  <2>1. UNCHANGED <<driver, owed, line, asleep, pc, stack, power_mode, last_command, last_error, abort, result, calls, clean, hurt>>
    BY <1>3 DEF vars, chipvars, bounds, hist
  <2>2. Going
    BY <2>1, SmoothBefore
  <2>3. Top' = Top /\ Q' = Q /\ Kept' = Kept
    BY <2>1 DEF Top, Q, Kept
  <2>4. /\ ~abort' /\ (driver' = "pn532_i2c" => last_error' # "aborted")
        /\ pc' # "drain" /\ (pc' = "idle" => result' = "ok")
        /\ \A i \in 1..Len(stack') : ~stack'[i].aborting
    BY <2>1, <2>2 DEF Going
  <2>5. pc' = "send" => Kept' = <<>> /\ (asleep' => power_mode' # "NORMAL")
    BY <2>1, <2>2, <2>3 DEF Going
  <2>6. pc' = "ack" => \E more \in BOOLEAN : Q' = <<Ack, Answer(Top', more)>>
    BY <2>1, <2>2, <2>3 DEF Going
  <2>7. pc' = "answer" => last_command' = Top'.cmd /\ \E more \in BOOLEAN : Q' = <<Answer(Top', more)>>
    BY <2>1, <2>2, <2>3 DEF Going
  <2>8. pc' \in {"ack", "answer"} /\ asleep' => owed' # <<>> /\ Top'.cmd = "TgInitAsTarget"
    BY <2>1, <2>2, <2>3 DEF Going
  <2> QED BY <2>4, <2>5, <2>6, <2>7, <2>8 DEF Plain, Going
<1> QED BY <1>1, <1>2, <1>3, PlainNever DEF Next, Host

-----------------------------------------------------------------------------
(* The inductive invariant. *)
IInv == TypeOK /\ Stacked /\ Mine /\ OwnAnswer /\ Woken /\ Plain

(* It holds when the driver is opened, and every step keeps it. *)
LEMMA IInvInit == Init => IInv
<1> SUFFICES ASSUME Init PROVE IInv
  OBVIOUS
<1>1. pc = "idle" /\ stack = <<>> /\ calls = 0 /\ asleep = (driver \in PN532)
  BY DEF Init
<1>2. Len(stack) = 0
  BY <1>1
<1>3. Stacked
  BY <1>1, <1>2 DEF Stacked
<1>4. Mine
  BY <1>1 DEF Mine, Live
<1>5. OwnAnswer /\ Plain
  <2>1. ~(calls > 0)
    BY <1>1
  <2> QED BY <2>1 DEF OwnAnswer, Ended, Plain, Smooth
<1>6. Woken
  BY <1>1 DEF Woken
<1> QED BY <1>3, <1>4, <1>5, <1>6, TypeInit DEF IInv

LEMMA IInvStep == IInv /\ [Next]_vars => IInv'
BY TypeStep, StackedStep, MineStep, OwnStep, WokenStep, PlainStep DEF IInv

(* A call of pn53x_transceive that succeeds has its own answer, whole and  *)
(* in order, when what earlier calls left was read or thrown away: no      *)
(* late, repeated or garbled answer is taken for it (pn53x.c,              *)
(* pn53x_transceive; the receive functions of the drivers).                *)
THEOREM OwnAnswerHolds == Spec => []OwnAnswer
<1>1. IInv => OwnAnswer
  BY DEF IInv
<1> QED BY <1>1, IInvInit, IInvStep, PTL DEF Spec

(* Whatever the calls before met, a call of pn53x_transceive that begins   *)
(* when all they were owed has come, and that meets no fault, succeeds     *)
(* (uart_flush_input and the send functions of the drivers).               *)
THEOREM BackInStepHolds == Spec => []BackInStep
<1>1. IInv => BackInStep
  BY DEF IInv, Plain, Smooth, Going, BackInStep, Ended
<1> QED BY <1>1, IInvInit, IInvStep, PTL DEF Spec

-----------------------------------------------------------------------------
(* What MCLibraries assumes of the constants, as far as scan, open and     *)
(* close are concerned.                                                    *)
LEMMA OpenableAssumption ==
    /\ Openable \subseteq {"pn532_uart", "arygon", "acr122s", "pn53x_usb", "acr122_usb", "acr122_pcsc", "pn532_spi", "pn532_i2c"}
    /\ Ports \in Nat \ {0}
BY LibrariesAssumption DEF Openable

(* The resources, and the calls of a function. *)
Things == {"port", "claim", "device", "driver_data", "chip_data", "pipe", "handle", "interface",
           "card", "context", "name", "number"}
Steps == [take : SUBSET Things, give : SUBSET Things, undo : SUBSET Things, next : BOOLEAN]

(* What is given back is held, and what is then left is what is forgotten. *)
Settled(h, r) == r \subseteq h \cup O!nfc_device_free /\ O!Left(h, r) \subseteq O!Forgets

(* So it is on an error path, but the settings of a serial port may be put *)
(* back by one that could not mark it.                                     *)
Undone(h, r) ==
    /\ r \subseteq h \cup O!NeedNotHold /\ O!Left(h, r) \subseteq O!Forgets
    /\ "claim" \in r /\ "claim" \notin h => "port" \in h /\ oDriver \in O!Serial

(* A call that is not the last, made when h is held; the last one of the   *)
(* function f.                                                             *)
Failing(h, s) == s.give = {} \/ s.undo # {} => Undone(h, s.undo)

Middle(h, s) ==
    /\ Failing(h, s) /\ s.give \subseteq h /\ s.take \cap s.give = {}
    /\ "claim" \notin s.give
    /\ "claim" \in s.take => s.take = {"claim"} /\ "port" \in h /\ "claim" \notin h /\ oDriver \in O!Serial
    /\ "port" \in s.take => s.take = {"port"}
    /\ "context" \in s.take => "context" \notin h

Last(f, h, s) ==
    /\ Failing(h, s)
    /\ oDriver # "acr122s" /\ f = "scan" => Settled(h, s.give)
    /\ oDriver # "acr122s" /\ f = "open" =>
           s.give \cap {"claim", "context"} = {} /\ Settled(h \ s.give, O!Close)

After(h, s) == (h \cup s.take) \ s.give

(* The calls c of the function f can be made one after the other from h on.*)
Sound(f, h, c) ==
    \E at \in [1..Len(c) -> SUBSET Things] :
        /\ at[1] = h
        /\ \A n \in 1..Len(c) - 1 : Middle(at[n], c[n]) /\ at[n + 1] = After(at[n], c[n])
        /\ Last(f, at[Len(c)], c[Len(c)])

-----------------------------------------------------------------------------
(* How a list of calls that can be made is read and built. *)
LEMMA SoundStep ==
    ASSUME NEW f, NEW h \in SUBSET Things, NEW c \in Seq(Steps), c # <<>>, Sound(f, h, c)
    PROVE  /\ Len(c) > 1 => Middle(h, Head(c)) /\ Tail(c) # <<>> /\ Sound(f, After(h, Head(c)), Tail(c))
           /\ Len(c) = 1 => Last(f, h, Head(c))
           /\ Failing(h, Head(c))
<1>1. PICK at \in [1..Len(c) -> SUBSET Things] :
        /\ at[1] = h
        /\ \A n \in 1..Len(c) - 1 : Middle(at[n], c[n]) /\ at[n + 1] = After(at[n], c[n])
        /\ Last(f, at[Len(c)], c[Len(c)])
  BY DEF Sound
<1>2. Len(c) \in Nat \ {0} /\ Head(c) = c[1] /\ Tail(c) \in Seq(Steps) /\ Len(Tail(c)) = Len(c) - 1
  BY EmptySeq, HeadTailProperties
<1>3. \A n \in 1..Len(c) - 1 : Tail(c)[n] = c[n + 1]
  BY <1>2, HeadTailProperties
<1>4. CASE Len(c) > 1
  <2> DEFINE b == [n \in 1..Len(c) - 1 |-> at[n + 1]]
             t == Tail(c)
  <2>0. Middle(h, Head(c))
    BY <1>1, <1>2, <1>4
  <2>1. b \in [1..Len(t) -> SUBSET Things] /\ \A n \in 1..Len(t) : b[n] = at[n + 1]
    BY <1>2, <1>4
  <2>2. b[1] = After(h, Head(c))
    BY <1>1, <1>2, <1>4
  <2>3. Len(t) = Len(c) - 1 /\ \A n \in 1..Len(t) : t[n] = c[n + 1]
    BY <1>2, <1>3
  <2> HIDE DEF b, t
  <2>4. \A n \in 1..Len(t) - 1 : Middle(b[n], t[n]) /\ b[n + 1] = After(b[n], t[n])
    <3> TAKE n \in 1..Len(t) - 1
    <3>1. n \in 1..Len(t) /\ n + 1 \in 1..Len(t) /\ n + 1 \in 1..Len(c) - 1
      BY <1>2, <2>3
    <3>2. b[n] = at[n + 1] /\ b[n + 1] = at[n + 2] /\ t[n] = c[n + 1]
      BY <2>1, <2>3, <3>1
    <3>3. Middle(at[n + 1], c[n + 1]) /\ at[n + 1 + 1] = After(at[n + 1], c[n + 1])
      BY <1>1, <3>1
    <3>4. n + 1 + 1 = n + 2
      OBVIOUS
    <3> QED BY <3>2, <3>3, <3>4
  <2>5. Last(f, b[Len(t)], t[Len(t)])
    BY <1>1, <1>2, <1>4, <2>1, <2>3
  <2>6. Sound(f, After(h, Head(c)), t)
    BY <2>1, <2>2, <2>4, <2>5 DEF Sound
  <2>7. t # <<>>
    BY <1>2, <1>4, <2>3
  <2>8. Middle(h, Head(c)) => Failing(h, Head(c))
    BY DEF Middle
  <2>9. Tail(c) # <<>> /\ Sound(f, After(h, Head(c)), Tail(c))
    BY <2>6, <2>7 DEF t
  <2>10. ~(Len(c) = 1)
    <3> DEFINE k == Len(c)
    <3>1. k \in Nat /\ k > 1
      BY <1>2, <1>4
    <3> HIDE DEF k
    <3>2. ~(k = 1)
      BY <3>1
    <3> QED BY <3>2 DEF k
  <2> QED BY <2>0, <2>8, <2>9, <2>10, Zenon
<1>5. CASE Len(c) = 1
  <2>1. Last(f, h, Head(c)) => Failing(h, Head(c))
    BY DEF Last
  <2> QED BY <1>1, <1>2, <1>5, <2>1
<1> QED BY <1>2, <1>4, <1>5

LEMMA SoundLast ==
    ASSUME NEW f, NEW h \in SUBSET Things, NEW s, Last(f, h, s)
    PROVE  Sound(f, h, <<s>>)
<1> DEFINE at == [n \in 1..1 |-> h]
<1>1. at \in [1..1 -> SUBSET Things] /\ at[1] = h
  OBVIOUS
<1> HIDE DEF at
<1>2. Len(<<s>>) = 1 /\ <<s>>[1] = s
  OBVIOUS
<1>3. \A n \in 1..Len(<<s>>) - 1 : FALSE
  BY <1>2
<1>4. Last(f, at[Len(<<s>>)], <<s>>[Len(<<s>>)])
  BY <1>1, <1>2
<1> QED BY <1>1, <1>2, <1>3, <1>4 DEF Sound

LEMMA SoundFirst ==
    ASSUME NEW f, NEW h \in SUBSET Things, NEW s \in Steps, NEW c \in Seq(Steps), c # <<>>,
           Middle(h, s), Sound(f, After(h, s), c)
    PROVE  Sound(f, h, <<s>> \o c) /\ <<s>> \o c \in Seq(Steps) /\ <<s>> \o c # <<>>
<1> DEFINE d == <<s>> \o c
<1>1. /\ d \in Seq(Steps) /\ Len(d) = Len(c) + 1 /\ Len(c) \in Nat \ {0}
      /\ d[1] = s /\ \A n \in 1..Len(c) : d[n + 1] = c[n]
  <2>1. <<s>> \in Seq(Steps) /\ Len(<<s>>) = 1 /\ <<s>>[1] = s
    OBVIOUS
  <2>2. d \in Seq(Steps) /\ Len(d) = Len(c) + 1 /\ \A n \in 1..1 + Len(c) : d[n] = IF n <= 1 THEN <<s>>[n] ELSE c[n - 1]
    BY <2>1, ConcatProperties
  <2>3. Len(c) \in Nat \ {0}
    BY EmptySeq
  <2> HIDE DEF d
  <2> QED BY <2>1, <2>2, <2>3
<1>2. PICK at \in [1..Len(c) -> SUBSET Things] :
        /\ at[1] = After(h, s)
        /\ \A n \in 1..Len(c) - 1 : Middle(at[n], c[n]) /\ at[n + 1] = After(at[n], c[n])
        /\ Last(f, at[Len(c)], c[Len(c)])
  BY DEF Sound
<1> HIDE DEF d
<1> DEFINE b == [n \in 1..Len(d) |-> IF n = 1 THEN h ELSE at[n - 1]]
<1>3. b \in [1..Len(d) -> SUBSET Things] /\ b[1] = h /\ \A n \in 1..Len(c) : b[n + 1] = at[n]
  BY <1>1
<1> HIDE DEF b
<1>4. \A n \in 1..Len(d) - 1 : Middle(b[n], d[n]) /\ b[n + 1] = After(b[n], d[n])
  <2> TAKE n \in 1..Len(d) - 1
  <2>1. CASE n = 1
    <3>1. b[1 + 1] = at[1]
      BY <1>1, <1>3
    <3> QED BY <1>1, <1>2, <1>3, <2>1, <3>1
  <2>2. CASE n # 1
    <3> DEFINE m == n - 1
    <3>1. m \in 1..Len(c) - 1 /\ m \in 1..Len(c) /\ m + 1 \in 1..Len(c) /\ n = m + 1
      BY <1>1, <2>2
    <3> HIDE DEF m
    <3>2. b[m + 1] = at[m] /\ b[m + 1 + 1] = at[m + 1] /\ d[m + 1] = c[m]
      BY <1>1, <1>3, <3>1
    <3>3. Middle(at[m], c[m]) /\ at[m + 1] = After(at[m], c[m])
      BY <1>2, <3>1
    <3> QED BY <3>1, <3>2, <3>3
  <2> QED BY <2>1, <2>2
<1>5. Last(f, b[Len(d)], d[Len(d)])
  BY <1>1, <1>2, <1>3
<1>6. Sound(f, h, d) /\ d # <<>>
  <2>1. d # <<>>
    <3>1. Len(d) # 0
      BY <1>1
    <3> QED BY <3>1
  <2>2. Sound(f, h, d)
    BY <1>3, <1>4, <1>5, Zenon DEF Sound
  <2> QED BY <2>1, <2>2
<1>7. Sound(f, h, d) /\ d \in Seq(Steps) /\ d # <<>>
  BY <1>1, <1>6
<1> QED BY <1>7 DEF d
(* The calls c can be made from h on. *)
Good(f, h, c) == h \in SUBSET Things /\ c \in Seq(Steps) /\ c # <<>> /\ Sound(f, h, c)

LEMMA GoodLast ==
    ASSUME NEW f, NEW h \in SUBSET Things, NEW s \in Steps, Last(f, h, s)
    PROVE  Good(f, h, <<s>>)
<1>1. <<s>> \in Seq(Steps) /\ <<s>> # <<>>
  OBVIOUS
<1>2. Sound(f, h, <<s>>)
  BY SoundLast
<1> QED BY <1>1, <1>2 DEF Good

LEMMA GoodFirst ==
    ASSUME NEW f, NEW h \in SUBSET Things, NEW s \in Steps, NEW c, Middle(h, s), Good(f, After(h, s), c)
    PROVE  Good(f, h, <<s>> \o c)
BY SoundFirst DEF Good

(* Literal sequences, taken apart for Good. *)
LEMMA Cons2 ==
    ASSUME NEW a \in Steps, NEW b \in Steps, NEW t \in Seq(Steps)
    PROVE  <<a, b>> \o t = <<a>> \o (<<b>> \o t) /\ <<a, b>> \in Seq(Steps) /\ <<a, b>> \o t \in Seq(Steps)
<1>1. <<a>> \in Seq(Steps) /\ <<b>> \in Seq(Steps) /\ <<a, b>> \in Seq(Steps)
  OBVIOUS
<1>2. <<a>> \o <<b>> = <<a, b>>
  BY Two
<1>3. (<<a>> \o <<b>>) \o t = <<a>> \o (<<b>> \o t)
  BY <1>1, ConcatAssociative
<1>4. <<a, b>> \o t \in Seq(Steps)
  BY <1>1, ConcatProperties
<1> QED BY <1>1, <1>2, <1>3, <1>4

(* A literal sequence goes before t one element at a time. *)
Chain3(a, b, c, t)    == <<a, b, c>> \o t = <<a>> \o (<<b>> \o (<<c>> \o t))
Chain4(a, b, c, d, t) == <<a, b, c, d>> \o t = <<a>> \o (<<b>> \o (<<c>> \o (<<d>> \o t)))

LEMMA Cons3 ==
    ASSUME NEW a \in Steps, NEW b \in Steps, NEW c \in Steps, NEW t \in Seq(Steps)
    PROVE  Chain3(a, b, c, t) /\ <<a, b, c>> \in Seq(Steps) /\ <<a, b, c>> \o t \in Seq(Steps)
<1>1. <<a>> \in Seq(Steps) /\ <<b, c>> \in Seq(Steps) /\ <<a, b, c>> \in Seq(Steps)
  OBVIOUS
<1>2. <<a, b, c>> = <<a>> \o <<b, c>>
  OBVIOUS
<1>3. (<<a>> \o <<b, c>>) \o t = <<a>> \o (<<b, c>> \o t)
  BY <1>1, ConcatAssociative
<1>4. <<b, c>> \o t = <<b>> \o (<<c>> \o t)
  BY Cons2
<1>5. <<a, b, c>> \o t \in Seq(Steps)
  BY <1>1, ConcatProperties
<1> QED BY <1>1, <1>2, <1>3, <1>4, <1>5 DEF Chain3

-----------------------------------------------------------------------------
(* The parts that the drivers share: the four allocations of an open, and  *)
(* uart_open.                                                              *)
LEMMA AllocateGood ==
    ASSUME NEW f, NEW h \in SUBSET Things, NEW close \in SUBSET Things, NEW t,
           Settled(h, close), "handle" \notin close,
           Good(f, h \cup O!nfc_device_free \cup {"chip_data"}, t)
    PROVE  Good(f, h, O!Allocate(close) \o t) /\ O!Allocate(close) \in Seq(Steps)
<1> DEFINE a == O!Get("device", close)
           b == O!Get("driver_data", close \cup O!nfc_device_free)
           c == O!Get("chip_data", close \cup O!nfc_device_free)
           hb == h \cup {"device"}
           hc == h \cup O!nfc_device_free
<1>1. a \in Steps /\ b \in Steps /\ c \in Steps
  BY DEF O!Get, Steps, Things, O!nfc_device_free
<1>2. After(h, a) = hb /\ After(hb, b) = hc /\ After(hc, c) = h \cup O!nfc_device_free \cup {"chip_data"}
  BY DEF After, O!Get, O!nfc_device_free
<1>3. hb \in SUBSET Things /\ hc \in SUBSET Things
  BY DEF Things, O!nfc_device_free
<1>4. Middle(h, a)
  BY DEF Middle, Failing, Undone, Settled, O!Get, O!NeedNotHold, O!nfc_device_free
<1>5. Middle(hb, b)
  BY DEF Middle, Failing, Undone, O!Get, Settled, O!Left, O!NeedNotHold, O!nfc_device_free
<1>6. Middle(hc, c)
  BY DEF Middle, Failing, Undone, O!Get, Settled, O!Left, O!NeedNotHold, O!nfc_device_free
<1> HIDE DEF a, b, c, hb, hc
<1>7. Good(f, hc, <<c>> \o t)
  BY <1>1, <1>2, <1>3, <1>6, GoodFirst
<1>8. Good(f, hb, <<b>> \o (<<c>> \o t))
  BY <1>1, <1>2, <1>3, <1>5, <1>7, GoodFirst
<1>9. Good(f, h, <<a>> \o (<<b>> \o (<<c>> \o t)))
  BY <1>1, <1>2, <1>4, <1>8, GoodFirst
<1>10. t \in Seq(Steps)
  BY DEF Good
<1>11. <<a, b, c>> \o t = <<a>> \o (<<b>> \o (<<c>> \o t)) /\ <<a, b, c>> \in Seq(Steps)
  <2>1. Chain3(a, b, c, t) /\ <<a, b, c>> \in Seq(Steps)
    BY <1>1, <1>10, Cons3
  <2> QED BY <2>1, Zenon DEF Chain3
<1>12. O!Allocate(close) = <<a, b, c>>
  BY DEF O!Allocate, a, b, c
<1> QED BY <1>9, <1>11, <1>12

LEMMA UartGood ==
    ASSUME NEW f, NEW t, NEW next \in BOOLEAN, oDriver \in O!Serial,
           Good(f, {"port", "claim"}, t)
    PROVE  Good(f, {}, O!uart_open(next) \o t) /\ O!uart_open(next) \in Seq(Steps)
<1> DEFINE a == [take |-> {"port"}, give |-> {}, undo |-> {}, next |-> next]
           b == [take |-> {"claim"}, give |-> {}, undo |-> O!uart_close, next |-> next]
<1>1. a \in Steps /\ b \in Steps
  BY DEF Steps, Things, O!uart_close
<1>2. After({}, a) = {"port"} /\ After({"port"}, b) = {"port", "claim"}
  BY DEF After
<1>3. {} \in SUBSET Things /\ {"port"} \in SUBSET Things
  BY DEF Things
<1>4. Middle({}, a)
  BY DEF Middle, Failing, Undone, O!Left
<1>5. Middle({"port"}, b)
  BY DEF Middle, Failing, Undone, O!Left, O!NeedNotHold, O!uart_close
<1> HIDE DEF a, b
<1>6. Good(f, {"port"}, <<b>> \o t)
  BY <1>1, <1>2, <1>3, <1>5, GoodFirst
<1>7. Good(f, {}, <<a>> \o (<<b>> \o t))
  BY <1>1, <1>2, <1>3, <1>4, <1>6, GoodFirst
<1>8. t \in Seq(Steps)
  BY DEF Good
<1>9. <<a, b>> \o t = <<a>> \o (<<b>> \o t) /\ <<a, b>> \in Seq(Steps)
  BY <1>1, <1>8, Cons2
<1>10. O!uart_open(next) = <<a, b>>
  BY DEF O!uart_open, a, b
<1> QED BY <1>7, <1>9, <1>10

(* Forgets, driver by driver. *)
LEMMA ForgetsAre ==
    /\ oDriver \in O!Serial => O!Forgets = {"pipe"}
    /\ oDriver \in O!Usb => O!Forgets = {"handle", "interface", "chip_data"}
    /\ oDriver = "pn532_spi" => O!Forgets = {}
    /\ oDriver = "pn532_i2c" => O!Forgets = {"name"}
    /\ oDriver = "acr122_pcsc" => O!Forgets = {"context", "card", "chip_data", "number"}
BY DEF O!Forgets, O!Serial, O!Usb

-----------------------------------------------------------------------------
(* The two serial drivers that end with a question to the chip. *)
Whole == {"port", "claim", "device", "driver_data", "chip_data"}

LEMMA PipedGood ==
    ASSUME NEW f, NEW s \in Steps, NEW next \in BOOLEAN, oDriver \in O!Serial,
           Last(f, Whole \cup {"pipe"}, s)
    PROVE  Good(f, {}, O!uart_open(next) \o O!Allocate(O!uart_close) \o <<O!Pipe(O!uart_close), s>>)
<1> DEFINE a == O!Pipe(O!uart_close)
<1>1. Whole \in SUBSET Things /\ Whole \cup {"pipe"} \in SUBSET Things /\ a \in Steps
  BY DEF Whole, Things, Steps, O!Pipe, O!Get, O!uart_close, O!nfc_device_free
<1>2. Middle(Whole, a) /\ After(Whole, a) = Whole \cup {"pipe"}
  BY DEF Middle, Failing, Undone, Settled, O!Left, O!Pipe, O!Get, O!uart_close, O!nfc_device_free, O!NeedNotHold, Whole, After
<1>3. Good(f, Whole \cup {"pipe"}, <<s>>)
  BY <1>1, GoodLast
<1> HIDE DEF a
<1>4. Good(f, Whole, <<a>> \o <<s>>)
  BY <1>1, <1>2, <1>3, GoodFirst
<1>5. <<a>> \o <<s>> = <<a, s>>
  BY <1>1, Two
<1>6. Good(f, Whole, <<a, s>>)
  BY <1>4, <1>5, Zenon
<1> DEFINE t == <<a, s>>
           h == {"port", "claim"}
<1>7. /\ h \in SUBSET Things /\ O!uart_close \in SUBSET Things /\ Settled(h, O!uart_close) /\ "handle" \notin O!uart_close
      /\ h \cup O!nfc_device_free \cup {"chip_data"} = Whole
  BY DEF Things, O!uart_close, Settled, O!Left, Whole, O!nfc_device_free
<1> HIDE DEF t, h
<1>8. Good(f, h, O!Allocate(O!uart_close) \o t) /\ O!Allocate(O!uart_close) \in Seq(Steps)
  BY <1>6, <1>7, AllocateGood DEF t
<1>9. Good(f, {}, O!uart_open(next) \o (O!Allocate(O!uart_close) \o t)) /\ O!uart_open(next) \in Seq(Steps)
  BY <1>8, UartGood DEF h
<1>10. t \in Seq(Steps)
  BY <1>6 DEF Good, t
<1>11. (O!uart_open(next) \o O!Allocate(O!uart_close)) \o t = O!uart_open(next) \o (O!Allocate(O!uart_close) \o t)
  BY <1>8, <1>9, <1>10, ConcatAssociative
<1>12. Good(f, {}, (O!uart_open(next) \o O!Allocate(O!uart_close)) \o t)
  BY <1>9, <1>11, Zenon
<1> QED BY <1>12 DEF t, a

(* pn532_uart and arygon. *)
LEMMA UartScan ==
    ASSUME oDriver \in {"pn532_uart", "arygon"}
    PROVE  Good("scan", {}, O!Scan)
<1> DEFINE s == O!Visit(O!Closed(O!uart_close))
<1>1. s \in Steps /\ oDriver \in O!Serial
  BY DEF O!Visit, O!Closed, O!uart_close, O!nfc_device_free, Steps, Things, O!Serial
<1>2. Last("scan", Whole \cup {"pipe"}, s)
  BY ForgetsAre, <1>1 DEF Last, Failing, Undone, Settled, O!Left, O!Visit, O!Closed, O!uart_close, O!nfc_device_free, O!NeedNotHold, Whole
<1> HIDE DEF s
<1>3. Good("scan", {}, O!uart_open(TRUE) \o O!Allocate(O!uart_close) \o <<O!Pipe(O!uart_close), s>>)
  BY <1>1, <1>2, PipedGood
<1>4. O!Scan = O!uart_open(TRUE) \o O!Allocate(O!uart_close) \o <<O!Pipe(O!uart_close), s>>
  BY DEF O!Scan, O!pn532_uart_scan, O!arygon_scan, s
<1> QED BY <1>3, <1>4, Zenon

LEMMA UartOpen ==
    ASSUME oDriver \in {"pn532_uart", "arygon"}
    PROVE  \A c \in O!Open : Good("open", {}, c)
<1> DEFINE s == O!Ask(O!Closed(O!uart_close) \cup {"pipe"})
<1>1. s \in Steps /\ oDriver \in O!Serial
  BY DEF O!Ask, O!Closed, O!uart_close, O!nfc_device_free, Steps, Things, O!Serial
<1>2. O!Close = O!Closed(O!uart_close) \cup {"pipe"}
  BY DEF O!Close, O!pn532_uart_close, O!arygon_close
<1>3. Last("open", Whole \cup {"pipe"}, s)
  BY ForgetsAre, <1>1, <1>2 DEF Last, Failing, Undone, Settled, O!Left, O!Ask, O!Closed, O!uart_close, O!nfc_device_free, O!NeedNotHold, Whole
<1> HIDE DEF s
<1>4. Good("open", {}, O!uart_open(FALSE) \o O!Allocate(O!uart_close) \o <<O!Pipe(O!uart_close), s>>)
  BY <1>1, <1>3, PipedGood
<1>5. O!Open = {O!uart_open(FALSE) \o O!Allocate(O!uart_close) \o <<O!Pipe(O!uart_close), s>>}
  BY DEF O!Open, O!pn532_uart_open, O!arygon_open, O!pn532_uart_close, O!arygon_close, s
<1> QED BY <1>4, <1>5

(* A call put before others, from the list as a whole. *)
LEMMA GoodTail ==
    ASSUME NEW f, NEW h \in SUBSET Things, NEW s \in Steps, NEW d \in Seq(Steps), d # <<>>, Head(d) = s,
           Middle(h, s), Good(f, After(h, s), Tail(d))
    PROVE  Good(f, h, d)
<1>1. Good(f, h, <<s>> \o Tail(d))
  BY GoodFirst
<1> DEFINE t == Tail(d)
           e == <<s>> \o t
<1>2. Len(d) \in Nat \ {0} /\ d[1] = s /\ t \in Seq(Steps) /\ Len(t) = Len(d) - 1
  BY EmptySeq, HeadTailProperties
<1>3. \A n \in 1..Len(d) - 1 : t[n] = d[n + 1]
  BY HeadTailProperties
<1>4. <<s>> \in Seq(Steps) /\ Len(<<s>>) = 1 /\ <<s>>[1] = s
  OBVIOUS
<1> HIDE DEF t
<1>5. e \in Seq(Steps) /\ Len(e) = 1 + Len(t) /\ \A n \in 1..1 + Len(t) : e[n] = IF n <= 1 THEN <<s>>[n] ELSE t[n - 1]
  BY <1>2, <1>4, ConcatProperties
<1> HIDE DEF e
<1>6. \A n \in 1..Len(e) : e[n] = d[n]
  <2> TAKE n \in 1..Len(e)
  <2>1. CASE n = 1
    BY <1>2, <1>4, <1>5, <2>1
  <2>2. CASE n # 1
    <3>1. n - 1 \in 1..Len(d) - 1 /\ n - 1 + 1 = n
      BY <1>2, <1>5, <2>2
    <3>2. t[n - 1] = d[n - 1 + 1]
      BY <1>3, <3>1
    <3> QED BY <1>2, <1>5, <2>2, <3>1, <3>2
  <2> QED BY <2>1, <2>2
<1>7. e = d
  BY <1>2, <1>5, <1>6, SeqEqual
<1> QED BY <1>1, <1>7, Zenon DEF e, t

(* acr122s leaves out the last allocation. *)
LEMMA Prefix2 ==
    ASSUME NEW S, NEW a \in S, NEW b \in S, NEW c \in S
    PROVE  SubSeq(<<a, b, c>>, 1, 2) = <<a, b>>
<1> DEFINE s == <<a, b, c>>
           q == SubSeq(s, 1, 2)
           r == <<a, b>>
<1>1. s \in Seq(S) /\ Len(s) = 3 /\ s[1] = a /\ s[2] = b
  OBVIOUS
<1>2. r \in Seq(S) /\ Len(r) = 2 /\ r[1] = a /\ r[2] = b
  OBVIOUS
<1> HIDE DEF s, r
<1>3. q \in Seq(S) /\ Len(q) = 2 /\ \A i \in 1..2 : q[i] = s[i]
  BY <1>1
<1> HIDE DEF q
<1>4. \A i \in 1..Len(q) : q[i] = r[i]
  BY <1>1, <1>2, <1>3
<1>5. q = r
  BY <1>2, <1>3, <1>4, SeqEqual
<1> QED BY <1>5 DEF q, r, s

-----------------------------------------------------------------------------
(* acr122s: no scan lists its reader, no open returns it. *)
LEMMA Acr122sGood ==
    ASSUME NEW f, NEW s \in Steps, NEW next \in BOOLEAN, oDriver = "acr122s", Last(f, Whole \cup {"pipe"}, s)
    PROVE  Good(f, {}, O!uart_open(next) \o SubSeq(O!Allocate(O!uart_close), 1, 2) \o
                       << O!Get("pipe", O!uart_close \cup O!nfc_device_free), O!Get("chip_data", O!uart_close \cup O!nfc_device_free), s >>)
<1> DEFINE a == O!Get("device", O!uart_close)
           b == O!Get("driver_data", O!uart_close \cup O!nfc_device_free)
           c == O!Get("chip_data", O!uart_close \cup O!nfc_device_free)
           d == O!Get("pipe", O!uart_close \cup O!nfc_device_free)
           h1 == {"port", "claim"}
           h2 == h1 \cup {"device"}
           h3 == h2 \cup {"driver_data"}
           h4 == h3 \cup {"pipe"}
           h5 == Whole \cup {"pipe"}
           t == <<d, c, s>>
<1>1. a \in Steps /\ b \in Steps /\ c \in Steps /\ d \in Steps
  BY DEF O!Get, O!uart_close, O!nfc_device_free, Steps, Things
<1>2. h1 \in SUBSET Things /\ h2 \in SUBSET Things /\ h3 \in SUBSET Things /\ h4 \in SUBSET Things /\ h5 \in SUBSET Things
  BY DEF Things, Whole
<1>3. After(h1, a) = h2 /\ After(h2, b) = h3 /\ After(h3, d) = h4 /\ After(h4, c) = h5
  BY DEF After, O!Get, Whole
<1>4. O!Forgets = {"pipe"}
  BY ForgetsAre DEF O!Serial
<1>5. Middle(h1, a) /\ Middle(h2, b)
  BY DEF Middle, Failing, Undone, Settled, O!Left, O!Get, O!uart_close, O!nfc_device_free, O!NeedNotHold
<1>6. Middle(h3, d)
  BY DEF Middle, Failing, Undone, Settled, O!Left, O!Get, O!uart_close, O!nfc_device_free, O!NeedNotHold
<1>7. Middle(h4, c)
  BY <1>4 DEF Middle, Failing, Undone, Settled, O!Left, O!Get, O!uart_close, O!nfc_device_free, O!NeedNotHold
<1>8. O!Allocate(O!uart_close) = <<a, b, c>>
  BY DEF O!Allocate
<1> HIDE DEF a, b, c, d, h1, h2, h3, h4, h5
<1>9. Good(f, h5, <<s>>)
  BY <1>2, GoodLast DEF h5
<1>10. <<c, s>> \in Seq(Steps) /\ <<c, s>> # <<>> /\ Head(<<c, s>>) = c /\ Tail(<<c, s>>) = <<s>>
  BY <1>1
<1>11. Good(f, h4, <<c, s>>)
  BY <1>1, <1>2, <1>3, <1>7, <1>9, <1>10, GoodTail
<1>12. t \in Seq(Steps) /\ t # <<>> /\ Head(t) = d /\ Tail(t) = <<c, s>>
  BY <1>1
<1> HIDE DEF t
<1>13. Good(f, h3, t)
  BY <1>1, <1>2, <1>3, <1>6, <1>11, <1>12, GoodTail
<1>14. Good(f, h2, <<b>> \o t)
  BY <1>1, <1>2, <1>3, <1>5, <1>13, GoodFirst
<1>15. Good(f, h1, <<a>> \o (<<b>> \o t))
  BY <1>1, <1>2, <1>3, <1>5, <1>14, GoodFirst
<1>16. <<a, b>> \o t = <<a>> \o (<<b>> \o t) /\ <<a, b>> \in Seq(Steps)
  BY <1>1, <1>12, Cons2
<1>17. Good(f, h1, <<a, b>> \o t)
  BY <1>15, <1>16, Zenon
<1>18. Good(f, {}, O!uart_open(next) \o (<<a, b>> \o t)) /\ O!uart_open(next) \in Seq(Steps)
  BY <1>17, UartGood DEF h1, O!Serial
<1>19. (O!uart_open(next) \o <<a, b>>) \o t = O!uart_open(next) \o (<<a, b>> \o t)
  BY <1>12, <1>16, <1>18, ConcatAssociative
<1>20. Good(f, {}, (O!uart_open(next) \o <<a, b>>) \o t)
  BY <1>18, <1>19, Zenon
<1>21. SubSeq(O!Allocate(O!uart_close), 1, 2) = <<a, b>>
  BY <1>1, <1>8, Prefix2
<1>22. Good(f, {}, (O!uart_open(next) \o SubSeq(O!Allocate(O!uart_close), 1, 2)) \o t)
  BY <1>20, <1>21, Zenon
<1> QED BY <1>22 DEF t, c, d

LEMMA Acr122s ==
    ASSUME oDriver = "acr122s"
    PROVE  Good("scan", {}, O!Scan) /\ \A c \in O!Open : Good("open", {}, c)
<1> DEFINE s == O!Visit(O!Closed(O!uart_close))
           o == O!Ask(O!Closed(O!uart_close) \cup {"pipe"})
<1>1. s \in Steps /\ o \in Steps
  BY DEF O!Visit, O!Ask, O!Closed, O!uart_close, O!nfc_device_free, Steps, Things
<1>2. Last("scan", Whole \cup {"pipe"}, s)
  BY ForgetsAre DEF Last, Failing, Undone, Settled, O!Left, O!Visit, O!Closed, O!uart_close, O!nfc_device_free, O!NeedNotHold, Whole, O!Serial
<1>3. Last("open", Whole \cup {"pipe"}, o)
  BY ForgetsAre DEF Last, Failing, Undone, Settled, O!Left, O!Ask, O!Closed, O!uart_close, O!nfc_device_free, O!NeedNotHold, Whole, O!Serial
<1>4. O!Scan = O!uart_open(TRUE) \o SubSeq(O!Allocate(O!uart_close), 1, 2) \o
             << O!Get("pipe", O!uart_close \cup O!nfc_device_free), O!Get("chip_data", O!uart_close \cup O!nfc_device_free), s >>
  BY DEF O!Scan, O!acr122s_scan
<1>5. O!Open = {O!uart_open(FALSE) \o SubSeq(O!Allocate(O!uart_close), 1, 2) \o
              << O!Get("pipe", O!uart_close \cup O!nfc_device_free), O!Get("chip_data", O!uart_close \cup O!nfc_device_free), o >>}
  BY DEF O!Open, O!acr122s_open, O!acr122s_close
<1> HIDE DEF s, o
<1>6. Good("scan", {}, O!Scan)
  BY <1>1, <1>2, <1>4, Acr122sGood
<1>7. \A c \in O!Open : Good("open", {}, c)
  BY <1>1, <1>3, <1>5, Acr122sGood
<1> QED BY <1>6, <1>7

(* SPI: the bus is a port without a claim. *)
LEMMA BusGood ==
    ASSUME NEW f, NEW s \in Steps, NEW h \in SUBSET Things, Settled(h, {"port"}), "port" \in h,
           Last(f, h \cup O!nfc_device_free \cup {"chip_data"}, s)
    PROVE  Good(f, h, O!Allocate({"port"}) \o <<s>>) /\ O!Allocate({"port"}) \in Seq(Steps) /\ <<s>> \in Seq(Steps)
<1> DEFINE g == h \cup O!nfc_device_free \cup {"chip_data"}
           p == {"port"}
<1>1. g \in SUBSET Things /\ p \in SUBSET Things /\ "handle" \notin p
  BY DEF Things, O!nfc_device_free
<1>2. Good(f, g, <<s>>)
  BY <1>1, GoodLast
<1>3. <<s>> \in Seq(Steps)
  OBVIOUS
<1> HIDE DEF p
<1>4. Good(f, h, O!Allocate(p) \o <<s>>) /\ O!Allocate(p) \in Seq(Steps)
  BY <1>1, <1>2, AllocateGood DEF p
<1> QED BY <1>3, <1>4 DEF p

LEMMA Spi ==
    ASSUME oDriver = "pn532_spi"
    PROVE  Good("scan", {}, O!Scan) /\ \A c \in O!Open : Good("open", {}, c)
<1> DEFINE s == O!Visit(O!Closed({"port"}))
           o == O!Ask(O!Closed({"port"}))
           a(next) == [take |-> {"port"}, give |-> {}, undo |-> {}, next |-> next]
           h == {"port"}
           A == O!Allocate({"port"})
<1>1. s \in Steps /\ o \in Steps /\ \A n \in BOOLEAN : a(n) \in Steps
  BY DEF O!Visit, O!Ask, O!Closed, O!nfc_device_free, Steps, Things
<1>2. O!Close = O!Closed({"port"})
  BY DEF O!Close, O!pn532_spi_close, O!spi_close
<1>3. Last("scan", h \cup O!nfc_device_free \cup {"chip_data"}, s)
  BY ForgetsAre DEF Last, Failing, Undone, Settled, O!Left, O!Visit, O!Closed, O!nfc_device_free, O!NeedNotHold
<1>4. Last("open", h \cup O!nfc_device_free \cup {"chip_data"}, o)
  BY ForgetsAre, <1>2 DEF Last, Failing, Undone, Settled, O!Left, O!Ask, O!Closed, O!nfc_device_free, O!NeedNotHold
<1>5. \A n \in BOOLEAN : Middle({}, a(n)) /\ After({}, a(n)) = h
  BY DEF Middle, Failing, Undone, Settled, O!Left, After
<1>6. h \in SUBSET Things /\ {} \in SUBSET Things /\ Settled(h, {"port"}) /\ "port" \in h
  BY DEF Things, Settled, O!Left
<1>7. O!Scan = <<a(TRUE)>> \o A \o <<s>>
  BY DEF O!Scan, O!pn532_spi_scan, O!spi_open, O!spi_close
<1>8. O!Open = {<<a(FALSE)>> \o A \o <<o>>}
  BY DEF O!Open, O!pn532_spi_open, O!spi_open, O!spi_close, O!pn532_spi_close
<1> HIDE DEF s, o, a, h
<1>9. Good("scan", h, A \o <<s>>) /\ A \in Seq(Steps) /\ <<s>> \in Seq(Steps)
  BY <1>1, <1>3, <1>6, BusGood
<1>10. Good("open", h, A \o <<o>>) /\ <<o>> \in Seq(Steps)
  BY <1>1, <1>4, <1>6, BusGood
<1> HIDE DEF A
<1>11. Good("scan", {}, <<a(TRUE)>> \o (A \o <<s>>)) /\ Good("open", {}, <<a(FALSE)>> \o (A \o <<o>>))
  BY <1>1, <1>5, <1>6, <1>9, <1>10, GoodFirst
<1>12. <<a(TRUE)>> \in Seq(Steps) /\ <<a(FALSE)>> \in Seq(Steps)
  <2>1. a(TRUE) \in Steps /\ a(FALSE) \in Steps
    BY <1>1, Zenon
  <2> HIDE DEF A
  <2> QED BY <2>1, One, Zenon
<1>13. (<<a(TRUE)>> \o A) \o <<s>> = <<a(TRUE)>> \o (A \o <<s>>)
  BY <1>9, <1>12, ConcatAssociative
<1>14. (<<a(FALSE)>> \o A) \o <<o>> = <<a(FALSE)>> \o (A \o <<o>>)
  BY <1>9, <1>10, <1>12, ConcatAssociative
<1>15. Good("scan", {}, O!Scan)
  BY <1>7, <1>11, <1>13, Zenon
<1>16. \A c \in O!Open : Good("open", {}, c)
  BY <1>8, <1>11, <1>14, Zenon
<1> QED BY <1>15, <1>16

(* I2C: the name of the bus is found first, and it is never given back. *)
LEMMA I2cGood ==
    ASSUME NEW f, NEW t, NEW next \in BOOLEAN, NEW h \in SUBSET Things, h \subseteq O!Forgets, "port" \notin h,
           Good(f, h \cup {"port"}, t)
    PROVE  Good(f, h, O!i2c_open(next) \o t) /\ O!i2c_open(next) \in Seq(Steps)
<1> DEFINE a == [take |-> {"port"}, give |-> {}, undo |-> {}, next |-> next]
           b == [take |-> {}, give |-> {}, undo |-> {"port"}, next |-> next]
           g == h \cup {"port"}
<1>1. a \in Steps /\ b \in Steps /\ g \in SUBSET Things
  BY DEF Steps, Things
<1>2. After(h, a) = g /\ After(g, b) = g
  BY DEF After
<1>3. Middle(h, a)
  BY DEF Middle, Failing, Undone, Settled, O!Left
<1>4. Middle(g, b)
  BY DEF Middle, Failing, Undone, Settled, O!Left
<1>5. O!i2c_open(next) = <<a, b>>
  BY DEF O!i2c_open
<1>6. t \in Seq(Steps) /\ Good(f, g, t)
  BY DEF Good
<1> HIDE DEF a, b, g
<1>7. Good(f, g, <<b>> \o t)
  BY <1>1, <1>2, <1>4, <1>6, GoodFirst
<1>8. Good(f, h, <<a>> \o (<<b>> \o t))
  BY <1>1, <1>2, <1>3, <1>7, GoodFirst
<1>9. <<a, b>> \o t = <<a>> \o (<<b>> \o t) /\ <<a, b>> \in Seq(Steps)
  BY <1>1, <1>6, Cons2
<1> QED BY <1>5, <1>8, <1>9

LEMMA I2cScan ==
    ASSUME oDriver = "pn532_i2c"
    PROVE  Good("scan", {}, O!Scan)
<1> DEFINE s == O!Visit(O!Closed({"port"}))
           h == {} \cup {"port"}
           A == O!Allocate({"port"})
           I == O!i2c_open(TRUE)
<1>1. s \in Steps /\ h \in SUBSET Things /\ {} \in SUBSET Things /\ Settled(h, {"port"}) /\ "port" \in h
  BY DEF O!Visit, O!Closed, O!nfc_device_free, Steps, Things, Settled, O!Left
<1>2. Last("scan", h \cup O!nfc_device_free \cup {"chip_data"}, s)
  BY ForgetsAre DEF Last, Failing, Undone, Settled, O!Left, O!Visit, O!Closed, O!nfc_device_free, O!NeedNotHold
<1>3. O!Scan = I \o A \o <<s>>
  BY DEF O!Scan, O!pn532_i2c_scan
<1> HIDE DEF s, h
<1>4. Good("scan", h, A \o <<s>>) /\ A \in Seq(Steps) /\ <<s>> \in Seq(Steps)
  BY <1>1, <1>2, BusGood
<1> HIDE DEF A
<1>5. Good("scan", {}, I \o (A \o <<s>>)) /\ I \in Seq(Steps)
  BY <1>1, <1>4, I2cGood DEF h
<1> HIDE DEF I
<1>6. (I \o A) \o <<s>> = I \o (A \o <<s>>)
  BY <1>4, <1>5, ConcatAssociative
<1> QED BY <1>3, <1>5, <1>6, Zenon

LEMMA I2cOpen ==
    ASSUME oDriver = "pn532_i2c"
    PROVE  \A c \in O!Open : Good("open", {}, c)
<1> DEFINE n == O!Get("name", {})
           o == O!Ask(O!Closed({"port"}))
           g == {"name"}
           h == g \cup {"port"}
           A == O!Allocate({"port"})
           I == O!i2c_open(FALSE)
<1>1. n \in Steps /\ o \in Steps /\ {} \in SUBSET Things /\ g \in SUBSET Things /\ h \in SUBSET Things
  BY DEF O!Get, O!Ask, O!Closed, O!nfc_device_free, Steps, Things
<1>2. Settled(h, {"port"}) /\ "port" \in h /\ g \subseteq O!Forgets /\ "port" \notin g
  BY ForgetsAre DEF Settled, O!Left
<1>3. O!Close = O!Closed({"port"})
  BY DEF O!Close, O!pn532_i2c_close
<1>4. Last("open", h \cup O!nfc_device_free \cup {"chip_data"}, o)
  BY ForgetsAre, <1>3 DEF Last, Failing, Undone, Settled, O!Left, O!Ask, O!Closed, O!nfc_device_free, O!NeedNotHold
<1>5. Middle({}, n) /\ After({}, n) = g
  BY DEF Middle, Failing, Undone, Settled, O!Left, O!Get, After
<1>6. O!Open = {<<n>> \o I \o A \o <<o>>}
  BY DEF O!Open, O!pn532_i2c_open, O!pn532_i2c_close
<1> HIDE DEF n, o, g, h
<1>7. Good("open", h, A \o <<o>>) /\ A \in Seq(Steps) /\ <<o>> \in Seq(Steps)
  BY <1>1, <1>2, <1>4, BusGood
<1> HIDE DEF A
<1>8. Good("open", g, I \o (A \o <<o>>)) /\ I \in Seq(Steps)
  BY <1>1, <1>2, <1>7, I2cGood DEF h
<1> HIDE DEF I
<1>9. Good("open", {}, <<n>> \o (I \o (A \o <<o>>)))
  BY <1>1, <1>5, <1>8, GoodFirst
<1>10. <<n>> \in Seq(Steps)
  BY <1>1, One
<1>11. <<n>> \o I \in Seq(Steps) /\ A \o <<o>> \in Seq(Steps)
  BY <1>7, <1>8, <1>10, ConcatProperties
<1>12. ((<<n>> \o I) \o A) \o <<o>> = (<<n>> \o I) \o (A \o <<o>>)
  BY <1>7, <1>11, ConcatAssociative
<1>13. (<<n>> \o I) \o (A \o <<o>>) = <<n>> \o (I \o (A \o <<o>>))
  BY <1>8, <1>10, <1>11, ConcatAssociative
<1>14. Good("open", {}, ((<<n>> \o I) \o A) \o <<o>>)
  BY <1>9, <1>12, <1>13, Zenon
<1> QED BY <1>6, <1>14, Zenon

(* The USB drivers: a handle, an interface, a device. *)
LEMMA Pn53xUsbScan ==
    ASSUME oDriver = "pn53x_usb"
    PROVE  Good("scan", {}, O!Scan)
<1> DEFINE s1 == O!Try("handle", {})
           s2 == O!Visit({"handle"})
           h1 == {}
           h2 == {"handle"}
           t1 == <<s1, s2>>
           t2 == <<s2>>
<1>1. s1 \in Steps /\ s2 \in Steps
  BY DEF O!Get, O!Try, O!Ask, O!Give, O!Visit, O!nfc_device_free, Steps, Things
<1>2. h1 \in SUBSET Things /\ h2 \in SUBSET Things
  BY DEF Things, O!nfc_device_free
<1>3. After(h1, s1) = h2
  BY DEF After, O!Get, O!Try, O!Ask, O!Give, O!nfc_device_free
<1>4. Middle(h1, s1)
  BY ForgetsAre DEF Middle, Failing, Undone, Settled, O!Left, O!Get, O!Try, O!Ask, O!Give, O!nfc_device_free, O!NeedNotHold, O!Usb
<1>5. Last("scan", h2, s2)
  BY ForgetsAre DEF Last, Failing, Undone, Settled, O!Left, O!Ask, O!Give, O!Visit, O!Closed, O!nfc_device_free, O!NeedNotHold, O!Usb
<1>6. O!Scan = t1 /\ h1 = {}
  BY DEF O!Scan, O!pn53x_usb_scan
<1> HIDE DEF s1, h1, s2, h2
<1>7. Good("scan", h2, t2)
  BY <1>1, <1>2, <1>5, GoodLast
<1>8. t1 \in Seq(Steps) /\ t1 # <<>> /\ Head(t1) = s1 /\ Tail(t1) = t2
  BY <1>1
<1>9. Good("scan", h1, t1)
  <2> HIDE DEF t1, t2
  <2> QED BY <1>1, <1>2, <1>3, <1>4, <1>7, <1>8, GoodTail
<1> QED BY <1>6, <1>9

LEMMA Acr122UsbScan ==
    ASSUME oDriver = "acr122_usb"
    PROVE  Good("scan", {}, O!Scan)
<1> DEFINE s1 == O!Try("handle", {})
           s2 == O!Give({"handle"})
           h1 == {}
           h2 == {"handle"}
           t1 == <<s1, s2>>
           t2 == <<s2>>
<1>1. s1 \in Steps /\ s2 \in Steps
  BY DEF O!Get, O!Try, O!Ask, O!Give, O!Visit, O!nfc_device_free, Steps, Things
<1>2. h1 \in SUBSET Things /\ h2 \in SUBSET Things
  BY DEF Things, O!nfc_device_free
<1>3. After(h1, s1) = h2
  BY DEF After, O!Get, O!Try, O!Ask, O!Give, O!nfc_device_free
<1>4. Middle(h1, s1)
  BY ForgetsAre DEF Middle, Failing, Undone, Settled, O!Left, O!Get, O!Try, O!Ask, O!Give, O!nfc_device_free, O!NeedNotHold, O!Usb
<1>5. Last("scan", h2, s2)
  BY ForgetsAre DEF Last, Failing, Undone, Settled, O!Left, O!Ask, O!Give, O!Visit, O!Closed, O!nfc_device_free, O!NeedNotHold, O!Usb
<1>6. O!Scan = t1 /\ h1 = {}
  BY DEF O!Scan, O!acr122_usb_scan
<1> HIDE DEF s1, h1, s2, h2
<1>7. Good("scan", h2, t2)
  BY <1>1, <1>2, <1>5, GoodLast
<1>8. t1 \in Seq(Steps) /\ t1 # <<>> /\ Head(t1) = s1 /\ Tail(t1) = t2
  BY <1>1
<1>9. Good("scan", h1, t1)
  <2> HIDE DEF t1, t2
  <2> QED BY <1>1, <1>2, <1>3, <1>4, <1>7, <1>8, GoodTail
<1> QED BY <1>6, <1>9

(* Before each call h holds what the calls before it took: each of the     *)
(* failures gives back that, but for what Forgets lists.                   *)
LEMMA Pn53xUsbOpen ==
    ASSUME oDriver = "pn53x_usb"
    PROVE  \A c \in O!Open : Good("open", {}, c)
<1> DEFINE s1 == O!Try("handle", {})
           s2 == O!Ask({"handle"})
           s3 == O!Get("interface", {"handle"})
           s4 == O!Get("device", O!nfc_device_free)
           s5 == O!Get("driver_data", O!nfc_device_free)
           s6 == O!Get("chip_data", O!nfc_device_free)
           s7 == O!Ask({"handle"} \cup O!nfc_device_free)
           h1 == {}
           h2 == {"handle"}
           h3 == {"handle"}
           h4 == {"handle", "interface"}
           h5 == {"handle", "interface", "device"}
           h6 == {"handle", "interface"} \cup O!nfc_device_free
           h7 == {"handle", "interface", "chip_data"} \cup O!nfc_device_free
           t1 == <<s1, s2, s3, s4, s5, s6, s7>>
           t2 == <<s2, s3, s4, s5, s6, s7>>
           t3 == <<s3, s4, s5, s6, s7>>
           t4 == <<s4, s5, s6, s7>>
           t5 == <<s5, s6, s7>>
           t6 == <<s6, s7>>
           t7 == <<s7>>
<1>1. s1 \in Steps /\ s2 \in Steps /\ s3 \in Steps /\ s4 \in Steps /\ s5 \in Steps /\ s6 \in Steps /\ s7 \in Steps
  BY DEF O!Get, O!Try, O!Ask, O!Give, O!Visit, O!nfc_device_free, Steps, Things
<1>2. /\ h1 \in SUBSET Things /\ h2 \in SUBSET Things /\ h3 \in SUBSET Things /\ h4 \in SUBSET Things
      /\ h5 \in SUBSET Things /\ h6 \in SUBSET Things /\ h7 \in SUBSET Things
  BY DEF Things, O!nfc_device_free
<1>3. /\ After(h1, s1) = h2 /\ After(h2, s2) = h3 /\ After(h3, s3) = h4 /\ After(h4, s4) = h5
      /\ After(h5, s5) = h6 /\ After(h6, s6) = h7
  BY DEF After, O!Get, O!Try, O!Ask, O!Give, O!nfc_device_free
<1>4. Middle(h1, s1)
  BY ForgetsAre DEF Middle, Failing, Undone, Settled, O!Left, O!Get, O!Try, O!Ask, O!Give, O!nfc_device_free, O!NeedNotHold, O!Usb
<1>5. Middle(h2, s2)
  BY ForgetsAre DEF Middle, Failing, Undone, Settled, O!Left, O!Get, O!Try, O!Ask, O!Give, O!nfc_device_free, O!NeedNotHold, O!Usb
<1>6. Middle(h3, s3)
  BY ForgetsAre DEF Middle, Failing, Undone, Settled, O!Left, O!Get, O!Try, O!Ask, O!Give, O!nfc_device_free, O!NeedNotHold, O!Usb
<1>7. Middle(h4, s4)
  BY ForgetsAre DEF Middle, Failing, Undone, Settled, O!Left, O!Get, O!Try, O!Ask, O!Give, O!nfc_device_free, O!NeedNotHold, O!Usb
<1>8. Middle(h5, s5)
  BY ForgetsAre DEF Middle, Failing, Undone, Settled, O!Left, O!Get, O!Try, O!Ask, O!Give, O!nfc_device_free, O!NeedNotHold, O!Usb
<1>9. Middle(h6, s6)
  BY ForgetsAre DEF Middle, Failing, Undone, Settled, O!Left, O!Get, O!Try, O!Ask, O!Give, O!nfc_device_free, O!NeedNotHold, O!Usb
<1>10. O!Close = O!Closed({"handle", "interface"})
  BY DEF O!Close, O!pn53x_usb_close
<1>11. Last("open", h7, s7)
  BY ForgetsAre, <1>10 DEF Last, Failing, Undone, Settled, O!Left, O!Ask, O!Give, O!Visit, O!Closed, O!nfc_device_free, O!NeedNotHold, O!Usb
<1>12. O!Open = {t1} /\ h1 = {}
  BY DEF O!Open, O!pn53x_usb_open
<1> HIDE DEF s1, h1, s2, h2, s3, h3, s4, h4, s5, h5, s6, h6, s7, h7
<1>13. Good("open", h7, t7)
  BY <1>1, <1>2, <1>11, GoodLast
<1>14. t6 \in Seq(Steps) /\ t6 # <<>> /\ Head(t6) = s6 /\ Tail(t6) = t7
  BY <1>1
<1>15. Good("open", h6, t6)
  <2> HIDE DEF t6, t7
  <2> QED BY <1>1, <1>2, <1>3, <1>9, <1>13, <1>14, GoodTail
<1>16. t5 \in Seq(Steps) /\ t5 # <<>> /\ Head(t5) = s5 /\ Tail(t5) = t6
  BY <1>1
<1>17. Good("open", h5, t5)
  <2> HIDE DEF t5, t6, t7
  <2> QED BY <1>1, <1>2, <1>3, <1>8, <1>15, <1>16, GoodTail
<1>18. t4 \in Seq(Steps) /\ t4 # <<>> /\ Head(t4) = s4 /\ Tail(t4) = t5
  BY <1>1
<1>19. Good("open", h4, t4)
  <2> HIDE DEF t4, t5, t6, t7
  <2> QED BY <1>1, <1>2, <1>3, <1>7, <1>17, <1>18, GoodTail
<1>20. t3 \in Seq(Steps) /\ t3 # <<>> /\ Head(t3) = s3 /\ Tail(t3) = t4
  BY <1>1
<1>21. Good("open", h3, t3)
  <2> HIDE DEF t3, t4, t5, t6, t7
  <2> QED BY <1>1, <1>2, <1>3, <1>6, <1>19, <1>20, GoodTail
<1>22. t2 \in Seq(Steps) /\ t2 # <<>> /\ Head(t2) = s2 /\ Tail(t2) = t3
  BY <1>1
<1>23. Good("open", h2, t2)
  <2> HIDE DEF t2, t3, t4, t5, t6, t7
  <2> QED BY <1>1, <1>2, <1>3, <1>5, <1>21, <1>22, GoodTail
<1>24. t1 \in Seq(Steps) /\ t1 # <<>> /\ Head(t1) = s1 /\ Tail(t1) = t2
  BY <1>1
<1>25. Good("open", h1, t1)
  <2> HIDE DEF t1, t2, t3, t4, t5, t6, t7
  <2> QED BY <1>1, <1>2, <1>3, <1>4, <1>23, <1>24, GoodTail
<1> QED BY <1>12, <1>25

LEMMA Acr122UsbOpen ==
    ASSUME oDriver = "acr122_usb"
    PROVE  \A c \in O!Open : Good("open", {}, c)
<1> DEFINE s1 == O!Try("handle", {})
           s2 == O!Get("interface", {"handle"})
           s3 == O!Ask({"handle"})
           s4 == O!Get("device", O!nfc_device_free)
           s5 == O!Get("driver_data", O!nfc_device_free)
           s6 == O!Get("chip_data", O!nfc_device_free)
           s7 == O!Ask({"handle"} \cup O!nfc_device_free)
           h1 == {}
           h2 == {"handle"}
           h3 == {"handle", "interface"}
           h4 == {"handle", "interface"}
           h5 == {"handle", "interface", "device"}
           h6 == {"handle", "interface"} \cup O!nfc_device_free
           h7 == {"handle", "interface", "chip_data"} \cup O!nfc_device_free
           t1 == <<s1, s2, s3, s4, s5, s6, s7>>
           t2 == <<s2, s3, s4, s5, s6, s7>>
           t3 == <<s3, s4, s5, s6, s7>>
           t4 == <<s4, s5, s6, s7>>
           t5 == <<s5, s6, s7>>
           t6 == <<s6, s7>>
           t7 == <<s7>>
<1>1. s1 \in Steps /\ s2 \in Steps /\ s3 \in Steps /\ s4 \in Steps /\ s5 \in Steps /\ s6 \in Steps /\ s7 \in Steps
  BY DEF O!Get, O!Try, O!Ask, O!Give, O!Visit, O!nfc_device_free, Steps, Things
<1>2. /\ h1 \in SUBSET Things /\ h2 \in SUBSET Things /\ h3 \in SUBSET Things /\ h4 \in SUBSET Things
      /\ h5 \in SUBSET Things /\ h6 \in SUBSET Things /\ h7 \in SUBSET Things
  BY DEF Things, O!nfc_device_free
<1>3. /\ After(h1, s1) = h2 /\ After(h2, s2) = h3 /\ After(h3, s3) = h4 /\ After(h4, s4) = h5
      /\ After(h5, s5) = h6 /\ After(h6, s6) = h7
  BY DEF After, O!Get, O!Try, O!Ask, O!Give, O!nfc_device_free
<1>4. Middle(h1, s1)
  BY ForgetsAre DEF Middle, Failing, Undone, Settled, O!Left, O!Get, O!Try, O!Ask, O!Give, O!nfc_device_free, O!NeedNotHold, O!Usb
<1>5. Middle(h2, s2)
  BY ForgetsAre DEF Middle, Failing, Undone, Settled, O!Left, O!Get, O!Try, O!Ask, O!Give, O!nfc_device_free, O!NeedNotHold, O!Usb
<1>6. Middle(h3, s3)
  BY ForgetsAre DEF Middle, Failing, Undone, Settled, O!Left, O!Get, O!Try, O!Ask, O!Give, O!nfc_device_free, O!NeedNotHold, O!Usb
<1>7. Middle(h4, s4)
  BY ForgetsAre DEF Middle, Failing, Undone, Settled, O!Left, O!Get, O!Try, O!Ask, O!Give, O!nfc_device_free, O!NeedNotHold, O!Usb
<1>8. Middle(h5, s5)
  BY ForgetsAre DEF Middle, Failing, Undone, Settled, O!Left, O!Get, O!Try, O!Ask, O!Give, O!nfc_device_free, O!NeedNotHold, O!Usb
<1>9. Middle(h6, s6)
  BY ForgetsAre DEF Middle, Failing, Undone, Settled, O!Left, O!Get, O!Try, O!Ask, O!Give, O!nfc_device_free, O!NeedNotHold, O!Usb
<1>10. O!Close = O!Closed({"handle", "interface"})
  BY DEF O!Close, O!acr122_usb_close
<1>11. Last("open", h7, s7)
  BY ForgetsAre, <1>10 DEF Last, Failing, Undone, Settled, O!Left, O!Ask, O!Give, O!Visit, O!Closed, O!nfc_device_free, O!NeedNotHold, O!Usb
<1>12. O!Open = {t1} /\ h1 = {}
  BY DEF O!Open, O!acr122_usb_open
<1> HIDE DEF s1, h1, s2, h2, s3, h3, s4, h4, s5, h5, s6, h6, s7, h7
<1>13. Good("open", h7, t7)
  BY <1>1, <1>2, <1>11, GoodLast
<1>14. t6 \in Seq(Steps) /\ t6 # <<>> /\ Head(t6) = s6 /\ Tail(t6) = t7
  BY <1>1
<1>15. Good("open", h6, t6)
  <2> HIDE DEF t6, t7
  <2> QED BY <1>1, <1>2, <1>3, <1>9, <1>13, <1>14, GoodTail
<1>16. t5 \in Seq(Steps) /\ t5 # <<>> /\ Head(t5) = s5 /\ Tail(t5) = t6
  BY <1>1
<1>17. Good("open", h5, t5)
  <2> HIDE DEF t5, t6, t7
  <2> QED BY <1>1, <1>2, <1>3, <1>8, <1>15, <1>16, GoodTail
<1>18. t4 \in Seq(Steps) /\ t4 # <<>> /\ Head(t4) = s4 /\ Tail(t4) = t5
  BY <1>1
<1>19. Good("open", h4, t4)
  <2> HIDE DEF t4, t5, t6, t7
  <2> QED BY <1>1, <1>2, <1>3, <1>7, <1>17, <1>18, GoodTail
<1>20. t3 \in Seq(Steps) /\ t3 # <<>> /\ Head(t3) = s3 /\ Tail(t3) = t4
  BY <1>1
<1>21. Good("open", h3, t3)
  <2> HIDE DEF t3, t4, t5, t6, t7
  <2> QED BY <1>1, <1>2, <1>3, <1>6, <1>19, <1>20, GoodTail
<1>22. t2 \in Seq(Steps) /\ t2 # <<>> /\ Head(t2) = s2 /\ Tail(t2) = t3
  BY <1>1
<1>23. Good("open", h2, t2)
  <2> HIDE DEF t2, t3, t4, t5, t6, t7
  <2> QED BY <1>1, <1>2, <1>3, <1>5, <1>21, <1>22, GoodTail
<1>24. t1 \in Seq(Steps) /\ t1 # <<>> /\ Head(t1) = s1 /\ Tail(t1) = t2
  BY <1>1
<1>25. Good("open", h1, t1)
  <2> HIDE DEF t1, t2, t3, t4, t5, t6, t7
  <2> QED BY <1>1, <1>2, <1>3, <1>4, <1>23, <1>24, GoodTail
<1> QED BY <1>12, <1>25

(* PC/SC: the context is shared by all the devices of a program. *)
LEMMA PcscScan ==
    ASSUME oDriver = "acr122_pcsc"
    PROVE  Good("scan", {}, O!Scan)
<1> DEFINE s1 == O!Get("context", {})
           s2 == O!Ask({})
           s3 == O!Give({"context"})
           h1 == {}
           h2 == {"context"}
           h3 == {"context"}
           t1 == <<s1, s2, s3>>
           t2 == <<s2, s3>>
           t3 == <<s3>>
<1>1. s1 \in Steps /\ s2 \in Steps /\ s3 \in Steps
  BY DEF O!Get, O!Try, O!Ask, O!Give, O!Visit, O!nfc_device_free, Steps, Things
<1>2. h1 \in SUBSET Things /\ h2 \in SUBSET Things /\ h3 \in SUBSET Things
  BY DEF Things, O!nfc_device_free
<1>3. After(h1, s1) = h2 /\ After(h2, s2) = h3
  BY DEF After, O!Get, O!Try, O!Ask, O!Give, O!nfc_device_free
<1>4. Middle(h1, s1)
  BY ForgetsAre DEF Middle, Failing, Undone, Settled, O!Left, O!Get, O!Try, O!Ask, O!Give, O!nfc_device_free, O!NeedNotHold, O!Usb
<1>5. Middle(h2, s2)
  BY ForgetsAre DEF Middle, Failing, Undone, Settled, O!Left, O!Get, O!Try, O!Ask, O!Give, O!nfc_device_free, O!NeedNotHold, O!Usb
<1>6. Last("scan", h3, s3)
  BY ForgetsAre DEF Last, Failing, Undone, Settled, O!Left, O!Ask, O!Give, O!Visit, O!Closed, O!nfc_device_free, O!NeedNotHold, O!Usb
<1>7. O!Scan = t1 /\ h1 = {}
  BY DEF O!Scan, O!acr122_pcsc_scan
<1> HIDE DEF s1, h1, s2, h2, s3, h3
<1>8. Good("scan", h3, t3)
  BY <1>1, <1>2, <1>6, GoodLast
<1>9. t2 \in Seq(Steps) /\ t2 # <<>> /\ Head(t2) = s2 /\ Tail(t2) = t3
  BY <1>1
<1>10. Good("scan", h2, t2)
  <2> HIDE DEF t2, t3
  <2> QED BY <1>1, <1>2, <1>3, <1>5, <1>8, <1>9, GoodTail
<1>11. t1 \in Seq(Steps) /\ t1 # <<>> /\ Head(t1) = s1 /\ Tail(t1) = t2
  BY <1>1
<1>12. Good("scan", h1, t1)
  <2> HIDE DEF t1, t2, t3
  <2> QED BY <1>1, <1>2, <1>3, <1>4, <1>10, <1>11, GoodTail
<1> QED BY <1>7, <1>12

(* The open of a reader whose name is known; g is the number it was known by. *)
Named ==
    << O!Get("name", {}), O!Get("device", {"name"} \cup O!nfc_device_free),
       O!Get("driver_data", {"name"} \cup O!nfc_device_free), O!Get("chip_data", {"name"} \cup O!nfc_device_free),
       O!Get("context", {"name"} \cup O!nfc_device_free), O!Get("card", {"name"} \cup O!nfc_device_free),
       O!Ask({"name"} \cup O!nfc_device_free), O!Give({"name"}) >>

LEMMA NamedGood ==
    ASSUME oDriver = "acr122_pcsc", NEW g \in {{}, {"number"}}
    PROVE  Good("open", g, Named)
<1> DEFINE s1 == O!Get("name", {})
           s2 == O!Get("device", {"name"} \cup O!nfc_device_free)
           s3 == O!Get("driver_data", {"name"} \cup O!nfc_device_free)
           s4 == O!Get("chip_data", {"name"} \cup O!nfc_device_free)
           s5 == O!Get("context", {"name"} \cup O!nfc_device_free)
           s6 == O!Get("card", {"name"} \cup O!nfc_device_free)
           s7 == O!Ask({"name"} \cup O!nfc_device_free)
           s8 == O!Give({"name"})
           h1 == g
           h2 == g \cup {"name"}
           h3 == g \cup {"name", "device"}
           h4 == g \cup {"name"} \cup O!nfc_device_free
           h5 == g \cup {"name"} \cup O!nfc_device_free \cup {"chip_data"}
           h6 == g \cup {"name"} \cup O!nfc_device_free \cup {"chip_data", "context"}
           h7 == g \cup {"name"} \cup O!nfc_device_free \cup {"chip_data", "context", "card"}
           h8 == g \cup {"name"} \cup O!nfc_device_free \cup {"chip_data", "context", "card"}
           t1 == <<s1, s2, s3, s4, s5, s6, s7, s8>>
           t2 == <<s2, s3, s4, s5, s6, s7, s8>>
           t3 == <<s3, s4, s5, s6, s7, s8>>
           t4 == <<s4, s5, s6, s7, s8>>
           t5 == <<s5, s6, s7, s8>>
           t6 == <<s6, s7, s8>>
           t7 == <<s7, s8>>
           t8 == <<s8>>
<1>1. s1 \in Steps /\ s2 \in Steps /\ s3 \in Steps /\ s4 \in Steps /\ s5 \in Steps /\ s6 \in Steps /\ s7 \in Steps /\ s8 \in Steps
  BY DEF O!Get, O!Try, O!Ask, O!Give, O!Visit, O!nfc_device_free, Steps, Things
<1>2. /\ h1 \in SUBSET Things /\ h2 \in SUBSET Things /\ h3 \in SUBSET Things /\ h4 \in SUBSET Things
      /\ h5 \in SUBSET Things /\ h6 \in SUBSET Things /\ h7 \in SUBSET Things /\ h8 \in SUBSET Things
  BY DEF Things, O!nfc_device_free
<1>3. /\ After(h1, s1) = h2 /\ After(h2, s2) = h3 /\ After(h3, s3) = h4 /\ After(h4, s4) = h5
      /\ After(h5, s5) = h6 /\ After(h6, s6) = h7 /\ After(h7, s7) = h8
  BY DEF After, O!Get, O!Try, O!Ask, O!Give, O!nfc_device_free
<1>4. Middle(h1, s1)
  BY ForgetsAre DEF Middle, Failing, Undone, Settled, O!Left, O!Get, O!Try, O!Ask, O!Give, O!nfc_device_free, O!NeedNotHold, O!Usb
<1>5. Middle(h2, s2)
  BY ForgetsAre DEF Middle, Failing, Undone, Settled, O!Left, O!Get, O!Try, O!Ask, O!Give, O!nfc_device_free, O!NeedNotHold, O!Usb
<1>6. Middle(h3, s3)
  BY ForgetsAre DEF Middle, Failing, Undone, Settled, O!Left, O!Get, O!Try, O!Ask, O!Give, O!nfc_device_free, O!NeedNotHold, O!Usb
<1>7. Middle(h4, s4)
  BY ForgetsAre DEF Middle, Failing, Undone, Settled, O!Left, O!Get, O!Try, O!Ask, O!Give, O!nfc_device_free, O!NeedNotHold, O!Usb
<1>8. Middle(h5, s5)
  BY ForgetsAre DEF Middle, Failing, Undone, Settled, O!Left, O!Get, O!Try, O!Ask, O!Give, O!nfc_device_free, O!NeedNotHold, O!Usb
<1>9. Middle(h6, s6)
  BY ForgetsAre DEF Middle, Failing, Undone, Settled, O!Left, O!Get, O!Try, O!Ask, O!Give, O!nfc_device_free, O!NeedNotHold, O!Usb
<1>10. Middle(h7, s7)
  BY ForgetsAre DEF Middle, Failing, Undone, Settled, O!Left, O!Get, O!Try, O!Ask, O!Give, O!nfc_device_free, O!NeedNotHold, O!Usb
<1>11. O!Close = O!Closed({"card", "context"})
  BY DEF O!Close, O!acr122_pcsc_close
<1>12. Last("open", h8, s8)
  BY ForgetsAre, <1>11 DEF Last, Failing, Undone, Settled, O!Left, O!Ask, O!Give, O!Visit, O!Closed, O!nfc_device_free, O!NeedNotHold, O!Usb
<1>13. Named = t1 /\ h1 = g
  BY DEF Named
<1> HIDE DEF s1, h1, s2, h2, s3, h3, s4, h4, s5, h5, s6, h6, s7, h7, s8, h8
<1>14. Good("open", h8, t8)
  BY <1>1, <1>2, <1>12, GoodLast
<1>15. t7 \in Seq(Steps) /\ t7 # <<>> /\ Head(t7) = s7 /\ Tail(t7) = t8
  BY <1>1
<1>16. Good("open", h7, t7)
  <2> HIDE DEF t7, t8
  <2> QED BY <1>1, <1>2, <1>3, <1>10, <1>14, <1>15, GoodTail
<1>17. t6 \in Seq(Steps) /\ t6 # <<>> /\ Head(t6) = s6 /\ Tail(t6) = t7
  BY <1>1
<1>18. Good("open", h6, t6)
  <2> HIDE DEF t6, t7, t8
  <2> QED BY <1>1, <1>2, <1>3, <1>9, <1>16, <1>17, GoodTail
<1>19. t5 \in Seq(Steps) /\ t5 # <<>> /\ Head(t5) = s5 /\ Tail(t5) = t6
  BY <1>1
<1>20. Good("open", h5, t5)
  <2> HIDE DEF t5, t6, t7, t8
  <2> QED BY <1>1, <1>2, <1>3, <1>8, <1>18, <1>19, GoodTail
<1>21. t4 \in Seq(Steps) /\ t4 # <<>> /\ Head(t4) = s4 /\ Tail(t4) = t5
  BY <1>1
<1>22. Good("open", h4, t4)
  <2> HIDE DEF t4, t5, t6, t7, t8
  <2> QED BY <1>1, <1>2, <1>3, <1>7, <1>20, <1>21, GoodTail
<1>23. t3 \in Seq(Steps) /\ t3 # <<>> /\ Head(t3) = s3 /\ Tail(t3) = t4
  BY <1>1
<1>24. Good("open", h3, t3)
  <2> HIDE DEF t3, t4, t5, t6, t7, t8
  <2> QED BY <1>1, <1>2, <1>3, <1>6, <1>22, <1>23, GoodTail
<1>25. t2 \in Seq(Steps) /\ t2 # <<>> /\ Head(t2) = s2 /\ Tail(t2) = t3
  BY <1>1
<1>26. Good("open", h2, t2)
  <2> HIDE DEF t2, t3, t4, t5, t6, t7, t8
  <2> QED BY <1>1, <1>2, <1>3, <1>5, <1>24, <1>25, GoodTail
<1>27. t1 \in Seq(Steps) /\ t1 # <<>> /\ Head(t1) = s1 /\ Tail(t1) = t2
  BY <1>1
<1>28. Good("open", h1, t1)
  <2> HIDE DEF t1, t2, t3, t4, t5, t6, t7, t8
  <2> QED BY <1>1, <1>2, <1>3, <1>4, <1>26, <1>27, GoodTail
<1> QED BY <1>13, <1>28

LEMMA NamedType == Named \in Seq(Steps) /\ Named # <<>>
<1>1. /\ O!Get("name", {}) \in Steps /\ O!Get("device", {"name"} \cup O!nfc_device_free) \in Steps
      /\ O!Get("driver_data", {"name"} \cup O!nfc_device_free) \in Steps /\ O!Get("chip_data", {"name"} \cup O!nfc_device_free) \in Steps
      /\ O!Get("context", {"name"} \cup O!nfc_device_free) \in Steps /\ O!Get("card", {"name"} \cup O!nfc_device_free) \in Steps
      /\ O!Ask({"name"} \cup O!nfc_device_free) \in Steps /\ O!Give({"name"}) \in Steps
  BY DEF O!Get, O!Ask, O!Give, O!nfc_device_free, Steps, Things
<1> QED BY <1>1 DEF Named

LEMMA Cons4 ==
    ASSUME NEW a \in Steps, NEW b \in Steps, NEW c \in Steps, NEW d \in Steps, NEW t \in Seq(Steps)
    PROVE  Chain4(a, b, c, d, t)
<1> DEFINE q == <<a, b, c, d>>
           u == <<a, b, c>>
           v == <<d>>
           k == v \o t
<1>1. q \in Seq(Steps) /\ Len(q) = 4 /\ q[1] = a /\ q[2] = b /\ q[3] = c /\ q[4] = d
  OBVIOUS
<1>2. u \in Seq(Steps) /\ Len(u) = 3 /\ u[1] = a /\ u[2] = b /\ u[3] = c
  OBVIOUS
<1>3. v \in Seq(Steps) /\ Len(v) = 1 /\ v[1] = d
  OBVIOUS
<1> HIDE DEF q, u, v
<1>4. u \o v = q
  <2> DEFINE p == u \o v
  <2>0. /\ p \in Seq(Steps) /\ Len(p) = Len(u) + Len(v)
        /\ \A i \in 1..Len(u) + Len(v) : p[i] = IF i <= Len(u) THEN u[i] ELSE v[i - Len(u)]
    BY <1>2, <1>3, ConcatProperties
  <2> HIDE DEF p
  <2>1. p \in Seq(Steps) /\ Len(p) = 3 + 1 /\ \A i \in 1..3 + 1 : p[i] = IF i <= 3 THEN u[i] ELSE v[i - 3]
    BY <2>0, <1>2, <1>3
  <2>2. p[1] = u[1] /\ p[2] = u[2] /\ p[3] = u[3] /\ p[4] = v[1] /\ Len(p) = 4
    BY <2>1
  <2>3. \A i \in 1..Len(p) : p[i] = q[i]
    BY <1>1, <1>2, <1>3, <2>2
  <2>4. p = q
    BY <1>1, <2>1, <2>2, <2>3, SeqEqual
  <2> QED BY <2>4 DEF p
<1>5. (u \o v) \o t = u \o (v \o t)
  BY <1>2, <1>3, ConcatAssociative
<1>6. k \in Seq(Steps)
  BY <1>3, ConcatProperties
<1>7. q \o t = u \o k
  BY <1>4, <1>5, Zenon
<1> HIDE DEF k
<1>8. <<a, b, c>> \o k = <<a>> \o (<<b>> \o (<<c>> \o k))
  <2>1. Chain3(a, b, c, k)
    BY <1>6, Cons3
  <2> QED BY <2>1, Zenon DEF Chain3
<1>9. u \o k = <<a>> \o (<<b>> \o (<<c>> \o k))
  BY <1>8 DEF u
<1>10. q \o t = <<a>> \o (<<b>> \o (<<c>> \o k))
  BY <1>7, <1>9, Zenon
<1>11. k = <<d>> \o t
  BY DEF k, v
<1>12. q \o t = <<a, b, c, d>> \o t
  BY DEF q
<1> QED BY <1>10, <1>11, <1>12, Zenon DEF Chain4

(* A reader may be asked for as the first one there is, or by its number,  *)
(* before its name is known.                                               *)
LEMMA PcscFirst ==
    ASSUME oDriver = "acr122_pcsc"
    PROVE  Good("open", {}, O!acr122_pcsc_scan \o Named)
<1> DEFINE a == O!Get("context", {})
           b == O!Ask({})
           c == O!Give({"context"})
           h == {"context"}
<1>1. a \in Steps /\ b \in Steps /\ c \in Steps /\ h \in SUBSET Things /\ {} \in SUBSET Things
  BY DEF O!Get, O!Ask, O!Give, Steps, Things
<1>2. After({}, a) = h /\ After(h, b) = h /\ After(h, c) = {}
  BY DEF After, O!Get, O!Ask, O!Give
<1>3. Middle({}, a)
  BY DEF Middle, Failing, Undone, Settled, O!Left, O!Get
<1>4. Middle(h, b)
  BY ForgetsAre DEF Middle, Failing, Undone, Settled, O!Left, O!Ask
<1>5. Middle(h, c)
  BY DEF Middle, Failing, Undone, Settled, O!Left, O!Give
<1>6. O!acr122_pcsc_scan = <<a, b, c>>
  BY DEF O!acr122_pcsc_scan
<1> HIDE DEF a, b, c, h
<1>7. Good("open", {}, Named)
  BY NamedGood
<1>8. Good("open", h, <<c>> \o Named)
  BY <1>1, <1>2, <1>5, <1>7, GoodFirst
<1>9. Good("open", h, <<b>> \o (<<c>> \o Named))
  BY <1>1, <1>2, <1>4, <1>8, GoodFirst
<1>10. Good("open", {}, <<a>> \o (<<b>> \o (<<c>> \o Named)))
  BY <1>1, <1>2, <1>3, <1>9, GoodFirst
<1>11. <<a, b, c>> \o Named = <<a>> \o (<<b>> \o (<<c>> \o Named))
  <2> DEFINE k == Named
  <2>1. k \in Seq(Steps)
    BY NamedType
  <2> HIDE DEF k
  <2>2. <<a, b, c>> \o k = <<a>> \o (<<b>> \o (<<c>> \o k))
    <3>1. Chain3(a, b, c, k)
      BY <1>1, <2>1, Cons3
    <3> QED BY <3>1, Zenon DEF Chain3
  <2> QED BY <2>2 DEF k
<1> QED BY <1>6, <1>10, <1>11, Zenon

LEMMA PcscNumber ==
    ASSUME oDriver = "acr122_pcsc"
    PROVE  Good("open", {}, << O!Get("number", {}), O!Get("context", {"number"}), O!Ask({"number"}), O!Give({"context"}) >> \o Named)
<1> DEFINE a == O!Get("number", {})
           b == O!Get("context", {"number"})
           c == O!Ask({"number"})
           d == O!Give({"context"})
           g == {"number"}
           h == {"number", "context"}
<1>1. /\ a \in Steps /\ b \in Steps /\ c \in Steps /\ d \in Steps
      /\ g \in SUBSET Things /\ h \in SUBSET Things /\ {} \in SUBSET Things
  BY DEF O!Get, O!Ask, O!Give, Steps, Things
<1>2. After({}, a) = g /\ After(g, b) = h /\ After(h, c) = h /\ After(h, d) = g
  BY DEF After, O!Get, O!Ask, O!Give
<1>3. Middle({}, a)
  BY DEF Middle, Failing, Undone, Settled, O!Left, O!Get
<1>4. Middle(g, b)
  BY ForgetsAre DEF Middle, Failing, Undone, Settled, O!Left, O!Get
<1>5. Middle(h, c)
  BY ForgetsAre DEF Middle, Failing, Undone, Settled, O!Left, O!Ask
<1>6. Middle(h, d)
  BY DEF Middle, Failing, Undone, Settled, O!Left, O!Give
<1>7. Good("open", g, Named)
  BY NamedGood
<1> HIDE DEF a, b, c, d, g, h
<1>8. Good("open", h, <<d>> \o Named)
  BY <1>1, <1>2, <1>6, <1>7, GoodFirst
<1>9. Good("open", h, <<c>> \o (<<d>> \o Named))
  BY <1>1, <1>2, <1>5, <1>8, GoodFirst
<1>10. Good("open", g, <<b>> \o (<<c>> \o (<<d>> \o Named)))
  BY <1>1, <1>2, <1>4, <1>9, GoodFirst
<1>11. Good("open", {}, <<a>> \o (<<b>> \o (<<c>> \o (<<d>> \o Named))))
  BY <1>1, <1>2, <1>3, <1>10, GoodFirst
<1>12. <<a, b, c, d>> \o Named = <<a>> \o (<<b>> \o (<<c>> \o (<<d>> \o Named)))
  <2> DEFINE k == Named
  <2>1. k \in Seq(Steps)
    BY NamedType
  <2> HIDE DEF k
  <2>2. <<a, b, c, d>> \o k = <<a>> \o (<<b>> \o (<<c>> \o (<<d>> \o k)))
    <3>1. Chain4(a, b, c, d, k)
      BY <1>1, <2>1, Cons4
    <3> QED BY <3>1, Zenon DEF Chain4
  <2> QED BY <2>2 DEF k
<1>15. Good("open", {}, <<a, b, c, d>> \o Named)
  BY <1>11, <1>12, Zenon
<1> QED BY <1>15 DEF a, b, c, d

LEMMA PcscOpen ==
    ASSUME oDriver = "acr122_pcsc"
    PROVE  \A c \in O!Open : Good("open", {}, c)
<1> DEFINE D == << O!Get("number", {}), O!Get("context", {"number"}), O!Ask({"number"}), O!Give({"context"}) >>
<1>1. /\ O!acr122_pcsc_open("name") = <<>> \o Named
      /\ O!acr122_pcsc_open("first") = O!acr122_pcsc_scan \o Named
      /\ O!acr122_pcsc_open("number") = D \o Named
  BY DEF O!acr122_pcsc_open, Named
<1>2. <<>> \o Named = Named
  BY NamedType, ConcatEmptySeq
<1>3. O!Open = {O!acr122_pcsc_open(by) : by \in {"name", "first", "number"}}
  BY DEF O!Open
<1>4. Good("open", {}, D \o Named)
  BY PcscNumber
<1>5. Good("open", {}, Named) /\ Good("open", {}, O!acr122_pcsc_scan \o Named)
  BY NamedGood, PcscFirst
<1> HIDE DEF D
<1> QED BY <1>1, <1>2, <1>3, <1>4, <1>5

(* What a scan and an open do can be done, whatever fails. *)
LEMMA FunctionsGood ==
    ASSUME oDriver \in Openable
    PROVE  Good("scan", {}, O!Scan) /\ \A c \in O!Open : Good("open", {}, c)
BY OpenableAssumption, UartScan, UartOpen, Acr122s, Spi, I2cScan, I2cOpen, Pn53xUsbScan, Pn53xUsbOpen,
   Acr122UsbScan, Acr122UsbOpen, PcscScan, PcscOpen

-----------------------------------------------------------------------------
(* The invariant of the programs. *)
Device == [port : 1..Ports, call : Nat, has : SUBSET Things]
Places == [port : 1..Ports, what : Things]

OpenType ==
    /\ oDriver \in Openable
    /\ todo \in [Programs -> Seq(Steps)] /\ fn \in [Programs -> {"none", "scan", "open"}]
    /\ port \in [Programs -> Nat] /\ mine \in [Programs -> SUBSET Things]
    /\ devices \in [Programs -> SUBSET Device] /\ lost \in [Programs -> SUBSET Places]
    /\ refs \in [Programs -> Nat] /\ claimed \subseteq 1..Ports /\ attempts \in Nat

(* A function under way is at a port, and can go on from what it holds. *)
Ready(p) == Good(fn[p], mine[p], todo[p])
Underway(p) == IF fn[p] = "none" THEN mine[p] = {} ELSE port[p] \in 1..Ports /\ Ready(p)

Closable(d) == Settled(d.has, O!Close)

(* A device can be closed, and is older than the function under way. *)
DevicesSettled(p) ==
    /\ IsFiniteSet(devices[p])
    /\ \A d \in devices[p] : Closable(d) /\ d.call <= attempts
    /\ fn[p] # "none" => \A d \in devices[p] : d.call < attempts

(* The devices that use the PC/SC context, and the function that does. *)
Using(p) == {d \in devices[p] : "context" \in d.has}
InHand(p) == IF "context" \in mine[p] THEN 1 ELSE 0
What(places) == {l.what : l \in places}
Forgotten(p) == What(lost[p])

Counted(p) ==
    /\ Forgotten(p) \subseteq O!Forgets
    /\ IF "context" \in Forgotten(p) THEN refs[p] > Cardinality(Using(p)) + InHand(p)
       ELSE refs[p] = Cardinality(Using(p)) + InHand(p)

(* The inductive invariant. *)
OpenInv ==
    /\ OpenType /\ twice = FALSE
    /\ \A p \in Programs : Underway(p) /\ DevicesSettled(p) /\ Counted(p)

-----------------------------------------------------------------------------
(* What is lost by a step. *)
LEMMA WhatLost == ASSUME NEW places, NEW i, NEW S PROVE What(places \cup O!Lost(i, S)) = What(places) \cup S
<1>1. ASSUME NEW l \in O!Lost(i, S) PROVE l.what \in S
  <2>1. PICK x \in S : l = [port |-> i, what |-> x]
    BY DEF O!Lost
  <2> QED BY <2>1
<1>2. ASSUME NEW x \in S PROVE \E l \in O!Lost(i, S) : x = l.what
  <2>1. [port |-> i, what |-> x] \in O!Lost(i, S)
    BY DEF O!Lost
  <2>2. [port |-> i, what |-> x].what = x
    OBVIOUS
  <2> QED BY <2>1, <2>2, Zenon
<1>3. {l.what : l \in O!Lost(i, S)} = S
  BY <1>1, <1>2
<1> QED BY <1>3 DEF What

(* What a close gives back an error path might. *)
LEMMA SettledUndone == ASSUME NEW h, NEW r, Settled(h, r) PROVE Undone(h, r)
BY DEF Settled, Undone, O!NeedNotHold, O!nfc_device_free

(* What a program gives back is what it held, once; the rest is lost. *)
LEMMA ReleaseFacts ==
    ASSUME OpenType, twice = FALSE, NEW p \in Programs, NEW i \in 1..Ports, NEW held \in SUBSET Things, NEW r \in SUBSET Things,
           Undone(held, r), O!Release(p, i, held, r)
    PROVE  /\ twice' = FALSE
           /\ claimed' \subseteq 1..Ports
           /\ lost' \in [Programs -> SUBSET Places]
           /\ \A q \in Programs : q # p => lost'[q] = lost[q] /\ refs'[q] = refs[q]
           /\ lost'[p] = lost[p] \cup O!Lost(i, O!Left(held, r))
           /\ O!Left(held, r) \subseteq O!Forgets
<1>1. twice' = FALSE
  BY DEF O!Release, Undone
<1>2. claimed' = claimed \/ claimed' = claimed \ {i}
  BY DEF O!Release, O!Restore
<1>3. claimed' \subseteq 1..Ports
  BY <1>2 DEF OpenType
<1>4. O!Left(held, r) \subseteq Things /\ O!Left(held, r) \subseteq O!Forgets
  BY DEF O!Left, Undone
<1>5. O!Lost(i, O!Left(held, r)) \subseteq Places
  BY <1>4 DEF O!Lost, Places
<1>6. lost' = [lost EXCEPT ![p] = @ \cup O!Lost(i, O!Left(held, r))]
  BY DEF O!Release
<1>7. lost' \in [Programs -> SUBSET Places] /\ lost'[p] = lost[p] \cup O!Lost(i, O!Left(held, r))
      /\ \A q \in Programs : q # p => lost'[q] = lost[q]
  BY <1>5, <1>6 DEF OpenType
<1>8. \A q \in Programs : q # p => refs'[q] = refs[q]
  BY DEF O!Release, OpenType
<1> QED BY <1>1, <1>2, <1>3, <1>4, <1>7, <1>8

(* None of this changes with the variables: the driver stays what it is. *)
LEMMA SameForgets == ASSUME oDriver' = oDriver PROVE O!Forgets' = O!Forgets /\ O!Close' = O!Close /\ O!Scan' = O!Scan /\ O!Open' = O!Open
BY DEF O!Forgets, O!Close, O!Scan, O!Open

LEMMA StillReady ==
    ASSUME oDriver' = oDriver, NEW p \in Programs, NEW f, NEW h, NEW c, fn'[p] = f, mine'[p] = h, todo'[p] = c,
           Good(f, h, c)
    PROVE  Ready(p)'
<1>1. O!Forgets' = O!Forgets /\ O!Close' = O!Close
  BY SameForgets
<1>2. PICK at \in [1..Len(c) -> SUBSET Things] :
        /\ at[1] = h
        /\ \A n \in 1..Len(c) - 1 : Middle(at[n], c[n]) /\ at[n + 1] = After(at[n], c[n])
        /\ Last(f, at[Len(c)], c[Len(c)])
  BY Zenon DEF Good, Sound
<1>3. \A x, r : Settled(x, r) => Settled(x, r)'
  BY <1>1, Zenon DEF Settled
<1>4. \A x, s : Failing(x, s) => Failing(x, s)'
  <2>1. \A x, r : Undone(x, r) => Undone(x, r)'
    BY <1>1, Zenon DEF Undone
  <2> QED BY <2>1, Zenon DEF Failing
<1>5. \A x, s : Middle(x, s) => Middle(x, s)'
  BY <1>4, Zenon DEF Middle
<1>6. \A x, s : Last(f, x, s) => Last(f, x, s)'
  <2>1. \A x : Settled(x, O!Close) => Settled(x, O!Close)'
    BY <1>1, Zenon DEF Settled
  <2> QED
    BY <1>3, <1>4, <2>1, Zenon DEF Last
<1>7. Sound(fn[p], mine[p], todo[p])'
  <2>1. /\ at[1] = h
        /\ \A n \in 1..Len(c) - 1 : Middle(at[n], c[n])' /\ at[n + 1] = After(at[n], c[n])
        /\ Last(f, at[Len(c)], c[Len(c)])'
    BY <1>2, <1>5, <1>6, Zenon
  <2> QED
    BY <2>1, Zenon DEF Sound
<1> QED
  BY <1>7, Zenon DEF Ready, Good

LEMMA StillClosable ==
    ASSUME oDriver' = oDriver, NEW d, Settled(d.has, O!Close)
    PROVE  Closable(d)'
<1>1. O!Forgets' = O!Forgets /\ O!Close' = O!Close
  BY SameForgets
<1> QED BY <1>1, Zenon DEF Closable, Settled

LEMMA StillCounted ==
    ASSUME oDriver' = oDriver, NEW p \in Programs,
           Forgotten(p)' \subseteq O!Forgets,
           IF "context" \in Forgotten(p)' THEN refs'[p] > Cardinality(Using(p)') + InHand(p)'
           ELSE refs'[p] = Cardinality(Using(p)') + InHand(p)'
    PROVE  Counted(p)'
<1>1. O!Forgets' = O!Forgets
  BY SameForgets
<1> QED BY <1>1, Zenon DEF Counted

(* The programs that make no step stay as they are. *)
Aside(q) ==
    /\ fn'[q] = fn[q] /\ todo'[q] = todo[q] /\ port'[q] = port[q] /\ mine'[q] = mine[q]
    /\ devices'[q] = devices[q] /\ lost'[q] = lost[q] /\ refs'[q] = refs[q]

LEMMA Others ==
    ASSUME oDriver' = oDriver, attempts \in Nat, attempts' \in Nat, attempts' >= attempts,
           NEW q \in Programs, Aside(q), devices \in [Programs -> SUBSET Device],
           Underway(q), DevicesSettled(q), Counted(q)
    PROVE  Underway(q)' /\ DevicesSettled(q)' /\ Counted(q)'
<1>1. Underway(q)'
  <2>1. CASE fn[q] = "none"
    BY <2>1 DEF Underway, Aside
  <2>2. CASE fn[q] # "none"
    <3>1. port[q] \in 1..Ports /\ Good(fn[q], mine[q], todo[q])
      BY <2>2 DEF Underway, Ready
    <3>2. Ready(q)'
      BY <3>1, StillReady DEF Aside
    <3> QED BY <2>2, <3>1, <3>2 DEF Underway, Aside
  <2> QED BY <2>1, <2>2
<1>2. DevicesSettled(q)'
  <2>1. \A d \in devices[q] : Closable(d)'
    BY StillClosable DEF DevicesSettled, Closable
  <2>2. \A d \in devices[q] : d.call \in Nat
    BY DEF Device
  <2>3. IsFiniteSet(devices'[q])
    BY DEF Aside, DevicesSettled
  <2>4. \A d \in devices'[q] : d.call <= attempts'
    BY <2>2 DEF Aside, DevicesSettled
  <2>5. fn'[q] # "none" => \A d \in devices'[q] : d.call < attempts'
    BY <2>2 DEF Aside, DevicesSettled
  <2>6. \A d \in devices'[q] : Closable(d)'
    BY <2>1 DEF Aside
  <2> QED BY <2>3, <2>4, <2>5, <2>6, Zenon DEF DevicesSettled
<1>3. Counted(q)'
  <2>1. Forgotten(q)' = Forgotten(q) /\ Using(q)' = Using(q) /\ InHand(q)' = InHand(q) /\ refs'[q] = refs[q]
    BY DEF Forgotten, Using, InHand, Aside
  <2> QED BY <2>1, StillCounted, Zenon DEF Counted
<1> QED BY <1>1, <1>2, <1>3

(* A step of p keeps the invariant if it keeps what it says of p. *)
LEMMA Combine ==
    ASSUME OpenInv, oDriver' = oDriver, OpenType', twice' = FALSE, attempts' >= attempts, NEW p \in Programs,
           \A q \in Programs : q # p => Aside(q),
           Underway(p)', DevicesSettled(p)', Counted(p)'
    PROVE  OpenInv'
<1>1. attempts \in Nat /\ attempts' \in Nat /\ devices \in [Programs -> SUBSET Device]
  BY DEF OpenInv, OpenType
<1>2. \A q \in Programs : q # p => Underway(q)' /\ DevicesSettled(q)' /\ Counted(q)'
  BY <1>1, Others DEF OpenInv
<1> QED BY <1>2, Zenon DEF OpenInv

Users(D) == {e \in D : "context" \in e.has}

(* One device more, or less, that may use the context. *)
LEMMA UsersMore ==
    ASSUME NEW D, IsFiniteSet(D), NEW d, d \notin D
    PROVE  /\ IsFiniteSet(D \cup {d}) /\ Cardinality(Users(D)) \in Nat
           /\ Cardinality(Users(D \cup {d})) = Cardinality(Users(D)) + (IF "context" \in d.has THEN 1 ELSE 0)
<1>1. IsFiniteSet(D \cup {d})
  BY FS_AddElement
<1>2. Users(D) \subseteq D
  BY DEF Users
<1>3. IsFiniteSet(Users(D)) /\ Cardinality(Users(D)) \in Nat
  BY <1>2, FS_Subset, FS_CardinalityType
<1>4. CASE "context" \in d.has
  <2>1. Users(D \cup {d}) = Users(D) \cup {d}
    BY <1>4 DEF Users
  <2>2. d \notin Users(D)
    BY DEF Users
  <2>3. Cardinality(Users(D) \cup {d}) = Cardinality(Users(D)) + 1
    BY <1>3, <2>2, FS_AddElement
  <2> QED BY <1>1, <1>3, <1>4, <2>1, <2>3
<1>5. CASE "context" \notin d.has
  <2>1. Users(D \cup {d}) = Users(D)
    BY <1>5 DEF Users
  <2> QED BY <1>1, <1>3, <1>5, <2>1
<1> QED BY <1>4, <1>5

LEMMA UsersLess ==
    ASSUME NEW D, IsFiniteSet(D), NEW d \in D
    PROVE  /\ IsFiniteSet(D \ {d}) /\ Cardinality(Users(D \ {d})) \in Nat
           /\ Cardinality(Users(D)) = Cardinality(Users(D \ {d})) + (IF "context" \in d.has THEN 1 ELSE 0)
<1>1. IsFiniteSet(D \ {d}) /\ d \notin D \ {d} /\ (D \ {d}) \cup {d} = D
  <2>1. D \ {d} \subseteq D
    OBVIOUS
  <2>2. IsFiniteSet(D \ {d})
    BY <2>1, FS_Subset
  <2> QED BY <2>2
<1>2. /\ Cardinality(Users(D \ {d})) \in Nat
      /\ Cardinality(Users((D \ {d}) \cup {d})) = Cardinality(Users(D \ {d})) + (IF "context" \in d.has THEN 1 ELSE 0)
  BY <1>1, UsersMore, Zenon
<1> QED BY <1>1, <1>2, Zenon

(* The PC/SC context is counted as often as it is used. *)
LEMMA ReleaseCounts ==
    ASSUME OpenInv, NEW p \in Programs, NEW i, NEW held \in SUBSET Things, NEW r \in SUBSET Things, NEW n \in Nat,
           Undone(held, r), O!Release(p, i, held, r),
           Cardinality(Using(p)) + InHand(p) = n + (IF "context" \in held THEN 1 ELSE 0)
    PROVE  /\ refs' \in [Programs -> Nat]
           /\ IF "context" \in Forgotten(p) \cup O!Left(held, r) THEN refs'[p] > n ELSE refs'[p] = n
<1>1. refs \in [Programs -> Nat] /\ refs[p] \in Nat
  BY DEF OpenInv, OpenType
<1>2. refs' = IF "context" \in r /\ refs[p] > 0 THEN [refs EXCEPT ![p] = refs[p] - 1] ELSE refs
  BY DEF O!Release
<1> DEFINE k == n + (IF "context" \in held THEN 1 ELSE 0)
<1>3. IF "context" \in Forgotten(p) THEN refs[p] > k ELSE refs[p] = k
  BY DEF OpenInv, Counted
<1>4. "context" \in r => "context" \in held
  BY DEF Undone, O!NeedNotHold, O!nfc_device_free
<1>5. "context" \in O!Left(held, r) <=> "context" \in held /\ "context" \notin r
  BY DEF O!Left
<1>6. CASE "context" \in r
  <2>1. k = n + 1
    BY <1>4, <1>6
  <2>2. refs[p] > 0
    BY <1>1, <1>3, <2>1
  <2>3. refs' = [refs EXCEPT ![p] = refs[p] - 1]
    BY <1>2, <1>6, <2>2
  <2>4. refs[p] - 1 \in Nat
    BY <1>1, <2>2
  <2>5. refs' \in [Programs -> Nat] /\ refs'[p] = refs[p] - 1
    BY <1>1, <2>3, <2>4
  <2>6. "context" \in Forgotten(p) \cup O!Left(held, r) <=> "context" \in Forgotten(p)
    BY <1>5, <1>6
  <2> HIDE DEF k
  <2>7. IF "context" \in Forgotten(p) THEN refs'[p] > n ELSE refs'[p] = n
    BY <1>1, <1>3, <2>1, <2>5
  <2> QED BY <2>5, <2>6, <2>7
<1>7. CASE "context" \notin r /\ "context" \in held
  <2>1. k = n + 1 /\ refs' = refs
    BY <1>2, <1>7
  <2>2. "context" \in Forgotten(p) \cup O!Left(held, r)
    BY <1>5, <1>7
  <2> HIDE DEF k
  <2>3. refs'[p] > n
    BY <1>1, <1>3, <2>1
  <2> QED BY <1>1, <2>1, <2>2, <2>3
<1>8. CASE "context" \notin r /\ "context" \notin held
  <2>1. k = n /\ refs' = refs
    BY <1>2, <1>8
  <2>2. "context" \in Forgotten(p) \cup O!Left(held, r) <=> "context" \in Forgotten(p)
    BY <1>5, <1>8
  <2> HIDE DEF k
  <2>3. IF "context" \in Forgotten(p) THEN refs'[p] > n ELSE refs'[p] = n
    BY <1>1, <1>3, <2>1
  <2> QED BY <1>1, <2>1, <2>2, <2>3
<1> QED BY <1>6, <1>7, <1>8

-----------------------------------------------------------------------------
(* A function ends, or goes on with the next port, with nothing in hand. *)
LEMMA MovesOn ==
    ASSUME OpenInv, NEW p \in Programs, fn[p] # "none", mine' = [mine EXCEPT ![p] = {}], oDriver' = oDriver,
           O!NextPort(p) \/ O!Return(p)
    PROVE  /\ Underway(p)'
           /\ fn' \in [Programs -> {"none", "scan", "open"}] /\ todo' \in [Programs -> Seq(Steps)]
           /\ port' \in [Programs -> Nat] /\ mine' \in [Programs -> SUBSET Things]
           /\ mine'[p] = {}
           /\ \A q \in Programs : q # p => fn'[q] = fn[q] /\ todo'[q] = todo[q] /\ port'[q] = port[q] /\ mine'[q] = mine[q]
<1>1. /\ fn \in [Programs -> {"none", "scan", "open"}] /\ todo \in [Programs -> Seq(Steps)]
      /\ port \in [Programs -> Nat] /\ mine \in [Programs -> SUBSET Things] /\ oDriver \in Openable
  BY DEF OpenInv, OpenType
<1>2. mine' \in [Programs -> SUBSET Things] /\ mine'[p] = {} /\ \A q \in Programs : q # p => mine'[q] = mine[q]
  BY <1>1
<1>3. port[p] \in 1..Ports
  BY DEF OpenInv, Underway
<1>4. CASE O!Return(p)
  <2>1. fn' = [fn EXCEPT ![p] = "none"] /\ todo' = [todo EXCEPT ![p] = <<>>] /\ port' = port
    BY <1>4 DEF O!Return
  <2>2. <<>> \in Seq(Steps)
    OBVIOUS
  <2>3. fn'[p] = "none" /\ fn' \in [Programs -> {"none", "scan", "open"}] /\ \A q \in Programs : q # p => fn'[q] = fn[q]
    BY <1>1, <2>1
  <2>4. todo' \in [Programs -> Seq(Steps)] /\ \A q \in Programs : q # p => todo'[q] = todo[q]
    BY <1>1, <2>1, <2>2
  <2>5. Underway(p)'
    BY <1>2, <2>3 DEF Underway
  <2> QED BY <1>1, <1>2, <2>1, <2>3, <2>4, <2>5
<1>5. CASE O!NextPort(p) /\ ~O!Return(p)
  <2>1. /\ port[p] < Ports /\ port' = [port EXCEPT ![p] = port[p] + 1] /\ fn' = fn
        /\ \E c \in IF fn[p] = "scan" THEN {O!Scan} ELSE O!Open : todo' = [todo EXCEPT ![p] = c]
    BY <1>5 DEF O!NextPort
  <2>2. PICK c \in IF fn[p] = "scan" THEN {O!Scan} ELSE O!Open : todo' = [todo EXCEPT ![p] = c]
    BY <2>1
  <2>3. fn[p] = "scan" \/ fn[p] = "open"
    BY <1>1
  <2>4. Good(fn[p], {}, c)
    BY <1>1, <2>2, <2>3, FunctionsGood
  <2>5. c \in Seq(Steps)
    BY <2>4 DEF Good
  <2>6. todo' \in [Programs -> Seq(Steps)] /\ todo'[p] = c /\ \A q \in Programs : q # p => todo'[q] = todo[q]
    BY <1>1, <2>2, <2>5
  <2>7. port' \in [Programs -> Nat] /\ port'[p] \in 1..Ports /\ \A q \in Programs : q # p => port'[q] = port[q]
    <3>1. port[p] + 1 \in 1..Ports /\ port[p] + 1 \in Nat
      BY <1>3, <2>1, OpenableAssumption
    <3> QED BY <1>1, <2>1, <3>1
  <2>8. Ready(p)'
    BY <1>2, <2>1, <2>4, <2>6, StillReady
  <2>9. Underway(p)'
    BY <2>1, <2>7, <2>8 DEF Underway
  <2> QED BY <1>1, <1>2, <2>1, <2>6, <2>7, <2>9
<1> QED BY <1>4, <1>5

(* It gives back all it held, but what it forgets. *)
LEMMA GivesBack ==
    ASSUME OpenInv, NEW p \in Programs, fn[p] # "none", NEW r \in SUBSET Things, Undone(mine[p], r),
           O!Release(p, port[p], mine[p], r), mine' = [mine EXCEPT ![p] = {}],
           O!NextPort(p) \/ O!Return(p), UNCHANGED <<oDriver, devices, attempts>>
    PROVE  OpenInv'
<1>1. /\ devices \in [Programs -> SUBSET Device] /\ attempts \in Nat /\ oDriver \in Openable /\ mine[p] \in SUBSET Things
      /\ OpenType /\ twice = FALSE
  BY DEF OpenInv, OpenType
<1>2. port[p] \in 1..Ports
  BY DEF OpenInv, Underway
<1>3. /\ Underway(p)'
      /\ fn' \in [Programs -> {"none", "scan", "open"}] /\ todo' \in [Programs -> Seq(Steps)]
      /\ port' \in [Programs -> Nat] /\ mine' \in [Programs -> SUBSET Things]
      /\ mine'[p] = {}
      /\ \A q \in Programs : q # p => fn'[q] = fn[q] /\ todo'[q] = todo[q] /\ port'[q] = port[q] /\ mine'[q] = mine[q]
  <2>1. oDriver' = oDriver
    OBVIOUS
  <2> QED BY <2>1, MovesOn, Zenon
<1>4. /\ twice' = FALSE /\ claimed' \subseteq 1..Ports /\ lost' \in [Programs -> SUBSET Places]
      /\ \A q \in Programs : q # p => lost'[q] = lost[q] /\ refs'[q] = refs[q]
      /\ Forgotten(p)' = Forgotten(p) \cup O!Left(mine[p], r) /\ O!Left(mine[p], r) \subseteq O!Forgets
  <2> DEFINE i == port[p]
             held == mine[p]
  <2>1. i \in 1..Ports /\ held \in SUBSET Things /\ Undone(held, r) /\ O!Release(p, i, held, r)
    BY <1>1, <1>2
  <2> HIDE DEF i, held
  <2>2. twice' = FALSE
    BY <1>1, <2>1, ReleaseFacts
  <2>3. claimed' \subseteq 1..Ports /\ lost' \in [Programs -> SUBSET Places]
    BY <1>1, <2>1, ReleaseFacts
  <2>4. \A q \in Programs : q # p => lost'[q] = lost[q] /\ refs'[q] = refs[q]
    BY <1>1, <2>1, ReleaseFacts
  <2>5. Forgotten(p)' = Forgotten(p) \cup O!Left(held, r)
    <3>1. lost'[p] = lost[p] \cup O!Lost(i, O!Left(held, r))
      BY <1>1, <2>1 DEF O!Release, OpenType
    <3> QED BY <3>1, WhatLost DEF Forgotten
  <2>6. O!Left(held, r) \subseteq O!Forgets
    BY <1>1, <2>1, ReleaseFacts
  <2> QED BY <2>2, <2>3, <2>4, <2>5, <2>6 DEF held
<1> DEFINE n == Cardinality(Using(p))
<1>5. n \in Nat
  <2>1. IsFiniteSet(devices[p]) /\ Using(p) \subseteq devices[p]
    BY DEF OpenInv, DevicesSettled, Using
  <2> QED BY <2>1, FS_Subset, FS_CardinalityType
<1>6. Cardinality(Using(p)) + InHand(p) = n + (IF "context" \in mine[p] THEN 1 ELSE 0)
  BY DEF InHand
<1> HIDE DEF n
<1>7. /\ refs' \in [Programs -> Nat]
      /\ IF "context" \in Forgotten(p) \cup O!Left(mine[p], r) THEN refs'[p] > n ELSE refs'[p] = n
  BY <1>1, <1>5, <1>6, ReleaseCounts
<1>8. Cardinality(Using(p)') = n /\ InHand(p)' = 0
  BY <1>3 DEF Using, InHand, n
<1>9. Cardinality(Using(p)') + InHand(p)' = n
  BY <1>5, <1>8
<1>10. Forgotten(p)' = Forgotten(p) \cup O!Left(mine[p], r) /\ Forgotten(p)' \subseteq O!Forgets
  BY <1>4 DEF OpenInv, Counted
<1>11. Counted(p)'
  <2>1. oDriver' = oDriver
    OBVIOUS
  <2>2. IF "context" \in Forgotten(p)' THEN refs'[p] > Cardinality(Using(p)') + InHand(p)'
           ELSE refs'[p] = Cardinality(Using(p)') + InHand(p)'
    BY <1>7, <1>9, <1>10, Zenon
  <2> QED BY <1>10, <2>1, <2>2, StillCounted
<1>12. DevicesSettled(p)'
  <2>1. \A d \in devices'[p] : Closable(d)'
    BY StillClosable DEF OpenInv, DevicesSettled, Closable
  <2>2. IsFiniteSet(devices'[p]) /\ (\A d \in devices'[p] : d.call <= attempts')
    BY DEF OpenInv, DevicesSettled
  <2>3. \A d \in devices'[p] : d.call < attempts'
    BY DEF OpenInv, DevicesSettled
  <2> QED BY <2>1, <2>2, <2>3, Zenon DEF DevicesSettled
<1>13. OpenType'
  BY <1>1, <1>3, <1>4, <1>7 DEF OpenType
<1>14. \A q \in Programs : q # p => Aside(q)
  BY <1>1, <1>3, <1>4 DEF Aside
<1>15. attempts' >= attempts /\ oDriver' = oDriver
  BY <1>1
<1> QED BY <1>3, <1>4, <1>11, <1>12, <1>13, <1>14, <1>15, Combine

(* What the steps below need of the invariant. *)
LEMMA OpenFacts ==
    ASSUME OpenInv, NEW p \in Programs
    PROVE  /\ fn \in [Programs -> {"none", "scan", "open"}] /\ todo \in [Programs -> Seq(Steps)]
           /\ port \in [Programs -> Nat] /\ mine \in [Programs -> SUBSET Things] /\ oDriver \in Openable
           /\ devices \in [Programs -> SUBSET Device] /\ lost \in [Programs -> SUBSET Places]
           /\ refs \in [Programs -> Nat] /\ claimed \subseteq 1..Ports /\ attempts \in Nat
           /\ OpenType /\ twice = FALSE /\ Underway(p) /\ DevicesSettled(p) /\ Counted(p)
           /\ Cardinality(Using(p)) \in Nat
<1>1. IsFiniteSet(devices[p]) /\ Using(p) \subseteq devices[p]
  BY DEF OpenInv, DevicesSettled, Using
<1>2. Cardinality(Using(p)) \in Nat
  BY <1>1, FS_Subset, FS_CardinalityType
<1> QED BY <1>2 DEF OpenInv, OpenType

(* The call that is next. *)
LEMMA NextCall ==
    ASSUME OpenInv, NEW p \in Programs, fn[p] # "none"
    PROVE  /\ todo[p] \in Seq(Steps) /\ todo[p] # <<>> /\ mine[p] \in SUBSET Things /\ port[p] \in 1..Ports
           /\ Head(todo[p]) \in Steps
           /\ Len(todo[p]) > 1 => /\ Middle(mine[p], Head(todo[p]))
                                  /\ Good(fn[p], After(mine[p], Head(todo[p])), Tail(todo[p]))
           /\ Len(todo[p]) = 1 => Last(fn[p], mine[p], Head(todo[p]))
           /\ Failing(mine[p], Head(todo[p]))
<1> DEFINE c == todo[p]
           h == mine[p]
           f == fn[p]
<1>1. Good(f, h, c) /\ port[p] \in 1..Ports
  BY DEF OpenInv, Underway, Ready
<1>2. c \in Seq(Steps) /\ c # <<>> /\ h \in SUBSET Things /\ Sound(f, h, c)
  BY <1>1 DEF Good
<1> HIDE DEF c, h, f
<1>3. Head(c) \in Steps /\ Tail(c) \in Seq(Steps)
  BY <1>2
<1>4. /\ Len(c) > 1 => Middle(h, Head(c)) /\ Tail(c) # <<>> /\ Sound(f, After(h, Head(c)), Tail(c))
      /\ Len(c) = 1 => Last(f, h, Head(c))
      /\ Failing(h, Head(c))
  BY <1>2, SoundStep
<1>5. After(h, Head(c)) \in SUBSET Things
  BY <1>2, <1>3 DEF After, Steps
<1>6. Len(c) > 1 => Good(f, After(h, Head(c)), Tail(c))
  BY <1>3, <1>4, <1>5 DEF Good
<1> QED BY <1>1, <1>2, <1>3, <1>4, <1>6 DEF c, h, f

-----------------------------------------------------------------------------
(* A scan or an open begins. *)
LEMMA BeginStep ==
    ASSUME OpenInv, NEW p \in Programs, NEW f \in {"scan", "open"}, NEW i \in 1..Ports, NEW c, Good(f, {}, c),
           O!Begin(p, f), port' = [port EXCEPT ![p] = i], todo' = [todo EXCEPT ![p] = c]
    PROVE  OpenInv'
<1>1. /\ fn \in [Programs -> {"none", "scan", "open"}] /\ todo \in [Programs -> Seq(Steps)]
      /\ port \in [Programs -> Nat] /\ mine \in [Programs -> SUBSET Things] /\ oDriver \in Openable
      /\ devices \in [Programs -> SUBSET Device] /\ lost \in [Programs -> SUBSET Places]
      /\ refs \in [Programs -> Nat] /\ claimed \subseteq 1..Ports /\ attempts \in Nat
      /\ OpenType /\ twice = FALSE /\ Underway(p) /\ DevicesSettled(p) /\ Counted(p)
  BY OpenFacts
<1>2. /\ fn[p] = "none" /\ attempts' = attempts + 1
      /\ fn' = [fn EXCEPT ![p] = f] /\ mine' = [mine EXCEPT ![p] = {}]
      /\ oDriver' = oDriver /\ devices' = devices /\ lost' = lost /\ refs' = refs /\ claimed' = claimed /\ twice' = twice
  BY DEF O!Begin
<1>3. c \in Seq(Steps) /\ {} \in SUBSET Things /\ i \in Nat
  BY OpenableAssumption DEF Good
<1>4. /\ fn' \in [Programs -> {"none", "scan", "open"}] /\ fn'[p] = f /\ todo' \in [Programs -> Seq(Steps)] /\ todo'[p] = c
      /\ port' \in [Programs -> Nat] /\ port'[p] = i /\ mine' \in [Programs -> SUBSET Things] /\ mine'[p] = {}
  BY <1>1, <1>2, <1>3
<1>5. OpenType'
  <2>1. attempts' \in Nat
    BY <1>1, <1>2
  <2> QED BY <1>1, <1>2, <1>4, <2>1 DEF OpenType
<1>6. \A q \in Programs : q # p => Aside(q)
  BY <1>1, <1>2 DEF Aside
<1>7. Underway(p)'
  <2>1. Ready(p)'
    BY <1>2, <1>4, StillReady
  <2>2. fn'[p] # "none"
    BY <1>4
  <2> QED BY <1>4, <2>1, <2>2 DEF Underway
<1>8. DevicesSettled(p)'
  <2>1. \A d \in devices'[p] : Closable(d)'
    BY <1>1, <1>2, StillClosable DEF DevicesSettled, Closable
  <2>2. IsFiniteSet(devices'[p])
    BY <1>1, <1>2 DEF DevicesSettled
  <2>3. \A d \in devices[p] : d.call \in Nat
    BY <1>1 DEF Device
  <2>4. \A d \in devices'[p] : d.call <= attempts' /\ d.call < attempts'
    BY <1>1, <1>2, <2>3 DEF DevicesSettled
  <2> QED BY <2>1, <2>2, <2>4, Zenon DEF DevicesSettled
<1>9. Counted(p)'
  <2>1. mine[p] = {}
    BY <1>1, <1>2 DEF Underway
  <2>2. Forgotten(p)' = Forgotten(p) /\ Using(p)' = Using(p) /\ refs'[p] = refs[p]
    BY <1>2 DEF Forgotten, Using
  <2>3. InHand(p)' = InHand(p)
    BY <1>4, <2>1 DEF InHand
  <2> QED BY <1>1, <1>2, <2>2, <2>3, StillCounted, Zenon DEF Counted
<1>10. twice' = FALSE /\ attempts' >= attempts
  BY <1>1, <1>2
<1> QED BY <1>2, <1>5, <1>6, <1>7, <1>8, <1>9, <1>10, Combine

LEMMA DoScanStep == ASSUME OpenInv, NEW p \in Programs, O!DoScan(p) PROVE OpenInv'
<1>1. Good("scan", {}, O!Scan)
  BY FunctionsGood DEF OpenInv, OpenType
<1>2. O!Begin(p, "scan") /\ port' = [port EXCEPT ![p] = 1] /\ todo' = [todo EXCEPT ![p] = O!Scan]
  BY DEF O!DoScan
<1>3. PICK c : c = O!Scan
  OBVIOUS
<1>4. 1 \in 1..Ports
  BY OpenableAssumption
<1>5. Good("scan", {}, c) /\ todo' = [todo EXCEPT ![p] = c]
  BY <1>1, <1>2, <1>3
<1> QED BY <1>2, <1>4, <1>5, BeginStep

LEMMA DoOpenStep == ASSUME OpenInv, NEW p \in Programs, NEW i \in 1..Ports, O!DoOpen(p, i) PROVE OpenInv'
<1>1. \A c \in O!Open : Good("open", {}, c)
  BY FunctionsGood DEF OpenInv, OpenType
<1>2. O!Begin(p, "open") /\ port' = [port EXCEPT ![p] = i] /\ \E c \in O!Open : todo' = [todo EXCEPT ![p] = c]
  BY DEF O!DoOpen
<1>3. PICK c \in O!Open : todo' = [todo EXCEPT ![p] = c]
  BY <1>2
<1> QED BY <1>1, <1>2, <1>3, BeginStep

-----------------------------------------------------------------------------
(* A call succeeds, and is not the last. *)
LEMMA SucceedsStep == ASSUME OpenInv, NEW p \in Programs, O!Succeeds(p) PROVE OpenInv'
<1> DEFINE s == Head(todo[p])
           h == mine[p]
<1>1. /\ fn \in [Programs -> {"none", "scan", "open"}] /\ todo \in [Programs -> Seq(Steps)]
      /\ port \in [Programs -> Nat] /\ mine \in [Programs -> SUBSET Things] /\ oDriver \in Openable
      /\ devices \in [Programs -> SUBSET Device] /\ lost \in [Programs -> SUBSET Places]
      /\ refs \in [Programs -> Nat] /\ claimed \subseteq 1..Ports /\ attempts \in Nat
      /\ OpenType /\ twice = FALSE /\ Underway(p) /\ DevicesSettled(p) /\ Counted(p) /\ Cardinality(Using(p)) \in Nat
  BY OpenFacts
<1>2. /\ fn[p] \in {"scan", "open"} /\ Len(todo[p]) > 1
      /\ mine' = [mine EXCEPT ![p] = (h \cup s.take) \ s.give]
      /\ todo' = [todo EXCEPT ![p] = Tail(todo[p])]
      /\ claimed' = IF s.take = {"claim"} THEN claimed \cup {port[p]} ELSE claimed
      /\ refs' = IF "context" \in s.take THEN [refs EXCEPT ![p] = refs[p] + 1]
                 ELSE IF "context" \in s.give THEN [refs EXCEPT ![p] = refs[p] - 1] ELSE refs
      /\ oDriver' = oDriver /\ fn' = fn /\ port' = port /\ devices' = devices /\ lost' = lost
      /\ attempts' = attempts /\ twice' = twice
  BY DEF O!Succeeds
<1>3. /\ port[p] \in 1..Ports /\ s \in Steps /\ h \in SUBSET Things
      /\ Middle(h, s) /\ Good(fn[p], After(h, s), Tail(todo[p]))
  BY <1>2, NextCall
<1>4. fn'[p] = fn[p] /\ mine'[p] = After(h, s) /\ todo'[p] = Tail(todo[p])
  BY <1>1, <1>2 DEF After
<1>5. After(h, s) \in SUBSET Things /\ Tail(todo[p]) \in Seq(Steps)
  BY <1>3 DEF Good
<1>6. mine' \in [Programs -> SUBSET Things] /\ todo' \in [Programs -> Seq(Steps)]
  BY <1>1, <1>2, <1>5 DEF After
<1>7. s.give \subseteq h /\ s.take \cap s.give = {} /\ ("context" \in s.take => "context" \notin h)
  BY <1>3 DEF Middle
<1> HIDE DEF s, h
<1>8. Underway(p)'
  <2>1. Ready(p)'
    BY <1>2, <1>3, <1>4, StillReady
  <2> QED BY <1>2, <1>3, <2>1 DEF Underway
<1>9. DevicesSettled(p)'
  <2>1. \A d \in devices'[p] : Closable(d)'
    BY <1>1, <1>2, StillClosable DEF DevicesSettled, Closable
  <2>2. IsFiniteSet(devices'[p]) /\ (\A d \in devices'[p] : d.call <= attempts')
    BY <1>1, <1>2 DEF DevicesSettled
  <2>3. fn'[p] # "none" => \A d \in devices'[p] : d.call < attempts'
    BY <1>1, <1>2 DEF DevicesSettled
  <2> QED BY <2>1, <2>2, <2>3, Zenon DEF DevicesSettled
<1>10. Forgotten(p)' = Forgotten(p) /\ Using(p)' = Using(p)
  BY <1>2 DEF Forgotten, Using
<1> DEFINE n == Cardinality(Using(p))
<1>11. InHand(p) = (IF "context" \in h THEN 1 ELSE 0) /\ InHand(p)' = (IF "context" \in After(h, s) THEN 1 ELSE 0)
  BY <1>4 DEF InHand, h
<1>12. IF "context" \in Forgotten(p) THEN refs[p] > n + InHand(p) ELSE refs[p] = n + InHand(p)
  BY <1>1 DEF Counted
<1>13. n \in Nat /\ Cardinality(Using(p)') = n
  BY <1>1, <1>10
<1> HIDE DEF n
<1>14. /\ refs' \in [Programs -> Nat] /\ \A q \in Programs : q # p => refs'[q] = refs[q]
       /\ IF "context" \in Forgotten(p) THEN refs'[p] > n + InHand(p)' ELSE refs'[p] = n + InHand(p)'
  <2>1. CASE "context" \in s.take
    <3>1. InHand(p) = 0 /\ InHand(p)' = 1
      BY <1>7, <1>11, <2>1 DEF After
    <3>2. refs' = [refs EXCEPT ![p] = refs[p] + 1]
      BY <1>2, <2>1
    <3>3. refs[p] \in Nat
      BY <1>1
    <3>4. refs' \in [Programs -> Nat] /\ refs'[p] = refs[p] + 1 /\ \A q \in Programs : q # p => refs'[q] = refs[q]
      BY <1>1, <3>2, <3>3
    <3> QED BY <1>12, <1>13, <3>1, <3>3, <3>4
  <2>2. CASE "context" \notin s.take /\ "context" \in s.give
    <3>1. InHand(p) = 1 /\ InHand(p)' = 0
      BY <1>7, <1>11, <2>2 DEF After
    <3>2. refs' = [refs EXCEPT ![p] = refs[p] - 1]
      BY <1>2, <2>2
    <3>3. refs[p] \in Nat /\ refs[p] > 0
      BY <1>1, <1>12, <1>13, <3>1
    <3>4. refs[p] - 1 \in Nat
      BY <3>3
    <3>5. refs' \in [Programs -> Nat] /\ refs'[p] = refs[p] - 1 /\ \A q \in Programs : q # p => refs'[q] = refs[q]
      BY <1>1, <3>2, <3>4
    <3> QED BY <1>12, <1>13, <3>1, <3>3, <3>5
  <2>3. CASE "context" \notin s.take /\ "context" \notin s.give
    <3>1. InHand(p)' = InHand(p)
      BY <1>11, <2>3 DEF After
    <3>2. refs' = refs
      BY <1>2, <2>3
    <3> QED BY <1>1, <1>12, <3>1, <3>2
  <2> QED BY <2>1, <2>2, <2>3
<1>15. Counted(p)'
  <2>1. Forgotten(p)' \subseteq O!Forgets
    BY <1>1, <1>10 DEF Counted
  <2>2. IF "context" \in Forgotten(p)' THEN refs'[p] > Cardinality(Using(p)') + InHand(p)'
        ELSE refs'[p] = Cardinality(Using(p)') + InHand(p)'
    BY <1>10, <1>13, <1>14, Zenon
  <2> QED BY <1>2, <2>1, <2>2, StillCounted
<1>16. OpenType'
  <2>1. claimed' \subseteq 1..Ports
    BY <1>1, <1>2, <1>3
  <2> QED BY <1>1, <1>2, <1>6, <1>14, <2>1 DEF OpenType
<1>17. \A q \in Programs : q # p => Aside(q)
  BY <1>1, <1>2, <1>14 DEF Aside
<1>18. twice' = FALSE /\ attempts' >= attempts
  BY <1>1, <1>2
<1> QED BY <1>2, <1>8, <1>9, <1>15, <1>16, <1>17, <1>18, Combine

(* A reader was found, or a call failed. *)
LEMMA FoundStep == ASSUME OpenInv, NEW p \in Programs, O!Found(p) PROVE OpenInv'
<1> DEFINE s == Head(todo[p])
<1>1. /\ fn[p] = "scan" /\ Len(todo[p]) = 1 /\ oDriver # "acr122s"
      /\ O!Release(p, port[p], mine[p], s.give) /\ mine' = [mine EXCEPT ![p] = {}] /\ O!NextPort(p)
      /\ UNCHANGED <<oDriver, devices, attempts>>
  BY DEF O!Found
<1>2. s \in Steps /\ Last(fn[p], mine[p], s)
  BY <1>1, NextCall
<1>3. s.give \in SUBSET Things
  BY <1>2 DEF Steps
<1>4. Undone(mine[p], s.give)
  BY <1>1, <1>2, SettledUndone DEF Last
<1>5. fn[p] # "none"
  BY <1>1
<1> HIDE DEF s
<1> QED BY <1>1, <1>3, <1>4, <1>5, GivesBack

LEMMA FailsStep == ASSUME OpenInv, NEW p \in Programs, O!Fails(p) PROVE OpenInv'
<1> DEFINE s == Head(todo[p])
<1>1. /\ fn[p] \in {"scan", "open"} /\ (s.give = {} \/ s.undo # {})
      /\ O!Release(p, port[p], mine[p], s.undo) /\ mine' = [mine EXCEPT ![p] = {}]
      /\ O!NextPort(p) \/ O!Return(p)
      /\ UNCHANGED <<oDriver, devices, attempts>>
  BY DEF O!Fails
<1>2. s \in Steps /\ Failing(mine[p], s)
  BY <1>1, NextCall
<1>3. s.undo \in SUBSET Things
  BY <1>2 DEF Steps
<1>4. Undone(mine[p], s.undo)
  BY <1>1, <1>2 DEF Failing
<1>5. fn[p] # "none"
  BY <1>1
<1> HIDE DEF s
<1> QED BY <1>1, <1>3, <1>4, <1>5, GivesBack

-----------------------------------------------------------------------------
(* The device is open. *)
LEMMA OpenedStep == ASSUME OpenInv, NEW p \in Programs, O!Opened(p) PROVE OpenInv'
<1> DEFINE s == Head(todo[p])
           has == mine[p] \ s.give
           d == [port |-> port[p], call |-> attempts, has |-> has]
<1>1. /\ fn \in [Programs -> {"none", "scan", "open"}] /\ todo \in [Programs -> Seq(Steps)]
      /\ port \in [Programs -> Nat] /\ mine \in [Programs -> SUBSET Things] /\ oDriver \in Openable
      /\ devices \in [Programs -> SUBSET Device] /\ lost \in [Programs -> SUBSET Places]
      /\ refs \in [Programs -> Nat] /\ claimed \subseteq 1..Ports /\ attempts \in Nat
      /\ OpenType /\ twice = FALSE /\ Underway(p) /\ DevicesSettled(p) /\ Counted(p) /\ Cardinality(Using(p)) \in Nat
  BY OpenFacts
<1>2. /\ fn[p] = "open" /\ Len(todo[p]) = 1 /\ oDriver # "acr122s"
      /\ devices' = [devices EXCEPT ![p] = devices[p] \cup {d}]
      /\ mine' = [mine EXCEPT ![p] = {}]
      /\ fn' = [fn EXCEPT ![p] = "none"] /\ todo' = [todo EXCEPT ![p] = <<>>] /\ port' = port
      /\ oDriver' = oDriver /\ lost' = lost /\ refs' = refs /\ claimed' = claimed /\ attempts' = attempts /\ twice' = twice
  BY DEF O!Opened, O!Return
<1>3. port[p] \in 1..Ports /\ s \in Steps /\ Last(fn[p], mine[p], s)
  BY <1>2, NextCall
<1>4. s.give \cap {"claim", "context"} = {} /\ Settled(has, O!Close)
  BY <1>2, <1>3 DEF Last
<1>5. has \in SUBSET Things /\ ("context" \in has <=> "context" \in mine[p])
  BY <1>1, <1>4
<1> HIDE DEF s, has
<1>6. d \in Device /\ d.has = has /\ d.call = attempts
  BY <1>1, <1>3, <1>5 DEF Device
<1>7. d \notin devices[p]
  <2>1. ASSUME d \in devices[p] PROVE FALSE
    <3>1. d.call < attempts
      BY <1>1, <1>2, <2>1 DEF DevicesSettled
    <3> QED BY <1>1, <1>6, <3>1
  <2> QED BY <2>1
<1> HIDE DEF d
<1>8. /\ devices' \in [Programs -> SUBSET Device] /\ devices'[p] = devices[p] \cup {d}
      /\ \A q \in Programs : q # p => devices'[q] = devices[q]
  BY <1>1, <1>2, <1>6
<1>9. /\ fn' \in [Programs -> {"none", "scan", "open"}] /\ fn'[p] = "none" /\ todo' \in [Programs -> Seq(Steps)]
      /\ mine' \in [Programs -> SUBSET Things] /\ mine'[p] = {}
  <2>1. <<>> \in Seq(Steps)
    OBVIOUS
  <2> QED BY <1>1, <1>2, <2>1
<1>10. OpenType'
  BY <1>1, <1>2, <1>8, <1>9 DEF OpenType
<1>11. \A q \in Programs : q # p => Aside(q)
  BY <1>1, <1>2, <1>8 DEF Aside
<1>12. Underway(p)'
  BY <1>9 DEF Underway
<1>13. IsFiniteSet(devices[p]) /\ Using(p) = Users(devices[p])
  BY <1>1 DEF DevicesSettled, Using, Users
<1>14. /\ IsFiniteSet(devices[p] \cup {d})
       /\ Cardinality(Users(devices[p] \cup {d})) = Cardinality(Users(devices[p])) + (IF "context" \in d.has THEN 1 ELSE 0)
  BY <1>7, <1>13, UsersMore
<1>15. Using(p)' = Users(devices[p] \cup {d})
  BY <1>8 DEF Using, Users
<1>16. DevicesSettled(p)'
  <2>1. Settled(d.has, O!Close)
    BY <1>4, <1>6
  <2>2. \A e \in devices[p] \cup {d} : Settled(e.has, O!Close) /\ e.call <= attempts
    BY <1>1, <1>6, <2>1 DEF DevicesSettled, Closable
  <2>3. \A e \in devices'[p] : Closable(e)'
    BY <1>2, <1>8, <2>2, StillClosable
  <2>4. IsFiniteSet(devices'[p]) /\ \A e \in devices'[p] : e.call <= attempts'
    BY <1>2, <1>8, <1>14, <2>2
  <2>5. ~(fn'[p] # "none")
    BY <1>9
  <2> QED BY <2>3, <2>4, <2>5, Zenon DEF DevicesSettled
<1>17. Counted(p)'
  <2> DEFINE n == Cardinality(Using(p))
             m == Cardinality(Using(p)')
  <2>1. m = n + InHand(p)
    BY <1>5, <1>6, <1>13, <1>14, <1>15 DEF InHand
  <2>2. InHand(p)' = 0
    BY <1>9 DEF InHand
  <2>3. n \in Nat /\ InHand(p) \in Nat
    BY <1>1 DEF InHand
  <2>4. Forgotten(p)' = Forgotten(p) /\ refs'[p] = refs[p] /\ Forgotten(p)' \subseteq O!Forgets
    BY <1>1, <1>2 DEF Forgotten, Counted
  <2>5. IF "context" \in Forgotten(p) THEN refs[p] > n + InHand(p) ELSE refs[p] = n + InHand(p)
    BY <1>1 DEF Counted
  <2> HIDE DEF n, m
  <2>6. m + InHand(p)' = n + InHand(p)
    BY <2>1, <2>2, <2>3
  <2>7. IF "context" \in Forgotten(p)' THEN refs'[p] > m + InHand(p)' ELSE refs'[p] = m + InHand(p)'
    BY <2>4, <2>5, <2>6, Zenon
  <2>8. IF "context" \in Forgotten(p)' THEN refs'[p] > Cardinality(Using(p)') + InHand(p)'
        ELSE refs'[p] = Cardinality(Using(p)') + InHand(p)'
    BY <2>7 DEF m
  <2> QED BY <1>2, <2>4, <2>8, StillCounted
<1>18. twice' = FALSE /\ attempts' >= attempts
  BY <1>1, <1>2
<1> QED BY <1>2, <1>10, <1>11, <1>12, <1>16, <1>17, <1>18, Combine

-----------------------------------------------------------------------------
LEMMA CloseThings == ASSUME oDriver \in Openable PROVE O!Close \in SUBSET Things
BY OpenableAssumption DEF O!Close, O!Closed, O!nfc_device_free, O!uart_close, O!spi_close, Things, O!pn532_uart_close, O!arygon_close,
   O!acr122s_close, O!pn532_spi_close, O!pn532_i2c_close, O!pn53x_usb_close, O!acr122_usb_close, O!acr122_pcsc_close

(* A device is closed. *)
LEMMA DoCloseStep == ASSUME OpenInv, NEW p \in Programs, NEW d \in devices[p], O!DoClose(p, d) PROVE OpenInv'
<1>1. /\ fn \in [Programs -> {"none", "scan", "open"}] /\ todo \in [Programs -> Seq(Steps)]
      /\ port \in [Programs -> Nat] /\ mine \in [Programs -> SUBSET Things] /\ oDriver \in Openable
      /\ devices \in [Programs -> SUBSET Device] /\ lost \in [Programs -> SUBSET Places]
      /\ refs \in [Programs -> Nat] /\ claimed \subseteq 1..Ports /\ attempts \in Nat
      /\ OpenType /\ twice = FALSE /\ Underway(p) /\ DevicesSettled(p) /\ Counted(p) /\ Cardinality(Using(p)) \in Nat
  BY OpenFacts
<1>2. /\ fn[p] = "none" /\ devices' = [devices EXCEPT ![p] = devices[p] \ {d}]
      /\ O!Release(p, d.port, d.has, O!Close)
      /\ oDriver' = oDriver /\ todo' = todo /\ fn' = fn /\ port' = port /\ mine' = mine /\ attempts' = attempts
  BY DEF O!DoClose
<1> DEFINE i == d.port
           held == d.has
           r == O!Close
           D == devices[p]
<1>3. i \in 1..Ports /\ held \in SUBSET Things /\ Undone(held, r)
  BY <1>1, SettledUndone DEF Device, DevicesSettled, Closable
<1>4. r \in SUBSET Things
  BY <1>1, OpenableAssumption, CloseThings
<1>5. O!Release(p, i, held, r)
  BY <1>2
<1>6. IsFiniteSet(D) /\ d \in D /\ Using(p) = Users(D)
  BY <1>1 DEF DevicesSettled, Using, Users
<1> HIDE DEF i, held, r
<1>7. /\ twice' = FALSE /\ claimed' \subseteq 1..Ports /\ lost' \in [Programs -> SUBSET Places]
  BY <1>1, <1>3, <1>4, <1>5, ReleaseFacts
<1>8. \A q \in Programs : q # p => lost'[q] = lost[q] /\ refs'[q] = refs[q]
  BY <1>1, <1>3, <1>4, <1>5, ReleaseFacts
<1>9. O!Left(held, r) \subseteq O!Forgets
  BY <1>3 DEF Undone
<1>10. lost'[p] = lost[p] \cup O!Lost(i, O!Left(held, r))
  BY <1>1, <1>5 DEF O!Release
<1>11. Forgotten(p)' = Forgotten(p) \cup O!Left(held, r)
  BY <1>10, WhatLost DEF Forgotten
<1>12. /\ IsFiniteSet(D \ {d}) /\ Cardinality(Users(D \ {d})) \in Nat
       /\ Cardinality(Users(D)) = Cardinality(Users(D \ {d})) + (IF "context" \in held THEN 1 ELSE 0)
  BY <1>6, UsersLess DEF held
<1> DEFINE n == Cardinality(Users(D \ {d})) + InHand(p)
<1>13. n \in Nat /\ Cardinality(Using(p)) + InHand(p) = n + (IF "context" \in held THEN 1 ELSE 0)
  <2>1. InHand(p) \in Nat
    BY DEF InHand
  <2> QED BY <1>6, <1>12, <2>1
<1> HIDE DEF n
<1>14. /\ refs' \in [Programs -> Nat]
       /\ IF "context" \in Forgotten(p) \cup O!Left(held, r) THEN refs'[p] > n ELSE refs'[p] = n
  BY <1>3, <1>4, <1>5, <1>13, ReleaseCounts
<1>15. devices' \in [Programs -> SUBSET Device] /\ devices'[p] = D \ {d} /\ \A q \in Programs : q # p => devices'[q] = devices[q]
  BY <1>1, <1>2
<1>16. Cardinality(Using(p)') + InHand(p)' = n
  <2>1. Using(p)' = Users(D \ {d}) /\ InHand(p)' = InHand(p)
    BY <1>2, <1>15 DEF Using, Users, InHand
  <2> QED BY <2>1, Zenon DEF n
<1>17. Counted(p)'
  <2>1. Forgotten(p)' \subseteq O!Forgets
    BY <1>1, <1>9, <1>11 DEF Counted
  <2>2. IF "context" \in Forgotten(p)' THEN refs'[p] > Cardinality(Using(p)') + InHand(p)'
        ELSE refs'[p] = Cardinality(Using(p)') + InHand(p)'
    BY <1>11, <1>14, <1>16, Zenon
  <2> QED BY <1>2, <2>1, <2>2, StillCounted
<1>18. DevicesSettled(p)'
  <2>1. \A e \in devices'[p] : Closable(e)'
    BY <1>1, <1>2, <1>15, StillClosable DEF DevicesSettled, Closable
  <2>2. IsFiniteSet(devices'[p]) /\ \A e \in devices'[p] : e.call <= attempts'
    BY <1>1, <1>2, <1>12, <1>15 DEF DevicesSettled
  <2>3. ~(fn'[p] # "none")
    BY <1>2
  <2> QED BY <2>1, <2>2, <2>3, Zenon DEF DevicesSettled
<1>19. Underway(p)'
  BY <1>1, <1>2 DEF Underway
<1>20. OpenType'
  BY <1>1, <1>2, <1>7, <1>14, <1>15 DEF OpenType
<1>21. \A q \in Programs : q # p => Aside(q)
  BY <1>2, <1>8, <1>15 DEF Aside
<1>22. attempts' >= attempts
  BY <1>1, <1>2
<1> QED BY <1>2, <1>7, <1>17, <1>18, <1>19, <1>20, <1>21, <1>22, Combine

(* The program is killed. *)
LEMMA KillStep == ASSUME OpenInv, NEW p \in Programs, O!Kill(p) PROVE OpenInv'
<1>1. /\ fn \in [Programs -> {"none", "scan", "open"}] /\ todo \in [Programs -> Seq(Steps)]
      /\ port \in [Programs -> Nat] /\ mine \in [Programs -> SUBSET Things] /\ oDriver \in Openable
      /\ devices \in [Programs -> SUBSET Device] /\ lost \in [Programs -> SUBSET Places]
      /\ refs \in [Programs -> Nat] /\ claimed \subseteq 1..Ports /\ attempts \in Nat
      /\ OpenType /\ twice = FALSE
  BY OpenFacts
<1>2. /\ todo' = [todo EXCEPT ![p] = <<>>] /\ fn' = [fn EXCEPT ![p] = "none"] /\ mine' = [mine EXCEPT ![p] = {}]
      /\ devices' = [devices EXCEPT ![p] = {}] /\ lost' = [lost EXCEPT ![p] = {}] /\ refs' = [refs EXCEPT ![p] = 0]
      /\ oDriver' = oDriver /\ port' = port /\ claimed' = claimed /\ attempts' = attempts /\ twice' = twice
  BY DEF O!Kill
<1>3. /\ fn'[p] = "none" /\ mine'[p] = {} /\ devices'[p] = {} /\ lost'[p] = {} /\ refs'[p] = 0
      /\ todo' \in [Programs -> Seq(Steps)] /\ fn' \in [Programs -> {"none", "scan", "open"}]
      /\ mine' \in [Programs -> SUBSET Things] /\ devices' \in [Programs -> SUBSET Device]
      /\ lost' \in [Programs -> SUBSET Places] /\ refs' \in [Programs -> Nat]
  <2>1. <<>> \in Seq(Steps)
    OBVIOUS
  <2> QED BY <1>1, <1>2, <2>1
<1>4. OpenType'
  BY <1>1, <1>2, <1>3 DEF OpenType
<1>5. \A q \in Programs : q # p => Aside(q)
  BY <1>1, <1>2 DEF Aside
<1>6. Underway(p)'
  BY <1>3 DEF Underway
<1>7. DevicesSettled(p)'
  BY <1>3, FS_EmptySet DEF DevicesSettled
<1>8. Counted(p)'
  <2>1. Using(p)' = {} /\ InHand(p)' = 0 /\ Forgotten(p)' = {}
    BY <1>3 DEF Using, InHand, Forgotten, What
  <2>2. Cardinality(Using(p)') + InHand(p)' = 0
    BY <2>1, FS_EmptySet
  <2>3. IF "context" \in Forgotten(p)' THEN refs'[p] > Cardinality(Using(p)') + InHand(p)'
        ELSE refs'[p] = Cardinality(Using(p)') + InHand(p)'
    BY <1>3, <2>1, <2>2
  <2>4. Forgotten(p)' \subseteq O!Forgets
    BY <2>1
  <2> QED BY <1>2, <2>3, <2>4, StillCounted
<1>9. twice' = FALSE /\ attempts' >= attempts
  BY <1>1, <1>2
<1> QED BY <1>2, <1>4, <1>5, <1>6, <1>7, <1>8, <1>9, Combine

-----------------------------------------------------------------------------
(* The invariant holds at the start, and every step keeps it. *)
LEMMA OpenInit == O!Init => OpenInv
<1> SUFFICES ASSUME O!Init PROVE OpenInv
  OBVIOUS
<1>1. /\ oDriver \in Openable /\ claimed = {} /\ todo = [p \in Programs |-> <<>>] /\ fn = [p \in Programs |-> "none"]
      /\ port = [p \in Programs |-> 0] /\ mine = [p \in Programs |-> {}]
      /\ devices = [p \in Programs |-> {}] /\ lost = [p \in Programs |-> {}]
      /\ refs = [p \in Programs |-> 0] /\ attempts = 0 /\ twice = FALSE
  BY DEF O!Init
<1>2. OpenType
  <2>1. <<>> \in Seq(Steps)
    OBVIOUS
  <2> QED BY <1>1, <2>1 DEF OpenType
<1>3. ASSUME NEW p \in Programs PROVE Underway(p) /\ DevicesSettled(p) /\ Counted(p)
  <2>1. Underway(p)
    BY <1>1 DEF Underway
  <2>2. DevicesSettled(p)
    BY <1>1, FS_EmptySet DEF DevicesSettled
  <2>3. Using(p) = {} /\ InHand(p) = 0 /\ Forgotten(p) = {}
    BY <1>1 DEF Using, InHand, Forgotten, What
  <2>4. Cardinality(Using(p)) + InHand(p) = 0
    BY <2>3, FS_EmptySet
  <2>5. Counted(p)
    BY <1>1, <2>3, <2>4 DEF Counted
  <2> QED BY <2>1, <2>2, <2>5
<1> QED BY <1>1, <1>2, <1>3 DEF OpenInv

LEMMA OpenNext == OpenInv /\ [O!Next]_(O!vars) => OpenInv'
<1> SUFFICES ASSUME OpenInv, [O!Next]_(O!vars) PROVE OpenInv'
  OBVIOUS
<1>1. CASE O!Next
  <2>1. PICK p \in Programs :
           \/ O!DoScan(p) \/ O!Succeeds(p) \/ O!Found(p) \/ O!Opened(p) \/ O!Fails(p) \/ O!Kill(p)
           \/ \E i \in 1..Ports : O!DoOpen(p, i)
           \/ \E d \in devices[p] : O!DoClose(p, d)
    BY <1>1 DEF O!Next
  <2> QED BY <2>1, DoScanStep, SucceedsStep, FoundStep, OpenedStep, FailsStep, KillStep, DoOpenStep, DoCloseStep
<1>2. CASE UNCHANGED O!vars
  <2>1. /\ oDriver' = oDriver /\ todo' = todo /\ fn' = fn /\ port' = port /\ mine' = mine /\ devices' = devices /\ lost' = lost
        /\ refs' = refs /\ claimed' = claimed /\ attempts' = attempts /\ twice' = twice
    BY <1>2 DEF O!vars
  <2>2. OpenType /\ attempts \in Nat /\ attempts' \in Nat /\ attempts' >= attempts /\ devices \in [Programs -> SUBSET Device]
    BY <2>1 DEF OpenInv, OpenType
  <2>3. \A p \in Programs : Underway(p)' /\ DevicesSettled(p)' /\ Counted(p)'
    BY <2>1, <2>2, Others DEF OpenInv, Aside
  <2>4. OpenType'
    BY <2>1, <2>2 DEF OpenType
  <2>5. twice' = FALSE
    BY <2>1 DEF OpenInv
  <2> QED BY <2>3, <2>4, <2>5, Zenon DEF OpenInv
<1> QED BY <1>1, <1>2

(* The sets in which Balanced says it. *)
LEMMA LostAt ==
    ASSUME NEW i, NEW x, NEW places
    PROVE  O!Lost(i, {x}) \subseteq places <=> [port |-> i, what |-> x] \in places
<1>1. O!Lost(i, {x}) = {[port |-> i, what |-> x]}
  BY DEF O!Lost
<1> QED BY <1>1

LEMMA SameCardinality == ASSUME NEW S PROVE O!Cardinality(S) = Cardinality(S)
BY DEF O!Cardinality, Cardinality

(* Balanced follows. *)
LEMMA InvBalanced == OpenInv => Balanced
<1> SUFFICES ASSUME OpenInv PROVE Balanced
  OBVIOUS
<1>1. ~twice
  BY DEF OpenInv
<1>2. ASSUME NEW p \in Programs
      PROVE  /\ {l.what : l \in lost[p]} \subseteq O!Forgets
             /\ (\E i \in 1..Ports : O!Holds(p, i, "context") /\ O!Lost(i, {"context"}) \subseteq lost[p]) <=> "context" \in Forgotten(p)
             /\ IF "context" \in Forgotten(p)
                THEN refs[p] > Cardinality({d \in devices[p] : "context" \in d.has}) + (IF "context" \in mine[p] THEN 1 ELSE 0)
                ELSE refs[p] = Cardinality({d \in devices[p] : "context" \in d.has}) + (IF "context" \in mine[p] THEN 1 ELSE 0)
  <2>1. Counted(p) /\ lost[p] \subseteq Places
    BY DEF OpenInv, OpenType
  <2>2. (\E i \in 1..Ports : O!Holds(p, i, "context") /\ O!Lost(i, {"context"}) \subseteq lost[p])
        <=> \E i \in 1..Ports : [port |-> i, what |-> "context"] \in lost[p]
    BY LostAt DEF O!Holds
  <2>3. ASSUME NEW i \in 1..Ports, [port |-> i, what |-> "context"] \in lost[p] PROVE "context" \in Forgotten(p)
    <3>1. [port |-> i, what |-> "context"].what = "context"
      OBVIOUS
    <3> QED BY <2>3, <3>1 DEF Forgotten, What
  <2>4. ASSUME "context" \in Forgotten(p) PROVE \E i \in 1..Ports : [port |-> i, what |-> "context"] \in lost[p]
    <3>1. PICK l \in lost[p] : l.what = "context"
      BY <2>4 DEF Forgotten, What
    <3>2. l \in Places
      BY <2>1
    <3>3. l = [port |-> l.port, what |-> "context"] /\ l.port \in 1..Ports
      BY <3>1, <3>2 DEF Places
    <3> QED BY <3>3
  <2> QED BY <2>1, <2>2, <2>3, <2>4 DEF Counted, Forgotten, What, Using, InHand
<1>3. O!Balanced
  BY <1>1, <1>2, SameCardinality, ZenonT(30) DEF O!Balanced
<1> QED BY <1>3 DEF Balanced

(* No error path of a scan, an open or a close of any driver gives back    *)
(* what it does not hold, or gives it back twice, or forgets more than     *)
(* Forgets lists; and a program's PC/SC context is counted as often as its *)
(* devices and the function under way use it                               *)
(* (acr122_pcsc_get_scardcontext, acr122_pcsc_free_scardcontext; the error *)
(* paths of the drivers).                                                  *)
THEOREM BalancedHolds == O!Spec => []Balanced
<1>1. O!Init => OpenInv
  BY OpenInit
<1>2. OpenInv /\ [O!Next]_(O!vars) => OpenInv'
  BY OpenNext
<1>3. OpenInv => Balanced
  BY InvBalanced
<1> QED BY <1>1, <1>2, <1>3, PTL DEF O!Spec

(* Who has claimed a port: a function under way, or a device; and who found *)
(* it free, but has not claimed it yet.                                    *)
Hands(i) == {q \in Programs : port[q] = i /\ "claim" \in mine[q]}
InUse(i) == {x \in Programs \X Device : x[2] \in devices[x[1]] /\ x[2].port = i /\ "claim" \in x[2].has}
Betweens(i) == {q \in Programs : O!Between(q, i)}

(* A marked port has one holder, another one none; and one that was found  *)
(* free is not marked, as long as nobody else finds it free.               *)
Exact(i) ==
    /\ IF i \in claimed
       THEN (\E q \in Programs : Hands(i) = {q} /\ InUse(i) = {}) \/ (\E x \in Programs \X Device : Hands(i) = {} /\ InUse(i) = {x})
       ELSE Hands(i) = {} /\ InUse(i) = {}
    /\ \A q \in Betweens(i) : i \notin claimed /\ Betweens(i) \subseteq {q}

Claimed == \A i \in 1..Ports \ (raced \cup abandoned) : Exact(i)

(* How a step changes who holds the claim, and who is about to make one. *)
LEMMA HandsStep ==
    ASSUME NEW p \in Programs, NEW i, \A q \in Programs : q # p => port'[q] = port[q] /\ mine'[q] = mine[q]
    PROVE  Hands(i)' = IF port'[p] = i /\ "claim" \in mine'[p] THEN Hands(i) \cup {p} ELSE Hands(i) \ {p}
BY DEF Hands

LEMMA BetweensStep ==
    ASSUME NEW p \in Programs, NEW i, \A q \in Programs : q # p => port'[q] = port[q] /\ mine'[q] = mine[q],
           oDriver' = oDriver
    PROVE  /\ Betweens(i)' \subseteq Betweens(i) \cup {p}
           /\ p \in Betweens(i)' => /\ oDriver \in O!Serial /\ port'[p] = i
                                    /\ "port" \in mine'[p] /\ "claim" \notin mine'[p]
           /\ "port" \notin mine'[p] => Betweens(i)' \subseteq Betweens(i)
<1>1. \A q \in Programs : q \in Betweens(i) <=> oDriver \in O!Serial /\ port[q] = i /\ "port" \in mine[q] /\ "claim" \notin mine[q]
  BY DEF Betweens, O!Between
<1>2. \A q \in Programs : q \in Betweens(i)' <=> oDriver \in O!Serial /\ port'[q] = i /\ "port" \in mine'[q] /\ "claim" \notin mine'[q]
  BY DEF Betweens, O!Between, O!Serial
<1>3. Betweens(i)' \subseteq Programs
  BY DEF Betweens
<1> QED BY <1>1, <1>2, <1>3

LEMMA InUseSame == ASSUME devices' = devices, NEW i PROVE InUse(i)' = InUse(i)
BY DEF InUse

(* No function forgets a claim. *)
LEMMA NoClaimLost == ASSUME OpenInv PROVE "claim" \notin O!Forgets
<1>1. oDriver \in Openable
  BY DEF OpenInv, OpenType
<1> QED BY <1>1, OpenableAssumption DEF O!Forgets, O!Serial, O!Usb

(* What is closed is the claim of the one who closes it. *)
LEMMA ClaimGiven ==
    ASSUME OpenInv, NEW held, NEW r, Settled(held, r)
    PROVE  "claim" \in r <=> "claim" \in held
<1>1. "claim" \notin O!Forgets
  BY NoClaimLost
<1> QED BY <1>1 DEF Settled, O!Left, O!nfc_device_free

LEMMA ClaimKept ==
    ASSUME NEW i, Exact(i), Hands(i)' = Hands(i), InUse(i)' = InUse(i), i \in claimed' <=> i \in claimed,
           Betweens(i)' \subseteq Betweens(i)
    PROVE  Exact(i)'
BY DEF Exact

LEMMA ClaimFreed ==
    ASSUME NEW i, i \in claimed, Exact(i), i \notin claimed', Hands(i)' = {}, InUse(i)' = {},
           Betweens(i)' \subseteq Betweens(i)
    PROVE  Exact(i)'
BY DEF Exact

-----------------------------------------------------------------------------
(* Each step keeps Exact for the ports that it neither makes a race for    *)
(* nor abandons.                                                           *)
LEMMA BeginClaims ==
    ASSUME OpenInv, NEW p \in Programs, NEW f, NEW k, O!Begin(p, f), port' = [port EXCEPT ![p] = k], NEW i, Exact(i)
    PROVE  Exact(i)' /\ raced' = raced /\ abandoned' = abandoned
<1>1. /\ fn[p] = "none" /\ mine' = [mine EXCEPT ![p] = {}] /\ devices' = devices /\ claimed' = claimed
      /\ raced' = raced /\ abandoned' = abandoned /\ oDriver' = oDriver
  BY DEF O!Begin
<1>2. mine[p] = {} /\ mine \in [Programs -> SUBSET Things] /\ port \in [Programs -> Nat]
  BY <1>1 DEF OpenInv, Underway, OpenType
<1>3. mine'[p] = {} /\ \A q \in Programs : q # p => port'[q] = port[q] /\ mine'[q] = mine[q]
  BY <1>1, <1>2
<1>4. Hands(i)' = Hands(i) \ {p} /\ Betweens(i)' \subseteq Betweens(i)
  BY <1>1, <1>3, HandsStep, BetweensStep
<1>5. p \notin Hands(i)
  BY <1>2 DEF Hands
<1>6. Hands(i)' = Hands(i) /\ InUse(i)' = InUse(i)
  BY <1>1, <1>4, <1>5, InUseSame
<1>7. Exact(i)'
  BY <1>1, <1>4, <1>6, ClaimKept
<1> QED BY <1>1, <1>7

LEMMA SucceedsClaims ==
    ASSUME OpenInv, NEW p \in Programs, O!Succeeds(p), NEW i, i \notin raced', Exact(i)
    PROVE  Exact(i)' /\ raced \subseteq raced' /\ abandoned' = abandoned
<1> DEFINE s == Head(todo[p])
           h == mine[p]
           met == \E q \in Programs \ {p} : O!Between(q, port[p])
<1>1. /\ fn[p] \in {"scan", "open"} /\ Len(todo[p]) > 1 /\ oDriver' = oDriver
      /\ s.take = {"port"} /\ oDriver \in O!Serial => port[p] \notin claimed
      /\ mine' = [mine EXCEPT ![p] = (h \cup s.take) \ s.give]
      /\ claimed' = IF s.take = {"claim"} THEN claimed \cup {port[p]} ELSE claimed
      /\ raced' = IF s.take = {"port"} /\ met THEN raced \cup {port[p]} ELSE raced
      /\ port' = port /\ devices' = devices /\ abandoned' = abandoned
  BY DEF O!Succeeds, O!CanTake
<1>2. Middle(h, s)
  BY <1>1, NextCall
<1>3. /\ "claim" \notin s.give
      /\ "claim" \in s.take => s.take = {"claim"} /\ "port" \in h /\ "claim" \notin h /\ oDriver \in O!Serial
      /\ "port" \in s.take => s.take = {"port"}
  BY <1>2 DEF Middle
<1>4. mine'[p] = (h \cup s.take) \ s.give /\ \A q \in Programs : q # p => port'[q] = port[q] /\ mine'[q] = mine[q]
  BY <1>1 DEF OpenInv, OpenType
<1>5. raced \subseteq raced' /\ InUse(i)' = InUse(i) /\ Betweens(i) \subseteq Programs
  BY <1>1, InUseSame DEF Betweens
<1>6. p \in Betweens(i) <=> oDriver \in O!Serial /\ port[p] = i /\ "port" \in h /\ "claim" \notin h
  BY DEF Betweens, O!Between
<1>7. (port[p] = i => ~met) => \A q \in Betweens(i) : port[p] = i => q = p
  BY DEF Betweens
<1> HIDE DEF s, met
<1>8. Hands(i)' = IF port[p] = i /\ "claim" \in mine'[p] THEN Hands(i) \cup {p} ELSE Hands(i) \ {p}
  BY <1>1, <1>4, HandsStep
<1>9. /\ Betweens(i)' \subseteq Betweens(i) \cup {p}
      /\ p \in Betweens(i)' => oDriver \in O!Serial /\ port[p] = i /\ "port" \in mine'[p] /\ "claim" \notin mine'[p]
  BY <1>1, <1>4, BetweensStep
<1>10. p \in Hands(i) <=> port[p] = i /\ "claim" \in h
  BY DEF Hands
<1> HIDE DEF h
<1>11. CASE s.take = {"claim"} /\ port[p] = i
  <2>1. p \in Betweens(i)
    BY <1>3, <1>6, <1>11
  <2>2. i \notin claimed /\ Betweens(i) \subseteq {p}
    BY <2>1 DEF Exact
  <2>3. Hands(i) = {} /\ InUse(i) = {}
    BY <2>2 DEF Exact
  <2>4. "claim" \in mine'[p] /\ i \in claimed'
    BY <1>1, <1>3, <1>4, <1>11
  <2>5. Hands(i)' = {p} /\ InUse(i)' = {} /\ Betweens(i)' = {}
    BY <1>5, <1>8, <1>9, <1>11, <2>2, <2>3, <2>4
  <2>6. Exact(i)'
    BY <2>4, <2>5 DEF Exact
  <2> QED BY <1>1, <1>5, <2>6
<1>12. CASE s.take # {"claim"} \/ port[p] # i
  <2>1. i \in claimed' <=> i \in claimed
    BY <1>1, <1>12
  <2>2. port[p] = i => ("claim" \in mine'[p] <=> "claim" \in h)
    BY <1>3, <1>4, <1>12
  <2>3. Hands(i)' = Hands(i)
    BY <1>8, <1>10, <2>2
  <2>4. CASE s.take = {"port"} /\ p \in Betweens(i)'
    <3>1. i \notin claimed /\ port[p] = i
      BY <1>1, <1>9, <2>4
    <3>2. ~met
      BY <1>1, <2>4, <3>1
    <3>3. Betweens(i)' \subseteq {p}
      BY <1>7, <1>9, <3>1, <3>2
    <3>4. \A q \in Betweens(i)' : i \notin claimed' /\ Betweens(i)' \subseteq {q}
      BY <2>1, <3>1, <3>3
    <3>5. Hands(i)' = {} /\ InUse(i)' = {}
      BY <1>5, <2>3, <3>1 DEF Exact
    <3>6. Exact(i)'
      BY <2>1, <3>1, <3>4, <3>5 DEF Exact
    <3> QED BY <1>1, <1>5, <3>6
  <2>5. CASE s.take # {"port"} \/ p \notin Betweens(i)'
    <3>1. p \in Betweens(i)' => p \in Betweens(i)
      BY <1>3, <1>4, <1>6, <1>9, <2>5
    <3>2. Betweens(i)' \subseteq Betweens(i)
      BY <1>9, <3>1
    <3>3. Exact(i)'
      BY <1>5, <2>1, <2>3, <3>2, ClaimKept
    <3> QED BY <1>1, <1>5, <3>3
  <2> QED BY <2>4, <2>5
<1> QED BY <1>11, <1>12

(* Who gives back a claim held it, or was about to make one. *)
LEMMA GivesBackClaims ==
    ASSUME OpenInv, NEW p \in Programs, NEW r, Undone(mine[p], r), O!Release(p, port[p], mine[p], r),
           mine' = [mine EXCEPT ![p] = {}], O!NextPort(p) \/ O!Return(p), devices' = devices, oDriver' = oDriver,
           NEW i, i \notin abandoned', Exact(i)
    PROVE  Exact(i)'
<1> DEFINE h == mine[p]
           k == port[p]
<1>1. \/ claimed' = (IF "claim" \in r THEN claimed \ {k} ELSE claimed)
      \/ "claim" \in r /\ claimed' = claimed /\ abandoned' = IF "claim" \in h THEN abandoned \cup {k} ELSE abandoned
  BY DEF O!Release, O!Restore
<1>2. /\ "claim" \in h => "claim" \in r
      /\ "claim" \in r /\ "claim" \notin h => "port" \in h /\ oDriver \in O!Serial
  BY NoClaimLost DEF Undone, O!Left
<1>3. \A q \in Programs : q # p => port'[q] = port[q]
  BY DEF O!NextPort, O!Return, OpenInv, OpenType
<1>4. mine'[p] = {} /\ \A q \in Programs : q # p => port'[q] = port[q] /\ mine'[q] = mine[q]
  BY <1>3 DEF OpenInv, OpenType
<1>5. Hands(i)' = Hands(i) \ {p} /\ InUse(i)' = InUse(i) /\ Betweens(i)' \subseteq Betweens(i)
  BY <1>4, HandsStep, BetweensStep, InUseSame
<1>6. p \in Hands(i) <=> k = i /\ "claim" \in h
  BY DEF Hands
<1>7. p \in Betweens(i) <=> oDriver \in O!Serial /\ k = i /\ "port" \in h /\ "claim" \notin h
  BY DEF Betweens, O!Between
<1> HIDE DEF h, k
<1>8. CASE p \in Hands(i)
  <2>1. Hands(i) = {p} /\ InUse(i) = {} /\ i \in claimed
    BY <1>8 DEF Exact
  <2>2. i \notin claimed'
    BY <1>1, <1>2, <1>6, <1>8
  <2>3. Hands(i)' = {} /\ InUse(i)' = {}
    BY <1>5, <2>1
  <2> QED BY <1>5, <2>1, <2>2, <2>3, ClaimFreed
<1>9. CASE p \notin Hands(i)
  <2>1. Hands(i)' = Hands(i)
    BY <1>5, <1>9
  <2>2. i \in claimed' <=> i \in claimed
    <3>1. CASE k = i /\ "claim" \in r
      <4>1. p \in Betweens(i)
        BY <1>2, <1>6, <1>7, <1>9, <3>1
      <4>2. i \notin claimed
        BY <4>1 DEF Exact
      <4> QED BY <1>1, <4>2
    <3>2. CASE k # i \/ "claim" \notin r
      BY <1>1, <3>2
    <3> QED BY <3>1, <3>2
  <2> QED BY <1>5, <2>1, <2>2, ClaimKept
<1> QED BY <1>8, <1>9

LEMMA FoundClaims ==
    ASSUME OpenInv, NEW p \in Programs, O!Found(p), NEW i, i \notin abandoned', Exact(i)
    PROVE  Exact(i)' /\ raced' = raced
<1> DEFINE s == Head(todo[p])
<1>1. /\ fn[p] = "scan" /\ Len(todo[p]) = 1 /\ oDriver # "acr122s"
      /\ O!Release(p, port[p], mine[p], s.give) /\ mine' = [mine EXCEPT ![p] = {}] /\ O!NextPort(p)
      /\ devices' = devices /\ raced' = raced /\ oDriver' = oDriver
  BY DEF O!Found
<1>2. Last(fn[p], mine[p], s)
  BY <1>1, NextCall
<1>3. Undone(mine[p], s.give)
  BY <1>1, <1>2, SettledUndone DEF Last
<1> HIDE DEF s
<1> QED BY <1>1, <1>3, GivesBackClaims

LEMMA FailsClaims ==
    ASSUME OpenInv, NEW p \in Programs, O!Fails(p), NEW i, i \notin abandoned', Exact(i)
    PROVE  Exact(i)' /\ raced' = raced
<1> DEFINE s == Head(todo[p])
<1>1. /\ fn[p] \in {"scan", "open"} /\ (s.give = {} \/ s.undo # {})
      /\ O!Release(p, port[p], mine[p], s.undo) /\ mine' = [mine EXCEPT ![p] = {}]
      /\ O!NextPort(p) \/ O!Return(p)
      /\ devices' = devices /\ raced' = raced /\ oDriver' = oDriver
  BY DEF O!Fails
<1>2. Failing(mine[p], s)
  BY <1>1, NextCall
<1>3. Undone(mine[p], s.undo)
  BY <1>1, <1>2 DEF Failing
<1> HIDE DEF s
<1> QED BY <1>1, <1>3, GivesBackClaims

LEMMA OpenedClaims ==
    ASSUME OpenInv, NEW p \in Programs, O!Opened(p), NEW i, Exact(i)
    PROVE  Exact(i)' /\ raced' = raced /\ abandoned' = abandoned
<1> DEFINE s == Head(todo[p])
           has == mine[p] \ s.give
           d == [port |-> port[p], call |-> attempts, has |-> has]
           t == <<p, d>>
<1>1. /\ fn[p] = "open" /\ Len(todo[p]) = 1 /\ oDriver # "acr122s"
      /\ devices' = [devices EXCEPT ![p] = devices[p] \cup {d}]
      /\ mine' = [mine EXCEPT ![p] = {}] /\ port' = port /\ oDriver' = oDriver
      /\ claimed' = claimed /\ raced' = raced /\ abandoned' = abandoned
  BY DEF O!Opened, O!Return
<1>2. /\ devices \in [Programs -> SUBSET Device] /\ mine \in [Programs -> SUBSET Things] /\ attempts \in Nat
  BY DEF OpenInv, OpenType
<1>3. port[p] \in 1..Ports /\ Last(fn[p], mine[p], s)
  BY <1>1, NextCall
<1>4. s.give \cap {"claim", "context"} = {}
  BY <1>1, <1>3 DEF Last
<1>5. has \in SUBSET Things /\ ("claim" \in has <=> "claim" \in mine[p])
  BY <1>2, <1>4
<1> HIDE DEF s, has
<1>6. d \in Device /\ d.has = has /\ d.port = port[p]
  BY <1>2, <1>3, <1>5 DEF Device
<1> HIDE DEF d
<1>7. mine'[p] = {} /\ \A q \in Programs : q # p => port'[q] = port[q] /\ mine'[q] = mine[q]
  BY <1>1, <1>2
<1>8. Hands(i)' = Hands(i) \ {p} /\ Betweens(i)' \subseteq Betweens(i)
  BY <1>1, <1>7, HandsStep, BetweensStep
<1>9. devices'[p] = devices[p] \cup {d} /\ \A q \in Programs : q # p => devices'[q] = devices[q]
  BY <1>1, <1>2
<1>10. t \in Programs \X Device /\ t[1] = p /\ t[2] = d
  BY <1>6
<1>11. \A x \in Programs \X Device : x[1] = p /\ x[2] = d => x = t
  OBVIOUS
<1> HIDE DEF t
<1>12. InUse(i)' = IF port[p] = i /\ "claim" \in mine[p] THEN InUse(i) \cup {t} ELSE InUse(i)
  <2>1. CASE port[p] = i /\ "claim" \in mine[p]
    <3>1. \A x \in Programs \X Device : x[2] \in devices'[x[1]] /\ x[2].port = i /\ "claim" \in x[2].has
             <=> x \in InUse(i) \/ x = t
      BY <1>5, <1>6, <1>9, <1>10, <1>11, <2>1 DEF InUse
    <3>2. InUse(i)' = {x \in Programs \X Device : x[2] \in devices'[x[1]] /\ x[2].port = i /\ "claim" \in x[2].has}
      BY DEF InUse
    <3>3. InUse(i) \subseteq Programs \X Device
      BY DEF InUse
    <3> QED BY <1>10, <2>1, <3>1, <3>2, <3>3
  <2>2. CASE ~(port[p] = i /\ "claim" \in mine[p])
    <3>1. \A x \in Programs \X Device : x[2] \in devices'[x[1]] /\ x[2].port = i /\ "claim" \in x[2].has
             <=> x \in InUse(i)
      BY <1>5, <1>6, <1>9, <1>10, <1>11, <2>2 DEF InUse
    <3>2. InUse(i)' = {x \in Programs \X Device : x[2] \in devices'[x[1]] /\ x[2].port = i /\ "claim" \in x[2].has}
      BY DEF InUse
    <3>3. InUse(i) \subseteq Programs \X Device
      BY DEF InUse
    <3> QED BY <2>2, <3>1, <3>2, <3>3
  <2> QED BY <2>1, <2>2
<1>13. p \in Hands(i) <=> port[p] = i /\ "claim" \in mine[p]
  BY DEF Hands
<1>14. CASE p \in Hands(i)
  <2>1. Hands(i) = {p} /\ InUse(i) = {} /\ i \in claimed /\ Betweens(i) = {}
    BY <1>14 DEF Exact
  <2>2. Hands(i)' = {} /\ InUse(i)' = {t} /\ Betweens(i)' = {}
    BY <1>8, <1>12, <1>13, <1>14, <2>1
  <2>3. Exact(i)'
    BY <1>1, <1>10, <2>1, <2>2 DEF Exact
  <2> QED BY <1>1, <2>3
<1>15. CASE p \notin Hands(i)
  <2>1. Hands(i)' = Hands(i) /\ InUse(i)' = InUse(i)
    BY <1>8, <1>12, <1>13, <1>15
  <2>2. Exact(i)'
    BY <1>1, <1>8, <2>1, ClaimKept
  <2> QED BY <1>1, <2>2
<1> QED BY <1>14, <1>15

LEMMA DoCloseClaims ==
    ASSUME OpenInv, NEW p \in Programs, NEW d \in devices[p], O!DoClose(p, d), NEW i, i \notin abandoned', Exact(i)
    PROVE  Exact(i)' /\ raced' = raced
<1> DEFINE t == <<p, d>>
<1>1. /\ devices' = [devices EXCEPT ![p] = devices[p] \ {d}] /\ O!Release(p, d.port, d.has, O!Close)
      /\ port' = port /\ mine' = mine /\ raced' = raced /\ oDriver' = oDriver
  BY DEF O!DoClose
<1>2. devices \in [Programs -> SUBSET Device] /\ d \in Device
  BY DEF OpenInv, OpenType
<1>3. Settled(d.has, O!Close)
  BY DEF OpenInv, DevicesSettled, Closable
<1>4. "claim" \in O!Close <=> "claim" \in d.has
  BY <1>3, ClaimGiven
<1>5. \/ claimed' = (IF "claim" \in O!Close THEN claimed \ {d.port} ELSE claimed)
      \/ "claim" \in O!Close /\ claimed' = claimed /\ abandoned' = IF "claim" \in d.has THEN abandoned \cup {d.port} ELSE abandoned
  BY <1>1 DEF O!Release, O!Restore
<1>6. Hands(i)' = Hands(i) /\ Betweens(i)' \subseteq Betweens(i)
  BY <1>1 DEF Hands, Betweens, O!Between, O!Serial
<1>7. devices'[p] = devices[p] \ {d} /\ \A q \in Programs : q # p => devices'[q] = devices[q]
  BY <1>1, <1>2
<1>8. t \in Programs \X Device /\ t[1] = p /\ t[2] = d
  BY <1>2
<1>9. \A x \in Programs \X Device : x[1] = p /\ x[2] = d => x = t
  OBVIOUS
<1> HIDE DEF t
<1>10. InUse(i)' = InUse(i) \ {t}
  <2>1. \A x \in Programs \X Device : x[2] \in devices'[x[1]] /\ x[2].port = i /\ "claim" \in x[2].has
           <=> x \in InUse(i) /\ x # t
    BY <1>7, <1>8, <1>9 DEF InUse
  <2>2. InUse(i)' = {x \in Programs \X Device : x[2] \in devices'[x[1]] /\ x[2].port = i /\ "claim" \in x[2].has}
    BY DEF InUse
  <2>3. InUse(i) \subseteq Programs \X Device
    BY DEF InUse
  <2> QED BY <2>1, <2>2, <2>3
<1>11. t \in InUse(i) <=> d.port = i /\ "claim" \in d.has
  BY <1>8 DEF InUse
<1>12. CASE t \in InUse(i)
  <2>1. Hands(i) = {} /\ InUse(i) = {t} /\ i \in claimed
    BY <1>12 DEF Exact
  <2>2. i \notin claimed'
    BY <1>4, <1>5, <1>11, <1>12
  <2>3. Hands(i)' = {} /\ InUse(i)' = {}
    BY <1>6, <1>10, <2>1
  <2>4. Exact(i)'
    BY <1>6, <2>1, <2>2, <2>3, ClaimFreed
  <2> QED BY <1>1, <2>4
<1>13. CASE t \notin InUse(i)
  <2>1. InUse(i)' = InUse(i)
    BY <1>10, <1>13
  <2>2. i \in claimed' <=> i \in claimed
    BY <1>4, <1>5, <1>11, <1>13
  <2>3. Exact(i)'
    BY <1>6, <2>1, <2>2, ClaimKept
  <2> QED BY <1>1, <2>3
<1> QED BY <1>12, <1>13

LEMMA KillClaims ==
    ASSUME OpenInv, NEW p \in Programs, O!Kill(p), NEW i \in 1..Ports, i \notin abandoned', Exact(i)
    PROVE  Exact(i)' /\ raced' = raced /\ abandoned \subseteq abandoned'
<1>1. /\ abandoned' = abandoned \cup {k \in 1..Ports : O!Holds(p, k, "claim")}
      /\ mine' = [mine EXCEPT ![p] = {}] /\ devices' = [devices EXCEPT ![p] = {}]
      /\ port' = port /\ claimed' = claimed /\ raced' = raced /\ oDriver' = oDriver
  BY DEF O!Kill
<1>2. ~O!Holds(p, i, "claim")
  BY <1>1
<1>3. p \notin Hands(i) /\ \A x \in InUse(i) : x[1] # p
  BY <1>2 DEF O!Holds, Hands, InUse
<1>4. devices \in [Programs -> SUBSET Device] /\ mine \in [Programs -> SUBSET Things]
  BY DEF OpenInv, OpenType
<1>5. mine'[p] = {} /\ \A q \in Programs : q # p => port'[q] = port[q] /\ mine'[q] = mine[q]
  BY <1>1, <1>4
<1>6. Hands(i)' = Hands(i) \ {p} /\ Betweens(i)' \subseteq Betweens(i)
  BY <1>1, <1>5, HandsStep, BetweensStep
<1>7. devices'[p] = {} /\ \A q \in Programs : q # p => devices'[q] = devices[q]
  BY <1>1, <1>4
<1>8. InUse(i)' = InUse(i)
  <2>1. \A x \in Programs \X Device : x[2] \in devices'[x[1]] /\ x[2].port = i /\ "claim" \in x[2].has
           <=> x \in InUse(i)
    BY <1>3, <1>7 DEF InUse
  <2>2. InUse(i)' = {x \in Programs \X Device : x[2] \in devices'[x[1]] /\ x[2].port = i /\ "claim" \in x[2].has}
    BY DEF InUse
  <2>3. InUse(i) \subseteq Programs \X Device
    BY DEF InUse
  <2> QED BY <2>1, <2>2, <2>3
<1>9. Hands(i)' = Hands(i)
  BY <1>3, <1>6
<1>10. Exact(i)'
  BY <1>1, <1>6, <1>8, <1>9, ClaimKept
<1> QED BY <1>1, <1>10

-----------------------------------------------------------------------------
(* Claimed holds at the start, every step keeps it, and ClaimTells         *)
(* follows.                                                                *)
LEMMA InitClaimed == O!Init => Claimed
<1> SUFFICES ASSUME O!Init, NEW i PROVE Exact(i)
  BY DEF Claimed
<1>1. claimed = {} /\ mine = [p \in Programs |-> {}] /\ devices = [p \in Programs |-> {}]
  BY DEF O!Init
<1>2. Hands(i) = {}
  BY <1>1 DEF Hands
<1>3. InUse(i) = {} /\ Betweens(i) = {}
  BY <1>1 DEF InUse, Betweens, O!Between
<1> QED BY <1>1, <1>2, <1>3 DEF Exact

LEMMA NextClaimed == OpenInv /\ Claimed /\ [O!Next]_(O!vars) => Claimed'
<1> SUFFICES ASSUME OpenInv, Claimed, [O!Next]_(O!vars), NEW i \in 1..Ports, i \notin raced', i \notin abandoned'
             PROVE  Exact(i)'
  BY DEF Claimed
<1>1. i \notin raced /\ i \notin abandoned => Exact(i)
  BY DEF Claimed
<1>2. CASE O!Next
  <2>1. PICK p \in Programs :
           \/ O!DoScan(p) \/ O!Succeeds(p) \/ O!Found(p) \/ O!Opened(p) \/ O!Fails(p) \/ O!Kill(p)
           \/ \E k \in 1..Ports : O!DoOpen(p, k)
           \/ \E d \in devices[p] : O!DoClose(p, d)
    BY <1>2 DEF O!Next
  <2>2. Exact(i)
    <3>1. raced \subseteq raced' /\ abandoned \subseteq abandoned'
      BY <2>1 DEF O!DoScan, O!DoOpen, O!Begin, O!Succeeds, O!Found, O!Opened, O!Fails, O!Kill, O!DoClose, O!Release, O!Restore
    <3> QED BY <1>1, <3>1
  <2>3. CASE O!DoScan(p)
    BY <2>2, <2>3, BeginClaims DEF O!DoScan
  <2>4. CASE \E k \in 1..Ports : O!DoOpen(p, k)
    BY <2>2, <2>4, BeginClaims DEF O!DoOpen
  <2>5. CASE O!Succeeds(p)
    BY <2>2, <2>5, SucceedsClaims
  <2>6. CASE O!Found(p)
    BY <2>2, <2>6, FoundClaims
  <2>7. CASE O!Opened(p)
    BY <2>2, <2>7, OpenedClaims
  <2>8. CASE O!Fails(p)
    BY <2>2, <2>8, FailsClaims
  <2>9. CASE O!Kill(p)
    BY <2>2, <2>9, KillClaims
  <2>10. CASE \E d \in devices[p] : O!DoClose(p, d)
    BY <2>2, <2>10, DoCloseClaims
  <2> QED BY <2>1, <2>3, <2>4, <2>5, <2>6, <2>7, <2>8, <2>9, <2>10
<1>3. CASE UNCHANGED O!vars
  <2>1. port' = port /\ mine' = mine /\ devices' = devices /\ claimed' = claimed /\ raced' = raced /\ abandoned' = abandoned
        /\ oDriver' = oDriver
    BY <1>3 DEF O!vars
  <2>2. Hands(i)' = Hands(i) /\ InUse(i)' = InUse(i) /\ Betweens(i)' \subseteq Betweens(i)
    BY <2>1 DEF Hands, InUse, Betweens, O!Between, O!Serial
  <2> QED BY <1>1, <2>1, <2>2, ClaimKept
<1> QED BY <1>2, <1>3

LEMMA ClaimedTells == OpenInv /\ Claimed => ClaimTells
<1> SUFFICES ASSUME OpenInv, Claimed, NEW i \in 1..Ports \ (raced \cup abandoned)
             PROVE  i \in claimed <=> \E p \in Programs : O!Holds(p, i, "claim")
  BY DEF ClaimTells, O!ClaimTells
<1>1. Exact(i)
  BY DEF Claimed
<1>2. ASSUME NEW p \in Programs
      PROVE  O!Holds(p, i, "claim") <=> p \in Hands(i) \/ \E x \in InUse(i) : x[1] = p
  <2>1. devices[p] \subseteq Device /\ lost[p] \subseteq Places
    BY DEF OpenInv, OpenType
  <2>2. [port |-> i, what |-> "claim"] \notin lost[p]
    <3>1. "claim" \notin Forgotten(p)
      BY NoClaimLost DEF OpenInv, Counted
    <3>2. [port |-> i, what |-> "claim"].what = "claim"
      OBVIOUS
    <3> QED BY <3>1, <3>2 DEF Forgotten, What
  <2>3. ~ O!Lost(i, {"claim"}) \subseteq lost[p]
    BY <2>2, LostAt
  <2>4. ASSUME NEW d \in devices[p], d.port = i, "claim" \in d.has PROVE \E x \in InUse(i) : x[1] = p
    <3>1. <<p, d>> \in InUse(i) /\ <<p, d>>[1] = p
      BY <2>1, <2>4 DEF InUse
    <3> QED BY <3>1
  <2>5. ASSUME NEW x \in InUse(i), x[1] = p PROVE \E d \in devices[p] : d.port = i /\ "claim" \in d.has
    BY <2>5 DEF InUse
  <2> QED BY <2>3, <2>4, <2>5 DEF O!Holds, Hands
<1>3. Hands(i) \subseteq Programs /\ \A x \in InUse(i) : x[1] \in Programs
  BY DEF Hands, InUse
<1>4. CASE i \in claimed
  <2>1. Hands(i) # {} \/ InUse(i) # {}
    BY <1>1, <1>4 DEF Exact
  <2> QED BY <1>2, <1>3, <1>4, <2>1
<1>5. CASE i \notin claimed
  <2>1. Hands(i) = {} /\ InUse(i) = {}
    BY <1>1, <1>5 DEF Exact
  <2> QED BY <1>2, <1>5, <2>1
<1> QED BY <1>4, <1>5

(* CCLAIMED tells the truth: a serial port is marked as long as some       *)
(* program has it, and no longer, also when others find it taken or cannot *)
(* mark one that was free; unless two programs found it free at the same   *)
(* time, or one that had it was killed or could not put the settings back  *)
(* (uart_open, uart_close_ext).                                            *)
THEOREM ClaimTellsHolds == O!Spec => []ClaimTells
<1>1. O!Init => OpenInv /\ Claimed
  BY OpenInit, InitClaimed
<1>2. OpenInv /\ Claimed /\ [O!Next]_(O!vars) => (OpenInv /\ Claimed)'
  BY OpenNext, NextClaimed
<1>3. OpenInv /\ Claimed => ClaimTells
  BY ClaimedTells
<1> QED BY <1>1, <1>2, <1>3, PTL DEF O!Spec

-----------------------------------------------------------------------------
(* Folds over sequences.  A fold applies its operator to the element of the *)
(* largest index that is left; so it goes through 1..k from below.         *)
Greatest(s) == CHOOSE x \in s : \A y \in s : x >= y

LEMMA LeastOf ==
    ASSUME NEW T \in SUBSET Nat, T # {}
    PROVE  \E x \in T : \A y \in T : x <= y
<1> DEFINE R == {ss \in Nat \X Nat : ss[1] < ss[2]}
<1>1. IsWellFoundedOn(R, Nat)
  BY NatLessThanWellFounded DEF OpToRel
<1>2. \E x \in T : \A y \in T : ~ (<<y, x>> \in R)
  <2> HIDE DEF R
  <2> QED
    BY <1>1, WFMin
<1>3. PICK x \in T : \A y \in T : ~ (<<y, x>> \in R)
  BY <1>2
<1>4. ASSUME NEW y \in T PROVE x <= y
  <2>1. y < x => <<y, x>> \in R
    OBVIOUS
  <2> QED
    BY <2>1, <1>3
<1> QED
  BY <1>4

LEMMA StepByStep ==
    ASSUME NEW n \in Nat, NEW T, 0 \in T, \A k \in Nat : k < n /\ k \in T => k + 1 \in T
    PROVE  \A k \in 0..n : k \in T
<1> DEFINE N == {k \in 0..n : k \notin T}
<1>1. SUFFICES ASSUME N # {} PROVE FALSE
  OBVIOUS
<1>2. PICK k \in N : \A j \in N : k <= j
  <2>1. N \in SUBSET Nat
    OBVIOUS
  <2> HIDE DEF N
  <2> QED
    BY <1>1, <2>1, LeastOf
<1>3. k - 1 \in Nat /\ k - 1 < n /\ (k - 1) + 1 = k
  OBVIOUS
<1>4. k - 1 \in T
  BY <1>2, <1>3
<1> QED
  BY <1>3, <1>4

LEMMA GreatestIn ==
    ASSUME NEW n \in Nat, NEW s \in SUBSET (1..n), s # {}
    PROVE  Greatest(s) \in s /\ \A y \in s : Greatest(s) >= y
<1> DEFINE T == {n - x : x \in s}
<1>1. T \in SUBSET Nat /\ T # {}
  <2>1. \A x \in s : x \in 1..n /\ n - x \in Nat
    OBVIOUS
  <2>2. PICK x \in s : TRUE
    OBVIOUS
  <2>3. n - x \in T
    OBVIOUS
  <2> QED
    BY <2>1, <2>3
<1>2. PICK z \in T : \A y \in T : z <= y
  <2> HIDE DEF T
  <2> QED
    BY <1>1, LeastOf
<1>3. PICK x \in s : z = n - x
  BY <1>2
<1>4. \A y \in s : n - y \in T
  OBVIOUS
<1>5. \A y \in s : n - x <= n - y
  BY <1>2, <1>3, <1>4
<1>6. \A y \in s : x >= y
  BY <1>5
<1> QED
  BY <1>6 DEF Greatest

LEMMA GreatestOf ==
    ASSUME NEW k \in Nat \ {0}
    PROVE  Greatest(1..k) = k /\ (1..k) \ {k} = 1..(k - 1)
<1>1. 1..k # {} /\ k \in 1..k
  OBVIOUS
<1>2. Greatest(1..k) \in 1..k /\ \A y \in 1..k : Greatest(1..k) >= y
  BY <1>1, GreatestIn
<1>3. Greatest(1..k) >= k /\ Greatest(1..k) <= k /\ Greatest(1..k) \in Int
  BY <1>1, <1>2
<1>4. Greatest(1..k) = k
  BY <1>3
<1>5. (1..k) \ {k} = 1..(k - 1)
  OBVIOUS
<1> QED
  BY <1>4, <1>5

(* h[i] is what the fold does with the element of index i. *)
Folds(f, h, b, D) == f = [s \in D |-> IF s = {} THEN b ELSE h[Greatest(s)][f[s \ {Greatest(s)}]]]
Loops(f, h, b, n, M) ==
    /\ n \in Nat /\ b \in M /\ h \in [1..n -> [M -> M]]
    /\ f[{}] = b
    /\ \A s \in SUBSET (1..n) : s # {} /\ f[s \ {Greatest(s)}] \in M =>
          f[s] = h[Greatest(s)][f[s \ {Greatest(s)}]]
Upto(n, k) == {s \in SUBSET (1..n) : \A x \in s : x <= k}

LEMMA FoldExists ==
    ASSUME NEW n \in Nat, NEW M, NEW b \in M, NEW h \in [1..n -> [M -> M]]
    PROVE  \E f \in [SUBSET (1..n) -> M] : Folds(f, h, b, SUBSET (1..n))
<1> DEFINE Has(k) == \E f \in [Upto(n, k) -> M] : Folds(f, h, b, Upto(n, k))
<1>1. Has(0)
  <2>1. Upto(n, 0) = {{}}
    BY DEF Upto
  <2>2. Folds([s \in {{}} |-> b], h, b, {{}})
    BY DEF Folds
  <2>3. [s \in {{}} |-> b] \in [{{}} -> M]
    OBVIOUS
  <2> QED
    BY <2>1, <2>2, <2>3
<1>2. ASSUME NEW k \in Nat, k < n, Has(k) PROVE Has(k + 1)
  <2>1. PICK f \in [Upto(n, k) -> M] : Folds(f, h, b, Upto(n, k))
    BY <1>2
  <2> DEFINE g == [s \in Upto(n, k + 1) |-> IF s = {} THEN b ELSE h[Greatest(s)][f[s \ {Greatest(s)}]]]
  <2>2. ASSUME NEW s \in Upto(n, k + 1), s # {}
        PROVE  s \ {Greatest(s)} \in Upto(n, k) /\ s \ {Greatest(s)} \in Upto(n, k + 1) /\ Greatest(s) \in 1..n
    <3>1. s \in SUBSET (1..n) /\ Greatest(s) \in s /\ \A y \in s : Greatest(s) >= y
      BY <2>2, GreatestIn DEF Upto
    <3>2. ASSUME NEW y \in s, y # Greatest(s) PROVE y \in 1..n /\ y <= k /\ y <= k + 1
      <4>1. y \in 1..n /\ Greatest(s) \in 1..n /\ Greatest(s) >= y /\ Greatest(s) <= k + 1
        BY <3>1 DEF Upto
      <4> QED
        BY <3>2, <4>1
    <3> QED
      BY <3>1, <3>2 DEF Upto
  <2>3. g \in [Upto(n, k + 1) -> M]
    <3>1. ASSUME NEW s \in Upto(n, k + 1), s # {} PROVE h[Greatest(s)][f[s \ {Greatest(s)}]] \in M
      BY <3>1, <2>2
    <3> QED
      BY <3>1
  <2>4. ASSUME NEW s \in Upto(n, k) PROVE f[s] = g[s]
    <3>1. s \in Upto(n, k + 1)
      BY DEF Upto
    <3> QED
      BY <3>1, <2>1 DEF Folds
  <2>5. Folds(g, h, b, Upto(n, k + 1))
    BY <2>2, <2>4 DEF Folds
  <2> QED
    BY <2>3, <2>5
<1>3. Has(n)
  <2> DEFINE T == {k \in Nat : Has(k)}
  <2>1. 0 \in T /\ \A k \in Nat : k < n /\ k \in T => k + 1 \in T
    <3> HIDE DEF Has
    <3> QED
      BY <1>1, <1>2
  <2>2. n \in 0..n
    OBVIOUS
  <2> HIDE DEF T
  <2>3. n \in T
    BY <2>1, <2>2, StepByStep
  <2> QED
    BY <2>3 DEF T
<1>4. Upto(n, n) = SUBSET (1..n)
  BY DEF Upto
<1> QED
  BY <1>3, <1>4

(* What a fold is after each element. *)
LEMMA Folded ==
    ASSUME NEW n, NEW M, NEW b, NEW h, NEW f, Loops(f, h, b, n, M)
    PROVE  /\ f[1..0] = b
           /\ \A k \in 0..n : f[1..k] \in M
           /\ \A k \in 1..n : f[1..k] = h[k][f[1..(k - 1)]]
<1>0. /\ n \in Nat /\ b \in M /\ f[{}] = b
      /\ \A s \in SUBSET (1..n) : s # {} /\ f[s \ {Greatest(s)}] \in M =>
            f[s] = h[Greatest(s)][f[s \ {Greatest(s)}]]
      /\ \A i \in 1..n, m \in M : h[i][m] \in M
  BY DEF Loops
<1>1. 1..0 = {}
  OBVIOUS
<1>2. ASSUME NEW k \in 1..n, f[1..(k - 1)] \in M
      PROVE  f[1..k] = h[k][f[1..(k - 1)]] /\ f[1..k] \in M
  <2>1. Greatest(1..k) = k /\ (1..k) \ {k} = 1..(k - 1)
    BY <1>0, GreatestOf
  <2>2. 1..k \in SUBSET (1..n) /\ 1..k # {}
    <3>1. k \in 1..k /\ \A x \in 1..k : x \in 1..n
      BY <1>0
    <3> QED
      BY <3>1
  <2>3. (1..k) \ {Greatest(1..k)} = 1..(k - 1)
    BY <2>1
  <2>4. f[1..k] = h[k][f[1..(k - 1)]]
    BY <1>0, <1>2, <2>1, <2>2, <2>3, Zenon
  <2> QED
    BY <1>0, <1>2, <2>4
<1> DEFINE T == {k \in Nat : f[1..k] \in M}
<1>3. 0 \in T
  BY <1>0, <1>1
<1>4. ASSUME NEW k \in Nat, k < n, k \in T PROVE k + 1 \in T
  <2>1. k + 1 \in 1..n /\ (k + 1) - 1 = k
    BY <1>0, <1>4
  <2> QED
    BY <1>2, <1>4, <2>1
<1> HIDE DEF T
<1>5. \A k \in 0..n : k \in T
  BY <1>0, <1>3, <1>4, StepByStep
<1>6. \A k \in 0..n : f[1..k] \in M
  BY <1>5 DEF T
<1>7. \A k \in 1..n : k - 1 \in 0..n
  BY <1>0
<1> QED
  BY <1>0, <1>1, <1>2, <1>6, <1>7

-----------------------------------------------------------------------------
(* The device list.  The devices that are found there are devices of the   *)
(* user; and from a list with room left no scan goes past its end.         *)
Given == {user[i] : i \in DOMAIN user}

LEMMA TakenGiven ==
    ASSUME NEW S, user \in Seq(S)
    PROVE  C!Taken \in Seq(Given)
<1> DEFINE n == Len(user)
           M == Seq(Given)
           Keep(m, u) == IF u.optional /\ ~C!There(u.connstring) THEN m ELSE Append(m, u)
           h == [i \in 1..n |-> [m \in M |-> Keep(m, user[i])]]
           Raw(f) == f = [s \in SUBSET DOMAIN user |->
                             IF s = {} THEN <<>> ELSE Keep(f[s \ {Greatest(s)}], user[Greatest(s)])]
<1>1. n \in Nat /\ DOMAIN user = 1..n
  OBVIOUS
<1>2. \A i \in 1..n, m \in M : Keep(m, user[i]) \in M
  BY <1>1 DEF Given
<1>3. h \in [1..n -> [M -> M]] /\ <<>> \in M
  BY <1>2
<1>4. \A i \in 1..n, m \in M : h[i][m] = Keep(m, user[i])
  OBVIOUS
<1>5. C!Taken = (CHOOSE f : Raw(f))[DOMAIN user]
  BY DEF C!Taken, C!FoldLeft, C!MapThenFoldSet, C!Max, Greatest
<1>6. \E f : Raw(f)
  <2>1. PICK f \in [SUBSET (1..n) -> M] : Folds(f, h, <<>>, SUBSET (1..n))
    <3> HIDE DEF n, M, h
    <3> QED
      BY <1>1, <1>3, FoldExists
  <2>2. ASSUME NEW s \in SUBSET (1..n), s # {}
        PROVE  h[Greatest(s)][f[s \ {Greatest(s)}]] = Keep(f[s \ {Greatest(s)}], user[Greatest(s)])
    <3> HIDE DEF n, M, h, Keep
    <3>1. Greatest(s) \in 1..n /\ s \ {Greatest(s)} \in SUBSET (1..n)
      BY <1>1, <2>2, GreatestIn
    <3> QED
      BY <1>4, <2>1, <3>1
  <2> HIDE DEF n, M, h, Keep
  <2>3. Raw(f)
    BY <1>1, <2>1, <2>2 DEF Folds
  <2> HIDE DEF Raw
  <2> QED
    BY <2>3
<1>7. PICK f : Raw(f) /\ C!Taken = f[1..n]
  <2> HIDE DEF Raw
  <2> QED
    BY <1>1, <1>5, <1>6
<1>8. f[{}] = <<>>
  BY <1>7
<1>9. ASSUME NEW s \in SUBSET (1..n), s # {}, f[s \ {Greatest(s)}] \in M
      PROVE  f[s] = h[Greatest(s)][f[s \ {Greatest(s)}]]
  <2>1. Greatest(s) \in 1..n
    <3> HIDE DEF n
    <3> QED
      BY <1>1, <1>9, GreatestIn
  <2>2. f[s] = Keep(f[s \ {Greatest(s)}], user[Greatest(s)])
    BY <1>1, <1>7, <1>9
  <2> HIDE DEF n, M, h, Keep
  <2> QED
    BY <1>4, <1>9, <2>1, <2>2
<1> HIDE DEF n, M, h, Raw, Keep
<1>10. Loops(f, h, <<>>, n, M)
  BY <1>1, <1>3, <1>8, <1>9 DEF Loops
<1>11. \A k \in 0..n : f[1..k] \in M
  BY <1>10, Folded
<1> QED
  BY <1>1, <1>7, <1>11 DEF M

LEMMA ScansFit ==
    ASSUME NEW S, nfc_drivers \in Seq(S), NEW max \in Nat, NEW n \in Nat, n < max
    PROVE  C!autoscan(n, max) \in 0..max
<1> DEFINE l == Len(nfc_drivers)
           M == {m \in [n : 0..max, full : BOOLEAN] : m.n = max => m.full}
           b == [n |-> n, full |-> FALSE]
           Scan(m, d) ==
               IF m.full \/ ~C!ScanAllowed(d) THEN m
               ELSE LET k == IF m.n > max THEN C!ScanCount(d, C!Cardinality(Connstrings))
                             ELSE C!ScanCount(d, max - m.n)
                    IN  [n |-> m.n + k, full |-> k > 0 /\ m.n + k = max]
           h == [i \in 1..l |-> [m \in M |-> Scan(m, nfc_drivers[i])]]
           Raw(f) == f = [s \in SUBSET DOMAIN nfc_drivers |->
                             IF s = {} THEN b ELSE Scan(f[s \ {Greatest(s)}], nfc_drivers[Greatest(s)])]
<1>1. l \in Nat /\ DOMAIN nfc_drivers = 1..l /\ b \in M
  OBVIOUS
<1>2. ASSUME NEW d, NEW room \in Nat \ {0} PROVE C!ScanCount(d, room) \in 0..room
  <2> DEFINE P == {c \in Connstrings : readers[c] = d}
             k == C!Cardinality(P)
  <2>1. k \in Nat
    <3>1. IsFiniteSet(Connstrings)
      BY ContextAssumption
    <3>2. IsFiniteSet(P)
      BY <3>1, FS_Subset
    <3> QED
      BY <3>2, FS_CardinalityType DEF C!Cardinality, Cardinality
  <2>2. C!ScanCount(d, room) = CASE C!Test[d] = "before" -> (IF k < room THEN k ELSE room)
                                 [] C!Test[d] = "after" /\ room = 0 -> (IF k < 1 THEN k ELSE 1)
                                 [] C!Test[d] = "equal" /\ room = 0 -> k
                                 [] OTHER -> (IF k < room THEN k ELSE room)
    BY DEF C!ScanCount
  <2>3. C!ScanCount(d, room) = IF k < room THEN k ELSE room
    BY <2>2, room # 0
  <2> HIDE DEF k
  <2> QED
    BY <2>1, <2>3
<1>3. ASSUME NEW m \in M, NEW d PROVE Scan(m, d) \in M
  <2>1. CASE m.full \/ ~C!ScanAllowed(d)
    BY <2>1
  <2>2. CASE ~(m.full \/ ~C!ScanAllowed(d))
    <3> DEFINE k == C!ScanCount(d, max - m.n)
    <3>1. m.n \in Nat /\ m.n < max /\ max - m.n \in Nat \ {0}
      BY <2>2
    <3>2. k \in 0..(max - m.n)
      BY <1>2, <3>1
    <3>3. Scan(m, d) = [n |-> m.n + k, full |-> k > 0 /\ m.n + k = max]
      BY <2>2, <3>1
    <3>4. m.n + k \in 0..max /\ (m.n + k = max => k > 0)
      <4> HIDE DEF k
      <4> QED
        BY <3>1, <3>2
    <3> HIDE DEF k
    <3>5. [n |-> m.n + k, full |-> k > 0 /\ m.n + k = max] \in M
      BY <3>4
    <3> QED
      BY <3>3, <3>5
  <2> QED
    BY <2>1, <2>2
<1>4. h \in [1..l -> [M -> M]] /\ \A i \in 1..l, m \in M : h[i][m] = Scan(m, nfc_drivers[i])
  BY <1>3
<1>5. allow_autoscan => C!autoscan(n, max) = (CHOOSE f : Raw(f))[DOMAIN nfc_drivers].n
  BY DEF C!autoscan, C!FoldLeft, C!MapThenFoldSet, C!Max, Greatest
<1>6. \E f : Raw(f)
  <2>1. PICK f \in [SUBSET (1..l) -> M] : Folds(f, h, b, SUBSET (1..l))
    <3> HIDE DEF l, M, h, b
    <3> QED
      BY <1>1, <1>4, FoldExists
  <2>2. ASSUME NEW s \in SUBSET (1..l), s # {}
        PROVE  h[Greatest(s)][f[s \ {Greatest(s)}]] = Scan(f[s \ {Greatest(s)}], nfc_drivers[Greatest(s)])
    <3> HIDE DEF l, M, h, b, Scan
    <3>1. Greatest(s) \in 1..l /\ s \ {Greatest(s)} \in SUBSET (1..l)
      BY <1>1, <2>2, GreatestIn
    <3> QED
      BY <1>4, <2>1, <3>1
  <2> HIDE DEF l, M, h, b, Scan
  <2>3. Raw(f)
    BY <1>1, <2>1, <2>2 DEF Folds
  <2> HIDE DEF Raw
  <2> QED
    BY <2>3
<1> HIDE DEF l, M, h, b, Scan
<1>7. PICK f : Raw(f) /\ (allow_autoscan => C!autoscan(n, max) = f[1..l].n)
  <2> HIDE DEF Raw
  <2> QED
    BY <1>1, <1>5, <1>6
<1>8. f[{}] = b
  BY <1>7
<1>9. ASSUME NEW s \in SUBSET (1..l), s # {}, f[s \ {Greatest(s)}] \in M
      PROVE  f[s] = h[Greatest(s)][f[s \ {Greatest(s)}]]
  <2>1. Greatest(s) \in 1..l
    BY <1>1, <1>9, GreatestIn
  <2>2. f[s] = Scan(f[s \ {Greatest(s)}], nfc_drivers[Greatest(s)])
    BY <1>1, <1>7, <1>9
  <2> QED
    BY <1>4, <1>9, <2>1, <2>2
<1> HIDE DEF Raw
<1>10. Loops(f, h, b, l, M)
  BY <1>1, <1>4, <1>8, <1>9 DEF Loops
<1>11. f[1..l] \in M
  BY <1>1, <1>10, Folded
<1>12. f[1..l].n \in 0..max
  BY <1>11 DEF M
<1>13. ~allow_autoscan => C!autoscan(n, max) = n
  BY Zenon DEF C!autoscan
<1> QED
  BY <1>7, <1>12, <1>13

(* A list that is longer than the array is so only because an optional     *)
(* device of the user took the last place.                                 *)
LEMMA CountFits ==
    ASSUME NEW S, user \in Seq(S), NEW R, nfc_drivers \in Seq(R), NEW max \in Nat \ {0}
    PROVE  \/ C!ListCount(max) \in 0..max
           \/ allow_autoscan /\ Len(C!Taken) >= max /\ C!Taken[max].optional
<1> DEFINE T == C!Taken
           u == C!UserDevices(max)
           over == ~T[max].optional
<1>1. T \in Seq(Given) /\ Len(T) \in Nat
  BY TakenGiven
<1>2. CASE Len(T) < max
  <2>1. u = [n |-> Len(T), over |-> FALSE]
    BY <1>2 DEF C!UserDevices
  <2>2. C!ListCount(max) = C!autoscan(Len(T), max)
    BY <2>1 DEF C!ListCount
  <2> HIDE DEF T, u
  <2> QED
    BY <1>1, <1>2, <2>2, ScansFit
<1>3. CASE Len(T) >= max
  <2>1. u.n = max /\ u.over = over
    <3>1. u = [n |-> max, over |-> over]
      BY <1>1, <1>3 DEF C!UserDevices
    <3> HIDE DEF u, T, over
    <3> QED
      BY <3>1
  <2>2. CASE ~T[max].optional
    <3>1. u.n = max /\ u.over
      BY <2>1, <2>2, Zenon
    <3>2. C!ListCount(max) = max
      BY <3>1 DEF C!ListCount
    <3> QED
      BY <3>2
  <2>3. CASE T[max].optional
    <3>1. u.n = max /\ ~u.over
      BY <2>1, <2>3, Zenon
    <3>2. C!ListCount(max) = C!autoscan(max, max)
      BY <3>1 DEF C!ListCount
    <3>3. ~allow_autoscan => C!ListCount(max) = max
      BY <3>2, Zenon DEF C!autoscan
    <3> HIDE DEF T, u, over
    <3> QED
      BY <1>3, <2>3, <3>3 DEF T
  <2> QED
    BY <2>2, <2>3
<1> QED
  BY <1>1, <1>2, <1>3

(* The user's devices that are there stay the same as long as these do. *)
LEMMA TakenStays == ASSUME user' = user, readers' = readers PROVE C!Taken' = C!Taken
BY DEF C!Taken, C!There, C!FoldLeft, C!MapThenFoldSet

(* Before the drivers are registered nothing is listed, and from then on   *)
(* the user's devices and the options of the configuration stay.           *)
UserDevice ==
    [name       : UserNames \cup {"", "default", "only"},
     connstring : Connstrings \cup {""},
     optional   : BOOLEAN]
Scanned == {"pn53x_usb", "acr122_pcsc", "pn532_uart"}
ListInv ==
    /\ user \in Seq(UserDevice)
    /\ allow_autoscan \in BOOLEAN
    /\ nfc_drivers \in Seq(Scanned)
    /\ phase \in {"conf", "devices"} => found = 0 /\ len = 0
    /\ ListFits

THEOREM ListFitsHolds == C!Spec => []ListFits
<1>1. C!Init => ListInv
  <2> SUFFICES ASSUME C!Init PROVE ListInv
    OBVIOUS
  <2>1. \A c \in Connstrings : [C!Blank EXCEPT !.name = "default", !.connstring = c] \in UserDevice
    BY Zenon DEF C!Blank, UserDevice
  <2>2. user \in Seq(UserDevice)
    <3>1. user = <<>> \/ \E c \in Connstrings : user = <<[C!Blank EXCEPT !.name = "default", !.connstring = c]>>
      BY Zenon DEF C!Init
    <3>2. \A r \in UserDevice : <<r>> \in Seq(UserDevice)
      OBVIOUS
    <3> QED
      BY <2>1, <3>1, <3>2, Zenon, EmptySeq
  <2>3. nfc_drivers = <<>> /\ allow_autoscan = TRUE /\ len = 0 /\ found = 0
    BY Zenon DEF C!Init
  <2> QED
    BY <2>2, <2>3 DEF ListInv, ListFits, C!ListFits
<1>2. ListInv /\ [C!Next]_(C!vars) => ListInv'
  <2> SUFFICES ASSUME ListInv, [C!Next]_(C!vars) PROVE ListInv'
    OBVIOUS
  <2>1. CASE C!conf_keyvalue_context
    <3>1. user' \in Seq(UserDevice)
      <4> DEFINE Added(taken) == IF user = <<>> \/ taken THEN Append(user, C!Blank) ELSE user
      <4>1. ASSUME NEW taken, NEW k \in {"name", "connstring", "optional"}, NEW v,
                   k = "name" => v \in UserNames, k = "connstring" => v \in Connstrings,
                   k = "optional" => v \in BOOLEAN, C!AddTo(taken, k, v)
            PROVE  user' \in Seq(UserDevice)
        <5>1. Added(taken) \in Seq(UserDevice) /\ Len(Added(taken)) \in 1..Len(Added(taken))
          <6>1. C!Blank \in UserDevice
            BY DEF C!Blank, UserDevice
          <6>2. user \in Seq(UserDevice)
            BY DEF ListInv
          <6>3. Append(user, C!Blank) \in Seq(UserDevice) /\ Append(user, C!Blank) # <<>>
            BY <6>1, <6>2, AppendProperties
          <6> HIDE DEF ListInv
          <6> QED
            BY <6>2, <6>3
        <5>2. user' = user \/ user' = [Added(taken) EXCEPT ![Len(Added(taken))][k] = v]
          BY <4>1 DEF C!AddTo
        <5> HIDE DEF Added
        <5>3. Added(taken)[Len(Added(taken))] \in UserDevice
          BY <5>1
        <5>4. [Added(taken)[Len(Added(taken))] EXCEPT ![k] = v] \in UserDevice
          BY <4>1, <5>3, Zenon DEF UserDevice
        <5>5. [Added(taken) EXCEPT ![Len(Added(taken))] = [Added(taken)[Len(Added(taken))] EXCEPT ![k] = v]] \in Seq(UserDevice)
          BY <5>1, <5>4, ExceptSeq
        <5> QED
          BY <5>2, <5>5 DEF ListInv
      <4> QED
        BY <2>1, <4>1, Zenon DEF C!conf_keyvalue_context, C!AddName, C!AddConnstring, C!AddOptional
    <3> QED
      BY <2>1, <3>1 DEF ListInv, ListFits, C!ListFits, C!conf_keyvalue_context
  <2>2. CASE C!conf_options
    <3>1. allow_autoscan' \in BOOLEAN
      BY <2>2 DEF ListInv, C!conf_options, C!string_as_boolean
    <3>2. UNCHANGED <<user, nfc_drivers, len, found, phase>> /\ phase = "conf"
      BY <2>2 DEF C!conf_options
    <3> QED
      BY <3>1, <3>2 DEF ListInv, ListFits, C!ListFits
  <2>3. CASE C!conf_devices_load
    BY <2>3 DEF ListInv, ListFits, C!ListFits, C!conf_devices_load, C!conf
  <2>4. CASE C!nfc_init
    <3>1. user' \in Seq(UserDevice)
      <4>1. ASSUME NEW c \in Connstrings, NEW o \in BOOLEAN
            PROVE  <<[C!Blank EXCEPT !.name = "only", !.connstring = c, !.optional = o]>> \in Seq(UserDevice)
        <5>1. [C!Blank EXCEPT !.name = "only", !.connstring = c, !.optional = o] \in UserDevice
          BY Zenon DEF C!Blank, UserDevice
        <5> QED
          BY <5>1
      <4>2. (user # <<>> /\ user[1].optional) \in BOOLEAN
        OBVIOUS
      <4> QED
        BY <2>4, <4>1, <4>2, Zenon DEF C!nfc_init, ListInv
    <3>2. nfc_drivers' \in Seq(Scanned)
      <4>1. C!Reverse(C!Registered) \in Seq(Scanned)
        BY DEF C!Registered, C!Reverse, Scanned
      <4> QED
        BY <2>4, <4>1, Zenon DEF C!nfc_init, ListInv
    <3> QED
      <4>1. phase \in {"conf", "devices"} /\ phase' = "ready" /\ UNCHANGED <<allow_autoscan, len, found>>
        BY <2>4, Zenon DEF C!nfc_init
      <4> QED
        BY <3>1, <3>2, <4>1 DEF ListInv, ListFits, C!ListFits
  <2>5. CASE C!nfc_exit
    <3>1. UNCHANGED <<user, readers, allow_autoscan, len, found>> /\ nfc_drivers' = <<>> /\ phase' = "over"
      BY <2>5 DEF C!nfc_exit, C!conf
    <3> QED
      BY <3>1, TakenStays DEF ListInv, ListFits, C!ListFits
  <2>6. ASSUME NEW n \in 1..MaxLen, C!nfc_list_devices(n) PROVE ListInv'
    <3>1. /\ UNCHANGED <<phase, user, readers, allow_autoscan, nfc_drivers>> /\ phase = "ready"
          /\ len' = n /\ found' = C!ListCount(n) /\ n \in Nat \ {0}
      BY <2>6, ContextAssumption DEF C!nfc_list_devices, C!conf
    <3>2. C!ListCount(n) \in 0..n \/ (allow_autoscan /\ Len(C!Taken) >= n /\ C!Taken[n].optional)
      BY <3>1, CountFits DEF ListInv
    <3>3. found' \in 0..len' \/ (allow_autoscan' /\ Len(C!Taken') >= len' /\ C!Taken'[len'].optional)
      BY <3>1, <3>2, TakenStays
    <3>4. ListFits'
      BY <3>1, <3>3 DEF ListFits, C!ListFits
    <3> QED
      BY <3>1, <3>4 DEF ListInv
  <2>7. CASE (\E c \in Connstrings : C!nfc_open(c)) \/ C!nfc_open_first \/ C!nfc_close
    <3>1. UNCHANGED <<phase, user, readers, allow_autoscan, nfc_drivers, len, found>>
      BY <2>7 DEF C!nfc_open, C!nfc_open_first, C!nfc_close, C!conf
    <3> QED
      BY <3>1, TakenStays DEF ListInv, ListFits, C!ListFits
  <2>8. CASE UNCHANGED C!vars
    <3>1. UNCHANGED <<phase, user, readers, allow_autoscan, nfc_drivers, len, found>>
      BY <2>8 DEF C!vars, C!conf
    <3> QED
      BY <3>1, TakenStays DEF ListInv, ListFits, C!ListFits
  <2> QED
    BY <2>1, <2>2, <2>3, <2>4, <2>5, <2>6, <2>7, <2>8 DEF C!Next
<1>3. ListInv => ListFits
  BY DEF ListInv
<1> QED
  BY <1>1, <1>2, <1>3, PTL DEF C!Spec

-----------------------------------------------------------------------------
(* Frames.  A message, the bytes its bits are put into, and what the chip   *)
(* sends of them.                                                          *)
LEMMA SeqOf ==
    ASSUME NEW n \in Nat, NEW S, NEW f \in [1..n -> S]
    PROVE  f \in Seq(S) /\ Len(f) = n
OBVIOUS

LEMMA Octal ==
    ASSUME NEW x \in Nat
    PROVE  x % 8 \in 0..7
OBVIOUS

LEMMA SamePlace ==
    ASSUME NEW j \in Nat, NEW z \in Nat, NEW o \in 0..7, NEW e \in 0..7, 8 * j + o = 8 * z + e
    PROVE  j = z /\ o = e
OBVIOUS

LEMMA Eighths ==
    ASSUME NEW n \in Nat
    PROVE  \E q \in Nat, r \in 0..7 :
             /\ n = 8 * q + r /\ n \div 8 = q /\ n % 8 = r
             /\ F!Up(n, 8) = IF r = 0 THEN q ELSE q + 1
<1>1. n = 8 * (n \div 8) + (n % 8) /\ n \div 8 \in Nat /\ n % 8 \in 0..7
  OBVIOUS
<1>2. (n + 7) \div 8 = IF n % 8 = 0 THEN n \div 8 ELSE (n \div 8) + 1
  OBVIOUS
<1>3. F!Up(n, 8) = (n + 7) \div 8
  BY DEF F!Up
<1> QED
  BY <1>1, <1>2, <1>3

LEMMA MessageFacts ==
    ASSUME NEW n \in Nat, NEW own \in BOOLEAN
    PROVE  LET m == F!Message(n, own) IN
           /\ m.own = own /\ m.bits \in [1..n -> Nat] /\ m.bits \in Seq(Nat) /\ Len(m.bits) = n
           /\ m.parity \in [1..F!Up(n, 8) -> Nat] /\ m.parity \in Seq(Nat) /\ Len(m.parity) = F!Up(n, 8)
           /\ F!Whole(m) <=> n % 8 = 0
<1> DEFINE m == F!Message(n, own)
<1>1. F!Up(n, 8) \in Nat
  BY Eighths
<1>2. m.own = own /\ m.bits = [i \in 1..n |-> i] /\ m.parity = [j \in 1..F!Up(n, 8) |-> (IF own THEN F!Own ELSE F!Odd) + j]
  BY DEF F!Message
<1>3. m.bits \in [1..n -> Nat]
  BY <1>2
<1>4. (IF own THEN F!Own ELSE F!Odd) \in Nat
  BY DEF F!Own, F!Odd
<1>5. m.parity \in [1..F!Up(n, 8) -> Nat]
  BY <1>1, <1>2, <1>4
<1> HIDE DEF m
<1>6. m.bits \in Seq(Nat) /\ Len(m.bits) = n
  BY <1>3, SeqOf
<1>7. m.parity \in Seq(Nat) /\ Len(m.parity) = F!Up(n, 8)
  BY <1>1, <1>5, SeqOf
<1>8. F!Whole(m) <=> n % 8 = 0
  BY <1>6 DEF F!Whole
<1> QED
  BY <1>2, <1>3, <1>5, <1>6, <1>7, <1>8 DEF m

(* Bit i of the bytes that bits are put into. *)
LEMMA BytesOf ==
    ASSUME NEW bits \in Seq(Nat)
    PROVE  /\ F!Bytes(bits) \in [0..(F!Up(Len(bits), 8) + 2) -> [1..8 -> Nat]]
           /\ \A j \in 0..(F!Up(Len(bits), 8) + 2), o \in 0..7 :
                 F!Bytes(bits)[j][o + 1] = IF 8 * j + o + 1 <= Len(bits) THEN bits[8 * j + o + 1] ELSE 0
<1> DEFINE U == F!Up(Len(bits), 8) + 2
           V(k) == IF k <= Len(bits) THEN bits[k] ELSE 0
<1>1. F!Bytes(bits) = [j \in 0..U |-> [i \in 1..8 |-> V(8 * j + i)]]
  BY DEF F!Bytes
<1>2. \A k \in Nat \ {0} : V(k) \in Nat
  OBVIOUS
<1>3. \A j \in 0..U, i \in 1..8 : 8 * j + i \in Nat \ {0}
  OBVIOUS
<1> HIDE DEF U, V
<1>4. \A j \in 0..U : [i \in 1..8 |-> V(8 * j + i)] \in [1..8 -> Nat]
  BY <1>2, <1>3
<1>5. F!Bytes(bits) \in [0..U -> [1..8 -> Nat]]
  BY <1>1, <1>4
<1>6. ASSUME NEW j \in 0..U, NEW o \in 0..7
      PROVE  F!Bytes(bits)[j][o + 1] = V(8 * j + o + 1)
  <2>1. F!Bytes(bits)[j] = [i \in 1..8 |-> V(8 * j + i)]
    BY <1>1
  <2>2. o + 1 \in 1..8 /\ 8 * j + (o + 1) = 8 * j + o + 1
    OBVIOUS
  <2> QED
    BY <2>1, <2>2
<1> QED
  BY <1>5, <1>6 DEF U, V

(* The place of a bit among bytes. *)
LEMMA PlaceOf ==
    ASSUME NEW i \in Nat \ {0}
    PROVE  \E j \in Nat, o \in 0..7 :
              /\ (i - 1) \div 8 = j /\ ((i - 1) % 8) + 1 = o + 1 /\ 8 * j + o + 1 = i
<1>1. i - 1 \in Nat /\ i - 1 = 8 * ((i - 1) \div 8) + ((i - 1) % 8) /\ (i - 1) \div 8 \in Nat /\ (i - 1) % 8 \in 0..7
  OBVIOUS
<1> QED
  BY <1>1

LEMMA PaddedIs ==
    ASSUME NEW bits \in Seq(Nat)
    PROVE  F!Padded(bits) = [i \in 1..(8 * F!Up(Len(bits), 8)) |-> IF i <= Len(bits) THEN bits[i] ELSE 0]
<1> DEFINE n == Len(bits)
           b == F!Bytes(bits)
           U == F!Up(n, 8)
           V(k) == IF k <= n THEN bits[k] ELSE 0
<1>1. n \in Nat /\ U \in Nat
  BY Eighths
<1>2. F!Padded(bits) = [i \in 1..(8 * U) |-> b[(i - 1) \div 8][((i - 1) % 8) + 1]]
  BY DEF F!Padded, F!Bits
<1>3. \A j \in 0..(U + 2), o \in 0..7 : b[j][o + 1] = V(8 * j + o + 1)
  BY BytesOf
<1> HIDE DEF n, b, U, V
<1>4. ASSUME NEW i \in 1..(8 * U)
      PROVE  b[(i - 1) \div 8][((i - 1) % 8) + 1] = V(i)
  <2>1. i \in Nat \ {0} /\ i <= 8 * U
    BY <1>1
  <2>2. PICK j \in Nat, o \in 0..7 : (i - 1) \div 8 = j /\ ((i - 1) % 8) + 1 = o + 1 /\ 8 * j + o + 1 = i
    BY <2>1, PlaceOf
  <2>3. j \in 0..(U + 2)
    BY <1>1, <2>1, <2>2
  <2> QED
    BY <1>3, <2>2, <2>3
<1> QED
  BY <1>2, <1>4 DEF n, U, V

(* What the chip sends of bits whose last byte it is told to cut rightly.   *)
LEMMA OnAirIs ==
    ASSUME NEW bits \in Seq(Nat), NEW t \in 0..7, t = Len(bits) % 8, bPar \in BOOLEAN
    PROVE  F!OnAir(bits, t) = IF bPar THEN F!WithParity(bits, F!Message(Len(bits), FALSE).parity) ELSE bits
<1> DEFINE n == Len(bits)
           U == F!Up(n, 8)
           P == F!Padded(bits)
           k == 8 * U - (IF t = 0 THEN 0 ELSE 8 - t)
<1>1. n \in Nat /\ U \in Nat /\ k = n /\ n <= 8 * U
  <2>1. n \in Nat
    OBVIOUS
  <2>2. PICK q \in Nat, r \in 0..7 : n = 8 * q + r /\ n % 8 = r /\ U = IF r = 0 THEN q ELSE q + 1
    BY <2>1, Eighths
  <2>3. t = r
    BY <2>2
  <2>4. k = 8 * U - (IF t = 0 THEN 0 ELSE 8 - t)
    OBVIOUS
  <2> HIDE DEF n, U, k
  <2>5. CASE r = 0
    BY <2>1, <2>2, <2>3, <2>4, <2>5
  <2>6. CASE r # 0
    <3>1. U = q + 1 /\ k = 8 * U - (8 - r)
      BY <2>2, <2>3, <2>4, <2>6
    <3> QED
      BY <2>1, <2>2, <3>1
  <2> QED
    BY <2>5, <2>6
<1>2. P = [i \in 1..(8 * U) |-> IF i <= n THEN bits[i] ELSE 0]
  BY PaddedIs
<1>3. SubSeq(P, 1, n) = bits
  <2>1. \A i \in 1..n : P[i] = bits[i] /\ P[i] \in Nat
    <3>1. \A i \in 1..n : bits[i] \in Nat /\ i \in 1..(8 * U) /\ i <= n
      BY <1>1
    <3> HIDE DEF n, P, U
    <3> QED
      BY <1>2, <3>1
  <2>2. /\ SubSeq(P, 1, n) \in Seq(Nat)
        /\ Len(SubSeq(P, 1, n)) = IF 1 <= n THEN n - 1 + 1 ELSE 0
        /\ \A i \in 1..(n - 1 + 1) : SubSeq(P, 1, n)[i] = P[1 + i - 1]
    <3>1. \A i \in 1..n : P[i] \in Nat
      BY <2>1
    <3>2. 1 \in Int /\ n \in Int
      BY <1>1
    <3> HIDE DEF n, P
    <3> QED
      BY <3>1, <3>2, SubSeqProperties
  <2>3. Len(SubSeq(P, 1, n)) = n /\ \A i \in 1..n : SubSeq(P, 1, n)[i] = P[i]
    <3> HIDE DEF n, P
    <3> QED
      BY <1>1, <2>2
  <2> DEFINE S == SubSeq(P, 1, n)
  <2>4. S \in Seq(Nat) /\ Len(S) = Len(bits) /\ \A i \in 1..Len(S) : S[i] = bits[i]
    BY <2>1, <2>2, <2>3
  <2> HIDE DEF S
  <2>5. S = bits
    BY <2>4, SeqEqual
  <2> QED
    BY <2>5 DEF S
<1>4. F!OnAir(bits, t) = LET sent == SubSeq(P, 1, k)
                         IN  IF bPar THEN F!WithParity(sent, F!Message(Len(sent), FALSE).parity) ELSE sent
  BY DEF F!OnAir
<1> HIDE DEF P, k
<1> QED
  BY <1>1, <1>3, <1>4

(* The operators on bytes, bit by bit. *)
Octet == [1..8 -> Nat]

LEMMA RightOf ==
    ASSUME NEW a \in Octet, NEW k \in 0..8
    PROVE  F!Right(a, k) \in Octet /\ \A o \in 0..7 : F!Right(a, k)[o + 1] = IF o >= k THEN a[o - k + 1] ELSE 0
<1>1. F!Right(a, k) = [i \in 1..8 |-> IF i > k THEN a[i - k] ELSE 0]
  BY DEF F!Right
<1>2. \A i \in 1..8 : (IF i > k THEN a[i - k] ELSE 0) \in Nat
  BY DEF Octet
<1>3. F!Right(a, k) \in Octet
  BY <1>1, <1>2 DEF Octet
<1>4. ASSUME NEW o \in 0..7 PROVE F!Right(a, k)[o + 1] = IF o >= k THEN a[o - k + 1] ELSE 0
  <2>1. o + 1 \in 1..8 /\ (o + 1 > k <=> o >= k) /\ (o + 1) - k = o - k + 1
    OBVIOUS
  <2> QED
    BY <1>1, <2>1
<1> QED
  BY <1>3, <1>4

LEMMA LeftOf ==
    ASSUME NEW a \in Octet, NEW k \in 0..8
    PROVE  F!Left(a, k) \in Octet /\ \A o \in 0..7 : F!Left(a, k)[o + 1] = IF o + k <= 7 THEN a[o + k + 1] ELSE 0
<1>1. F!Left(a, k) = [i \in 1..8 |-> IF i + k <= 8 THEN a[i + k] ELSE 0]
  BY DEF F!Left
<1>2. \A i \in 1..8 : (IF i + k <= 8 THEN a[i + k] ELSE 0) \in Nat
  BY DEF Octet
<1>3. F!Left(a, k) \in Octet
  BY <1>1, <1>2 DEF Octet
<1>4. ASSUME NEW o \in 0..7 PROVE F!Left(a, k)[o + 1] = IF o + k <= 7 THEN a[o + k + 1] ELSE 0
  <2>1. o + 1 \in 1..8 /\ (o + 1 + k <= 8 <=> o + k <= 7) /\ (o + 1) + k = o + k + 1
    OBVIOUS
  <2> QED
    BY <1>1, <2>1
<1> QED
  BY <1>3, <1>4

LEMMA OrOf ==
    ASSUME NEW a \in Octet, NEW b \in Octet
    PROVE  F!Or(a, b) \in Octet /\ \A o \in 0..7 : F!Or(a, b)[o + 1] = IF a[o + 1] # 0 THEN a[o + 1] ELSE b[o + 1]
<1>1. F!Or(a, b) = [i \in 1..8 |-> IF a[i] # 0 THEN a[i] ELSE b[i]]
  BY DEF F!Or
<1>2. \A o \in 0..7 : o + 1 \in 1..8
  OBVIOUS
<1>3. \A i \in 1..8 : a[i] \in Nat /\ b[i] \in Nat
  BY DEF Octet
<1> QED
  BY <1>1, <1>2, <1>3 DEF Octet

LEMMA ZeroOf == F!Zero \in Octet /\ \A o \in 0..7 : F!Zero[o + 1] = 0
<1>1. \A o \in 0..7 : o + 1 \in 1..8
  OBVIOUS
<1> QED
  BY <1>1 DEF Octet, F!Zero

(* What wrap_frame works on: the frame of so many bytes, and the byte begun.*)
Wrapping(U) == [frame : [0..(2 * U + 2) -> Octet], btFrame : Octet]

(* One turn of wrap_frame, bit by bit: s comes of m by byte k = 8g + p. *)
Turned(U, data, parity, m, s, k, g, p) ==
    /\ s \in Wrapping(U) /\ s.btFrame = s.frame[k + g + 1]
    /\ \A o \in 0..7 : s.frame[k + g][o + 1] =
          IF p # 0 /\ m.btFrame[o + 1] # 0 THEN m.btFrame[o + 1]
          ELSE IF o >= p THEN data[k][o - p + 1] ELSE 0
    /\ \A o \in 0..7 : s.frame[k + g + 1][o + 1] =
          IF o < p THEN data[k][o + 8 - p + 1] ELSE IF o = p THEN parity[k + 1] ELSE 0
    /\ \A j \in 0..(2 * U + 2) : j # k + g /\ j # k + g + 1 => s.frame[j] = m.frame[j]

LEMMA ByteWrapped ==
    ASSUME NEW U \in Nat, NEW data \in [0..(U + 2) -> Octet], NEW parity \in [1..U -> Nat],
           NEW m \in Wrapping(U), NEW k \in Nat, k < U, NEW g \in Nat, NEW p \in 0..7, k = 8 * g + p
    PROVE  Turned(U, data, parity, m, F!WrapByte(data, parity, m, k), k, g, p)
<1> DEFINE s == F!WrapByte(data, parity, m, k)
           z == k + g
           one == [F!Zero EXCEPT ![1] = parity[k + 1]]
           begun == IF p = 0 THEN F!Zero ELSE m.btFrame
           first == F!Or(begun, F!Right(data[k], p))
           rest == F!Or(F!Left(data[k], 8 - p), F!Right(one, p))
<1>1. k % 8 = p /\ k \div 8 = g /\ F!FramePos(k) = z /\ z + 1 <= 2 * U + 2 /\ z \in 0..(2 * U + 2) /\ z + 1 \in 0..(2 * U + 2)
  <2>1. k % 8 = p /\ k \div 8 = g
    OBVIOUS
  <2>2. F!FramePos(k) = z
    BY <2>1 DEF F!FramePos
  <2> QED
    BY <2>1, <2>2
<1>2. data[k] \in Octet /\ parity[k + 1] \in Nat /\ m.btFrame \in Octet /\ m.frame \in [0..(2 * U + 2) -> Octet]
  <2>1. k \in 0..(U + 2) /\ k + 1 \in 1..U
    OBVIOUS
  <2> QED
    BY <2>1 DEF Wrapping
<1>3. F!Zero \in Octet /\ \A o \in 0..7 : F!Zero[o + 1] = 0
  BY ZeroOf
<1>4. one \in Octet /\ \A o \in 0..7 : one[o + 1] = IF o = 0 THEN parity[k + 1] ELSE 0
  <2>1. \A o \in 0..7 : o + 1 \in 1..8 /\ (o + 1 = 1 <=> o = 0)
    OBVIOUS
  <2> QED
    BY <1>2, <1>3, <2>1 DEF Octet
<1>5. s = [frame |-> [m.frame EXCEPT ![z] = first, ![z + 1] = rest], btFrame |-> rest]
  BY <1>1 DEF F!WrapByte
<1> HIDE DEF one
<1>6. begun \in Octet /\ \A o \in 0..7 : begun[o + 1] = IF p = 0 THEN 0 ELSE m.btFrame[o + 1]
  BY <1>2, <1>3
<1> HIDE DEF begun
<1>7. first \in Octet /\ \A o \in 0..7 : first[o + 1] = IF begun[o + 1] # 0 THEN begun[o + 1]
                                                      ELSE IF o >= p THEN data[k][o - p + 1] ELSE 0
  <2>1. F!Right(data[k], p) \in Octet /\ \A o \in 0..7 : F!Right(data[k], p)[o + 1] = IF o >= p THEN data[k][o - p + 1] ELSE 0
    <3>1. p \in 0..8
      OBVIOUS
    <3> HIDE DEF first
    <3> QED
      BY <1>2, <3>1, RightOf
  <2>2. first \in Octet /\ \A o \in 0..7 : first[o + 1] = IF begun[o + 1] # 0 THEN begun[o + 1] ELSE F!Right(data[k], p)[o + 1]
    BY <1>6, <2>1, OrOf
  <2> QED
    BY <2>1, <2>2
<1>8. rest \in Octet /\ \A o \in 0..7 : rest[o + 1] = IF o < p THEN data[k][o + 8 - p + 1] ELSE IF o = p THEN parity[k + 1] ELSE 0
  <2> DEFINE l == F!Left(data[k], 8 - p)
             r == F!Right(one, p)
  <2>1. 8 - p \in 0..8 /\ p \in 0..8
    OBVIOUS
  <2>2. l \in Octet /\ \A o \in 0..7 : l[o + 1] = IF o + (8 - p) <= 7 THEN data[k][o + (8 - p) + 1] ELSE 0
    BY <1>2, <2>1, LeftOf
  <2>3. r \in Octet /\ \A o \in 0..7 : r[o + 1] = IF o >= p THEN one[o - p + 1] ELSE 0
    BY <1>4, <2>1, RightOf
  <2> HIDE DEF l, r
  <2>4. rest \in Octet /\ \A o \in 0..7 : rest[o + 1] = IF l[o + 1] # 0 THEN l[o + 1] ELSE r[o + 1]
    <3>1. rest = F!Or(l, r)
      BY DEF l, r
    <3> QED
      BY <2>2, <2>3, <3>1, OrOf
  <2> HIDE DEF rest
  <2>5. ASSUME NEW o \in 0..7, o < p PROVE rest[o + 1] = data[k][o + 8 - p + 1]
    <3>1. o + (8 - p) <= 7 /\ o + (8 - p) + 1 = o + 8 - p + 1 /\ ~(o >= p)
      BY <2>5
    <3>2. l[o + 1] = data[k][o + 8 - p + 1] /\ r[o + 1] = 0
      BY <2>2, <2>3, <3>1
    <3> QED
      BY <2>4, <3>2
  <2>6. ASSUME NEW o \in 0..7, ~(o < p) PROVE rest[o + 1] = IF o = p THEN parity[k + 1] ELSE 0
    <3>1. ~(o + (8 - p) <= 7) /\ o >= p /\ o - p \in 0..7 /\ (o - p = 0 <=> o = p)
      BY <2>6
    <3>2. l[o + 1] = 0 /\ r[o + 1] = one[(o - p) + 1]
      BY <2>2, <2>3, <3>1
    <3>3. one[(o - p) + 1] = IF o = p THEN parity[k + 1] ELSE 0
      BY <1>4, <3>1
    <3> QED
      BY <2>4, <3>2, <3>3
  <2> QED
    BY <2>4, <2>5, <2>6
<1> HIDE DEF first, rest
<1>9. /\ s.btFrame = rest /\ s.frame = [m.frame EXCEPT ![z] = first, ![z + 1] = rest]
  <2> HIDE DEF s, z
  <2> QED
    BY <1>5
<1>10. z \in Nat /\ z # z + 1
  OBVIOUS
<1>11. s.frame[z] = first /\ s.frame[z + 1] = rest /\ \A j \in 0..(2 * U + 2) : j # z /\ j # z + 1 => s.frame[j] = m.frame[j]
  <2> HIDE DEF z, s
  <2>1. DOMAIN m.frame = 0..(2 * U + 2)
    BY <1>2
  <2>2. s.frame[z] = first /\ s.frame[z + 1] = rest
    BY <1>1, <1>9, <1>10, <2>1
  <2>3. ASSUME NEW j \in 0..(2 * U + 2), j # z, j # z + 1 PROVE s.frame[j] = m.frame[j]
    BY <1>1, <1>9, <2>1, <2>3
  <2> QED
    BY <2>2, <2>3
<1>12. s \in Wrapping(U)
  <2>1. s.frame \in [0..(2 * U + 2) -> Octet]
    <3> HIDE DEF z, s
    <3> QED
      BY <1>1, <1>2, <1>7, <1>8, <1>9
  <2>2. s = [frame |-> s.frame, btFrame |-> s.btFrame]
    BY <1>5
  <2> HIDE DEF s
  <2> QED
    BY <1>8, <1>9, <2>1, <2>2 DEF Wrapping
<1>13. \A o \in 0..7 : s.frame[z][o + 1] =
                     IF p # 0 /\ m.btFrame[o + 1] # 0 THEN m.btFrame[o + 1]
                     ELSE IF o >= p THEN data[k][o - p + 1] ELSE 0
  <2> HIDE DEF z, s
  <2> QED
    BY <1>6, <1>7, <1>11
<1>14. \A o \in 0..7 : s.frame[z + 1][o + 1] = IF o < p THEN data[k][o + 8 - p + 1] ELSE IF o = p THEN parity[k + 1] ELSE 0
  <2> HIDE DEF z, s
  <2> QED
    BY <1>8, <1>11
<1> HIDE DEF s, z
<1>15. s.btFrame = s.frame[z + 1]
  BY <1>9, <1>11
<1> QED
  BY <1>11, <1>12, <1>13, <1>14, <1>15 DEF s, z, Turned

(* Bit c of the data byte a of a frame, or the parity bit after it.         *)
Framed(data, parity, a, c) == IF c = 8 THEN parity[a + 1] ELSE data[a][c + 1]

(* What wrap_frame has done after k bytes: their bits and parity bits stand *)
(* one after the other, and the byte begun holds those that fill no byte.  *)
Wrapped(data, parity, m, k) ==
    /\ \A a \in Nat, c \in 0..8, j \in Nat, o \in 0..7 :
          a < k /\ 8 * j + o = 9 * a + c => m.frame[j][o + 1] = Framed(data, parity, a, c)
    /\ \A g \in Nat, p \in 1..7 : k = 8 * g + p =>
          \A o \in 0..7 : m.btFrame[o + 1] = IF o < p THEN m.frame[k + g][o + 1] ELSE 0

LEMMA WrappedFurther ==
    ASSUME NEW U \in Nat, NEW data \in [0..(U + 2) -> Octet], NEW parity \in [1..U -> Nat],
           NEW m \in Wrapping(U), NEW k \in Nat, k < U, Wrapped(data, parity, m, k)
    PROVE  Wrapped(data, parity, F!WrapByte(data, parity, m, k), k + 1)
<1> DEFINE s == F!WrapByte(data, parity, m, k)
<1>1. PICK g \in Nat, p \in 0..7 : k = 8 * g + p
  <2>1. k \div 8 \in Nat /\ k % 8 \in 0..7 /\ k = 8 * (k \div 8) + (k % 8)
    OBVIOUS
  <2> QED
    BY <2>1
<1> DEFINE z == k + g
<1>2. /\ s.btFrame = s.frame[z + 1]
      /\ \A o \in 0..7 : s.frame[z][o + 1] =
            IF p # 0 /\ m.btFrame[o + 1] # 0 THEN m.btFrame[o + 1]
            ELSE IF o >= p THEN data[k][o - p + 1] ELSE 0
      /\ \A o \in 0..7 : s.frame[z + 1][o + 1] =
            IF o < p THEN data[k][o + 8 - p + 1] ELSE IF o = p THEN parity[k + 1] ELSE 0
      /\ \A j \in 0..(2 * U + 2) : j # z /\ j # z + 1 => s.frame[j] = m.frame[j]
  <2>1. Turned(U, data, parity, m, s, k, g, p)
    BY <1>1, ByteWrapped
  <2> HIDE DEF s
  <2> QED
    BY <2>1 DEF Turned
<1> HIDE DEF s
<1>3. /\ \A a \in Nat, c \in 0..8, j \in Nat, o \in 0..7 :
            a < k /\ 8 * j + o = 9 * a + c => m.frame[j][o + 1] = Framed(data, parity, a, c)
      /\ p # 0 => \A o \in 0..7 : m.btFrame[o + 1] = IF o < p THEN m.frame[z][o + 1] ELSE 0
  <2>1. p # 0 => p \in 1..7
    OBVIOUS
  <2> QED
    BY <1>1, <2>1 DEF Wrapped
<1>z. z \in Nat /\ 8 * z + p = 9 * k /\ z = k + g
  BY <1>1
<1> HIDE DEF z
<1>4. ASSUME NEW a \in Nat, NEW c \in 0..8, NEW j \in Nat, NEW o \in 0..7, a < k, 8 * j + o = 9 * a + c
      PROVE  s.frame[j][o + 1] = Framed(data, parity, a, c)
  <2>1. m.frame[j][o + 1] = Framed(data, parity, a, c)
    BY <1>3, <1>4
  <2>2. 8 * j + o < 8 * z + p
    BY <1>z, <1>4
  <2>3. CASE j # z
    <3>1. j < z /\ j \in 0..(2 * U + 2)
      BY <1>z, <1>4, <2>2, <2>3
    <3>2. j # z + 1
      BY <1>z, <3>1
    <3> QED
      BY <1>2, <2>1, <2>3, <3>1, <3>2
  <2>4. CASE j = z
    <3>1. o < p /\ p # 0 /\ ~(o >= p)
      BY <1>z, <2>2, <2>4
    <3>2. m.btFrame[o + 1] = m.frame[z][o + 1]
      BY <1>3, <3>1
    <3>3. s.frame[z][o + 1] = IF m.btFrame[o + 1] # 0 THEN m.btFrame[o + 1] ELSE 0
      BY <1>2, <3>1
    <3> QED
      BY <2>1, <2>4, <3>2, <3>3
  <2> QED
    BY <2>3, <2>4
<1>5. ASSUME NEW c \in 0..8, NEW j \in Nat, NEW o \in 0..7, 8 * j + o = 9 * k + c
      PROVE  s.frame[j][o + 1] = Framed(data, parity, k, c)
  <2>1. 8 * j + o = 8 * z + p + c
    BY <1>z, <1>5
  <2>2. CASE p + c <= 7
    <3>1. j = z /\ o = p + c /\ o >= p /\ o - p + 1 = c + 1 /\ c # 8
      <4> DEFINE e == p + c
      <4>1. e \in 0..7 /\ 8 * j + o = 8 * z + e /\ z \in Nat
        BY <1>z, <2>1, <2>2
      <4> HIDE DEF e
      <4>2. j = z /\ o = e
        BY <4>1, SamePlace
      <4> QED
        BY <4>2 DEF e
    <3>2. p # 0 => m.btFrame[o + 1] = 0
      <4>1. ~(o < p)
        BY <3>1
      <4> QED
        BY <1>3, <4>1
    <3>3. s.frame[z][o + 1] = data[k][o - p + 1]
      BY <1>2, <3>1, <3>2
    <3> QED
      BY <3>1, <3>3 DEF Framed
  <2>3. CASE p + c > 7
    <3>1. j = z + 1 /\ o = p + c - 8
      <4> DEFINE e == p + c - 8
                 y == z + 1
      <4>1. e \in 0..7 /\ 8 * j + o = 8 * y + e /\ y \in Nat
        BY <1>z, <2>1, <2>3
      <4> HIDE DEF e, y
      <4>2. j = y /\ o = e
        BY <4>1, SamePlace
      <4> QED
        BY <4>2 DEF e, y
    <3>2. CASE c = 8
      <4>1. o = p /\ ~(o < p)
        BY <3>1, <3>2
      <4> QED
        BY <1>2, <3>1, <3>2, <4>1 DEF Framed
    <3>3. CASE c # 8
      <4>1. o < p /\ o + 8 - p + 1 = c + 1
        BY <3>1, <3>3
      <4>2. s.frame[z + 1][o + 1] = data[k][o + 8 - p + 1]
        BY <1>2, <4>1
      <4> QED
        BY <3>1, <3>3, <4>1, <4>2 DEF Framed
    <3> QED
      BY <3>2, <3>3
  <2> QED
    BY <2>2, <2>3
<1>6. ASSUME NEW a \in Nat, NEW c \in 0..8, NEW j \in Nat, NEW o \in 0..7, a < k + 1, 8 * j + o = 9 * a + c
      PROVE  s.frame[j][o + 1] = Framed(data, parity, a, c)
  <2>1. a < k \/ a = k
    BY <1>6
  <2>2. CASE a = k
    <3>1. 8 * j + o = 9 * k + c
      BY <1>6, <2>2
    <3>2. s.frame[j][o + 1] = Framed(data, parity, k, c)
      BY <1>5, <3>1
    <3> QED
      BY <2>2, <3>2
  <2> QED
    BY <1>4, <1>6, <2>1, <2>2
<1>7. ASSUME NEW g2 \in Nat, NEW p2 \in 1..7, k + 1 = 8 * g2 + p2, NEW o \in 0..7
      PROVE  s.btFrame[o + 1] = IF o < p2 THEN s.frame[k + 1 + g2][o + 1] ELSE 0
  <2>1. g2 = g /\ p2 = p + 1
    BY <1>1, <1>7
  <2>2. k + 1 + g2 = z + 1 /\ (o < p2 <=> o < p \/ o = p)
    BY <1>z, <2>1
  <2>3. CASE o < p2
    BY <1>2, <2>2, <2>3
  <2>4. CASE ~(o < p2)
    <3>1. ~(o < p) /\ o # p
      BY <2>2, <2>4
    <3> QED
      BY <1>2, <2>4, <3>1
  <2> QED
    BY <2>3, <2>4
<1>8. Wrapped(data, parity, s, k + 1)
  <2>1. \A a \in Nat, c \in 0..8, j \in Nat, o \in 0..7 :
          a < k + 1 /\ 8 * j + o = 9 * a + c => s.frame[j][o + 1] = Framed(data, parity, a, c)
    BY <1>6, Zenon
  <2>2. \A g2 \in Nat, p2 \in 1..7 : k + 1 = 8 * g2 + p2 =>
          \A o \in 0..7 : s.btFrame[o + 1] = IF o < p2 THEN s.frame[k + 1 + g2][o + 1] ELSE 0
    BY <1>7, Zenon
  <2> QED
    BY <2>1, <2>2, Zenon DEF Wrapped
<1> QED
  BY <1>8 DEF s

LEMMA NinthsOf ==
    ASSUME NEW x \in Nat
    PROVE  /\ x \div 9 \in Nat /\ x % 9 \in 0..8 /\ x = 9 * (x \div 9) + (x % 9)
           /\ x \div 8 \in Nat /\ x % 8 \in 0..7 /\ x = 8 * (x \div 8) + (x % 8)
OBVIOUS

(* Of more than eight bits, wrap_frame makes the frame with parity. *)
LEMMA WrapIs ==
    ASSUME NEW bits \in Seq(Nat), Len(bits) >= 9, NEW parity \in [1..F!Up(Len(bits), 8) -> Nat]
    PROVE  F!wrap_frame(bits, parity) = F!WithParity(bits, parity)
<1> DEFINE n == Len(bits)
           U == F!Up(n, 8)
           data == F!Bytes(bits)
           M == Wrapping(U)
           b == [frame |-> [j \in 0..(2 * U + 2) |-> F!Zero], btFrame |-> F!Zero]
           Turn(m, d) == F!WrapByte(data, parity, m, d - 1)
           turns == [i \in 1..U |-> i]
           h == [i \in 1..U |-> [m \in M |-> Turn(m, i)]]
           Raw(f) == f = [s \in SUBSET DOMAIN turns |->
                             IF s = {} THEN b ELSE Turn(f[s \ {Greatest(s)}], turns[Greatest(s)])]
<1>0. PICK q \in Nat, r \in 0..7 : n = 8 * q + r /\ n \div 8 = q /\ U = IF r = 0 THEN q ELSE q + 1
  <2>1. n \in Nat
    OBVIOUS
  <2> QED
    BY <2>1, Eighths
<1>1. U \in Nat /\ DOMAIN turns = 1..U /\ \A i \in 1..U : turns[i] = i
  <2>1. U \in Nat
    <3> HIDE DEF U
    <3> QED
      BY <1>0
  <2> QED
    BY <2>1
<1>2. data \in [0..(U + 2) -> Octet]
  BY BytesOf DEF Octet
<1>3. b \in M
  BY ZeroOf DEF Wrapping
<1>4. ASSUME NEW m \in M, NEW i \in 1..U
      PROVE  Turn(m, i) \in M /\ \A k \in Nat : k = i - 1 /\ Wrapped(data, parity, m, k) => Wrapped(data, parity, Turn(m, i), i)
  <2> HIDE DEF n, U, data, M
  <2>1. i - 1 \in Nat /\ i - 1 < U /\ (i - 1) + 1 = i
    BY <1>1
  <2>2. parity \in [1..U -> Nat] /\ m \in Wrapping(U)
    BY DEF U, n, M
  <2>3. PICK g \in Nat, p \in 0..7 : i - 1 = 8 * g + p
    BY <2>1, NinthsOf
  <2>4. Turned(U, data, parity, m, F!WrapByte(data, parity, m, i - 1), i - 1, g, p)
    BY <1>1, <1>2, <2>1, <2>2, <2>3, ByteWrapped
  <2>5. F!WrapByte(data, parity, m, i - 1) \in M
    BY <2>4 DEF Turned, M
  <2>6. Wrapped(data, parity, m, i - 1) => Wrapped(data, parity, F!WrapByte(data, parity, m, i - 1), (i - 1) + 1)
    BY <1>1, <1>2, <2>1, <2>2, WrappedFurther
  <2> QED
    BY <2>1, <2>5, <2>6
<1>5. h \in [1..U -> [M -> M]] /\ \A i \in 1..U, m \in M : h[i][m] = Turn(m, i)
  <2> HIDE DEF U, M, Turn
  <2> QED
    BY <1>4
<1>6. F!wrap_frame(bits, parity) = F!Bits((CHOOSE f : Raw(f))[DOMAIN turns].frame, n + (n \div 8))
  BY DEF F!wrap_frame, F!FoldLeft, F!MapThenFoldSet, F!Max, Greatest
<1>7. \E f : Raw(f)
  <2>1. PICK f \in [SUBSET (1..U) -> M] : Folds(f, h, b, SUBSET (1..U))
    <3> HIDE DEF U, M, h, b
    <3> QED
      BY <1>1, <1>3, <1>5, FoldExists
  <2>2. ASSUME NEW s \in SUBSET (1..U), s # {}
        PROVE  h[Greatest(s)][f[s \ {Greatest(s)}]] = Turn(f[s \ {Greatest(s)}], turns[Greatest(s)])
    <3> HIDE DEF U, M, h, b, Turn, turns
    <3>1. Greatest(s) \in 1..U /\ s \ {Greatest(s)} \in SUBSET (1..U)
      BY <1>1, <2>2, GreatestIn
    <3> QED
      BY <1>1, <1>5, <2>1, <3>1
  <2> HIDE DEF U, M, h, b, Turn, turns
  <2>3. Raw(f)
    BY <1>1, <2>1, <2>2 DEF Folds
  <2> HIDE DEF Raw
  <2> QED
    BY <2>3
<1> HIDE DEF U, M, h, b, Turn, turns, data
<1>8. PICK f : Raw(f) /\ F!wrap_frame(bits, parity) = F!Bits(f[1..U].frame, n + (n \div 8))
  <2> HIDE DEF Raw
  <2> QED
    BY <1>1, <1>6, <1>7
<1>9. f[{}] = b
  BY <1>8
<1>10. ASSUME NEW s \in SUBSET (1..U), s # {}, f[s \ {Greatest(s)}] \in M
       PROVE  f[s] = h[Greatest(s)][f[s \ {Greatest(s)}]]
  <2>1. Greatest(s) \in 1..U
    BY <1>1, <1>10, GreatestIn
  <2>2. f[s] = Turn(f[s \ {Greatest(s)}], Greatest(s))
    BY <1>1, <1>8, <1>10, <2>1, Zenon
  <2> QED
    BY <1>5, <1>10, <2>1, <2>2
<1> HIDE DEF Raw
<1>11. Loops(f, h, b, U, M)
  BY <1>1, <1>3, <1>5, <1>9, <1>10 DEF Loops
<1>12. /\ f[1..0] = b
       /\ \A k \in 0..U : f[1..k] \in M
       /\ \A k \in 1..U : f[1..k] = h[k][f[1..(k - 1)]]
  BY <1>11, Folded
<1>13. Wrapped(data, parity, f[1..U], U)
  <2> DEFINE T == {k \in Nat : Wrapped(data, parity, f[1..k], k)}
  <2>1. 0 \in T
    <3>1. \A g \in Nat, p \in 1..7 : 0 # 8 * g + p
      OBVIOUS
    <3>2. Wrapped(data, parity, f[1..0], 0)
      BY <3>1 DEF Wrapped
    <3> QED
      BY <3>2
  <2>2. ASSUME NEW k \in Nat, k < U, k \in T PROVE k + 1 \in T
    <3>1. k + 1 \in 1..U /\ (k + 1) - 1 = k /\ k \in 0..U
      BY <1>1, <2>2
    <3>2. f[1..k] \in M /\ f[1..(k + 1)] = Turn(f[1..k], k + 1)
      BY <1>5, <1>12, <3>1
    <3>3. Wrapped(data, parity, f[1..(k + 1)], k + 1)
      BY <1>4, <2>2, <3>1, <3>2
    <3> QED
      BY <3>3
  <2> HIDE DEF T
  <2>3. \A k \in 0..U : k \in T
    BY <1>1, <2>1, <2>2, StepByStep
  <2>4. U \in T
    <3>1. U \in 0..U
      BY <1>1
    <3> QED
      BY <2>3, <3>1
  <2> QED
    BY <2>4 DEF T
<1> DEFINE fr == f[1..U].frame
           N == n + (n \div 8)
<1>14. F!Bits(fr, N) = [i \in 1..N |-> fr[(i - 1) \div 8][((i - 1) % 8) + 1]]
  BY DEF F!Bits
<1>15. F!WithParity(bits, parity) = [i \in 1..N |-> IF (i - 1) % 9 = 8 THEN parity[((i - 1) \div 9) + 1]
                                                  ELSE bits[8 * ((i - 1) \div 9) + ((i - 1) % 9) + 1]]
  BY DEF F!WithParity
<1>16. ASSUME NEW i \in 1..N
       PROVE  fr[(i - 1) \div 8][((i - 1) % 8) + 1] = IF (i - 1) % 9 = 8 THEN parity[((i - 1) \div 9) + 1]
                                                  ELSE bits[8 * ((i - 1) \div 9) + ((i - 1) % 9) + 1]
  <2> HIDE DEF n, fr
  <2>1. N = 9 * q + r /\ i - 1 \in Nat /\ i - 1 < 9 * q + r
    BY <1>0
  <2>2. PICK a \in Nat, c \in 0..8, j \in Nat, o \in 0..7 :
            /\ (i - 1) \div 9 = a /\ (i - 1) % 9 = c /\ i - 1 = 9 * a + c
            /\ (i - 1) \div 8 = j /\ (i - 1) % 8 = o /\ i - 1 = 8 * j + o
    <3> DEFINE x == i - 1
    <3>1. x \in Nat
      BY <2>1
    <3> HIDE DEF x
    <3>2. \E a \in Nat, c \in 0..8 : x \div 9 = a /\ x % 9 = c /\ x = 9 * a + c
      BY <3>1, NinthsOf
    <3>3. \E j \in Nat, o \in 0..7 : x \div 8 = j /\ x % 8 = o /\ x = 8 * j + o
      BY <3>1, NinthsOf
    <3>4. \E a \in Nat, c \in 0..8, j \in Nat, o \in 0..7 :
             /\ x \div 9 = a /\ x % 9 = c /\ x = 9 * a + c
             /\ x \div 8 = j /\ x % 8 = o /\ x = 8 * j + o
      BY <3>2, <3>3, Zenon
    <3> QED
      BY <3>4 DEF x
  <2>3. a < U
    BY <1>0, <2>1, <2>2
  <2>4. fr[j][o + 1] = Framed(data, parity, a, c)
    <3>1. 8 * j + o = 9 * a + c
      BY <2>2
    <3>2. \A a2 \in Nat, c2 \in 0..8, j2 \in Nat, o2 \in 0..7 :
             a2 < U /\ 8 * j2 + o2 = 9 * a2 + c2 => fr[j2][o2 + 1] = Framed(data, parity, a2, c2)
      BY <1>13, Zenon DEF Wrapped, fr
    <3> QED
      BY <2>3, <3>1, <3>2, Zenon
  <2>5. CASE c = 8
    BY <2>2, <2>4, <2>5 DEF Framed
  <2>6. CASE c # 8
    <3>1. c \in 0..7 /\ 8 * a + c + 1 <= n /\ a \in 0..(U + 2)
      BY <1>0, <1>1, <2>1, <2>2, <2>3, <2>6
    <3>2. data[a][c + 1] = bits[8 * a + c + 1]
      BY <3>1, BytesOf DEF data, U, n
    <3> QED
      BY <2>2, <2>4, <2>6, <3>2 DEF Framed
  <2> QED
    BY <2>5, <2>6
<1> HIDE DEF fr, N, n
<1> QED
  <2>1. F!Bits(fr, N) = F!WithParity(bits, parity)
    BY <1>14, <1>15, <1>16
  <2> QED
    BY <1>8, <2>1 DEF fr, N

LEMMA WithParityIs ==
    ASSUME NEW bits \in Seq(Nat), NEW parity \in [1..F!Up(Len(bits), 8) -> Nat]
    PROVE  /\ F!WithParity(bits, parity) \in Seq(Nat)
           /\ Len(F!WithParity(bits, parity)) = Len(bits) + (Len(bits) \div 8)
           /\ Len(bits) < 8 => F!WithParity(bits, parity) = bits
           /\ \A a \in Nat, c \in 0..8 : 9 * a + c < Len(bits) + (Len(bits) \div 8) =>
                 F!WithParity(bits, parity)[9 * a + c + 1] = IF c = 8 THEN parity[a + 1] ELSE bits[8 * a + c + 1]
<1> DEFINE n == Len(bits)
           U == F!Up(n, 8)
           N == n + (n \div 8)
           V(x) == IF x % 9 = 8 THEN parity[(x \div 9) + 1] ELSE bits[8 * (x \div 9) + (x % 9) + 1]
           fr == F!WithParity(bits, parity)
<1>0. PICK q \in Nat, r \in 0..7 : n = 8 * q + r /\ n \div 8 = q /\ U = IF r = 0 THEN q ELSE q + 1
  <2>1. n \in Nat
    OBVIOUS
  <2> QED
    BY <2>1, Eighths
<1>1. fr = [k \in 1..N |-> V(k - 1)]
  BY DEF F!WithParity
<1>2. N \in Nat /\ N = 9 * q + r
  <2> HIDE DEF n
  <2> QED
    BY <1>0
<1>3. ASSUME NEW k \in 1..N PROVE V(k - 1) \in Nat
  <2> DEFINE x == k - 1
  <2>0. x \in Nat /\ x < 9 * q + r
    BY <1>2
  <2> HIDE DEF x, N
  <2>1. PICK a \in Nat, c \in 0..8 : x \div 9 = a /\ x % 9 = c /\ x = 9 * a + c
    BY <2>0, NinthsOf
  <2>2. CASE c = 8
    <3>1. a + 1 \in 1..U
      <4> HIDE DEF U, n
      <4> QED
        BY <1>0, <2>0, <2>1, <2>2
    <3>2. V(x) = parity[a + 1]
      BY <2>1, <2>2
    <3> QED
      BY <3>1, <3>2 DEF x
  <2>3. CASE c # 8
    <3>1. 8 * a + c + 1 \in 1..n
      <4> HIDE DEF U, n
      <4> QED
        BY <1>0, <2>0, <2>1, <2>3
    <3>2. V(x) = bits[8 * a + c + 1]
      BY <2>1, <2>3
    <3> QED
      BY <3>1, <3>2 DEF x
  <2> QED
    BY <2>2, <2>3
<1>4. fr \in [1..N -> Nat]
  <2> HIDE DEF V, N, fr
  <2> QED
    BY <1>1, <1>3
<1>5. fr \in Seq(Nat) /\ Len(fr) = N
  <2> HIDE DEF N, fr
  <2> QED
    BY <1>2, <1>4, SeqOf
<1>6. ASSUME n < 8 PROVE fr = bits
  <2>1. N = n
    BY <1>0, <1>6
  <2>2. ASSUME NEW k \in 1..n PROVE fr[k] = bits[k]
    <3>1. (k - 1) % 9 = k - 1 /\ (k - 1) \div 9 = 0 /\ k - 1 # 8
      <4> HIDE DEF n
      <4> QED
        BY <1>0, <1>6
    <3>2. V(k - 1) = bits[k]
      BY <3>1
    <3> HIDE DEF V, fr
    <3> QED
      BY <1>1, <2>1, <3>2
  <2> HIDE DEF fr
  <2> QED
    BY <1>5, <2>1, <2>2, SeqEqual
<1>7. ASSUME NEW a \in Nat, NEW c \in 0..8, 9 * a + c < N
      PROVE  fr[9 * a + c + 1] = IF c = 8 THEN parity[a + 1] ELSE bits[8 * a + c + 1]
  <2>1. (9 * a + c) % 9 = c /\ (9 * a + c) \div 9 = a
    OBVIOUS
  <2>2. 9 * a + c + 1 \in 1..N /\ (9 * a + c + 1) - 1 = 9 * a + c
    BY <1>2, <1>7
  <2>3. V(9 * a + c) = IF c = 8 THEN parity[a + 1] ELSE bits[8 * a + c + 1]
    BY <2>1
  <2> HIDE DEF V, fr, N
  <2> QED
    BY <1>1, <2>2, <2>3
<1> HIDE DEF V, fr
<1> QED
  BY <1>5, <1>6, <1>7 DEF fr

(* One turn of unwrap_frame, bit by bit: u comes of byte d = 8g + p. *)
Unturned(frame, u, d, g, p) ==
    /\ u.parity = frame[d + g + 1][p + 1]
    /\ \A c \in 0..7 : u.data[c + 1] =
          IF p + c <= 7 THEN frame[d + g][p + c + 1] ELSE frame[d + g + 1][p + c - 8 + 1]

LEMMA ByteUnwrapped ==
    ASSUME NEW frame, NEW d \in Nat, NEW g \in Nat, NEW p \in 0..7, d = 8 * g + p,
           frame[d + g] \in Octet, frame[d + g + 1] \in Octet
    PROVE  Unturned(frame, F!UnwrapByte(frame, d), d, g, p)
<1> DEFINE z == d + g
           l == F!Left(frame[z], p)
           r == F!Right(frame[z + 1], 8 - p)
<1>1. d % 8 = p /\ F!FramePos(d) = z
  <2>1. d % 8 = p /\ d \div 8 = g
    OBVIOUS
  <2> QED
    BY <2>1 DEF F!FramePos
<1>2. F!UnwrapByte(frame, d) = [data |-> F!Or(l, r), parity |-> frame[z + 1][p + 1]]
  BY <1>1 DEF F!UnwrapByte
<1>3. p \in 0..8 /\ 8 - p \in 0..8
  OBVIOUS
<1>4. l \in Octet /\ \A o \in 0..7 : l[o + 1] = IF o + p <= 7 THEN frame[z][o + p + 1] ELSE 0
  BY <1>3, LeftOf
<1>5. r \in Octet /\ \A o \in 0..7 : r[o + 1] = IF o >= 8 - p THEN frame[z + 1][o - (8 - p) + 1] ELSE 0
  BY <1>3, RightOf
<1> HIDE DEF l, r
<1>6. \A o \in 0..7 : F!Or(l, r)[o + 1] = IF l[o + 1] # 0 THEN l[o + 1] ELSE r[o + 1]
  BY <1>4, <1>5, OrOf
<1>7. ASSUME NEW c \in 0..7
      PROVE  F!Or(l, r)[c + 1] = IF p + c <= 7 THEN frame[z][p + c + 1] ELSE frame[z + 1][p + c - 8 + 1]
  <2>1. c + p = p + c /\ c - (8 - p) = p + c - 8 /\ (c >= 8 - p <=> ~(p + c <= 7))
    OBVIOUS
  <2>2. CASE p + c <= 7
    <3>1. l[c + 1] = frame[z][p + c + 1] /\ r[c + 1] = 0
      BY <1>4, <1>5, <2>1, <2>2
    <3> QED
      BY <1>6, <2>2, <3>1
  <2>3. CASE ~(p + c <= 7)
    <3>1. l[c + 1] = 0 /\ r[c + 1] = frame[z + 1][p + c - 8 + 1]
      BY <1>4, <1>5, <2>1, <2>3
    <3> QED
      BY <1>6, <2>3, <3>1
  <2> QED
    BY <2>2, <2>3
<1> DEFINE u == F!UnwrapByte(frame, d)
<1>8. u.parity = frame[z + 1][p + 1] /\ u.data = F!Or(l, r)
  BY <1>2
<1> HIDE DEF u
<1> QED
  <2>1. Unturned(frame, u, d, g, p)
    BY <1>7, <1>8 DEF Unturned
  <2> QED
    BY <2>1 DEF u

(* unwrap_frame gives the data bits of a frame, and the parity bits of its  *)
(* whole bytes.                                                            *)
LEMMA UnwrapIs ==
    ASSUME NEW bits \in Seq(Nat), NEW parity \in [1..F!Up(Len(bits), 8) -> Nat]
    PROVE  F!unwrap_frame(F!WithParity(bits, parity)) =
               [bits |-> bits, parity |-> [j \in 1..(Len(bits) \div 8) |-> parity[j]]]
<1> DEFINE n == Len(bits)
           U == F!Up(n, 8)
           fr == F!WithParity(bits, parity)
           N == Len(fr)
           last == N \div 9
           bytes == F!Bytes(fr)
           B == F!Up(N, 8)
           data == [d \in 0..last |-> F!UnwrapByte(bytes, d).data]
           par == [j \in 1..last |-> F!UnwrapByte(bytes, j - 1).parity]
<1>0. PICK q \in Nat, r \in 0..7 : n = 8 * q + r /\ n \div 8 = q /\ U = IF r = 0 THEN q ELSE q + 1
  <2>1. n \in Nat
    OBVIOUS
  <2> QED
    BY <2>1, Eighths
<1>1. /\ fr \in Seq(Nat) /\ N = n + (n \div 8)
      /\ n < 8 => fr = bits
      /\ \A a \in Nat, c \in 0..8 : 9 * a + c < N =>
            fr[9 * a + c + 1] = IF c = 8 THEN parity[a + 1] ELSE bits[8 * a + c + 1]
  BY WithParityIs
<1>2. F!unwrap_frame(fr) = IF N < 9 THEN [bits |-> fr, parity |-> <<>>]
                           ELSE [bits |-> F!Bits(data, N - last), parity |-> par]
  BY DEF F!unwrap_frame
<1>3. /\ bytes \in [0..(B + 2) -> [1..8 -> Nat]]
      /\ \A j \in 0..(B + 2), o \in 0..7 : bytes[j][o + 1] = IF 8 * j + o + 1 <= N THEN fr[8 * j + o + 1] ELSE 0
  <2> HIDE DEF fr
  <2> QED
    BY <1>1, BytesOf
<1>b. bits \in [1..n -> Nat]
  OBVIOUS
<1> HIDE DEF n, U, fr, N, bytes
<1>4. N = 9 * q + r /\ last = q /\ N - last = n
  <2>1. N = 9 * q + r
    BY <1>0, <1>1
  <2>2. (9 * q + r) \div 9 = q
    OBVIOUS
  <2> QED
    BY <1>0, <2>1, <2>2
<1>5. CASE n < 8
  <2>1. q = 0 /\ N < 9 /\ fr = bits
    <3>1. q = 0 /\ N < 9
      BY <1>0, <1>4, <1>5
    <3> QED
      BY <1>1, <1>5, <3>1
  <2>2. [j \in 1..(n \div 8) |-> parity[j]] = <<>>
    <3>1. 1..(n \div 8) = {}
      BY <1>0, <2>1
    <3> QED
      BY <3>1
  <2> QED
    BY <1>2, <2>1, <2>2 DEF n, fr
<1>6. CASE ~(n < 8)
  <2>1. q >= 1 /\ N >= 9 /\ ~(N < 9) /\ N \in Nat
    BY <1>0, <1>4, <1>6
  <2>2. B \in Nat /\ 8 * B >= N
    <3>1. PICK x \in Nat, y \in 0..7 : N = 8 * x + y /\ B = IF y = 0 THEN x ELSE x + 1
      BY <2>1, Eighths
    <3> HIDE DEF B
    <3>2. CASE y = 0
      BY <3>1, <3>2
    <3>3. CASE y # 0
      BY <3>1, <3>3
    <3> QED
      BY <3>2, <3>3
  <2> HIDE DEF B, last
  (* The bits of byte d of the data, and its parity bit. *)
  <2>3. ASSUME NEW d \in 0..q
        PROVE  /\ \A c \in 0..7 : 8 * d + c < n => F!UnwrapByte(bytes, d).data[c + 1] = bits[8 * d + c + 1]
               /\ d < q => F!UnwrapByte(bytes, d).parity = parity[d + 1]
    <3>1. PICK g \in Nat, p \in 0..7 : d = 8 * g + p
      <4>1. d \in Nat
        OBVIOUS
      <4> QED
        BY <4>1, NinthsOf
    <3> DEFINE z == d + g
    <3>2. 8 * z + p = 9 * d /\ z \in 0..(B + 2) /\ z + 1 \in 0..(B + 2)
      BY <1>4, <2>2, <3>1
    <3>3. bytes[z] \in Octet /\ bytes[z + 1] \in Octet
      BY <1>3, <3>2 DEF Octet
    <3>4. /\ F!UnwrapByte(bytes, d).parity = bytes[z + 1][p + 1]
          /\ \A c \in 0..7 : F!UnwrapByte(bytes, d).data[c + 1] =
                IF p + c <= 7 THEN bytes[z][p + c + 1] ELSE bytes[z + 1][p + c - 8 + 1]
      <4>1. Unturned(bytes, F!UnwrapByte(bytes, d), d, g, p)
        BY <3>1, <3>3, ByteUnwrapped
      <4> QED
        BY <4>1, Zenon DEF Unturned
    <3> HIDE DEF z
    <3>a. /\ \A j \in 0..(B + 2), o \in 0..7, k \in Nat :
               8 * j + o + 1 = k /\ k <= N => bytes[j][o + 1] = fr[k]
          /\ \A a \in Nat, c \in 0..8, k \in Nat : k = 9 * a + c + 1 /\ k <= N =>
               fr[k] = IF c = 8 THEN parity[a + 1] ELSE bits[8 * a + c + 1]
      <4>1. ASSUME NEW j \in 0..(B + 2), NEW o \in 0..7, NEW k \in Nat, 8 * j + o + 1 = k, k <= N
            PROVE  bytes[j][o + 1] = fr[k]
        <5>1. bytes[j][o + 1] = IF 8 * j + o + 1 <= N THEN fr[8 * j + o + 1] ELSE 0
          BY <1>3, Zenon
        <5> QED
          BY <4>1, <5>1
      <4>2. ASSUME NEW a \in Nat, NEW c \in 0..8, NEW k \in Nat, k = 9 * a + c + 1, k <= N
            PROVE  fr[k] = IF c = 8 THEN parity[a + 1] ELSE bits[8 * a + c + 1]
        <5>1. 9 * a + c < N
          BY <2>1, <4>2
        <5>2. fr[9 * a + c + 1] = IF c = 8 THEN parity[a + 1] ELSE bits[8 * a + c + 1]
          BY <1>1, <5>1, Zenon
        <5> QED
          BY <4>2, <5>2
      <4> QED
        BY <4>1, <4>2
    <3>5. ASSUME NEW c \in 0..7, 8 * d + c < n
          PROVE  F!UnwrapByte(bytes, d).data[c + 1] = bits[8 * d + c + 1]
      <4> DEFINE k == 9 * d + c + 1
      <4>1. k \in Nat /\ k <= N /\ d \in Nat /\ c \in 0..8 /\ c # 8
        BY <1>0, <1>4, <3>5
      <4>2. fr[k] = bits[8 * d + c + 1]
        <5>1. k = 9 * d + c + 1
          OBVIOUS
        <5> HIDE DEF k
        <5>2. fr[k] = IF c = 8 THEN parity[d + 1] ELSE bits[8 * d + c + 1]
          BY <3>a, <4>1, <5>1, Zenon
        <5> QED
          BY <4>1, <5>2, Zenon
      <4>3. CASE p + c <= 7
        <5>1. p + c \in 0..7 /\ 8 * z + (p + c) + 1 = k
          BY <3>2, <4>3
        <5> HIDE DEF k
        <5>2. \A o \in 0..7 : 8 * z + o + 1 = k => bytes[z][o + 1] = fr[k]
          BY <3>2, <3>a, <4>1
        <5>3. bytes[z][(p + c) + 1] = fr[k]
          BY <5>1, <5>2
        <5> QED
          BY <3>4, <4>2, <4>3, <5>3
      <4>4. CASE ~(p + c <= 7)
        <5>1. p + c - 8 \in 0..7 /\ 8 * (z + 1) + (p + c - 8) + 1 = k
          BY <3>2, <4>4
        <5> HIDE DEF k
        <5>2. bytes[z + 1][(p + c - 8) + 1] = fr[k]
          BY <3>2, <3>a, <4>1, <5>1
        <5> QED
          BY <3>4, <4>2, <4>4, <5>2
      <4> QED
        BY <4>3, <4>4
    <3>6. ASSUME d < q PROVE F!UnwrapByte(bytes, d).parity = parity[d + 1]
      <4> DEFINE k == 9 * d + 8 + 1
      <4>1. k \in Nat /\ k <= N /\ d \in Nat /\ 8 \in 0..8 /\ p \in 0..7 /\ 8 * (z + 1) + p + 1 = k /\ k = 9 * d + 8 + 1
        BY <1>4, <3>2, <3>6
      <4> HIDE DEF k
      <4>2. fr[k] = parity[d + 1]
        BY <3>a, <4>1
      <4>3. bytes[z + 1][p + 1] = fr[k]
        BY <3>2, <3>a, <4>1
      <4> QED
        BY <3>4, <4>2, <4>3, Zenon
    <3> QED
      BY <3>5, <3>6
  <2>4. F!Bits(data, n) = bits
    <3>1. F!Bits(data, n) = [i \in 1..n |-> data[(i - 1) \div 8][((i - 1) % 8) + 1]]
      BY DEF F!Bits
    <3>2. ASSUME NEW i \in 1..n PROVE data[(i - 1) \div 8][((i - 1) % 8) + 1] = bits[i]
      <4>0. n \in Nat
        BY <1>0
      <4>1. i \in Nat \ {0} /\ i <= n
        BY <4>0
      <4>2. PICK d \in Nat, c \in 0..7 : (i - 1) \div 8 = d /\ ((i - 1) % 8) + 1 = c + 1 /\ 8 * d + c + 1 = i
        BY <4>1, PlaceOf
      <4>3. d \in 0..q /\ 8 * d + c < n /\ d \in 0..last
        BY <1>0, <1>4, <4>1, <4>2
      <4>4. data[d] = F!UnwrapByte(bytes, d).data
        BY <4>3
      <4> HIDE DEF data
      <4>5. F!UnwrapByte(bytes, d).data[c + 1] = bits[8 * d + c + 1]
        BY <2>3, <4>3, Zenon
      <4>6. data[d][c + 1] = bits[8 * d + c + 1]
        BY <4>4, <4>5, Zenon
      <4> QED
        BY <4>2, <4>6
    <3> HIDE DEF data
    <3> QED
      BY <1>b, <3>1, <3>2
  <2>5. par = [j \in 1..(n \div 8) |-> parity[j]]
    <3>1. 1..last = 1..q /\ n \div 8 = q
      BY <1>0, <1>4
    <3>2. ASSUME NEW j \in 1..q PROVE F!UnwrapByte(bytes, j - 1).parity = parity[j]
      <4>1. j - 1 \in 0..q /\ j - 1 < q /\ (j - 1) + 1 = j
        OBVIOUS
      <4> QED
        BY <2>3, <4>1
    <3> QED
      BY <3>1, <3>2
  <2> HIDE DEF data, par
  <2> QED
    BY <1>2, <1>4, <2>1, <2>4, <2>5 DEF n, fr
<1> QED
  BY <1>5, <1>6

(* What has to be on the air for message m, and what a program is told of h.*)
Sent(m) == F!WithParity(m.bits, IF bPar THEN F!Message(Len(m.bits), FALSE).parity ELSE m.parity)
Told(h) == [bits |-> h.bits, parity |-> IF bPar THEN <<>> ELSE SubSeq(h.parity, 1, Len(h.bits) \div 8)]

LEMMA SentLength ==
    ASSUME NEW n \in Nat, NEW own \in BOOLEAN
    PROVE  Sent(F!Message(n, own)) \in Seq(Nat) /\ Len(Sent(F!Message(n, own))) = n + (n \div 8)
<1> DEFINE m == F!Message(n, own)
           e == F!Message(n, FALSE)
<1>1. m.bits \in Seq(Nat) /\ Len(m.bits) = n /\ m.parity \in [1..F!Up(n, 8) -> Nat] /\ e.parity \in [1..F!Up(n, 8) -> Nat]
  BY MessageFacts
<1> HIDE DEF m, e
<1> DEFINE p == IF bPar THEN e.parity ELSE m.parity
<1>2. p \in [1..F!Up(Len(m.bits), 8) -> Nat]
  BY <1>1
<1>3. Sent(m) = F!WithParity(m.bits, p)
  BY <1>1 DEF Sent, e
<1> HIDE DEF p
<1> QED
  BY <1>1, <1>2, <1>3, WithParityIs DEF m

(* Bits go out as they are to, but for a whole byte with a parity bit of    *)
(* the program's.                                                          *)
LEMMA FramedSent ==
    ASSUME NEW n \in Nat, NEW own \in BOOLEAN, bPar \in BOOLEAN
    PROVE  LET m == F!Message(n, own)
               t == Len(F!Framed(m)) % 8
           IN  t \in 0..7 /\ (F!OnAir(F!Framed(m), t) = Sent(m) <=> ~(~bPar /\ n = 8))
<1> DEFINE m == F!Message(n, own)
           e == F!Message(n, FALSE)
           f == F!Framed(m)
           t == Len(f) % 8
<1>1. m.bits \in Seq(Nat) /\ Len(m.bits) = n /\ m.parity \in [1..F!Up(n, 8) -> Nat] /\ e.parity \in [1..F!Up(n, 8) -> Nat]
  BY MessageFacts
<1>2. f = IF bPar THEN m.bits ELSE F!wrap_frame(m.bits, m.parity)
  BY DEF F!Framed
<1>3. Sent(m) \in Seq(Nat) /\ Len(Sent(m)) = n + (n \div 8)
  BY SentLength
<1>s. Sent(m) = F!WithParity(m.bits, IF bPar THEN e.parity ELSE m.parity)
  BY <1>1 DEF Sent
<1> HIDE DEF m, e, f
<1>d. t = Len(f) % 8
  OBVIOUS
<1> HIDE DEF t
<1>4.ASSUME bPar PROVE t \in 0..7 /\ (F!OnAir(f, t) = Sent(m) <=> ~(~bPar /\ n = 8))
  <2>1. f = m.bits
    BY <1>2, <1>4, Zenon
  <2>2. t = Len(m.bits) % 8
    BY <1>d, <2>1, Zenon
  <2>3. t \in 0..7
    BY <1>1, <2>2
  <2>4. F!OnAir(m.bits, t) = F!WithParity(m.bits, F!Message(Len(m.bits), FALSE).parity)
    <3>1. F!OnAir(m.bits, t) = IF bPar THEN F!WithParity(m.bits, F!Message(Len(m.bits), FALSE).parity) ELSE m.bits
      BY <1>1, <2>2, <2>3, OnAirIs
    <3> QED
      BY <1>4, <3>1, Zenon
  <2>5. F!Message(Len(m.bits), FALSE).parity = e.parity
    BY <1>1, Zenon DEF e
  <2>6. F!OnAir(f, t) = Sent(m)
    BY <1>4, <1>s, <2>1, <2>4, <2>5, Zenon
  <2> QED
    BY <1>4, <2>3, <2>6, Zenon
<1>5.ASSUME ~bPar /\ n >= 9 PROVE t \in 0..7 /\ (F!OnAir(f, t) = Sent(m) <=> ~(~bPar /\ n = 8))
  <2>0. ~bPar /\ Len(m.bits) >= 9 /\ n # 8
    BY <1>1, <1>5
  <2>1. Sent(m) = F!WithParity(m.bits, m.parity) /\ f = F!wrap_frame(m.bits, m.parity)
    BY <1>2, <1>s, <2>0, Zenon
  <2>2. F!wrap_frame(m.bits, m.parity) = F!WithParity(m.bits, m.parity)
    <3>1. m.parity \in [1..F!Up(Len(m.bits), 8) -> Nat]
      BY <1>1, Zenon
    <3> QED
      BY <1>1, <2>0, <3>1, WrapIs
  <2>3. f = Sent(m)
    BY <2>1, <2>2, Zenon
  <2>4. f \in Seq(Nat)
    BY <1>3, <2>3, Zenon
  <2>5. t \in 0..7
    <3>1. Len(f) \in Nat
      BY <2>4
    <3>2. Len(f) % 8 \in 0..7
      BY <3>1, Octal
    <3> QED
      BY <1>d, <3>2, Zenon
  <2>6. F!OnAir(f, t) = IF bPar THEN F!WithParity(f, F!Message(Len(f), FALSE).parity) ELSE f
    BY <1>d, <2>4, <2>5, OnAirIs
  <2> QED
    BY <2>0, <2>3, <2>5, <2>6, Zenon
<1>6.ASSUME ~bPar /\ n < 9 PROVE t \in 0..7 /\ (F!OnAir(f, t) = Sent(m) <=> ~(~bPar /\ n = 8))
  <2>0. ~bPar /\ Len(m.bits) < 9 /\ (n # 8 => n < 8)
    BY <1>1, <1>6
  <2>1. f = m.bits
    <3>1. F!wrap_frame(m.bits, m.parity) = m.bits
      BY <2>0 DEF F!wrap_frame
    <3> QED
      BY <1>2, <2>0, <3>1, Zenon
  <2>2. f \in Seq(Nat)
    BY <1>1, <2>1, Zenon
  <2>3. t \in 0..7
    <3>1. Len(f) \in Nat
      BY <2>2
    <3>2. Len(f) % 8 \in 0..7
      BY <3>1, Octal
    <3> QED
      BY <1>d, <3>2, Zenon
  <2>4. F!OnAir(f, t) = IF bPar THEN F!WithParity(f, F!Message(Len(f), FALSE).parity) ELSE f
    BY <1>d, <2>2, <2>3, OnAirIs
  <2>5. F!OnAir(f, t) = m.bits
    BY <2>0, <2>1, <2>4, Zenon
  <2>6. ASSUME n # 8 PROVE Sent(m) = m.bits
    <3>1. Len(m.bits) < 8
      BY <1>1, <2>0, <2>6
    <3>2. m.parity \in [1..F!Up(Len(m.bits), 8) -> Nat]
      BY <1>1, Zenon
    <3>3. F!WithParity(m.bits, m.parity) = m.bits
      BY <1>1, <3>1, <3>2, WithParityIs
    <3> QED
      BY <1>s, <2>0, <3>3, Zenon
  <2>7. ASSUME n = 8 PROVE Sent(m) # m.bits
    <3>1. Len(Sent(m)) = 9 /\ Len(m.bits) = 8
      <4>1. n + (n \div 8) = 9
        BY <2>7
      <4> QED
        BY <1>1, <1>3, <2>7, <4>1, Zenon
    <3>2. Len(Sent(m)) # Len(m.bits)
      BY <3>1
    <3> QED
      BY <3>2, Zenon
  <2> QED
    BY <2>0, <2>3, <2>5, <2>6, <2>7, Zenon
<1>7. ~bPar => n >= 9 \/ n < 9
  OBVIOUS
<1>8. t \in 0..7 /\ (F!OnAir(f, t) = Sent(m) <=> ~(~bPar /\ n = 8))
  BY <1>4, <1>5, <1>6, <1>7, Zenon
<1> QED
  BY <1>8 DEF m, f, t

(* Whole bytes go out as they are to, if the chip is told so.               *)
LEMMA BytesSent ==
    ASSUME NEW n \in Nat, NEW own \in BOOLEAN, bPar, NEW t \in 0..7, n % 8 = 0 => n > 0
    PROVE  LET m == F!Message(n, own)
           IN  /\ t = n % 8 => F!OnAir(m.bits, t) = Sent(m)
               /\ n % 8 = 0 /\ t # 0 => F!OnAir(m.bits, t) # Sent(m)
<1> DEFINE m == F!Message(n, own)
           U == F!Up(n, 8)
           k == 8 * U - (IF t = 0 THEN 0 ELSE 8 - t)
           P == F!Padded(m.bits)
           S == SubSeq(P, 1, k)
<1>1. m.bits \in Seq(Nat) /\ Len(m.bits) = n
  BY MessageFacts
<1>2. Sent(m) = F!WithParity(m.bits, F!Message(Len(m.bits), FALSE).parity)
  BY DEF Sent
<1>3. Sent(m) \in Seq(Nat) /\ Len(Sent(m)) = n + (n \div 8)
  BY SentLength
<1> HIDE DEF m
<1>4. t = n % 8 => F!OnAir(m.bits, t) = Sent(m)
  BY <1>1, <1>2, OnAirIs
<1>5. ASSUME n % 8 = 0, t # 0 PROVE F!OnAir(m.bits, t) # Sent(m)
  <2>1. F!OnAir(m.bits, t) = F!WithParity(S, F!Message(Len(S), FALSE).parity)
    BY <1>1 DEF F!OnAir
  <2>2. PICK q \in Nat : n = 8 * q /\ n \div 8 = q /\ U = q
    <3>1. PICK x \in Nat, r \in 0..7 : n = 8 * x + r /\ n \div 8 = x /\ n % 8 = r /\ U = IF r = 0 THEN x ELSE x + 1
      BY Eighths
    <3> HIDE DEF U
    <3>2. n = 8 * x /\ n \div 8 = x /\ U = x
      BY <1>5, <3>1
    <3> QED
      BY <3>2, Zenon
  <2>3. k \in Nat /\ k < n /\ k <= 8 * U
    <3> HIDE DEF U
    <3> QED
      BY <1>5, <2>2
  <2>4. P = [i \in 1..(8 * U) |-> IF i <= Len(m.bits) THEN m.bits[i] ELSE 0]
    BY <1>1, PaddedIs
  <2> HIDE DEF U, k, P
  <2>5. \A i \in 1..k : P[i] \in Nat
    <3>1. \A i \in 1..k : i \in 1..(8 * U) /\ (i <= Len(m.bits) => m.bits[i] \in Nat)
      <4>1. U \in Nat
        BY <2>2
      <4> QED
        BY <1>1, <2>3, <4>1
    <3> QED
      BY <2>4, <3>1
  <2>6. S \in Seq(Nat) /\ Len(S) = IF 1 <= k THEN k - 1 + 1 ELSE 0
    <3>1. 1 \in Int /\ k \in Int
      BY <2>3
    <3> QED
      BY <2>5, <3>1, SubSeqProperties
  <2> HIDE DEF S
  <2>7. Len(S) = k
    BY <2>3, <2>6
  <2>8. F!Message(k, FALSE).parity \in [1..F!Up(k, 8) -> Nat]
    BY <2>3, MessageFacts
  <2>9. Len(F!OnAir(m.bits, t)) = k + (k \div 8)
    <3> DEFINE par == F!Message(Len(S), FALSE).parity
    <3>1. par \in [1..F!Up(Len(S), 8) -> Nat]
      BY <2>7, <2>8, Zenon
    <3> HIDE DEF par
    <3>2. Len(F!WithParity(S, par)) = Len(S) + (Len(S) \div 8)
      BY <2>6, <3>1, WithParityIs
    <3>3. F!OnAir(m.bits, t) = F!WithParity(S, par)
      BY <2>1, Zenon DEF par
    <3> QED
      BY <2>7, <3>2, <3>3, Zenon
  <2>10. k + (k \div 8) < n + (n \div 8)
    BY <2>3
  <2>11. k + (k \div 8) # n + (n \div 8)
    BY <2>3, <2>10
  <2> QED
    BY <1>3, <2>9, <2>11
<1> QED
  BY <1>4, <1>5 DEF m

(* bits_timed sends a byte too many after whole bytes. *)
LEMMA FifoSent ==
    ASSUME NEW n \in Nat, NEW own \in BOOLEAN, bPar
    PROVE  LET m == F!Message(n, own)
               fifo == m.bits \o (IF F!Whole(m) THEN [i \in 1..8 |-> 0] ELSE <<>>)
           IN  F!OnAir(fifo, n % 8) = Sent(m) <=> ~F!Whole(m)
<1> DEFINE m == F!Message(n, own)
           fifo == m.bits \o (IF F!Whole(m) THEN [i \in 1..8 |-> 0] ELSE <<>>)
           t == n % 8
<1>1. m.bits \in Seq(Nat) /\ Len(m.bits) = n /\ (F!Whole(m) <=> n % 8 = 0)
  BY MessageFacts
<1>2. Sent(m) = F!WithParity(m.bits, F!Message(Len(m.bits), FALSE).parity) /\ Len(Sent(m)) = n + (n \div 8)
  <2>1. Len(Sent(m)) = n + (n \div 8)
    BY SentLength
  <2> QED
    BY <2>1 DEF Sent
<1> HIDE DEF m
<1>3. t \in 0..7
  OBVIOUS
<1>4. ASSUME ~F!Whole(m) PROVE F!OnAir(fifo, t) = Sent(m)
  <2>1. fifo = m.bits
    <3>1. fifo = m.bits \o <<>>
      BY <1>4
    <3> QED
      BY <1>1, <3>1, ConcatEmptySeq
  <2> HIDE DEF fifo
  <2>2. t = Len(m.bits) % 8
    BY <1>1
  <2> HIDE DEF t
  <2>3. F!OnAir(m.bits, t) = F!WithParity(m.bits, F!Message(Len(m.bits), FALSE).parity)
    BY <1>1, <1>3, <2>2, OnAirIs
  <2> QED
    BY <1>2, <2>1, <2>3, Zenon
<1>5. ASSUME F!Whole(m) PROVE F!OnAir(fifo, t) # Sent(m)
  <2> DEFINE z == [i \in 1..8 |-> 0]
  <2>1. z \in Seq(Nat) /\ Len(z) = 8
    <3>1. z \in [1..8 -> Nat] /\ 8 \in Nat
      OBVIOUS
    <3> HIDE DEF z
    <3> QED
      BY <3>1, SeqOf
  <2>2. fifo = m.bits \o z
    BY <1>5, Zenon
  <2> HIDE DEF z, fifo
  <2>3. fifo \in Seq(Nat) /\ Len(fifo) = n + 8
    <3>1. m.bits \o z \in Seq(Nat) /\ Len(m.bits \o z) = Len(m.bits) + Len(z)
      BY <1>1, <2>1, ConcatProperties
    <3> QED
      BY <1>1, <2>1, <2>2, <3>1, Zenon
  <2>4. t = Len(fifo) % 8 /\ t = 0
    BY <1>1, <1>5, <2>3
  <2> HIDE DEF t
  <2>5. F!OnAir(fifo, t) = F!WithParity(fifo, F!Message(Len(fifo), FALSE).parity)
    <3>1. bPar \in BOOLEAN /\ t = Len(fifo) % 8
      BY <2>4
    <3>2. F!OnAir(fifo, t) = IF bPar THEN F!WithParity(fifo, F!Message(Len(fifo), FALSE).parity) ELSE fifo
      BY <1>3, <2>3, <3>1, OnAirIs
    <3> QED
      BY <3>2
  <2>6. F!Message(Len(fifo), FALSE).parity \in [1..F!Up(Len(fifo), 8) -> Nat]
    <3> DEFINE k == Len(fifo)
    <3>1. k \in Nat
      BY <2>3
    <3> HIDE DEF k
    <3>2. F!Message(k, FALSE).parity \in [1..F!Up(k, 8) -> Nat]
      BY <3>1, MessageFacts
    <3> QED
      BY <3>2 DEF k
  <2>7. Len(F!OnAir(fifo, t)) = n + 8 + ((n + 8) \div 8)
    <3> DEFINE q == F!Message(Len(fifo), FALSE).parity
    <3>1. q \in [1..F!Up(Len(fifo), 8) -> Nat]
      BY <2>6
    <3>2. F!OnAir(fifo, t) = F!WithParity(fifo, q)
      BY <2>5, Zenon
    <3> HIDE DEF q
    <3>3. Len(F!WithParity(fifo, q)) = Len(fifo) + (Len(fifo) \div 8)
      BY <2>3, <3>1, WithParityIs
    <3> QED
      BY <2>3, <3>2, <3>3, Zenon
  <2>8. n + 8 + ((n + 8) \div 8) # n + (n \div 8)
    OBVIOUS
  <2> QED
    BY <1>2, <2>7, <2>8, Zenon
<1>6. F!OnAir(fifo, t) = Sent(m) <=> ~F!Whole(m)
  BY <1>4, <1>5, Zenon
<1> QED
  BY <1>6 DEF m, fifo, t

LEMMA ParityTold ==
    ASSUME NEW n \in Nat, NEW own \in BOOLEAN
    PROVE  SubSeq(F!Message(n, own).parity, 1, n \div 8) = [j \in 1..(n \div 8) |-> F!Message(n, own).parity[j]]
<1> DEFINE p == F!Message(n, own).parity
           q == n \div 8
           U == F!Up(n, 8)
           T == SubSeq(p, 1, q)
           R == [j \in 1..q |-> p[j]]
<1>1. p \in [1..U -> Nat]
  BY MessageFacts
<1>2. q \in Nat /\ q <= U /\ U \in Nat
  <2>1. PICK x \in Nat, y \in 0..7 : q = x /\ U = IF y = 0 THEN x ELSE x + 1
    BY Eighths
  <2> HIDE DEF q, U
  <2> QED
    BY <2>1
<1> HIDE DEF p, q, U
<1>3. \A j \in 1..q : p[j] \in Nat
  <2>1. \A j \in 1..q : j \in 1..U
    BY <1>2
  <2> QED
    BY <1>1, <2>1
<1>4. R \in [1..q -> Nat]
  BY <1>3
<1>5. R \in Seq(Nat) /\ Len(R) = q /\ \A j \in 1..q : R[j] = p[j]
  <2>1. \A j \in 1..q : R[j] = p[j]
    OBVIOUS
  <2> HIDE DEF R
  <2> QED
    BY <1>2, <1>4, <2>1, SeqOf
<1>6. /\ T \in Seq(Nat) /\ Len(T) = IF 1 <= q THEN q - 1 + 1 ELSE 0
      /\ \A j \in 1..(q - 1 + 1) : T[j] = p[1 + j - 1]
  <2>1. 1 \in Int /\ q \in Int
    BY <1>2
  <2> QED
    BY <1>3, <2>1, SubSeqProperties
<1> HIDE DEF T, R
<1>7. Len(T) = q /\ \A j \in 1..q : T[j] = p[j]
  BY <1>2, <1>6
<1>8. T = R
  <2>1. Len(T) = Len(R) /\ \A j \in 1..Len(T) : T[j] = R[j]
    BY <1>5, <1>7
  <2> QED
    BY <1>5, <1>6, <2>1, SeqEqual
<1> QED
  BY <1>8 DEF T, R, p, q

(* A call for bits gives what came. *)
LEMMA BitsTold ==
    ASSUME NEW n \in Nat, NEW own \in BOOLEAN
    PROVE  F!Unframed(F!Message(n, own)) = Told(F!Message(n, own))
<1> DEFINE m == F!Message(n, own)
<1>1. m.bits \in Seq(Nat) /\ Len(m.bits) = n /\ m.parity \in [1..F!Up(n, 8) -> Nat]
  BY MessageFacts
<1>2. SubSeq(m.parity, 1, n \div 8) = [j \in 1..(n \div 8) |-> m.parity[j]]
  BY ParityTold
<1> HIDE DEF m
<1>3. F!unwrap_frame(F!WithParity(m.bits, m.parity)) =
        [bits |-> m.bits, parity |-> [j \in 1..(Len(m.bits) \div 8) |-> m.parity[j]]]
  <2>1. m.parity \in [1..F!Up(Len(m.bits), 8) -> Nat]
    BY <1>1, Zenon
  <2> QED
    BY <1>1, <2>1, UnwrapIs
<1>4. CASE bPar
  BY <1>4 DEF F!Unframed, Told, m
<1>5. CASE ~bPar
  <2>1. F!Unframed(m) = F!unwrap_frame(F!WithParity(m.bits, m.parity))
    BY <1>5 DEF F!Unframed, F!Raw
  <2>2. Told(m) = [bits |-> m.bits, parity |-> SubSeq(m.parity, 1, Len(m.bits) \div 8)]
    BY <1>5 DEF Told
  <2>3. F!Unframed(m) = Told(m)
    BY <1>1, <1>2, <1>3, <2>1, <2>2, Zenon
  <2> QED
    BY <2>3 DEF m
<1> QED
  BY <1>4, <1>5

(* A call for bytes gives what came if that was whole bytes, and no parity  *)
(* bit was the program's.                                                  *)
LEMMA BytesTold ==
    ASSUME NEW n \in Nat \ {0}, NEW own \in BOOLEAN, bPar \in BOOLEAN
    PROVE  LET h == F!Message(n, own) IN F!AsBytes(h) = Told(h) <=> bPar /\ F!Whole(h)
<1> DEFINE h == F!Message(n, own)
           U == F!Up(n, 8)
           P == F!Padded(h.bits)
<1>1. h.bits \in Seq(Nat) /\ Len(h.bits) = n /\ (F!Whole(h) <=> n % 8 = 0)
  BY MessageFacts
<1>2. SubSeq(h.parity, 1, n \div 8) = [j \in 1..(n \div 8) |-> h.parity[j]]
  BY ParityTold
<1> HIDE DEF h
<1>3. P = [i \in 1..(8 * U) |-> IF i <= n THEN h.bits[i] ELSE 0]
  <2>1. F!Padded(h.bits) = [i \in 1..(8 * F!Up(Len(h.bits), 8)) |-> IF i <= Len(h.bits) THEN h.bits[i] ELSE 0]
    BY <1>1, PaddedIs
  <2> QED
    BY <1>1, <2>1, Zenon
<1>4. PICK q \in Nat, r \in 0..7 : n = 8 * q + r /\ n \div 8 = q /\ n % 8 = r /\ U = IF r = 0 THEN q ELSE q + 1
  BY Eighths
<1> HIDE DEF U, P
<1>5. P \in Seq(Nat) /\ Len(P) = 8 * U
  <2>1. U \in Nat /\ n <= 8 * U
    BY <1>4
  <2>2. \A i \in 1..(8 * U) : (IF i <= n THEN h.bits[i] ELSE 0) \in Nat
    BY <1>1, <2>1
  <2>3. P \in [1..(8 * U) -> Nat] /\ 8 * U \in Nat
    BY <1>3, <2>1, <2>2
  <2> QED
    BY <2>3, SeqOf
<1>6. ASSUME n % 8 = 0 PROVE P = h.bits
  <2>1. 8 * U = n
    BY <1>4, <1>6
  <2>2. \A i \in 1..n : P[i] = h.bits[i]
    BY <1>3, <2>1
  <2> QED
    BY <1>1, <1>5, <2>1, <2>2, SeqEqual
<1>7. ASSUME n % 8 # 0 PROVE P # h.bits
  <2>1. 8 * U # n
    BY <1>4, <1>7
  <2> QED
    BY <1>1, <1>5, <2>1, Zenon
<1>8. ASSUME bPar PROVE F!AsBytes(h) = Told(h) <=> F!Whole(h)
  <2>1. F!AsBytes(h) = [bits |-> P, parity |-> <<>>] /\ Told(h) = [bits |-> h.bits, parity |-> <<>>]
    BY <1>8 DEF F!AsBytes, F!Raw, Told, P
  <2>2. F!AsBytes(h) = Told(h) <=> P = h.bits
    <3>1. F!AsBytes(h).bits = P /\ Told(h).bits = h.bits
      BY <2>1
    <3> QED
      BY <2>1, <3>1, Zenon
  <2> QED
    BY <1>1, <1>6, <1>7, <2>2, Zenon
<1>9. ASSUME ~bPar PROVE F!AsBytes(h) # Told(h)
  <2>1. F!AsBytes(h).bits = F!Padded(F!WithParity(h.bits, h.parity)) /\ F!AsBytes(h).parity = <<>>
    BY <1>9 DEF F!AsBytes, F!Raw
  <2>2. Told(h).bits = h.bits /\ Told(h).parity = [j \in 1..(n \div 8) |-> h.parity[j]]
    BY <1>1, <1>2, <1>9 DEF Told
  <2>3. ASSUME n >= 8 PROVE Told(h).parity # <<>>
    <3>1. 1 \in 1..(n \div 8)
      BY <1>4, <2>3
    <3>2. DOMAIN [j \in 1..(n \div 8) |-> h.parity[j]] = 1..(n \div 8) /\ DOMAIN <<>> = {}
      OBVIOUS
    <3> QED
      BY <2>2, <3>1, <3>2, Zenon
  <2>4. ASSUME n < 8 PROVE F!AsBytes(h).bits # Told(h).bits
    <3>1. F!WithParity(h.bits, h.parity) = h.bits
      <4>1. h.parity \in [1..F!Up(Len(h.bits), 8) -> Nat]
        BY <1>1, MessageFacts DEF h
      <4>2. Len(h.bits) < 8
        BY <1>1, <2>4
      <4> QED
        BY <1>1, <4>1, <4>2, WithParityIs
    <3>2. n % 8 # 0
      BY <2>4
    <3> QED
      BY <1>7, <2>1, <2>2, <3>1, <3>2, Zenon DEF P
  <2> QED
    <3>1. n >= 8 \/ n < 8
      OBVIOUS
    <3> QED
      BY <2>1, <2>3, <2>4, <3>1, Zenon
<1>10. F!AsBytes(h) = Told(h) <=> bPar /\ F!Whole(h)
  BY <1>8, <1>9, Zenon
<1> QED
  BY <1>10 DEF h

-----------------------------------------------------------------------------
(* The cycles of a timed call. *)
LEMMA Divided ==
    ASSUME NEW x \in Int, NEW t \in Nat \ {0}
    PROVE  x = t * (x \div t) + (x % t) /\ x \div t \in Int /\ x % t \in 0..(t - 1)
OBVIOUS

LEMMA Multiples ==
    ASSUME NEW t \in Nat \ {0}, NEW k \in Int
    PROVE  (k >= 1 => t * k >= t) /\ (k <= 0 => t * k <= 0) /\ t * k \in Int
<1>1. ASSUME k >= 1 PROVE t * k >= t
  <2>1. k - 1 \in Nat /\ t * (k - 1) \in Nat /\ t * k = t * (k - 1) + t
    BY <1>1
  <2> QED
    BY <2>1
<1>2. ASSUME k <= 0 PROVE t * k <= 0
  <2>1. 0 - k \in Nat /\ t * (0 - k) \in Nat /\ t * k + t * (0 - k) = 0
    BY <1>2
  <2> QED
    BY <2>1
<1> QED
  BY <1>1, <1>2

LEMMA Remains ==
    ASSUME NEW x \in Nat, NEW t \in Nat \ {0}, x < t
    PROVE  x % t = x
<1> DEFINE k == x \div t
           r == x % t
<1>1. x = t * k + r /\ k \in Int /\ r \in 0..(t - 1)
  BY Divided
<1> HIDE DEF k, r
<1>2. (k >= 1 => t * k >= t) /\ (0 - k >= 1 => t * (0 - k) >= t) /\ t * (0 - k) = 0 - t * k /\ t * k \in Int
  <2>1. 0 - k \in Int
    BY <1>1
  <2>2. t * (0 - k) = 0 - t * k
    BY <1>1
  <2> QED
    BY <1>1, <2>1, <2>2, Multiples
<1>3. ~(k >= 1) /\ ~(0 - k >= 1)
  BY <1>1, <1>2
<1>4. k = 0
  BY <1>1, <1>3
<1> QED
  BY <1>1, <1>4 DEF r

(* A remainder is at most any number it is the remainder of. *)
LEMMA RemainderBelow ==
    ASSUME NEW v \in Nat, NEW w \in Nat \ {0}, NEW k \in Int
    PROVE  (v + w * k) % w \in 0..v
<1> DEFINE x == v + w * k
           j == x \div w
           z == x % w
<1>0. w * k \in Int /\ x \in Int
  BY Multiples
<1>1. x = w * j + z /\ j \in Int /\ z \in 0..(w - 1)
  <2> HIDE DEF x
  <2> QED
    BY <1>0, Divided
<1>2. x = v + w * k
  OBVIOUS
<1> HIDE DEF x, j, z
<1> DEFINE d == k - j
<1>3. d \in Int /\ w * d = w * k - w * j /\ w * j \in Int
  BY <1>1
<1> HIDE DEF d
<1>4. (d >= 1 => w * d >= w) /\ (d <= 0 => w * d <= 0)
  BY <1>3, Multiples
<1>5. z = v + w * d
  BY <1>0, <1>1, <1>2, <1>3
<1>6. ~(d >= 1)
  BY <1>1, <1>3, <1>4, <1>5
<1>7. z <= v
  BY <1>1, <1>3, <1>4, <1>5, <1>6
<1> QED
  BY <1>1, <1>7 DEF z, x

LEMMA PrescalerOf ==
    ASSUME NEW max \in Nat
    PROVE  F!timer_prescaler(max) \in Nat
<1>1. CounterMax \in Nat \ {0}
  BY FramesAssumption
<1>2. ASSUME max > CounterMax PROVE max \div CounterMax \in Nat \ {0}
  <2> DEFINE q == max \div CounterMax
             r == max % CounterMax
  <2>1. max = CounterMax * q + r /\ q \in Int /\ r \in 0..(CounterMax - 1)
    BY <1>1, Divided
  <2> HIDE DEF q, r
  <2>2. q <= 0 => CounterMax * q <= 0
    BY <1>1, <2>1, Multiples
  <2>3. CounterMax * q \in Int
    BY <1>1, <2>1
  <2>4. ~(q <= 0)
    BY <1>1, <1>2, <2>1, <2>2, <2>3
  <2>5. q \in Nat \ {0}
    BY <2>1, <2>4
  <2> QED
    BY <2>5 DEF q
<1>3. ASSUME NEW q \in Nat \ {0} PROVE (q - 1) \div 2 \in Nat
  OBVIOUS
<1> QED
  BY <1>2, <1>3 DEF F!timer_prescaler

(* What the driver makes of the counter of the chip, for an answer after    *)
(* late cycles.                                                            *)
Cycles(p, late, ends, thought) == F!get_timer(type, p, F!Counter(type, p, late, ends, 0), thought, 0)

LEMMA CyclesRight ==
    ASSUME NEW p \in Nat, p <= PrescalerMax, NEW late \in Nat, NEW ends \in BOOLEAN, NEW thought \in BOOLEAN
    PROVE  LET slack == IF ends # thought THEN BitCycles \div 2 ELSE 0
               cycles == Cycles(p, late, ends, thought)
           IN  \/ (Word + late + 1 + slack - cycles) % Word \in 0..(F!Ticks(p) - 1 + 2 * slack)
               \/ cycles = F!Saturated /\ late + F!RxBits(type) * BitCycles >= CounterMax * F!Ticks(p)
<1> DEFINE half == BitCycles \div 2
           he == IF ends THEN half ELSE 0
           ht == IF thought THEN half ELSE 0
           slack == IF ends # thought THEN half ELSE 0
           rb == F!RxBits(type) * BitCycles
           t == F!Ticks(p)
           n == late + rb - he - 0
           count == n \div t
           counter == IF count >= CounterMax THEN 0 ELSE CounterMax - count
           x == Word + (CounterMax - counter) * t + 1 - rb + ht + 0
           cycles == Cycles(p, late, ends, thought)
<1>1. CounterMax \in Nat \ {0} /\ Word \in Nat \ {0} /\ PrescalerMax \in Nat /\ BitCycles \in Nat
  BY FramesAssumption
<1>2. half \in Nat /\ rb \in Nat /\ half <= rb
  <2>1. F!RxBits(type) = 2 \/ F!RxBits(type) = 5
    BY DEF F!RxBits
  <2> QED
    BY <1>1, <2>1
<1>3. t \in Nat \ {0}
  BY DEF F!Ticks
<1>4. p % (PrescalerMax + 1) = p
  <2>1. PrescalerMax + 1 \in Nat \ {0} /\ p < PrescalerMax + 1
    BY <1>1
  <2> QED
    BY <2>1, Remains
<1>5. F!Counter(type, p, late, ends, 0) = counter
  BY <1>4 DEF F!Counter
<1>6. cycles = IF counter = 0 THEN F!Saturated ELSE x % Word
  BY <1>5 DEF Cycles, F!get_timer
<1>7. /\ he \in Nat /\ ht \in Nat /\ slack \in Nat /\ he <= rb
      /\ he - ht + slack >= 0 /\ he - ht + slack <= 2 * slack
  <2> HIDE DEF half, rb
  <2>1. (ends => he = half) /\ (~ends => he = 0)
    BY Zenon
  <2>2. (thought => ht = half) /\ (~thought => ht = 0)
    BY Zenon
  <2>3. (ends # thought => slack = half) /\ (~(ends # thought) => slack = 0)
    BY Zenon
  <2>4. \/ he = half /\ ht = half /\ slack = 0
        \/ he = half /\ ht = 0 /\ slack = half
        \/ he = 0 /\ ht = half /\ slack = half
        \/ he = 0 /\ ht = 0 /\ slack = 0
    <3> HIDE DEF he, ht, slack
    <3>1. CASE ends = thought
      BY <2>1, <2>2, <2>3, <3>1, Zenon
    <3>2. CASE ends # thought
      <4>1. (ends /\ ~thought) \/ (~ends /\ thought)
        BY <3>2
      <4> QED
        BY <2>1, <2>2, <2>3, <3>2, <4>1, Zenon
    <3> QED
      BY <3>1, <3>2
  <2> HIDE DEF he, ht, slack
  <2> QED
    BY <1>2, <2>4
<1> HIDE DEF half, he, ht, slack, rb, t
<1>8. n \in Nat /\ n = late + rb - he
  BY <1>2, <1>7
<1> HIDE DEF n
<1>9. PICK c \in Int, r \in 0..(t - 1) : count = c /\ n = t * c + r
  <2>1. n = t * (n \div t) + (n % t) /\ n \div t \in Int /\ n % t \in 0..(t - 1)
    <3>1. n \in Int
      BY <1>8
    <3> QED
      BY <1>3, <3>1, Divided
  <2>2. count = n \div t
    OBVIOUS
  <2> HIDE DEF count
  <2> QED
    BY <2>1, <2>2, Zenon
<1> HIDE DEF count
<1>10. t * c \in Int
  BY <1>3, <1>9, Multiples
<1>11. ASSUME count >= CounterMax PROVE cycles = F!Saturated /\ late + rb >= CounterMax * t
  <2>1. counter = 0
    BY <1>11
  <2>2. c - CounterMax \in Nat
    BY <1>1, <1>9, <1>11
  <2> DEFINE e == c - CounterMax
  <2>3. e \in Nat /\ t * e \in Nat /\ t * c = t * e + CounterMax * t
    BY <1>1, <1>3, <1>9, <2>2
  <2> HIDE DEF e
  <2>4. CounterMax * t \in Nat
    BY <1>1, <1>3
  <2>5. late + rb >= CounterMax * t
    BY <1>2, <1>7, <1>8, <1>9, <1>10, <2>3, <2>4
  <2>6. cycles = F!Saturated
    <3> HIDE DEF counter, cycles, x
    <3> QED
      BY <1>6, <2>1
  <2> QED
    BY <2>5, <2>6
<1>12. ASSUME ~(count >= CounterMax)
       PROVE  (Word + late + 1 + slack - cycles) % Word \in 0..(t - 1 + 2 * slack)
  <2>1. counter = CounterMax - c /\ counter # 0
    BY <1>1, <1>9, <1>12
  <2> HIDE DEF counter
  <2>2. x = Word + t * c + 1 - rb + ht
    <3>1. CounterMax - counter = c
      BY <1>1, <1>9, <2>1
    <3>2. (CounterMax - counter) * t = t * c
      BY <1>3, <1>9, <3>1
    <3> QED
      BY <1>1, <1>2, <1>7, <1>10, <3>2
  <2> HIDE DEF x
  <2>3. x \in Int
    BY <1>1, <1>2, <1>7, <1>10, <2>2
  <2>4. cycles = x % Word
    <3> HIDE DEF cycles
    <3> QED
      BY <1>6, <2>1
  <2>5. PICK k \in Int, y \in 0..(Word - 1) : x = Word * k + y /\ cycles = y
    BY <1>1, <2>3, <2>4, Divided
  <2> HIDE DEF cycles
  <2> DEFINE v == r + he - ht + slack
  <2>6. v \in Nat /\ v <= t - 1 + 2 * slack
    BY <1>3, <1>7, <1>9
  <2>7. Word * k \in Int
    BY <1>1, <2>5, Multiples
  <2>8. Word + late + 1 + slack - cycles = v + Word * k
    BY <1>1, <1>2, <1>7, <1>8, <1>9, <1>10, <2>2, <2>5, <2>7
  <2> HIDE DEF v
  <2>9. (v + Word * k) % Word \in 0..v
    BY <1>1, <2>6, RemainderBelow
  <2>10. (Word + late + 1 + slack - cycles) % Word \in 0..v
    BY <2>8, <2>9, Zenon
  <2>11. t - 1 + 2 * slack \in Int
    BY <1>3, <1>7
  <2> QED
    BY <2>6, <2>10, <2>11
<1> HIDE DEF cycles
<1>13. \/ (Word + late + 1 + slack - cycles) % Word \in 0..(t - 1 + 2 * slack)
       \/ cycles = F!Saturated /\ late + rb >= CounterMax * t
  BY <1>11, <1>12, Zenon
<1> QED
  BY <1>13, Zenon DEF slack, half, cycles, t, rb

-----------------------------------------------------------------------------
(* CallTrue, of a call c. *)
CallOk(c) ==
    c.ret = "done" /\ c.name \notin {"none", "target_init"} =>
        /\ (c.air = Sent(c.given) /\ c.got = Told(c.heard)) <=> ~F!Excepted(c)
        /\ c.name \in {"bits_timed", "bytes_timed"} => F!CyclesTrue(c)

LEMMA CallOkIs ==
    ASSUME NEW c
    PROVE  CallOk(c) <=> (c.ret = "done" /\ c.name \notin {"none", "target_init"} =>
                            /\ F!Faithful(c) <=> ~F!Excepted(c)
                            /\ c.name \in {"bits_timed", "bytes_timed"} => F!CyclesTrue(c))
<1>1. F!Faithful(c) <=> c.air = Sent(c.given) /\ c.got = Told(c.heard)
  BY Zenon DEF F!Faithful, Sent, Told
<1> QED
  BY <1>1, Zenon DEF CallOk

LEMMA MessagesAre ==
    ASSUME NEW m \in F!Messages
    PROVE  \E n \in Nat \ {0}, own \in BOOLEAN : m = F!Message(n, own) /\ Len(m.bits) = n /\ (F!Whole(m) <=> n % 8 = 0)
<1>1. PICK n \in Lengths, own \in BOOLEAN : m = F!Message(n, own)
  BY DEF F!Messages
<1>2. n \in Nat \ {0}
  BY FramesAssumption
<1> QED
  BY <1>1, <1>2, MessageFacts

(* Nothing is sent and nothing told, and that is what was given and heard.  *)
LEMMA EmptyIs ==
    LET e == F!Message(0, FALSE)
    IN  /\ e.bits = <<>> /\ e.parity = <<>> /\ F!Whole(e) /\ Len(e.bits) = 0
        /\ Sent(e) = <<>> /\ Told(e) = [bits |-> <<>>, parity |-> <<>>]
<1> DEFINE e == F!Message(0, FALSE)
<1>1. e.bits \in Seq(Nat) /\ Len(e.bits) = 0 /\ (F!Whole(e) <=> 0 % 8 = 0)
  BY MessageFacts
<1>2. e.bits = <<>>
  BY <1>1, EmptySeq
<1>3. e.parity \in [1..F!Up(0, 8) -> Nat] /\ e.parity \in Seq(Nat) /\ Len(e.parity) = F!Up(0, 8)
  BY MessageFacts
<1>4. F!Up(0, 8) = 0
  BY DEF F!Up
<1>5. e.parity = <<>>
  <2>1. e.parity \in Seq(Nat) /\ Len(e.parity) = 0
    BY <1>3, <1>4, Zenon
  <2> HIDE DEF e
  <2> QED
    BY <2>1, EmptySeq
<1>6. Sent(e) \in Seq(Nat) /\ Len(Sent(e)) = 0
  <2>1. Sent(e) \in Seq(Nat) /\ Len(Sent(e)) = 0 + (0 \div 8)
    BY SentLength
  <2>2. 0 + (0 \div 8) = 0
    OBVIOUS
  <2> QED
    BY <2>1, <2>2, Zenon
<1>7. Sent(e) = <<>>
  <2> DEFINE s == Sent(e)
  <2>1. s \in Seq(Nat) /\ Len(s) = 0
    BY <1>6
  <2> HIDE DEF s
  <2>2. s = <<>>
    BY <2>1, EmptySeq
  <2> QED
    BY <2>2 DEF s
<1>8. SubSeq(<<>>, 1, Len(e.bits) \div 8) = <<>>
  <2>1. Len(e.bits) \div 8 = 0
    <3>1. 0 \div 8 = 0
      OBVIOUS
    <3> QED
      BY <1>1, <3>1, Zenon
  <2>2. SubSeq(<<>>, 1, 0) = <<>>
    BY SubSeqEmpty
  <2> HIDE DEF e
  <2> QED
    BY <2>1, <2>2
<1>9. 0 % 8 = 0
  OBVIOUS
<1> HIDE DEF e
<1>10. Told(e) = [bits |-> <<>>, parity |-> <<>>]
  BY <1>2, <1>5, <1>8 DEF Told
<1>11. F!Whole(e)
  BY <1>1, <1>9
<1> QED
  BY <1>1, <1>2, <1>5, <1>7, <1>10, <1>11 DEF e

(* Calls of an initiator. *)
LEMMA TransceiveBitsOk ==
    ASSUME NEW m \in F!Messages, NEW h \in F!Messages, bPar \in BOOLEAN, F!TransceiveBits(m, h)
    PROVE  CallOk(fcall') /\ ui8TxBits' \in 0..7 /\ fcall'.name = "transceive_bits"
<1> DEFINE t == Len(F!Framed(m)) % 8
           a == F!OnAir(F!Framed(m), t)
           c == [F!Nothing EXCEPT !.name = "transceive_bits", !.given = m, !.air = a]
           x == IF F!Garbled(h) THEN [c EXCEPT !.ret = "ERFTRANS"] ELSE [c EXCEPT !.heard = h, !.got = F!Unframed(h)]
<1>1. ui8TxBits' = t /\ fcall' = x
  <2>1. /\ ui8TxBits' = t
        /\ fcall' = F!Heard([F!Nothing EXCEPT !.name = "transceive_bits", !.given = m, !.air = F!OnAir(F!Framed(m), ui8TxBits')],
                            h, F!Unframed(h))
    BY Zenon DEF F!TransceiveBits
  <2> QED
    BY <2>1, Zenon DEF F!Heard
<1>2. PICK n \in Nat \ {0}, own \in BOOLEAN : m = F!Message(n, own) /\ Len(m.bits) = n
  BY MessagesAre
<1>3. t \in 0..7 /\ (a = Sent(m) <=> ~(~bPar /\ n = 8))
  <2>1. n \in Nat
    OBVIOUS
  <2> QED
    BY <1>2, <2>1, FramedSent
<1>4. F!Unframed(h) = Told(h)
  BY MessagesAre, BitsTold
<1> HIDE DEF t, a
<1>5. /\ x.name = "transceive_bits"
      /\ F!Garbled(h) => x.ret = "ERFTRANS"
      /\ ~F!Garbled(h) => x.given = m /\ x.air = a /\ x.heard = h /\ x.got = F!Unframed(h)
  BY DEF F!Nothing
<1> HIDE DEF x
<1>6. ASSUME ~F!Garbled(h) PROVE F!Excepted(x) <=> ~bPar /\ n = 8
  <2>1. x.name = "transceive_bits" /\ x.given = m
    BY <1>5, <1>6
  <2> QED
    BY <1>2, <2>1 DEF F!Excepted
<1>7. CallOk(x)
  <2>1. CASE F!Garbled(h)
    BY <1>5, <2>1 DEF CallOk
  <2>2. CASE ~F!Garbled(h)
    <3>1. (x.air = Sent(x.given) /\ x.got = Told(x.heard)) <=> ~F!Excepted(x)
      BY <1>3, <1>4, <1>5, <1>6, <2>2, Zenon
    <3>2. x.name \notin {"bits_timed", "bytes_timed"}
      BY <1>5
    <3> QED
      BY <3>1, <3>2, Zenon DEF CallOk
  <2> QED
    BY <2>1, <2>2
<1> QED
  BY <1>1, <1>3, <1>5, <1>7, Zenon

LEMMA TransceiveBytesOk ==
    ASSUME NEW m \in F!Messages, NEW h \in F!Messages, NEW room, bPar \in BOOLEAN, ui8TxBits \in 0..7,
           F!TransceiveBytes(m, h, room)
    PROVE  CallOk(fcall') /\ ui8TxBits' \in 0..7 /\ fcall'.name = "transceive_bytes"
<1> DEFINE a == F!OnAir(m.bits, 0)
           c == [F!Nothing EXCEPT !.name = "transceive_bytes", !.given = m, !.air = a]
           g == F!AsBytes(h)
           over == F!Overflow(h, room) /\ ~F!Garbled(h)
           refused == [F!Nothing EXCEPT !.name = "transceive_bytes", !.ret = "EINVARG"]
           x == IF over THEN [c EXCEPT !.ret = "EOVFLOW"]
                ELSE IF F!Garbled(h) THEN [c EXCEPT !.ret = "ERFTRANS"] ELSE [c EXCEPT !.heard = h, !.got = g]
<1>1. F!Whole(m) /\ (~bPar => fcall' = refused /\ ui8TxBits' = ui8TxBits) /\ (bPar => fcall' = x /\ ui8TxBits' = 0)
  BY Zenon DEF F!TransceiveBytes, F!Refused, F!Heard
<1>2. PICK n \in Nat \ {0}, own \in BOOLEAN : m = F!Message(n, own) /\ Len(m.bits) = n /\ (F!Whole(m) <=> n % 8 = 0)
  BY MessagesAre
<1>3. bPar => a = Sent(m)
  <2>1. n \in Nat /\ n > 0 /\ 0 \in 0..7 /\ 0 = n % 8
    BY <1>1, <1>2
  <2> QED
    BY <1>2, <2>1, BytesSent
<1>4. PICK n2 \in Nat \ {0}, own2 \in BOOLEAN : h = F!Message(n2, own2)
  BY MessagesAre
<1>5. g = Told(h) <=> bPar /\ F!Whole(h)
  BY <1>4, BytesTold
<1> HIDE DEF a, g, over
<1>6. /\ x.name = "transceive_bytes"
      /\ over => x.ret = "EOVFLOW"
      /\ F!Garbled(h) => x.ret # "done"
      /\ ~over /\ ~F!Garbled(h) => x.given = m /\ x.air = a /\ x.heard = h /\ x.got = g
  BY DEF F!Nothing
<1>7. refused.name = "transceive_bytes" /\ refused.ret = "EINVARG"
  BY DEF F!Nothing
<1> HIDE DEF x, refused
<1>8. ASSUME bPar PROVE CallOk(x)
  <2>1. CASE over \/ F!Garbled(h)
    BY <1>6, <2>1 DEF CallOk
  <2>2. CASE ~over /\ ~F!Garbled(h)
    <3>1. F!Excepted(x) <=> ~F!Whole(h)
      <4>1. x.name = "transceive_bytes" /\ x.heard = h
        BY <1>6, <2>2, Zenon
      <4> QED
        BY <1>8, <4>1 DEF F!Excepted
    <3>2. (x.air = Sent(x.given) /\ x.got = Told(x.heard)) <=> ~F!Excepted(x)
      BY <1>3, <1>5, <1>6, <1>8, <2>2, <3>1, Zenon
    <3>3. x.name \notin {"bits_timed", "bytes_timed"}
      BY <1>6
    <3> QED
      BY <3>2, <3>3, Zenon DEF CallOk
  <2> QED
    BY <2>1, <2>2, Zenon
<1>9. CallOk(refused)
  BY <1>7 DEF CallOk
<1>10. 0 \in 0..7
  OBVIOUS
<1> QED
  BY <1>1, <1>6, <1>7, <1>8, <1>9, <1>10, Zenon

(* Calls of a target. *)
LEMMA TargetReceiveBitsOk ==
    ASSUME NEW h \in F!Messages, NEW room, F!TargetReceiveBits(h, room)
    PROVE  CallOk(fcall') /\ ui8TxBits' = ui8TxBits /\ fcall'.name = "receive_bits"
<1> DEFINE c == [F!Nothing EXCEPT !.name = "receive_bits", !.cmd = "TgGetInitiatorCommand"]
           g == F!Unframed(h)
           over == bPar /\ F!Overflow(h, room) /\ ~F!Garbled(h)
           x == IF over THEN [c EXCEPT !.ret = "EOVFLOW"]
                ELSE IF F!Garbled(h) THEN [c EXCEPT !.ret = "ERFTRANS"] ELSE [c EXCEPT !.heard = h, !.got = g]
<1>1. fcall' = x /\ ui8TxBits' = ui8TxBits
  BY Zenon DEF F!TargetReceiveBits, F!Heard
<1>2. g = Told(h)
  BY MessagesAre, BitsTold
<1>3. <<>> = Sent(F!Message(0, FALSE))
  BY EmptyIs
<1>4. Len(F!Message(0, FALSE).bits) # 8
  <2>1. Len(F!Message(0, FALSE).bits) = 0
    BY EmptyIs
  <2>2. 0 # 8
    OBVIOUS
  <2> QED
    BY <2>1, <2>2, Zenon
<1> HIDE DEF g, over
<1>5. /\ x.name = "receive_bits"
      /\ over => x.ret = "EOVFLOW"
      /\ F!Garbled(h) => x.ret # "done"
      /\ ~over /\ ~F!Garbled(h) => x.given = F!Message(0, FALSE) /\ x.air = <<>> /\ x.heard = h /\ x.got = g
  BY DEF F!Nothing
<1> HIDE DEF x
<1>6. CASE over \/ F!Garbled(h)
  BY <1>1, <1>5, <1>6 DEF CallOk
<1>7. CASE ~over /\ ~F!Garbled(h)
  <2>1. ~F!Excepted(x)
    BY <1>5 DEF F!Excepted
  <2>2. (x.air = Sent(x.given) /\ x.got = Told(x.heard)) <=> ~F!Excepted(x)
    BY <1>2, <1>3, <1>5, <1>7, <2>1, Zenon
  <2>3. x.name \notin {"bits_timed", "bytes_timed"}
    BY <1>5
  <2>4. CallOk(x)
    BY <2>2, <2>3, Zenon DEF CallOk
  <2> QED
    BY <1>1, <1>5, <2>4, Zenon
<1> QED
  BY <1>6, <1>7, Zenon

LEMMA TargetSendBitsOk ==
    ASSUME NEW m \in F!Messages, bPar \in BOOLEAN, F!TargetSendBits(m)
    PROVE  CallOk(fcall') /\ ui8TxBits' \in 0..7 /\ fcall'.name = "send_bits"
<1> DEFINE t == Len(F!Framed(m)) % 8
           a == F!OnAir(F!Framed(m), t)
           x == [F!Nothing EXCEPT !.name = "send_bits", !.cmd = "TgResponseToInitiator", !.given = m, !.air = a]
<1>1. ui8TxBits' = t /\ fcall' = x
  <2>1. ui8TxBits' = t /\ fcall' = [F!Nothing EXCEPT !.name = "send_bits", !.cmd = "TgResponseToInitiator", !.given = m,
                                                     !.air = F!OnAir(F!Framed(m), ui8TxBits')]
    BY Zenon DEF F!TargetSendBits
  <2> QED
    BY <2>1, Zenon
<1>2. PICK n \in Nat \ {0}, own \in BOOLEAN : m = F!Message(n, own) /\ Len(m.bits) = n
  BY MessagesAre
<1>3. t \in 0..7 /\ (a = Sent(m) <=> ~(~bPar /\ n = 8))
  <2>1. n \in Nat
    OBVIOUS
  <2> QED
    BY <1>2, <2>1, FramedSent
<1>4. [bits |-> <<>>, parity |-> <<>>] = Told(F!Message(0, FALSE))
  BY EmptyIs
<1> HIDE DEF t, a
<1>5. /\ x.name = "send_bits" /\ x.given = m /\ x.air = a
      /\ x.heard = F!Message(0, FALSE) /\ x.got = [bits |-> <<>>, parity |-> <<>>]
  BY DEF F!Nothing
<1> HIDE DEF x
<1>6. F!Excepted(x) <=> ~bPar /\ n = 8
  BY <1>2, <1>5 DEF F!Excepted
<1>7. (x.air = Sent(x.given) /\ x.got = Told(x.heard)) <=> ~F!Excepted(x)
  BY <1>3, <1>4, <1>5, <1>6, Zenon
<1>8. x.name \notin {"bits_timed", "bytes_timed"}
  BY <1>5
<1>9. CallOk(x)
  BY <1>7, <1>8, Zenon DEF CallOk
<1> QED
  BY <1>1, <1>3, <1>5, <1>9, Zenon

(* The mode the chip was told to be a target in, and what became of it.     *)
ModeOf ==
    /\ fphase \in {"awaiting", "target"} =>
          /\ pnt \in F!Asked
          /\ "PICC_ONLY" \in ptm <=> pnt.nmt = "A" /\ pnt.sak4 /\ type = "PN532"
          /\ ~switched => bAutoIso14443_4
    /\ fphase = "target" =>
          activated.nmt = pnt.nmt /\ fTarget.nmt = pnt.nmt /\ fTarget.sak4 = pnt.sak4

(* ModeFits, of a call c. *)
ModeOk(c) ==
    c.cmd # "none" /\ c.name \in {"receive_bytes", "send_bytes"} /\ bEasyFraming /\ ~switched =>
        (c.cmd \in {"TgGetData", "TgSetData"} <=> (activated.nmt = "DEP" \/ "PICC_ONLY" \in ptm))

LEMMA CommandFits ==
    ASSUME ModeOf, fphase = "target", bEasyFraming, ~switched,
           NEW data \in {"TgGetData", "TgSetData"}, NEW raw \in {"TgGetInitiatorCommand", "TgResponseToInitiator"},
           F!Command(data, raw) # "ENOTIMPL"
    PROVE  F!Command(data, raw) \in {"TgGetData", "TgSetData"} <=> (activated.nmt = "DEP" \/ "PICC_ONLY" \in ptm)
<1> DEFINE picc == fTarget.nmt = "A" /\ fTarget.sak4
           c == F!Command(data, raw)
<1>1. /\ "PICC_ONLY" \in ptm <=> picc /\ type = "PN532"
      /\ activated.nmt = fTarget.nmt /\ bAutoIso14443_4
  BY Zenon DEF ModeOf
<1>2. "A" # "DEP" /\ data # raw /\ data # "ENOTIMPL" /\ raw # "ENOTIMPL" /\ raw \notin {"TgGetData", "TgSetData"}
  OBVIOUS
<1>3. c = CASE ~bEasyFraming -> raw
            [] bEasyFraming /\ fTarget.nmt = "DEP" -> data
            [] bEasyFraming /\ fTarget.nmt = "A" /\ fTarget.sak4 ->
                  IF type = "PN532" /\ bAutoIso14443_4 THEN data ELSE "ENOTIMPL"
            [] OTHER -> raw
  BY DEF F!Command
<1> HIDE DEF c
<1>4. CASE fTarget.nmt = "DEP"
  <2>1. ~picc
    BY <1>4
  <2>2. c = data
    BY <1>3, <1>4
  <2> QED
    BY <1>1, <1>2, <1>4, <2>2, Zenon DEF c
<1>5. CASE picc
  <2>0. fTarget.nmt # "DEP"
    BY <1>5
  <2>1. c = IF type = "PN532" /\ bAutoIso14443_4 THEN data ELSE "ENOTIMPL"
    BY <1>3, <1>5, <2>0
  <2>2. c # "ENOTIMPL"
    BY DEF c
  <2>3. type = "PN532" /\ c = data
    BY <2>1, <2>2
  <2> QED
    BY <1>1, <1>5, <2>3, Zenon DEF c
<1>6. CASE fTarget.nmt # "DEP" /\ ~picc
  <2>1. c = raw
    BY <1>3, <1>6
  <2> QED
    BY <1>1, <1>2, <1>6, <2>1, Zenon DEF c
<1> QED
  BY <1>4, <1>5, <1>6, Zenon

LEMMA CommandAmong ==
    ASSUME NEW data, NEW raw
    PROVE  F!Command(data, raw) \in {data, raw, "ENOTIMPL"}
BY DEF F!Command

LEMMA TargetReceiveBytesOk ==
    ASSUME NEW h \in F!Messages, NEW room, bPar \in BOOLEAN, ModeOf, F!TargetReceiveBytes(h, room)
    PROVE  CallOk(fcall') /\ ModeOk(fcall') /\ ui8TxBits' = ui8TxBits
<1> DEFINE cmd == F!Command("TgGetData", "TgGetInitiatorCommand")
           c == [F!Nothing EXCEPT !.name = "receive_bytes", !.cmd = cmd]
           g == F!AsBytes(h)
           over == F!Overflow(h, room) /\ ~F!Garbled(h)
           refused == [F!Nothing EXCEPT !.name = "receive_bytes", !.ret = cmd]
           x == IF over THEN [c EXCEPT !.ret = "EOVFLOW"]
                ELSE IF F!Garbled(h) THEN [c EXCEPT !.ret = "ERFTRANS"] ELSE [c EXCEPT !.heard = h, !.got = g]
<1>1. /\ fphase = "target" /\ ui8TxBits' = ui8TxBits
      /\ cmd = "ENOTIMPL" => fcall' = refused
      /\ cmd # "ENOTIMPL" => fcall' = x
  BY Zenon DEF F!TargetReceiveBytes, F!Refused, F!Heard
<1>2. g = Told(h) <=> bPar /\ F!Whole(h)
  BY MessagesAre, BytesTold
<1>3. <<>> = Sent(F!Message(0, FALSE))
  BY EmptyIs
<1>m. cmd # "ENOTIMPL" /\ bEasyFraming /\ ~switched =>
        (cmd \in {"TgGetData", "TgSetData"} <=> (activated.nmt = "DEP" \/ "PICC_ONLY" \in ptm))
  <2>1. /\ "TgGetData" \in {"TgGetData", "TgSetData"}
        /\ "TgGetInitiatorCommand" \in {"TgGetInitiatorCommand", "TgResponseToInitiator"}
    OBVIOUS
  <2> QED
    BY <1>1, <2>1, CommandFits, Zenon
<1> HIDE DEF g, over, cmd
<1>5. /\ x.name = "receive_bytes" /\ x.cmd = cmd
      /\ over => x.ret = "EOVFLOW"
      /\ F!Garbled(h) => x.ret # "done"
      /\ ~over /\ ~F!Garbled(h) => x.given = F!Message(0, FALSE) /\ x.air = <<>> /\ x.heard = h /\ x.got = g
  BY DEF F!Nothing
<1>6. refused.name = "receive_bytes" /\ refused.cmd = "none" /\ refused.ret = cmd
  BY DEF F!Nothing
<1> HIDE DEF x, refused
<1>7. CallOk(x)
  <2>1. CASE over \/ F!Garbled(h)
    BY <1>5, <2>1 DEF CallOk
  <2>2. CASE ~over /\ ~F!Garbled(h)
    <3>1. F!Excepted(x) <=> ~bPar \/ ~F!Whole(h)
      <4>1. x.name = "receive_bytes" /\ x.heard = h
        BY <1>5, <2>2, Zenon
      <4> QED
        BY <4>1 DEF F!Excepted
    <3>2. (x.air = Sent(x.given) /\ x.got = Told(x.heard)) <=> ~F!Excepted(x)
      BY <1>2, <1>3, <1>5, <2>2, <3>1, Zenon
    <3>3. x.name \notin {"bits_timed", "bytes_timed"}
      BY <1>5
    <3> QED
      BY <3>2, <3>3, Zenon DEF CallOk
  <2> QED
    BY <2>1, <2>2, Zenon
<1>8. (cmd # "ENOTIMPL" => ModeOk(x)) /\ ModeOk(refused)
  <2>1. cmd # "ENOTIMPL" => ModeOk(x)
    BY <1>5, <1>m, Zenon DEF ModeOk
  <2>2. ModeOk(refused)
    BY <1>6, Zenon DEF ModeOk
  <2> QED
    BY <2>1, <2>2, Zenon
<1>9. cmd = "ENOTIMPL" => CallOk(refused)
  BY <1>6 DEF CallOk
<1> QED
  BY <1>1, <1>7, <1>8, <1>9, Zenon

LEMMA TargetSendBytesOk ==
    ASSUME NEW m \in F!Messages, bPar \in BOOLEAN, ui8TxBits \in 0..7, ModeOf, F!TargetSendBytes(m)
    PROVE  CallOk(fcall') /\ ModeOk(fcall') /\ ui8TxBits' = ui8TxBits
<1> DEFINE cmd == F!Command("TgSetData", "TgResponseToInitiator")
           a == F!OnAir(m.bits, ui8TxBits)
           x == [F!Nothing EXCEPT !.name = "send_bytes", !.cmd = cmd, !.given = m, !.stale = ui8TxBits, !.air = a]
           refused(e) == [F!Nothing EXCEPT !.name = "send_bytes", !.ret = e]
<1>1. /\ fphase = "target" /\ ui8TxBits' = ui8TxBits /\ F!Whole(m)
      /\ ~bPar => fcall' = refused("ECHIP")
      /\ bPar /\ cmd = "ENOTIMPL" => fcall' = refused(cmd)
      /\ bPar /\ cmd # "ENOTIMPL" => fcall' = x
  BY Zenon DEF F!TargetSendBytes, F!Refused
<1>2. PICK n \in Nat \ {0}, own \in BOOLEAN : m = F!Message(n, own) /\ (F!Whole(m) <=> n % 8 = 0)
  BY MessagesAre
<1>3. bPar => (a = Sent(m) <=> ui8TxBits = 0)
  <2>1. n \in Nat /\ n > 0 /\ n % 8 = 0
    BY <1>1, <1>2
  <2>2. ASSUME bPar PROVE /\ ui8TxBits = n % 8 => F!OnAir(m.bits, ui8TxBits) = Sent(m)
                          /\ n % 8 = 0 /\ ui8TxBits # 0 => F!OnAir(m.bits, ui8TxBits) # Sent(m)
    BY <1>2, <2>1, <2>2, BytesSent
  <2> QED
    BY <2>1, <2>2, Zenon
<1>4. [bits |-> <<>>, parity |-> <<>>] = Told(F!Message(0, FALSE))
  BY EmptyIs
<1>m. cmd # "ENOTIMPL" /\ bEasyFraming /\ ~switched =>
        (cmd \in {"TgGetData", "TgSetData"} <=> (activated.nmt = "DEP" \/ "PICC_ONLY" \in ptm))
  <2>1. /\ "TgSetData" \in {"TgGetData", "TgSetData"}
        /\ "TgResponseToInitiator" \in {"TgGetInitiatorCommand", "TgResponseToInitiator"}
    OBVIOUS
  <2> QED
    BY <1>1, <2>1, CommandFits, Zenon
<1> HIDE DEF a, cmd
<1>5. /\ x.name = "send_bytes" /\ x.cmd = cmd /\ x.given = m /\ x.air = a /\ x.stale = ui8TxBits
      /\ x.heard = F!Message(0, FALSE) /\ x.got = [bits |-> <<>>, parity |-> <<>>]
  BY DEF F!Nothing
<1>6. \A e : refused(e).name = "send_bytes" /\ refused(e).cmd = "none" /\ refused(e).ret = e
  BY DEF F!Nothing
<1> HIDE DEF x, refused
<1>7. ASSUME bPar PROVE CallOk(x)
  <2>1. F!Excepted(x) <=> ui8TxBits # 0
    BY <1>5, <1>7 DEF F!Excepted
  <2>2. (x.air = Sent(x.given) /\ x.got = Told(x.heard)) <=> ~F!Excepted(x)
    BY <1>3, <1>4, <1>5, <1>7, <2>1, Zenon
  <2>3. x.name \notin {"bits_timed", "bytes_timed"}
    BY <1>5
  <2> QED
    BY <2>2, <2>3, Zenon DEF CallOk
<1>8. (cmd # "ENOTIMPL" => ModeOk(x)) /\ ModeOk(refused("ECHIP")) /\ ModeOk(refused(cmd))
  <2>1. cmd # "ENOTIMPL" => ModeOk(x)
    BY <1>5, <1>m, Zenon DEF ModeOk
  <2>2. ModeOk(refused("ECHIP")) /\ ModeOk(refused(cmd))
    BY <1>6, Zenon DEF ModeOk
  <2> QED
    BY <2>1, <2>2, Zenon
<1>9. CallOk(refused("ECHIP")) /\ (cmd = "ENOTIMPL" => CallOk(refused(cmd)))
  BY <1>6 DEF CallOk
<1> QED
  BY <1>1, <1>7, <1>8, <1>9, Zenon

(* The timed calls.  x is the call c, which is as nothing but for a name,   *)
(* what was given and what went on the air, with its answer h.             *)
LEMMA TimedOk ==
    ASSUME NEW n \in Nat \ {0}, NEW h, NEW size \in Nat \ {0}, h = None \/ h = F!Message(size, FALSE), NEW a, NEW room, bPar,
           NEW max \in Nat, NEW late \in Nat, NEW ends \in BOOLEAN, NEW thought \in BOOLEAN,
           NEW name \in {"bits_timed", "bytes_timed"},
           (a = Sent(F!Message(n, FALSE))) <=> ~(name = "bits_timed" /\ F!Whole(F!Message(n, FALSE)))
    PROVE  LET c == [F!Nothing EXCEPT !.name = name, !.given = F!Message(n, FALSE), !.air = a]
               x == F!Timed(c, h, room, max, late, ends, thought)
           IN  CallOk(x) /\ ModeOk(x)
<1> DEFINE m == F!Message(n, FALSE)
           c == [F!Nothing EXCEPT !.name = name, !.given = m, !.air = a]
           x == F!Timed(c, h, room, max, late, ends, thought)
           p == F!timer_prescaler(max)
           counter == IF h = None THEN 0 ELSE F!Counter(type, p, late, ends, 0)
           cycles == F!get_timer(type, p, counter, thought, 0)
           heard == [c EXCEPT !.prescaler = p, !.late = late, !.blurred = (ends # thought), !.cycles = cycles]
           g == F!AsBytes(h)
           e == F!Message(0, FALSE)
<1>1. x = CASE h = None -> heard
            [] h # None /\ F!Overflow(h, room) -> [heard EXCEPT !.ret = "EOVFLOW"]
            [] OTHER -> [heard EXCEPT !.heard = h, !.got = g]
  BY Zenon DEF F!Timed
<1>2. p \in Nat
  BY PrescalerOf
<1>3. h # None => cycles = Cycles(p, late, ends, thought)
  BY DEF Cycles
<1>4. e.bits = <<>> /\ F!Whole(e) /\ [bits |-> <<>>, parity |-> <<>>] = Told(e)
  BY EmptyIs
<1>5. h # None => (g = Told(h) <=> F!Whole(h))
  BY BytesTold
<1> HIDE DEF p, cycles, m, g
<1>6. /\ heard.name = name /\ heard.cmd = "none" /\ heard.ret = "done" /\ heard.given = m /\ heard.air = a /\ heard.heard = e
      /\ heard.got = [bits |-> <<>>, parity |-> <<>>] /\ heard.prescaler = p /\ heard.late = late
      /\ heard.blurred = (ends # thought) /\ heard.cycles = cycles
  BY DEF F!Nothing
<1>7. LET y == [heard EXCEPT !.heard = h, !.got = g]
      IN  /\ y.name = name /\ y.cmd = "none" /\ y.ret = "done" /\ y.given = m /\ y.air = a /\ y.heard = h
          /\ y.got = g /\ y.prescaler = p /\ y.late = late
          /\ y.blurred = (ends # thought) /\ y.cycles = cycles
  BY DEF F!Nothing
<1>8. LET y == [heard EXCEPT !.ret = "EOVFLOW"] IN y.ret = "EOVFLOW" /\ y.cmd = "none"
  BY DEF F!Nothing
<1>9. \A y : y.name = name => (F!Excepted(y) <=> (name = "bits_timed" /\ F!Whole(y.given)) \/ ~F!Whole(y.heard))
  BY DEF F!Excepted
<1> HIDE DEF heard
<1>10. CASE h = None
  <2>1. x = heard
    BY <1>1, <1>10
  <2> HIDE DEF x, e
  <2>2. F!CyclesTrue(heard)
    BY <1>4, <1>6, Zenon DEF F!CyclesTrue
  <2>3. (heard.air = Sent(heard.given) /\ heard.got = Told(heard.heard)) <=> ~F!Excepted(heard)
    BY <1>4, <1>6, <1>9, Zenon DEF m
  <2>4. CallOk(heard)
    BY <2>2, <2>3, Zenon DEF CallOk
  <2>5. ModeOk(heard)
    BY <1>6, Zenon DEF ModeOk
  <2> QED
    BY <2>1, <2>4, <2>5, Zenon DEF x, m
<1>11. CASE h # None /\ F!Overflow(h, room)
  <2> DEFINE y == [heard EXCEPT !.ret = "EOVFLOW"]
  <2>1. x = y
    BY <1>1, <1>11
  <2>2. y.ret # "done" /\ y.cmd = "none"
    BY <1>8
  <2> HIDE DEF x, y
  <2>3. CallOk(y) /\ ModeOk(y)
    BY <2>2, Zenon DEF CallOk, ModeOk
  <2> QED
    BY <2>1, <2>3, Zenon DEF x, m
<1>12. CASE h # None /\ ~F!Overflow(h, room)
  <2> DEFINE y == [heard EXCEPT !.heard = h, !.got = g]
  <2>1. x = y
    BY <1>1, <1>12
  <2>2. /\ y.name = name /\ y.cmd = "none" /\ y.ret = "done" /\ y.given = m /\ y.air = a /\ y.heard = h
        /\ y.got = g /\ y.prescaler = p /\ y.late = late
        /\ y.blurred = (ends # thought) /\ y.cycles = cycles
    BY <1>7
  <2> HIDE DEF x, y
  <2>3. F!CyclesTrue(y)
    <3>1. SUFFICES ASSUME y.prescaler <= PrescalerMax
                   PROVE  LET half == BitCycles \div 2
                              slack == IF y.blurred THEN half ELSE 0
                          IN  \/ (Word + y.late + 1 + slack - y.cycles) % Word \in 0..(F!Ticks(y.prescaler) - 1 + 2 * slack)
                              \/ /\ y.cycles = F!Saturated
                                 /\ y.late + F!RxBits(type) * BitCycles >= CounterMax * F!Ticks(y.prescaler)
      BY Zenon DEF F!CyclesTrue
    <3>2. p <= PrescalerMax
      BY <2>2, <3>1
    <3>3. LET slack == IF ends # thought THEN BitCycles \div 2 ELSE 0
          IN  \/ (Word + late + 1 + slack - Cycles(p, late, ends, thought)) % Word \in 0..(F!Ticks(p) - 1 + 2 * slack)
              \/ Cycles(p, late, ends, thought) = F!Saturated /\ late + F!RxBits(type) * BitCycles >= CounterMax * F!Ticks(p)
      BY <1>2, <3>2, CyclesRight
    <3>4. cycles = Cycles(p, late, ends, thought)
      BY <1>3, <1>12
    <3>5. LET slack == IF ends # thought THEN BitCycles \div 2 ELSE 0
          IN  \/ (Word + late + 1 + slack - cycles) % Word \in 0..(F!Ticks(p) - 1 + 2 * slack)
              \/ cycles = F!Saturated /\ late + F!RxBits(type) * BitCycles >= CounterMax * F!Ticks(p)
      BY <3>3, <3>4, Zenon
    <3> QED
      BY <2>2, <3>5, Zenon
  <2>4. (y.air = Sent(y.given) /\ y.got = Told(y.heard)) <=> ~F!Excepted(y)
    BY <1>5, <1>9, <1>12, <2>2, Zenon DEF m
  <2>5. CallOk(y)
    BY <2>3, <2>4, Zenon DEF CallOk
  <2>6. ModeOk(y)
    BY <2>2, Zenon DEF ModeOk
  <2> QED
    BY <2>1, <2>5, <2>6, Zenon DEF x, m
<1> QED
  BY <1>10, <1>11, <1>12, Zenon

LEMMA TimedCallsOk ==
    ASSUME F!TimedCalls, bPar \in BOOLEAN
    PROVE  CallOk(fcall') /\ ModeOk(fcall') /\ ui8TxBits' = ui8TxBits
<1>1. PICK n \in Lengths \cup {0}, size \in Lengths \cup {0}, room \in Room, clock \in F!Clock, framing \in {"A", "B", "other"} :
        LET h == IF size = 0 THEN None ELSE F!Message(size, FALSE)
        IN  /\ n # 0
            /\ \/ F!TransceiveBitsTimed(F!Message(n, FALSE), h, clock.max, clock.late, clock.ends, clock.thought)
               \/ F!TransceiveBytesTimed(F!Message(n, FALSE), h, room, clock.max, clock.late, clock.ends, clock.thought, framing)
  BY Zenon DEF F!TimedCalls
<1> DEFINE h == IF size = 0 THEN None ELSE F!Message(size, FALSE)
           m == F!Message(n, FALSE)
           max == clock.max
           late == clock.late
           ends == clock.ends
           thought == clock.thought
<1>2. n \in Nat \ {0} /\ max \in Nat /\ late \in Nat /\ ends \in BOOLEAN /\ thought \in BOOLEAN
  <2>1. n \in Nat \ {0}
    BY <1>1, FramesAssumption
  <2>2. max \in MaxCycles /\ late \in Late /\ ends \in BOOLEAN /\ thought \in BOOLEAN
    BY DEF F!Clock
  <2> QED
    BY <2>1, <2>2, FramesAssumption
<1>3. PICK size2 \in Nat \ {0} : h = None \/ h = F!Message(size2, FALSE)
  <2>1. CASE size = 0
    <3>1. h = None /\ 1 \in Nat \ {0}
      BY <2>1
    <3> QED
      BY <3>1, Zenon
  <2>2. CASE size # 0
    <3>1. size \in Nat \ {0}
      BY <2>2, FramesAssumption
    <3>2. h = F!Message(size, FALSE)
      BY <2>2, Zenon
    <3> QED
      BY <3>1, <3>2, Zenon
  <2> QED
    BY <2>1, <2>2, Zenon
<1>4. \/ F!TransceiveBitsTimed(m, h, max, late, ends, thought)
      \/ F!TransceiveBytesTimed(m, h, room, max, late, ends, thought, framing)
  BY <1>1, Zenon
<1>5. (F!Whole(m) <=> n % 8 = 0) /\ Len(m.bits) = n
  BY <1>2, MessageFacts
<1>6. \A name \in {"bits_timed", "bytes_timed"}, error \in {"ENOTIMPL", "EINVARG"} :
        LET x == [F!Nothing EXCEPT !.name = name, !.ret = error] IN CallOk(x) /\ ModeOk(x)
  <2> TAKE name \in {"bits_timed", "bytes_timed"}, error \in {"ENOTIMPL", "EINVARG"}
  <2> DEFINE x == [F!Nothing EXCEPT !.name = name, !.ret = error]
  <2>1. x.ret # "done" /\ x.cmd = "none"
    BY DEF F!Nothing
  <2> HIDE DEF x
  <2>2. CallOk(x) /\ ModeOk(x)
    BY <2>1, Zenon DEF CallOk, ModeOk
  <2> QED
    BY <2>2 DEF x
<1> HIDE DEF h, max, late, ends, thought
<1>7. ASSUME F!TransceiveBitsTimed(m, h, max, late, ends, thought)
      PROVE  CallOk(fcall') /\ ModeOk(fcall') /\ ui8TxBits' = ui8TxBits
  <2>1. CASE ~bPar \/ bEasyFraming \/ bCrc
    <3>1. fcall' = [F!Nothing EXCEPT !.name = "bits_timed", !.ret = "ENOTIMPL"] /\ ui8TxBits' = ui8TxBits
      BY <1>7, <2>1, Zenon DEF F!TransceiveBitsTimed, F!Refused
    <3>2. "bits_timed" \in {"bits_timed", "bytes_timed"} /\ "ENOTIMPL" \in {"ENOTIMPL", "EINVARG"}
      OBVIOUS
    <3> QED
      BY <1>6, <3>1, <3>2, Zenon
  <2>2. CASE ~(~bPar \/ bEasyFraming \/ bCrc)
    <3> DEFINE fifo == m.bits \o (IF F!Whole(m) THEN [i \in 1..8 |-> 0] ELSE <<>>)
               a == F!OnAir(fifo, n % 8)
    <3>1. /\ fcall' = F!Timed([F!Nothing EXCEPT !.name = "bits_timed", !.given = m, !.air = F!OnAir(fifo, Len(m.bits) % 8)],
                              h, 100, max, late, ends, thought)
          /\ ui8TxBits' = ui8TxBits
      BY <1>7, <2>2, Zenon DEF F!TransceiveBitsTimed
    <3>2. a = Sent(m) <=> ~F!Whole(m)
      <4>1. n \in Nat /\ FALSE \in BOOLEAN /\ bPar
        BY <1>2, <2>2
      <4> QED
        BY <4>1, FifoSent
    <3>3. fcall' = F!Timed([F!Nothing EXCEPT !.name = "bits_timed", !.given = m, !.air = a], h, 100, max, late, ends, thought)
      BY <1>5, <3>1, Zenon
    <3> DEFINE name == "bits_timed"
               buffer == 100
    <3>4. (a = Sent(m)) <=> ~(name = "bits_timed" /\ F!Whole(m))
      BY <3>2, Zenon
    <3>5. name \in {"bits_timed", "bytes_timed"} /\ bPar
      BY <2>2
    <3> HIDE DEF a, name, buffer
    <3>6. LET c == [F!Nothing EXCEPT !.name = name, !.given = m, !.air = a]
              x == F!Timed(c, h, buffer, max, late, ends, thought)
          IN  CallOk(x) /\ ModeOk(x)
      BY <1>2, <1>3, <3>4, <3>5, TimedOk, Zenon
    <3> QED
      BY <3>1, <3>3, <3>6, Zenon DEF name, buffer
  <2> QED
    BY <2>1, <2>2, Zenon
<1>8. ASSUME F!TransceiveBytesTimed(m, h, room, max, late, ends, thought, framing)
      PROVE  CallOk(fcall') /\ ModeOk(fcall') /\ ui8TxBits' = ui8TxBits
  <2>0. /\ "bytes_timed" \in {"bits_timed", "bytes_timed"}
        /\ "ENOTIMPL" \in {"ENOTIMPL", "EINVARG"} /\ "EINVARG" \in {"ENOTIMPL", "EINVARG"}
    OBVIOUS
  <2>1. CASE ~bPar
    <3>1. fcall' = [F!Nothing EXCEPT !.name = "bytes_timed", !.ret = "EINVARG"] /\ ui8TxBits' = ui8TxBits
      BY <1>8, <2>1, Zenon DEF F!TransceiveBytesTimed, F!Refused
    <3> QED
      BY <1>6, <2>0, <3>1, Zenon
  <2>2. CASE bPar /\ bEasyFraming
    <3>1. fcall' = [F!Nothing EXCEPT !.name = "bytes_timed", !.ret = "ENOTIMPL"] /\ ui8TxBits' = ui8TxBits
      BY <1>8, <2>2, Zenon DEF F!TransceiveBytesTimed, F!Refused
    <3> QED
      BY <1>6, <2>0, <3>1, Zenon
  <2>3. CASE bPar /\ ~bEasyFraming
    <3> DEFINE a == F!OnAir(m.bits, 0)
    <3>1. /\ fcall' = F!Timed([F!Nothing EXCEPT !.name = "bytes_timed", !.given = m, !.air = a],
                              h, room, max, late, ends, thought)
          /\ ui8TxBits' = ui8TxBits /\ F!Whole(m)
      BY <1>8, <2>3, Zenon DEF F!TransceiveBytesTimed
    <3>2. a = Sent(m)
      <4>0. n % 8 = 0
        BY <1>5, <3>1, Zenon
      <4> HIDE DEF m
      <4>1. n \in Nat /\ n > 0 /\ 0 \in 0..7 /\ 0 = n % 8 /\ FALSE \in BOOLEAN
        BY <1>2, <4>0
      <4> USE DEF m
      <4> QED
        BY <2>3, <4>1, BytesSent
    <3> HIDE DEF a
    <3>3. "bytes_timed" # "bits_timed"
      OBVIOUS
    <3>4. (a = Sent(m)) <=> ~("bytes_timed" = "bits_timed" /\ F!Whole(m))
      BY <3>2, <3>3, Zenon
    <3>6. LET c == [F!Nothing EXCEPT !.name = "bytes_timed", !.given = m, !.air = a]
              x == F!Timed(c, h, room, max, late, ends, thought)
          IN  CallOk(x) /\ ModeOk(x)
      BY <1>2, <1>3, <2>0, <2>3, <3>4, TimedOk, Zenon
    <3> QED
      BY <3>1, <3>6, Zenon
  <2> QED
    BY <2>1, <2>2, <2>3, Zenon
<1> QED
  BY <1>4, <1>7, <1>8, Zenon

-----------------------------------------------------------------------------
(* The program's calls, one after the other: what the calls depend on.     *)
FramesTypes ==
    /\ bPar \in BOOLEAN /\ bEasyFraming \in BOOLEAN /\ bCrc \in BOOLEAN /\ bAutoIso14443_4 \in BOOLEAN
    /\ switched \in BOOLEAN /\ ui8TxBits \in 0..7

(* The settings have their types, the chip is in the mode it was told to be *)
(* in, and the last call is true and fits that mode.                       *)
FramesInv == FramesTypes /\ ModeOf /\ CallOk(fcall) /\ ModeOk(fcall)

LEMMA FramesInvFits == FramesInv => CallsFit
<1>1. CallOk(fcall) => F!CallTrue
  BY CallOkIs, Zenon DEF F!CallTrue
<1>2. ModeOk(fcall) => F!ModeFits
  BY Zenon DEF ModeOk, F!ModeFits
<1> QED
  BY <1>1, <1>2, Zenon DEF FramesInv, CallsFit, F!CallsFit

(* What the last call was is judged by settings that it left alone. *)
LEMMA CallKept ==
    ASSUME type' = type, bPar' = bPar, bEasyFraming' = bEasyFraming, ptm' = ptm, activated' = activated, switched' = switched
    PROVE  (CallOk(fcall') => CallOk(fcall)') /\ (ModeOk(fcall') => ModeOk(fcall)')
<1>1. Sent(fcall.given)' = Sent(fcall'.given) /\ Told(fcall.heard)' = Told(fcall'.heard)
  BY Zenon DEF Sent, Told
<1>2. F!Excepted(fcall)' <=> F!Excepted(fcall')
  BY Zenon DEF F!Excepted
<1>3. F!CyclesTrue(fcall)' <=> F!CyclesTrue(fcall')
  BY Zenon DEF F!CyclesTrue
<1>4. CallOk(fcall') => CallOk(fcall)'
  BY <1>1, <1>2, <1>3, Zenon DEF CallOk
<1>5. ModeOk(fcall') => ModeOk(fcall)'
  BY Zenon DEF ModeOk
<1> QED
  BY <1>4, <1>5, Zenon

LEMMA NoCallOk ==
    ASSUME fcall' = F!Nothing \/ \E error : fcall' = [F!Nothing EXCEPT !.name = "target_init", !.ret = error]
    PROVE  CallOk(fcall)' /\ ModeOk(fcall)'
<1> DEFINE x(error) == [F!Nothing EXCEPT !.name = "target_init", !.ret = error]
<1>1. F!Nothing.name = "none" /\ F!Nothing.cmd = "none"
  BY Zenon DEF F!Nothing
<1>2. \A error : x(error).name = "target_init" /\ x(error).cmd = "none"
  BY Zenon DEF F!Nothing
<1>3. fcall' = F!Nothing \/ \E error : fcall' = x(error)
  BY Zenon
<1> HIDE DEF x
<1>4. fcall'.name \in {"none", "target_init"} /\ fcall'.cmd = "none"
  BY <1>1, <1>2, <1>3, Zenon
<1> QED
  BY <1>4, Zenon DEF CallOk, ModeOk

LEMMA FramesInit == ASSUME F!FInit PROVE FramesInv
<1>1. /\ fphase = "initiator" /\ bPar = TRUE /\ bEasyFraming = TRUE /\ bCrc = TRUE /\ bAutoIso14443_4 = TRUE
      /\ ui8TxBits = 0 /\ switched = FALSE /\ fcall = F!Nothing
  BY Zenon DEF F!FInit
<1>2. FramesTypes
  <2>1. 0 \in 0..7 /\ TRUE \in BOOLEAN /\ FALSE \in BOOLEAN
    OBVIOUS
  <2> QED
    BY <1>1, <2>1, Zenon DEF FramesTypes
<1>3. ModeOf
  BY <1>1 DEF ModeOf
<1>4. fcall.name = "none" /\ fcall.cmd = "none"
  BY <1>1 DEF F!Nothing
<1>5. CallOk(fcall) /\ ModeOk(fcall)
  BY <1>4 DEF CallOk, ModeOk
<1> QED
  BY <1>2, <1>3, <1>5, Zenon DEF FramesInv

LEMMA CallsStep ==
    ASSUME FramesInv, F!Calls, UNCHANGED <<type, fphase, F!settings, F!target>>
    PROVE  FramesInv'
<1>1. /\ type' = type /\ fphase' = fphase /\ bPar' = bPar /\ bEasyFraming' = bEasyFraming /\ bCrc' = bCrc
      /\ bAutoIso14443_4' = bAutoIso14443_4 /\ pnt' = pnt /\ ptm' = ptm /\ activated' = activated
      /\ fTarget' = fTarget /\ switched' = switched
  BY Zenon DEF F!settings, F!target
<1>2. bPar \in BOOLEAN /\ ui8TxBits \in 0..7 /\ ModeOf /\ FramesTypes
  BY Zenon DEF FramesInv, FramesTypes
<1>3. ModeOf'
  BY <1>1, <1>2, Zenon DEF ModeOf
<1>4. CallOk(fcall') /\ ModeOk(fcall') /\ ui8TxBits' \in 0..7
  <2>0. fcall'.name \in {"transceive_bits", "transceive_bytes", "receive_bits", "send_bits"} => ModeOk(fcall')
    BY DEF ModeOk
  <2>1. CASE F!TimedCalls
    BY <1>2, <2>1, TimedCallsOk, Zenon
  <2>2. ASSUME NEW m \in F!Messages, NEW h \in F!Messages, F!TransceiveBits(m, h)
        PROVE  CallOk(fcall') /\ ModeOk(fcall') /\ ui8TxBits' \in 0..7
    <3>1. CallOk(fcall') /\ ui8TxBits' \in 0..7 /\ fcall'.name = "transceive_bits"
      BY <1>2, <2>2, TransceiveBitsOk, Zenon
    <3>2. ModeOk(fcall')
      BY <2>0, <3>1
    <3> QED
      BY <3>1, <3>2, Zenon
  <2>3. ASSUME NEW m \in F!Messages, NEW h \in F!Messages, NEW room \in Room, F!TransceiveBytes(m, h, room)
        PROVE  CallOk(fcall') /\ ModeOk(fcall') /\ ui8TxBits' \in 0..7
    <3>1. CallOk(fcall') /\ ui8TxBits' \in 0..7 /\ fcall'.name = "transceive_bytes"
      <4>1. bPar \in BOOLEAN /\ ui8TxBits \in 0..7
        BY <1>2, Zenon
      <4> QED
        BY <2>3, <4>1, TransceiveBytesOk
    <3>2. ModeOk(fcall')
      BY <2>0, <3>1
    <3> QED
      BY <3>1, <3>2, Zenon
  <2>4. ASSUME NEW h \in F!Messages, NEW room \in Room, F!TargetReceiveBits(h, room)
        PROVE  CallOk(fcall') /\ ModeOk(fcall') /\ ui8TxBits' \in 0..7
    <3>1. CallOk(fcall') /\ ui8TxBits' = ui8TxBits /\ fcall'.name = "receive_bits"
      BY <2>4, TargetReceiveBitsOk, Zenon
    <3>2. ModeOk(fcall')
      BY <2>0, <3>1
    <3> QED
      BY <1>2, <3>1, <3>2, Zenon
  <2>5. ASSUME NEW h \in F!Messages, NEW room \in Room, F!TargetReceiveBytes(h, room)
        PROVE  CallOk(fcall') /\ ModeOk(fcall') /\ ui8TxBits' \in 0..7
    <3>1. bPar \in BOOLEAN /\ ModeOf
      BY <1>2, Zenon
    <3>2. CallOk(fcall') /\ ModeOk(fcall') /\ ui8TxBits' = ui8TxBits
      BY <2>5, <3>1, TargetReceiveBytesOk
    <3> QED
      BY <1>2, <3>2, Zenon
  <2>6. ASSUME NEW m \in F!Messages, F!TargetSendBits(m)
        PROVE  CallOk(fcall') /\ ModeOk(fcall') /\ ui8TxBits' \in 0..7
    <3>1. CallOk(fcall') /\ ui8TxBits' \in 0..7 /\ fcall'.name = "send_bits"
      BY <1>2, <2>6, TargetSendBitsOk, Zenon
    <3>2. ModeOk(fcall')
      BY <2>0, <3>1
    <3> QED
      BY <3>1, <3>2, Zenon
  <2>7. ASSUME NEW m \in F!Messages, F!TargetSendBytes(m)
        PROVE  CallOk(fcall') /\ ModeOk(fcall') /\ ui8TxBits' \in 0..7
    BY <1>2, <2>7, TargetSendBytesOk, Zenon
  <2> QED
    BY <2>1, <2>2, <2>3, <2>4, <2>5, <2>6, <2>7, Zenon DEF F!Calls
<1>5. CallOk(fcall)' /\ ModeOk(fcall)'
  BY <1>1, <1>4, CallKept, Zenon
<1>6. FramesTypes'
  BY <1>1, <1>2, <1>4, Zenon DEF FramesTypes
<1> QED
  BY <1>3, <1>5, <1>6, Zenon DEF FramesInv

LEMMA DefaultsTypes ==
    ASSUME F!Defaults, switched' = FALSE
    PROVE  FramesTypes' /\ bAutoIso14443_4' = TRUE
<1>1. bPar' = TRUE /\ bEasyFraming' = TRUE /\ bCrc' = TRUE /\ bAutoIso14443_4' = TRUE /\ ui8TxBits' = 0
  BY Zenon DEF F!Defaults
<1>2. 0 \in 0..7 /\ TRUE \in BOOLEAN /\ FALSE \in BOOLEAN
  OBVIOUS
<1> QED
  BY <1>1, <1>2, Zenon DEF FramesTypes

LEMMA TargetInitStep ==
    ASSUME FramesInv, NEW a \in F!Asked, F!TargetInit(a)
    PROVE  FramesInv'
<1> DEFINE error == CASE a.nmt = "A" /\ ~a.fixed -> "EINVARG" [] a.nmt = "B" -> "EDEVNOTSUPP" [] OTHER -> "done"
<1>1. /\ F!Defaults /\ switched' = FALSE /\ pnt' = a /\ type' = type
      /\ fcall' = [F!Nothing EXCEPT !.name = "target_init", !.ret = error]
      /\ fphase' = IF error = "done" THEN "awaiting" ELSE "idle"
      /\ ptm' = CASE a.nmt = "DEP" -> {"DEP_ONLY"} \cup {f \in {"PASSIVE_ONLY"} : a.ndm = "PASSIVE"}
                  [] OTHER -> {"PASSIVE_ONLY"} \cup {f \in {"PICC_ONLY"} : a.nmt = "A" /\ a.sak4 /\ type = "PN532"}
  BY Zenon DEF F!TargetInit
<1>2. FramesTypes' /\ bAutoIso14443_4' = TRUE
  BY <1>1, DefaultsTypes, Zenon
<1> HIDE DEF error
<1>3. CallOk(fcall)' /\ ModeOk(fcall)'
  BY <1>1, NoCallOk, Zenon
<1>4. "PICC_ONLY" \in ptm' <=> a.nmt = "A" /\ a.sak4 /\ type = "PN532"
  <2>1. CASE a.nmt = "DEP"
    <3>1. ptm' = {"DEP_ONLY"} \cup {f \in {"PASSIVE_ONLY"} : a.ndm = "PASSIVE"}
      BY <1>1, <2>1
    <3>2. "PICC_ONLY" \notin ptm' /\ a.nmt # "A"
      BY <2>1, <3>1
    <3> QED
      BY <3>2, Zenon
  <2>2. CASE a.nmt # "DEP"
    <3> DEFINE picc == a.nmt = "A" /\ a.sak4 /\ type = "PN532"
    <3>1. ptm' = {"PASSIVE_ONLY"} \cup {f \in {"PICC_ONLY"} : picc}
      BY <1>1, <2>2
    <3> HIDE DEF picc
    <3>2. "PICC_ONLY" \in ptm' <=> picc
      BY <3>1
    <3> QED
      BY <3>2, Zenon DEF picc
  <2> QED
    BY <2>1, <2>2, Zenon
<1>5. fphase' # "target"
  BY <1>1
<1>6. ModeOf'
  BY <1>1, <1>2, <1>4, <1>5, Zenon DEF ModeOf
<1> QED
  BY <1>2, <1>3, <1>6, Zenon DEF FramesInv

LEMMA ActivatedStep ==
    ASSUME FramesInv, NEW a \in F!Activations, F!Activated(a)
    PROVE  FramesInv'
<1>1. /\ fphase = "awaiting" /\ fcall' = F!Nothing /\ type' = type /\ bPar' = bPar /\ bEasyFraming' = bEasyFraming /\ bCrc' = bCrc
      /\ bAutoIso14443_4' = bAutoIso14443_4 /\ ui8TxBits' = ui8TxBits /\ pnt' = pnt /\ ptm' = ptm /\ switched' = switched
  BY Zenon DEF F!Activated, F!settings
<1>2. ModeOf /\ FramesTypes
  BY Zenon DEF FramesInv
<1>3. FramesTypes'
  BY <1>1, <1>2, Zenon DEF FramesTypes
<1>4. CallOk(fcall)' /\ ModeOk(fcall)'
  BY <1>1, NoCallOk, Zenon
<1>5. /\ pnt \in F!Asked
      /\ "PICC_ONLY" \in ptm <=> pnt.nmt = "A" /\ pnt.sak4 /\ type = "PN532"
      /\ ~switched => bAutoIso14443_4
  BY <1>1, <1>2, Zenon DEF ModeOf
<1>6. CASE F!Fits(a)
  <2>1. /\ fphase' = "target" /\ activated' = a /\ pnt.nmt = a.nmt
        /\ fTarget' = [pnt EXCEPT !.nbr = a.nbr, !.ndm = IF a.nmt = "DEP" THEN a.ndm ELSE pnt.ndm]
    BY <1>6, Zenon DEF F!Activated, F!Fits
  <2>2. fTarget'.nmt = pnt.nmt /\ fTarget'.sak4 = pnt.sak4
    BY <1>5, <2>1 DEF F!Asked
  <2>3. ModeOf'
    BY <1>1, <1>5, <2>1, <2>2, Zenon DEF ModeOf
  <2> QED
    BY <1>3, <1>4, <2>3, Zenon DEF FramesInv
<1>7. CASE ~F!Fits(a)
  <2>1. fphase' = fphase
    BY <1>7, Zenon DEF F!Activated
  <2>2. fphase' # "target"
    BY <1>1, <2>1
  <2>3. ModeOf'
    BY <1>1, <1>5, <2>2, Zenon DEF ModeOf
  <2> QED
    BY <1>3, <1>4, <2>3, Zenon DEF FramesInv
<1> QED
  BY <1>6, <1>7, Zenon

LEMMA BecomeIdleStep ==
    ASSUME FramesInv, F!BecomeIdle
    PROVE  FramesInv'
<1>1. /\ fphase' = "idle" /\ fcall' = F!Nothing /\ bPar' = bPar /\ bEasyFraming' = bEasyFraming /\ bCrc' = bCrc
      /\ bAutoIso14443_4' = bAutoIso14443_4 /\ ui8TxBits' = ui8TxBits /\ switched' = switched
  BY Zenon DEF F!BecomeIdle, F!settings
<1>2. FramesTypes'
  BY <1>1, Zenon DEF FramesTypes, FramesInv
<1>3. ModeOf'
  BY <1>1 DEF ModeOf
<1> QED
  BY <1>1, <1>2, <1>3, NoCallOk, Zenon DEF FramesInv

LEMMA InitiatorInitStep ==
    ASSUME FramesInv, F!InitiatorInit
    PROVE  FramesInv'
<1>1. fphase' = "initiator" /\ F!Defaults /\ fcall' = F!Nothing /\ switched' = FALSE
  BY Zenon DEF F!InitiatorInit
<1>2. ModeOf'
  BY <1>1 DEF ModeOf
<1> QED
  BY <1>1, <1>2, DefaultsTypes, NoCallOk, Zenon DEF FramesInv

LEMMA SetPropertyStep ==
    ASSUME FramesInv, F!SetProperty
    PROVE  FramesInv'
<1>1. /\ fphase \in {"initiator", "target"} /\ fcall' = F!Nothing /\ ui8TxBits' = ui8TxBits
      /\ type' = type /\ fphase' = fphase /\ pnt' = pnt /\ ptm' = ptm /\ activated' = activated /\ fTarget' = fTarget
  BY Zenon DEF F!SetProperty
<1>2. ModeOf /\ FramesTypes
  BY Zenon DEF FramesInv
<1>3. \/ bAutoIso14443_4' = bAutoIso14443_4 /\ switched' = switched
      \/ bAutoIso14443_4' \in BOOLEAN /\ switched' = (fphase = "target")
  BY Zenon DEF F!SetProperty
<1>4. bPar' \in BOOLEAN /\ bEasyFraming' \in BOOLEAN /\ bCrc' \in BOOLEAN
  BY <1>2, Zenon DEF F!SetProperty, FramesTypes
<1>5. FramesTypes'
  BY <1>1, <1>2, <1>3, <1>4, Zenon DEF FramesTypes
<1>6. ModeOf'
  <2>1. CASE fphase = "initiator"
    <3>1. fphase' \notin {"awaiting", "target"}
      BY <1>1, <2>1
    <3> QED
      BY <3>1 DEF ModeOf
  <2>2. CASE fphase = "target"
    <3>1. ~switched' => bAutoIso14443_4'
      BY <1>2, <1>3, <2>2, Zenon DEF ModeOf
    <3> QED
      BY <1>1, <1>2, <2>2, <3>1, Zenon DEF ModeOf
  <2> QED
    BY <1>1, <2>1, <2>2, Zenon
<1> QED
  BY <1>1, <1>5, <1>6, NoCallOk, Zenon DEF FramesInv

LEMMA FramesStep ==
    ASSUME FramesInv, [F!FNext]_F!fvars
    PROVE  FramesInv'
<1>1. CASE fcall # F!Nothing /\ F!FNext
  <2>1. /\ fcall' = F!Nothing /\ type' = type /\ fphase' = fphase /\ bPar' = bPar /\ bEasyFraming' = bEasyFraming /\ bCrc' = bCrc
        /\ bAutoIso14443_4' = bAutoIso14443_4 /\ ui8TxBits' = ui8TxBits /\ pnt' = pnt /\ ptm' = ptm /\ activated' = activated
        /\ fTarget' = fTarget /\ switched' = switched
    BY <1>1, Zenon DEF F!FNext, F!settings, F!target
  <2>2. FramesTypes' /\ ModeOf'
    BY <2>1, Zenon DEF FramesInv, FramesTypes, ModeOf
  <2> QED
    BY <2>1, <2>2, NoCallOk, Zenon DEF FramesInv
<1>2. CASE fcall = F!Nothing /\ F!FNext
  BY <1>2, CallsStep, TargetInitStep, ActivatedStep, BecomeIdleStep, InitiatorInitStep, SetPropertyStep, Zenon DEF F!FNext
<1>3. CASE UNCHANGED F!fvars
  <2>1. /\ fcall' = fcall /\ type' = type /\ fphase' = fphase /\ bPar' = bPar /\ bEasyFraming' = bEasyFraming /\ bCrc' = bCrc
        /\ bAutoIso14443_4' = bAutoIso14443_4 /\ ui8TxBits' = ui8TxBits /\ pnt' = pnt /\ ptm' = ptm /\ activated' = activated
        /\ fTarget' = fTarget /\ switched' = switched
    BY <1>3, Zenon DEF F!fvars, F!settings, F!target
  <2>2. FramesTypes' /\ ModeOf'
    BY <2>1, Zenon DEF FramesInv, FramesTypes, ModeOf
  <2>3. CallOk(fcall') /\ ModeOk(fcall')
    BY <2>1, Zenon DEF FramesInv
  <2> QED
    BY <2>1, <2>2, <2>3, CallKept, Zenon DEF FramesInv
<1> QED
  BY <1>1, <1>2, <1>3, Zenon

(* Every call puts on the air what it was given and tells what came, bit for *)
(* bit, in exactly all the cases but the excepted ones, in the protocol the *)
(* chip was told to speak, and tells the cycles until the answer: wrap_frame,*)
(* unwrap_frame, __pn53x_get_timer and the calls of pn53x.c, for frames of *)
(* any length.                                                             *)
THEOREM CallsFitHolds == F!FSpec => []CallsFit
<1>1. F!FInit => FramesInv
  BY FramesInit
<1>2. FramesInv /\ [F!FNext]_F!fvars => FramesInv'
  BY FramesStep
<1> QED
  BY <1>1, <1>2, FramesInvFits, PTL DEF F!FSpec
=============================================================================
