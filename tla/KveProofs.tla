------------------------------ MODULE KveProofs ------------------------------
(* The Kve counter, for any cards, any prices and any number of errors. *)
EXTENDS Kve, CardDeskProofs

USE DeskAssumption, KveAssumption

(* A ticket is announced only if key "0" was pressed since the last one    *)
(* was taken; and, as in CaisseProofs, Ledger needs View to be inductive.  *)
Announced ==
    /\ ticket \in BOOLEAN /\ late \in BOOLEAN /\ armed \in BOOLEAN
    /\ late => ticket
    /\ ticket => armed

Places == {"top", "poll", "find", "read", "process", "prompt", "typed", "row"}

(* What the counter knows, whoever else uses the cards. *)
Known == DeskType /\ pc \in Places /\ View /\ Announced

Inv == Known /\ Ledger

(* What a step may do to the tickets of the cards. *)
TicketsKept == \A t \in Tags : field = t /\ mem'[t].cnt < mem[t].cnt => armed

(* And to the credit of a card that lies here. *)
Covered == \A t \in Tags : field = t /\ mem'[t].amt # mem[t].amt => mem'[t].amt >= 0

(* What a step does to the credit of the cards and to their accounts. *)
Accounted ==
    /\ suspect \subseteq suspect'
    /\ \A t \in Tags :
          /\ mem'[t].kind = mem[t].kind
          /\ mem'[t].amt = mem[t].amt \/ mem'[t].amt >= 0
          /\ t \notin suspect' =>
                mem'[t].amt + Pending(t)' - owed'[t] = mem[t].amt + Pending(t) - owed[t]

(* And a card that is elsewhere is left alone. *)
AloneElsewhere == \A t \in Tags : t # field => mem'[t] = mem[t]

-----------------------------------------------------------------------------
LEMMA InitInv == Init => Inv
<1> SUFFICES ASSUME Init PROVE Inv
  OBVIOUS
<1>1. Unread \in Card
  BY DEF Unread, Card, Kinds
<1>2. owed \in [Tags -> Int] /\ \A t \in Tags : mem[t].amt \in Int /\ owed[t] = mem[t].amt
  BY DEF Init, DeskInit, Card
<1>3. DeskType
  BY <1>1, <1>2 DEF Init, DeskInit, DeskType
<1>4. pc \in Places /\ View /\ Announced
  BY DEF Init, DeskInit, View, Announced, Places
<1>5. Ledger
  BY <1>2 DEF Init, DeskInit, Ledger, Pending
<1> QED
  BY <1>3, <1>4, <1>5 DEF Init, DeskInit, Inv, Known

(* A step that drops the ticket, or leaves it, announces none. *)
LEMMA KeysKept ==
    ASSUME Announced,
           \/ UNCHANGED <<ticket, late, armed>>
           \/ ticket' = FALSE /\ late' = FALSE /\ armed' \in BOOLEAN
    PROVE  Announced'
<1>1. CASE UNCHANGED <<ticket, late, armed>>
  <2>1. ticket' = ticket /\ late' = late /\ armed' = armed
    BY <1>1
  <2> QED
    BY <2>1, Zenon DEF Announced
<1>2. CASE ticket' = FALSE /\ late' = FALSE /\ armed' \in BOOLEAN
  BY <1>2, Zenon DEF Announced
<1> QED
  BY <1>1, <1>2

(* The numbers the accounts are made of. *)
LEMMA Numbers ==
    ASSUME DeskType
    PROVE  \A t \in Tags : /\ mem[t].amt \in Int /\ owed[t] \in Int /\ mem[t].cnt \in Nat
                           /\ Pending(t) \in Int
BY DEF DeskType, Card, Pending

(* Nothing happened to any card. *)
LEMMA NothingAccounted ==
    ASSUME DeskType, mem' = mem, suspect \subseteq suspect', pc # "row", pc' # "row",
           \A t \in Tags \ suspect' : owed'[t] = owed[t]
    PROVE  Accounted /\ AloneElsewhere /\ TicketsKept
BY Numbers DEF Accounted, AloneElsewhere, TicketsKept, Pending

(* A ticket is taken: the card's credit, and the account, stay as they are. *)
LEMMA TakeTicketStep ==
    ASSUME Known, NEW L \in SUBSET Blocks, TakeTicket(L)
    PROVE  Known' /\ Accounted /\ AloneElsewhere /\ TicketsKept
<1> DEFINE c == [image EXCEPT !.cnt = @ - 1]
<1>1. c \in Card
  BY DEF TakeTicket, hasTicket, Known, DeskType, Card
<1>2. /\ Processing("DEBIT") /\ ticket /\ L \subseteq {2} /\ Lands(2, L) /\ Written(card, c, L) /\ EndTurn
      /\ ticket' = FALSE /\ late' = FALSE /\ armed' \in BOOLEAN
      /\ UNCHANGED <<field, broken, card, owed, suspect>>
  BY DEF TakeTicket, NoTicket, reader, history, Known, Announced
<1> HIDE DEF c
<1>3. DeskType /\ mem \in [Tags -> Card] /\ card \in Tags /\ 0 \notin L /\ 1 \notin L
  BY <1>2 DEF Known, DeskType, Processing
<1>4. /\ mem' \in [Tags -> Card]
      /\ \A t \in Tags : t # card => mem'[t] = mem[t]
      /\ mem'[card].kind = IF 0 \in L THEN c.kind ELSE mem[card].kind
      /\ mem'[card].amt  = IF 1 \in L THEN c.amt  ELSE mem[card].amt
  BY <1>1, <1>2, <1>3, WrittenFacts
<1>5. \A t \in Tags : mem'[t].kind = mem[t].kind /\ mem'[t].amt = mem[t].amt
  BY <1>3, <1>4
<1>6. Unread \in Card
  BY DEF Unread, Card, Kinds
<1>7. pc = "process" /\ pc' = "top" /\ image' = Unread /\ credit' = 0
  BY <1>2 DEF Processing, EndTurn
<1>8. DeskType'
  BY <1>2, <1>3, <1>4, <1>6, <1>7 DEF DeskType
<1>9. Announced'
  BY <1>2, KeysKept DEF Known
<1>10. Known'
  BY <1>7, <1>8, <1>9 DEF Known, View, Places
<1>11. Accounted
  BY <1>2, <1>3, <1>5, <1>7, Numbers DEF Accounted, Pending
<1>12. AloneElsewhere
  <2>1. field # card => L = {}
    BY <1>2 DEF Lands
  <2>2. field # card => mem' = mem
    BY <2>1, <1>1, <1>2, <1>3, WrittenNowhere
  <2> QED
    BY <2>2, <1>4 DEF AloneElsewhere
<1>13. TicketsKept
  BY <1>2 DEF TicketsKept, Known, Announced
<1> QED
  BY <1>10, <1>11, <1>12, <1>13

(* The debit: never more than the credit it was compared with. *)
LEMMA decrementCreditStep ==
    ASSUME Known, NEW L \in SUBSET Blocks, decrementCredit(L)
    PROVE  Known' /\ Accounted /\ AloneElsewhere /\ TicketsKept
<1>1. /\ pc = "typed" /\ pc' = "row"
      /\ UNCHANGED <<field, broken, card, credit, suspect, ticket, late, armed>>
      /\ DeskType /\ View /\ card \in Tags /\ credit \in Int
      /\ image.amt \in Int /\ image.amt >= credit
  BY DEF decrementCredit, Enough, Known, DeskType, Card, reader, key
<1>2. Announced'
  BY <1>1, KeysKept DEF Known
<1>3. \A t \in Tags : Pending(t) = 0 /\ Pending(t)' = IF t = card THEN credit ELSE 0
  BY <1>1 DEF Pending
<1>4. CASE image.amt = 0
  <2>1. Owe(card, credit) /\ UNCHANGED <<image, mem>>
    BY <1>4 DEF decrementCredit
  <2>2. /\ owed' \in [Tags -> Int]
        /\ \A t \in Tags : t # card => owed'[t] = owed[t]
        /\ card \notin suspect => owed'[card] = owed[card] + credit
    <3>1. owed \in [Tags -> Int]
      BY <1>1 DEF DeskType
    <3> QED
      BY <1>1, <2>1, <3>1, OweFacts
  <2>3. Known'
    BY <1>1, <1>2, <2>1, <2>2 DEF Known, DeskType, View, Places
  <2>4. Accounted
    BY <1>1, <1>3, <2>1, <2>2, Numbers DEF Accounted
  <2>5. AloneElsewhere /\ TicketsKept
    BY <1>1, <2>1, Numbers DEF AloneElsewhere, TicketsKept
  <2> QED
    BY <2>3, <2>4, <2>5
<1>5. CASE image.amt # 0
  <2>1. /\ mem' \in [Tags -> Card] /\ image' \in Card /\ owed' \in [Tags -> Int]
        /\ \A t \in Tags : t # card => mem'[t] = mem[t] /\ owed'[t] = owed[t]
        /\ mem'[card].kind = mem[card].kind /\ mem'[card].cnt = mem[card].cnt
        /\ card \notin suspect =>
              mem'[card].amt - owed'[card] = mem[card].amt - owed[card] + (-credit)
        /\ mem'[card].amt \in {mem[card].amt, image.amt + (-credit)}
        /\ field # card => mem' = mem
        /\ image'.kind = image.kind
    <3>1. AddCredit(-credit, L) /\ -credit \in Int
      BY <1>1, <1>5 DEF decrementCredit
    <3>2. image'.kind = image.kind
      BY <3>1, <1>1 DEF AddCredit, DeskType, Card
    <3> QED
      BY <1>1, <3>1, <3>2, AddCreditFacts
  <2>2. Known'
    BY <1>1, <1>2, <2>1 DEF Known, DeskType, View, Places
  <2>3. \A t \in Tags : mem'[t].amt \in Int /\ owed'[t] \in Int
    BY <2>1 DEF Card
  <2>4. Accounted
    <3>1. ASSUME NEW t \in Tags
          PROVE  /\ mem'[t].kind = mem[t].kind
                 /\ mem'[t].amt = mem[t].amt \/ mem'[t].amt >= 0
                 /\ t \notin suspect =>
                       mem'[t].amt + Pending(t)' - owed'[t] = mem[t].amt + Pending(t) - owed[t]
      <4>1. /\ mem'[t].amt \in Int /\ owed'[t] \in Int /\ mem[t].amt \in Int /\ owed[t] \in Int
            /\ Pending(t) = 0 /\ Pending(t)' = IF t = card THEN credit ELSE 0
        BY <1>1, <1>3, <2>3, Numbers
      <4>2. CASE t = card
        <5>1. mem'[t].kind = mem[t].kind
          BY <4>2, <2>1
        <5>2. mem'[t].amt = mem[t].amt \/ mem'[t].amt >= 0
          BY <4>2, <1>1, <2>1
        <5>3. t \notin suspect =>
                mem'[t].amt - owed'[t] = mem[t].amt - owed[t] + (-credit)
          BY <4>2, <2>1
        <5> QED
          BY <4>1, <4>2, <1>1, <5>1, <5>2, <5>3
      <4>3. CASE t # card
        BY <4>1, <4>3, <2>1
      <4> QED
        BY <4>2, <4>3
    <3> QED
      BY <3>1, <1>1 DEF Accounted
  <2>5. AloneElsewhere /\ TicketsKept
    BY <1>1, <2>1, Numbers DEF AloneElsewhere, TicketsKept
  <2> QED
    BY <2>2, <2>4, <2>5
<1> QED
  BY <1>4, <1>5

(* The row is sent, or a power cut keeps it from being sent. *)
LEMMA RowStep ==
    ASSUME Known, sendHistory \/ PowerCut
    PROVE  Known' /\ Accounted /\ AloneElsewhere /\ TicketsKept
<1>1. DeskType /\ credit \in Int /\ -credit \in Int /\ (pc = "row" => card \in Tags)
  BY DEF Known, DeskType
<1>2. /\ pc' = "top" /\ image' = Unread /\ credit' = 0 /\ card' \in {card, NoTag}
      /\ ticket' = FALSE /\ late' = FALSE
      /\ UNCHANGED <<field, broken, mem, suspect, armed>>
      /\ IF pc = "row" THEN Owe(card, -credit) ELSE UNCHANGED owed
  BY DEF sendHistory, PowerCut, Leave, EndTurn, NoTicket, reader
<1>3. /\ owed' \in [Tags -> Int]
      /\ \A t \in Tags \ suspect : owed'[t] = owed[t] - Pending(t)
  <2>1. owed \in [Tags -> Int]
    BY <1>1 DEF DeskType
  <2>2. CASE pc = "row"
    <3>1. /\ owed' \in [Tags -> Int]
          /\ \A t \in Tags : t # card => owed'[t] = owed[t]
          /\ card \notin suspect => owed'[card] = owed[card] + (-credit)
      BY <1>1, <1>2, <2>1, <2>2, OweFacts
    <3> QED
      BY <1>1, <2>2, <3>1, Numbers DEF Pending
  <2>3. CASE pc # "row"
    BY <1>1, <1>2, <2>1, <2>3, Numbers DEF Pending
  <2> QED
    BY <2>2, <2>3
<1>4. Unread \in Card
  BY DEF Unread, Card, Kinds
<1>5. armed' \in BOOLEAN
  BY <1>2 DEF Known, Announced
<1>6. Announced'
  BY <1>2, <1>5, KeysKept DEF Known
<1>7. Known'
  BY <1>1, <1>2, <1>3, <1>4, <1>6 DEF Known, DeskType, View, Places
<1>8. \A t \in Tags : Pending(t)' = 0
  BY <1>2 DEF Pending
<1>9. Accounted /\ AloneElsewhere /\ TicketsKept
  BY <1>1, <1>2, <1>3, <1>8, Numbers DEF Accounted, AloneElsewhere, TicketsKept
<1> QED
  BY <1>7, <1>9

(* The keys, and the turns that end without touching the card. *)
LEMMA OtherStep ==
    ASSUME Known, Tick \/ (\E k \in {"0", "-", "none"} : Keys(k))
                  \/ AdminCard \/ OtherCard \/ Ask \/ Refuse
    PROVE  Known' /\ Accounted /\ AloneElsewhere /\ TicketsKept
<1>1. CASE Tick
  <2>1. UNCHANGED desk /\ ticket /\ late' = TRUE /\ UNCHANGED <<ticket, armed>>
    BY <1>1 DEF Tick
  <2>2. Announced'
    BY <2>1 DEF Known, Announced
  <2>3. UNCHANGED <<field, broken, mem, card, image, credit, pc, owed, suspect>>
    BY <2>1 DEF desk
  <2>4. Known'
    BY <2>2, <2>3 DEF Known, DeskType, View
  <2> QED
    BY <2>3, <2>4, Numbers DEF Known, Accounted, AloneElsewhere, TicketsKept, Pending
<1>2. ASSUME NEW k \in {"0", "-", "none"}, Keys(k)
      PROVE  Known' /\ Accounted /\ AloneElsewhere /\ TicketsKept
  <2>1. /\ pc = "top" /\ pc' = "poll"
        /\ UNCHANGED <<field, broken, mem, card, image, credit, owed, suspect>>
    BY <1>2 DEF Keys, reader, copy, history
  <2>2. Announced'
    BY <1>2 DEF Keys, Known, Announced
  <2>3. Known'
    BY <2>1, <2>2 DEF Known, DeskType, Places, View
  <2> QED
    BY <2>1, <2>3, NothingAccounted DEF Known
<1>3. CASE Ask
  <2>1. /\ pc = "process" /\ pc' = "prompt" /\ image.kind = "DEBIT"
        /\ UNCHANGED <<field, broken, mem, card, image, credit, owed, suspect, ticket, late, armed>>
    BY <1>3 DEF Ask, Processing, reader, copy, history, key
  <2>2. Announced'
    BY <2>1, KeysKept DEF Known
  <2>3. Known'
    BY <2>1, <2>2 DEF Known, DeskType, Places, View
  <2> QED
    BY <2>1, <2>3, NothingAccounted DEF Known
<1>4. CASE AdminCard \/ OtherCard \/ Refuse
  <2>1. /\ pc # "row" /\ pc' = "top" /\ image' = Unread /\ credit' = 0
        /\ card' \in {card, NoTag}
        /\ UNCHANGED <<field, broken, mem, owed, suspect, armed>>
    BY <1>4 DEF AdminCard, OtherCard, Refuse, Leave, EndTurn, Processing, reader, history
  <2>2. UNCHANGED <<ticket, late>> \/ (ticket' = FALSE /\ late' = FALSE)
    BY <1>4 DEF AdminCard, OtherCard, Refuse, NoTicket, key
  <2>3. Announced'
    BY <2>1, <2>2, KeysKept DEF Known, Announced
  <2>4. Unread \in Card
    BY DEF Unread, Card, Kinds
  <2>5. Known'
    BY <2>1, <2>3, <2>4 DEF Known, DeskType, Places, View
  <2> QED
    BY <2>1, <2>5, NothingAccounted DEF Known
<1> QED
  BY <1>1, <1>2, <1>3, <1>4

(* The loop up to the prompt. *)
LEMMA LoopKnown ==
    ASSUME Known, (Loop /\ UNCHANGED <<key, armed>>) \/ ReadLost
    PROVE  Known' /\ Accounted /\ AloneElsewhere /\ TicketsKept
<1>1. \/ UNCHANGED <<ticket, late, armed>>
      \/ ticket' = FALSE /\ late' = FALSE /\ armed' = armed
  BY DEF ReadLost, NoTicket, key
<1>2. Announced'
  BY <1>1, KeysKept DEF Known, Announced
<1>3. Loop \/ ReadThrows
  BY DEF ReadLost
<1>4. /\ DeskType' /\ View'
      /\ mem' = mem /\ suspect \subseteq suspect'
      /\ \A t \in Tags \ suspect' : owed'[t] = owed[t]
      /\ pc # "row" /\ pc' \in {Top, "find", "read", "process", "typed"}
  BY <1>3, LoopStep DEF Known
<1>5. Accounted /\ AloneElsewhere /\ TicketsKept
  BY <1>4, NothingAccounted DEF Known
<1>6. Known'
  BY <1>2, <1>4 DEF Known, Places
<1> QED
  BY <1>5, <1>6

(* Whatever the counter does, whoever else uses the cards. *)
LEMMA CounterStep ==
    ASSUME Known, Run \/ Tick \/ PowerCut
    PROVE  Known' /\ Accounted /\ AloneElsewhere /\ TicketsKept
BY TakeTicketStep, decrementCreditStep, RowStep, OtherStep, LoopKnown DEF Run

(* What a step of the counter is to the other terminals. *)
LEMMA CounterHere ==
    ASSUME Known, Run \/ Tick \/ PowerCut
    PROVE  \/ mem' = mem /\ suspect' = suspect
           \/ \E t \in Tags \ Unsupported : CreateHere(t, {})
           \/ \E t \in Tags \ Unsupported : TicketHere(t)
           \/ \E t \in Tags \ Unsupported : \E v \in Credits : CreditHere(t, v)
<1>0. DeskType /\ View
  BY DEF Known
<1>1. ASSUME NEW L \in SUBSET Blocks, TakeTicket(L)
      PROVE  (mem' = mem /\ suspect' = suspect) \/ (card \in Tags \ Unsupported /\ TicketHere(card))
  <2> DEFINE c == [image EXCEPT !.cnt = @ - 1]
  <2>1. /\ pc = "process" /\ image.kind = "DEBIT" /\ image.cnt > 0 /\ suspect' = suspect
        /\ L \subseteq {2} /\ Lands(2, L) /\ Written(card, c, L)
    BY <1>1 DEF TakeTicket, Processing, hasTicket, history
  <2>2. c \in Card /\ c.cnt = image.cnt - 1 /\ c.tid = image.tid
    BY <1>0, <2>1 DEF DeskType, Card
  <2> HIDE DEF c
  <2>3. card \in Tags \ Unsupported /\ mem \in [Tags -> Card]
    BY <1>0, <2>1 DEF DeskType
  <2>4. CASE L = {}
    BY <2>1, <2>2, <2>3, <2>4, WrittenNowhere
  <2>5. CASE L = {2}
    <3>1. field = card /\ mem[card].kind = "DEBIT" /\ image.cnt = mem[card].cnt /\ image.tid = mem[card].tid
      BY <1>0, <2>1, <2>5 DEF Lands, View
    <3>2. mem' = [mem EXCEPT ![card] = [kind |-> mem[card].kind, amt |-> mem[card].amt,
                                        cnt |-> mem[card].cnt - 1, tid |-> mem[card].tid]]
      BY <2>1, <2>2, <2>5, <3>1 DEF Written
    <3>3. [mem[card] EXCEPT !.cnt = @ - 1]
          = [kind |-> mem[card].kind, amt |-> mem[card].amt,
             cnt |-> mem[card].cnt - 1, tid |-> mem[card].tid]
      BY <2>3 DEF Card
    <3>4. mem' = [mem EXCEPT ![card].cnt = @ - 1]
      BY <3>2, <3>3
    <3> QED
      BY <2>1, <2>3, <3>1, <3>4 DEF TicketHere
  <2> QED
    BY <2>1, <2>4, <2>5
<1>2. ASSUME NEW L \in SUBSET Blocks, decrementCredit(L)
      PROVE  \/ mem' = mem /\ suspect' = suspect
             \/ card \in Tags \ Unsupported /\ \E v \in Credits : CreditHere(card, v)
  <2>1. /\ pc = "typed" /\ suspect' = suspect /\ credit \in Int /\ card \in Tags \ Unsupported
        /\ image.amt \in Int /\ image.amt >= credit
    BY <1>0, <1>2 DEF decrementCredit, DeskType, Enough, Card
  <2>2. image.amt = 0 => mem' = mem
    BY <1>2 DEF decrementCredit
  <2>3. image.amt # 0 => AddCredit(-credit, L)
    BY <1>2 DEF decrementCredit
  <2>4. image.amt # 0 =>
          mem' = mem \/ (CreditHere(card, image.amt + (-credit)) /\ image.amt + (-credit) \in Credits)
    BY <1>0, <2>1, <2>3, AddCreditHere
  <2> QED
    BY <2>1, <2>2, <2>4
<1>3. CASE Loop \/ ReadLost
  BY <1>0, <1>3, LoopHere DEF ReadLost
<1>4. CASE \/ \E k \in {"0", "-", "none"} : Keys(k)
           \/ Tick \/ AdminCard \/ OtherCard \/ Ask \/ Refuse \/ sendHistory \/ PowerCut
  BY <1>4 DEF Keys, Tick, AdminCard, OtherCard, Ask, Refuse, sendHistory, PowerCut, Leave, history, desk
<1> QED
  BY <1>1, <1>2, <1>3, <1>4 DEF Run

(* A terminal moves no card. *)
LEMMA FieldKept == Run \/ Tick \/ PowerCut => field' = field
BY DEF Run, Loop, PollPresent, PollMiss, FindCard, FindNothing, FindThrows, Read, getFloat,
       Keys, ReadLost, ReadThrows, AdminCard, OtherCard, Ask, Refuse, sendHistory, TakeTicket,
       decrementCredit, Tick, PowerCut, Leave, reader, desk

(* The others are accounted for as well, and leave a card that lies here   *)
(* alone.                                                                  *)
LEMMA OthersStep ==
    ASSUME Inv, World, UNCHANGED <<key, armed>>
    PROVE  Inv' /\ TicketsKept /\ Covered
<1>0. Known /\ DeskType /\ View /\ Ledger
  BY DEF Inv, Known
<1>1. UNCHANGED <<ticket, late, armed>>
  BY DEF key
<1>2. Announced'
  BY <1>0, <1>1, KeysKept DEF Known
<1>3. /\ DeskType' /\ View'
      /\ suspect \subseteq suspect' /\ UNCHANGED <<card, image, credit, pc>>
      /\ \A t \in Tags : field = t => mem'[t] = mem[t]
      /\ \A t \in Tags \ suspect' :
            \/ /\ mem'[t].kind = mem[t].kind
               /\ mem'[t].amt - owed'[t] = mem[t].amt - owed[t]
            \/ /\ mem[t].kind = "BLANK"
               /\ mem'[t].kind = "DEBIT" /\ mem'[t].amt = 0 /\ owed'[t] = 0
  BY <1>0, WorldStep
<1>4. \A t \in Tags : /\ mem'[t].amt \in Int /\ owed'[t] \in Int
                      /\ Pending(t)' = Pending(t)
                      /\ mem[t].kind = "BLANK" => Pending(t) = 0
  BY <1>0, <1>3 DEF DeskType, Card, Pending, View
<1>5. Known'
  BY <1>0, <1>2, <1>3 DEF Known
<1>6. Ledger'
  <2>1. SUFFICES ASSUME NEW t \in Tags \ suspect', mem'[t].kind = "DEBIT"
                 PROVE  mem'[t].amt + Pending(t)' = owed'[t]
    BY DEF Ledger
  <2>2. CASE /\ mem'[t].kind = mem[t].kind
             /\ mem'[t].amt - owed'[t] = mem[t].amt - owed[t]
    <3>1. mem[t].amt + Pending(t) = owed[t]
      BY <1>0, <1>3, <2>1, <2>2 DEF Ledger
    <3> QED
      BY <1>0, <1>4, <2>2, <3>1, Numbers
  <2>3. CASE mem[t].kind = "BLANK" /\ mem'[t].amt = 0 /\ owed'[t] = 0
    BY <1>4, <2>3
  <2> QED
    BY <1>3, <2>1, <2>2, <2>3
<1>7. TicketsKept /\ Covered
  BY <1>0, <1>3, Numbers DEF TicketsKept, Covered
<1> QED
  BY <1>5, <1>6, <1>7 DEF Inv

LEMMA NextInv ==
    ASSUME Inv, [Next]_vars
    PROVE  Inv' /\ TicketsKept /\ Covered
<1>0. CASE World /\ UNCHANGED <<key, armed>>
  BY <1>0, OthersStep
<1>1. CASE Run \/ Tick \/ PowerCut
  <2>1. Known' /\ Accounted /\ TicketsKept
    BY <1>1, CounterStep DEF Inv
  <2>2. \A t \in Tags : mem'[t].amt \in Int /\ owed'[t] \in Int /\ Pending(t)' \in Int
    BY <2>1 DEF Known, DeskType, Card, Pending
  <2>3. \A t \in Tags : mem[t].amt \in Int /\ owed[t] \in Int /\ Pending(t) \in Int
    BY Numbers DEF Inv, Known
  <2>4. Ledger'
    <3>1. SUFFICES ASSUME NEW t \in Tags \ suspect', mem'[t].kind = "DEBIT"
                   PROVE  mem'[t].amt + Pending(t)' = owed'[t]
      BY DEF Ledger
    <3>2. /\ t \notin suspect /\ mem[t].kind = "DEBIT"
          /\ mem'[t].amt + Pending(t)' - owed'[t] = mem[t].amt + Pending(t) - owed[t]
      BY <3>1, <2>1 DEF Accounted
    <3>3. mem[t].amt + Pending(t) = owed[t]
      BY <3>2 DEF Inv, Ledger
    <3> QED
      <4>1. /\ mem'[t].amt \in Int /\ owed'[t] \in Int /\ Pending(t)' \in Int
            /\ mem[t].amt \in Int /\ owed[t] \in Int /\ Pending(t) \in Int
        BY <2>2, <2>3
      <4>2. mem[t].amt + Pending(t) - owed[t] = 0
        BY <3>3, <4>1
      <4>3. mem'[t].amt + Pending(t)' - owed'[t] = 0
        BY <3>2, <4>2
      <4> QED
        BY <4>1, <4>3, Z3
  <2>5. Covered
    BY <2>1 DEF Covered, Accounted
  <2> QED
    BY <2>1, <2>4, <2>5 DEF Inv
<1>2. CASE UNCHANGED vars
  <2>1. /\ UNCHANGED <<field, broken, mem, card, image, credit, pc, owed, suspect>>
        /\ UNCHANGED <<ticket, late, armed>>
    BY <1>2 DEF vars, desk
  <2>2. Announced'
    BY <2>1, KeysKept DEF Inv, Known
  <2>3. Inv'
    BY <2>1, <2>2 DEF Inv, Known, DeskType, View, Ledger, Pending
  <2> QED
    BY <2>1, <2>3, Numbers DEF Inv, Known, TicketsKept, Covered
<1> QED
  BY <1>0, <1>1, <1>2 DEF Next

LEMMA InvAlways == Spec => []Inv
BY InitInv, NextInv, PTL DEF Spec

-----------------------------------------------------------------------------
(* Every variable keeps its domain, and a Card is held wherever run()      *)
(* dereferences one (kve.cpp:62-115).                                      *)
THEOREM KveType == Spec => []TypeOK
<1>1. Inv => TypeOK
  BY DEF Inv, Known, TypeOK, Announced, Places
<1> QED
  BY <1>1, InvAlways, PTL

(* A card about which no error was printed holds what its rows add up to,  *)
(* whatever happened to it during the prompt (kve.cpp:111-116).            *)
THEOREM KveLedger == Spec => []Ledger
<1>1. Inv => Ledger
  BY DEF Inv
<1> QED
  BY <1>1, InvAlways, PTL

(* No price typed leaves a card of this counter in debt (kve.cpp:112). *)
THEOREM KveNoOverdraft == Spec => NoOverdraft
<1>1. Inv /\ [Next]_vars =>
        [\A t \in Tags : field = t /\ mem'[t].amt # mem[t].amt => mem'[t].amt >= 0]_vars
  BY NextInv DEF Covered
<1> QED
  BY <1>1, InvAlways, PTL DEF Spec, NoOverdraft

(* One press of "0" takes at most one ticket (kve.cpp:102-108). *)
THEOREM KveTicketPerPress == Spec => TicketPerPress
<1>1. Inv /\ [Next]_vars => [\A t \in Tags : field = t /\ mem'[t].cnt < mem[t].cnt => armed]_vars
  BY NextInv DEF TicketsKept
<1> QED
  BY <1>1, InvAlways, PTL DEF Spec, TicketPerPress
=============================================================================
