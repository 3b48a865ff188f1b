---------------------------- MODULE CaisseProofs ----------------------------
(* The till, for any cards, any amounts and any number of errors. *)
EXTENDS Caisse, CardDeskProofs

USE DeskAssumption, CaisseAssumption

(* A card that is not suspect is written from what it holds, so that the   *)
(* account moves with it: Ledger needs View to be inductive.               *)
Inv == TypeOK /\ View /\ Ledger

(* What a step of the till does to the cards and to their accounts, whoever*)
(* else uses the cards: a card that is elsewhere is left alone; the credit *)
(* of one that no error was printed about moves with its account, unless   *)
(* it was blank and is a DEBIT card now, whose account is settled.         *)
Accounted ==
    /\ suspect \subseteq suspect'
    /\ \A t \in Tags : t # field => mem'[t] = mem[t]
    /\ \A t \in Tags : mem'[t].kind \in {mem[t].kind, "DEBIT"}
    /\ \A t \in Tags \ suspect' :
          \/ /\ mem'[t].kind = mem[t].kind
             /\ mem'[t].amt - owed'[t] - Pending(t)' = mem[t].amt - owed[t] - Pending(t)
          \/ /\ mem[t].kind = "BLANK" /\ mem'[t].kind = "DEBIT"
             /\ mem'[t].amt = owed'[t] + Pending(t)'

KindsKept ==
    \A t \in Tags : mem'[t].kind # mem[t].kind =>
        mem[t].kind = "BLANK" \/ t \in suspect

-----------------------------------------------------------------------------
LEMMA InitInv == Init => Inv
<1> SUFFICES ASSUME Init PROVE Inv
  OBVIOUS
<1>1. TypeOK
  BY DEF Init, DeskInit, TypeOK, DeskType, Unread, Card, Kinds
<1>2. View /\ Ledger
  BY <1>1 DEF Init, DeskInit, View, Ledger, Pending, TypeOK, DeskType
<1> QED
  BY <1>1, <1>2 DEF Inv

(* The numbers the accounts are made of. *)
LEMMA Numbers ==
    ASSUME TypeOK
    PROVE  \A t \in Tags : mem[t].amt \in Int /\ owed[t] \in Int /\ Pending(t) \in Int
BY DEF TypeOK, DeskType, Card, Pending

(* Nothing happened to any card. *)
LEMMA NothingAccounted ==
    ASSUME TypeOK, mem' = mem, suspect \subseteq suspect', pc # "row", pc' # "row",
           \A t \in Tags \ suspect' : owed'[t] = owed[t]
    PROVE  Accounted /\ KindsKept
BY Numbers DEF Accounted, KindsKept, Pending

(* Formatting a card: a card it reaches without an error is blank and gets *)
(* a credit of zero, in the account as well.                               *)
LEMMA createDebitStep ==
    ASSUME TypeOK, View, NEW L \in SUBSET Blocks, createDebit(L)
    PROVE  TypeOK' /\ View' /\ Accounted /\ KindsKept
<1>1. DeskType /\ mem \in [Tags -> Card] /\ card \in Tags
  BY DEF createDebit, TypeOK, DeskType, Processing
<1>2. /\ Processing("BLANK") /\ Lands(0, L) /\ Created(card, L) /\ EndTurn
      /\ UNCHANGED <<field, broken, card>>
  BY DEF createDebit, reader
<1>3. /\ mem' \in [Tags -> Card]
      /\ \A t \in Tags : t # card => mem'[t] = mem[t]
      /\ mem'[card].kind = IF 0 \in L THEN "DEBIT" ELSE mem[card].kind
      /\ mem'[card].amt  = IF 1 \in L THEN 0 ELSE mem[card].amt
      /\ L = {} => mem' = mem
      /\ owed' \in [Tags -> Int] /\ owed'[card] = 0
      /\ \A t \in Tags : t # card => owed'[t] = owed[t]
      /\ suspect \subseteq suspect' /\ suspect' \subseteq Tags
      /\ card \notin suspect' => L = Blocks
  BY <1>1, <1>2, CreatedFacts
<1>6. TypeOK'
  BY <1>1, <1>2, <1>3 DEF TypeOK, DeskType, EndTurn, Unread, Card, Kinds
<1>7. View'
  BY <1>2 DEF View, EndTurn
<1>8. 0 \in L /\ card \notin suspect => mem[card].kind = "BLANK"
  BY <1>1, <1>2 DEF Lands, View, Processing, DeskType
<1>9. KindsKept
  BY <1>3, <1>8 DEF KindsKept
<1>10. field # card => mem' = mem
  BY <1>2, <1>3 DEF Lands
<1>11. Accounted
  <2>1. \A t \in Tags : Pending(t) = 0 /\ Pending(t)' = 0
    BY <1>2 DEF Processing, EndTurn, Pending
  <2>2. \A t \in Tags : t # field => mem'[t] = mem[t]
    BY <1>3, <1>10
  <2>3. ASSUME NEW t \in Tags \ suspect', t # card
        PROVE  /\ mem'[t].kind = mem[t].kind
               /\ mem'[t].amt - owed'[t] - Pending(t)' = mem[t].amt - owed[t] - Pending(t)
    BY <2>1, <2>3, <1>3
  <2>4. ASSUME NEW t \in Tags \ suspect', t = card
        PROVE  /\ mem[t].kind = "BLANK" /\ mem'[t].kind = "DEBIT"
               /\ mem'[t].amt = owed'[t] + Pending(t)'
    <3>1. 0 \in L /\ 1 \in L /\ card \notin suspect
      BY <2>4, <1>3 DEF Blocks
    <3>2. mem'[card].kind = "DEBIT" /\ mem'[card].amt = 0 /\ owed'[card] = 0
      BY <3>1, <1>3
    <3> QED
      BY <2>4, <3>1, <3>2, <2>1, <1>8
  <2> QED
    BY <2>2, <2>3, <2>4, <1>3 DEF Accounted
<1> QED
  BY <1>6, <1>7, <1>9, <1>11

(* Topping up: the row, and what it is for, come in two steps. *)
LEMMA incrementCreditStep ==
    ASSUME TypeOK, View, NEW L \in SUBSET Blocks, incrementCredit(L)
    PROVE  TypeOK' /\ View' /\ Accounted /\ KindsKept
<1>1. /\ pc = "typed" /\ pc' = "row" /\ UNCHANGED <<field, broken, card, credit, suspect>>
      /\ DeskType /\ card \in Tags /\ credit \in Int
  BY DEF incrementCredit, TypeOK, DeskType, reader
<1>2. \A t \in Tags : Pending(t) = 0 /\ Pending(t)' = IF t = card THEN credit ELSE 0
  BY <1>1 DEF Pending
<1>3. CASE credit = 0
  <2>1. UNCHANGED <<image, mem, owed>>
    BY <1>3 DEF incrementCredit
  <2>2. TypeOK' /\ View'
    BY <1>1, <2>1 DEF TypeOK, DeskType, View
  <2>3. Accounted /\ KindsKept
    BY <1>1, <1>2, <1>3, <2>1, Numbers DEF Accounted, KindsKept
  <2> QED
    BY <2>2, <2>3
<1>4. CASE credit # 0
  <2>1. /\ mem' \in [Tags -> Card] /\ image' \in Card /\ owed' \in [Tags -> Int]
        /\ \A t \in Tags : t # card => mem'[t] = mem[t] /\ owed'[t] = owed[t]
        /\ mem'[card].kind = mem[card].kind
        /\ field # card => mem' = mem
        /\ image'.kind = image.kind
        /\ card \notin suspect =>
              mem'[card].amt - owed'[card] = mem[card].amt - owed[card] + credit
    <3>1. AddCredit(credit, L)
      BY <1>4 DEF incrementCredit
    <3> QED
      BY <1>1, <3>1, AddCreditFacts
  <2>2. TypeOK' /\ View'
    BY <1>1, <2>1 DEF TypeOK, DeskType, View
  <2>3. \A t \in Tags : mem'[t].amt \in Int /\ owed'[t] \in Int
                        /\ mem[t].amt \in Int /\ owed[t] \in Int
    BY <1>1, <2>1 DEF DeskType, Card
  <2>4. Accounted /\ KindsKept
    BY <1>1, <1>2, <2>1, <2>3 DEF Accounted, KindsKept
  <2> QED
    BY <2>2, <2>4
<1> QED
  BY <1>3, <1>4

(* The row is sent, or a power cut keeps it from being sent. *)
LEMMA RowStep ==
    ASSUME TypeOK, View, sendHistory \/ PowerCut
    PROVE  TypeOK' /\ View' /\ Accounted /\ KindsKept
<1>1. DeskType /\ credit \in Int /\ (pc = "row" => card \in Tags)
  BY DEF TypeOK, DeskType
<1>2. /\ pc' = "poll" /\ image' = Unread /\ credit' = 0 /\ card' \in {card, NoTag}
      /\ UNCHANGED <<field, broken, mem, suspect>>
      /\ IF pc = "row" THEN Owe(card, credit) ELSE UNCHANGED owed
  BY DEF sendHistory, PowerCut, Leave, EndTurn, reader
<1>3. /\ owed' \in [Tags -> Int]
      /\ \A t \in Tags \ suspect : owed'[t] = owed[t] + Pending(t)
  <2>1. owed \in [Tags -> Int]
    BY <1>1 DEF DeskType
  <2>2. CASE pc = "row"
    BY <1>1, <1>2, <2>1, <2>2, OweFacts DEF Pending
  <2>3. CASE pc # "row"
    BY <1>2, <2>1, <2>3 DEF Pending
  <2> QED
    BY <2>2, <2>3
<1>4. TypeOK' /\ View'
  BY <1>1, <1>2, <1>3 DEF TypeOK, DeskType, View, Unread, Card, Kinds
<1>5. \A t \in Tags : Pending(t)' = 0
  BY <1>2 DEF Pending
<1>6. Accounted /\ KindsKept
  BY <1>2, <1>3, <1>5, Numbers DEF Accounted, KindsKept
<1> QED
  BY <1>4, <1>6

(* The turns that end without touching the card. *)
LEMMA OtherStep ==
    ASSUME TypeOK, View, AdminCard \/ OtherCard \/ Ask \/ TooMuch
    PROVE  TypeOK' /\ View' /\ Accounted /\ KindsKept
<1>1. /\ pc # "row" /\ pc' # "row" /\ UNCHANGED <<field, broken, mem, owed, suspect>>
  BY DEF AdminCard, OtherCard, Ask, TooMuch, Leave, EndTurn, Processing, reader, history
<1>2. CASE Ask
  BY <1>1, <1>2, NothingAccounted
     DEF Ask, Processing, reader, copy, history, TypeOK, DeskType, View
<1>3. CASE AdminCard \/ OtherCard \/ TooMuch
  <2>1. pc' = "poll" /\ image' = Unread /\ credit' = 0 /\ card' \in {card, NoTag}
    BY <1>3 DEF AdminCard, OtherCard, TooMuch, Leave, EndTurn
  <2> QED
    BY <1>1, <2>1, NothingAccounted DEF TypeOK, DeskType, View, Unread, Card, Kinds
<1> QED
  BY <1>2, <1>3

(* Whatever the till does, whoever else uses the cards. *)
LEMMA TillStep ==
    ASSUME TypeOK, View, Run \/ PowerCut
    PROVE  TypeOK' /\ View' /\ Accounted /\ KindsKept
<1>1. CASE Loop \/ ReadThrows
  <2>1. /\ DeskType' /\ View'
        /\ mem' = mem /\ suspect \subseteq suspect'
        /\ \A t \in Tags \ suspect' : owed'[t] = owed[t]
        /\ pc # "row" /\ pc' \in {Top, "find", "read", "process", "typed"}
    BY <1>1, LoopStep DEF TypeOK
  <2> QED
    BY <2>1, NothingAccounted DEF TypeOK
<1> QED
  BY <1>1, createDebitStep, incrementCreditStep, RowStep, OtherStep DEF Run

(* What a step of the till is to the other terminals. *)
LEMMA TillHere ==
    ASSUME TypeOK, View, Run \/ PowerCut
    PROVE  \/ mem' = mem /\ suspect' = suspect
           \/ \E t \in Tags \ Unsupported, L \in SUBSET Blocks : CreateHere(t, L)
           \/ \E t \in Tags \ Unsupported : /\ pc = "typed" /\ image.amt + credit \in Credits
                                            /\ CreditHere(t, image.amt + credit)
<1>0. DeskType
  BY DEF TypeOK
<1>1. ASSUME NEW L \in SUBSET Blocks, createDebit(L)
      PROVE  CreateHere(card, L) /\ card \in Tags \ Unsupported
  <2>1. Processing("BLANK") /\ Lands(0, L) /\ Created(card, L)
    BY <1>1 DEF createDebit
  <2>2. card \in Tags \ Unsupported
    BY <1>0, <2>1 DEF Processing, DeskType
  <2>3. L # {} => field = card
    BY <2>1 DEF Lands
  <2>4. card \in suspect \/ mem[card].kind = "BLANK" \/ (mem[card].kind = "DEBIT" /\ 0 \notin L)
    BY <2>1, <2>2 DEF Lands, Processing, View
  <2> QED
    BY <2>1, <2>2, <2>3, <2>4 DEF CreateHere
<1>2. ASSUME NEW L \in SUBSET Blocks, incrementCredit(L)
      PROVE  \/ mem' = mem /\ suspect' = suspect
             \/ /\ card \in Tags \ Unsupported /\ pc = "typed" /\ image.amt + credit \in Credits
                /\ CreditHere(card, image.amt + credit)
  <2>1. pc = "typed" /\ suspect' = suspect /\ credit \in Int /\ card \in Tags \ Unsupported
    BY <1>0, <1>2 DEF incrementCredit, DeskType
  <2>2. credit = 0 => mem' = mem
    BY <1>2 DEF incrementCredit
  <2>3. credit # 0 => AddCredit(credit, L)
    BY <1>2 DEF incrementCredit
  <2> QED
    BY <1>0, <2>1, <2>2, <2>3, AddCreditHere
<1>3. CASE Loop \/ ReadThrows
  BY <1>0, <1>3, LoopHere DEF Blocks
<1>4. CASE AdminCard \/ OtherCard \/ Ask \/ TooMuch \/ sendHistory \/ PowerCut
  BY <1>4 DEF AdminCard, OtherCard, Ask, TooMuch, sendHistory, PowerCut, Leave, history
<1> QED
  BY <1>1, <1>2, <1>3, <1>4 DEF Run

(* A terminal moves no card. *)
LEMMA FieldKept == Run \/ PowerCut => field' = field
BY DEF Run, Loop, PollPresent, PollMiss, FindCard, FindNothing, FindThrows, Read, getFloat,
       ReadThrows, AdminCard, OtherCard, Ask, TooMuch, sendHistory, createDebit,
       incrementCredit, PowerCut, Leave, reader

LEMMA NextInv ==
    ASSUME Inv, [Next]_vars
    PROVE  Inv' /\ KindsKept
<1>0. TypeOK /\ View /\ DeskType
  BY DEF Inv, TypeOK
<1>1. CASE Run \/ PowerCut
  <2>1. TypeOK' /\ View' /\ Accounted /\ KindsKept
    BY <1>0, <1>1, TillStep
  <2>2. \A t \in Tags : mem'[t].amt \in Int /\ owed'[t] \in Int /\ Pending(t)' \in Int
    BY <2>1 DEF TypeOK, DeskType, Card, Pending
  <2>3. Ledger'
    <3>1. SUFFICES ASSUME NEW t \in Tags \ suspect', mem'[t].kind = "DEBIT"
                   PROVE  mem'[t].amt = owed'[t] + Pending(t)'
      BY DEF Ledger
    <3>2. CASE /\ mem'[t].kind = mem[t].kind
               /\ mem'[t].amt - owed'[t] - Pending(t)' = mem[t].amt - owed[t] - Pending(t)
      <4>1. t \notin suspect
        BY <2>1 DEF Accounted
      <4>2. mem[t].amt = owed[t] + Pending(t)
        BY <3>1, <3>2, <4>1 DEF Inv, Ledger
      <4> QED
        BY <1>0, <3>2, <4>2, <2>2, Numbers
    <3> QED
      BY <2>1, <3>2 DEF Accounted
  <2> QED
    BY <2>1, <2>3 DEF Inv
<1>2. CASE World
  <2>1. /\ DeskType' /\ View'
        /\ suspect \subseteq suspect' /\ UNCHANGED <<card, image, credit, pc>>
        /\ \A t \in Tags : mem'[t].kind # mem[t].kind =>
              mem'[t].kind = "DEBIT" /\ (mem[t].kind = "BLANK" \/ t \in suspect)
        /\ \A t \in Tags \ suspect' :
              \/ /\ mem'[t].kind = mem[t].kind
                 /\ mem'[t].amt - owed'[t] = mem[t].amt - owed[t]
              \/ /\ mem[t].kind = "BLANK"
                 /\ mem'[t].kind = "DEBIT" /\ mem'[t].amt = 0 /\ owed'[t] = 0
    BY <1>0, <1>2, WorldStep
  <2>2. TypeOK'
    BY <2>1, <1>0 DEF TypeOK
  <2>3. \A t \in Tags : /\ mem'[t].amt \in Int /\ owed'[t] \in Int /\ Pending(t)' = Pending(t)
                        /\ mem[t].kind = "BLANK" => Pending(t) = 0
    BY <1>0, <2>1 DEF DeskType, Card, Pending, View
  <2>4. Ledger'
    <3>1. SUFFICES ASSUME NEW t \in Tags \ suspect', mem'[t].kind = "DEBIT"
                   PROVE  mem'[t].amt = owed'[t] + Pending(t)'
      BY DEF Ledger
    <3>2. CASE /\ mem'[t].kind = mem[t].kind
               /\ mem'[t].amt - owed'[t] = mem[t].amt - owed[t]
      <4>1. mem[t].amt = owed[t] + Pending(t)
        BY <3>1, <3>2, <2>1 DEF Inv, Ledger
      <4> QED
        BY <1>0, <2>3, <3>2, <4>1, Numbers
    <3>3. CASE mem[t].kind = "BLANK" /\ mem'[t].amt = 0 /\ owed'[t] = 0
      BY <2>3, <3>3
    <3> QED
      BY <2>1, <3>1, <3>2, <3>3
  <2> QED
    BY <2>1, <2>2, <2>4 DEF Inv, KindsKept
<1>3. CASE UNCHANGED vars
  BY <1>3 DEF vars, desk, Inv, TypeOK, DeskType, View, Ledger, Pending, KindsKept
<1> QED
  BY <1>1, <1>2, <1>3 DEF Next

-----------------------------------------------------------------------------
(* Every variable keeps its domain, and a Card is held wherever run()      *)
(* dereferences one (caisse.cpp:50-99).                                    *)
THEOREM CaisseType == Spec => []TypeOK
<1>1. Spec => []Inv
  BY InitInv, NextInv, PTL DEF Spec
<1>2. Inv => TypeOK
  BY DEF Inv
<1> QED
  BY <1>1, <1>2, PTL

(* A DEBIT card about which no error was printed holds what its rows add   *)
(* up to, whatever happened to it during the prompt (caisse.cpp:90-98).    *)
THEOREM CaisseLedger == Spec => []Ledger
<1>1. Spec => []Inv
  BY InitInv, NextInv, PTL DEF Spec
<1>2. Inv => Ledger
  BY DEF Inv
<1> QED
  BY <1>1, <1>2, PTL

(* Only a blank card is formatted, unless an error was printed about it    *)
(* (caisse.cpp:73-76).                                                     *)
THEOREM CaisseKeepsKinds == Spec => KindKept
<1>1. Spec => []Inv
  BY InitInv, NextInv, PTL DEF Spec
<1>2. Inv /\ [Next]_vars =>
        [\A t \in Tags : mem'[t].kind # mem[t].kind =>
            mem[t].kind = "BLANK" \/ t \in suspect]_vars
  BY NextInv DEF KindsKept
<1> QED
  BY <1>1, <1>2, PTL DEF Spec, KindKept
=============================================================================
