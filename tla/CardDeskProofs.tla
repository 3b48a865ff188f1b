--------------------------- MODULE CardDeskProofs ---------------------------
(* What the steps Caisse and Kve share preserve. *)
EXTENDS CardDesk, TLAPS

(* What a terminal knows of its card.  Between the read and the write,     *)
(* either the tag was lifted, or it is still there and holds what was read *)
(* of it, unless an error was printed, and then still the tickets that     *)
(* were read.  And what it took for a DEBIT card is one for good, what it  *)
(* took for a blank one is no other kind by now, unless an error was       *)
(* printed.                                                                *)
View ==
    /\ pc \in {"process", "prompt", "typed"} /\ ~broken =>
          /\ field = card
          /\ card \notin suspect => image = mem[card]
          /\ image.cnt > 0 => image.cnt = mem[card].cnt /\ image.tid = mem[card].tid
    /\ pc \in {"prompt", "typed", "row"} => image.kind = "DEBIT"
    /\ pc \in {"process", "prompt", "typed", "row"} =>
          /\ image.kind = "DEBIT" => mem[card].kind = "DEBIT"
          /\ image.kind = "BLANK" => card \in suspect \/ mem[card].kind \in {"BLANK", "DEBIT"}

USE DeskAssumption

-----------------------------------------------------------------------------
(* A write reaches one tag, and only the blocks L of it. *)
LEMMA WrittenFacts ==
    ASSUME mem \in [Tags -> Card], NEW t \in Tags, NEW c \in Card, NEW L, Written(t, c, L)
    PROVE  /\ mem' \in [Tags -> Card]
           /\ \A s \in Tags : s # t => mem'[s] = mem[s]
           /\ mem'[t].kind = IF 0 \in L THEN c.kind ELSE mem[t].kind
           /\ mem'[t].amt  = IF 1 \in L THEN c.amt  ELSE mem[t].amt
           /\ mem'[t].cnt  = IF 2 \in L THEN c.cnt  ELSE mem[t].cnt
           /\ mem'[t].tid  = IF 2 \in L THEN c.tid  ELSE mem[t].tid
BY DEF Written, Card

(* Nor any card at all when no block of it does. *)
LEMMA WrittenNowhere ==
    ASSUME mem \in [Tags -> Card], NEW t \in Tags, NEW c \in Card, Written(t, c, {})
    PROVE  mem' = mem
<1>1. [kind |-> mem[t].kind, amt |-> mem[t].amt, cnt |-> mem[t].cnt, tid |-> mem[t].tid]
      = mem[t]
  BY DEF Card
<1>2. mem' = [mem EXCEPT ![t] = mem[t]]
  BY <1>1 DEF Written
<1> QED
  BY <1>2

(* A new DEBIT card holds nothing, and one that is not suspect is whole. *)
LEMMA CreatedFacts ==
    ASSUME DeskType, NEW t \in Tags, NEW L \in SUBSET Blocks, Created(t, L)
    PROVE  /\ mem' \in [Tags -> Card]
           /\ \A s \in Tags : s # t => mem'[s] = mem[s]
           /\ mem'[t].kind = IF 0 \in L THEN "DEBIT" ELSE mem[t].kind
           /\ mem'[t].amt  = IF 1 \in L THEN 0 ELSE mem[t].amt
           /\ L = {} => mem' = mem
           /\ owed' \in [Tags -> Int] /\ owed'[t] = 0
           /\ \A s \in Tags : s # t => owed'[s] = owed[s]
           /\ suspect \subseteq suspect' /\ suspect' \subseteq Tags
           /\ t \notin suspect' => L = Blocks
<1> DEFINE c == [Unread EXCEPT !.kind = "DEBIT"]
<1>1. c \in Card /\ c.amt = 0 /\ c.kind = "DEBIT"
  BY DEF Unread, Card, Kinds
<1>2. /\ Written(t, c, L)
      /\ IF L = Blocks THEN owed' = [owed EXCEPT ![t] = 0] /\ UNCHANGED suspect ELSE Suspect(t)
  BY DEF Created
<1> HIDE DEF c
<1>3. mem \in [Tags -> Card] /\ owed \in [Tags -> Int] /\ suspect \subseteq Tags
  BY DEF DeskType
<1>4. /\ mem' \in [Tags -> Card]
      /\ \A s \in Tags : s # t => mem'[s] = mem[s]
      /\ mem'[t].kind = IF 0 \in L THEN c.kind ELSE mem[t].kind
      /\ mem'[t].amt  = IF 1 \in L THEN c.amt  ELSE mem[t].amt
  BY <1>1, <1>2, <1>3, WrittenFacts
<1>5. L = {} => mem' = mem
  BY <1>1, <1>2, <1>3, WrittenNowhere
<1>6. /\ owed' \in [Tags -> Int] /\ owed'[t] = 0
      /\ \A s \in Tags : s # t => owed'[s] = owed[s]
      /\ suspect \subseteq suspect' /\ suspect' \subseteq Tags
      /\ t \notin suspect' => L = Blocks
  BY <1>2, <1>3 DEF Suspect
<1> QED
  BY <1>1, <1>4, <1>5, <1>6

(* What a row does to the account of a tag. *)
LEMMA OweFacts ==
    ASSUME owed \in [Tags -> Int], NEW t \in Tags, NEW v \in Int, Owe(t, v)
    PROVE  /\ owed' \in [Tags -> Int]
           /\ \A s \in Tags : s # t => owed'[s] = owed[s]
           /\ t \notin suspect => owed'[t] = owed[t] + v
BY DEF Owe

(* A credit is written from a copy that is fresh, or is not written. *)
LEMMA AddCreditFacts ==
    ASSUME DeskType, View, pc = "typed", card \in Tags,
           NEW v \in Int, NEW L, AddCredit(v, L)
    PROVE  /\ mem' \in [Tags -> Card] /\ image' \in Card /\ owed' \in [Tags -> Int]
           /\ \A t \in Tags : t # card => mem'[t] = mem[t] /\ owed'[t] = owed[t]
           /\ mem'[card].kind = mem[card].kind /\ mem'[card].cnt = mem[card].cnt
           /\ card \notin suspect =>
                 mem'[card].amt - owed'[card] = mem[card].amt - owed[card] + v
           /\ mem'[card].amt \in {mem[card].amt, image.amt + v}
           /\ field # card => mem' = mem
           /\ image'.kind = image.kind
<1> DEFINE c == [image EXCEPT !.amt = @ + v]
<1>1. c \in Card /\ c.amt = image.amt + v /\ c.kind = image.kind /\ image' = c
  BY DEF AddCredit, DeskType, Card
<1>2. L \subseteq {1} /\ Lands(1, L) /\ Written(card, c, L)
  BY <1>1 DEF AddCredit
<1> HIDE DEF c
<1>3. /\ mem' \in [Tags -> Card]
      /\ \A t \in Tags : t # card => mem'[t] = mem[t]
      /\ mem'[card].kind = mem[card].kind /\ mem'[card].cnt = mem[card].cnt
      /\ mem'[card].amt = IF 1 \in L THEN image.amt + v ELSE mem[card].amt
  <2>1. mem \in [Tags -> Card]
    BY DEF DeskType
  <2>2. 0 \notin L /\ 2 \notin L
    BY <1>2
  <2>3. /\ mem' \in [Tags -> Card]
        /\ \A t \in Tags : t # card => mem'[t] = mem[t]
        /\ mem'[card].kind = IF 0 \in L THEN c.kind ELSE mem[card].kind
        /\ mem'[card].amt  = IF 1 \in L THEN c.amt  ELSE mem[card].amt
        /\ mem'[card].cnt  = IF 2 \in L THEN c.cnt  ELSE mem[card].cnt
    BY <2>1, <1>1, <1>2, WrittenFacts
  <2> QED
    BY <2>2, <2>3, <1>1
<1>7. field # card => mem' = mem
  <2>1. SUFFICES ASSUME field # card PROVE mem' = mem
    OBVIOUS
  <2>2. L = {}
    BY <1>2, <2>1 DEF Lands
  <2>3. Written(card, c, {}) /\ mem \in [Tags -> Card]
    BY <1>2, <2>2 DEF DeskType
  <2> QED
    BY <2>3, <1>1, WrittenNowhere
<1>4. CASE 1 \in L
  <2>1. owed' = owed
    BY <1>4 DEF AddCredit
  <2>2. card \notin suspect => image = mem[card]
    BY <1>2, <1>4 DEF Lands, View
  <2>3. mem[card].amt \in Int /\ owed[card] \in Int /\ owed \in [Tags -> Int]
    BY DEF DeskType, Card
  <2> QED
    BY <1>1, <1>3, <1>4, <1>7, <2>1, <2>2, <2>3
<1>5. CASE 1 \notin L
  <2>1. owed \in [Tags -> Int] /\ mem[card].amt \in Int /\ owed[card] \in Int
    BY DEF DeskType, Card
  <2>2. Owe(card, -v)
    BY <1>5 DEF AddCredit
  <2>3. /\ owed' \in [Tags -> Int]
        /\ \A t \in Tags : t # card => owed'[t] = owed[t]
        /\ card \notin suspect => owed'[card] = owed[card] + (-v)
    BY <2>1, <2>2, OweFacts
  <2> QED
    BY <1>1, <1>3, <1>5, <1>7, <2>1, <2>3
<1> QED
  BY <1>4, <1>5

-----------------------------------------------------------------------------
(* What another terminal sees of a step of this one. *)
CreditHere(t, v) ==
    /\ field = t /\ mem[t].kind = "DEBIT"
    /\ mem' = [mem EXCEPT ![t].amt = v] /\ suspect' = suspect

TicketHere(t) ==
    /\ field = t /\ mem[t].kind = "DEBIT" /\ mem[t].cnt > 0
    /\ mem' = [mem EXCEPT ![t].cnt = @ - 1] /\ suspect' = suspect

CreateHere(t, L) ==
    /\ L # {} => /\ field = t
                 /\ \/ t \in suspect \/ mem[t].kind = "BLANK"
                    \/ mem[t].kind = "DEBIT" /\ 0 \notin L
    /\ Created(t, L)

(* An error that comes with no write is a creation that wrote nothing. *)
LEMMA ErrorHere ==
    ASSUME mem \in [Tags -> Card], NEW t \in Tags, Suspect(t), mem' = mem
    PROVE  CreateHere(t, {})
<1>1. [kind |-> mem[t].kind, amt |-> mem[t].amt, cnt |-> mem[t].cnt, tid |-> mem[t].tid]
      = mem[t]
  BY DEF Card
<1>2. mem' = [mem EXCEPT ![t] = mem[t]]
  OBVIOUS
<1>3. Written(t, [Unread EXCEPT !.kind = "DEBIT"], {})
  BY <1>1, <1>2 DEF Written
<1>4. {} # Blocks
  BY DEF Blocks
<1> QED
  BY <1>3, <1>4 DEF CreateHere, Created

LEMMA AddCreditHere ==
    ASSUME DeskType, View, pc = "typed", card \in Tags,
           NEW v \in Int, NEW L, AddCredit(v, L), suspect' = suspect
    PROVE  mem' = mem \/ (CreditHere(card, image.amt + v) /\ image.amt + v \in Credits)
<1> DEFINE c == [image EXCEPT !.amt = @ + v]
<1>1. c \in Card /\ c.amt = image.amt + v /\ image' = c
  BY DEF AddCredit, DeskType, Card
<1>2. L \subseteq {1} /\ Lands(1, L) /\ Written(card, c, L) /\ image.amt + v \in Credits
  BY <1>1 DEF AddCredit
<1> HIDE DEF c
<1>3. CASE L = {}
  BY <1>1, <1>2, <1>3, WrittenNowhere DEF DeskType
<1>4. CASE L = {1}
  <2>1. field = card /\ mem[card].kind = "DEBIT"
    BY <1>2, <1>4 DEF Lands, View
  <2>2. mem' = [mem EXCEPT ![card] = [kind |-> mem[card].kind, amt |-> image.amt + v,
                                      cnt |-> mem[card].cnt, tid |-> mem[card].tid]]
    BY <1>1, <1>2, <1>4 DEF Written
  <2>3. [mem[card] EXCEPT !.amt = image.amt + v]
        = [kind |-> mem[card].kind, amt |-> image.amt + v, cnt |-> mem[card].cnt, tid |-> mem[card].tid]
    BY DEF DeskType, Card
  <2>4. mem' = [mem EXCEPT ![card].amt = image.amt + v]
    BY <2>2, <2>3
  <2> QED
    BY <1>2, <2>1, <2>4 DEF CreditHere
<1> QED
  BY <1>2, <1>3, <1>4

LEMMA LoopHere ==
    ASSUME DeskType, Loop \/ ReadThrows
    PROVE  (mem' = mem /\ suspect' = suspect) \/ \E t \in Tags \ Unsupported : CreateHere(t, {})
<1>1. ASSUME NEW R \in SUBSET Blocks, Read(R)
      PROVE  (mem' = mem /\ suspect' = suspect) \/ CreateHere(card, {})
  <2>1. CASE R = Blocks
    BY <1>1, <2>1 DEF Read, history
  <2>2. CASE R # Blocks
    <3>1. Suspect(card) /\ mem' = mem /\ mem \in [Tags -> Card] /\ card \in Tags
      BY <1>1, <2>2 DEF Read, DeskType
    <3> QED
      BY <3>1, ErrorHere
  <2> QED
    BY <2>1, <2>2
<1>2. ASSUME NEW R \in SUBSET Blocks, Read(R) PROVE card \in Tags \ Unsupported
  BY <1>2 DEF Read, DeskType
<1> QED
  BY <1>1, <1>2 DEF Loop, PollPresent, PollMiss, FindCard, FindNothing, FindThrows, getFloat,
     ReadThrows, history

-----------------------------------------------------------------------------
(* The loop up to the prompt touches no card, and makes no tag less suspect. *)
LEMMA LoopStep ==
    ASSUME DeskType, View, Loop \/ ReadThrows
    PROVE  /\ DeskType' /\ View'
           /\ mem' = mem /\ suspect \subseteq suspect'
           /\ \A t \in Tags \ suspect' : owed'[t] = owed[t]
           /\ pc # "row" /\ pc' \in {Top, "find", "read", "process", "typed"}
<1> USE DEF DeskType, View
<1>1. CASE PollPresent
  BY <1>1 DEF PollPresent, EndTurn, Unread, Card, Kinds, reader, history
<1>2. CASE PollMiss
  BY <1>2 DEF PollMiss, reader, copy, history
<1>3. CASE FindCard
  <2>1. Unread \in Card
    BY DEF Unread, Card, Kinds
  <2>2. /\ pc' = "read" /\ card' = field /\ image' = Unread /\ broken' = FALSE
        /\ field \in Tags \ Unsupported
        /\ UNCHANGED <<field, mem, credit, owed, suspect>> /\ pc \in {"find", "poll"}
    BY <1>3 DEF FindCard, Finding, history
  <2>3. DeskType'
    BY <2>1, <2>2
  <2> QED
    BY <2>2, <2>3
<1>4. CASE FindNothing
  <2>1. Unread \in Card
    BY DEF Unread, Card, Kinds
  <2>2. /\ pc' = Top /\ card' = NoTag /\ image' = Unread /\ credit' = 0
        /\ UNCHANGED <<field, broken, mem, owed, suspect>> /\ pc \in {"find", "poll"}
    BY <1>4 DEF FindNothing, EndTurn, Finding, reader, history
  <2> QED
    BY <2>1, <2>2
<1>5. CASE FindThrows
  BY <1>5 DEF FindThrows, EndTurn, Finding, Unread, Card, Kinds, reader, history
<1>6. CASE ReadThrows
  BY <1>6 DEF ReadThrows, EndTurn, Unread, Card, Kinds, reader, history
<1>7. ASSUME NEW R \in SUBSET Blocks, Read(R)
      PROVE  /\ DeskType' /\ View'
             /\ mem' = mem /\ suspect \subseteq suspect'
             /\ \A t \in Tags \ suspect' : owed'[t] = owed[t]
             /\ pc # "row" /\ pc' = "process"
  <2>1. card \in Tags /\ mem[card] \in Card /\ Unread \in Card
    BY <1>7 DEF Read, Unread, Card, Kinds
  <2>2. image' \in Card
    BY <1>7, <2>1 DEF Read, Card, Unread
  <2>9. /\ image'.kind = "DEBIT" => mem[card].kind = "DEBIT"
        /\ image'.cnt > 0 => image'.cnt = mem[card].cnt /\ image'.tid = mem[card].tid
        /\ 0 \in R => image'.kind = mem[card].kind
    BY <1>7 DEF Read, Unread
  <2>10. 0 \notin R => card \in suspect'
    BY <1>7 DEF Read, Suspect, Blocks
  <2>3. /\ suspect \subseteq suspect' /\ suspect' \subseteq Tags
        /\ owed' \in [Tags -> Int]
        /\ \A t \in Tags \ suspect' : owed'[t] = owed[t]
    BY <1>7, <2>1 DEF Read, Suspect, history
  <2>4. card \notin suspect' => image' = mem[card]
    <3>1. SUFFICES ASSUME card \notin suspect' PROVE image' = mem[card]
      OBVIOUS
    <3>2. R = Blocks
      BY <3>1, <1>7 DEF Read, Suspect
    <3>3. image' = [kind |-> mem[card].kind, amt |-> mem[card].amt,
                    cnt |-> mem[card].cnt, tid |-> mem[card].tid]
      BY <3>2, <1>7 DEF Read, Blocks
    <3> QED
      BY <3>3, <2>1 DEF Card
  <2>5. /\ pc = "read" /\ pc' = "process" /\ field = card /\ broken' = FALSE
        /\ UNCHANGED <<field, mem, card, credit>>
    BY <1>7 DEF Read
  <2>6. card # NoTag
    BY <2>5
  <2>7. DeskType'
    BY <2>2, <2>3, <2>5, <2>6
  <2>8. View'
    BY <2>4, <2>5, <2>9, <2>10
  <2> QED
    BY <2>3, <2>5, <2>7, <2>8
<1>8. ASSUME NEW v \in Typed, getFloat(v)
      PROVE  /\ DeskType' /\ View'
             /\ mem' = mem /\ suspect' = suspect /\ owed' = owed
             /\ pc # "row" /\ pc' = "typed"
  BY <1>8 DEF getFloat, reader, copy, history
<1>9. CASE Loop
  BY <1>9, <1>1, <1>2, <1>3, <1>4, <1>5, <1>7, <1>8
     DEF Loop, PollPresent, PollMiss, FindCard, FindNothing, FindThrows, Finding,
         EndTurn, history
<1> QED
  BY <1>6, <1>9 DEF ReadThrows, EndTurn, history

(* Customers lift cards, and other terminals use them: a card that lies    *)
(* here is left alone, the account of another follows its credit, or is    *)
(* settled when a blank one becomes a DEBIT card.                          *)
LEMMA WorldStep ==
    ASSUME DeskType, View, World
    PROVE  /\ DeskType' /\ View'
           /\ suspect \subseteq suspect' /\ UNCHANGED <<card, image, credit, pc>>
           /\ \A t \in Tags :
                 /\ field = t => mem'[t] = mem[t]
                 /\ mem'[t].kind # mem[t].kind =>
                       mem'[t].kind = "DEBIT" /\ (mem[t].kind = "BLANK" \/ t \in suspect)
           /\ \A t \in Tags \ suspect' :
                 \/ /\ mem'[t].kind = mem[t].kind
                    /\ mem'[t].amt - owed'[t] = mem[t].amt - owed[t]
                 \/ /\ mem[t].kind = "BLANK"
                    /\ mem'[t].kind = "DEBIT" /\ mem'[t].amt = 0 /\ owed'[t] = 0
<1>1. CASE Remove
  BY <1>1 DEF Remove, DeskType, View, copy, history
<1>2. ASSUME NEW t \in Tags, Place(t)
      PROVE  /\ DeskType' /\ View'
             /\ mem' = mem /\ owed' = owed /\ suspect' = suspect
             /\ UNCHANGED <<card, image, credit, pc>>
  BY <1>2 DEF Place, DeskType, View, copy, history
<1> DEFINE Follows ==
      /\ DeskType' /\ View'
      /\ suspect \subseteq suspect' /\ UNCHANGED <<card, image, credit, pc>>
      /\ \A t \in Tags :
            /\ field = t => mem'[t] = mem[t]
            /\ mem'[t].kind # mem[t].kind =>
                  mem'[t].kind = "DEBIT" /\ (mem[t].kind = "BLANK" \/ t \in suspect)
      /\ \A t \in Tags \ suspect' :
            \/ /\ mem'[t].kind = mem[t].kind
               /\ mem'[t].amt - owed'[t] = mem[t].amt - owed[t]
            \/ /\ mem[t].kind = "BLANK"
               /\ mem'[t].kind = "DEBIT" /\ mem'[t].amt = 0 /\ owed'[t] = 0
<1>3. ASSUME NEW t \in Tags \ Unsupported, NEW v \in Credits, CreditElsewhere(t, v),
             UNCHANGED <<reader, copy, credit, pc>>
      PROVE  Follows
  <2>1. t \in Tags /\ v \in Int /\ mem[t] \in Card /\ mem[t].amt \in Int
    BY DEF DeskType, Card
  <2>2. /\ mem' = [mem EXCEPT ![t].amt = v] /\ field # t
        /\ suspect' = suspect /\ UNCHANGED <<card, image, credit, pc, field, broken>>
        /\ Owe(t, v - mem[t].amt)
    BY <1>3 DEF CreditElsewhere, reader, copy
  <2>3. mem' \in [Tags -> Card]
    BY <2>1, <2>2 DEF DeskType, Card
  <2>4. /\ mem'[t].kind = mem[t].kind /\ mem'[t].amt = v
        /\ \A s \in Tags : s # t => mem'[s] = mem[s]
    BY <2>1, <2>2 DEF DeskType, Card
  <2>5. /\ owed' \in [Tags -> Int]
        /\ \A s \in Tags : s # t => owed'[s] = owed[s]
        /\ t \notin suspect => owed'[t] = owed[t] + (v - mem[t].amt)
    <3>1. owed \in [Tags -> Int] /\ v - mem[t].amt \in Int
      BY <2>1 DEF DeskType
    <3> QED
      BY <3>1, <2>1, <2>2, OweFacts
  <2>6. DeskType'
    BY <2>2, <2>3, <2>5 DEF DeskType
  <2>7. View'
    BY <2>2, <2>4 DEF View, DeskType
  <2>8. owed[t] \in Int
    BY <2>1 DEF DeskType
  <2> QED
    BY <2>1, <2>2, <2>4, <2>5, <2>6, <2>7, <2>8
<1>4. ASSUME NEW t \in Tags \ Unsupported, TicketElsewhere(t),
             UNCHANGED <<reader, copy, credit, pc>>
      PROVE  Follows
  <2>1. t \in Tags /\ mem[t] \in Card /\ mem[t].cnt \in Nat
    BY DEF DeskType, Card
  <2>2. /\ mem' = [mem EXCEPT ![t].cnt = @ - 1] /\ field # t /\ mem[t].cnt > 0
        /\ UNCHANGED <<card, image, credit, pc, field, broken, owed, suspect>>
    BY <1>4 DEF TicketElsewhere, reader, copy, history
  <2>3. mem' \in [Tags -> Card]
    BY <2>1, <2>2 DEF DeskType, Card
  <2>4. /\ mem'[t].kind = mem[t].kind /\ mem'[t].amt = mem[t].amt
        /\ \A s \in Tags : s # t => mem'[s] = mem[s]
    BY <2>1, <2>2 DEF DeskType, Card
  <2>5. DeskType'
    BY <2>2, <2>3 DEF DeskType
  <2>6. View'
    BY <2>2, <2>4 DEF View, DeskType
  <2> QED
    BY <2>2, <2>4, <2>5, <2>6
<1>5. ASSUME NEW t \in Tags \ Unsupported, NEW L \in SUBSET Blocks, CreateElsewhere(t, L),
             UNCHANGED <<reader, copy, credit, pc>>
      PROVE  Follows
  <2>1. /\ t \in Tags
        /\ L # {} => /\ field # t
                     /\ \/ t \in suspect \/ mem[t].kind = "BLANK"
                        \/ mem[t].kind = "DEBIT" /\ 0 \notin L
        /\ UNCHANGED <<card, image, credit, pc, field, broken>>
    BY <1>5 DEF CreateElsewhere, reader, copy
  <2>2. /\ mem' \in [Tags -> Card]
        /\ \A s \in Tags : s # t => mem'[s] = mem[s]
        /\ mem'[t].kind = IF 0 \in L THEN "DEBIT" ELSE mem[t].kind
        /\ mem'[t].amt  = IF 1 \in L THEN 0 ELSE mem[t].amt
        /\ L = {} => mem' = mem
        /\ owed' \in [Tags -> Int] /\ owed'[t] = 0
        /\ \A s \in Tags : s # t => owed'[s] = owed[s]
        /\ suspect \subseteq suspect' /\ suspect' \subseteq Tags
        /\ t \notin suspect' => L = Blocks
    BY <1>5, CreatedFacts DEF CreateElsewhere
  <2>3. DeskType'
    BY <2>1, <2>2 DEF DeskType
  <2>4. field = t => mem' = mem
    BY <2>1, <2>2
  <2>5. \A s \in Tags : /\ field = s => mem'[s] = mem[s]
                        /\ mem[s].kind = "DEBIT" => mem'[s].kind = "DEBIT"
                        /\ mem'[s].kind \in {mem[s].kind, "DEBIT"}
    BY <2>2, <2>4
  <2>6. View'
    BY <2>1, <2>2, <2>5 DEF View, DeskType
  <2>7. mem'[t].kind # mem[t].kind => mem'[t].kind = "DEBIT" /\ (mem[t].kind = "BLANK" \/ t \in suspect)
    BY <2>1, <2>2
  <2>8. t \notin suspect' => /\ mem[t].kind = "BLANK"
                             /\ mem'[t].kind = "DEBIT" /\ mem'[t].amt = 0 /\ owed'[t] = 0
    BY <2>1, <2>2 DEF Blocks
  <2> QED
    BY <2>1, <2>2, <2>3, <2>5, <2>6, <2>7, <2>8
<1>6. CASE Elsewhere
  BY <1>6, <1>3, <1>4, <1>5 DEF Elsewhere
<1> QED
  BY <1>1, <1>2, <1>6 DEF World, Remove, copy, history
=============================================================================
