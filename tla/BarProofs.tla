----------------------------- MODULE BarProofs ------------------------------
(***************************************************************************)
(* No ticket leaves a card without its history row, no money without its   *)
(* rows but by a power cut, and no CONSO card is counted twice, for every set of cards and    *)
(* consos: in particular whatever blocks are read and written, with cards  *)
(* lifted and the power cut at any time.                                   *)
(***************************************************************************)
EXTENDS Bar, FiniteSetTheorems, WellFoundedInduction, TLAPS

(* What the tickets need of the variables' domains.                        *)
Domains ==
    /\ card \in Tags \cup {NoTag} /\ pc \in PCs /\ (pc \notin {"top", "poll"} => card # NoTag)
    /\ image = [kind |-> image.kind, amt |-> image.amt, cnt |-> image.cnt, tid |-> image.tid]
    /\ image.cnt \in Nat
    /\ mem = [t \in Tags |-> mem[t]] /\ spent \in [Tags -> Nat]
    /\ \A t \in Tags : /\ mem[t] = [kind |-> mem[t].kind, amt |-> mem[t].amt,
                                    cnt |-> mem[t].cnt, tid |-> mem[t].tid]
                       /\ mem[t].cnt \in Nat

(* The rows sent for the card on the reader allow for it to hold n tickets. *)
Allows(n) == InitCard[card].cnt - n <= spent[card]

(* Whatever number of tickets may still be written is allowed: the one read, *)
(* less one when the ticket's row is sent.                                 *)
Logged ==
    /\ pc \in {"read", "process", "ticket"} => dirty = {}
    /\ pc = "process" /\ image.cnt > 0 => Allows(image.cnt)
    /\ pc = "ticket" => image.cnt > 0 /\ Allows(image.cnt - 1)
    /\ pc = "price" /\ 2 \in dirty => Allows(image.cnt)

Inv == Domains /\ TicketLogged /\ Logged

LEMMA CountType == \A t \in Tags : InitCard[t].cnt \in Nat
BY BarAssumption DEF Card

-----------------------------------------------------------------------------
LEMMA InitInv == Init => Inv
<1> SUFFICES ASSUME Init PROVE Inv
    OBVIOUS
<1>1. Domains
    BY BarAssumption DEF Init, Domains, Unread, PCs, Card
<1>2. TicketLogged
    BY CountType DEF Init, TicketLogged
<1>3. Logged
    BY DEF Init, Logged
<1> QED  BY <1>1, <1>2, <1>3 DEF Inv

(* The cards, the copy and the rows as they were, and nothing at stake. *)
LEMMA Elsewhere ==
    ASSUME Inv, UNCHANGED <<mem, copy, spent>>, pc' \in PCs,
           pc' \in {"read", "process", "ticket", "price"} => pc' = pc,
           pc' \notin {"top", "poll"} => card # NoTag
    PROVE  Inv'
<1>1. UNCHANGED <<mem, card, image, dirty, spent>>
    BY DEF copy
<1>2. Domains'
    BY <1>1 DEF Inv, Domains
<1>3. TicketLogged'
    BY <1>1 DEF Inv, TicketLogged
<1>4. Logged'
    BY <1>1 DEF Inv, Logged, Allows
<1> QED  BY <1>2, <1>3, <1>4 DEF Inv

(* The program starts anew, or has found a card. *)
LEMMA Anew ==
    ASSUME Inv, UNCHANGED <<mem, spent>>, card' \in Tags \cup {NoTag}, image' = Unread, dirty' = {},
           pc' \in {"top", "read"}, pc' = "read" => card' # NoTag
    PROVE  Inv'
<1>1. Domains'
    BY DEF Inv, Domains, Unread, PCs
<1>2. TicketLogged'
    BY DEF Inv, TicketLogged
<1>3. Logged'
    BY DEF Logged
<1> QED  BY <1>1, <1>2, <1>3 DEF Inv

LEMMA ReadInv == ASSUME Inv, NEW R \in SUBSET Blocks, Read(R) PROVE Inv'
<1>1. /\ pc = "read" /\ pc' = "process" /\ card \in Tags /\ card' = card /\ dirty = {} /\ dirty' = {}
      /\ mem' = mem /\ spent' = spent
    BY DEF Read, history, accounts, Inv, Domains, Logged
<1>2. /\ image' = [kind |-> image'.kind, amt |-> image'.amt, cnt |-> image'.cnt, tid |-> image'.tid]
      /\ image'.cnt \in {0, mem[card].cnt}
    BY DEF Read, Unread
<1>3. mem[card].cnt \in Nat /\ image'.cnt \in Nat
    BY <1>1, <1>2 DEF Inv, Domains
<1>4. Domains'
    BY <1>1, <1>2, <1>3 DEF Inv, Domains, PCs
<1>5. TicketLogged'
    BY <1>1 DEF Inv, TicketLogged
<1>6. image'.cnt > 0 => InitCard[card].cnt - image'.cnt <= spent[card]
    BY <1>1, <1>2 DEF Inv, TicketLogged
<1>7. Logged'
    BY <1>1, <1>6 DEF Logged, Allows
<1> QED  BY <1>4, <1>5, <1>7 DEF Inv

LEMMA UseTicketInv == Inv /\ UseTicket => Inv'
<1> SUFFICES ASSUME Inv, UseTicket PROVE Inv'
    OBVIOUS
<1>1. CASE image.tid = BadId
    BY <1>1, Elsewhere DEF UseTicket, PCs
<1>2. CASE image.tid # BadId
    <2>1. /\ pc = "process" /\ pc' = "ticket" /\ card \in Tags /\ dirty = {} /\ dirty' = {} /\ card' = card
          /\ image' = image /\ mem' = mem /\ image.cnt > 0 /\ Allows(image.cnt)
        BY <1>2 DEF UseTicket, Processing, TicketFits, copy, Inv, Domains, Logged
    <2>2. /\ spent' = [spent EXCEPT ![card] = IF @ < InitCard[card].cnt THEN @ + 1 ELSE @]
          /\ spent \in [Tags -> Nat] /\ image.cnt \in Nat /\ InitCard[card].cnt \in Nat
        BY <1>2, <2>1, CountType DEF UseTicket, Inv, Domains
    <2>3. spent' \in [Tags -> Nat] /\ \A t \in Tags : spent[t] <= spent'[t]
        BY <2>1, <2>2
    <2>4. Domains'
        BY <2>1, <2>3 DEF Inv, Domains, PCs
    <2>5. TicketLogged'
        <3> SUFFICES ASSUME NEW t \in Tags PROVE InitCard[t].cnt - mem[t].cnt <= spent'[t]
            BY <2>1 DEF TicketLogged
        <3> QED  BY <2>2, <2>3, CountType DEF Inv, TicketLogged, Domains
    <2>6. InitCard[card].cnt - (image.cnt - 1) <= spent'[card]
        <3>1. spent'[card] = IF spent[card] < InitCard[card].cnt THEN spent[card] + 1 ELSE spent[card]
            BY <2>1, <2>2
        <3>2. spent[card] \in Nat
            BY <2>1, <2>2
        <3> QED  BY <2>1, <2>2, <3>1, <3>2 DEF Allows
    <2>7. Logged'
        BY <2>1, <2>6 DEF Logged, Allows
    <2> QED  BY <2>4, <2>5, <2>7 DEF Inv
<1> QED  BY <1>1, <1>2

(* A card that is written holds as many tickets as before, or as the copy. *)
LEMMA Written ==
    ASSUME Inv, card \in Tags, NEW L, WriteCard(L), spent' = spent,
           2 \in L => image'.cnt \in Nat /\ Allows(image'.cnt)
    PROVE  /\ mem' = [t \in Tags |-> mem'[t]]
           /\ \A t \in Tags : /\ mem'[t] = [kind |-> mem'[t].kind, amt |-> mem'[t].amt,
                                            cnt |-> mem'[t].cnt, tid |-> mem'[t].tid]
                              /\ mem'[t].cnt \in Nat
                              /\ InitCard[t].cnt - mem'[t].cnt <= spent'[t]
                              /\ mem'[t].amt = IF t = card /\ 1 \in L THEN image'.amt ELSE mem[t].amt
<1> DEFINE amt == IF 1 \in L THEN image'.amt ELSE mem[card].amt
           cnt == IF 2 \in L THEN image'.cnt ELSE mem[card].cnt
<1>1. mem[card] = [kind |-> mem[card].kind, amt |-> mem[card].amt, cnt |-> mem[card].cnt, tid |-> mem[card].tid]
    BY DEF Inv, Domains
<1>2. mem' = [mem EXCEPT ![card] = [kind |-> mem[card].kind, amt |-> amt, cnt |-> cnt, tid |-> mem[card].tid]]
    <2> DEFINE paid == [mem EXCEPT ![card] = [mem[card] EXCEPT !.amt = amt]]
    <2>1. paid[card] = [kind |-> mem[card].kind, amt |-> amt, cnt |-> mem[card].cnt, tid |-> mem[card].tid]
        <3>1. [mem[card] EXCEPT !.amt = amt]
                = [kind |-> mem[card].kind, amt |-> amt, cnt |-> mem[card].cnt, tid |-> mem[card].tid]
            <4> HIDE DEF amt
            <4> QED  BY <1>1
        <3>2. paid[card] = [mem[card] EXCEPT !.amt = amt]
            <4> HIDE DEF amt
            <4> QED  BY DEF Inv, Domains
        <3> QED  BY <3>1, <3>2
    <2>2. mem' = [paid EXCEPT ![card] = [paid[card] EXCEPT !.cnt = IF 2 \in L THEN image'.cnt ELSE paid[card].cnt]]
        BY DEF WriteCard
    <2>3. (IF 2 \in L THEN image'.cnt ELSE paid[card].cnt) = cnt
        <3> HIDE DEF paid
        <3>1. paid[card].cnt = mem[card].cnt
            BY <2>1
        <3> QED  BY <3>1
    <2>4. mem' = [paid EXCEPT ![card] = [paid[card] EXCEPT !.cnt = cnt]]
        <3> HIDE DEF paid
        <3> QED  BY <2>2, <2>3
    <2> HIDE DEF amt, cnt
    <2>5. [paid[card] EXCEPT !.cnt = cnt] = [kind |-> mem[card].kind, amt |-> amt, cnt |-> cnt, tid |-> mem[card].tid]
        <3> HIDE DEF paid
        <3> QED  BY <2>1
    <2>6. mem' = [paid EXCEPT ![card] = [kind |-> mem[card].kind, amt |-> amt, cnt |-> cnt, tid |-> mem[card].tid]]
        <3> HIDE DEF paid
        <3> QED  BY <2>4, <2>5
    <2> QED  BY <2>6 DEF Inv, Domains
<1>3. cnt \in Nat /\ InitCard[card].cnt - cnt <= spent[card]
    BY DEF Inv, Domains, TicketLogged, Allows
<1> HIDE DEF amt, cnt
<1>4. ASSUME NEW t \in Tags
      PROVE  /\ mem'[t] = [kind |-> mem'[t].kind, amt |-> mem'[t].amt, cnt |-> mem'[t].cnt, tid |-> mem'[t].tid]
             /\ mem'[t].cnt \in Nat /\ InitCard[t].cnt - mem'[t].cnt <= spent'[t]
             /\ mem'[t].amt = IF t = card /\ 1 \in L THEN image'.amt ELSE mem[t].amt
    <2>1. CASE t = card
        <3>1. mem'[t] = [kind |-> mem[card].kind, amt |-> amt, cnt |-> cnt, tid |-> mem[card].tid]
            BY <1>2, <2>1 DEF Inv, Domains
        <3> QED  BY <1>3, <2>1, <3>1 DEF amt
    <2>2. CASE t # card
        <3>1. mem'[t] = mem[t]
            BY <1>2, <2>2 DEF Inv, Domains
        <3> QED  BY <2>2, <3>1 DEF Inv, Domains, TicketLogged
    <2> QED  BY <2>1, <2>2
<1>5. mem' = [t \in Tags |-> mem'[t]]
    BY <1>2 DEF Inv, Domains
<1> QED  BY <1>4, <1>5

LEMMA TicketInv == ASSUME Inv, NEW L \in SUBSET Blocks, decrementTicket(L) PROVE Inv'
<1>1. /\ pc = "ticket" /\ pc' = "price" /\ card \in Tags /\ card' = card /\ spent' = spent /\ WriteCard(L)
      /\ image.cnt \in Nat /\ image.cnt > 0 /\ Allows(image.cnt - 1)
    BY DEF decrementTicket, history, accounts, Inv, Domains, Logged
<1>2. image' = [image EXCEPT !.cnt = image.cnt - 1]
    BY <1>1 DEF decrementTicket
<1>3. /\ image' = [kind |-> image'.kind, amt |-> image'.amt, cnt |-> image'.cnt, tid |-> image'.tid]
      /\ image'.cnt = image.cnt - 1
    BY <1>2 DEF Inv, Domains
<1>4. image'.cnt \in Nat /\ Allows(image'.cnt)
    BY <1>1, <1>3
<1>5. Domains'
    BY <1>1, <1>3, <1>4, Written DEF Inv, Domains, PCs
<1>6. TicketLogged'
    BY <1>1, <1>4, Written DEF TicketLogged
<1>7. Logged'
    BY <1>1, <1>4 DEF Logged, Allows
<1> QED  BY <1>5, <1>6, <1>7 DEF Inv

LEMMA CreditInv == ASSUME Inv, NEW L \in SUBSET Blocks, decrementCredit(L) PROVE Inv'
<1>1. pc = "price" /\ pc' = "rows" /\ card \in Tags /\ card' = card /\ spent' = spent
    BY DEF decrementCredit, Inv, Domains
<1>2. CASE image.amt = 0
    <2>1. UNCHANGED <<mem, card, image, dirty, spent>>
        BY <1>1, <1>2 DEF decrementCredit
    <2>2. Domains'
        BY <1>1, <2>1 DEF Inv, Domains, PCs
    <2>3. TicketLogged'
        BY <2>1 DEF Inv, TicketLogged
    <2>4. Logged'
        BY <1>1 DEF Logged
    <2> QED  BY <2>2, <2>3, <2>4 DEF Inv
<1>3. CASE image.amt # 0
    <2>1. WriteCard(L) /\ dirty' = dirty \cup {1} /\ image' = [image EXCEPT !.amt = @ - getPrice(conso)]
        BY <1>3 DEF decrementCredit
    <2>2. /\ image' = [kind |-> image'.kind, amt |-> image'.amt, cnt |-> image'.cnt, tid |-> image'.tid]
          /\ image'.cnt = image.cnt
        BY <2>1 DEF Inv, Domains
    <2>3. 2 \in L => image'.cnt \in Nat /\ Allows(image'.cnt)
        BY <1>1, <2>1, <2>2 DEF WriteCard, Inv, Domains, Logged
    <2>4. Domains'
        BY <1>1, <2>1, <2>2, <2>3, Written DEF Inv, Domains, PCs
    <2>5. TicketLogged'
        BY <1>1, <2>1, <2>3, Written DEF TicketLogged
    <2>6. Logged'
        BY <1>1 DEF Logged
    <2> QED  BY <2>4, <2>5, <2>6 DEF Inv
<1> QED  BY <1>2, <1>3

(* The other steps of run, and the world's, touch neither card nor rows. *)
LEMMA NextInv == Inv /\ [Next]_vars => Inv'
<1> SUFFICES ASSUME Inv, [Next]_vars PROVE Inv'
    OBVIOUS
<1> USE DEF PCs
<1>1. ASSUME NEW key \in BOOLEAN, Check(key) PROVE Inv'
    BY <1>1, Elsewhere DEF Check, history, accounts
<1>2. CASE PollPresent \/ FindThrows \/ ReadThrows \/ OtherCard \/ PriceThrows \/ Clear
    BY <1>2, Elsewhere DEF PollPresent, FindThrows, ReadThrows, OtherCard, PriceThrows, Clear, history, accounts
<1>3. CASE PollMiss
    BY <1>3, Elsewhere DEF PollMiss, accounts
<1>4. CASE FindCard
    BY <1>4, Anew, BarAssumption DEF FindCard, accounts
<1>5. CASE FindNothing \/ AdminCard \/ PowerCut
    BY <1>5, Anew DEF FindNothing, AdminCard, PowerCut, Fresh0, history, accounts
<1>6. CASE ConsoCard
    BY <1>6, Elsewhere DEF ConsoCard, accounts
<1>7. CASE NoTicket
    <2>1. pc = "process" /\ pc' = "price" /\ UNCHANGED <<mem, card, image, dirty, spent>> /\ dirty = {} /\ card # NoTag
        BY <1>7 DEF NoTicket, Processing, copy, history, accounts, Inv, Domains, Logged
    <2>2. Domains'
        BY <2>1 DEF Inv, Domains
    <2>3. TicketLogged'
        BY <2>1 DEF Inv, TicketLogged
    <2>4. Logged'
        BY <2>1 DEF Logged
    <2> QED  BY <2>2, <2>3, <2>4 DEF Inv
<1>8. CASE Refuse \/ RowsSent
    BY <1>8, Elsewhere DEF Refuse, RowsSent, history, accounts, Inv, Domains
<1>9. ASSUME NEW i \in DOMAIN Price, sendHistory(i) PROVE Inv'
    BY <1>9, Elsewhere DEF sendHistory, Inv, Domains
<1>10. CASE Remove \/ Tick
    BY <1>10, Elsewhere DEF Remove, Tick, history, accounts, Inv, Domains
<1>11. ASSUME NEW t \in Tags, Place(t) PROVE Inv'
    BY <1>11, Elsewhere DEF Place, accounts, Inv, Domains
<1>12. CASE UNCHANGED vars
    BY <1>12, Elsewhere DEF vars, copy, Inv, Domains
<1> QED  BY <1>1, <1>2, <1>3, <1>4, <1>5, <1>6, <1>7, <1>8, <1>9, <1>10, <1>11, <1>12,
           ReadInv, UseTicketInv, TicketInv, CreditInv DEF Next, Run

(* A ticket never leaves a card without its history row (bar.cpp:152).      *)
THEOREM TicketsLogged == Spec => []TicketLogged
<1>1. Inv => TicketLogged
    BY DEF Inv
<1> QED  BY InitInv, NextInv, <1>1, PTL DEF Spec

-----------------------------------------------------------------------------
(* Sums over finite sets, by induction on the number of elements.          *)
First(s) == CHOOSE x \in s : TRUE

(* f is the recursive function by which the sum of w over S is computed, as *)
(* far as sets of at most n elements.                                      *)
Upto(S, n) == {s \in SUBSET S : Cardinality(s) <= n}
Adds(f, w, D) == f = [s \in D |-> IF s = {} THEN 0 ELSE w[First(s)] + f[s \ {First(s)}]]

LEMMA SmallestOf ==
    ASSUME NEW T \in SUBSET Nat, T # {}
    PROVE  \E x \in T : \A y \in T : x <= y
<1> DEFINE R == {ss \in Nat \X Nat : ss[1] < ss[2]}
<1>1. IsWellFoundedOn(R, Nat)
  BY NatLessThanWellFounded DEF OpToRel
<1>2. \E x \in T : \A y \in T : ~ (<<y, x>> \in R)
  <2> HIDE DEF R
  <2> QED
    BY <1>1, WFMin
<1>3. PICK x \in T : \A y \in T : ~ (<<y, x>> \in R)
  BY <1>2
<1>4. ASSUME NEW y \in T PROVE x <= y
  <2>1. y < x => <<y, x>> \in R
    OBVIOUS
  <2> QED
    BY <2>1, <1>3
<1> QED
  BY <1>4

LEMMA Induction ==
    ASSUME NEW S, IsFiniteSet(S), NEW T, {} \in T,
           ASSUME NEW s \in SUBSET S, s # {}, \A x \in s : s \ {x} \in T
           PROVE  s \in T
    PROVE  SUBSET S \subseteq T
<1> SUFFICES ASSUME ~(SUBSET S \subseteq T) PROVE FALSE
  OBVIOUS
<1> DEFINE N == {Cardinality(s) : s \in (SUBSET S) \ T}
<1>1. \A s \in SUBSET S : IsFiniteSet(s) /\ Cardinality(s) \in Nat
  BY FS_Subset, FS_CardinalityType
<1>2. N \in SUBSET Nat /\ N # {}
  BY <1>1
<1>3. PICK n \in N : \A m \in N : n <= m
  <2> HIDE DEF N
  <2> QED
    BY <1>2, SmallestOf
<1>4. PICK s \in SUBSET S : s \notin T /\ Cardinality(s) = n
  BY <1>3
<1>5. ASSUME NEW x \in s PROVE s \ {x} \in T
  <2>1. Cardinality(s \ {x}) = n - 1 /\ s \ {x} \in SUBSET S /\ n \in Nat
    BY <1>1, <1>4, FS_RemoveElement
  <2>2. s \ {x} \notin T => Cardinality(s \ {x}) \in N
    BY <2>1
  <2>3. s \ {x} \notin T => n <= n - 1
    BY <1>3, <2>1, <2>2
  <2> QED
    BY <2>1, <2>3
<1> QED
  BY <1>4, <1>5

(* The numbers w on S, and the function f that sums them over the subsets.  *)
Numbers(w, S) == IsFiniteSet(S) /\ w \in [S -> Nat]
SumsOf(f, w, S) == Numbers(w, S) /\ f \in [SUBSET S -> Nat] /\ Adds(f, w, SUBSET S)

LEMMA FirstIn == \A s : s # {} => First(s) \in s
BY DEF First

LEMMA SumExists ==
    ASSUME NEW S, IsFiniteSet(S), NEW w \in [S -> Nat]
    PROVE  \E f \in [SUBSET S -> Nat] : Adds(f, w, SUBSET S)
<1> DEFINE Has(D) == \E f \in [D -> Nat] : Adds(f, w, D)
<1>0. \A s \in SUBSET S : IsFiniteSet(s) /\ Cardinality(s) \in Nat
  BY FS_Subset, FS_CardinalityType
<1>1. Has(Upto(S, 0))
  <2>1. Upto(S, 0) = {{}}
    BY <1>0, FS_EmptySet DEF Upto
  <2>2. Adds([s \in {{}} |-> 0], w, {{}})
    BY DEF Adds
  <2> QED
    <3>1. [s \in {{}} |-> 0] \in [{{}} -> Nat]
      OBVIOUS
    <3> QED
      BY <2>1, <2>2, <3>1
<1>2. ASSUME NEW n \in Nat, Has(Upto(S, n)) PROVE Has(Upto(S, n + 1))
  <2>1. PICK f \in [Upto(S, n) -> Nat] : Adds(f, w, Upto(S, n))
    BY <1>2
  <2> DEFINE g == [s \in Upto(S, n + 1) |-> IF s = {} THEN 0 ELSE w[First(s)] + f[s \ {First(s)}]]
  <2>2. ASSUME NEW s \in Upto(S, n + 1), s # {}
        PROVE  s \ {First(s)} \in Upto(S, n) /\ s \ {First(s)} \in Upto(S, n + 1) /\ First(s) \in S
    <3>1. First(s) \in s /\ s \in SUBSET S
      BY <2>2, FirstIn DEF Upto
    <3>2. /\ Cardinality(s \ {First(s)}) = Cardinality(s) - 1 /\ Cardinality(s) \in Nat
          /\ Cardinality(s) <= n + 1
      BY <3>1, <1>0, FS_RemoveElement DEF Upto
    <3> QED
      BY <3>1, <3>2 DEF Upto
  <2>3. g \in [Upto(S, n + 1) -> Nat]
    BY <2>2
  <2>4. ASSUME NEW s \in Upto(S, n) PROVE f[s] = g[s]
    <3>1. s \in Upto(S, n + 1)
      BY <1>0 DEF Upto
    <3> QED
      BY <3>1, <2>1 DEF Adds
  <2>5. Adds(g, w, Upto(S, n + 1))
    BY <2>2, <2>4 DEF Adds
  <2> QED
    BY <2>3, <2>5
<1>3. \A n \in Nat : Has(Upto(S, n))
  <2> HIDE DEF Has
  <2> DEFINE N == {n \in Nat : ~Has(Upto(S, n))}
  <2>1. SUFFICES ASSUME N # {} PROVE FALSE
    OBVIOUS
  <2>2. PICK n \in N : \A m \in N : n <= m
    BY <2>1, SmallestOf
  <2>3. n # 0 /\ n \in Nat /\ n - 1 \in Nat /\ (n - 1) + 1 = n
    BY <1>1
  <2>4. Has(Upto(S, n - 1))
    BY <2>2, <2>3
  <2> QED
    BY <2>3, <2>4, <1>2
<1>4. Upto(S, Cardinality(S)) = SUBSET S /\ Cardinality(S) \in Nat
  BY <1>0, FS_Subset DEF Upto
<1> QED
  BY <1>3, <1>4

LEMMA SumType ==
    ASSUME NEW S, IsFiniteSet(S), NEW w \in [S -> Nat], NEW f, Adds(f, w, SUBSET S)
    PROVE  f \in [SUBSET S -> Nat]
<1> DEFINE T == {s \in SUBSET S : f[s] \in Nat}
<1>1. {} \in T
  BY DEF Adds
<1>2. ASSUME NEW s \in SUBSET S, s # {}, \A x \in s : s \ {x} \in T
      PROVE  s \in T
  <2>1. First(s) \in s
    BY <1>2, FirstIn
  <2>2. f[s] = w[First(s)] + f[s \ {First(s)}]
    BY <1>2 DEF Adds
  <2>3. w[First(s)] \in Nat /\ f[s \ {First(s)}] \in Nat
    BY <1>2, <2>1
  <2> QED
    BY <2>2, <2>3
<1>3. SUBSET S \subseteq T
  <2> HIDE DEF T
  <2> QED
    BY <1>1, <1>2, Induction
<1> QED
  BY <1>3 DEF Adds

(* The order does not matter. *)
Splits(f, w, S) == \A s \in SUBSET S : \A x \in s : f[s] = w[x] + f[s \ {x}]

LEMMA SumSplit ==
    ASSUME NEW S, NEW w, NEW f, SumsOf(f, w, S)
    PROVE  Splits(f, w, S)
<1>0. IsFiniteSet(S) /\ w \in [S -> Nat] /\ f \in [SUBSET S -> Nat] /\ Adds(f, w, SUBSET S)
  BY DEF SumsOf, Numbers
<1> DEFINE T == {s \in SUBSET S : \A x \in s : f[s] = w[x] + f[s \ {x}]}
<1>1. {} \in T
  OBVIOUS
<1>2. ASSUME NEW s \in SUBSET S, s # {}, \A x \in s : s \ {x} \in T
      PROVE  s \in T
  <2> DEFINE y == First(s)
  <2>1. y \in s /\ f[s] = w[y] + f[s \ {y}]
    BY <1>0, <1>2, FirstIn DEF Adds
  <2> HIDE DEF y
  <2>2. ASSUME NEW x \in s, x # y PROVE f[s] = w[x] + f[s \ {x}]
    <3>1. f[s \ {y}] = w[x] + f[(s \ {y}) \ {x}]
      BY <1>2, <2>1, <2>2
    <3>2. f[s \ {x}] = w[y] + f[(s \ {x}) \ {y}]
      BY <1>2, <2>1, <2>2
    <3>3. (s \ {x}) \ {y} = (s \ {y}) \ {x}
      OBVIOUS
    <3>4. w[x] \in Nat /\ w[y] \in Nat /\ f[(s \ {y}) \ {x}] \in Nat
      BY <1>0, <2>1
    <3>5. f[s] = w[y] + (w[x] + f[(s \ {y}) \ {x}])
      BY <2>1, <3>1
    <3>6. f[s \ {x}] = w[y] + f[(s \ {y}) \ {x}]
      BY <3>2, <3>3
    <3> HIDE DEF T
    <3>7. w[y] + (w[x] + f[(s \ {y}) \ {x}]) = w[x] + (w[y] + f[(s \ {y}) \ {x}])
      BY <3>4
    <3> QED
      BY <3>5, <3>6, <3>7
  <2> QED
    BY <2>1, <2>2
<1>3. SUBSET S \subseteq T
  <2> HIDE DEF T
  <2> QED
    BY <1>0, <1>1, <1>2, Induction
<1> QED
  BY <1>3 DEF Splits

(* Sums of the same numbers are the same. *)
Agree(f, w, g, v, S) == \A s \in SUBSET S : (\A x \in s : v[x] = w[x]) => f[s] = g[s]

LEMMA SumSame ==
    ASSUME NEW S, NEW w, NEW f, NEW v, NEW g, SumsOf(f, w, S), SumsOf(g, v, S)
    PROVE  Agree(f, w, g, v, S)
<1>0. /\ IsFiniteSet(S) /\ w \in [S -> Nat] /\ v \in [S -> Nat]
      /\ f \in [SUBSET S -> Nat] /\ Adds(f, w, SUBSET S)
      /\ g \in [SUBSET S -> Nat] /\ Adds(g, v, SUBSET S)
  BY DEF SumsOf, Numbers
<1> DEFINE T == {s \in SUBSET S : (\A x \in s : v[x] = w[x]) => f[s] = g[s]}
<1>1. {} \in T
  BY <1>0 DEF Adds
<1>2. ASSUME NEW s \in SUBSET S, s # {}, \A x \in s : s \ {x} \in T
      PROVE  s \in T
  <2>1. First(s) \in s
    BY <1>2, FirstIn
  <2>2. f[s] = w[First(s)] + f[s \ {First(s)}] /\ g[s] = v[First(s)] + g[s \ {First(s)}]
    BY <1>0, <1>2 DEF Adds
  <2> QED
    BY <1>2, <2>1, <2>2
<1>3. SUBSET S \subseteq T
  <2> HIDE DEF T
  <2> QED
    BY <1>0, <1>1, <1>2, Induction
<1> QED
  BY <1>3 DEF Agree

-----------------------------------------------------------------------------
(* The price of an order is the sum over the consos of the configuration.  *)
Cost(c) == [i \in DOMAIN Price |-> c[i] * Price[i]]

LEMMA PriceIsSum ==
    ASSUME NEW c \in [Ids -> Nat]
    PROVE  \E f : SumsOf(f, Cost(c), DOMAIN Price) /\ getPrice(c) = f[DOMAIN Price]
<1> DEFINE D == DOMAIN Price
<1>1. IsFiniteSet(D) /\ Cost(c) \in [D -> Nat]
  BY BarAssumption DEF Cost, Ids
<1>2. PICK g \in [SUBSET D -> Nat] : Adds(g, Cost(c), SUBSET D)
  BY <1>1, SumExists
<1>3. getPrice(c) = (CHOOSE f : Adds(f, Cost(c), SUBSET D))[D]
  BY DEF getPrice, MapThenSumSet, MapThenFoldSet, Adds, First, Cost
<1>4. PICK f : Adds(f, Cost(c), SUBSET D) /\ getPrice(c) = f[D]
  BY <1>2, <1>3
<1>5. f \in [SUBSET D -> Nat]
  <2> HIDE DEF D
  <2> QED
    BY <1>1, <1>4, SumType
<1> QED
  BY <1>1, <1>4, <1>5 DEF SumsOf, Numbers

LEMMA PriceType == \A c \in [Ids -> Nat] : getPrice(c) \in Nat
BY PriceIsSum DEF SumsOf

LEMMA PriceOfNone == getPrice(NoOrder) = 0
<1> DEFINE D == DOMAIN Price
           z == [s \in SUBSET D |-> 0]
<1>1. NoOrder \in [Ids -> Nat] /\ IsFiniteSet(D)
  BY BarAssumption DEF NoOrder
<1>2. Cost(NoOrder) = [i \in D |-> 0] /\ Cost(NoOrder) \in [D -> Nat]
  BY BarAssumption DEF Cost, NoOrder, Ids
<1>3. PICK f : SumsOf(f, Cost(NoOrder), D) /\ getPrice(NoOrder) = f[D]
  BY <1>1, PriceIsSum
<1>4. SumsOf(z, Cost(NoOrder), D)
  BY <1>1, <1>2, FirstIn DEF Adds, SumsOf, Numbers
<1> HIDE DEF D, z
<1>5. Agree(f, Cost(NoOrder), z, Cost(NoOrder), D)
  BY <1>3, <1>4, SumSame
<1> QED
  BY <1>3, <1>5 DEF z, D, Agree

(* What a row takes out of the order. *)
LEMMA PriceOfRow ==
    ASSUME NEW c \in [Ids -> Nat], NEW i \in DOMAIN Price
    PROVE  /\ c[i] * Price[i] \in Nat
           /\ getPrice(c) = c[i] * Price[i] + getPrice([c EXCEPT ![i] = 0])
<1> DEFINE D == DOMAIN Price
           d == [c EXCEPT ![i] = 0]
<1>1. d \in [Ids -> Nat] /\ Cost(c) \in [D -> Nat]
  BY BarAssumption DEF Cost, Ids
<1>2. /\ Cost(c)[i] = c[i] * Price[i] /\ Cost(d)[i] = 0
      /\ \A j \in D \ {i} : Cost(d)[j] = Cost(c)[j]
  BY BarAssumption DEF Cost, Ids
<1>3. PICK f : SumsOf(f, Cost(c), D) /\ getPrice(c) = f[D]
  BY PriceIsSum
<1>4. PICK g : SumsOf(g, Cost(d), D) /\ getPrice(d) = g[D]
  BY <1>1, PriceIsSum
<1> HIDE DEF D, d
<1>5. i \in D /\ D \in SUBSET D /\ D \ {i} \in SUBSET D
  BY DEF D
<1>6. f[D] = Cost(c)[i] + f[D \ {i}] /\ g[D] = Cost(d)[i] + g[D \ {i}]
  <2>1. Splits(f, Cost(c), D) /\ Splits(g, Cost(d), D)
    BY <1>3, <1>4, SumSplit
  <2> QED
    BY <1>5, <2>1 DEF Splits
<1>7. f[D \ {i}] = g[D \ {i}]
  <2>1. Agree(f, Cost(c), g, Cost(d), D)
    BY <1>3, <1>4, SumSame
  <2> QED
    BY <1>2, <1>5, <2>1 DEF Agree
<1>8. f[D \ {i}] \in Nat /\ g[D \ {i}] \in Nat /\ Cost(c)[i] \in Nat
  BY <1>1, <1>3, <1>4, <1>5 DEF SumsOf
<1>9. getPrice(c) = Cost(c)[i] + getPrice(d)
  BY <1>2, <1>3, <1>4, <1>6, <1>7, <1>8
<1> QED
  BY <1>2, <1>8, <1>9 DEF d

-----------------------------------------------------------------------------
(* What the money needs: a credit that is about to be written back was read *)
(* from the card and not from a copy left blank.                           *)
Copied ==
    pc \in {"process", "ticket", "price"} =>
        1 \notin dirty /\ (image.amt # 0 => image.amt = mem[card].amt)

Money ==
    /\ conso \in [Ids -> Nat] /\ sent \in [Tags -> Nat]
    /\ image.amt \in Int /\ \A t \in Tags : mem[t].amt \in Int

Cash == Money /\ Copied /\ Ledger

LEMMA AmountType == \A t \in Tags : InitCard[t].amt \in Int
BY BarAssumption DEF Card

LEMMA InitCash == Init => Cash
<1> SUFFICES ASSUME Init PROVE Cash
    OBVIOUS
<1>1. Money
    BY AmountType DEF Init, Money, NoOrder, Unread
<1>2. Copied
    BY DEF Init, Copied
<1>3. Ledger
    BY AmountType DEF Init, Ledger, Pending
<1> QED  BY <1>1, <1>2, <1>3 DEF Cash

(* Nothing is paid: the cards, the copy and the rows stay. *)
LEMMA NothingPaid ==
    ASSUME Cash, UNCHANGED <<mem, copy, accounts>>, pc # "rows", pc' # "rows", conso' \in [Ids -> Nat],
           pc' \in {"process", "ticket", "price"} => pc \in {"process", "ticket", "price"}
    PROVE  Cash'
<1>1. UNCHANGED <<mem, card, image, dirty, sent, unpaid, cut>>
    BY DEF copy, accounts
<1>2. Money'
    BY <1>1 DEF Cash, Money
<1>3. Copied'
    BY <1>1 DEF Cash, Copied
<1>4. Ledger'
    BY <1>1 DEF Cash, Ledger, Pending
<1> QED  BY <1>2, <1>3, <1>4 DEF Cash

(* A new copy, or none. *)
LEMMA NewCopy ==
    ASSUME Cash, UNCHANGED <<mem, sent, unpaid, cut>>, pc # "rows", pc' \in {"top", "read"},
           conso' \in [Ids -> Nat], image' = Unread
    PROVE  Cash'
<1>1. Money'
    BY DEF Cash, Money, Unread
<1>2. Copied'
    BY DEF Copied
<1>3. Ledger'
    BY DEF Cash, Ledger, Pending
<1> QED  BY <1>1, <1>2, <1>3 DEF Cash

LEMMA ReadCash == ASSUME Inv, Cash, NEW R \in SUBSET Blocks, Read(R) PROVE Cash'
<1>1. /\ pc = "read" /\ pc' = "process" /\ card \in Tags /\ card' = card /\ dirty' = {}
      /\ mem' = mem /\ UNCHANGED <<sent, unpaid, cut>> /\ conso' = conso
    BY DEF Read, history, accounts, sale, Inv, Domains, Logged
<1>2. image'.amt \in {0, mem[card].amt}
    BY DEF Read, Unread
<1>3. Money'
    BY <1>1, <1>2 DEF Cash, Money
<1>4. Copied'
    BY <1>1, <1>2 DEF Copied
<1>5. Ledger'
    BY <1>1 DEF Cash, Ledger, Pending
<1> QED  BY <1>3, <1>4, <1>5 DEF Cash

LEMMA UseTicketCash == Inv /\ Cash /\ UseTicket => Cash'
<1> SUFFICES ASSUME Inv, Cash, UseTicket PROVE Cash'
    OBVIOUS
<1>1. pc = "process" /\ pc' \in {"top", "ticket"} /\ UNCHANGED <<mem, card, image, dirty, sent, unpaid, cut>>
    BY DEF UseTicket, Processing, copy
<1>2. conso' \in [Ids -> Nat]
    <2>1. conso[image.tid] > 0 /\ conso' \in {conso, [conso EXCEPT ![image.tid] = conso[image.tid] - 1]}
        BY DEF UseTicket, TicketFits
    <2> QED  BY <2>1 DEF Cash, Money
<1>3. Money' /\ Copied'
    BY <1>1, <1>2 DEF Cash, Money, Copied
<1>4. Ledger'
    BY <1>1 DEF Cash, Ledger, Pending
<1> QED  BY <1>3, <1>4 DEF Cash

LEMMA TicketCash == ASSUME Inv, Cash, NEW L \in SUBSET Blocks, decrementTicket(L) PROVE Cash'
<1>1. /\ pc = "ticket" /\ pc' = "price" /\ card \in Tags /\ card' = card /\ spent' = spent /\ WriteCard(L)
      /\ image.cnt \in Nat /\ image.cnt > 0 /\ Allows(image.cnt - 1) /\ conso' = conso
      /\ UNCHANGED <<sent, unpaid, cut>>
    BY DEF decrementTicket, history, accounts, sale, Inv, Domains, Logged
<1>2. image' = [image EXCEPT !.cnt = image.cnt - 1]
    BY <1>1 DEF decrementTicket
<1>3. image'.cnt = image.cnt - 1 /\ image'.amt = image.amt
    BY <1>2 DEF Inv, Domains
<1>4. image'.cnt \in Nat /\ Allows(image'.cnt)
    BY <1>1, <1>3
<1>5. dirty' = {2} /\ 1 \notin L
    BY <1>1 DEF decrementTicket, WriteCard, Inv, Logged
<1>6. \A t \in Tags : mem'[t].amt = mem[t].amt
    BY <1>1, <1>4, <1>5, Written
<1>7. Money'
    BY <1>1, <1>3, <1>6 DEF Cash, Money
<1>8. Copied'
    BY <1>1, <1>3, <1>5, <1>6 DEF Cash, Copied
<1>9. Ledger'
    BY <1>1, <1>6 DEF Cash, Ledger, Pending
<1> QED  BY <1>7, <1>8, <1>9 DEF Cash

(* A debit lands, or the card is one whose rows are more than it paid:      *)
(* either way what is pending is the price of the order.                   *)
LEMMA CreditCash == ASSUME Inv, Cash, NEW L \in SUBSET Blocks, decrementCredit(L) PROVE Cash'
<1> DEFINE p == getPrice(conso)
<1>1. /\ pc = "price" /\ pc' = "rows" /\ card \in Tags /\ card' = card /\ spent' = spent /\ conso' = conso
      /\ UNCHANGED <<sent, cut>>
      /\ unpaid' = IF 1 \in L \/ p = 0 THEN unpaid ELSE unpaid \cup {card}
      /\ p \in Nat /\ Pending = 0 /\ Pending' = p
    BY PriceType DEF decrementCredit, Paid, sale, Pending, Inv, Domains, Cash, Money
<1> HIDE DEF p
<1>2. image'.amt \in Int /\ \A t \in Tags : mem'[t].amt = IF t = card /\ 1 \in L THEN mem[t].amt - p ELSE mem[t].amt
    <2>1. CASE image.amt = 0
        BY <2>1 DEF decrementCredit, Cash, Money
    <2>2. CASE image.amt # 0
        <3>1. WriteCard(L) /\ dirty' = dirty \cup {1} /\ image' = [image EXCEPT !.amt = image.amt - p]
            BY <2>2 DEF decrementCredit, p
        <3>2. image'.amt = image.amt - p /\ image'.cnt = image.cnt
            BY <3>1 DEF Inv, Domains
        <3>3. 2 \in L => image'.cnt \in Nat /\ Allows(image'.cnt)
            BY <1>1, <3>1, <3>2 DEF WriteCard, Inv, Domains, Logged
        <3>4. \A t \in Tags : mem'[t].amt = IF t = card /\ 1 \in L THEN image'.amt ELSE mem[t].amt
            BY <1>1, <3>1, <3>3, Written
        <3>5. image.amt = mem[card].amt
            BY <1>1, <2>2 DEF Cash, Copied
        <3> QED  BY <1>1, <3>2, <3>4, <3>5 DEF Cash, Money
    <2> QED  BY <2>1, <2>2
<1>3. Money'
    BY <1>1, <1>2 DEF Cash, Money
<1>4. Copied'
    BY <1>1 DEF Copied
<1>5. ASSUME NEW t \in Tags
      PROVE  /\ t \notin cut' => InitCard[t].amt - mem'[t].amt <= sent'[t] + IF card' = t THEN Pending' ELSE 0
             /\ t \notin unpaid' => sent'[t] + (IF card' = t THEN Pending' ELSE 0) <= InitCard[t].amt - mem'[t].amt
    <2>1. /\ InitCard[t].amt \in Int /\ mem[t].amt \in Int /\ sent[t] \in Nat
          /\ t \notin cut => InitCard[t].amt - mem[t].amt <= sent[t]
          /\ t \notin unpaid => sent[t] <= InitCard[t].amt - mem[t].amt
        BY <1>1, AmountType DEF Cash, Money, Ledger
    <2>2. CASE t = card /\ 1 \in L
        BY <1>1, <1>2, <2>1, <2>2
    <2>3. CASE t = card /\ 1 \notin L
        BY <1>1, <1>2, <2>1, <2>3
    <2>4. CASE t # card
        BY <1>1, <1>2, <2>1, <2>4
    <2> QED  BY <2>2, <2>3, <2>4
<1>6. Ledger'
    BY <1>5 DEF Ledger
<1> QED  BY <1>3, <1>4, <1>6 DEF Cash

(* A row that is sent is no longer pending. *)
LEMMA RowCash == ASSUME Inv, Cash, NEW i \in DOMAIN Price, sendHistory(i) PROVE Cash'
<1> DEFINE w == conso[i] * Price[i]
<1>1. /\ pc = "rows" /\ pc' = "rows" /\ card \in Tags /\ UNCHANGED <<card, mem, image, dirty, unpaid, cut>>
      /\ conso' = [conso EXCEPT ![i] = 0] /\ sent' = [sent EXCEPT ![card] = sent[card] + w]
    BY DEF sendHistory, copy, Inv, Domains
<1>2. /\ conso \in [Ids -> Nat] /\ conso' \in [Ids -> Nat]
      /\ w \in Nat /\ Pending = w + Pending' /\ Pending \in Nat /\ Pending' \in Nat
    <2>1. conso \in [Ids -> Nat] /\ conso' \in [Ids -> Nat]
        BY <1>1 DEF Cash, Money
    <2>2. Pending = getPrice(conso) /\ Pending' = getPrice(conso')
        BY <1>1 DEF Pending
    <2>3. getPrice(conso) = w + getPrice(conso') /\ w \in Nat
        BY <1>1, <2>1, PriceOfRow
    <2>4. getPrice(conso) \in Nat /\ getPrice(conso') \in Nat
        BY <2>1, PriceType
    <2> QED  BY <2>1, <2>2, <2>3, <2>4
<1> HIDE DEF w
<1>3. /\ sent' \in [Tags -> Nat]
      /\ \A t \in Tags : sent'[t] = IF t = card THEN sent[t] + w ELSE sent[t]
    BY <1>1, <1>2 DEF Cash, Money
<1>4. Money'
    BY <1>1, <1>2, <1>3 DEF Cash, Money
<1>5. Copied'
    BY <1>1 DEF Copied
<1>6. \A t \in Tags : sent'[t] + (IF card' = t THEN Pending' ELSE 0) = sent[t] + (IF card = t THEN Pending ELSE 0)
    BY <1>1, <1>2, <1>3 DEF Cash, Money
<1>7. Ledger'
    BY <1>1, <1>6 DEF Cash, Ledger
<1> QED  BY <1>4, <1>5, <1>7 DEF Cash

LEMMA RowsSentCash == Inv /\ Cash /\ RowsSent => Cash'
<1> SUFFICES ASSUME Inv, Cash, RowsSent PROVE Cash'
    OBVIOUS
<1>1. /\ pc = "rows" /\ pc' = "settled" /\ UNCHANGED <<card, mem, image, dirty, conso, sent, unpaid, cut>>
      /\ Pending = 0 /\ Pending' = 0
    BY PriceOfNone DEF RowsSent, copy, sale, history, accounts, Pending
<1>2. Money' /\ Copied'
    BY <1>1 DEF Cash, Money, Copied
<1>3. Ledger'
    BY <1>1 DEF Cash, Ledger
<1> QED  BY <1>2, <1>3 DEF Cash

(* A power cut forgets the copy, the order and the rows that were pending. *)
LEMMA PowerCutCash == Inv /\ Cash /\ PowerCut => Cash'
<1> SUFFICES ASSUME Inv, Cash, PowerCut PROVE Cash'
    OBVIOUS
<1>1. /\ pc' = "top" /\ conso' = NoOrder /\ image' = Unread /\ UNCHANGED <<mem, sent, unpaid>>
      /\ NoOrder \in [Ids -> Nat] /\ cut' = IF Pending > 0 THEN cut \cup {card} ELSE cut
    BY DEF PowerCut, Fresh0, NoOrder
<1>2. Pending \in Nat /\ Pending' = 0
    BY <1>1, PriceType DEF Pending, Cash, Money
<1>3. Money' /\ Copied'
    BY <1>1 DEF Cash, Money, Copied, Unread
<1>4. ASSUME NEW t \in Tags
      PROVE  /\ t \notin cut' => InitCard[t].amt - mem'[t].amt <= sent'[t]
             /\ t \notin unpaid' => sent'[t] <= InitCard[t].amt - mem'[t].amt
    <2>1. InitCard[t].amt \in Int /\ mem[t].amt \in Int /\ sent[t] \in Nat
        BY AmountType DEF Cash, Money
    <2>2. /\ t \notin cut => InitCard[t].amt - mem[t].amt <= sent[t] + IF card = t THEN Pending ELSE 0
          /\ t \notin unpaid => sent[t] + (IF card = t THEN Pending ELSE 0) <= InitCard[t].amt - mem[t].amt
        BY DEF Cash, Ledger
    <2>3. CASE card = t /\ Pending > 0
        BY <1>1, <1>2, <2>1, <2>2, <2>3
    <2>4. CASE card # t \/ Pending = 0
        BY <1>1, <1>2, <2>1, <2>2, <2>4
    <2> QED  BY <1>2, <2>3, <2>4
<1>5. \A t \in Tags : sent'[t] + (IF card' = t THEN Pending' ELSE 0) = sent'[t]
    BY <1>2, <1>3 DEF Money
<1>6. Ledger'
    BY <1>4, <1>5 DEF Ledger
<1> QED  BY <1>3, <1>6 DEF Cash

LEMMA NextCash == Inv /\ Cash /\ [Next]_vars => Cash'
<1> SUFFICES ASSUME Inv, Cash, [Next]_vars PROVE Cash'
    OBVIOUS
<1>0. conso \in [Ids -> Nat] /\ NoOrder \in [Ids -> Nat]
    BY DEF Cash, Money, NoOrder
<1>1. ASSUME NEW key \in BOOLEAN, Check(key) PROVE Cash'
    BY <1>0, <1>1, NothingPaid DEF Check, sale, history
<1>2. CASE PollPresent \/ FindThrows \/ OtherCard \/ PriceThrows \/ Refuse \/ NoTicket
    BY <1>0, <1>2, NothingPaid DEF PollPresent, FindThrows, Finding, OtherCard, PriceThrows, Refuse, NoTicket,
                              Processing, sale, history
<1>3. CASE PollMiss \/ ReadThrows \/ Clear
    BY <1>0, <1>3, NothingPaid DEF PollMiss, ReadThrows, Clear, Cancel, sale, history
<1>4. CASE FindCard \/ FindNothing \/ AdminCard
    BY <1>0, <1>4, NewCopy DEF FindCard, FindNothing, AdminCard, Finding, Processing, Fresh0, sale, history, accounts
<1>5. CASE ConsoCard
    <2>1. conso' = [conso EXCEPT ![image.amt] = conso[image.amt] + 1]
        BY <1>5 DEF ConsoCard
    <2>2. conso' \in [Ids -> Nat]
        <3>1. ASSUME NEW i \in Ids PROVE conso'[i] \in Nat
            <4>1. CASE i = image.amt
                BY <1>0, <2>1, <4>1
            <4>2. CASE i # image.amt
                BY <1>0, <2>1, <4>2
            <4> QED  BY <4>1, <4>2
        <3>2. conso' = [i \in Ids |-> conso'[i]]
            BY <1>0, <2>1
        <3> QED  BY <3>1, <3>2
    <2> QED  BY <1>5, <2>2, NothingPaid DEF ConsoCard, Processing, accounts
<1>6. CASE Remove \/ Tick \/ (\E t \in Tags : Place(t)) \/ UNCHANGED vars
    <2>1. UNCHANGED <<card, mem, image, dirty, conso, sent, unpaid, cut, pc>>
        BY <1>6 DEF Remove, Tick, Place, vars, copy, sale, history, accounts
    <2>2. Money' /\ Copied'
        BY <2>1 DEF Cash, Money, Copied
    <2>3. Pending' = Pending
        BY <2>1 DEF Pending
    <2>4. Ledger'
        BY <2>1, <2>3 DEF Cash, Ledger
    <2> QED  BY <2>2, <2>4 DEF Cash
<1> QED  BY <1>1, <1>2, <1>3, <1>4, <1>5, <1>6, ReadCash, UseTicketCash, TicketCash, CreditCash, RowCash,
           RowsSentCash, PowerCutCash DEF Next, Run

(* Money leaves a card without a row only by a power cut between the debit *)
(* and its rows, and a row is sent without money only for a debit that was *)
(* not written, whatever is read, written or lifted (bar.cpp:142-172).     *)
THEOREM BarLedger == Spec => []Ledger
<1>1. Cash => Ledger
    BY DEF Cash
<1> QED  BY InitInv, NextInv, InitCash, NextCash, <1>1, PTL DEF Spec

-----------------------------------------------------------------------------
(* A tag that was found since it was put down is the card that was found,  *)
(* and the poll has not missed it; whoever is about to count one has found  *)
(* it with a fresh tag.                                                    *)
Told ==
    /\ fresh \in BOOLEAN /\ due \in BOOLEAN
    /\ ~fresh /\ field # NoTag => field = card /\ pc # "find"
    /\ pc \in {"read", "process"} => due

LEMMA InitTold == Init => Told
BY DEF Init, Told

LEMMA NextTold == Inv /\ Told /\ [Next]_vars => Told'
<1> SUFFICES ASSUME Inv, Told, [Next]_vars PROVE Told'
    OBVIOUS
<1>1. ASSUME NEW key \in BOOLEAN, Check(key) PROVE Told'
    BY <1>1 DEF Check, Told, copy, history
<1>2. ASSUME NEW R \in SUBSET Blocks, Read(R) PROVE Told'
    BY <1>2 DEF Read, Told, history
<1>3. ASSUME NEW L \in SUBSET Blocks, decrementTicket(L) \/ decrementCredit(L) PROVE Told'
    BY <1>3 DEF decrementTicket, decrementCredit, Told, history
<1>4. ASSUME NEW i \in DOMAIN Price, sendHistory(i) PROVE Told'
    BY <1>4 DEF sendHistory, Told, copy
<1>5. CASE PollMiss
    BY <1>5 DEF PollMiss, Told, copy
<1>6. CASE FindCard
    <2>1. fresh
        BY <1>6, BarAssumption DEF FindCard, Finding, Told
    <2> QED  BY <1>6, <2>1 DEF FindCard, Told
<1>7. CASE FindNothing
    BY <1>7 DEF FindNothing, Finding, Told, history
<1>8. CASE PollPresent \/ FindThrows \/ ReadThrows \/ OtherCard \/ ConsoCard
    BY <1>8 DEF PollPresent, FindThrows, ReadThrows, OtherCard, ConsoCard, Told, copy, history
<1>9. CASE AdminCard \/ PowerCut
    BY <1>9 DEF AdminCard, PowerCut, Fresh0, Told
<1>10. CASE UseTicket \/ NoTicket \/ PriceThrows \/ Refuse \/ RowsSent \/ Clear
    BY <1>10 DEF UseTicket, NoTicket, PriceThrows, Refuse, RowsSent, Clear, Told, copy, history
<1>11. CASE Remove \/ Tick \/ \E t \in Tags : Place(t)
    BY <1>11 DEF Remove, Tick, Place, Told, copy, history
<1>12. CASE UNCHANGED vars
    BY <1>12 DEF Told, vars, copy, history
<1> QED  BY <1>1, <1>2, <1>3, <1>4, <1>5, <1>6, <1>7, <1>8, <1>9, <1>10, <1>11, <1>12 DEF Next, Run

(* Only a CONSO card makes an order grow. *)
LEMMA OnlyConso == Cash /\ [Next]_vars /\ Counted => ConsoCard
<1> SUFFICES ASSUME Cash, [Next]_vars, NEW k \in Ids, conso'[k] > conso[k], ~ConsoCard PROVE FALSE
    BY DEF Counted
<1>1. conso \in [Ids -> Nat] /\ NoOrder \in [Ids -> Nat] /\ NoOrder[k] = 0 /\ conso[k] \in Nat
    BY DEF Cash, Money, NoOrder
<1>2. conso' # conso /\ conso' # NoOrder
    BY <1>1
<1>3. UseTicket \/ \E i \in DOMAIN Price : sendHistory(i)
    BY <1>2 DEF Next, Run, Check, PollPresent, PollMiss, Cancel, FindCard, FindNothing, FindThrows, Read,
                ReadThrows, AdminCard, Fresh0, OtherCard, NoTicket, decrementTicket, decrementCredit,
                PriceThrows, Refuse, RowsSent, Clear, Remove, Tick, PowerCut, Place, sale, vars
<1>4. CASE UseTicket
    <2>1. conso' = [conso EXCEPT ![image.tid] = conso[image.tid] - 1]
        BY <1>2, <1>4 DEF UseTicket
    <2> QED  BY <1>1, <2>1
<1>5. ASSUME NEW i \in DOMAIN Price, sendHistory(i) PROVE FALSE
    BY <1>1, <1>5 DEF sendHistory
<1> QED  BY <1>3, <1>4, <1>5

(* A CONSO card laid down once is ordered once (bar.cpp:87,99). *)
THEOREM BarCountsOnce == Spec => CountedOnce
<1>1. Told /\ ConsoCard => due
    BY DEF Told, ConsoCard, Processing
<1>2. Cash /\ Told /\ [Next]_vars => [Counted => due]_vars
    BY <1>1, OnlyConso
<1> QED  BY InitInv, NextInv, InitCash, NextCash, InitTold, NextTold, <1>2, PTL DEF Spec, CountedOnce
=============================================================================
