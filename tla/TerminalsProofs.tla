--------------------------- MODULE TerminalsProofs ---------------------------
(***************************************************************************)
(* For any cards, amounts, consos, databases and rows: the program around  *)
(* the modes, the menu of the administrator, the trailer of a sector, the  *)
(* till and the counter that share the cards of one evening, and the       *)
(* tables the rows of the modes end up in.                                 *)
(***************************************************************************)
EXTENDS MCTerminals, Sequences, TLAPS

(* The parts do not know of each other. *)
LEMMA InitParts == MCInit => Init /\ M!Init /\ A!Init /\ S!Init /\ H!Init
BY DEF MCInit

LEMMA NextParts ==
    [MCNext]_<<part, vars, menu, program, trailer, rows>> =>
        [Next]_vars /\ [M!Next]_(M!vars) /\ [A!Next]_(A!vars) /\ [S!Next]_(S!vars)
        /\ [H!Next]_(H!vars)
BY DEF MCNext, menu, program, trailer, rows, H!vars, M!vars, M!world, M!object, M!history, A!vars, S!vars

-----------------------------------------------------------------------------
(* The program. *)

(* The object of each step of the constructor is there once it is passed,  *)
(* and only the constructor can come to a mode create_mode does not know.  *)
Built ==
    /\ at \in A!Boot \cup {"wait"} => obj = "none" /\ heap["printer"] = "live"
    /\ at \in {"sql", "nfc"} => heap["config"] = "live"
    /\ at \in A!Running => obj # "none"
    /\ at \in A!Running \cup {"create"} /\ obj # "none" => mode \in A!Modes /\ home \in A!Modes

(* Where the way home is kept at each point of run(). *)
WayHome ==
    /\ at \in {"sql", "nfc", "loop", "mode"} => mode = home
    /\ at \in {"loop", "mode"} /\ obj \in A!Desk => obj = home
    /\ at \in {"mode", "create"} /\ obj \in A!Desk => tmp = home
    /\ at \in {"mode", "create"} /\ obj = "ADMIN" /\ mode = "ADMIN" => tmp = home
    /\ at = "create" => mode = IF obj \in A!Desk THEN "ADMIN" ELSE home
    /\ at = "restore" => obj = mode /\ IF mode = "ADMIN" THEN tmp = home ELSE mode = home

ProgramInv == A!TypeOK /\ A!NoDangling /\ Built /\ WayHome

LEMMA ProgramInit == A!Init => ProgramInv
BY TerminalsAssumption
   DEF A!Init, ProgramInv, A!TypeOK, A!NoDangling, Built, WayHome,
       A!Desk, A!Modes, A!Objects, A!Boot, A!Running

LEMMA ProgramStep == ProgramInv /\ [A!Next]_(A!vars) => ProgramInv'
<1> SUFFICES ASSUME ProgramInv, [A!Next]_(A!vars) PROVE ProgramInv'
  OBVIOUS
<1> USE TerminalsAssumption
    DEF ProgramInv, A!TypeOK, A!NoDangling, Built, WayHome,
        A!Desk, A!Modes, A!Objects, A!Boot, A!Running
<1>1. CASE UNCHANGED A!vars BY <1>1 DEF A!vars
<1>2. CASE A!NewConfig BY <1>2 DEF A!NewConfig
<1>3. CASE A!ConfigThrows BY <1>3 DEF A!ConfigThrows
<1>4. CASE A!Connect BY <1>4 DEF A!Connect
<1>5. CASE A!Connected BY <1>5 DEF A!Connected
<1>6. CASE A!NewNfc BY <1>6 DEF A!NewNfc
<1>7. CASE A!NfcThrows BY <1>7 DEF A!NfcThrows
<1>8. CASE A!CleanAndThrow
  <2>1. obj = "none" /\ at' = "dead" /\ heap' \in [A!Objects -> {"null", "live", "freed"}]
    BY <1>8 DEF A!CleanAndThrow, A!clean
  <2> QED BY <1>8, <2>1 DEF A!CleanAndThrow
<1>9. CASE A!CreateMode
  <2>1. CASE obj \in A!Desk BY <1>9, <2>1 DEF A!CreateMode
  <2>2. CASE obj = "ADMIN" BY <1>9, <2>2 DEF A!CreateMode
  <2>3. CASE obj = "none" BY <1>9, <2>3 DEF A!CreateMode
  <2> QED BY <2>1, <2>2, <2>3
<1>10. CASE A!ModeNotRecognized BY <1>10 DEF A!ModeNotRecognized
<1>11. CASE A!SaveMode BY <1>11 DEF A!SaveMode
<1>12. CASE A!AdminCard BY <1>12 DEF A!AdminCard
<1>13. CASE A!LeaveAdmin BY <1>13 DEF A!LeaveAdmin
<1>14. CASE A!AdminThrows BY <1>14 DEF A!AdminThrows
<1>15. CASE A!RestoreMode
  <2>1. CASE mode = "ADMIN" BY <1>15, <2>1 DEF A!RestoreMode
  <2>2. CASE mode # "ADMIN" BY <1>15, <2>2 DEF A!RestoreMode
  <2> QED BY <2>1, <2>2
<1>16. CASE A!QuitProgram
  <2>1. at' = "dead" /\ heap' \in [A!Objects -> {"null", "live", "freed"}]
    BY <1>16 DEF A!QuitProgram, A!clean
  <2> QED BY <1>16, <2>1 DEF A!QuitProgram
<1>17. ASSUME NEW m \in A!Desk, A!ChooseMode(m) PROVE ProgramInv'
  BY <1>17 DEF A!ChooseMode
<1> QED
  BY <1>1, <1>2, <1>3, <1>4, <1>5, <1>6, <1>7, <1>8, <1>9, <1>10, <1>11, <1>12,
     <1>13, <1>14, <1>15, <1>16, <1>17 DEF A!Next

LEMMA ProgramAlways == MCSpec => []ProgramInv
BY InitParts, NextParts, ProgramInit, ProgramStep, PTL DEF MCSpec

(* Every variable of the program keeps its domain. *)
THEOREM ApplicationType == MCSpec => []A!TypeOK
BY ProgramAlways, PTL DEF ProgramInv

(* Printer, Config and NfcDevice are alive wherever a mode can run, and    *)
(* clean() never meets an object it freed before.                          *)
THEOREM NeverDangling == MCSpec => []NoDangling
BY ProgramAlways, PTL DEF ProgramInv, NoDangling

(* Whenever a mode runs, Config holds the desk to return to. *)
THEOREM HomeAlwaysKept == MCSpec => []A!HomeKept
<1>1. ProgramInv => A!HomeKept
  BY DEF ProgramInv, WayHome, A!HomeKept, A!Desk
<1> QED
  BY <1>1, ProgramAlways, PTL

Replaced == obj # "none" /\ obj' # obj => obj' = IF obj = "ADMIN" THEN home ELSE "ADMIN"

LEMMA ReplacedStep == ProgramInv /\ [A!Next]_(A!vars) => Replaced
<1> SUFFICES ASSUME ProgramInv, [A!Next]_(A!vars), obj # "none", obj' # obj
             PROVE  obj' = IF obj = "ADMIN" THEN home ELSE "ADMIN"
  BY DEF Replaced
<1>1. A!CreateMode
  BY DEF A!Next, A!vars, A!NewConfig, A!ConfigThrows, A!Connect, A!Connected, A!NewNfc, A!NfcThrows,
         A!CleanAndThrow, A!ModeNotRecognized, A!SaveMode, A!AdminCard, A!LeaveAdmin,
         A!AdminThrows, A!RestoreMode, A!QuitProgram, A!ChooseMode
<1> QED
  BY <1>1 DEF A!CreateMode, ProgramInv, A!TypeOK, WayHome, A!Desk, A!Modes

(* The admin menu is the only way from desk to desk, and it leads to the   *)
(* desk chosen in it, or back to the one it was entered from.              *)
THEOREM AlwaysReturnsHome == MCSpec => ReturnsHome
<1>1. ProgramInv /\ [A!Next]_(A!vars) => [Replaced]_(A!vars)
  BY ReplacedStep
<1> QED
  BY <1>1, NextParts, ProgramAlways, PTL DEF MCSpec, ReturnsHome, A!ReturnsHome, Replaced
-----------------------------------------------------------------------------
(* The menu. *)

Supported == MenuTags \ MenuUnsupported
Values == M!Kinds \cup {"BLANK"} \cup Int \cup {c[b] : c \in Content, b \in M!Blocks}

MenuType ==
    /\ field \in MenuTags \cup {NoTag} /\ cards \in [Supported -> [M!Blocks -> Values]]
    /\ image \in [M!Blocks -> Values] /\ made \in [Supported -> [M!Blocks -> Values]]
    /\ broken \in BOOLEAN /\ id \in Int /\ asked \in M!Kinds

(* Between the choice and the end of the creation the card laid down is on *)
(* the reader unless it was lifted.  Unless it was, it holds at first what *)
(* the account of it says, and at the ticket prompt the blocks, all        *)
(* MODIFIED, are those the menu asked for.                                 *)
Laid ==
    /\ pc \in {"create", "ticket"} => card \in Supported /\ (~broken => field = card)
    /\ pc = "create" /\ ~broken => cards[card] = made[card]
    /\ pc = "ticket" => modified = M!Blocks /\ (~broken => made[card] = image)

MenuInv == MenuType /\ Laid /\ M!AsAsked

LEMMA MenuInit == M!Init => MenuInv
<1> SUFFICES ASSUME M!Init PROVE MenuInv
  OBVIOUS
<1>1. \A c \in Content : c \in [M!Blocks -> Values]
  BY TerminalsAssumption DEF Values
<1>2. M!Nothing \in [M!Blocks -> Values]
  BY DEF M!Nothing, M!Blocks, Values
<1>3. cards \in [Supported -> [M!Blocks -> Values]] /\ made = cards
  BY <1>1 DEF M!Init, Supported
<1>4. image \in [M!Blocks -> Values] /\ field \in MenuTags \cup {NoTag}
  BY <1>2 DEF M!Init
<1>5. broken \in BOOLEAN
  BY Zenon DEF M!Init
<1>6. id \in Int /\ asked \in M!Kinds
  BY DEF M!Init, M!Kinds
<1>7. MenuType
  BY <1>3, <1>4, <1>5, <1>6 DEF MenuType
<1> QED
  BY <1>3, <1>7 DEF M!Init, MenuInv, Laid, M!AsAsked

(* What a write leaves on the card, and in the account of it: it says of   *)
(* the blocks written again what they are, and the card holds the others.  *)
LEMMA WriteFacts ==
    ASSUME MenuInv, pc \in {"create", "ticket"}, NEW c \in [M!Blocks -> Values],
           NEW W \in SUBSET M!Blocks, NEW P \in SUBSET W, NEW L \in SUBSET M!Blocks,
           M!writeCard(c, P, W, L), 0 \in W,
           ~broken => \A b \in W \ P : made[card][b] = c[b],
           ~broken => \A b \in M!Blocks \ W : made[card][b] = cards[card][b]
    PROVE  /\ cards' \in [Supported -> [M!Blocks -> Values]]
           /\ made' \in [Supported -> [M!Blocks -> Values]]
           /\ \A b \in P : made'[card][b] = c[b]
           /\ M!AsAsked'
<1>1. /\ card \in Supported
      /\ cards \in [Supported -> [M!Blocks -> Values]] /\ made \in [Supported -> [M!Blocks -> Values]]
  BY DEF MenuInv, MenuType, Laid
<1> DEFINE x == [b \in M!Blocks |-> IF b \in L THEN c[b] ELSE cards[card][b]]
           y == [b \in M!Blocks |-> IF b \in P THEN c[b] ELSE made[card][b]]
<1>2. /\ cards' = [cards EXCEPT ![card] = x] /\ made' = [made EXCEPT ![card] = y]
      /\ lost' \in {lost \cup {card}} \cup (IF L = W THEN {lost \ {card}} ELSE {})
      /\ broken => 0 \notin L
  BY DEF M!writeCard, M!Account, M!Lands
<1>3. x \in [M!Blocks -> Values] /\ y \in [M!Blocks -> Values]
  BY <1>1
<1>4. ~broken /\ L = W => x = y
  <2>1. SUFFICES ASSUME ~broken, L = W, NEW b \in M!Blocks PROVE x[b] = y[b]
    OBVIOUS
  <2> QED
    BY <2>1
<1> HIDE DEF x, y
<1>5. /\ cards' \in [Supported -> [M!Blocks -> Values]] /\ cards'[card] = x
      /\ \A t \in Supported : t # card => cards'[t] = cards[t]
  BY <1>1, <1>2, <1>3
<1>6. /\ made' \in [Supported -> [M!Blocks -> Values]] /\ made'[card] = y
      /\ \A t \in Supported : t # card => made'[t] = made[t]
  BY <1>1, <1>2, <1>3
<1>7. M!AsAsked'
  <2>1. SUFFICES ASSUME NEW t \in Supported, t \notin lost' PROVE cards'[t] = made'[t]
    BY DEF M!AsAsked, Supported
  <2>2. CASE t = card
    <3>1. L = W /\ ~broken
      BY <1>2, <2>1, <2>2
    <3> QED
      BY <3>1, <1>4, <1>5, <1>6, <2>2
  <2>3. CASE t # card
    <3>1. t \notin lost
      BY <1>2, <2>1, <2>3
    <3> QED
      BY <3>1, <1>5, <1>6, <2>3 DEF MenuInv, M!AsAsked, Supported
  <2> QED
    BY <2>2, <2>3
<1> QED
  BY <1>5, <1>6, <1>7 DEF y

(* The menu takes the Card, and what was chosen, with it. *)
LEMMA MenuTurn ==
    ASSUME NEW p \in {"menu", "cards", "crashed"}, M!Menu(p), UNCHANGED field,
           cards' \in [Supported -> [M!Blocks -> Values]],
           made' \in [Supported -> [M!Blocks -> Values]], broken' \in BOOLEAN,
           MenuInv
    PROVE  MenuType' /\ Laid'
BY DEF M!Menu, MenuInv, MenuType, Laid, M!Kinds, M!Nothing, Values, M!Blocks

LEMMA MenuChoices ==
    ASSUME MenuInv,
           \/ M!EnterCardMenu \/ M!LeaveCardMenu \/ M!LayThrows \/ M!LayFails \/ M!NoTicket
           \/ \E k \in M!Kinds : M!Choose(k)
           \/ \E n \in -1 .. NbConso + 1 : M!ChooseConso(n) \/ M!WrongConso(n)
    PROVE  MenuInv'
<1>1. /\ UNCHANGED <<field, cards, broken, made, lost>>
      /\ \/ M!Menu("menu") \/ M!Menu("cards") \/ M!Menu("crashed")
         \/ /\ UNCHANGED image /\ pc' \in {"conso", "lay"}
            /\ asked' \in M!Kinds \cup {asked} /\ id' \in Int
  BY TerminalsAssumption
     DEF M!EnterCardMenu, M!LeaveCardMenu, M!LayThrows, M!LayFails, M!NoTicket, M!Choose,
         M!ChooseConso, M!WrongConso, M!world, M!object, M!history
<1>2. M!AsAsked'
  BY <1>1 DEF MenuInv, M!AsAsked
<1>3. CASE M!Menu("menu") \/ M!Menu("cards") \/ M!Menu("crashed")
  BY <1>1, <1>2, <1>3, MenuTurn DEF MenuInv, MenuType
<1>4. CASE UNCHANGED image /\ pc' \in {"conso", "lay"} /\ asked' \in M!Kinds \cup {asked} /\ id' \in Int
  BY <1>1, <1>2, <1>4 DEF MenuInv, MenuType, Laid
<1> QED
  BY <1>1, <1>3, <1>4

(* The account of a card that is laid down starts from what it holds. *)
LEMMA MenuLay ==
    ASSUME MenuInv, M!LayCard
    PROVE  MenuInv'
<1>1. /\ field \in Supported /\ card' = field /\ image' = M!Nothing /\ broken' = FALSE
      /\ made' = [made EXCEPT ![field] = cards[field]] /\ pc' = "create"
      /\ UNCHANGED <<field, cards, asked, id, lost>>
  BY DEF M!LayCard, M!world, Supported
<1>2. M!Nothing \in [M!Blocks -> Values]
  BY DEF M!Nothing, M!Blocks, Values
<1>3. /\ made' \in [Supported -> [M!Blocks -> Values]] /\ made'[field] = cards[field]
      /\ \A t \in Supported : t # field => made'[t] = made[t]
  BY <1>1 DEF MenuInv, MenuType
<1>4. MenuType' /\ Laid'
  BY <1>1, <1>2, <1>3 DEF MenuInv, MenuType, Laid
<1>5. M!AsAsked'
  BY <1>1, <1>3 DEF MenuInv, M!AsAsked, Supported
<1> QED
  BY <1>4, <1>5 DEF MenuInv

LEMMA MenuWorld ==
    ASSUME MenuInv,
           \/ M!Remove
           \/ \E t \in MenuTags : M!Place(t)
           \/ \E t \in Supported, v \in MenuCredits : M!Elsewhere(t, v)
    PROVE  MenuInv'
<1>1. CASE M!Remove \/ \E t \in MenuTags : M!Place(t)
  <2>1. /\ field' \in MenuTags \cup {NoTag}
        /\ UNCHANGED <<cards, card, image, modified, asked, id, pc, made, lost>>
        /\ \/ broken' = TRUE
           \/ field = NoTag /\ broken' = broken
    BY <1>1 DEF M!Remove, M!Place, M!object, M!history
  <2>2. MenuType' /\ M!AsAsked'
    BY <2>1 DEF MenuInv, MenuType, M!AsAsked
  <2>3. Laid'
    BY <2>1, TerminalsAssumption DEF MenuInv, MenuType, Laid, Supported
  <2> QED
    BY <2>2, <2>3 DEF MenuInv
<1>2. ASSUME NEW t \in Supported, NEW v \in MenuCredits, M!Elsewhere(t, v)
      PROVE  MenuInv'
  <2>1. /\ field # t /\ cards' = [cards EXCEPT ![t][1] = v] /\ made' = [made EXCEPT ![t][1] = v]
        /\ UNCHANGED <<field, card, image, modified, broken, asked, id, pc, lost>>
    BY <1>2 DEF M!Elsewhere, M!object
  <2>2. v \in Values /\ 1 \in M!Blocks
    BY TerminalsAssumption DEF Values, M!Blocks
  <2>3. /\ cards' \in [Supported -> [M!Blocks -> Values]]
        /\ \A s \in Supported : s # t => cards'[s] = cards[s]
        /\ cards'[t] = [cards[t] EXCEPT ![1] = v]
    BY <2>1, <2>2 DEF MenuInv, MenuType
  <2>4. /\ made' \in [Supported -> [M!Blocks -> Values]]
        /\ \A s \in Supported : s # t => made'[s] = made[s]
        /\ made'[t] = [made[t] EXCEPT ![1] = v]
    BY <2>1, <2>2 DEF MenuInv, MenuType
  <2>5. MenuType'
    BY <2>1, <2>3, <2>4 DEF MenuInv, MenuType
  <2>6. Laid'
    BY <2>1, <2>3, <2>4 DEF MenuInv, MenuType, Laid
  <2>7. M!AsAsked'
    BY <2>1, <2>3, <2>4 DEF MenuInv, M!AsAsked, Supported
  <2> QED
    BY <2>5, <2>6, <2>7 DEF MenuInv
<1> QED
  BY <1>1, <1>2

LEMMA MenuCreate ==
    ASSUME MenuInv, M!Create
    PROVE  MenuInv'
<1>0. /\ 0 \in M!Blocks /\ 1 \in M!Blocks /\ 2 \in M!Blocks /\ id \in Values
      /\ image \in [M!Blocks -> Values]
      /\ \A k \in M!Kinds : k \in Values
  BY DEF M!Blocks, MenuInv, MenuType, Values
<1>1. pc = "create" /\ ~broken => \A b \in M!Blocks : made[card][b] = cards[card][b]
  BY DEF MenuInv, Laid
<1>2. ASSUME NEW L \in SUBSET M!Blocks, M!createKind(L) PROVE MenuInv'
  <2> DEFINE c == [image EXCEPT ![0] = asked]
  <2>1. c \in [M!Blocks -> Values]
    BY <1>0 DEF MenuInv, MenuType
  <2>2. M!writeCard(c, {0}, {0}, L) /\ pc = "create" /\ M!Menu("cards") /\ UNCHANGED <<field, broken>>
    BY <1>2 DEF M!createKind
  <2> HIDE DEF c
  <2>3. /\ cards' \in [Supported -> [M!Blocks -> Values]]
        /\ made' \in [Supported -> [M!Blocks -> Values]] /\ M!AsAsked'
    <3>1. /\ {0} \in SUBSET M!Blocks /\ {0} \in SUBSET {0} /\ 0 \in {0}
          /\ pc \in {"create", "ticket"}
          /\ ~broken => \A b \in {0} \ {0} : made[card][b] = c[b]
          /\ ~broken => \A b \in M!Blocks \ {0} : made[card][b] = cards[card][b]
      BY <1>0, <1>1, <2>2
    <3> QED
      BY <2>1, <2>2, <3>1, WriteFacts
  <2> QED
    BY <2>2, <2>3, MenuTurn DEF MenuInv, MenuType
<1>3. ASSUME NEW L \in SUBSET M!Blocks, M!createConso(L) PROVE MenuInv'
  <2> DEFINE c == [image EXCEPT ![0] = "CONSO", ![1] = id]
  <2>1. c \in [M!Blocks -> Values]
    BY <1>0 DEF M!Kinds
  <2>2. M!writeCard(c, {0, 1}, {0, 1}, L)
        /\ pc = "create" /\ M!Menu("cards") /\ UNCHANGED <<field, broken>>
    BY <1>3 DEF M!createConso
  <2> HIDE DEF c
  <2>3. /\ cards' \in [Supported -> [M!Blocks -> Values]]
        /\ made' \in [Supported -> [M!Blocks -> Values]] /\ M!AsAsked'
    <3>1. /\ {0, 1} \in SUBSET M!Blocks /\ {0, 1} \in SUBSET {0, 1} /\ 0 \in {0, 1}
          /\ pc \in {"create", "ticket"}
          /\ ~broken => \A b \in {0, 1} \ {0, 1} : made[card][b] = c[b]
          /\ ~broken => \A b \in M!Blocks \ {0, 1} : made[card][b] = cards[card][b]
      BY <1>0, <1>1, <2>2
    <3> QED
      BY <2>1, <2>2, <3>1, WriteFacts
  <2> QED
    BY <2>2, <2>3, MenuTurn DEF MenuInv, MenuType
<1>4. ASSUME NEW L \in SUBSET M!Blocks, M!createDebit(L) PROVE MenuInv'
  <2> DEFINE c == [image EXCEPT ![0] = "DEBIT", ![1] = 0, ![2] = 0]
  <2>1. /\ pc = "create" /\ image' = c
        /\ modified' = M!Blocks /\ M!writeCard(c, M!Blocks, M!Blocks, L)
        /\ broken' \in IF field = card THEN {broken, FALSE} ELSE {broken}
        /\ pc' = "ticket" /\ UNCHANGED <<field, card, asked, id>>
    BY <1>4 DEF M!createDebit, M!Reselect
  <2>2. c \in [M!Blocks -> Values]
    BY <1>0 DEF M!Kinds, Values
  <2> HIDE DEF c
  <2>3. /\ cards' \in [Supported -> [M!Blocks -> Values]]
        /\ made' \in [Supported -> [M!Blocks -> Values]] /\ M!AsAsked'
        /\ \A b \in M!Blocks : made'[card][b] = c[b]
    <3>1. /\ M!Blocks \in SUBSET M!Blocks
          /\ ~broken => \A b \in M!Blocks \ M!Blocks : made[card][b] = c[b]
          /\ ~broken => \A b \in M!Blocks \ M!Blocks : made[card][b] = cards[card][b]
          /\ pc \in {"create", "ticket"} /\ 0 \in M!Blocks
      BY <1>0, <2>1
    <3>2. M!writeCard(c, M!Blocks, M!Blocks, L)
      BY <2>1
    <3> QED
      BY <2>2, <3>1, <3>2, WriteFacts
  <2>4. made'[card] = c
    <3>1. made'[card] \in [M!Blocks -> Values]
      BY <2>1, <2>3 DEF MenuInv, Laid
    <3> QED
      BY <2>2, <2>3, <3>1
  <2>5. MenuType' /\ Laid'
    BY <2>1, <2>2, <2>3, <2>4 DEF MenuInv, MenuType, Laid
  <2> QED
    BY <2>3, <2>5 DEF MenuInv
<1>5. ASSUME NEW L \in SUBSET M!Blocks, M!setTicket(L) PROVE MenuInv'
  <2> DEFINE c == [image EXCEPT ![2] = 1 + (TicketIndex % 256)]
  <2>1. c \in [M!Blocks -> Values] /\ \A b \in M!Blocks \ {2} : c[b] = image[b]
    <3>1. 1 + (TicketIndex % 256) \in Values
      BY TerminalsAssumption DEF Values
    <3> QED
      BY <1>0, <3>1
  <2>2. M!writeCard(c, {2}, modified \cup {2}, L)
        /\ pc = "ticket" /\ M!Menu("cards") /\ UNCHANGED <<field, broken>>
    BY <1>5 DEF M!setTicket
  <2> HIDE DEF c
  <2>3. modified \cup {2} = M!Blocks /\ (~broken => made[card] = image)
    BY <2>2, <1>0 DEF MenuInv, Laid
  <2>4. /\ ~broken => \A b \in M!Blocks \ {2} : made[card][b] = c[b]
        /\ ~broken => \A b \in M!Blocks \ M!Blocks : made[card][b] = cards[card][b]
    BY <2>1, <2>3
  <2>5. /\ cards' \in [Supported -> [M!Blocks -> Values]]
        /\ made' \in [Supported -> [M!Blocks -> Values]] /\ M!AsAsked'
    BY <1>0, <2>1, <2>2, <2>3, <2>4, WriteFacts
  <2> QED
    BY <2>2, <2>5, MenuTurn DEF MenuInv, MenuType
<1> QED
  BY <1>2, <1>3, <1>4, <1>5 DEF M!Create

LEMMA MenuStep == MenuInv /\ [M!Next]_(M!vars) => MenuInv'
<1> SUFFICES ASSUME MenuInv, [M!Next]_(M!vars) PROVE MenuInv'
  OBVIOUS
<1>1. CASE UNCHANGED M!vars
  BY <1>1 DEF M!vars, M!world, M!object, M!history, MenuInv, MenuType, Laid, M!AsAsked
<1> QED
  BY <1>1, MenuChoices, MenuLay, MenuWorld, MenuCreate DEF M!Next, Supported

LEMMA MenuAlways == MCSpec => []MenuInv
BY InitParts, NextParts, MenuInit, MenuStep, PTL DEF MCSpec

(* No torn creation goes unreported, and neither a ticket set late nor a   *)
(* card swapped in costs anything: a card no error was printed about when  *)
(* it was last written holds what the menu said, and the credit it was     *)
(* given since (admin.cpp:12-50,103-118, mode.cpp:101-115).                *)
THEOREM MenuAsAsked == MCSpec => []AsAsked
BY MenuAlways, PTL DEF MenuInv, AsAsked

-----------------------------------------------------------------------------
(* The trailer of a sector. *)

(* z has the bit b of the byte y set to v, and its other bits as they were. *)
Flipped(y, b, v, z) ==
    z \in 0..255 /\ \A c \in 0..7 : S!Bit(z, c) = IF c = b THEN v ELSE S!Bit(y, c)

LEMMA SetBit ==
    ASSUME NEW y \in 0..255, NEW b \in 0..7, NEW v \in {0, 1}
    PROVE  Flipped(y, b, v, S!Set(y, b, v))
<1>1. CASE b = 0
  <2>1. S!Set(y, 0, v) \in 0..255 /\ S!Bit(S!Set(y, 0, v), 0) = v
    BY DEF S!Set, S!Bit
  <2>2. /\ S!Bit(S!Set(y, 0, v), 1) = S!Bit(y, 1) /\ S!Bit(S!Set(y, 0, v), 2) = S!Bit(y, 2)
        /\ S!Bit(S!Set(y, 0, v), 3) = S!Bit(y, 3) /\ S!Bit(S!Set(y, 0, v), 4) = S!Bit(y, 4)
        /\ S!Bit(S!Set(y, 0, v), 5) = S!Bit(y, 5) /\ S!Bit(S!Set(y, 0, v), 6) = S!Bit(y, 6)
        /\ S!Bit(S!Set(y, 0, v), 7) = S!Bit(y, 7)
    BY SMTT(30) DEF S!Set, S!Bit
  <2> QED
    BY <1>1, <2>1, <2>2 DEF Flipped
<1>2. CASE b = 1
  <2>1. S!Set(y, 1, v) \in 0..255 /\ S!Bit(S!Set(y, 1, v), 1) = v
    BY DEF S!Set, S!Bit
  <2>2. /\ S!Bit(S!Set(y, 1, v), 0) = S!Bit(y, 0) /\ S!Bit(S!Set(y, 1, v), 2) = S!Bit(y, 2)
        /\ S!Bit(S!Set(y, 1, v), 3) = S!Bit(y, 3) /\ S!Bit(S!Set(y, 1, v), 4) = S!Bit(y, 4)
        /\ S!Bit(S!Set(y, 1, v), 5) = S!Bit(y, 5) /\ S!Bit(S!Set(y, 1, v), 6) = S!Bit(y, 6)
        /\ S!Bit(S!Set(y, 1, v), 7) = S!Bit(y, 7)
    BY SMTT(30) DEF S!Set, S!Bit
  <2> QED
    BY <1>2, <2>1, <2>2 DEF Flipped
<1>3. CASE b = 2
  <2>1. S!Set(y, 2, v) \in 0..255 /\ S!Bit(S!Set(y, 2, v), 2) = v
    BY DEF S!Set, S!Bit
  <2>2. /\ S!Bit(S!Set(y, 2, v), 0) = S!Bit(y, 0) /\ S!Bit(S!Set(y, 2, v), 1) = S!Bit(y, 1)
        /\ S!Bit(S!Set(y, 2, v), 3) = S!Bit(y, 3) /\ S!Bit(S!Set(y, 2, v), 4) = S!Bit(y, 4)
        /\ S!Bit(S!Set(y, 2, v), 5) = S!Bit(y, 5) /\ S!Bit(S!Set(y, 2, v), 6) = S!Bit(y, 6)
        /\ S!Bit(S!Set(y, 2, v), 7) = S!Bit(y, 7)
    BY SMTT(30) DEF S!Set, S!Bit
  <2> QED
    BY <1>3, <2>1, <2>2 DEF Flipped
<1>4. CASE b = 3
  <2>1. S!Set(y, 3, v) \in 0..255 /\ S!Bit(S!Set(y, 3, v), 3) = v
    BY DEF S!Set, S!Bit
  <2>2. /\ S!Bit(S!Set(y, 3, v), 0) = S!Bit(y, 0) /\ S!Bit(S!Set(y, 3, v), 1) = S!Bit(y, 1)
        /\ S!Bit(S!Set(y, 3, v), 2) = S!Bit(y, 2) /\ S!Bit(S!Set(y, 3, v), 4) = S!Bit(y, 4)
        /\ S!Bit(S!Set(y, 3, v), 5) = S!Bit(y, 5) /\ S!Bit(S!Set(y, 3, v), 6) = S!Bit(y, 6)
        /\ S!Bit(S!Set(y, 3, v), 7) = S!Bit(y, 7)
    BY SMTT(30) DEF S!Set, S!Bit
  <2> QED
    BY <1>4, <2>1, <2>2 DEF Flipped
<1>5. CASE b = 4
  <2>1. S!Set(y, 4, v) \in 0..255 /\ S!Bit(S!Set(y, 4, v), 4) = v
    BY DEF S!Set, S!Bit
  <2>2. /\ S!Bit(S!Set(y, 4, v), 0) = S!Bit(y, 0) /\ S!Bit(S!Set(y, 4, v), 1) = S!Bit(y, 1)
        /\ S!Bit(S!Set(y, 4, v), 2) = S!Bit(y, 2) /\ S!Bit(S!Set(y, 4, v), 3) = S!Bit(y, 3)
        /\ S!Bit(S!Set(y, 4, v), 5) = S!Bit(y, 5) /\ S!Bit(S!Set(y, 4, v), 6) = S!Bit(y, 6)
        /\ S!Bit(S!Set(y, 4, v), 7) = S!Bit(y, 7)
    BY SMTT(30) DEF S!Set, S!Bit
  <2> QED
    BY <1>5, <2>1, <2>2 DEF Flipped
<1>6. CASE b = 5
  <2>1. S!Set(y, 5, v) \in 0..255 /\ S!Bit(S!Set(y, 5, v), 5) = v
    BY DEF S!Set, S!Bit
  <2>2. /\ S!Bit(S!Set(y, 5, v), 0) = S!Bit(y, 0) /\ S!Bit(S!Set(y, 5, v), 1) = S!Bit(y, 1)
        /\ S!Bit(S!Set(y, 5, v), 2) = S!Bit(y, 2) /\ S!Bit(S!Set(y, 5, v), 3) = S!Bit(y, 3)
        /\ S!Bit(S!Set(y, 5, v), 4) = S!Bit(y, 4) /\ S!Bit(S!Set(y, 5, v), 6) = S!Bit(y, 6)
        /\ S!Bit(S!Set(y, 5, v), 7) = S!Bit(y, 7)
    BY SMTT(30) DEF S!Set, S!Bit
  <2> QED
    BY <1>6, <2>1, <2>2 DEF Flipped
<1>7. CASE b = 6
  <2>1. S!Set(y, 6, v) \in 0..255 /\ S!Bit(S!Set(y, 6, v), 6) = v
    BY DEF S!Set, S!Bit
  <2>2. /\ S!Bit(S!Set(y, 6, v), 0) = S!Bit(y, 0) /\ S!Bit(S!Set(y, 6, v), 1) = S!Bit(y, 1)
        /\ S!Bit(S!Set(y, 6, v), 2) = S!Bit(y, 2) /\ S!Bit(S!Set(y, 6, v), 3) = S!Bit(y, 3)
        /\ S!Bit(S!Set(y, 6, v), 4) = S!Bit(y, 4) /\ S!Bit(S!Set(y, 6, v), 5) = S!Bit(y, 5)
        /\ S!Bit(S!Set(y, 6, v), 7) = S!Bit(y, 7)
    BY SMTT(30) DEF S!Set, S!Bit
  <2> QED
    BY <1>7, <2>1, <2>2 DEF Flipped
<1>8. CASE b = 7
  <2>1. S!Set(y, 7, v) \in 0..255 /\ S!Bit(S!Set(y, 7, v), 7) = v
    BY DEF S!Set, S!Bit
  <2>2. /\ S!Bit(S!Set(y, 7, v), 0) = S!Bit(y, 0) /\ S!Bit(S!Set(y, 7, v), 1) = S!Bit(y, 1)
        /\ S!Bit(S!Set(y, 7, v), 2) = S!Bit(y, 2) /\ S!Bit(S!Set(y, 7, v), 3) = S!Bit(y, 3)
        /\ S!Bit(S!Set(y, 7, v), 4) = S!Bit(y, 4) /\ S!Bit(S!Set(y, 7, v), 5) = S!Bit(y, 5)
        /\ S!Bit(S!Set(y, 7, v), 6) = S!Bit(y, 6)
    BY SMTT(30) DEF S!Set, S!Bit
  <2> QED
    BY <1>8, <2>1, <2>2 DEF Flipped
<1> QED
  BY <1>1, <1>2, <1>3, <1>4, <1>5, <1>6, <1>7, <1>8

LEMMA BitIsBit == \A code \in 0..7, n \in 1..3 : S!C(n, code) \in {0, 1}
BY DEF S!C, S!Bit

(* z has the bits g and g + 4 of the byte y set to v and w. *)
TwoSet(y, g, v, w, z) ==
    /\ z \in 0..255 /\ S!Bit(z, g) = v /\ S!Bit(z, g + 4) = w
    /\ \A h \in (0..3) \ {g} : S!Bit(z, h) = S!Bit(y, h) /\ S!Bit(z, h + 4) = S!Bit(y, h + 4)

LEMMA SetTwo ==
    ASSUME NEW y \in 0..255, NEW g \in 0..3, NEW v \in {0, 1}, NEW w \in {0, 1}
    PROVE  TwoSet(y, g, v, w, S!Set(S!Set(y, g, v), g + 4, w))
<1> DEFINE x == S!Set(y, g, v)
           z == S!Set(x, g + 4, w)
<1>1. Flipped(y, g, v, x)
  <2>1. g \in 0..7
    OBVIOUS
  <2> QED
    BY <2>1, SetBit
<1>2. g + 4 \in 0..7 /\ x \in 0..255
  BY <1>1 DEF Flipped
<1> HIDE DEF x
<1>3. Flipped(x, g + 4, w, z)
  BY <1>2, SetBit
<1> HIDE DEF z
<1>4. z \in 0..255 /\ S!Bit(z, g) = v /\ S!Bit(z, g + 4) = w
  BY <1>1, <1>2, <1>3 DEF Flipped
<1>5. ASSUME NEW h \in (0..3) \ {g}
      PROVE  S!Bit(z, h) = S!Bit(y, h) /\ S!Bit(z, h + 4) = S!Bit(y, h + 4)
  BY <1>1, <1>2, <1>3 DEF Flipped
<1> QED
  BY <1>4, <1>5 DEF x, z, TwoSet

(* The bytes of a trailer whose group g was given a code. *)
LEMMA GroupSet ==
    ASSUME NEW g \in 0..3, NEW code \in 0..7, bytes \in [0..15 -> 0..255], bytes' = S!With(code, g)
    PROVE  /\ bytes' \in [0..15 -> 0..255] /\ S!Reads(g, code)'
           /\ \A h \in (0..3) \ {g}, c \in 0..7 : S!Reads(h, c) => S!Reads(h, c)'
           /\ \A i \in (0..15) \ {6, 7, 8} : bytes'[i] = bytes[i]
<1> DEFINE c1 == S!C(1, code)
           c2 == S!C(2, code)
           c3 == S!C(3, code)
           x == S!Set(S!Set(bytes[6], g, 1 - c1), g + 4, 1 - c2)
           y == S!Set(S!Set(bytes[7], g, 1 - c3), g + 4, c1)
           z == S!Set(S!Set(bytes[8], g, c2), g + 4, c3)
<1>1. /\ c1 \in {0, 1} /\ c2 \in {0, 1} /\ c3 \in {0, 1}
      /\ 1 - c1 \in {0, 1} /\ 1 - c2 \in {0, 1} /\ 1 - c3 \in {0, 1}
      /\ bytes[6] \in 0..255 /\ bytes[7] \in 0..255 /\ bytes[8] \in 0..255
  BY BitIsBit
<1>2. bytes' = [bytes EXCEPT ![6] = x, ![7] = y, ![8] = z]
  BY DEF S!With
<1> HIDE DEF c1, c2, c3
<1>3. /\ TwoSet(bytes[6], g, 1 - c1, 1 - c2, x) /\ TwoSet(bytes[7], g, 1 - c3, c1, y)
      /\ TwoSet(bytes[8], g, c2, c3, z)
  <2>1. TwoSet(bytes[6], g, 1 - c1, 1 - c2, x)
    BY <1>1, SetTwo
  <2>2. TwoSet(bytes[7], g, 1 - c3, c1, y)
    BY <1>1, SetTwo
  <2>3. TwoSet(bytes[8], g, c2, c3, z)
    BY <1>1, SetTwo
  <2> QED
    BY <2>1, <2>2, <2>3
<1> HIDE DEF x, y, z
<1>4. /\ bytes'[6] = x /\ bytes'[7] = y /\ bytes'[8] = z /\ bytes' \in [0..15 -> 0..255]
      /\ \A i \in (0..15) \ {6, 7, 8} : bytes'[i] = bytes[i]
  BY <1>2, <1>3 DEF TwoSet
<1>5. S!Reads(g, code)'
  BY <1>3, <1>4 DEF TwoSet, S!Reads, c1, c2, c3
<1>6. ASSUME NEW h \in (0..3) \ {g}, NEW c \in 0..7, S!Reads(h, c) PROVE S!Reads(h, c)'
  BY <1>3, <1>4, <1>6 DEF TwoSet, S!Reads
<1> QED
  BY <1>4, <1>5, <1>6

TrailerInv ==
    /\ bytes \in [0..15 -> 0..255] /\ told \in [0..3 -> SUBSET (0..7)] /\ size \in Nat
    /\ keyA \in SectorKeys \cup {NoKey} /\ keyB \in SectorKeys \cup {NoKey}
    /\ S!TrailerSays

LEMMA TrailerInit == S!Init => TrailerInv
BY TerminalsAssumption
   DEF S!Init, S!Zeroed, S!Factory, TrailerInv, S!TrailerSays

(* A group of blocks is given a code. *)
LEMMA TrailerGroup ==
    ASSUME TrailerInv, NEW g \in 0..3, NEW code \in 0..7,
           bytes' = S!With(code, g), told' = [told EXCEPT ![g] = {code}],
           UNCHANGED <<size, m_key, m_keyB, keyA, keyB>>
    PROVE  TrailerInv'
<1>1. /\ bytes' \in [0..15 -> 0..255] /\ S!Reads(g, code)'
      /\ \A h \in (0..3) \ {g}, c \in 0..7 : S!Reads(h, c) => S!Reads(h, c)'
      /\ \A i \in (0..15) \ {6, 7, 8} : bytes'[i] = bytes[i]
  BY GroupSet DEF TrailerInv
<1>2. told' \in [0..3 -> SUBSET (0..7)] /\ told'[g] = {code} /\ \A h \in (0..3) \ {g} : told'[h] = told[h]
  BY DEF TrailerInv
<1>3. ASSUME NEW h \in 0..3, told'[h] # {} PROVE \E c \in told'[h] : S!Reads(h, c)'
  BY <1>1, <1>2, <1>3 DEF TrailerInv, S!TrailerSays
<1>4. /\ keyA' # NoKey => \A i \in 0..5 : bytes'[i] = keyA'[i]
      /\ keyB' # NoKey => \A i \in 0..5 : bytes'[10 + i] = keyB'[i]
  <2>1. \A i \in 0..5 : i \in (0..15) \ {6, 7, 8} /\ 10 + i \in (0..15) \ {6, 7, 8}
    OBVIOUS
  <2>2. \A i \in 0..5 : bytes'[i] = bytes[i] /\ bytes'[10 + i] = bytes[10 + i]
    BY <1>1, <2>1
  <2>3. /\ keyA # NoKey => \A i \in 0..5 : bytes[i] = keyA[i]
        /\ keyB # NoKey => \A i \in 0..5 : bytes[10 + i] = keyB[i]
    BY DEF TrailerInv, S!TrailerSays
  <2> QED
    BY <2>2, <2>3
<1> QED
  BY <1>1, <1>2, <1>3, <1>4 DEF TrailerInv, S!TrailerSays

(* The bits are in other bytes than the keys. *)
LEMMA ReadsSame ==
    ASSUME bytes'[6] = bytes[6], bytes'[7] = bytes[7], bytes'[8] = bytes[8], NEW g, NEW c
    PROVE  S!Reads(g, c)' = S!Reads(g, c)
BY DEF S!Reads

LEMMA TrailerKeys ==
    ASSUME TrailerInv, NEW key \in SectorKeys, S!setKeyA(key) \/ S!setKeyB(key)
    PROVE  TrailerInv'
<1>1. bytes' \in [0..15 -> 0..255] /\ \A i \in 6..9 : bytes'[i] = bytes[i]
  BY TerminalsAssumption DEF S!setKeyA, S!setKeyB, TrailerInv
<1>2. told' = told /\ size' = size /\ keyA' \in {keyA, key} /\ keyB' \in {keyB, key}
  BY DEF S!setKeyA, S!setKeyB
<1>3. \A g \in 0..3, c \in 0..7 : S!Reads(g, c) => S!Reads(g, c)'
  BY <1>1, ReadsSame
<1>4. /\ keyA' # NoKey => \A i \in 0..5 : bytes'[i] = keyA'[i]
      /\ keyB' # NoKey => \A i \in 0..5 : bytes'[10 + i] = keyB'[i]
  BY DEF S!setKeyA, S!setKeyB, TrailerInv, S!TrailerSays
<1>5. ASSUME NEW h \in 0..3, told'[h] # {} PROVE \E c \in told'[h] : S!Reads(h, c)'
  BY <1>2, <1>3, <1>5 DEF TrailerInv, S!TrailerSays
<1> QED
  BY <1>1, <1>2, <1>4, <1>5 DEF TrailerInv, S!TrailerSays

LEMMA TrailerStep == TrailerInv /\ [S!Next]_(S!vars) => TrailerInv'
<1> SUFFICES ASSUME TrailerInv, [S!Next]_(S!vars) PROVE TrailerInv'
  OBVIOUS
<1>1. \A block \in 0 .. size - 1 : S!Group(block) \in 0..3
  BY DEF S!Group, TrailerInv
<1>2. ASSUME NEW permissions \in S!Flags, NEW block \in 0 .. size, S!setPermissions(block, permissions)
      PROVE  TrailerInv'
  <2>1. block \in 0 .. size - 1
    BY <1>2 DEF S!setPermissions, S!Refused, TrailerInv
  <2>2. PICK code \in 0..7 : /\ S!Codes(block, permissions) = {code}
                             /\ bytes' = S!With(code, S!Group(block))
    BY <1>2 DEF S!setPermissions
  <2>3. /\ told' = [told EXCEPT ![S!Group(block)] = {code}]
        /\ UNCHANGED <<size, m_key, m_keyB, keyA, keyB>>
    BY <1>2, <2>2 DEF S!setPermissions
  <2> QED
    BY <1>1, <2>1, <2>2, <2>3, TrailerGroup
<1>3. ASSUME NEW block \in 0 .. size - 1, NEW code \in 0..7, S!SetBits(block, code)
      PROVE  TrailerInv'
  BY <1>1, <1>3, TrailerGroup DEF S!SetBits
<1>4. ASSUME UNCHANGED <<size, bytes, told, keyA, keyB>> PROVE TrailerInv'
  BY <1>4, ReadsSame DEF TrailerInv, S!TrailerSays
<1> QED
  BY <1>2, <1>3, <1>4, TrailerKeys DEF S!Next, S!vars, S!useKeyB, S!setAuthentificationKey

(* The trailer says what was last asked for each group, and holds both     *)
(* keys (sector.cpp:60-176), for every byte a key may hold.                *)
THEOREM TrailerTells == MCSpec => []TrailerSays
<1>1. TrailerInv => TrailerSays
  BY DEF TrailerInv, TrailerSays
<1> QED
  BY <1>1, InitParts, NextParts, TrailerInit, TrailerStep, PTL DEF MCSpec

-----------------------------------------------------------------------------
(* The event: the theorems about a terminal on its own hold of each of the *)
(* two, for what a step of it does to the cards.                           *)
TP == INSTANCE CaisseProofs WITH
    Top <- "poll", field <- tField, card <- tCard, image <- tImage,
    broken <- tBroken, credit <- tCredit, pc <- tPc

CP == INSTANCE KveProofs WITH
    Top <- "top", field <- kField, card <- kCard, image <- kImage,
    broken <- kBroken, credit <- kCredit, pc <- kPc

LEMMA SameAssumptions ==
    /\ TP!DeskAssumption /\ TP!CaisseAssumption
    /\ CP!DeskAssumption /\ CP!KveAssumption
<1>1. Till!Card = TP!Card /\ Till!Card = CP!Card
  BY DEF Till!Card, TP!Card, CP!Card, Till!Kinds, TP!Kinds, CP!Kinds
<1> QED
  BY <1>1, EventAssumption
     DEF TP!DeskAssumption, TP!CaisseAssumption, CP!DeskAssumption, CP!KveAssumption

LEMMA SameTill ==
    /\ Till!Run \/ Till!PowerCut <=> TP!Run \/ TP!PowerCut
    /\ Till!Remove <=> TP!Remove
    /\ \A t : Till!Pending(t) = TP!Pending(t) /\ (Till!Place(t) <=> TP!Place(t))
<1>1. Till!Blocks = TP!Blocks /\ Till!Unread = TP!Unread
  BY DEF Till!Blocks, TP!Blocks, Till!Unread, TP!Unread
<1>2. /\ Till!EndTurn <=> TP!EndTurn
      /\ Till!Leave <=> TP!Leave
      /\ \A t : Till!Suspect(t) <=> TP!Suspect(t)
      /\ Till!Finding <=> TP!Finding
      /\ \A k : Till!Processing(k) <=> TP!Processing(k)
      /\ \A t, v : Till!Owe(t, v) <=> TP!Owe(t, v)
      /\ \A F, L : Till!Lands(F, L) <=> TP!Lands(F, L)
      /\ \A t, c, L : Till!Written(t, c, L) <=> TP!Written(t, c, L)
      /\ \A t, L : Till!Created(t, L) <=> TP!Created(t, L)
  <2>1. Till!EndTurn <=> TP!EndTurn
    BY <1>1 DEF Till!EndTurn, TP!EndTurn
  <2>2. Till!Leave <=> TP!Leave
    BY <2>1 DEF Till!Leave, TP!Leave, Till!reader, TP!reader
  <2>3. (\A t : Till!Suspect(t) <=> TP!Suspect(t)) /\ (Till!Finding <=> TP!Finding)
    BY DEF Till!Suspect, TP!Suspect, Till!Finding, TP!Finding,
           Till!Cardinality, TP!Cardinality
  <2>4. \A k : Till!Processing(k) <=> TP!Processing(k)
    BY DEF Till!Processing, TP!Processing
  <2>5. \A t, v : Till!Owe(t, v) <=> TP!Owe(t, v)
    BY DEF Till!Owe, TP!Owe
  <2>6. \A F, L : Till!Lands(F, L) <=> TP!Lands(F, L)
    BY DEF Till!Lands, TP!Lands
  <2>7. \A t, c, L : Till!Written(t, c, L) <=> TP!Written(t, c, L)
    BY DEF Till!Written, TP!Written
  <2>8. \A t, L : Till!Created(t, L) <=> TP!Created(t, L)
    BY <1>1, <2>3, <2>7 DEF Till!Created, TP!Created
  <2> QED
    BY <2>1, <2>2, <2>3, <2>4, <2>5, <2>6, <2>7, <2>8
<1>3. \A v, L : Till!AddCredit(v, L) <=> TP!AddCredit(v, L)
  BY <1>2 DEF Till!AddCredit, TP!AddCredit
<1>4. Till!Loop <=> TP!Loop
  <2>1. \A R : Till!Read(R) <=> TP!Read(R)
    BY <1>1, <1>2 DEF Till!Read, TP!Read, Till!history, TP!history
  <2> QED
    BY <1>1, <1>2, <2>1 DEF Till!Loop, TP!Loop, Till!PollPresent, TP!PollPresent,
                Till!PollMiss, TP!PollMiss, Till!FindCard, TP!FindCard,
                Till!FindNothing, TP!FindNothing, Till!FindThrows,
                TP!FindThrows, Till!getFloat, TP!getFloat, Till!reader,
                TP!reader, Till!copy, TP!copy, Till!history, TP!history
<1>5. Till!ReadThrows <=> TP!ReadThrows
  BY <1>1, <1>2, <1>3 DEF Till!ReadThrows, TP!ReadThrows, Till!reader, TP!reader,
              Till!copy, TP!copy, Till!history, TP!history
<1>6. Till!AdminCard <=> TP!AdminCard
  BY <1>1, <1>2, <1>3 DEF Till!AdminCard, TP!AdminCard, Till!reader, TP!reader,
              Till!copy, TP!copy, Till!history, TP!history
<1>7. Till!OtherCard <=> TP!OtherCard
  BY <1>1, <1>2, <1>3 DEF Till!OtherCard, TP!OtherCard, Till!reader, TP!reader,
              Till!copy, TP!copy, Till!history, TP!history
<1>8. Till!Ask <=> TP!Ask
  BY <1>1, <1>2, <1>3 DEF Till!Ask, TP!Ask, Till!reader, TP!reader, Till!copy, TP!copy,
              Till!history, TP!history
<1>9. Till!TooMuch <=> TP!TooMuch
  BY <1>1, <1>2, <1>3 DEF Till!TooMuch, TP!TooMuch, Till!reader, TP!reader, Till!copy,
              TP!copy, Till!history, TP!history
<1>10. Till!sendHistory <=> TP!sendHistory
  BY <1>1, <1>2, <1>3 DEF Till!sendHistory, TP!sendHistory, Till!reader, TP!reader,
              Till!copy, TP!copy, Till!history, TP!history
<1>11. Till!PowerCut <=> TP!PowerCut
  BY <1>1, <1>2, <1>3 DEF Till!PowerCut, TP!PowerCut, Till!reader, TP!reader, Till!copy,
              TP!copy, Till!history, TP!history
<1>12. \A L : Till!createDebit(L) <=> TP!createDebit(L)
  BY <1>1, <1>2, <1>3 DEF Till!createDebit, TP!createDebit, Till!reader, TP!reader,
              Till!copy, TP!copy, Till!history, TP!history
<1>13. \A L : Till!incrementCredit(L) <=> TP!incrementCredit(L)
  BY <1>1, <1>2, <1>3 DEF Till!incrementCredit, TP!incrementCredit, Till!reader,
              TP!reader, Till!copy, TP!copy, Till!history, TP!history
<1> QED
  BY <1>1, <1>2, <1>3, <1>4, <1>5, <1>6, <1>7, <1>8, <1>9, <1>10, <1>11, <1>12, <1>13
     DEF Till!Run, TP!Run, Till!Pending, TP!Pending, Till!Place, TP!Place,
         Till!Remove, TP!Remove, Till!reader, TP!reader, Till!copy, TP!copy,
         Till!history, TP!history

LEMMA SameCounter ==
    /\ Counter!Run \/ Counter!Tick \/ Counter!PowerCut <=> CP!Run \/ CP!Tick \/ CP!PowerCut
    /\ Counter!Remove <=> CP!Remove
    /\ \A t : Counter!Pending(t) = CP!Pending(t) /\ (Counter!Place(t) <=> CP!Place(t))
<1>1. Counter!Blocks = CP!Blocks /\ Counter!Unread = CP!Unread
  BY DEF Counter!Blocks, CP!Blocks, Counter!Unread, CP!Unread
<1>2. /\ Counter!EndTurn <=> CP!EndTurn
      /\ Counter!Leave <=> CP!Leave
      /\ \A t : Counter!Suspect(t) <=> CP!Suspect(t)
      /\ Counter!Finding <=> CP!Finding
      /\ \A k : Counter!Processing(k) <=> CP!Processing(k)
      /\ \A t, v : Counter!Owe(t, v) <=> CP!Owe(t, v)
      /\ \A F, L : Counter!Lands(F, L) <=> CP!Lands(F, L)
      /\ \A t, c, L : Counter!Written(t, c, L) <=> CP!Written(t, c, L)
      /\ \A t, L : Counter!Created(t, L) <=> CP!Created(t, L)
  <2>1. Counter!EndTurn <=> CP!EndTurn
    BY <1>1 DEF Counter!EndTurn, CP!EndTurn
  <2>2. Counter!Leave <=> CP!Leave
    BY <2>1 DEF Counter!Leave, CP!Leave, Counter!reader, CP!reader
  <2>3. (\A t : Counter!Suspect(t) <=> CP!Suspect(t)) /\ (Counter!Finding <=> CP!Finding)
    BY DEF Counter!Suspect, CP!Suspect, Counter!Finding, CP!Finding,
           Counter!Cardinality, CP!Cardinality
  <2>4. \A k : Counter!Processing(k) <=> CP!Processing(k)
    BY DEF Counter!Processing, CP!Processing
  <2>5. \A t, v : Counter!Owe(t, v) <=> CP!Owe(t, v)
    BY DEF Counter!Owe, CP!Owe
  <2>6. \A F, L : Counter!Lands(F, L) <=> CP!Lands(F, L)
    BY DEF Counter!Lands, CP!Lands
  <2>7. \A t, c, L : Counter!Written(t, c, L) <=> CP!Written(t, c, L)
    BY DEF Counter!Written, CP!Written
  <2>8. \A t, L : Counter!Created(t, L) <=> CP!Created(t, L)
    BY <1>1, <2>3, <2>7 DEF Counter!Created, CP!Created
  <2> QED
    BY <2>1, <2>2, <2>3, <2>4, <2>5, <2>6, <2>7, <2>8
<1>3. \A v, L : Counter!AddCredit(v, L) <=> CP!AddCredit(v, L)
  BY <1>2 DEF Counter!AddCredit, CP!AddCredit
<1>4. Counter!Loop <=> CP!Loop
  <2>1. \A R : Counter!Read(R) <=> CP!Read(R)
    BY <1>1, <1>2 DEF Counter!Read, CP!Read, Counter!history, CP!history
  <2> QED
    BY <1>1, <1>2, <2>1 DEF Counter!Loop, CP!Loop, Counter!PollPresent, CP!PollPresent,
                Counter!PollMiss, CP!PollMiss, Counter!FindCard, CP!FindCard,
                Counter!FindNothing, CP!FindNothing, Counter!FindThrows,
                CP!FindThrows, Counter!getFloat, CP!getFloat, Counter!reader,
                CP!reader, Counter!copy, CP!copy, Counter!history,
                CP!history
<1>5. Counter!ReadThrows <=> CP!ReadThrows
  BY <1>1, <1>2, <1>3 DEF Counter!ReadThrows, CP!ReadThrows, Counter!reader, CP!reader,
              Counter!copy, CP!copy, Counter!history, CP!history,
              Counter!key, CP!key, Counter!NoTicket, CP!NoTicket,
              Counter!hasTicket, CP!hasTicket, Counter!Enough, CP!Enough,
              Counter!desk, CP!desk
<1>6. Counter!AdminCard <=> CP!AdminCard
  BY <1>1, <1>2, <1>3 DEF Counter!AdminCard, CP!AdminCard, Counter!reader, CP!reader,
              Counter!copy, CP!copy, Counter!history, CP!history,
              Counter!key, CP!key, Counter!NoTicket, CP!NoTicket,
              Counter!hasTicket, CP!hasTicket, Counter!Enough, CP!Enough,
              Counter!desk, CP!desk
<1>7. Counter!OtherCard <=> CP!OtherCard
  BY <1>1, <1>2, <1>3 DEF Counter!OtherCard, CP!OtherCard, Counter!reader, CP!reader,
              Counter!copy, CP!copy, Counter!history, CP!history,
              Counter!key, CP!key, Counter!NoTicket, CP!NoTicket,
              Counter!hasTicket, CP!hasTicket, Counter!Enough, CP!Enough,
              Counter!desk, CP!desk
<1>8. Counter!Ask <=> CP!Ask
  BY <1>1, <1>2, <1>3 DEF Counter!Ask, CP!Ask, Counter!reader, CP!reader, Counter!copy,
              CP!copy, Counter!history, CP!history, Counter!key, CP!key,
              Counter!NoTicket, CP!NoTicket, Counter!hasTicket, CP!hasTicket,
              Counter!Enough, CP!Enough, Counter!desk, CP!desk
<1>9. Counter!Refuse <=> CP!Refuse
  BY <1>1, <1>2, <1>3 DEF Counter!Refuse, CP!Refuse, Counter!reader, CP!reader,
              Counter!copy, CP!copy, Counter!history, CP!history,
              Counter!key, CP!key, Counter!NoTicket, CP!NoTicket,
              Counter!hasTicket, CP!hasTicket, Counter!Enough, CP!Enough,
              Counter!desk, CP!desk
<1>10. Counter!sendHistory <=> CP!sendHistory
  BY <1>1, <1>2, <1>3 DEF Counter!sendHistory, CP!sendHistory, Counter!reader, CP!reader,
              Counter!copy, CP!copy, Counter!history, CP!history,
              Counter!key, CP!key, Counter!NoTicket, CP!NoTicket,
              Counter!hasTicket, CP!hasTicket, Counter!Enough, CP!Enough,
              Counter!desk, CP!desk
<1>11. Counter!PowerCut <=> CP!PowerCut
  BY <1>1, <1>2, <1>3 DEF Counter!PowerCut, CP!PowerCut, Counter!reader, CP!reader,
              Counter!copy, CP!copy, Counter!history, CP!history,
              Counter!key, CP!key, Counter!NoTicket, CP!NoTicket,
              Counter!hasTicket, CP!hasTicket, Counter!Enough, CP!Enough,
              Counter!desk, CP!desk
<1>12. Counter!Tick <=> CP!Tick
  BY <1>1, <1>2, <1>3 DEF Counter!Tick, CP!Tick, Counter!reader, CP!reader, Counter!copy,
              CP!copy, Counter!history, CP!history, Counter!key, CP!key,
              Counter!NoTicket, CP!NoTicket, Counter!hasTicket, CP!hasTicket,
              Counter!Enough, CP!Enough, Counter!desk, CP!desk
<1>13. \A L : Counter!TakeTicket(L) <=> CP!TakeTicket(L)
  BY <1>1, <1>2, <1>3 DEF Counter!TakeTicket, CP!TakeTicket, Counter!reader, CP!reader,
              Counter!copy, CP!copy, Counter!history, CP!history,
              Counter!key, CP!key, Counter!NoTicket, CP!NoTicket,
              Counter!hasTicket, CP!hasTicket, Counter!Enough, CP!Enough,
              Counter!desk, CP!desk
<1>14. \A L : Counter!decrementCredit(L) <=> CP!decrementCredit(L)
  BY <1>1, <1>2, <1>3 DEF Counter!decrementCredit, CP!decrementCredit, Counter!reader,
              CP!reader, Counter!copy, CP!copy, Counter!history, CP!history,
              Counter!key, CP!key, Counter!NoTicket, CP!NoTicket,
              Counter!hasTicket, CP!hasTicket, Counter!Enough, CP!Enough,
              Counter!desk, CP!desk
<1> QED
  BY <1>1, <1>2, <1>3, <1>4, <1>5, <1>6, <1>7, <1>8, <1>9, <1>10, <1>11, <1>12, <1>13, <1>14
     DEF Counter!Run, CP!Run, Counter!Pending, CP!Pending, Counter!Place,
         CP!Place, Counter!Remove, CP!Remove, Counter!reader, CP!reader,
         Counter!copy, CP!copy, Counter!history, CP!history, Counter!Keys,
         CP!Keys, Counter!ReadLost, CP!ReadLost, Counter!key, CP!key,
         Counter!NoTicket, CP!NoTicket

(* What the till knows of its card outlives the steps of the counter, and  *)
(* the other way round, because a card lies on one of the readers only.    *)
EventInv ==
    /\ TP!TypeOK /\ TP!View /\ CP!Known
    /\ tField = kField => tField = NoTag
    /\ Ledger

LEMMA EventInit == Init => EventInv
<1> SUFFICES ASSUME Init PROVE EventInv
  OBVIOUS
<1> USE SameAssumptions
<1>1. TP!Init /\ CP!Init
  BY DEF Init, Till!Init, Till!DeskInit, Till!Unread, Counter!Init, Counter!DeskInit, Counter!Unread,
         TP!Init, TP!DeskInit, TP!Unread, CP!Init, CP!DeskInit, CP!Unread
<1>2. TP!Inv /\ CP!Inv
  BY <1>1, TP!InitInv, CP!InitInv
<1>3. \A t \in Tags : owed[t] = mem[t].amt /\ mem[t].amt \in Int
                    /\ Till!Pending(t) = 0 /\ Counter!Pending(t) = 0
  BY <1>1, EventAssumption
     DEF TP!Init, TP!DeskInit, CP!Init, CP!DeskInit, Till!Pending, Counter!Pending, Till!Card
<1>4. tField = NoTag
  BY <1>1 DEF TP!Init, TP!DeskInit
<1> QED
  BY <1>2, <1>3, <1>4 DEF EventInv, Ledger, TP!Inv, CP!Inv

LEMMA TillRunStep ==
    ASSUME EventInv, TillRun
    PROVE  EventInv'
<1> USE SameAssumptions
<1>1. /\ TP!TypeOK' /\ TP!View' /\ TP!Accounted /\ tField' = tField
      /\ UNCHANGED <<kField, kCard, kImage, kBroken, kCredit, kPc, ticket, late, armed>>
  BY SameTill, TP!TillStep, TP!FieldKept DEF EventInv, TillRun, counter
<1>2. /\ suspect \subseteq suspect'
      /\ \A t \in Tags : t # tField => mem'[t] = mem[t]
      /\ \A t \in Tags : mem'[t].kind \in {mem[t].kind, "DEBIT"}
      /\ \A t \in Tags \ suspect' :
            \/ /\ mem'[t].kind = mem[t].kind
               /\ mem'[t].amt - owed'[t] - TP!Pending(t)' = mem[t].amt - owed[t] - TP!Pending(t)
            \/ /\ mem[t].kind = "BLANK" /\ mem'[t].kind = "DEBIT"
               /\ mem'[t].amt = owed'[t] + TP!Pending(t)'
  BY <1>1 DEF TP!Accounted
<1>3. CP!Known'
  <2>1. CP!DeskType /\ kPc \in CP!Places /\ CP!View /\ CP!Announced
    BY DEF EventInv, CP!Known
  <2>2. CP!DeskType'
    BY <1>1, <2>1 DEF TP!TypeOK, TP!DeskType, CP!DeskType, TP!Card, CP!Card, TP!Kinds, CP!Kinds
  <2>3. CP!View'
    <3>1. ASSUME kPc \in {"process", "prompt", "typed"}, ~kBroken
          PROVE  kCard \in Tags /\ kCard # tField
      BY <2>1, <3>1, SameAssumptions DEF EventInv, CP!View, CP!DeskType, CP!DeskAssumption
    <3>2. kPc \in {"process", "prompt", "typed", "row"} => kCard \in Tags
      BY <2>1 DEF CP!DeskType
    <3> QED
      BY <1>1, <1>2, <2>1, <3>1, <3>2 DEF CP!View
  <2>4. CP!Announced' /\ kPc' \in CP!Places
    BY <1>1, <2>1 DEF CP!Announced, CP!Places
  <2> QED
    BY <1>1, <2>2, <2>3, <2>4 DEF CP!Known
<1>4. Ledger'
  <2>1. SUFFICES ASSUME NEW t \in Tags, t \notin suspect', mem'[t].kind = "DEBIT"
                 PROVE  mem'[t].amt = owed'[t] + Till!Pending(t)' - Counter!Pending(t)'
    BY DEF Ledger
  <2>2. Till!Pending(t) = TP!Pending(t) /\ Till!Pending(t)' = TP!Pending(t)'
    BY DEF Till!Pending, TP!Pending
  <2>3. Counter!Pending(t)' = Counter!Pending(t)
    BY <1>1 DEF Counter!Pending
  <2>4. /\ mem'[t].amt \in Int /\ owed'[t] \in Int /\ Till!Pending(t)' \in Int
        /\ mem[t].amt \in Int /\ owed[t] \in Int /\ Till!Pending(t) \in Int
        /\ Counter!Pending(t) \in Int
    BY <1>1, EventAssumption
       DEF EventInv, CP!Known, CP!DeskType, TP!TypeOK, TP!DeskType, TP!Card,
           Till!Pending, Counter!Pending
  <2>5. CASE mem[t].kind = "BLANK" /\ mem'[t].amt = owed'[t] + TP!Pending(t)'
    <3>1. Counter!Pending(t) = 0
      BY <1>2, <2>1, <2>5 DEF EventInv, CP!Known, CP!View, Counter!Pending
    <3> QED
      BY <2>2, <2>3, <2>4, <2>5, <3>1
  <2>6. CASE mem'[t].kind = mem[t].kind
             /\ mem'[t].amt - owed'[t] - TP!Pending(t)' = mem[t].amt - owed[t] - TP!Pending(t)
    <3>1. mem[t].amt = owed[t] + Till!Pending(t) - Counter!Pending(t)
      BY <1>2, <2>1, <2>6 DEF EventInv, Ledger
    <3>2. mem'[t].amt - owed'[t] - Till!Pending(t)' = mem[t].amt - owed[t] - Till!Pending(t)
      BY <2>2, <2>6
    <3> QED
      BY <2>3, <2>4, <3>1, <3>2, Z3
  <2> QED
    BY <1>2, <2>1, <2>5, <2>6
<1> QED
  BY <1>1, <1>3, <1>4 DEF EventInv

LEMMA CounterRunStep ==
    ASSUME EventInv, CounterRun
    PROVE  EventInv'
<1> USE SameAssumptions
<1>1. /\ CP!Known' /\ CP!Accounted /\ CP!AloneElsewhere /\ kField' = kField
      /\ UNCHANGED <<tField, tCard, tImage, tBroken, tCredit, tPc>>
  BY SameCounter, CP!CounterStep, CP!FieldKept DEF EventInv, CounterRun, till
<1>2. /\ suspect \subseteq suspect'
      /\ \A t \in Tags : t # kField => mem'[t] = mem[t]
      /\ \A t \in Tags :
            /\ mem'[t].kind = mem[t].kind
            /\ t \notin suspect' =>
                  mem'[t].amt + CP!Pending(t)' - owed'[t] = mem[t].amt + CP!Pending(t) - owed[t]
  BY <1>1 DEF CP!Accounted, CP!AloneElsewhere
<1>3. TP!TypeOK'
  BY <1>1 DEF EventInv, CP!Known, TP!TypeOK, TP!DeskType, CP!DeskType, TP!Card, CP!Card,
              TP!Kinds, CP!Kinds
<1>4. TP!View'
  <2>1. ASSUME tPc \in {"process", "prompt", "typed"}, ~tBroken
        PROVE  tCard \in Tags /\ tCard # kField
    BY <2>1, SameAssumptions DEF EventInv, TP!View, TP!TypeOK, TP!DeskType, TP!DeskAssumption
  <2>2. tPc \in {"process", "prompt", "typed", "row"} => tCard \in Tags
    BY DEF EventInv, TP!TypeOK, TP!DeskType
  <2> QED
    BY <1>1, <1>2, <2>1, <2>2 DEF EventInv, TP!View
<1>5. Ledger'
  <2>1. SUFFICES ASSUME NEW t \in Tags, t \notin suspect', mem'[t].kind = "DEBIT"
                 PROVE  mem'[t].amt = owed'[t] + Till!Pending(t)' - Counter!Pending(t)'
    BY DEF Ledger
  <2>2. Counter!Pending(t) = CP!Pending(t) /\ Counter!Pending(t)' = CP!Pending(t)'
    BY DEF Counter!Pending, CP!Pending
  <2>3. Till!Pending(t)' = Till!Pending(t)
    BY <1>1 DEF Till!Pending
  <2>4. /\ mem'[t].amt \in Int /\ owed'[t] \in Int /\ Counter!Pending(t)' \in Int
        /\ mem[t].amt \in Int /\ owed[t] \in Int /\ Counter!Pending(t) \in Int
        /\ Till!Pending(t) \in Int
    BY <1>1, EventAssumption
       DEF EventInv, CP!Known, CP!DeskType, TP!TypeOK, TP!DeskType, CP!Card,
           Till!Pending, Counter!Pending
  <2>5. mem[t].amt = owed[t] + Till!Pending(t) - Counter!Pending(t)
    BY <1>2, <2>1 DEF EventInv, Ledger
  <2>6. mem'[t].amt + Counter!Pending(t)' - owed'[t] = mem[t].amt + Counter!Pending(t) - owed[t]
    BY <1>2, <2>1, <2>2
  <2> QED
    BY <2>3, <2>4, <2>5, <2>6, Z3
<1> QED
  BY <1>1, <1>3, <1>4, <1>5 DEF EventInv

LEMMA CarryStep ==
    ASSUME EventInv, Carry
    PROVE  EventInv'
<1>0. /\ tField \in Tags \cup {NoTag} /\ kField \in Tags \cup {NoTag}
      /\ tBroken \in BOOLEAN /\ kBroken \in BOOLEAN
      /\ tField = kField => tField = NoTag
  BY DEF EventInv, CP!Known, CP!DeskType, TP!TypeOK, TP!DeskType
<1>1. /\ UNCHANGED <<mem, owed, suspect, tCard, tImage, tCredit, tPc,
                     kCard, kImage, kCredit, kPc, ticket, late, armed>>
      /\ tField' \in Tags \cup {NoTag} /\ kField' \in Tags \cup {NoTag}
      /\ tField' = kField' => tField' = NoTag
      /\ \/ tBroken' = TRUE
         \/ tBroken' = tBroken /\ (tField' = tField \/ tField = NoTag)
      /\ \/ kBroken' = TRUE
         \/ kBroken' = kBroken /\ (kField' = kField \/ kField = NoTag)
  <2>1. CASE Till!Remove /\ UNCHANGED counter
    <3>1. tField' = NoTag /\ tBroken' = TRUE /\ UNCHANGED <<mem, Till!copy, tCredit, tPc, Till!history>>
      BY <2>1, Zenon DEF Till!Remove
    <3> QED
      BY <1>0, <2>1, <3>1 DEF Till!copy, Till!history, counter
  <2>2. CASE Counter!Remove /\ UNCHANGED <<till, ticket, late, armed>>
    <3>1. kField' = NoTag /\ kBroken' = TRUE /\ UNCHANGED <<mem, Counter!copy, kCredit, kPc, Counter!history>>
      BY <2>2, Zenon DEF Counter!Remove
    <3> QED
      BY <1>0, <2>2, <3>1 DEF Counter!copy, Counter!history, till
  <2>3. CASE \E t \in Tags \ {kField} : Till!Place(t) /\ UNCHANGED counter
    BY <1>0, <2>3 DEF Till!Place, Till!copy, Till!history, counter
  <2>4. CASE \E t \in Tags \ {tField} :
                 Counter!Place(t) /\ UNCHANGED <<till, ticket, late, armed>>
    BY <1>0, <2>4 DEF Counter!Place, Counter!copy, Counter!history, till
  <2> QED
    BY <2>1, <2>2, <2>3, <2>4 DEF Carry
<1>2. TP!TypeOK' /\ CP!DeskType'
  BY <1>0, <1>1 DEF EventInv, CP!Known, TP!TypeOK, TP!DeskType, CP!DeskType
<1>3. TP!View'
  BY <1>1, SameAssumptions DEF EventInv, TP!View, TP!TypeOK, TP!DeskType, TP!DeskAssumption
<1>4. CP!Known'
  BY <1>1, <1>2, SameAssumptions
     DEF EventInv, CP!Known, CP!View, CP!DeskType, CP!Announced, CP!Places, CP!DeskAssumption
<1>5. Ledger'
  BY <1>1 DEF EventInv, Ledger, Till!Pending, Counter!Pending
<1> QED
  BY <1>1, <1>2, <1>3, <1>4, <1>5 DEF EventInv

LEMMA EventStep == EventInv /\ [Next]_vars => EventInv'
<1> SUFFICES ASSUME EventInv, [Next]_vars PROVE EventInv'
  OBVIOUS
<1>1. CASE UNCHANGED vars
  <2>1. UNCHANGED <<mem, owed, suspect, tField, tCard, tImage, tBroken, tCredit, tPc,
                    kField, kCard, kImage, kBroken, kCredit, kPc, ticket, late, armed>>
    BY <1>1 DEF vars, till, counter
  <2> QED
    BY <2>1 DEF EventInv, TP!TypeOK, TP!DeskType, TP!View, CP!Known, CP!DeskType, CP!View,
                CP!Announced, CP!Places, Ledger, Till!Pending, Counter!Pending
<1> QED
  BY <1>1, TillRunStep, CounterRunStep, CarryStep DEF Next

(* However the cards are carried between the till and the counter, a DEBIT *)
(* card about which no error was printed holds what the rows of both add up*)
(* to (caisse.cpp:90-103, kve.cpp:111-124).                                *)
THEOREM EventLedger == MCSpec => []Ledger
<1>1. EventInv => Ledger
  BY DEF EventInv
<1> QED
  BY <1>1, InitParts, NextParts, EventInit, EventStep, PTL DEF MCSpec

-----------------------------------------------------------------------------
(* What the terminals rely on. *)

(* The account a terminal sees is that of the rows, but for what the other *)
(* one has still to send.                                                  *)
LEMMA AccountsSeen ==
    /\ TillOwed = [t \in Tags |-> IF t \in suspect THEN 0 ELSE owed[t] - Counter!Pending(t)]
    /\ TillOwed' = [t \in Tags |-> IF t \in suspect' THEN 0 ELSE owed'[t] - Counter!Pending(t)']
    /\ CounterOwed = [t \in Tags |-> IF t \in suspect THEN 0 ELSE owed[t] + Till!Pending(t)]
    /\ CounterOwed' = [t \in Tags |-> IF t \in suspect' THEN 0 ELSE owed'[t] + Till!Pending(t)']
BY DEF TillOwed, CounterOwed

LEMMA Amounts ==
    ASSUME EventInv
    PROVE  /\ owed \in [Tags -> Int] /\ mem \in [Tags -> TP!Card] /\ \A t \in Tags : mem[t].amt \in Int
           /\ \A t : Till!Pending(t) \in Int /\ Counter!Pending(t) \in Int
BY EventAssumption
   DEF EventInv, CP!Known, CP!DeskType, TP!TypeOK, TP!DeskType, TP!Card,
       Till!Pending, Counter!Pending

LEMMA AmountsNext ==
    ASSUME EventInv'
    PROVE  /\ owed' \in [Tags -> Int] /\ \A t \in Tags : mem'[t].amt \in Int
           /\ \A t : Till!Pending(t)' \in Int /\ Counter!Pending(t)' \in Int
BY EventAssumption
   DEF EventInv, CP!Known, CP!DeskType, TP!TypeOK, TP!DeskType, TP!Card,
       Till!Pending, Counter!Pending

(* The till's own steps are the same on the account it sees. *)
LEMMA TillSees ==
    ASSUME EventInv, EventInv', TillRun
    PROVE  TillWorld!Run \/ TillWorld!PowerCut
<1>1. UNCHANGED counter /\ (Till!Run \/ Till!PowerCut)
  BY DEF TillRun
<1>2. \A t : Counter!Pending(t)' = Counter!Pending(t)
  BY <1>1 DEF counter, Counter!Pending
<1>3. UNCHANGED <<owed, suspect>> => TillOwed' = TillOwed
  BY <1>2, AccountsSeen
<1>4. ASSUME NEW t \in Tags, NEW v \in Int, Till!Owe(t, v), suspect' = suspect
      PROVE  TillWorld!Owe(t, v)
  <2>1. owed \in [Tags -> Int] /\ Counter!Pending(t) \in Int
    BY Amounts
  <2>2. CASE t \in suspect
    BY <1>3, <1>4, <2>2 DEF Till!Owe, TillWorld!Owe
  <2>3. CASE t \notin suspect
    <3>1. owed' = [owed EXCEPT ![t] = @ + v]
      BY <1>4, <2>3 DEF Till!Owe
    <3>2. \A s \in Tags : s # t => TillOwed'[s] = TillOwed[s]
      BY <1>2, <1>4, <2>1, <3>1, AccountsSeen
    <3>3. TillOwed'[t] = TillOwed[t] + v
      BY <1>2, <1>4, <2>1, <2>3, <3>1, AccountsSeen
    <3>4. TillOwed' = [TillOwed EXCEPT ![t] = @ + v]
      BY <3>2, <3>3, AccountsSeen
    <3> QED
      BY <2>3, <3>4 DEF TillWorld!Owe
  <2> QED
    BY <2>2, <2>3
<1>5. ASSUME NEW t \in Tags, Till!Suspect(t)
      PROVE  TillWorld!Suspect(t)
  <2>1. suspect' = suspect \cup {t} /\ owed' = [owed EXCEPT ![t] = 0]
    BY <1>5 DEF Till!Suspect
  <2>2. TillOwed' = [TillOwed EXCEPT ![t] = 0]
    BY <1>2, <2>1, Amounts, AccountsSeen
  <2> QED
    BY <1>5, <2>2 DEF Till!Suspect, TillWorld!Suspect, Till!Cardinality, TillWorld!Cardinality
<1>6. /\ Till!Blocks = TillWorld!Blocks /\ Till!Unread = TillWorld!Unread
      /\ Till!Finding <=> TillWorld!Finding
      /\ \A k : Till!Processing(k) <=> TillWorld!Processing(k)
      /\ \A F, L : Till!Lands(F, L) <=> TillWorld!Lands(F, L)
      /\ \A t, c, L : Till!Written(t, c, L) <=> TillWorld!Written(t, c, L)
  BY DEF Till!Blocks, TillWorld!Blocks, Till!Unread, TillWorld!Unread, Till!Finding, TillWorld!Finding,
         Till!Processing, TillWorld!Processing, Till!Lands, TillWorld!Lands, Till!Written, TillWorld!Written
<1>7. (Till!EndTurn <=> TillWorld!EndTurn) /\ (Till!Leave <=> TillWorld!Leave)
  BY <1>6 DEF Till!EndTurn, TillWorld!EndTurn, Till!Leave, TillWorld!Leave, Till!reader, TillWorld!reader
<1>8. /\ Till!reader = TillWorld!reader /\ Till!reader' = TillWorld!reader'
      /\ Till!copy = TillWorld!copy /\ Till!copy' = TillWorld!copy'
      /\ UNCHANGED Till!history => UNCHANGED TillWorld!history
  BY <1>3 DEF Till!reader, TillWorld!reader, Till!copy, TillWorld!copy, Till!history, TillWorld!history
<1>9. /\ tPc \in {"read", "process", "typed", "row"} => tCard \in Tags
      /\ tCredit \in Int /\ -tCredit \in Int
  BY EventAssumption DEF EventInv, CP!Known, CP!DeskType, TP!TypeOK, TP!DeskType
<1>10. Till!Loop => TillWorld!Loop
  <2>1. ASSUME NEW R \in SUBSET Till!Blocks, Till!Read(R) PROVE TillWorld!Read(R)
    <3>1. IF R = TillWorld!Blocks THEN UNCHANGED TillWorld!history ELSE TillWorld!Suspect(tCard)
      BY <1>5, <1>6, <1>8, <1>9, <2>1 DEF Till!Read
    <3> QED
      BY <2>1, <3>1, <1>6 DEF Till!Read, TillWorld!Read
  <2>2. Till!PollPresent => TillWorld!PollPresent
    BY <1>7, <1>8 DEF Till!PollPresent, TillWorld!PollPresent
  <2>3. Till!PollMiss => TillWorld!PollMiss
    BY <1>8 DEF Till!PollMiss, TillWorld!PollMiss
  <2>4. Till!FindCard => TillWorld!FindCard
    BY <1>6, <1>8 DEF Till!FindCard, TillWorld!FindCard
  <2>5. Till!FindNothing => TillWorld!FindNothing
    BY <1>6, <1>7, <1>8 DEF Till!FindNothing, TillWorld!FindNothing
  <2>6. Till!FindThrows => TillWorld!FindThrows
    BY <1>6, <1>7, <1>8 DEF Till!FindThrows, TillWorld!FindThrows
  <2>7. \A v : Till!getFloat(v) => TillWorld!getFloat(v)
    BY <1>8 DEF Till!getFloat, TillWorld!getFloat
  <2> QED
    BY <1>6, <2>1, <2>2, <2>3, <2>4, <2>5, <2>6, <2>7 DEF Till!Loop, TillWorld!Loop
<1>11. Till!ReadThrows => TillWorld!ReadThrows
  BY <1>7, <1>8 DEF Till!ReadThrows, TillWorld!ReadThrows
<1>12. ASSUME NEW v \in Int, NEW L, Till!AddCredit(v, L), tPc = "typed", suspect' = suspect
       PROVE  TillWorld!AddCredit(v, L)
  <2>1. CASE 1 \in L
    BY <1>3, <1>6, <1>12, <2>1 DEF Till!AddCredit, TillWorld!AddCredit
  <2>2. CASE 1 \notin L
    <3>1. TillWorld!Owe(tCard, -v)
      BY <1>4, <1>9, <1>12, <2>2 DEF Till!AddCredit
    <3> QED
      BY <1>6, <1>12, <2>2, <3>1 DEF Till!AddCredit, TillWorld!AddCredit
  <2> QED
    BY <2>1, <2>2
<1>13. ASSUME NEW L \in SUBSET Till!Blocks, Till!createDebit(L) PROVE TillWorld!createDebit(L)
  <2>1. /\ Till!Processing("BLANK") /\ Till!Lands(0, L) /\ Till!Created(tCard, L)
        /\ Till!EndTurn /\ UNCHANGED <<Till!reader, tCard>>
    BY <1>13 DEF Till!createDebit
  <2>2. tCard \in Tags
    BY <1>9, <2>1 DEF Till!Processing
  <2>3. ASSUME L = Till!Blocks
        PROVE  TillOwed' = [TillOwed EXCEPT ![tCard] = 0] /\ UNCHANGED suspect
    <3>1. owed' = [owed EXCEPT ![tCard] = 0] /\ suspect' = suspect
      BY <2>1, <2>3 DEF Till!Created
    <3>2. tCard \in suspect \/ mem[tCard].kind = "BLANK"
      BY <2>1, <2>2, <2>3
         DEF EventInv, TP!View, Till!Lands, Till!Blocks, Till!Processing, TP!TypeOK, TP!DeskType
    <3>3. tCard \in suspect \/ Counter!Pending(tCard) = 0
      BY <3>2 DEF EventInv, CP!Known, CP!View, Counter!Pending
    <3> QED
      BY <1>2, <2>2, <3>1, <3>3, Amounts, AccountsSeen
  <2>4. TillWorld!Created(tCard, L)
    BY <1>5, <1>6, <2>1, <2>2, <2>3 DEF Till!Created, TillWorld!Created
  <2> QED
    BY <1>6, <1>7, <1>8, <2>1, <2>4 DEF TillWorld!createDebit
<1>14. ASSUME NEW L \in SUBSET Till!Blocks, Till!incrementCredit(L) PROVE TillWorld!incrementCredit(L)
  <2>1. tPc = "typed" /\ suspect' = suspect
    BY <1>14 DEF Till!incrementCredit
  <2>2. CASE tCredit = 0
    BY <1>3, <1>8, <1>14, <2>1, <2>2 DEF Till!incrementCredit, TillWorld!incrementCredit
  <2>3. CASE tCredit # 0
    <3>1. TillWorld!AddCredit(tCredit, L)
      BY <1>9, <1>12, <1>14, <2>1, <2>3 DEF Till!incrementCredit
    <3> QED
      BY <1>8, <1>14, <2>3, <3>1 DEF Till!incrementCredit, TillWorld!incrementCredit
  <2> QED
    BY <2>2, <2>3
<1>15. Till!sendHistory => TillWorld!sendHistory
  BY <1>4, <1>7, <1>8, <1>9 DEF Till!sendHistory, TillWorld!sendHistory
<1>16. Till!PowerCut => TillWorld!PowerCut
  BY <1>3, <1>4, <1>7, <1>9 DEF Till!PowerCut, TillWorld!PowerCut
<1>17. /\ Till!AdminCard => TillWorld!AdminCard
       /\ Till!OtherCard => TillWorld!OtherCard
       /\ Till!Ask => TillWorld!Ask
       /\ Till!TooMuch => TillWorld!TooMuch
  BY <1>6, <1>7, <1>8
     DEF Till!AdminCard, TillWorld!AdminCard, Till!OtherCard, TillWorld!OtherCard,
         Till!Ask, TillWorld!Ask, Till!TooMuch, TillWorld!TooMuch
<1> QED
  BY <1>1, <1>6, <1>10, <1>11, <1>13, <1>14, <1>15, <1>16, <1>17 DEF Till!Run, TillWorld!Run

(* The counter's own steps are the same on the account it sees. *)
LEMMA CounterSees ==
    ASSUME EventInv, EventInv', CounterRun
    PROVE  CounterWorld!Run \/ CounterWorld!Tick \/ CounterWorld!PowerCut
<1>1. UNCHANGED till /\ (Counter!Run \/ Counter!Tick \/ Counter!PowerCut)
  BY DEF CounterRun
<1>2. \A t : Till!Pending(t)' = Till!Pending(t)
  BY <1>1 DEF till, Till!Pending
<1>3. UNCHANGED <<owed, suspect>> => CounterOwed' = CounterOwed
  BY <1>2, AccountsSeen
<1>4. ASSUME NEW t \in Tags, NEW v \in Int, Counter!Owe(t, v), suspect' = suspect
      PROVE  CounterWorld!Owe(t, v)
  <2>1. owed \in [Tags -> Int] /\ Till!Pending(t) \in Int
    BY Amounts
  <2>2. CASE t \in suspect
    BY <1>3, <1>4, <2>2 DEF Counter!Owe, CounterWorld!Owe
  <2>3. CASE t \notin suspect
    <3>1. owed' = [owed EXCEPT ![t] = @ + v]
      BY <1>4, <2>3 DEF Counter!Owe
    <3>2. \A s \in Tags : s # t => CounterOwed'[s] = CounterOwed[s]
      BY <1>2, <1>4, <2>1, <3>1, AccountsSeen
    <3>3. CounterOwed'[t] = CounterOwed[t] + v
      BY <1>2, <1>4, <2>1, <2>3, <3>1, AccountsSeen
    <3>4. CounterOwed' = [CounterOwed EXCEPT ![t] = @ + v]
      BY <3>2, <3>3, AccountsSeen
    <3> QED
      BY <2>3, <3>4 DEF CounterWorld!Owe
  <2> QED
    BY <2>2, <2>3
<1>5. ASSUME NEW t \in Tags, Counter!Suspect(t)
      PROVE  CounterWorld!Suspect(t)
  <2>1. suspect' = suspect \cup {t} /\ owed' = [owed EXCEPT ![t] = 0]
    BY <1>5 DEF Counter!Suspect
  <2>2. CounterOwed' = [CounterOwed EXCEPT ![t] = 0]
    BY <1>2, <2>1, Amounts, AccountsSeen
  <2> QED
    BY <1>5, <2>2 DEF Counter!Suspect, CounterWorld!Suspect, Counter!Cardinality, CounterWorld!Cardinality
<1>6. /\ Counter!Blocks = CounterWorld!Blocks /\ Counter!Unread = CounterWorld!Unread
      /\ Counter!Finding <=> CounterWorld!Finding
      /\ \A k : Counter!Processing(k) <=> CounterWorld!Processing(k)
      /\ \A F, L : Counter!Lands(F, L) <=> CounterWorld!Lands(F, L)
      /\ \A t, c, L : Counter!Written(t, c, L) <=> CounterWorld!Written(t, c, L)
  BY DEF Counter!Blocks, CounterWorld!Blocks, Counter!Unread, CounterWorld!Unread, Counter!Finding, CounterWorld!Finding,
         Counter!Processing, CounterWorld!Processing, Counter!Lands, CounterWorld!Lands, Counter!Written, CounterWorld!Written
<1>7. (Counter!EndTurn <=> CounterWorld!EndTurn) /\ (Counter!Leave <=> CounterWorld!Leave)
  BY <1>6 DEF Counter!EndTurn, CounterWorld!EndTurn, Counter!Leave, CounterWorld!Leave, Counter!reader, CounterWorld!reader
<1>8. /\ Counter!reader = CounterWorld!reader /\ Counter!reader' = CounterWorld!reader'
      /\ Counter!copy = CounterWorld!copy /\ Counter!copy' = CounterWorld!copy'
      /\ UNCHANGED Counter!history => UNCHANGED CounterWorld!history
  BY <1>3 DEF Counter!reader, CounterWorld!reader, Counter!copy, CounterWorld!copy, Counter!history, CounterWorld!history
<1>9. /\ kPc \in {"read", "process", "typed", "row"} => kCard \in Tags
      /\ kCredit \in Int /\ -kCredit \in Int
  BY EventAssumption DEF EventInv, CP!Known, CP!DeskType, TP!TypeOK, TP!DeskType
<1>10. Counter!Loop => CounterWorld!Loop
  <2>1. ASSUME NEW R \in SUBSET Counter!Blocks, Counter!Read(R) PROVE CounterWorld!Read(R)
    <3>1. IF R = CounterWorld!Blocks THEN UNCHANGED CounterWorld!history ELSE CounterWorld!Suspect(kCard)
      BY <1>5, <1>6, <1>8, <1>9, <2>1 DEF Counter!Read
    <3> QED
      BY <2>1, <3>1, <1>6 DEF Counter!Read, CounterWorld!Read
  <2>2. Counter!PollPresent => CounterWorld!PollPresent
    BY <1>7, <1>8 DEF Counter!PollPresent, CounterWorld!PollPresent
  <2>3. Counter!PollMiss => CounterWorld!PollMiss
    BY <1>8 DEF Counter!PollMiss, CounterWorld!PollMiss
  <2>4. Counter!FindCard => CounterWorld!FindCard
    BY <1>6, <1>8 DEF Counter!FindCard, CounterWorld!FindCard
  <2>5. Counter!FindNothing => CounterWorld!FindNothing
    BY <1>6, <1>7, <1>8 DEF Counter!FindNothing, CounterWorld!FindNothing
  <2>6. Counter!FindThrows => CounterWorld!FindThrows
    BY <1>6, <1>7, <1>8 DEF Counter!FindThrows, CounterWorld!FindThrows
  <2>7. \A v : Counter!getFloat(v) => CounterWorld!getFloat(v)
    BY <1>8 DEF Counter!getFloat, CounterWorld!getFloat
  <2> QED
    BY <1>6, <2>1, <2>2, <2>3, <2>4, <2>5, <2>6, <2>7 DEF Counter!Loop, CounterWorld!Loop
<1>11. Counter!ReadThrows => CounterWorld!ReadThrows
  BY <1>7, <1>8 DEF Counter!ReadThrows, CounterWorld!ReadThrows
<1>12. ASSUME NEW v \in Int, NEW L, Counter!AddCredit(v, L), kPc = "typed", suspect' = suspect
       PROVE  CounterWorld!AddCredit(v, L)
  <2>1. CASE 1 \in L
    BY <1>3, <1>6, <1>12, <2>1 DEF Counter!AddCredit, CounterWorld!AddCredit
  <2>2. CASE 1 \notin L
    <3>1. CounterWorld!Owe(kCard, -v)
      BY <1>4, <1>9, <1>12, <2>2 DEF Counter!AddCredit
    <3> QED
      BY <1>6, <1>12, <2>2, <3>1 DEF Counter!AddCredit, CounterWorld!AddCredit
  <2> QED
    BY <2>1, <2>2
<1>13. Counter!key = CounterWorld!key /\ Counter!key' = CounterWorld!key' /\ (Counter!NoTicket <=> CounterWorld!NoTicket)
  BY DEF Counter!key, CounterWorld!key, Counter!NoTicket, CounterWorld!NoTicket
<1>14. ASSUME NEW L \in SUBSET Counter!Blocks, Counter!decrementCredit(L)
       PROVE  CounterWorld!decrementCredit(L)
  <2>1. kPc = "typed" /\ suspect' = suspect /\ CounterWorld!Enough
    BY <1>14 DEF Counter!decrementCredit, Counter!Enough, CounterWorld!Enough
  <2>2. CASE kImage.amt = 0
    <3>1. L = {} /\ CounterWorld!Owe(kCard, kCredit) /\ UNCHANGED <<kImage, mem>>
      BY <1>4, <1>9, <1>14, <2>1, <2>2 DEF Counter!decrementCredit
    <3> QED
      BY <1>8, <1>13, <1>14, <2>1, <2>2, <3>1 DEF Counter!decrementCredit, CounterWorld!decrementCredit
  <2>3. CASE kImage.amt # 0
    <3>1. CounterWorld!AddCredit(-kCredit, L)
      BY <1>9, <1>12, <1>14, <2>1, <2>3 DEF Counter!decrementCredit
    <3> QED
      BY <1>8, <1>13, <1>14, <2>1, <2>3, <3>1 DEF Counter!decrementCredit, CounterWorld!decrementCredit
  <2> QED
    BY <2>2, <2>3
<1>15. Counter!sendHistory => CounterWorld!sendHistory
  BY <1>4, <1>7, <1>8, <1>9, <1>13 DEF Counter!sendHistory, CounterWorld!sendHistory
<1>16. Counter!PowerCut => CounterWorld!PowerCut
  BY <1>3, <1>4, <1>7, <1>9, <1>13 DEF Counter!PowerCut, CounterWorld!PowerCut
<1>17. /\ Counter!AdminCard => CounterWorld!AdminCard
       /\ Counter!OtherCard => CounterWorld!OtherCard
       /\ Counter!Ask => CounterWorld!Ask
       /\ Counter!Refuse => CounterWorld!Refuse
       /\ Counter!ReadLost => CounterWorld!ReadLost
       /\ \A k : Counter!Keys(k) => CounterWorld!Keys(k)
  BY <1>6, <1>7, <1>8, <1>11, <1>13
     DEF Counter!AdminCard, CounterWorld!AdminCard, Counter!OtherCard, CounterWorld!OtherCard,
         Counter!Ask, CounterWorld!Ask, Counter!Refuse, CounterWorld!Refuse, Counter!ReadLost,
         CounterWorld!ReadLost, Counter!Keys, CounterWorld!Keys, Counter!hasTicket,
         CounterWorld!hasTicket, Counter!Enough, CounterWorld!Enough
<1>18. \A L : Counter!TakeTicket(L) => CounterWorld!TakeTicket(L)
  BY <1>6, <1>7, <1>8, <1>13
     DEF Counter!TakeTicket, CounterWorld!TakeTicket, Counter!hasTicket, CounterWorld!hasTicket
<1>19. Counter!Tick => CounterWorld!Tick
  <2>1. UNCHANGED Counter!desk => UNCHANGED CounterWorld!desk
    BY <1>3 DEF Counter!desk, CounterWorld!desk
  <2> QED
    BY <2>1 DEF Counter!Tick, CounterWorld!Tick
<1> QED
  BY <1>1, <1>6, <1>10, <1>13, <1>14, <1>15, <1>16, <1>17, <1>18, <1>19
     DEF Counter!Run, CounterWorld!Run

LEMMA Balances ==
    ASSUME NEW a \in Int, NEW b \in Int, NEW c \in Int, NEW d \in Int, NEW e \in Int
    PROVE  /\ a - b - c = a - d - e => b + c = d + e
           /\ a + c - b = a + e - d => b - c = d - e
OBVIOUS

(* A step that changes no card, and prints no error, changes no account the *)
(* other terminal sees.                                                    *)
LEMMA TillUnseen ==
    ASSUME EventInv, EventInv', TP!Accounted, mem' = mem, suspect' = suspect
    PROVE  CounterOwed' = CounterOwed
<1>1. ASSUME NEW t \in Tags, t \notin suspect
      PROVE  owed'[t] + Till!Pending(t)' = owed[t] + Till!Pending(t)
  <2>1. mem'[t].amt - owed'[t] - Till!Pending(t)' = mem[t].amt - owed[t] - Till!Pending(t)
    <3>1. t \in Tags \ suspect' /\ mem'[t].kind = mem[t].kind
      BY <1>1
    <3>2. mem'[t].amt - owed'[t] - TP!Pending(t)' = mem[t].amt - owed[t] - TP!Pending(t)
      BY <3>1 DEF TP!Accounted
    <3>3. Till!Pending(t) = TP!Pending(t)
      BY DEF Till!Pending, TP!Pending
    <3>4. Till!Pending(t)' = TP!Pending(t)'
      BY DEF Till!Pending, TP!Pending
    <3> QED
      BY <3>2, <3>3, <3>4
  <2>2. mem'[t].amt = mem[t].amt
    OBVIOUS
  <2>3. /\ mem[t].amt \in Int /\ owed[t] \in Int /\ Till!Pending(t) \in Int
        /\ owed'[t] \in Int /\ Till!Pending(t)' \in Int
    BY Amounts, AmountsNext
  <2>4. mem[t].amt - owed'[t] - Till!Pending(t)' = mem[t].amt - owed[t] - Till!Pending(t)
    BY <2>1, <2>2, Zenon
  <2>5. PICK a \in Int, b \in Int, c \in Int, d \in Int, e \in Int :
            /\ a = mem[t].amt /\ b = owed'[t] /\ c = Till!Pending(t)'
            /\ d = owed[t] /\ e = Till!Pending(t)
    BY <2>3
  <2>6. a - b - c = a - d - e
    BY <2>4, <2>5, Zenon
  <2>7. b + c = d + e
    BY <2>6, Balances
  <2> QED
    BY <2>5, <2>7, Zenon
<1> QED
  BY <1>1, AccountsSeen

LEMMA CounterUnseen ==
    ASSUME EventInv, EventInv', CP!Accounted, suspect' = suspect,
           \A t \in Tags : mem'[t].amt = mem[t].amt
    PROVE  TillOwed' = TillOwed
<1>1. ASSUME NEW t \in Tags, t \notin suspect
      PROVE  owed'[t] - Counter!Pending(t)' = owed[t] - Counter!Pending(t)
  <2>1. mem'[t].amt + Counter!Pending(t)' - owed'[t] = mem[t].amt + Counter!Pending(t) - owed[t]
    <3>1. t \in Tags \ suspect'
      BY <1>1
    <3>2. mem'[t].amt + CP!Pending(t)' - owed'[t] = mem[t].amt + CP!Pending(t) - owed[t]
      BY <3>1 DEF CP!Accounted
    <3>3. Counter!Pending(t) = CP!Pending(t)
      BY DEF Counter!Pending, CP!Pending
    <3>4. Counter!Pending(t)' = CP!Pending(t)'
      BY DEF Counter!Pending, CP!Pending
    <3> QED
      BY <3>2, <3>3, <3>4
  <2>2. mem'[t].amt = mem[t].amt
    OBVIOUS
  <2>3. /\ mem[t].amt \in Int /\ owed[t] \in Int /\ Counter!Pending(t) \in Int
        /\ owed'[t] \in Int /\ Counter!Pending(t)' \in Int
    BY Amounts, AmountsNext
  <2>4. mem[t].amt + Counter!Pending(t)' - owed'[t] = mem[t].amt + Counter!Pending(t) - owed[t]
    BY <2>1, <2>2, Zenon
  <2>5. PICK a \in Int, b \in Int, c \in Int, d \in Int, e \in Int :
            /\ a = mem[t].amt /\ b = owed'[t] /\ c = Counter!Pending(t)'
            /\ d = owed[t] /\ e = Counter!Pending(t)
    BY <2>3
  <2>6. a + c - b = a + e - d
    BY <2>4, <2>5, Zenon
  <2>7. b - c = d - e
    BY <2>6, Balances
  <2> QED
    BY <2>5, <2>7, Zenon
<1> QED
  BY <1>1, AccountsSeen

(* What the till does shows at the counter on the cards that are elsewhere. *)
LEMMA TillSeen ==
    ASSUME EventInv, EventInv', TillRun
    PROVE  \/ CounterWorld!Elsewhere /\ UNCHANGED <<ticket, late, armed>>
           \/ UNCHANGED CounterWorld!vars
<1>1. /\ TP!Accounted
      /\ \/ mem' = mem /\ suspect' = suspect
         \/ \E t \in Tags \ Unsupported, L \in SUBSET TP!Blocks : TP!CreateHere(t, L)
         \/ \E t \in Tags \ Unsupported : /\ tImage.amt + tCredit \in Credits
                                          /\ TP!CreditHere(t, tImage.amt + tCredit)
  BY SameTill, SameAssumptions, TP!TillStep, TP!TillHere DEF EventInv, TillRun
<1>2. /\ UNCHANGED <<kField, kCard, kImage, kBroken, kCredit, kPc, ticket, late, armed>>
      /\ UNCHANGED <<CounterWorld!reader, CounterWorld!copy, kCredit, kPc>>
  BY DEF TillRun, counter, CounterWorld!reader, CounterWorld!copy
<1>3. \A t \in Tags : tField = t => kField # t
  BY EventAssumption DEF EventInv
<1>4. \A s \in Tags : s # tField => mem'[s] = mem[s]
  BY <1>1 DEF TP!Accounted
<1>5. CASE mem' = mem /\ suspect' = suspect
  BY <1>1, <1>2, <1>5, TillUnseen DEF CounterWorld!vars, CounterWorld!desk
<1>6. ASSUME NEW t \in Tags \ Unsupported, NEW L \in SUBSET TP!Blocks, TP!CreateHere(t, L)
      PROVE  CounterWorld!CreateElsewhere(t, L)
  <2>1. /\ L # {} => /\ tField = t
                    /\ \/ t \in suspect \/ mem[t].kind = "BLANK"
                       \/ mem[t].kind = "DEBIT" /\ 0 \notin L
        /\ TP!Created(t, L)
    BY <1>6 DEF TP!CreateHere
  <2>2. /\ \A s \in Tags : s # t => mem'[s] = mem[s] /\ owed'[s] = owed[s]
        /\ mem'[t].kind = IF 0 \in L THEN "DEBIT" ELSE mem[t].kind
        /\ mem'[t].amt  = IF 1 \in L THEN 0 ELSE mem[t].amt
        /\ owed'[t] = 0 /\ (t \notin suspect' => L = TP!Blocks)
        /\ suspect \subseteq suspect' /\ suspect' \subseteq suspect \cup {t}
    BY <2>1, SameAssumptions, TP!CreatedFacts DEF EventInv, TP!TypeOK, TP!Created, TP!Suspect
  <2>3. \A s \in Tags : s # t => CounterOwed'[s] = CounterOwed[s]
    <3>1. SUFFICES ASSUME NEW s \in Tags, s # t, s \notin suspect'
                   PROVE  owed'[s] + Till!Pending(s)' = owed[s] + Till!Pending(s)
      BY <2>2, AccountsSeen
    <3>2. mem'[s].amt - owed'[s] - Till!Pending(s)' = mem[s].amt - owed[s] - Till!Pending(s)
      BY <1>1, <2>2, <3>1 DEF TP!Accounted, Till!Pending, TP!Pending
    <3> QED
      BY <2>2, <3>1, <3>2, Amounts, AmountsNext
  <2>4. CounterOwed'[t] = 0
    <3>1. SUFFICES ASSUME t \notin suspect' PROVE owed'[t] + Till!Pending(t)' = 0
      BY AccountsSeen
    <3>2. 0 \in L /\ 1 \in L /\ L # {}
      BY <2>2, <3>1 DEF TP!Blocks
    <3>3. mem[t].kind = "BLANK" /\ mem'[t].kind = "DEBIT" /\ mem'[t].amt = 0
      BY <2>1, <2>2, <3>1, <3>2
    <3>4. mem'[t].amt = owed'[t] + Till!Pending(t)'
      BY <1>1, <3>1, <3>3 DEF TP!Accounted, Till!Pending, TP!Pending
    <3> QED
      BY <3>3, <3>4
  <2>5. CounterOwed' = [CounterOwed EXCEPT ![t] = 0]
    BY <2>3, <2>4, AccountsSeen
  <2>6. CounterWorld!Written(t, [CounterWorld!Unread EXCEPT !.kind = "DEBIT"], L)
    BY <2>1 DEF TP!Created, TP!Written, TP!Unread, CounterWorld!Written, CounterWorld!Unread
  <2>7. IF L = CounterWorld!Blocks THEN UNCHANGED suspect ELSE CounterWorld!Suspect(t)
    BY <2>1, <2>5 DEF TP!Created, TP!Suspect, TP!Blocks, TP!Cardinality,
                      CounterWorld!Suspect, CounterWorld!Blocks, CounterWorld!Cardinality
  <2>8. CounterWorld!Created(t, L)
    BY <2>5, <2>6, <2>7 DEF CounterWorld!Created
  <2> QED
    BY <1>3, <2>1, <2>8 DEF CounterWorld!CreateElsewhere
<1>7. ASSUME NEW t \in Tags \ Unsupported, tImage.amt + tCredit \in Credits,
             TP!CreditHere(t, tImage.amt + tCredit)
      PROVE  \E v \in Credits : CounterWorld!CreditElsewhere(t, v)
  <2> DEFINE v == tImage.amt + tCredit
  <2>1. /\ tField = t /\ mem[t].kind = "DEBIT" /\ v \in Credits
        /\ mem' = [mem EXCEPT ![t].amt = v] /\ suspect' = suspect
    BY <1>7 DEF TP!CreditHere
  <2> HIDE DEF v
  <2>2. mem \in [Tags -> TP!Card] /\ v \in Int /\ t \in Tags
    BY <2>1, Amounts, EventAssumption
  <2>3. /\ mem'[t].amt = v /\ \A s \in Tags : mem'[s].kind = mem[s].kind
        /\ \A s \in Tags : s # t => mem'[s] = mem[s]
    BY <2>1, <2>2 DEF TP!Card
  <2>5. ASSUME NEW s \in Tags, s \notin suspect
        PROVE  owed'[s] + Till!Pending(s)' = owed[s] + Till!Pending(s) + (mem'[s].amt - mem[s].amt)
    <3>1. mem'[s].amt - owed'[s] - Till!Pending(s)' = mem[s].amt - owed[s] - Till!Pending(s)
      BY <1>1, <2>1, <2>3, <2>5 DEF TP!Accounted, Till!Pending, TP!Pending
    <3> QED
      BY <3>1, Amounts, AmountsNext
  <2>6. \A s \in Tags : s # t => CounterOwed'[s] = CounterOwed[s]
    BY <2>1, <2>3, <2>5, Amounts, AmountsNext, AccountsSeen
  <2>7. CounterOwed'[t] = IF t \in suspect THEN CounterOwed[t] ELSE CounterOwed[t] + (v - mem[t].amt)
    BY <2>1, <2>2, <2>3, <2>5, AccountsSeen
  <2>8. CounterWorld!Owe(t, v - mem[t].amt)
    BY <2>2, <2>6, <2>7, AccountsSeen DEF CounterWorld!Owe
  <2> QED
    BY <1>3, <2>1, <2>2, <2>8 DEF CounterWorld!CreditElsewhere
<1>8. TP!Blocks = CounterWorld!Blocks
  BY DEF TP!Blocks, CounterWorld!Blocks
<1> QED
  BY <1>1, <1>2, <1>5, <1>6, <1>7, <1>8 DEF CounterWorld!Elsewhere

(* What the counter does shows at the till on the cards that are elsewhere. *)
LEMMA CounterSeen ==
    ASSUME EventInv, EventInv', CounterRun
    PROVE  TillWorld!Elsewhere \/ UNCHANGED TillWorld!vars
<1>1. /\ CP!Accounted
      /\ \/ mem' = mem /\ suspect' = suspect
         \/ \E t \in Tags \ Unsupported : CP!CreateHere(t, {})
         \/ \E t \in Tags \ Unsupported : CP!TicketHere(t)
         \/ \E t \in Tags \ Unsupported : \E v \in Credits : CP!CreditHere(t, v)
  BY SameCounter, SameAssumptions, CP!CounterStep, CP!CounterHere DEF EventInv, CounterRun
<1>2. /\ UNCHANGED <<tField, tCard, tImage, tBroken, tCredit, tPc>>
      /\ UNCHANGED <<TillWorld!reader, TillWorld!copy, tCredit, tPc>>
  BY DEF CounterRun, till, TillWorld!reader, TillWorld!copy
<1>3. \A t \in Tags : kField = t => tField # t
  BY EventAssumption DEF EventInv
<1>4. ASSUME NEW s \in Tags, s \notin suspect'
      PROVE  owed'[s] - Counter!Pending(s)' = owed[s] - Counter!Pending(s) + (mem'[s].amt - mem[s].amt)
  <2>1. mem'[s].amt + Counter!Pending(s)' - owed'[s] = mem[s].amt + Counter!Pending(s) - owed[s]
    <3>1. s \in Tags \ suspect'
      BY <1>4
    <3>2. mem'[s].amt + CP!Pending(s)' - owed'[s] = mem[s].amt + CP!Pending(s) - owed[s]
      BY <1>1, <3>1 DEF CP!Accounted
    <3>3. Counter!Pending(s) = CP!Pending(s)
      BY DEF Counter!Pending, CP!Pending
    <3>4. Counter!Pending(s)' = CP!Pending(s)'
      BY DEF Counter!Pending, CP!Pending
    <3> QED
      BY <3>2, <3>3, <3>4
  <2>2. /\ mem[s].amt \in Int /\ owed[s] \in Int /\ Counter!Pending(s) \in Int
        /\ mem'[s].amt \in Int /\ owed'[s] \in Int /\ Counter!Pending(s)' \in Int
    BY Amounts, AmountsNext
  <2> QED
    BY <2>1, <2>2
<1>5. CASE mem' = mem /\ suspect' = suspect
  BY <1>1, <1>2, <1>5, CounterUnseen DEF TillWorld!vars, TillWorld!desk
<1>6. ASSUME NEW t \in Tags \ Unsupported, CP!CreateHere(t, {})
      PROVE  TillWorld!CreateElsewhere(t, {})
  <2>1. CP!Created(t, {}) /\ {} # CP!Blocks
    BY <1>6 DEF CP!CreateHere, CP!Blocks
  <2>2. suspect' = suspect \cup {t} /\ mem' = mem
    BY <2>1, SameAssumptions, CP!CreatedFacts DEF EventInv, CP!Known, CP!Created, CP!Suspect
  <2>3. \A s \in Tags : s # t => TillOwed'[s] = TillOwed[s]
    BY <1>4, <2>2, Amounts, AmountsNext, AccountsSeen
  <2>4. TillOwed' = [TillOwed EXCEPT ![t] = 0]
    BY <2>2, <2>3, AccountsSeen
  <2>5. TillWorld!Suspect(t)
    BY <2>1, <2>4 DEF CP!Created, CP!Suspect, CP!Cardinality,
                      TillWorld!Suspect, TillWorld!Cardinality
  <2>6. TillWorld!Written(t, [TillWorld!Unread EXCEPT !.kind = "DEBIT"], {})
    BY <2>1 DEF CP!Created, CP!Written, CP!Unread, TillWorld!Written, TillWorld!Unread
  <2> QED
    BY <2>1, <2>5, <2>6 DEF TillWorld!CreateElsewhere, TillWorld!Created, TillWorld!Blocks, CP!Blocks
<1>7. ASSUME NEW t \in Tags \ Unsupported, CP!TicketHere(t)
      PROVE  TillWorld!TicketElsewhere(t)
  <2>1. /\ kField = t /\ mem[t].kind = "DEBIT" /\ mem[t].cnt > 0
        /\ mem' = [mem EXCEPT ![t].cnt = @ - 1] /\ suspect' = suspect
    BY <1>7 DEF CP!TicketHere
  <2>2. \A s \in Tags : mem'[s].amt = mem[s].amt
    BY <2>1, Amounts DEF TP!Card
  <2>3. TillOwed' = TillOwed
    BY <1>1, <2>1, <2>2, CounterUnseen
  <2> QED
    BY <1>3, <2>1, <2>3 DEF TillWorld!TicketElsewhere, TillWorld!history
<1>8. ASSUME NEW t \in Tags \ Unsupported, NEW v \in Credits, CP!CreditHere(t, v)
      PROVE  TillWorld!CreditElsewhere(t, v)
  <2>1. /\ kField = t /\ mem[t].kind = "DEBIT"
        /\ mem' = [mem EXCEPT ![t].amt = v] /\ suspect' = suspect
    BY <1>8 DEF CP!CreditHere
  <2>2. mem \in [Tags -> TP!Card] /\ v \in Int /\ t \in Tags
    BY Amounts, EventAssumption
  <2>3. /\ mem'[t].amt = v
        /\ \A s \in Tags : s # t => mem'[s] = mem[s]
    BY <2>1, <2>2 DEF TP!Card
  <2>6. \A s \in Tags : s # t => TillOwed'[s] = TillOwed[s]
    BY <2>1, <2>3, <1>4, Amounts, AmountsNext, AccountsSeen
  <2>7. TillOwed'[t] = IF t \in suspect THEN TillOwed[t] ELSE TillOwed[t] + (v - mem[t].amt)
    BY <2>1, <2>2, <2>3, <1>4, AccountsSeen
  <2>8. TillWorld!Owe(t, v - mem[t].amt)
    BY <2>2, <2>6, <2>7, AccountsSeen DEF TillWorld!Owe
  <2> QED
    BY <1>3, <2>1, <2>8 DEF TillWorld!CreditElsewhere
<1>9. {} \in SUBSET TillWorld!Blocks
  OBVIOUS
<1> QED
  BY <1>1, <1>2, <1>5, <1>6, <1>7, <1>8, <1>9 DEF TillWorld!Elsewhere

(* A card that is carried changes no account. *)
LEMMA CarrySeen ==
    ASSUME Carry
    PROVE  /\ \/ TillWorld!Remove \/ \E t \in Tags : TillWorld!Place(t)
              \/ UNCHANGED TillWorld!vars
           /\ \/ /\ CounterWorld!Remove \/ \E t \in Tags : CounterWorld!Place(t)
                 /\ UNCHANGED <<ticket, late, armed>>
              \/ UNCHANGED CounterWorld!vars
<1>1. UNCHANGED <<mem, owed, suspect, tCard, tImage, tCredit, tPc,
                  kCard, kImage, kCredit, kPc, ticket, late, armed>>
  BY DEF Carry, Till!Remove, Counter!Remove, Till!Place, Counter!Place,
         Till!copy, Counter!copy, Till!history, Counter!history, till, counter
<1>2. TillOwed' = TillOwed /\ CounterOwed' = CounterOwed
  BY <1>1 DEF TillOwed, CounterOwed, Till!Pending, Counter!Pending
<1>3. CASE Till!Remove /\ UNCHANGED counter
  BY <1>1, <1>2, <1>3 DEF Till!Remove, TillWorld!Remove, TillWorld!copy, TillWorld!history,
                          counter, CounterWorld!vars, CounterWorld!desk
<1>4. CASE Counter!Remove /\ UNCHANGED <<till, ticket, late, armed>>
  BY <1>1, <1>2, <1>4 DEF Counter!Remove, CounterWorld!Remove, CounterWorld!copy, CounterWorld!history,
                          till, TillWorld!vars, TillWorld!desk
<1>5. ASSUME NEW t \in Tags, Till!Place(t), UNCHANGED counter
      PROVE  TillWorld!Place(t) /\ UNCHANGED CounterWorld!vars
  BY <1>1, <1>2, <1>5 DEF Till!Place, TillWorld!Place, TillWorld!copy, TillWorld!history,
                          counter, CounterWorld!vars, CounterWorld!desk
<1>6. ASSUME NEW t \in Tags, Counter!Place(t), UNCHANGED <<till, ticket, late, armed>>
      PROVE  CounterWorld!Place(t) /\ UNCHANGED TillWorld!vars
  BY <1>1, <1>2, <1>6 DEF Counter!Place, CounterWorld!Place, CounterWorld!copy, CounterWorld!history,
                          till, TillWorld!vars, TillWorld!desk
<1> QED
  BY <1>1, <1>3, <1>4, <1>5, <1>6 DEF Carry

LEMMA WorldsInit == Init => TillWorld!Init /\ CounterWorld!Init
<1> SUFFICES ASSUME Init PROVE TillWorld!Init /\ CounterWorld!Init
  OBVIOUS
<1>1. tPc = "poll" /\ kPc = "top" /\ suspect = {} /\ owed = [t \in Tags |-> InitCard[t].amt]
  BY DEF Init, Till!Init, Till!DeskInit, Counter!Init, Counter!DeskInit
<1>2. \A t : Till!Pending(t) = 0 /\ Counter!Pending(t) = 0
  BY <1>1 DEF Till!Pending, Counter!Pending
<1>3. \A t \in Tags : InitCard[t].amt \in Int
  BY EventAssumption DEF Till!Card
<1>4. TillOwed = owed /\ CounterOwed = owed
  BY <1>1, <1>2, <1>3, AccountsSeen
<1> QED
  BY <1>1, <1>4 DEF Init, Till!Init, Till!DeskInit, Till!Unread, TillWorld!Init, TillWorld!DeskInit,
     TillWorld!Unread, Counter!Init, Counter!DeskInit, Counter!Unread, CounterWorld!Init,
     CounterWorld!DeskInit, CounterWorld!Unread

LEMMA WorldsStep ==
    ASSUME EventInv, EventInv', [Next]_vars
    PROVE  [TillWorld!Next]_(TillWorld!vars) /\ [CounterWorld!Next]_(CounterWorld!vars)
<1>1. CASE TillRun
  BY <1>1, TillSees, TillSeen
     DEF TillWorld!Next, CounterWorld!Next, CounterWorld!World, CounterWorld!key
<1>2. CASE CounterRun
  BY <1>2, CounterSees, CounterSeen DEF TillWorld!Next, TillWorld!World, CounterWorld!Next
<1>3. CASE Carry
  BY <1>3, CarrySeen DEF TillWorld!Next, TillWorld!World, CounterWorld!Next, CounterWorld!World,
                         CounterWorld!key
<1>4. CASE UNCHANGED vars
  <2>1. UNCHANGED <<mem, owed, suspect, tField, tCard, tImage, tBroken, tCredit, tPc,
                    kField, kCard, kImage, kBroken, kCredit, kPc, ticket, late, armed>>
    BY <1>4 DEF vars, till, counter
  <2>2. TillOwed' = TillOwed /\ CounterOwed' = CounterOwed
    BY <2>1 DEF TillOwed, CounterOwed, Till!Pending, Counter!Pending
  <2> QED
    BY <2>1, <2>2 DEF TillWorld!vars, TillWorld!desk, CounterWorld!vars, CounterWorld!desk
<1> QED
  BY <1>1, <1>2, <1>3, <1>4 DEF Next

(* Each terminal, seen with the account it can know of, is a till, or a    *)
(* counter, among other terminals that keep what its own theorems assume   *)
(* of them, whatever sums are typed at either (caisse.cpp:90-98,           *)
(* kve.cpp:102-116).                                                       *)
THEOREM TerminalsRely == MCSpec => Relies
<1>1. EventInv /\ EventInv' /\ [Next]_vars =>
        [TillWorld!Next]_(TillWorld!vars) /\ [CounterWorld!Next]_(CounterWorld!vars)
  BY WorldsStep
<1> QED
  BY <1>1, InitParts, NextParts, EventInit, EventStep, WorldsInit, PTL
     DEF MCSpec, Relies, TillWorld!Spec, CounterWorld!Spec

-----------------------------------------------------------------------------
(* The history.  Its tables can be merged and lack only what their own      *)
(* server missed: both need that no database is connected to twice, and    *)
(* that the row in flight is in no table it has still to be sent to.       *)

(* The connections of a run are to different databases, and there are no    *)
(* more of them than databases.                                            *)
Connections ==
    /\ \A i, j \in DOMAIN m_mysql : i < j => m_mysql[i] < m_mysql[j]
    /\ \A i \in DOMAIN m_mysql : i <= m_mysql[i]
    /\ stage = "boot" => next # 0 /\ \A i \in DOMAIN m_mysql : m_mysql[i] < next
    /\ stage = "run" => m_mysql # <<>> /\ (next # 0 => sent # 0)

(* What a table holds, or a database missed, was sent; the row in flight   *)
(* was neither taken nor missed by those it is still to be sent to.        *)
InFlight ==
    \A s \in H!Servers :
        /\ \A i \in DOMAIN table[s] : table[s][i] <= sent /\ (s \in H!Ahead => table[s][i] # sent)
        /\ \A r \in missed[s] : r <= sent /\ (s \in H!Ahead => r # sent)

HistoryInv == H!TypeOK /\ Connections /\ InFlight /\ H!OnlyItsOwn /\ H!Mergeable

-----------------------------------------------------------------------------
LEMMA HistoryInit == H!Init => HistoryInv
<1> SUFFICES ASSUME H!Init PROVE HistoryInv
    OBVIOUS
<1> USE TerminalsAssumption
<1>1. H!TypeOK
    BY DEF H!Init, H!TypeOK, H!Servers, H!Rows
<1>2. Connections
    BY DEF H!Init, Connections
<1>3. InFlight
    BY DEF H!Init, InFlight
<1>4. H!OnlyItsOwn
    BY DEF H!Init, H!OnlyItsOwn, H!Has, H!Range
<1>5. H!Mergeable
    BY DEF H!Init, H!Mergeable
<1> QED  BY <1>1, <1>2, <1>3, <1>4, <1>5 DEF HistoryInv

(* A step that leaves the tables and the rows alone, and no row in flight. *)
LEMMA Quiet ==
    ASSUME HistoryInv, UNCHANGED <<table, sent, missed>>, H!TypeOK', Connections', cut \subseteq cut', H!Ahead' = {},
           H!Ahead # {} => sent \in cut'
    PROVE  HistoryInv'
<1>1. InFlight'
    BY DEF HistoryInv, InFlight
<1>2. H!OnlyItsOwn'
    BY DEF HistoryInv, H!OnlyItsOwn, H!Has
<1>3. H!Mergeable'
    BY DEF HistoryInv, H!Mergeable
<1> QED  BY <1>1, <1>2, <1>3 DEF HistoryInv

(* A step of the servers. *)
LEMMA Unmoved ==
    ASSUME HistoryInv, UNCHANGED <<table, m_mysql, next, stage, sent, missed, cut>>, up' \subseteq H!Servers
    PROVE  HistoryInv'
<1>1. H!TypeOK' /\ Connections'
    BY DEF HistoryInv, H!TypeOK, Connections
<1>2. H!Ahead' = H!Ahead
    BY DEF H!Ahead
<1>3. InFlight' /\ H!OnlyItsOwn' /\ H!Mergeable'
    BY <1>2 DEF HistoryInv, InFlight, H!OnlyItsOwn, H!Has, H!Mergeable
<1> QED  BY <1>1, <1>3 DEF HistoryInv

LEMMA PowerCutInv == HistoryInv /\ H!PowerCut => HistoryInv'
<1> SUFFICES ASSUME HistoryInv, H!PowerCut PROVE HistoryInv'
    OBVIOUS
<1>1. sent \in H!Rows \/ ~(stage = "run" /\ next # 0)
    BY TerminalsAssumption DEF HistoryInv, H!TypeOK, Connections, H!Rows
<1>2. H!TypeOK'
    BY <1>1, TerminalsAssumption DEF HistoryInv, H!TypeOK, H!PowerCut, H!Servers
<1>3. Connections'
    BY DEF H!PowerCut, Connections
<1>4. H!Ahead' = {} /\ (H!Ahead # {} => sent \in cut')
    BY DEF H!PowerCut, H!Ahead
<1> QED  BY <1>2, <1>3, <1>4, Quiet DEF H!PowerCut

LEMMA ConnectInv == HistoryInv /\ H!Connect => HistoryInv'
<1> SUFFICES ASSUME HistoryInv, H!Connect PROVE HistoryInv'
    OBVIOUS
<1>1. /\ stage = "boot" /\ stage' = stage /\ next \in H!Servers /\ next' = next + 1 /\ NbSqlInfo \in Nat
      /\ m_mysql \in Seq(H!Servers) /\ m_mysql' \in {m_mysql, Append(m_mysql, next)}
    BY TerminalsAssumption DEF H!Connect, HistoryInv, H!TypeOK, Connections, H!Servers
<1>2. m_mysql' \in Seq(H!Servers)
    BY <1>1
<1>3. H!TypeOK'
    BY <1>1, <1>2 DEF H!Connect, HistoryInv, H!TypeOK, H!Servers
<1>4. Connections'
    <2>1. ASSUME NEW i \in DOMAIN m_mysql' PROVE m_mysql'[i] < next'
        <3>1. \A k \in DOMAIN m_mysql : m_mysql[k] \in H!Servers /\ m_mysql[k] < next
            BY <1>1 DEF HistoryInv, Connections
        <3>2. m_mysql'[i] \in H!Servers /\ m_mysql'[i] <= next
            <4>1. CASE m_mysql' = m_mysql
                BY <1>1, <3>1, <4>1 DEF H!Servers
            <4>2. CASE m_mysql' = Append(m_mysql, next)
                <5>1. CASE i \in DOMAIN m_mysql
                    BY <1>1, <3>1, <4>2, <5>1 DEF H!Servers
                <5>2. CASE i \notin DOMAIN m_mysql
                    BY <1>1, <4>2, <5>2 DEF H!Servers
                <5> QED  BY <5>1, <5>2
            <4> QED  BY <1>1, <4>1, <4>2
        <3> QED  BY <1>1, <3>2 DEF H!Servers
    <2>2. ASSUME NEW i \in DOMAIN m_mysql', NEW j \in DOMAIN m_mysql', i < j
          PROVE  m_mysql'[i] < m_mysql'[j]
        <3>1. CASE m_mysql' = m_mysql
            BY <2>2, <3>1 DEF HistoryInv, Connections
        <3>2. CASE m_mysql' = Append(m_mysql, next)
            <4>1. i \in DOMAIN m_mysql
                BY <1>1, <2>2, <3>2
            <4>2. m_mysql'[i] = m_mysql[i] /\ m_mysql[i] < next
                BY <1>1, <3>2, <4>1 DEF HistoryInv, Connections
            <4>3. CASE j \in DOMAIN m_mysql
                BY <1>1, <2>2, <3>2, <4>1, <4>3 DEF HistoryInv, Connections
            <4>4. CASE j \notin DOMAIN m_mysql
                BY <1>1, <2>2, <3>2, <4>2, <4>4
            <4> QED  BY <4>3, <4>4
        <3> QED  BY <1>1, <3>1, <3>2
    <2>3. ASSUME NEW i \in DOMAIN m_mysql' PROVE i <= m_mysql'[i]
        <3>1. CASE m_mysql' = m_mysql
            BY <3>1 DEF HistoryInv, Connections
        <3>2. CASE m_mysql' = Append(m_mysql, next)
            <4>1. CASE i \in DOMAIN m_mysql
                BY <1>1, <3>2, <4>1 DEF HistoryInv, Connections
            <4>2. CASE i \notin DOMAIN m_mysql
                <5>1. i = Len(m_mysql) + 1 /\ m_mysql'[i] = next /\ Len(m_mysql) \in Nat
                    BY <1>1, <3>2, <4>2
                <5>2. Len(m_mysql) # 0 => Len(m_mysql) <= m_mysql[Len(m_mysql)] /\ m_mysql[Len(m_mysql)] < next
                                          /\ m_mysql[Len(m_mysql)] \in H!Servers
                    BY <1>1 DEF HistoryInv, Connections
                <5> QED  BY <1>1, <5>1, <5>2 DEF H!Servers
            <4> QED  BY <4>1, <4>2
        <3> QED  BY <1>1, <3>1, <3>2
    <2> QED  BY <1>1, <2>1, <2>2, <2>3 DEF Connections, H!Servers
<1>5. H!Ahead' = {} /\ H!Ahead = {}
    BY <1>1 DEF H!Ahead
<1> QED  BY <1>3, <1>4, <1>5, Quiet DEF H!Connect

LEMMA ConnectedInv == HistoryInv /\ H!Connected => HistoryInv'
<1> SUFFICES ASSUME HistoryInv, H!Connected PROVE HistoryInv'
    OBVIOUS
<1>1. H!TypeOK'
    BY TerminalsAssumption DEF H!Connected, HistoryInv, H!TypeOK
<1>2. Connections'
    BY DEF H!Connected, HistoryInv, Connections
<1>3. H!Ahead' = {} /\ H!Ahead = {}
    BY DEF H!Connected, H!Ahead
<1> QED  BY <1>1, <1>2, <1>3, Quiet DEF H!Connected

-----------------------------------------------------------------------------
LEMMA RequestInv == HistoryInv /\ H!Request => HistoryInv'
<1> SUFFICES ASSUME HistoryInv, H!Request PROVE HistoryInv'
    OBVIOUS
<1>1. /\ sent \in Nat /\ sent' = sent + 1 /\ sent' \in H!Rows /\ H!Ahead = {} /\ cut' = cut
      /\ table' = table /\ \A s \in H!Servers : H!Has(s)' = H!Has(s)
    BY TerminalsAssumption DEF H!Request, HistoryInv, H!TypeOK, H!Rows, H!Ahead, H!Has
<1>2. m_mysql' = m_mysql /\ m_mysql \in Seq(H!Servers)
    BY DEF H!Request, HistoryInv, H!TypeOK
<1>3. ASSUME NEW s \in H!Servers
      PROVE  missed'[s] = IF s \in H!LeftOut THEN missed[s] \cup {sent'} ELSE missed[s]
    BY <1>1, <1>3 DEF H!Request
<1>4. H!TypeOK'
    <2>1. missed' \in [H!Servers -> SUBSET H!Rows]
        BY <1>1 DEF H!Request, HistoryInv, H!TypeOK
    <2>2. stage' = "run" => next' <= Len(m_mysql')
        BY <1>2 DEF H!Request, HistoryInv, Connections
    <2>3. next' \in 0 .. NbSqlInfo + 1
        BY TerminalsAssumption DEF H!Request
    <2>4. sent' \in 0 .. MaxRows
        BY <1>1, TerminalsAssumption DEF H!Rows
    <2> QED  BY <2>1, <2>2, <2>3, <2>4 DEF H!Request, HistoryInv, H!TypeOK
<1>5. Connections'
    BY <1>1 DEF H!Request, HistoryInv, Connections
<1>6. H!Ahead' = H!Servers \ H!LeftOut
    BY <1>2 DEF H!Request, H!Ahead, H!LeftOut, H!Range
<1>7. InFlight'
    <2>1. ASSUME NEW s \in H!Servers, NEW i \in DOMAIN table[s] PROVE table'[s][i] < sent'
        <3>1. table[s] \in Seq(H!Rows)
            BY DEF HistoryInv, H!TypeOK
        <3>2. table[s][i] \in H!Rows /\ table[s][i] <= sent
            BY <3>1 DEF HistoryInv, InFlight
        <3> QED  BY <1>1, <3>2 DEF H!Rows
    <2>2. ASSUME NEW s \in H!Servers, NEW r \in missed'[s] PROVE r <= sent' /\ (s \in H!Ahead' => r # sent')
        <3>1. CASE r = sent' /\ s \in H!LeftOut
            BY <1>1, <1>6, <3>1 DEF H!Rows
        <3>2. CASE r \in missed[s]
            <4>1. r \in H!Rows /\ r <= sent
                BY <3>2 DEF HistoryInv, H!TypeOK, InFlight
            <4> QED  BY <1>1, <4>1 DEF H!Rows
        <3> QED  BY <1>3, <2>2, <3>1, <3>2
    <2>3. ASSUME NEW s \in H!Servers, NEW i \in DOMAIN table'[s]
          PROVE  table'[s][i] <= sent' /\ (s \in H!Ahead' => table'[s][i] # sent')
        <3>1. i \in DOMAIN table[s] /\ table'[s] \in Seq(H!Rows)
            BY <1>1, <1>4, <2>3 DEF H!TypeOK
        <3>2. table'[s][i] < sent' /\ table'[s][i] \in H!Rows
            BY <1>1, <2>1, <3>1
        <3> QED  BY <1>1, <3>2 DEF H!Rows
    <2> QED  BY <2>2, <2>3 DEF InFlight
<1>8. H!OnlyItsOwn'
    <2>1. ASSUME NEW s \in H!Servers PROVE (H!Has(s) \cap missed[s])' = {}
        <3>1. \A r \in H!Has(s) : r \in H!Rows /\ r <= sent
            BY DEF HistoryInv, InFlight, H!TypeOK, H!Has, H!Range
        <3>2. H!Has(s) \cap missed[s] = {}
            BY DEF HistoryInv, H!OnlyItsOwn
        <3>3. sent' \notin H!Has(s)
            BY <1>1, <3>1 DEF H!Rows
        <3>4. H!Has(s)' = H!Has(s) /\ missed'[s] \subseteq missed[s] \cup {sent'}
            BY <1>1, <1>3
        <3> QED  BY <3>2, <3>3, <3>4
    <2>2. ASSUME NEW s \in H!Servers, NEW r \in 1 .. sent', r \notin H!Has(s)'
          PROVE  r \in missed'[s] \cup cut' \cup (IF s \in H!Ahead' THEN {sent'} ELSE {})
        <3>1. CASE r = sent'
            BY <1>3, <1>6, <3>1
        <3>2. CASE r # sent'
            <4>1. r \in 1 .. sent /\ r \notin H!Has(s)
                BY <1>1, <2>2, <3>2
            <4>2. r \in missed[s] \cup cut
                BY <1>1, <4>1 DEF HistoryInv, H!OnlyItsOwn
            <4> QED  BY <1>1, <1>3, <4>2
        <3> QED  BY <3>1, <3>2
    <2> QED  BY <2>1, <2>2 DEF H!OnlyItsOwn
<1>9. H!Mergeable'
    BY <1>1 DEF HistoryInv, H!Mergeable
<1> QED  BY <1>4, <1>5, <1>7, <1>8, <1>9 DEF HistoryInv

(* What sendRequest does next leaves one database less ahead of the row.   *)
LEMMA Moves ==
    ASSUME HistoryInv, stage = "run", next # 0, H!Advance, UNCHANGED <<m_mysql, stage, sent>>
    PROVE  /\ m_mysql[next] \in H!Servers /\ m_mysql[next] \in H!Ahead
           /\ H!Ahead' = H!Ahead \ {m_mysql[next]}
           /\ next' \in 0 .. NbSqlInfo + 1 /\ next' <= Len(m_mysql) /\ sent \in H!Rows
           /\ Connections'
<1>1. /\ m_mysql \in Seq(H!Servers) /\ next \in 1 .. Len(m_mysql) /\ Len(m_mysql) \in Nat
      /\ next \in 0 .. NbSqlInfo + 1
    BY TerminalsAssumption DEF HistoryInv, H!TypeOK
<1>2. m_mysql[next] \in H!Servers /\ m_mysql[next] \in H!Ahead /\ sent \in H!Rows
    BY <1>1, TerminalsAssumption DEF H!Ahead, HistoryInv, H!TypeOK, Connections, H!Rows
<1>3. next' \in 0 .. NbSqlInfo + 1 /\ next' <= Len(m_mysql) /\ (next' # 0 => next' = next + 1)
    <2>1. Len(m_mysql) \in H!Servers
        <3>1. Len(m_mysql) <= m_mysql[Len(m_mysql)] /\ m_mysql[Len(m_mysql)] \in H!Servers
            BY <1>1 DEF HistoryInv, Connections
        <3> QED  BY <1>1, <3>1, TerminalsAssumption DEF H!Servers
    <2> QED  BY <1>1, <2>1, TerminalsAssumption DEF H!Advance, H!Servers
<1>4. \A i \in next + 1 .. Len(m_mysql) : m_mysql[next] \in H!Servers /\ m_mysql[i] \in H!Servers /\ m_mysql[next] < m_mysql[i]
    BY <1>1 DEF HistoryInv, Connections
<1>5. H!Ahead' = {m_mysql[i] : i \in next + 1 .. Len(m_mysql)}
    BY <1>1 DEF H!Advance, H!Ahead
<1>6. H!Ahead = {m_mysql[next]} \cup {m_mysql[i] : i \in next + 1 .. Len(m_mysql)}
    BY <1>1 DEF H!Ahead
<1>7. m_mysql[next] \notin {m_mysql[i] : i \in next + 1 .. Len(m_mysql)}
    BY <1>4 DEF H!Servers
<1>8. Connections'
    BY <1>3 DEF HistoryInv, Connections
<1> QED  BY <1>2, <1>3, <1>5, <1>6, <1>7, <1>8

LEMMA SendRowInv == HistoryInv /\ H!SendRow => HistoryInv'
<1> SUFFICES ASSUME HistoryInv, H!SendRow PROVE HistoryInv'
    OBVIOUS
<1> DEFINE here == m_mysql[next]
<1>1. /\ stage = "run" /\ next # 0 /\ H!Advance /\ UNCHANGED <<m_mysql, stage, sent, up, missed, cut>>
      /\ table' = [table EXCEPT ![here] = Append(@, sent)]
    BY DEF H!SendRow
<1>2. /\ here \in H!Servers /\ here \in H!Ahead /\ H!Ahead' = H!Ahead \ {here} /\ Connections' /\ sent \in H!Rows
      /\ next' \in 0 .. NbSqlInfo + 1 /\ next' <= Len(m_mysql)
    BY <1>1, Moves
<1> HIDE DEF here
<1>3. /\ table \in [H!Servers -> Seq(H!Rows)] /\ table' \in [H!Servers -> Seq(H!Rows)]
      /\ table'[here] = Append(table[here], sent)
      /\ \A s \in H!Servers \ {here} : table'[s] = table[s]
    <2>1. table \in [H!Servers -> Seq(H!Rows)]
        BY DEF HistoryInv, H!TypeOK
    <2>2. Append(table[here], sent) \in Seq(H!Rows)
        BY <1>2, <2>1
    <2> QED  BY <1>1, <1>2, <2>1, <2>2
<1>4. H!TypeOK'
    BY <1>1, <1>2, <1>3 DEF HistoryInv, H!TypeOK
<1>5. \A s \in H!Servers : H!Has(s)' = IF s = here THEN H!Has(s) \cup {sent} ELSE H!Has(s)
    <2> SUFFICES ASSUME NEW s \in H!Servers PROVE H!Has(s)' = IF s = here THEN H!Has(s) \cup {sent} ELSE H!Has(s)
        OBVIOUS
    <2>1. CASE s = here
        <3>1. table[s] \in Seq(H!Rows) /\ table'[s] = Append(table[s], sent)
            BY <1>3, <2>1
        <3>2. /\ DOMAIN table'[s] = DOMAIN table[s] \cup {Len(table[s]) + 1}
              /\ table'[s][Len(table[s]) + 1] = sent
              /\ \A i \in DOMAIN table[s] : table'[s][i] = table[s][i]
            BY <3>1
        <3> QED  BY <2>1, <3>2 DEF H!Has, H!Range
    <2>2. CASE s # here
        BY <1>3, <2>2 DEF H!Has
    <2> QED  BY <2>1, <2>2
<1>6. InFlight'
    <2>1. ASSUME NEW s \in H!Servers, NEW i \in DOMAIN table'[s]
          PROVE  table'[s][i] <= sent /\ (s \in H!Ahead' => table'[s][i] # sent)
        <3>1. CASE s = here
            BY <1>2, <1>3, <2>1, <3>1 DEF HistoryInv, InFlight, H!Rows
        <3>2. CASE s # here
            BY <1>2, <1>3, <2>1, <3>2 DEF HistoryInv, InFlight
        <3> QED  BY <3>1, <3>2
    <2>2. ASSUME NEW s \in H!Servers, NEW r \in missed[s] PROVE r <= sent /\ (s \in H!Ahead' => r # sent)
        BY <1>2 DEF HistoryInv, InFlight
    <2> QED  BY <1>1, <2>1, <2>2 DEF InFlight
<1>7. H!OnlyItsOwn'
    <2>1. sent \notin missed[here]
        BY <1>2 DEF HistoryInv, InFlight
    <2>2. ASSUME NEW s \in H!Servers PROVE H!Has(s)' \cap missed[s] = {}
        <3>1. H!Has(s) \cap missed[s] = {}
            BY DEF HistoryInv, H!OnlyItsOwn
        <3>2. CASE s = here
            BY <1>5, <2>1, <3>1, <3>2
        <3>3. CASE s # here
            BY <1>5, <3>1, <3>3
        <3> QED  BY <3>2, <3>3
    <2>3. ASSUME NEW s \in H!Servers
          PROVE  (1 .. sent) \ H!Has(s)' \subseteq missed[s] \cup cut \cup (IF s \in H!Ahead' THEN {sent} ELSE {})
        <3>1. (1 .. sent) \ H!Has(s) \subseteq missed[s] \cup cut \cup (IF s \in H!Ahead THEN {sent} ELSE {})
            BY DEF HistoryInv, H!OnlyItsOwn
        <3>2. CASE s = here
            BY <1>2, <1>5, <3>1, <3>2
        <3>3. CASE s # here
            BY <1>2, <1>5, <3>1, <3>3
        <3> QED  BY <3>2, <3>3
    <2> QED  BY <1>1, <2>2, <2>3 DEF H!OnlyItsOwn
<1>8. H!Mergeable'
    <2> SUFFICES ASSUME NEW s \in H!Servers, NEW i \in DOMAIN table'[s], NEW j \in DOMAIN table'[s], i < j
                 PROVE  table'[s][i] < table'[s][j]
        BY DEF H!Mergeable
    <2>1. CASE s # here
        BY <1>3, <2>1 DEF HistoryInv, H!Mergeable
    <2>2. CASE s = here
        <3>1. i \in DOMAIN table[here] /\ table'[here][i] = table[here][i]
            BY <1>2, <1>3, <2>2
        <3>2. table[here][i] \in H!Rows /\ table[here][i] <= sent /\ table[here][i] # sent
            BY <1>2, <1>3, <3>1 DEF HistoryInv, InFlight
        <3>3. CASE j \in DOMAIN table[here]
            BY <1>2, <1>3, <2>2, <3>1, <3>3 DEF HistoryInv, H!Mergeable
        <3>4. CASE j \notin DOMAIN table[here]
            BY <1>2, <1>3, <2>2, <3>1, <3>2, <3>4 DEF H!Rows
        <3> QED  BY <3>3, <3>4
    <2> QED  BY <2>1, <2>2
<1> QED  BY <1>2, <1>4, <1>6, <1>7, <1>8 DEF HistoryInv

LEMMA MissRowInv == HistoryInv /\ H!MissRow => HistoryInv'
<1> SUFFICES ASSUME HistoryInv, H!MissRow PROVE HistoryInv'
    OBVIOUS
<1> DEFINE here == m_mysql[next]
<1>1. /\ stage = "run" /\ next # 0 /\ H!Advance /\ UNCHANGED <<m_mysql, stage, sent, up, table, cut>>
      /\ missed' = [missed EXCEPT ![here] = @ \cup {sent}]
    BY DEF H!MissRow
<1>2. /\ here \in H!Servers /\ here \in H!Ahead /\ H!Ahead' = H!Ahead \ {here} /\ Connections' /\ sent \in H!Rows
      /\ next' \in 0 .. NbSqlInfo + 1 /\ next' <= Len(m_mysql)
    BY <1>1, Moves
<1> HIDE DEF here
<1>3. /\ missed' \in [H!Servers -> SUBSET H!Rows]
      /\ missed'[here] = missed[here] \cup {sent} /\ \A s \in H!Servers \ {here} : missed'[s] = missed[s]
      /\ \A s \in H!Servers : H!Has(s)' = H!Has(s)
    BY <1>1, <1>2 DEF HistoryInv, H!TypeOK, H!Has
<1>4. H!TypeOK'
    BY <1>1, <1>2, <1>3 DEF HistoryInv, H!TypeOK
<1>5. InFlight'
    <2>1. ASSUME NEW s \in H!Servers, NEW i \in DOMAIN table[s]
          PROVE  table[s][i] <= sent /\ (s \in H!Ahead' => table[s][i] # sent)
        BY <1>2 DEF HistoryInv, InFlight
    <2>2. ASSUME NEW s \in H!Servers, NEW r \in missed'[s] PROVE r <= sent /\ (s \in H!Ahead' => r # sent)
        BY <1>2, <1>3 DEF HistoryInv, InFlight, H!Rows
    <2> QED  BY <1>1, <2>1, <2>2 DEF InFlight
<1>6. sent \notin H!Has(here)
    BY <1>2 DEF HistoryInv, InFlight, H!Has, H!Range
<1>7. H!OnlyItsOwn'
    <2>1. ASSUME NEW s \in H!Servers PROVE H!Has(s) \cap missed'[s] = {}
        BY <1>3, <1>6 DEF HistoryInv, H!OnlyItsOwn
    <2>2. ASSUME NEW s \in H!Servers
          PROVE  (1 .. sent) \ H!Has(s) \subseteq missed'[s] \cup cut \cup (IF s \in H!Ahead' THEN {sent} ELSE {})
        BY <1>2, <1>3 DEF HistoryInv, H!OnlyItsOwn
    <2> QED  BY <1>1, <1>3, <2>1, <2>2 DEF H!OnlyItsOwn
<1>8. H!Mergeable'
    BY <1>1 DEF HistoryInv, H!Mergeable
<1> QED  BY <1>2, <1>4, <1>5, <1>7, <1>8 DEF HistoryInv

-----------------------------------------------------------------------------
LEMMA HistoryStep == HistoryInv /\ [H!Next]_(H!vars) => HistoryInv'
<1> SUFFICES ASSUME HistoryInv, [H!Next]_(H!vars) PROVE HistoryInv'
    OBVIOUS
<1>1. ASSUME NEW s \in H!Servers, H!Crash(s) PROVE HistoryInv'
    BY <1>1, Unmoved DEF H!Crash, HistoryInv, H!TypeOK
<1>2. ASSUME NEW s \in H!Servers, H!Recover(s) PROVE HistoryInv'
    BY <1>2, Unmoved DEF H!Recover, HistoryInv, H!TypeOK
<1>3. CASE UNCHANGED H!vars
    BY <1>3, Unmoved DEF H!vars, HistoryInv, H!TypeOK
<1> QED  BY <1>1, <1>2, <1>3, PowerCutInv, ConnectInv, ConnectedInv, RequestInv, SendRowInv, MissRowInv
           DEF H!Next, H!Terminal

(* A database lacks the rows it was down for, and those a power cut took,  *)
(* whatever the others did (application.cpp:64-68).                        *)
THEOREM LossesStayLocal == MCSpec => []OnlyItsOwn
<1>1. HistoryInv => OnlyItsOwn
  BY DEF HistoryInv, OnlyItsOwn
<1> QED
  BY <1>1, InitParts, NextParts, HistoryInit, HistoryStep, PTL DEF MCSpec

(* The tables of the databases can always be merged (mysql.cpp:66-71).     *)
THEOREM TablesMerge == MCSpec => []Mergeable
<1>1. HistoryInv => Mergeable
  BY DEF HistoryInv, Mergeable
<1> QED
  BY <1>1, InitParts, NextParts, HistoryInit, HistoryStep, PTL DEF MCSpec
=============================================================================
