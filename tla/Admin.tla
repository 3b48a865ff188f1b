------------------------------- MODULE Admin -------------------------------
(***************************************************************************)
(* The cards the menu of Admin creates.  It writes them without reading    *)
(* them first, waits at a prompt between a DEBIT card and its ticket, and  *)
(* writes every block it has touched again with the ticket.  As in         *)
(* CardDesk a write is one step with the outcomes CardSession gives it.    *)
(* How the menu chooses the mode is in Application.                        *)
(***************************************************************************)
EXTENDS Integers

CONSTANTS
    Tags, NoTag,
    Unsupported,  \* the tags that are no MIFARE Classic
    NbConso,      \* the consos of the configuration
    TicketIndex,  \* Config's "ticket": the index of a conso, -1 for none
    Content,      \* what a tag may hold before
    Credits       \* BOUND: the credits other terminals write

Kinds  == {"ADMIN", "SOS", "DEBIT", "CONSO"}
Blocks == 0 .. 2   \* kind; conso number or credit; ticket

VARIABLES
    field,    \* the tag on the reader
    mem,      \* what each tag holds in the blocks of sector 1
    card,     \* the tag of the Card object, NoTag when there is none
    image,    \* its cached blocks
    modified, \* those in state MODIFIED
    broken,   \* the tag was lifted since the reader last selected it
    asked,    \* the kind chosen in the menu
    id,       \* the conso chosen
    pc,
    made,     \* history, per tag: what it held, what the menu asked it to hold
              \* and the credit it was given since
    lost      \* history: the tags an error was printed about when last written

world   == <<field, mem>>
object  == <<card, image, modified>>
history == <<made, lost>>
vars    == <<field, mem, card, image, modified, broken, asked, id, pc, made, lost>>

Nothing == [b \in Blocks |-> IF b = 0 THEN "BLANK" ELSE 0]

Init ==
    /\ field = NoTag /\ mem \in [Tags \ Unsupported -> Content]
    /\ card = NoTag /\ image = Nothing /\ modified = {} /\ broken = TRUE
    /\ asked = "ADMIN" /\ id = 0 /\ pc = "menu"
    /\ made = mem /\ lost = {}

-----------------------------------------------------------------------------
(* Customers, and the other terminals. *)

Place(t) ==
    /\ field = NoTag
    /\ field' = t
    /\ UNCHANGED <<mem, object, broken, asked, id, pc, history>>

Remove ==
    /\ field # NoTag
    /\ field' = NoTag /\ broken' = TRUE
    /\ UNCHANGED <<mem, object, asked, id, pc, history>>

(* Another terminal tops a DEBIT card up, or debits it. *)
Elsewhere(t, v) ==
    /\ field # t /\ mem[t][0] = "DEBIT"
    /\ mem' = [mem EXCEPT ![t][1] = v]
    /\ made' = [made EXCEPT ![t][1] = v]
    /\ UNCHANGED <<field, object, broken, asked, id, pc, lost>>

-----------------------------------------------------------------------------
(* The menus.  The Card and the choice of a turn of the menu die with it.  *)

Menu(p) ==
    /\ pc' = p
    /\ card' = NoTag /\ image' = Nothing /\ modified' = {}
    /\ asked' = "ADMIN" /\ id' = 0

EnterCardMenu ==
    /\ pc = "menu"
    /\ Menu("cards")
    /\ UNCHANGED <<world, broken, history>>

LeaveCardMenu ==
    /\ pc = "cards"
    /\ Menu("menu")
    /\ UNCHANGED <<world, broken, history>>

Choose(kind) ==
    /\ pc = "cards"
    /\ asked' = kind /\ id' = 0
    /\ pc' = IF kind = "CONSO" THEN "conso" ELSE "lay"
    /\ UNCHANGED <<world, object, broken, history>>

(* The digit typed; the number just past the last conso is let through.    *)
ChooseConso(n) ==
    /\ pc = "conso" /\ n >= 0 /\ n <= NbConso
    /\ id' = n /\ pc' = "lay"
    /\ UNCHANGED <<world, object, broken, asked, history>>

WrongConso(n) ==
    /\ pc = "conso" /\ (n < 0 \/ n > NbConso)
    /\ Menu("cards")
    /\ UNCHANGED <<world, broken, history>>

-----------------------------------------------------------------------------
(* findCard waits for a tag, and makes a Card of it that was never read.   *)

LayCard ==
    /\ pc = "lay" /\ field \in Tags \ Unsupported
    /\ card' = field /\ image' = Nothing /\ modified' = {} /\ broken' = FALSE
    /\ made' = [made EXCEPT ![field] = mem[field]]
    /\ pc' = "create"
    /\ UNCHANGED <<world, asked, id, lost>>

(* The constructor of Card throws, out of the menu: run() starts again.    *)
LayThrows ==
    /\ pc = "lay" /\ field \in Unsupported
    /\ Menu("menu")
    /\ UNCHANGED <<world, broken, history>>

(* The reader reports an error: findCard returns null, and the null Card   *)
(* is used all the same.                                                   *)
LayFails ==
    /\ pc = "lay"
    /\ Menu("crashed")
    /\ UNCHANGED <<world, broken, history>>

-----------------------------------------------------------------------------
(* Mutant: writeCard finds the card again before it writes. *)
LandsOnceFound(L) == L # {} => field = card

(* As in CardDesk: no block without the tag, and not the first one, which  *)
(* is the kind, once the tag was lifted.                                   *)
Lands(L) ==
    /\ L # {} => field = card
    /\ broken => 0 \notin L

(* The menu asks for the blocks A of c; a block that does not land, or     *)
(* whose answer is lost, has an error printed.                             *)
Account(c, A, M, L) ==
    /\ made' = [made EXCEPT ![card] = [b \in Blocks |-> IF b \in A THEN c[b] ELSE @[b]]]
    /\ lost' \in {lost \cup {card}} \cup (IF L = M THEN {lost \ {card}} ELSE {})

(* writeCard of the Card c, with the blocks M modified, of which L land.   *)
writeCard(c, A, M, L) ==
    /\ L \subseteq M /\ Lands(L)
    /\ mem' = [mem EXCEPT ![card] = [b \in Blocks |-> IF b \in L THEN c[b] ELSE @[b]]]
    /\ Account(c, A, M, L)

(* The errors of a write end with the tag selected again, if it is there.  *)
Reselect == broken' \in IF field = card THEN {broken, FALSE} ELSE {broken}

(* createAdmin and createSOS touch the first block only. *)
createKind(L) ==
    /\ pc = "create" /\ asked \in {"ADMIN", "SOS"}
    /\ writeCard([image EXCEPT ![0] = asked], {0}, {0}, L)
    /\ Menu("cards")
    /\ UNCHANGED <<field, broken>>

createConso(L) ==
    /\ pc = "create" /\ asked = "CONSO"
    /\ writeCard([image EXCEPT ![0] = "CONSO", ![1] = id], {0, 1}, {0, 1}, L)
    /\ Menu("cards")
    /\ UNCHANGED <<field, broken>>

createDebit(L) ==
    /\ pc = "create" /\ asked = "DEBIT"
    /\ image' = [image EXCEPT ![0] = "DEBIT", ![1] = 0, ![2] = 0]
    /\ modified' = Blocks
    /\ writeCard(image', Blocks, Blocks, L)
    /\ Reselect
    /\ pc' = "ticket"
    /\ UNCHANGED <<field, card, asked, id>>

(* One ticket, for a conso: the index becomes a byte.  The blocks written  *)
(* by createDebit are still MODIFIED, and are written once more.           *)
setTicket(L) ==
    /\ pc = "ticket"
    /\ writeCard([image EXCEPT ![2] = 1 + (TicketIndex % 256)], {2}, modified \cup {2}, L)
    /\ Menu("cards")
    /\ UNCHANGED <<field, broken>>

NoTicket ==
    /\ pc = "ticket"
    /\ Menu("cards")
    /\ UNCHANGED <<world, broken, history>>

Create ==
    \E L \in SUBSET Blocks :
        createKind(L) \/ createConso(L) \/ createDebit(L) \/ setTicket(L)

Next ==
    \/ EnterCardMenu \/ LeaveCardMenu
    \/ \E k \in Kinds : Choose(k)
    \/ \E n \in -1 .. NbConso + 1 : ChooseConso(n) \/ WrongConso(n)
    \/ LayCard \/ LayThrows \/ LayFails \/ Create \/ NoTicket
    \/ Remove
    \/ \E t \in Tags : Place(t)
    \/ \E t \in Tags \ Unsupported, v \in Credits : Elsewhere(t, v)

Spec == Init /\ [][Next]_vars

-----------------------------------------------------------------------------
(* A card no error was printed about when it was last written holds what   *)
(* the menu said, or what it held before, and the credit it was given      *)
(* since: no torn creation goes unreported, a ticket set after the new card*)
(* was lifted and topped up elsewhere takes nothing back, and a card that  *)
(* was swapped in at the prompt keeps what it was made, be it by this very *)
(* menu (admin.cpp:12-50,103-118, mode.cpp:101-115).                       *)
AsAsked == \A t \in Tags \ Unsupported : t \notin lost => mem[t] = made[t]

(* "Mauvaise conso" (admin.cpp:95): a CONSO card created without an error  *)
(* is a card of one of the consos listed in the menu (admin.cpp:88-89).    *)
ConsoKnown ==
    \A t \in Tags \ Unsupported :
        t \notin lost /\ made[t][0] = "CONSO" => made[t][1] < NbConso

=============================================================================
