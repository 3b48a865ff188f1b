--------------------------- MODULE MCJson ----------------------------------
(***************************************************************************)
(* Two things the program uses: the JSON library that reads config.txt,    *)
(* and two lines of the LCD.  "part" says which of them moves.             *)
(***************************************************************************)
EXTENDS Integers, Sequences, TLC

CONSTANT Blank

VARIABLES
    part, root, assertion, doc, edits, written, m_screen, age, lcd

json   == <<root, assertion, doc, edits, written>>
screen == <<m_screen, age, lcd>>

(* Int has three bits here, and Int64 five. *)
maxInt == 3
maxLargestInt == 15
MCStrings == <<"", "a", "b">>

(* The instance needs its constants before it can name its values. *)
V == INSTANCE JsonValue WITH Strings <- MCStrings, Samples <- {}, Parts <- {}, MaxIndex <- 2

Three == V!IntValue(3)
MCParts ==
    {V!Null, Three, V!UIntValue(31), V!Value("string"), V!StringValue(""), V!Value("array"),
     V!ArrayValue(1 :> V!Null), V!ObjectValue("" :> V!ArrayValue(0 :> Three))}
MCSamples ==
    MCParts \cup {V!IntValue(n) : n \in {-5, 15}} \cup {V!UIntValue(n) : n \in {3, 7}} \cup
    {V!RealValue(n) : n \in {-1, 1, 6, 7, 32, 64}} \cup {V!BoolValue(b) : b \in BOOLEAN} \cup {V!Value("object")}
MCEdited ==
    {V!ArrayValue(0 :> Three), V!ArrayValue(1 :> V!Null), V!ObjectValue("" :> Three), V!ObjectValue("a" :> Three)}

T(t) == [tok |-> t, s |-> "", n |-> 0]
MCTokens ==
    {T(t) : t \in {"{", "}", "[", "]", ",", ":", "comment", "error"}} \cup
    {[T("string") EXCEPT !.s = s] : s \in {"", "a"}} \cup {[T("number") EXCEPT !.n = 2]}

J == INSTANCE JsonText WITH
    Strings <- MCStrings, Samples <- MCSamples, Parts <- MCParts, MaxIndex <- 2,
    rightMargin <- 12, Tokens <- MCTokens, Edited <- MCEdited, MaxEdits <- 2

L == INSTANCE Screen WITH
    Lines <- {0, 1}, MaxQueue <- 3,
    Messages <- {[message |-> "POSEZ", time |-> 0], [message |-> "LECTURE", time |-> 0], [message |-> "OK", time |-> 2]}

MCInit == part \in {"json", "screen"} /\ J!TextInit /\ L!Init

MCNext ==
    \/ part = "json" /\ J!TextNext /\ UNCHANGED <<part, screen>>
    \/ part = "screen" /\ L!Next /\ UNCHANGED <<part, json>>

MCSpec ==
    /\ MCInit /\ [][MCNext]_<<part, json, screen>>
    /\ WF_screen(part = "screen" /\ L!print /\ UNCHANGED <<part, json>>)
    /\ WF_screen(part = "screen" /\ L!Second /\ UNCHANGED <<part, json>>)

-----------------------------------------------------------------------------
(* JsonValue: what a value says of its conversions is what they do, and the  *)
(* order of the values is total.                                           *)
ValuesSound == J!ConversionsAgree /\ (edits = -1 => J!Ordered)

(* JsonText: what is written is read back. *)
RoundTrip == J!RoundTrip

(* JsonText: the reader takes the texts of JSON, and gives their values. *)
ReaderExact == J!ReaderExact

(* Screen: the display catches up with the messages. *)
CatchesUp == L!CatchesUp

(* JsonValue: the assertion at the end of resize holds. *)
ResizeAssertion == J!ResizeAssertion
=============================================================================
