------------------------------ MODULE JsonText ------------------------------
(***************************************************************************)
(* The texts of a Json::Value: what FastWriter and StyledWriter write, and *)
(* what Reader makes of it after somebody edited it.  A text is a sequence *)
(* of tokens; comments are tokens, space is not.                           *)
(***************************************************************************)
EXTENDS JsonValue, SequencesExt

CONSTANTS
    rightMargin,  \* of StyledWriter, in tokens
    Tokens,       \* that an editor may put in
    Edited,       \* BOUND: the values whose text is edited
    MaxEdits      \* BOUND: edits of a text

VARIABLES
    doc,
    edits,        \* -1 before the value is written
    written       \* the value that was written

(* One token: its kind, the string of a string, the number of a number.     *)
Tok(t)    == [tok |-> t, s |-> "", n |-> 0]
StrTok(s) == [Tok("string") EXCEPT !.s = s]
NumTok(n) == [Tok("number") EXCEPT !.n = n]  \* in halves
EndTok    == Tok("end of stream")

-----------------------------------------------------------------------------
(* valueToString, valueToQuotedString: a real without a fraction looks like *)
(* an integer, and no string is written as nothing.                        *)
valueToString(v) ==
    CASE v.type = "null"    -> <<Tok("null")>>
      [] v.type = "boolean" -> <<Tok(IF v.n = 1 THEN "true" ELSE "false")>>
      [] v.type = "string"  -> IF v.s = NoString THEN <<>> ELSE <<StrTok(v.s)>>
      [] OTHER              -> <<NumTok(asDouble(v))>>

Join(texts) == FlattenSeq([i \in DOMAIN texts |-> IF i = 1 THEN texts[i] ELSE <<Tok(",")>> \o texts[i]])

RECURSIVE FastWriter(_)
FastWriter(v) ==
    CASE v.type = "array"  ->
            <<Tok("[")>> \o Join([i \in 1..size(v) |-> FastWriter(At(v, i - 1))]) \o <<Tok("]")>>
      [] v.type = "object" ->
            LET names == getMemberNames(v)
            IN  <<Tok("{")>> \o Join([i \in DOMAIN names |->
                    <<StrTok(names[i]), Tok(":")>> \o FastWriter(v.obj[names[i]])]) \o <<Tok("}")>>
      [] OTHER -> valueToString(v)

(* StyledWriter: the text, and the texts of the elements of a short array,  *)
(* which pushValue collects while addChildValues is set.                   *)
Writing(text) == [text |-> text, childValues |-> <<>>, addChildValues |-> FALSE]

pushValue(w, text) ==
    IF w.addChildValues THEN [w EXCEPT !.childValues = Append(@, text)] ELSE [w EXCEPT !.text = @ \o text]
Put(w, text) == [w EXCEPT !.text = @ \o text]

RECURSIVE writeValue(_, _)

(* Mutant: the texts collected for an earlier array stay there. *)
isMultineArrayKeeps(w, v) ==
    LET n      == size(v)
        nested == n * 3 >= rightMargin \/ \E i \in 0..(n - 1) : At(v, i).type \in {"array", "object"} /\ size(At(v, i)) > 0
        all    == FoldLeft(LAMBDA x, i : writeValue(x, At(v, i - 1)), [w EXCEPT !.addChildValues = TRUE], [i \in 1..n |-> i])
        length == 4 + (n - 1) * 2 + FoldLeft(LAMBDA x, t : x + Len(t), 0, all.childValues)
    IN  IF nested THEN [w |-> w, is |-> TRUE]
        ELSE [w |-> [all EXCEPT !.addChildValues = FALSE], is |-> length >= rightMargin]

(* An array goes on one line when its elements are scalars or empty, and    *)
(* there is room for them.                                                 *)
isMultineArray(w, v) ==
    LET n       == size(v)
        cleared == [w EXCEPT !.childValues = <<>>]
        nested  == n * 3 >= rightMargin \/ \E i \in 0..(n - 1) : At(v, i).type \in {"array", "object"} /\ size(At(v, i)) > 0
        all     == FoldLeft(LAMBDA x, i : writeValue(x, At(v, i - 1)), [cleared EXCEPT !.addChildValues = TRUE], [i \in 1..n |-> i])
        length  == 4 + (n - 1) * 2 + FoldLeft(LAMBDA x, t : x + Len(t), 0, all.childValues)
    IN  IF nested THEN [w |-> cleared, is |-> TRUE]
        ELSE [w |-> [all EXCEPT !.addChildValues = FALSE], is |-> length >= rightMargin]

Comma(w, first) == IF first THEN w ELSE Put(w, <<Tok(",")>>)

writeArrayValue(w, v) ==
    IF size(v) = 0 THEN pushValue(w, <<Tok("["), Tok("]")>>)
    ELSE LET m == isMultineArray(w, v)
             hasChildValue == m.w.childValues # <<>>
             Child(x, i) == LET c == Comma(x, i = 1)
                            IN  IF ~m.is \/ hasChildValue THEN Put(c, c.childValues[i]) ELSE writeValue(c, At(v, i - 1))
         IN  Put(FoldLeft(Child, Put(m.w, <<Tok("[")>>), [i \in 1..size(v) |-> i]), <<Tok("]")>>)

writeObjectValue(w, v) ==
    LET names == getMemberNames(v)
        Child(x, i) == writeValue(Put(Comma(x, i = 1), <<StrTok(names[i]), Tok(":")>>), v.obj[names[i]])
    IN  IF names = <<>> THEN pushValue(w, <<Tok("{"), Tok("}")>>)
        ELSE Put(FoldLeft(Child, Put(w, <<Tok("{")>>), [i \in DOMAIN names |-> i]), <<Tok("}")>>)

writeValue(w, v) ==
    CASE v.type = "array"  -> writeArrayValue(w, v)
      [] v.type = "object" -> writeObjectValue(w, v)
      [] OTHER             -> pushValue(w, valueToString(v))

StyledWriter(v) == writeValue(Writing(<<>>), v).text

(* The same writer onto a stream, for operator<<: they part in layout only. *)
StyledStreamWriter(v) == writeValue(Writing(<<>>), v).text

-----------------------------------------------------------------------------
(* Reader.  Each function gives whether it was successful, the value, and   *)
(* the place of the next token.                                            *)
readToken(d, i) == IF i <= Len(d) THEN d[i] ELSE EndTok

(* The first place from i on where there is no comment. *)
RECURSIVE skipCommentTokens(_, _)
skipCommentTokens(d, i) == IF readToken(d, i).tok = "comment" THEN skipCommentTokens(d, i + 1) ELSE i

Read(v, i) == [ok |-> TRUE, v |-> v, at |-> i]

(* Everything is passed over until the end of what failed, as far as it can *)
(* be told: the next token of that kind, of whatever level.                *)
RECURSIVE recoverFromError(_, _, _)
recoverFromError(d, i, skipUntilToken) ==
    IF readToken(d, i).tok \in {skipUntilToken, "end of stream"} THEN [ok |-> FALSE, v |-> Null, at |-> i + 1]
    ELSE recoverFromError(d, i + 1, skipUntilToken)

(* An integer, unless its text has a fraction or it is too large. *)
decodeNumber(n) ==
    IF n % 2 = 1 THEN RealValue(n)
    ELSE CASE n < 2 * minLargestInt \/ n > 2 * maxLargestUInt -> RealValue(n)
           [] n <= 2 * maxInt -> IntValue(n \div 2)
           [] OTHER -> UIntValue(n \div 2)

RECURSIVE readValue(_, _)
RECURSIVE readObject(_, _, _, _)
RECURSIVE readArray(_, _, _)

readValue(d, i) ==
    LET j == skipCommentTokens(d, i)
        t == readToken(d, j)
    IN  CASE t.tok = "{"      -> readObject(d, j + 1, Empty, "")
          [] t.tok = "["      -> IF readToken(d, j + 1).tok = "]" THEN Read(Value("array"), j + 2)
                                 ELSE readArray(d, j + 1, Empty)
          [] t.tok = "number" -> Read(decodeNumber(t.n), j + 1)
          [] t.tok = "string" -> Read(StringValue(t.s), j + 1)
          [] t.tok = "true"   -> Read(BoolValue(TRUE), j + 1)
          [] t.tok = "false"  -> Read(BoolValue(FALSE), j + 1)
          [] t.tok = "null"   -> Read(Null, j + 1)
          [] OTHER            -> [ok |-> FALSE, v |-> Null, at |-> j + 1]

(* Mutant: an object may end after any comma. *)
readObjectEndsAnywhere(d, i, members, name) ==
    LET j == skipCommentTokens(d, i)
        t == readToken(d, j)
        r == readValue(d, j + 2)
        k == skipCommentTokens(d, r.at)
        more == (t.s :> r.v) @@ members
    IN  CASE t.tok = "}" -> Read(ObjectValue(members), j + 1)
          [] t.tok # "string" \/ readToken(d, j + 1).tok # ":" -> recoverFromError(d, j + 1, "}")
          [] ~r.ok \/ readToken(d, r.at).tok \notin {"}", ",", "comment"} -> recoverFromError(d, r.at, "}")
          [] readToken(d, k).tok = "}" -> Read(ObjectValue(more), k + 1)
          [] OTHER -> readObject(d, k + 1, more, t.s)

(* The members so far, and the name of the last: an object may end where a  *)
(* name is expected as long as that is empty.  What follows the comments   *)
(* after a member is not looked at, but for the end of the object.         *)
readObject(d, i, members, name) ==
    LET j == skipCommentTokens(d, i)
        t == readToken(d, j)
        r == readValue(d, j + 2)
        k == skipCommentTokens(d, r.at)
        more == (t.s :> r.v) @@ members
    IN  CASE t.tok = "}" /\ name = "" -> Read(ObjectValue(members), j + 1)
          [] t.tok # "string" -> recoverFromError(d, j + 1, "}")
          [] t.tok = "string" /\ readToken(d, j + 1).tok # ":" -> recoverFromError(d, j + 2, "}")
          [] OTHER ->
                CASE ~r.ok -> recoverFromError(d, r.at, "}")
                  [] r.ok /\ readToken(d, r.at).tok \notin {"}", ",", "comment"} -> recoverFromError(d, r.at + 1, "}")
                  [] OTHER -> IF readToken(d, k).tok = "}" THEN Read(ObjectValue(more), k + 1)
                              ELSE readObject(d, k + 1, more, t.s)

readArray(d, i, elements) ==
    LET r == readValue(d, i)
        k == skipCommentTokens(d, r.at)
        more == (Cardinality(DOMAIN elements) :> r.v) @@ elements
    IN  CASE ~r.ok -> recoverFromError(d, r.at, "]")
          [] r.ok /\ readToken(d, k).tok = "," -> readArray(d, k + 1, more)
          [] r.ok /\ readToken(d, k).tok = "]" -> Read(ArrayValue(more), k + 1)
          [] OTHER -> recoverFromError(d, k + 1, "]")

(* What comes after the value is not read. *)
parse(d) == readValue(d, 1)

-----------------------------------------------------------------------------
textvars == <<doc, edits, written>>

TextInit == Init /\ doc = <<>> /\ edits = -1 /\ written = Null

Change == edits = -1 /\ Next /\ UNCHANGED textvars

Write ==
    /\ edits = -1 /\ edits' = 0 /\ written' = root
    /\ doc' \in {FastWriter(root), StyledWriter(root), StyledStreamWriter(root)}
    /\ root' = Null /\ assertion' = TRUE

(* Somebody edits the file. *)
Edit ==
    /\ 0 <= edits /\ edits < MaxEdits /\ edits' = edits + 1
    /\ written \in Edited /\ UNCHANGED written
    /\ \/ \E i \in 1..(Len(doc) + 1), t \in Tokens : doc' = InsertAt(doc, i, t)
       \/ \E i \in DOMAIN doc, t \in Tokens : doc' = [doc EXCEPT ![i] = t]
       \/ \E i \in DOMAIN doc : doc' = RemoveAt(doc, i)
    /\ UNCHANGED <<root, assertion>>

TextNext == Change \/ Write \/ Edit


-----------------------------------------------------------------------------
(* The same numbers, strings, elements and names, whatever the types of the *)
(* numbers and whether a null element was ever touched.                    *)
RECURSIVE Same(_, _)
Same(v, w) ==
    \/ v.type \in Numbers /\ w.type \in Numbers /\ asDouble(v) = asDouble(w)
    \/ /\ v.type = w.type /\ v.type \notin Numbers /\ v.n = w.n /\ v.s = w.s
       /\ size(v) = size(w) /\ DOMAIN v.obj = DOMAIN w.obj
       /\ v.type = "array" => \A i \in 0..(size(v) - 1) : Same(At(v, i), At(w, i))
       /\ \A k \in DOMAIN v.obj : Same(v.obj[k], w.obj[k])

RECURSIVE HasString(_)
HasString(v) ==
    /\ v.s # NoString
    /\ \A i \in DOMAIN v.arr : HasString(v.arr[i])
    /\ \A k \in DOMAIN v.obj : HasString(v.obj[k])

(* What either writer writes is read back as the same value, to the last    *)
(* token, unless a string value has no string: that is written as nothing. *)
RoundTrip ==
    edits = 0 /\ HasString(written) =>
        LET r == parse(doc) IN r.ok /\ r.at = Len(doc) + 1 /\ Same(r.v, written)

(* JSON: the values that a text without comments stands for. *)
RECURSIVE Denotes(_)
RECURSIVE Items(_, _)

Item(d, named) ==
    IF ~named THEN {<<"", v>> : v \in Denotes(d)}
    ELSE IF Len(d) > 2 /\ d[1].tok = "string" /\ d[2].tok = ":" THEN {<<d[1].s, v>> : v \in Denotes(SubSeq(d, 3, Len(d)))}
    ELSE {}

Items(d, named) ==
    {<<x>> : x \in Item(d, named)} \cup
    UNION {{<<x>> \o rest : x \in Item(SubSeq(d, 1, c - 1), named), rest \in Items(SubSeq(d, c + 1, Len(d)), named)} :
           c \in {i \in DOMAIN d : d[i].tok = ","}}

Denotes(d) ==
    IF d = <<>> THEN {}
    ELSE LET inner == SubSeq(d, 2, Len(d) - 1)
             Enclosed(open, close) == Len(d) > 1 /\ d[1].tok = open /\ d[Len(d)].tok = close
         IN  CASE Enclosed("[", "]") -> IF inner = <<>> THEN {Value("array")}
                     ELSE {ArrayValue([i \in 0..(Len(x) - 1) |-> x[i + 1][2]]) : x \in Items(inner, FALSE)}
               [] Enclosed("{", "}") -> IF inner = <<>> THEN {Value("object")}
                     ELSE {ObjectValue(FoldLeft(LAMBDA f, m : (m[1] :> m[2]) @@ f, Empty, x)) : x \in Items(inner, TRUE)}
               [] Len(d) = 1 /\ d[1].tok \in {"number", "string", "true", "false", "null"} -> {readValue(d, 1).v}
               [] OTHER -> {}

Text(d) == SelectSeq(d, LAMBDA t : t.tok # "comment")

(* Where a comment makes the reader refuse a text: in an empty array, and   *)
(* between a name and its colon.                                           *)
Refused(d) ==
    \E i \in 2..Len(d) : d[i].tok = "comment" /\
        LET next == readToken(d, skipCommentTokens(d, i)).tok
        IN  (d[i - 1].tok = "[" /\ next = "]") \/ (d[i - 1].tok = "string" /\ next = ":")

(* What makes it take a text that is none: after an empty name an object may*)
(* end with a comma; and whatever follows a comment after a member is taken*)
(* for a comma.                                                            *)
Indulged(d) ==
    \/ \E i \in 1..(Len(d) - 1) : d[i] = StrTok("") /\ d[i + 1].tok = ":"
    \/ \E i, j \in DOMAIN d : i < j /\ d[i].tok = "{" /\ d[j].tok = "comment"

(* The reader takes the texts that begin with a JSON value, no others, and  *)
(* gives that value: but for the two places where it minds a comment, and  *)
(* the two where it does not mind what is there.                           *)
ReaderExact ==
    LET r    == parse(doc)
        read == Denotes(Text(SubSeq(doc, 1, r.at - 1)))
    IN  edits >= 0 =>
        /\ r.ok /\ read # {} => r.v \in read
        /\ r.ok /\ read = {} => Indulged(doc)
        /\ ~r.ok /\ ~Refused(doc) => \A i \in DOMAIN doc : Denotes(Text(SubSeq(doc, 1, i))) = {}
=============================================================================
