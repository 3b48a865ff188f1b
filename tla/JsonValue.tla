----------------------------- MODULE JsonValue -----------------------------
(***************************************************************************)
(* Json::Value, the tree that the configuration is read into: its types    *)
(* and their conversions, its orders, and the operations that change it.   *)
(* Numbers keep their ranges at a small width; a real is counted in halves.*)
(***************************************************************************)
EXTENDS Integers, Sequences, FiniteSets, TLC

CONSTANTS
    maxInt,         \* of Int; minInt is -maxInt - 1, maxUInt is 2 * maxInt + 1
    maxLargestInt,  \* of Int64
    Strings,        \* in the order of strcmp
    Samples,        \* values that the tree may be
    Parts,          \* values that its elements and members may be
    MaxIndex        \* BOUND: of the elements of an array

VARIABLES
    root,
    assertion       \* the assertion of the last call held, or there was none

minInt  == -maxInt - 1
maxUInt == 2 * maxInt + 1
minLargestInt  == -maxLargestInt - 1
maxLargestUInt == 2 * maxLargestInt + 1

(* The largest Int64 is no double: it becomes the next one. *)
maxLargestIntAsDouble == 2 * (maxLargestInt + 1)

ValueTypes == <<"null", "int", "uint", "real", "string", "boolean", "array", "object">>
TypeOrder(t) == CHOOSE i \in DOMAIN ValueTypes : ValueTypes[i] = t

-----------------------------------------------------------------------------
(* The constructors.  Value(stringValue) holds no string at all.            *)
NoString == "no string"
Empty == [x \in {} |-> x]
Value(t) ==
    [type |-> t, n |-> 0, s |-> IF t = "string" THEN NoString ELSE "", arr |-> Empty, obj |-> Empty]
Null == Value("null")

IntValue(n)    == [Value("int") EXCEPT !.n = n]
UIntValue(n)   == [Value("uint") EXCEPT !.n = n]
RealValue(n)   == [Value("real") EXCEPT !.n = n]
BoolValue(b)   == [Value("boolean") EXCEPT !.n = IF b THEN 1 ELSE 0]
StringValue(s) == [Value("string") EXCEPT !.s = s]
ArrayValue(f)  == [Value("array") EXCEPT !.arr = f]
ObjectValue(f) == [Value("object") EXCEPT !.obj = f]

Keys(v) == DOMAIN v.arr \cup DOMAIN v.obj

(* An element that was never touched leaves a hole. *)
size(v) ==
    CASE v.type = "array" /\ DOMAIN v.arr # {} -> 1 + CHOOSE i \in DOMAIN v.arr : \A j \in DOMAIN v.arr : j <= i
      [] v.type = "object" -> Cardinality(DOMAIN v.obj)
      [] OTHER -> 0

(* operator[] const *)
At(v, i)     == IF i \in DOMAIN v.arr THEN v.arr[i] ELSE Null
Member(v, k) == IF k \in DOMAIN v.obj THEN v.obj[k] ELSE Null

(* The names come in the order of the map. *)
getMemberNames(v) == SelectSeq(Strings, LAMBDA k : k \in DOMAIN v.obj)

-----------------------------------------------------------------------------
asDouble(v) == IF v.type = "real" THEN v.n ELSE 2 * v.n

IsIntegral(v) == v.n % 2 = 0
InRange(v, min, max) == 2 * min <= v.n /\ v.n <= 2 * max
Numbers == {"int", "uint", "real"}

isInt(v) ==
    CASE v.type = "int"  -> minInt <= v.n /\ v.n <= maxInt
      [] v.type = "uint" -> v.n <= maxInt
      [] v.type = "real" -> InRange(v, minInt, maxInt) /\ IsIntegral(v)
      [] OTHER -> FALSE
isUInt(v) ==
    CASE v.type \in {"int", "uint"} -> 0 <= v.n /\ v.n <= maxUInt
      [] v.type = "real" -> InRange(v, 0, maxUInt) /\ IsIntegral(v)
      [] OTHER -> FALSE
isInt64(v) ==
    CASE v.type = "int"  -> TRUE
      [] v.type = "uint" -> v.n <= maxLargestInt
      [] v.type = "real" -> 2 * minLargestInt <= v.n /\ v.n < maxLargestIntAsDouble /\ IsIntegral(v)
      [] OTHER -> FALSE
isUInt64(v) ==
    CASE v.type = "int"  -> v.n >= 0
      [] v.type = "uint" -> TRUE
      [] v.type = "real" -> 0 <= v.n /\ v.n < 2 * maxLargestIntAsDouble /\ IsIntegral(v)
      [] OTHER -> FALSE
isNumeric(v) == v.type = "real" \/ isInt64(v) \/ isUInt64(v)

(* A conversion throws, gives a number, or casts a double that its type     *)
(* cannot hold, of which C++ says nothing.                                 *)
Throws    == "throws"
Undefined == "undefined"
Number    == "number"
Gives(n)  == [is |-> Number, n |-> n]
Fails(x)  == [is |-> x, n |-> 0]

Truncated(v) == IF v.n >= 0 THEN v.n \div 2 ELSE -((-v.n) \div 2)
Integer(v, fits, inRange, holds) ==
    CASE v.type \in {"int", "uint"} -> IF fits THEN Gives(v.n) ELSE Fails(Throws)
      [] v.type = "real" -> IF ~inRange THEN Fails(Throws)
                            ELSE IF holds THEN Gives(Truncated(v)) ELSE Fails(Undefined)
      [] v.type = "null" -> Gives(0)
      [] v.type = "boolean" -> Gives(v.n)
      [] OTHER -> Fails(Throws)

asInt(v)    == Integer(v, isInt(v), InRange(v, minInt, maxInt), TRUE)
asUInt(v)   == Integer(v, isUInt(v), InRange(v, 0, maxUInt), TRUE)
asInt64(v)  == Integer(v, isInt64(v), 2 * minLargestInt <= v.n /\ v.n <= maxLargestIntAsDouble, v.n < maxLargestIntAsDouble)
asUInt64(v) == Integer(v, isUInt64(v), 0 <= v.n /\ v.n <= 2 * maxLargestIntAsDouble, v.n < 2 * maxLargestIntAsDouble)

CanAsDouble(v) == v.type \in Numbers \cup {"null", "boolean"}
CanAsBool(v)   == v.type \in Numbers \cup {"null", "boolean"}
CanAsString(v) == v.type \notin {"array", "object"}

isConvertibleTo(v, t) ==
    CASE t = "null"    -> \/ v.type = "null" \/ (isNumeric(v) /\ asDouble(v) = 0) \/ v = BoolValue(FALSE)
                          \/ v.type = "string" /\ v.s \in {"", NoString}
                          \/ v.type \in {"array", "object"} /\ Keys(v) = {}
      [] t = "int"     -> isInt(v) \/ (v.type = "real" /\ InRange(v, minInt, maxInt)) \/ v.type \in {"boolean", "null"}
      [] t = "uint"    -> isUInt(v) \/ (v.type = "real" /\ InRange(v, 0, maxUInt)) \/ v.type \in {"boolean", "null"}
      [] t \in {"real", "boolean"} -> isNumeric(v) \/ v.type \in {"boolean", "null"}
      [] t = "string"  -> isNumeric(v) \/ v.type \in {"boolean", "string", "null"}
      [] OTHER -> v.type \in {t, "null"}

-----------------------------------------------------------------------------
(* strcmp, no string before all others. *)
Before(s, t) ==
    LET Place(x) == IF x = NoString THEN 0 ELSE CHOOSE i \in DOMAIN Strings : Strings[i] = x
    IN  Place(s) < Place(t)

RECURSIVE Less(_, _)

(* CZString's order of the keys of an array or an object v. *)
KeyLess(v, j, k) == IF v.type = "array" THEN j < k ELSE Before(j, k)

(* The order of std::map: the first place where two maps of the same size   *)
(* differ, by its key, then by its value.                                  *)
MapLess(v, w) ==
    LET f == IF v.type = "array" THEN v.arr ELSE v.obj
        g == IF w.type = "array" THEN w.arr ELSE w.obj
    IN  \/ Cardinality(DOMAIN f) < Cardinality(DOMAIN g)
        \/ /\ Cardinality(DOMAIN f) = Cardinality(DOMAIN g)
           /\ \E k \in DOMAIN f :
                 /\ \A j \in DOMAIN f \cup DOMAIN g : KeyLess(v, j, k) =>
                       j \in DOMAIN f \cap DOMAIN g /\ ~Less(f[j], g[j]) /\ ~Less(g[j], f[j])
                 /\ k \in DOMAIN g => Less(f[k], g[k])

(* Mutant: arrays and objects of the same size are not told apart. *)
LessBySize(v, w) ==
    IF v.type # w.type THEN TypeOrder(v.type) < TypeOrder(w.type)
    ELSE CASE v.type \in Numbers \cup {"boolean"} -> v.n < w.n
           [] v.type = "string" -> Before(v.s, w.s)
           [] OTHER -> Cardinality(Keys(v)) < Cardinality(Keys(w))

(* operator< *)
Less(v, w) ==
    IF v.type # w.type THEN TypeOrder(v.type) < TypeOrder(w.type)
    ELSE CASE v.type = "null"   -> FALSE
           [] v.type = "string" -> Before(v.s, w.s)
           [] v.type \in {"array", "object"} -> MapLess(v, w)
           [] OTHER -> v.n < w.n

(* operator== *)
RECURSIVE Equal(_, _)
Equal(v, w) ==
    /\ v.type = w.type /\ v.n = w.n
    /\ v.type = "string" => v.s = w.s
    /\ DOMAIN v.arr = DOMAIN w.arr /\ DOMAIN v.obj = DOMAIN w.obj
    /\ \A i \in DOMAIN v.arr : Equal(v.arr[i], w.arr[i])
    /\ \A k \in DOMAIN v.obj : Equal(v.obj[k], w.obj[k])

-----------------------------------------------------------------------------
Init == root = Null /\ assertion = TRUE

(* operator[](ArrayIndex) makes an array of a null, and a null element. *)
SetElement(v, i, x) == ArrayValue((i :> x) @@ v.arr)
IsArray == root.type \in {"null", "array"}
IsObject == root.type \in {"null", "object"}

Assign == \E v \in Samples : root' = v /\ assertion' = TRUE

Index ==
    /\ IsArray /\ assertion' = TRUE
    /\ \E i \in 0..MaxIndex : \E v \in Parts \cup {At(root, i)} : root' = SetElement(root, i, v)

append ==
    /\ IsArray /\ size(root) <= MaxIndex /\ assertion' = TRUE
    /\ \E v \in Parts : root' = SetElement(root, size(root), v)

resolveReference ==
    /\ IsObject /\ assertion' = TRUE
    /\ \E k \in {Strings[i] : i \in DOMAIN Strings} : \E v \in Parts \cup {Member(root, k)} :
          root' = ObjectValue((k :> v) @@ root.obj)

removeMember ==
    /\ root.type = "object" /\ assertion' = TRUE
    /\ \E k \in DOMAIN root.obj : root' = ObjectValue([j \in DOMAIN root.obj \ {k} |-> root.obj[j]])

clear ==
    /\ root.type \in {"null", "array", "object"} /\ assertion' = TRUE
    /\ root' = Value(root.type)

(* To make an array longer, its last element is touched. *)
resize ==
    /\ IsArray
    /\ \E n \in 0..(MaxIndex + 1) :
          LET shorter == ArrayValue([i \in DOMAIN root.arr \ (n..MaxIndex) |-> root.arr[i]])
          IN  IF n > size(root) THEN root' = SetElement(root, n - 1, At(root, n - 1)) /\ assertion' = TRUE
              ELSE root' = shorter /\ assertion' = (n = 0 \/ size(shorter) = n)

Next == Assign \/ Index \/ append \/ resolveReference \/ removeMember \/ clear \/ resize

Spec == Init /\ [][Next]_<<root, assertion>>

-----------------------------------------------------------------------------
(* What a value says of its conversions is what they do: isConvertibleTo    *)
(* tells exactly when one throws, and isInt and its like when it gives the *)
(* number unchanged.  A caller, as Config is, has nothing else to ask      *)
(* before a conversion that ends the program.                              *)
ConversionsAgree ==
    LET Exact(is, as) == is => as = Gives(root.n) \/ (root.type = "real" /\ as.is = Number /\ 2 * as.n = root.n)
    IN  /\ isConvertibleTo(root, "int")     <=> asInt(root).is = Number
        /\ isConvertibleTo(root, "uint")    <=> asUInt(root).is = Number
        /\ isConvertibleTo(root, "real")    <=> CanAsDouble(root)
        /\ isConvertibleTo(root, "boolean") <=> CanAsBool(root)
        /\ isConvertibleTo(root, "string")  <=> CanAsString(root)
        /\ isConvertibleTo(root, "array")   <=> IsArray
        /\ isConvertibleTo(root, "object")  <=> IsObject
        /\ Exact(isInt(root), asInt(root)) /\ Exact(isUInt(root), asUInt(root))
        /\ Exact(isInt64(root), asInt64(root)) /\ Exact(isUInt64(root), asUInt64(root))

(* Any two values are equal or one is less, whatever holes, missing strings *)
(* or nested values they have, and less is transitive: std::map and        *)
(* std::sort may use it.                                                   *)
Ordered ==
    LET above == {v \in Samples : Less(root, v)}
        below == {v \in Samples : Less(v, root)}
    IN  /\ above \cap below = {}
        /\ \A v \in Samples : Equal(root, v) <=> v \notin above \cup below
        /\ \A v \in below, w \in above : Less(v, w)

(* The assertion at the end of resize.                                      *)
ResizeAssertion == assertion
=============================================================================
