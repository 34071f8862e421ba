------------------------------ MODULE JsonValue -----------------------------
(***************************************************************************)
(* Json::Value (util/lib_json/json_value.cpp).  An array is a map from        *)
(* indices to values in which indices may be missing; val is one, under the   *)
(* operations that change it.  The conversions and the comparisons are        *)
(* operators.  A value is [t, h, s, map]: type, twice its number (so that     *)
(* halves are numbers too), the characters of a string, the members.  Ints    *)
(* have IntBits bits, LargestInts LargestBits, a double Mantissa.             *)
(***************************************************************************)
EXTENDS Integers, Sequences, FiniteSetsExt

CONSTANTS IntBits, LargestBits, Mantissa,
          MaxSize     \* bound on the size of the array

ASSUME ValueAssumption == MaxSize \in Nat

VARIABLES val,        \* the value
          past,       \* whether an index past the end was used since it was empty
          threw       \* whether the last call failed an assertion

vvars == <<val, past, threw>>

Scalar(t, h) == [t |-> t, h |-> h, s |-> <<>>, map |-> <<>>]
NullValue == Scalar("null", 0)
Array(map) == [t |-> "array", h |-> 0, s |-> <<>>, map |-> map]
Empty == [i \in {} |-> NullValue]

-----------------------------------------------------------------------------
(* Arrays *)

Stored == {NullValue, Scalar("int", 2)}
Keys(v) == DOMAIN v.map
size(v) == IF v.t # "array" \/ Keys(v) = {} THEN 0 ELSE Max(Keys(v)) + 1

\* The const operator[]: null where the map has nothing.
get(v, i) == IF v.t = "array" /\ i \in Keys(v) THEN v.map[i] ELSE NullValue

\* operator[] puts null where the map has nothing, at all these places.
resolve(v, places) ==
  LET m == IF v.t = "null" THEN Empty ELSE v.map IN
  Array([i \in DOMAIN m \cup places |-> IF i \in DOMAIN m THEN m[i] ELSE NullValue])

assign(v, i, x) == [resolve(v, {i}) EXCEPT !.map[i] = x]

ValueInit == val = NullValue /\ past = FALSE /\ threw = FALSE

Set(i, x) == /\ val' = assign(val, i, x) /\ past' = (past \/ i > size(val)) /\ threw' = FALSE
Read(i) == /\ val' = resolve(val, {i}) /\ past' = (past \/ i > size(val)) /\ threw' = FALSE

append(x) == /\ size(val) < MaxSize
             /\ val' = assign(val, size(val), x) /\ threw' = FALSE /\ UNCHANGED past

\* Mutated form: an index past the end is not refused.
CanInsert_Any(v, i) == TRUE

CanInsert(v, i) == i <= size(v)

\* The loop from the end moves what is at each place to the next.
insert(i, x) ==
  LET w == resolve(val, {i} \cup i..size(val)) IN
  /\ CanInsert(val, i) /\ size(val) < MaxSize
  /\ val' = Array([k \in Keys(w) |-> IF k = i THEN x ELSE IF k > i THEN w.map[k - 1] ELSE w.map[k]])
  /\ threw' = FALSE /\ UNCHANGED past

\* Mutated form: what follows is not moved into the place.
Shifted_Not(v, i) == Array([k \in Keys(v) \ {i} |-> v.map[k]])

\* What follows the place is moved into it, and the last place is dropped.
Shifted(v, i) ==
  LET last == size(v) - 1
      w == resolve(v, i..last)
  IN Array([k \in Keys(w) \ {last} |-> IF k >= i THEN w.map[k + 1] ELSE w.map[k]])

\* A place that the map does not hold is refused.
removeIndex(i) == /\ val.t = "array" /\ i \in Keys(val)
                  /\ val' = Shifted(val, i) /\ threw' = FALSE /\ UNCHANGED past

\* The assertion at the end of a shrinking resize is after the erasing.
resize(n) ==
  LET v == IF n = 0 THEN Array(Empty)
           ELSE IF n > size(val) THEN resolve(val, size(val)..n - 1)
           ELSE Array([k \in Keys(val) \ (n..size(val)) |-> val.map[k]])
  IN /\ val' = v /\ threw' = (n # 0 /\ n <= size(val) /\ size(v) # n)
     /\ past' = (past /\ n # 0)

clear == /\ val' = IF val.t = "null" THEN val ELSE Array(Empty)
         /\ past' = FALSE /\ threw' = FALSE

ValueNext == \/ \E i \in 0..MaxSize - 1 : (\E x \in Stored : Set(i, x) \/ insert(i, x)) \/ Read(i) \/ removeIndex(i)
             \/ \E x \in Stored : append(x)
             \/ \E n \in 0..MaxSize : resize(n)
             \/ clear

ValueSpec == ValueInit /\ [][ValueNext]_vvars

Dense == [k \in 1..size(val) |-> get(val, k - 1)]

A == INSTANCE JsonArray WITH a <- Dense, holes <- past, Null <- NullValue

\* Whatever places the map misses, what the array's reader sees is the sequence
\* that the operations make: each does to it what the one of JsonArray does.
ArrayIsSequence ==
  [][\A i \in 0..MaxSize :
       /\ \A x \in Stored : (Set(i, x) => A!Put(i, x)) /\ (insert(i, x) => A!Insert(i, x)) /\ (append(x) => A!Put(Len(Dense), x))
       /\ Read(i) => A!Touch(i)
       /\ removeIndex(i) => A!Remove(i)
       /\ resize(i) => IF i > Len(Dense) THEN A!Grow(i) ELSE A!Shrink(i)
       /\ clear => A!Shrink(0)]_vvars

\* As long as no index past the end is used, as the parser and append never do,
\* the map misses no place and no assertion of resize fails.
WholeWhenUsedInOrder == ~past => /\ ~threw
                                 /\ val.t = "array" => Keys(val) = 0..size(val) - 1

-----------------------------------------------------------------------------
(* Conversions *)

minInt == -(2 ^ (IntBits - 1))
maxInt == 2 ^ (IntBits - 1) - 1
maxUInt == 2 ^ IntBits - 1
minInt64 == -(2 ^ (LargestBits - 1))
maxInt64 == 2 ^ (LargestBits - 1) - 1
maxUInt64 == 2 ^ LargestBits - 1

\* The double nearest to an integer, ties to even, as twice its number.
Double(n) ==
  LET m == IF n < 0 THEN -n ELSE n
      u == 2 ^ Min({e \in 0..LargestBits : m < 2 ^ (e + Mantissa)})
      q == m \div u
      r == IF 2 * (m % u) > u \/ (2 * (m % u) = u /\ q % 2 = 1) THEN (q + 1) * u ELSE q * u
  IN IF n < 0 THEN -2 * r ELSE 2 * r

InRange(h, min, max) == h >= Double(min) /\ h <= Double(max)
IsIntegral(h) == h % 2 = 0
Trunc(h) == IF h < 0 THEN -((-h) \div 2) ELSE h \div 2

Numeric == {"int", "uint", "real"}
Between(v, min, max) == v.h >= 2 * min /\ v.h <= 2 * max

isInt(v) == v.t \in Numeric /\ Between(v, minInt, maxInt) /\ (v.t = "real" => IsIntegral(v.h))
isUInt(v) == v.t \in Numeric /\ Between(v, 0, maxUInt) /\ (v.t = "real" => IsIntegral(v.h))

\* Mutated form: the rounded bound itself is let in.
isInt64_Edge(v) ==
  CASE v.t = "int" -> TRUE
    [] v.t = "uint" -> v.h <= 2 * maxInt64
    [] v.t = "real" -> v.h >= Double(minInt64) /\ v.h <= Double(maxInt64) /\ IsIntegral(v.h)
    [] OTHER -> FALSE

\* The largest integer is rounded up to a double that is out of range.
isInt64(v) ==
  CASE v.t = "int" -> TRUE
    [] v.t = "uint" -> v.h <= 2 * maxInt64
    [] v.t = "real" -> v.h >= Double(minInt64) /\ v.h < Double(maxInt64) /\ IsIntegral(v.h)
    [] OTHER -> FALSE

isUInt64(v) ==
  CASE v.t = "int" -> v.h >= 0
    [] v.t = "uint" -> TRUE
    [] v.t = "real" -> v.h >= 0 /\ v.h < Double(maxUInt64) /\ IsIntegral(v.h)
    [] OTHER -> FALSE

isIntegral(v) ==
  CASE v.t \in {"int", "uint"} -> TRUE
    [] v.t = "real" -> v.h >= Double(minInt64) /\ v.h < Double(maxUInt64) /\ IsIntegral(v.h)
    [] OTHER -> FALSE

\* The result of a conversion is a set of one, of none if an assertion fails.
Converted(v, is, min, max) ==
  CASE v.t \in {"int", "uint"} -> IF is THEN {v.h \div 2} ELSE {}
    [] v.t = "real" -> IF InRange(v.h, min, max) THEN {Trunc(v.h)} ELSE {}
    [] v.t \in {"null", "boolean"} -> {v.h \div 2}
    [] OTHER -> {}

asInt(v) == Converted(v, isInt(v), minInt, maxInt)
asUInt(v) == Converted(v, isUInt(v), 0, maxUInt)
asInt64(v) == Converted(v, isInt64(v), minInt64, maxInt64)
asUInt64(v) == Converted(v, isUInt64(v), 0, maxUInt64)

asDouble(v) == CASE v.t \in {"int", "uint"} -> {Double(v.h \div 2)}
                 [] v.t \in {"real", "null", "boolean"} -> {v.h}
                 [] OTHER -> {}
asBool(v) == IF v.t \in Numeric \cup {"null", "boolean"} THEN {v.h # 0} ELSE {}
asString(v) == IF v.t \in {"array", "object"} THEN {} ELSE {v.t}

isConvertibleTo(v, other) ==
  CASE other = "null" -> \/ v.t \in Numeric /\ asDouble(v) = {0}
                         \/ v.t = "boolean" /\ v.h = 0
                         \/ v.t = "string" /\ v.s = <<>>
                         \/ v.t \in {"array", "object"} /\ Keys(v) = {}
                         \/ v.t = "null"
    [] other = "int" -> isInt(v) \/ (v.t = "real" /\ InRange(v.h, minInt, maxInt)) \/ v.t \in {"boolean", "null"}
    [] other = "uint" -> isUInt(v) \/ (v.t = "real" /\ InRange(v.h, 0, maxUInt)) \/ v.t \in {"boolean", "null"}
    [] other \in {"real", "boolean"} -> v.t \in Numeric \cup {"boolean", "null"}
    [] other = "string" -> v.t \in Numeric \cup {"boolean", "string", "null"}
    [] OTHER -> v.t \in {other, "null"}

\* isX holds exactly for the integers that X can hold, and they convert exactly;
\* isConvertibleTo tells whether the conversion fails; a conversion that does not
\* gives a number in range, but for the rounded bounds of the 64-bit types.
ConversionsAgree(v) ==
  LET whole(min, max) == v.t \in Numeric /\ IsIntegral(v.h) /\ Between(v, min, max)
      fits(is, as, min, max) ==
        /\ is = whole(min, max)
        /\ is => as = {v.h \div 2}
        /\ as \subseteq min..max \/ (v.t = "real" /\ Double(max) > 2 * max /\ v.h = Double(max))
  IN /\ fits(isInt(v), asInt(v), minInt, maxInt) /\ fits(isUInt(v), asUInt(v), 0, maxUInt)
     /\ fits(isInt64(v), asInt64(v), minInt64, maxInt64) /\ fits(isUInt64(v), asUInt64(v), 0, maxUInt64)
     /\ isIntegral(v) = (isInt64(v) \/ isUInt64(v))
     /\ isConvertibleTo(v, "int") = (asInt(v) # {}) /\ isConvertibleTo(v, "uint") = (asUInt(v) # {})
     /\ isConvertibleTo(v, "real") = (asDouble(v) # {}) /\ isConvertibleTo(v, "boolean") = (asBool(v) # {})
     /\ isConvertibleTo(v, "string") = (asString(v) # {})
     /\ isConvertibleTo(v, "null") /\ asBool(v) # {} => asBool(v) = {FALSE}

-----------------------------------------------------------------------------
(* Comparisons *)

Types == <<"null", "int", "uint", "real", "string", "boolean", "array", "object">>
TypeNumber(t) == CHOOSE i \in DOMAIN Types : Types[i] = t

\* memcmp on the common length, then the lengths.
LessString(s, t) ==
  LET n == IF Len(s) < Len(t) THEN Len(s) ELSE Len(t)
      diff == {i \in 1..n : s[i] # t[i]}
  IN IF diff = {} THEN Len(s) < Len(t) ELSE s[Min(diff)] < t[Min(diff)]

\* Values without members.
LessScalar(v, w) ==
  IF v.t # w.t THEN TypeNumber(v.t) < TypeNumber(w.t)
  ELSE IF v.t = "string" THEN LessString(v.s, w.s) ELSE v.h < w.h

\* Mutated form: the members before are not looked at.
LessMap_Any(m, n) ==
  IF Cardinality(DOMAIN m) # Cardinality(DOMAIN n) THEN Cardinality(DOMAIN m) < Cardinality(DOMAIN n)
  ELSE \E k \in DOMAIN m : k \in DOMAIN n => LessScalar(m[k], n[k])

\* Maps of one size by the first place at which their pairs differ: a place that the
\* other map misses is before the one it has instead.
LessMap(m, n) ==
  LET same(k) == k \in DOMAIN m \cap DOMAIN n /\ ~LessScalar(m[k], n[k]) /\ ~LessScalar(n[k], m[k])
  IN IF Cardinality(DOMAIN m) # Cardinality(DOMAIN n) THEN Cardinality(DOMAIN m) < Cardinality(DOMAIN n)
     ELSE \E k \in DOMAIN m : /\ k \in DOMAIN n => LessScalar(m[k], n[k])
                              /\ \A j \in DOMAIN m \cup DOMAIN n : j < k => same(j)

Less(v, w) == IF v.t = w.t /\ v.t \in {"array", "object"} THEN LessMap(v.map, w.map) ELSE LessScalar(v, w)

\* operator==, and compare.
Equal(v, w) ==
  /\ v.t = w.t
  /\ IF v.t = "string" THEN v.s = w.s
     ELSE IF v.t \in {"array", "object"} THEN Keys(v) = Keys(w) /\ \A i \in Keys(v) : v.map[i] = w.map[i]
     ELSE v.h = w.h
compare(v, w) == IF Less(v, w) THEN -1 ELSE IF Less(w, v) THEN 1 ELSE 0

\* The comparisons of any three values are those of one total order in which
\* equal values, and only these, have the same place.
ComparesInOrder(u, v, w) ==
  /\ Cardinality({x \in {"<", "=", ">"} : CASE x = "<" -> Less(u, v) [] x = "=" -> Equal(u, v) [] OTHER -> Less(v, u)}) = 1
  /\ compare(u, v) = -compare(v, u) /\ (compare(u, v) = 0 <=> Equal(u, v))
  /\ Less(u, v) /\ Less(v, w) => Less(u, w)
=============================================================================
