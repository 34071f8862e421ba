------------------------------ MODULE JsonArray -----------------------------
(***************************************************************************)
(* What the users of a Json::Value see of an array (include/json/value.h): a  *)
(* sequence of values, null where none was put.                              *)
(***************************************************************************)
EXTENDS Naturals, Sequences

CONSTANT Null
VARIABLES a,
          holes     \* whether a place past the end was ever used

Nulls(n) == [k \in 1..n |-> Null]
Padded(n) == IF n > Len(a) THEN a \o Nulls(n - Len(a)) ELSE a

\* With holes, a shorter array may lose the nulls it would end with too.
Shorter(b) == \E m \in 0..Len(b) : /\ a' = SubSeq(b, 1, m)
                                   /\ \A k \in m + 1..Len(b) : holes /\ b[k] = Null

\* The operations.  Indices count from 0; setting or reading a place makes the
\* array reach to it.
Put(i, x) == a' = [Padded(i + 1) EXCEPT ![i + 1] = x]
Touch(i) == a' = Padded(i + 1)
Insert(i, x) == i <= Len(a) /\ a' = SubSeq(a, 1, i) \o <<x>> \o SubSeq(a, i + 1, Len(a))
Remove(i) == i < Len(a) /\ Shorter(SubSeq(a, 1, i) \o SubSeq(a, i + 2, Len(a)))
Grow(n) == n >= Len(a) /\ a' = Padded(n)
Shrink(n) == n <= Len(a) /\ Shorter(SubSeq(a, 1, n))
=============================================================================
