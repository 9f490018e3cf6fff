------------------------------- MODULE Bytes -------------------------------
(***************************************************************************)
(* Byte accounting shared by the components that keep a byte counter next  *)
(* to a map of sized records.  A sum of sizes is written as the number of  *)
(* unit bytes <<key, i>>, which gives it a meaning the cardinality         *)
(* theorems can reason about.                                              *)
(***************************************************************************)
EXTENDS Integers, FiniteSets

\* The unit bytes of the records in S, where size[k] is the size of k.
Units(S, size) == UNION {{k} \X (1..size[k]) : k \in S}

\* The sum of size[k] over the records in S.
Total(S, size) == Cardinality(Units(S, size))

\* u64::saturating_sub.
SaturatingSub(a, b) == IF a >= b THEN a - b ELSE 0

\* u64::saturating_add, where top is the largest value of the type.
SaturatingAdd(a, b, top) == IF a + b <= top THEN a + b ELSE top

\* A map with key k (re)bound to r, and a map without the keys of S.
With(f, k, r) == [j \in DOMAIN f \cup {k} |-> IF j = k THEN r ELSE f[j]]
Without(f, S) == [j \in DOMAIN f \ S |-> f[j]]

\* f maps some of the keys in K to elements of R (a HashMap<K, R>).
IsMap(f, K, R) == DOMAIN f \subseteq K /\ f \in [DOMAIN f -> R]

\* The empty map.
NoEntries == [k \in {} |-> k]

=============================================================================
