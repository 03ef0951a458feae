-------------------------------- MODULE InOrder --------------------------------
(***************************************************************************)
(* The order in which a filter, or a query sorted by age, leaves what it   *)
(* takes.  Library operators do this with predicates as parameters, which  *)
(* proofs cannot instantiate; here it is said of the set of the numbers.   *)
(***************************************************************************)
EXTENDS Integers, Sequences, FiniteSets

\* How many of the numbers are at most n.
Rank(S, n) == Cardinality({m \in S : m <= n})

\* The numbers of a finite set, the least first.
InOrder(S) == [k \in 1 .. Cardinality(S) |-> CHOOSE n \in S : Rank(S, n) = k]
=============================================================================
