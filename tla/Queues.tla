------------------------------- MODULE Queues -------------------------------
(***************************************************************************)
(* Arrays that are filtered and sorted: Vec::retain, a stable partition, a *)
(* stable sort.  Each is said by positions: an element's place in the      *)
(* result is the number of elements that come before it, and one more.     *)
(***************************************************************************)
EXTENDS Naturals, Sequences, FiniteSets

\* The entries of q at the positions K, sorted: R(m, n) if m comes before n.
Arrange(q, K, R(_, _)) ==
  LET place(n) == 1 + Cardinality({m \in K : R(m, n)})
  IN  [k \in 1 .. Cardinality(K) |-> q[CHOOSE n \in K : place(n) = k]]

\* The entries at the positions K, in the order of the queue.
Select(q, K) == Arrange(q, K, LAMBDA m, n : m < n)

\* Vec::retain: the entries that do not satisfy P.
Without(q, P(_)) == Select(q, {n \in DOMAIN q : ~P(q[n])})
=============================================================================
