------------------------------- MODULE Queues -------------------------------
(***************************************************************************)
(* What is said of the queues of pointers and messages all over the code:  *)
(* what is in one, that nothing is in it twice, and the numbers that a     *)
(* stream, or the creation of objects, goes through.                       *)
(***************************************************************************)
EXTENDS Sequences, Naturals

Elements(s) == {s[k] : k \in 1..Len(s)}

NoDuplicates(s) == \A k, l \in 1..Len(s) : s[k] = s[l] => k = l

\* What comes after the n-th, up to the m-th.
Following(n, m) == [k \in 1..(m - n) |-> n + k]

=============================================================================
