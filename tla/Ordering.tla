------------------------------- MODULE Ordering -------------------------------
(* ORDER BY and sorted(), for finite sets of anything that can be compared. *)
EXTENDS Integers, FiniteSets, Sequences

\* S as a sequence, given the place of each element.
Listed(S, place) == [i \in 1..Cardinality(S) |-> CHOOSE x \in S : place[x] = i]

\* S as a sequence, given a strict order on it.
Ranked(S, Before(_, _)) ==
  Listed(S, [x \in S |-> 1 + Cardinality({y \in S : Before(y, x)})])

\* Tuples of numbers compared from the left, as Python and SQL do.
Smaller(s, t) ==
  \E i \in DOMAIN s : s[i] < t[i] /\ \A j \in 1..(i - 1) : s[j] = t[j]

Top(seq, n) == SubSeq(seq, 1, IF Len(seq) < n THEN Len(seq) ELSE n)
=============================================================================
