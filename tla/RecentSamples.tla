--------------------------- MODULE RecentSamples ---------------------------
(***************************************************************************)
(* What store::history() promises (store.hpp): for each key, the most      *)
(* recent samples recorded under it, oldest first, at most Capacity.       *)
(***************************************************************************)
EXTENDS Naturals, Sequences

CONSTANTS Keys, SampleSet, Capacity

VARIABLE recent   \* what history() returns for each key

\* The last Capacity elements of q.
LastOf(q) ==
  IF Len(q) <= Capacity THEN q ELSE SubSeq(q, Len(q) - Capacity + 1, Len(q))

Init == recent = [k \in Keys |-> <<>>]

Add(k, sample) == recent' = [recent EXCEPT ![k] = LastOf(Append(@, sample))]

Next == \E k \in Keys, sample \in SampleSet : Add(k, sample)

Spec == Init /\ [][Next]_recent
=============================================================================
