----------------------------- MODULE MCChatRuns -----------------------------
(* Small instances of ChatRuns for TLC. *)
EXTENDS ChatRuns, TLC

\* Requests and conversations are interchangeable.
Symmetry == Permutations(Requests) \cup Permutations(Conversations)

\* The same for a run that checks liveness, where TLC's symmetry is unsound: of
\* two behaviours that differ by a swap of the two requests, one is enough, the
\* one whose first request has the kind that comes first.
Rank == [k \in Kinds |-> CASE k = "send" -> 1 [] k = "edit" -> 2 [] OTHER -> 3]
First == CHOOSE r \in Requests : TRUE
KindsInOrder == \A r \in Requests : Rank[kind[First]] <= Rank[kind[r]]
OrderedInit == Init /\ KindsInOrder
OrderedSpec == OrderedInit /\ [][Next]_vars /\ LoopFairness
=============================================================================
