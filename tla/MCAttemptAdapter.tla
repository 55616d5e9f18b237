-------------------------- MODULE MCAttemptAdapter --------------------------
(* Instances of the adapter for TLC: an Attempt a1 and its retry a2.         *)
EXTENDS AttemptRefinement, TLC

CONSTANTS a1, a2

Chain == (a1 :> NoAttempt) @@ (a2 :> a1)
Alone == (a1 :> NoAttempt)

\* Bounds of the single run: the retry is prepared, not itself begun, and only
\* when a1 is no longer active; a fence is not revoked around a force stop.
FewCalls ==
    /\ Len(log[a2]) <= 1
    /\ fence[a2] # "absent" =>
          /\ fence[a1] = "active" /\ Recorded(a1)
          /\ HeadState(log[a1]) \notin ActiveStates \cup {"PREPARED"}
    /\ fence[a1] = "revoked" => ~Requested(a1, "force_stop")

\* Bound of the concurrent runs: rows per journal.
CONSTANT MaxRows
FewRows == \A a \in Attempt : Len(log[a]) <= MaxRows

ConcurrentSymmetry == Permutations(Worker) \cup Permutations(Controller)
=============================================================================
