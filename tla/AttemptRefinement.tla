-------------------------- MODULE AttemptRefinement --------------------------
(***************************************************************************)
(* One controller at a time: the adapter, its journal and its provider     *)
(* keep the promise of AttemptPromise, through revocation and retry.       *)
(***************************************************************************)
EXTENDS AttemptAdapter

\* The promise speaks of the trusted head of the journal.
LifeOf(a) ==
    CASE log[a] = <<>> -> "absent"
      [] Active(a) -> "active"
      [] Recorded(a) /\ HeadState(log[a]) = "PREPARED" -> "ready"
      [] OTHER -> HeadState(log[a])

\* Its effect is the worker that was started, live until its terminal record.
WorkOf(a) ==
    CASE WorkersOf(a) = {} -> "none"
      [] WorkersOf(a) # {} /\ completion[a] # "none" -> completion[a]
      [] completion[a] = "none" /\ \E w \in WorkersOf(a) : Live(w) -> "live"
      [] OTHER -> "lost"

Promise == INSTANCE AttemptPromise WITH
    life <- [a \in Attempt |-> LifeOf(a)],
    work <- [a \in Attempt |-> WorkOf(a)],
    fenced <- [a \in Attempt |-> fence[a] = "revoked"]

\* Every step of the adapter is a step of the promise or changes nothing it
\* speaks of: an Attempt is settled once, with the outcome there is; UNKNOWN
\* is final unless its fence is revoked; work starts once, only while the
\* journal says it may exist, and never under a revoked fence.
KeepsPromise == Promise!PromiseSpec
=============================================================================
