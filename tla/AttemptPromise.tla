--------------------------- MODULE AttemptPromise ---------------------------
(***************************************************************************)
(* What the Attempt adapter promises the owner of a formal Session, with   *)
(* no journal, controller, crash or file: the state of an Attempt follows  *)
(* one irrevocable piece of work, and is settled once; only a revocation   *)
(* of its fence may speak after that.                                      *)
(***************************************************************************)
CONSTANT Attempt

VARIABLES
    life,   \* life[a]: what the adapter says of a
    work,   \* work[a]: the one external effect of a
    fenced  \* fenced[a]: the fence of a is revoked

promiseVars == <<life, work, fenced>>

WorkOutcomes == {"SUCCEEDED", "FAILED", "CANCELLED", "FORCE_STOPPED"}

PromiseInit ==
    /\ life = [a \in Attempt |-> "absent"]
    /\ work = [a \in Attempt |-> "none"]
    /\ fenced = [a \in Attempt |-> FALSE]

Become(a, state) ==
    life' = [life EXCEPT ![a] = state] /\ UNCHANGED <<work, fenced>>
Happen(a, effect) ==
    work' = [work EXCEPT ![a] = effect] /\ UNCHANGED <<life, fenced>>

\* Prepared, not yet begun.
Ready(a) == life[a] = "absent" /\ Become(a, "ready")

\* Given up before anything was begun.
Decline(a) ==
    /\ life[a] = "ready"
    /\ \E s \in {"CANCELLED", "FORCE_STOPPED"} : Become(a, s)

\* The fence is revoked, for good; the adapter may say so at any time after.
Revoke(a) ==
    /\ ~fenced[a]
    /\ fenced' = [fenced EXCEPT ![a] = TRUE]
    /\ UNCHANGED <<life, work>>
Fence(a) == fenced[a] /\ life[a] # "absent" /\ Become(a, "FENCED")

\* From here on there may be an effect.
Begun(a) == life[a] = "ready" /\ Become(a, "active")

\* The effect starts once, only while the adapter says it may be there, and
\* never under a revoked fence.
Work(a) ==
    life[a] = "active" /\ ~fenced[a] /\ work[a] = "none" /\ Happen(a, "live")

\* The effect ends with an outcome or is lost, whatever the adapter says of it.
Finish(a) == work[a] = "live" /\ \E o \in WorkOutcomes : Happen(a, o)
Lose(a) == work[a] = "live" /\ Happen(a, "lost")

\* The outcome reported is the outcome there is.
Settle(a) ==
    life[a] = "active" /\ work[a] \in WorkOutcomes /\ Become(a, work[a])

\* A refused launch fails an Attempt that has had no effect.
Refuse(a) == life[a] = "active" /\ work[a] = "none" /\ Become(a, "FAILED")

\* The adapter no longer knows, and never changes its mind.
GiveUp(a) == life[a] = "active" /\ Become(a, "UNKNOWN")

PromiseNext ==
    \E a \in Attempt :
        \/ Ready(a) \/ Decline(a) \/ Revoke(a) \/ Fence(a) \/ Begun(a) \/ Work(a)
        \/ Finish(a) \/ Lose(a) \/ Settle(a) \/ Refuse(a) \/ GiveUp(a)

PromiseSpec == PromiseInit /\ [][PromiseNext]_promiseVars
=============================================================================
