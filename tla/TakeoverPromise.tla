-------------------------- MODULE TakeoverPromise --------------------------
(***************************************************************************)
(* What a takeover promises the owner of a portable checkpoint source,     *)
(* with no stage, marker, lease, journal, death or failure: the place of   *)
(* the target goes one way, from nothing to a Workspace in use, and the    *)
(* two steps that make a second writer possible are taken by one who has   *)
(* seen the source fenced.                                                 *)
(***************************************************************************)
CONSTANT Process

VARIABLES
    fenced, \* the source can write no more
    seen,   \* who has seen it fenced in the command being carried out
    place   \* how far the target is

promiseVars == <<fenced, seen, place>>

PromiseInit == fenced = TRUE /\ seen = {} /\ place = "absent"

\* Sources are fenced, and may come back.
Turn == fenced' = ~fenced /\ UNCHANGED <<seen, place>>
See(p) == fenced /\ seen' = seen \cup {p} /\ UNCHANGED <<fenced, place>>
Forget(p) == seen' = seen \ {p} /\ UNCHANGED <<fenced, place>>

\* The copy is there, and has no writer.
Restore(p) ==
    /\ place = "absent" /\ p \in seen
    /\ place' = "restored"
    /\ UNCHANGED <<fenced, seen>>

\* The successor is there for good, told to who did it or not.
CommitSuccessor(p) ==
    /\ place = "restored" /\ p \in seen
    /\ place' = "committed"
    /\ seen' \in {seen, seen \ {p}}
    /\ UNCHANGED fenced

\* Only now may an ordinary Store open it ...
Unseal == place = "committed" /\ place' = "active" /\ UNCHANGED <<fenced, seen>>

\* ... and write.
UseIt == place = "active" /\ place' = "used" /\ UNCHANGED <<fenced, seen>>

PromiseNext ==
    \/ Turn \/ Unseal \/ UseIt
    \/ \E p \in Process : See(p) \/ Forget(p) \/ Restore(p) \/ CommitSuccessor(p)

PromiseSpec == PromiseInit /\ [][PromiseNext]_promiseVars
=============================================================================
