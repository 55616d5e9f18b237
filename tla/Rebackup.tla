------------------------------ MODULE Rebackup ------------------------------
(***************************************************************************)
(* rebackup_verified_offline_migration of workspace_recovery.py under its  *)
(* kernel lease: a backup is built in a stage directory named after the    *)
(* operation and the lease that owns it, and renamed to its final name.    *)
(* An executor that dies leaves the stage to the next one, which finds out *)
(* from the lock file whether it may take it.                              *)
(*                                                                         *)
(* A scope is one migration result to be backed up under the backup id the *)
(* lock path stands for.  Directory trees are created, removed and renamed *)
(* in one step: half of a tree is a partial stage like any other.          *)
(***************************************************************************)
EXTENDS KernelLease, FiniteSets

VARIABLES
    stages,    \* stage directories of the backup id
    final,     \* the migration result published under it, or NoScope
    work,      \* work[p]: where executor p is in the body
    disturbed  \* history: what the line of owners does not survive has happened

rebackupVars == <<stages, final, work, disturbed>>
vars == <<leaseVars, rebackupVars>>

Stage == [scope : Scope, owner : Lease, state : {"partial", "copied", "manifested"}]

WorkSteps ==
    {"none", "look", "remove", "mkdir", "copy", "manifest", "publish", "verify",
     "verified"}

TypeOK ==
    /\ LeaseTypeOK
    /\ stages \subseteq Stage
    /\ final \in Scope \cup {NoScope}
    /\ work \in [Proc -> WorkSteps]
    /\ disturbed \in BOOLEAN

Init ==
    /\ LeaseInit
    /\ stages = {}
    /\ final = NoScope
    /\ work = [p \in Proc |-> "none"]
    /\ disturbed = FALSE

\* A stage survives a release, the text of its owner is overwritten by another
\* scope's, or it is spoilt by a late first byte.
Disturbing ==
    \/ stages # {} /\ file.life = "released"
    \/ \E s \in stages : file.life = "held" /\ file.scope # s.scope
    \/ file.nulled

Remember == disturbed' = (disturbed \/ Disturbing')
-----------------------------------------------------------------------------
(* The body of the lease. *)

\* The owner of p's stage: the abandoned predecessor of the same scope, or p.
Owner(p) ==
    IF exec[p].abandoned /\ exec[p].pred # 0 THEN exec[p].pred ELSE exec[p].lease

\* A mutant: any stage under the backup id is taken for p's.
AnyStage(p, s) == s \in stages

\* The stage has the name p expects.
Mine(p, s) == s.scope = exec[p].scope /\ s.owner = Owner(p)

Others(p) == {s \in stages : ~Mine(p, s)}

At(p, from) == exec[p].pc = "body" /\ work[p] = from
Goes(p, to) == work' = [work EXCEPT ![p] = to] /\ UNCHANGED leaseVars

\* The operation returns or raises out of the lease.
Returns(p) == work' = [work EXCEPT ![p] = "none"] /\ Leave(p)

\* The migration lease and the source are as they were.
Begin(p) ==
    /\ At(p, "none")
    /\ Goes(p, "look")
    /\ UNCHANGED <<stages, final>>

\* What a stage that is there leaves to do.
Resume(state) ==
    CASE state = "partial" -> "remove"
      [] state = "copied" -> "manifest"
      [] OTHER -> "verify"

\* A mutant: stages of other names are not looked for.
LookAside(p) ==
    /\ At(p, "look")
    /\ \/ stages \ Others(p) = {} /\ final = NoScope /\ Goes(p, "mkdir")
       \/ \E s \in stages \ Others(p) : final = NoScope /\ Goes(p, Resume(s.state))
       \/ final # NoScope /\ Returns(p)
    /\ UNCHANGED <<stages, final>>

\* _existing_rebackup_stage, and the published backup of an earlier call: any
\* other stage, or a stage beside a published backup, is a collision.
Look(p) ==
    /\ At(p, "look")
    /\ \/ stages = {} /\ final = NoScope /\ Goes(p, "mkdir")
       \/ \E s \in stages : stages = {s} /\ Mine(p, s) /\ final = NoScope
                              /\ Goes(p, Resume(s.state))
       \/ (Others(p) # {} \/ final # NoScope) /\ Returns(p)
    /\ UNCHANGED <<stages, final>>

Remove(p) ==
    /\ At(p, "remove")
    /\ stages' = Others(p)
    /\ Goes(p, "mkdir")
    /\ UNCHANGED final

Mkdir(p) ==
    /\ At(p, "mkdir")
    /\ stages' = stages \cup
          {[scope |-> exec[p].scope, owner |-> Owner(p), state |-> "partial"]}
    /\ Goes(p, "copy")
    /\ UNCHANGED final

\* p's stage gets a new state.
Fill(p, state) ==
    stages' = Others(p) \cup {[s EXCEPT !.state = state] : s \in stages \ Others(p)}

Copy(p) ==
    /\ At(p, "copy")
    /\ Fill(p, "copied")
    /\ Goes(p, "manifest")
    /\ UNCHANGED final

\* The snapshot is verified, restore-tested and given its manifest.
Manifest(p) ==
    /\ At(p, "manifest")
    /\ Fill(p, "manifested")
    /\ Goes(p, "publish")
    /\ UNCHANGED final

\* An adopted stage with a manifest is verified, or removed and built again.
Verify(p) ==
    /\ At(p, "verify")
    /\ \/ UNCHANGED stages /\ Goes(p, "verified")
       \/ stages' = Others(p) /\ Goes(p, "mkdir")
    /\ UNCHANGED final

\* os.rename of the stage to the final name.
Publish(p) ==
    /\ exec[p].pc = "body" /\ work[p] \in {"publish", "verified"}
    /\ stages' = Others(p)
    /\ final' = exec[p].scope
    /\ Returns(p)

\* An exception before there is a stage to see to, or once the adopted one is
\* verified: it propagates and the stage stays.
FailKeeping(p) ==
    /\ exec[p].pc = "body" /\ work[p] \in {"none", "look", "verified"}
    /\ Returns(p)
    /\ UNCHANGED <<stages, final>>

\* An exception while the stage is built: it is removed.
FailRemoving(p) ==
    /\ exec[p].pc = "body" /\ work[p] \notin {"none", "look", "verified"}
    /\ stages' = Others(p)
    /\ Returns(p)
    /\ UNCHANGED final

\* KeyboardInterrupt passes `except Exception` and the stage stays.
Interrupt(p) ==
    /\ exec[p].pc = "body"
    /\ Returns(p)
    /\ UNCHANGED <<stages, final>>

Body(p) ==
    \/ Begin(p) \/ Look(p) \/ Remove(p) \/ Mkdir(p) \/ Copy(p) \/ Manifest(p)
    \/ Verify(p) \/ Publish(p) \/ FailKeeping(p) \/ FailRemoving(p) \/ Interrupt(p)

Dies(p) ==
    /\ Die(p)
    /\ work' = [work EXCEPT ![p] = "none"]
    /\ UNCHANGED <<stages, final>>

Next ==
    /\ \E p \in Proc :
          \/ (Acquiring(p) \/ Releasing(p)) /\ UNCHANGED <<stages, final, work>>
          \/ Body(p)
          \/ Dies(p)
    /\ Remember

Spec == Init /\ [][Next]_vars
-----------------------------------------------------------------------------
\* Whatever dies, fails or collides, there is at most one stage directory, and
\* none beside a published backup.
OneStage ==
    Cardinality(stages) <= 1 /\ (final # NoScope => stages = {})

\* A stage is removed, filled or published by an executor of the same operation
\* only, and only by the one that holds the lock.
ForeignUntouched ==
    [][\A s \in stages \ stages' : exec[holder].scope = s.scope]_vars

\* "Keep one exact same-scope abandoned owner across repeated crashes"
\* (_rebackup_stage_owner_lease_id): while executors only die, at any step of
\* the lease or of its body, the next one finds the stage to be its own.
OwnerSurvivesCrashes ==
    \A p \in Proc :
        ~disturbed /\ At(p, "look") => \A s \in stages : Mine(p, s)
=============================================================================
