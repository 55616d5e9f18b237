------------------------------ MODULE Takeover ------------------------------
(***************************************************************************)
(* The takeover of a portable checkpoint source                            *)
(* (activate_portable_checkpoint_source_takeover_from_owner in             *)
(* workspace_recovery.py, activate_takeover in workspace_store.py): a      *)
(* BackupSet is restored to a fixed place, read-only and with a marker in  *)
(* the tree, and becomes a Workspace with a successor writer, once a fence *)
(* of the source has been read.  The same command is given again after a   *)
(* failure or a crash, also by several processes at once, and goes on from *)
(* what it finds.                                                          *)
(*                                                                         *)
(* Two kernel leases: one of the restore beside the target, whose text     *)
(* tells the next holder that the last one died, and the source-operation  *)
(* lease of the Store.  The writer of the target is inserted in one SQLite *)
(* transaction with a rollback journal.                                    *)
(*                                                                         *)
(* Left out: targets restored without marker (no checkpoint source), other *)
(* commands, BackupSets and releases on the same target, damage from       *)
(* outside, failures of the protection itself.                             *)
(***************************************************************************)
EXTENDS Naturals

CONSTANTS
    Process,
    Owner,     \* the process whose command is given again until it has succeeded
    None,      \* no process
    MaxCalls,  \* bound: commands given by the others
    MaxFaults  \* bound: deaths, failed steps, sources that come back

ASSUME OwnerAssumption == Owner \in Process /\ None \notin Process
ASSUME BoundsAssumption == {MaxCalls, MaxFaults} \subseteq Nat

VARIABLES
    stage,       \* the directory beside the target that is restored into
    published,   \* the stage was renamed to the target
    marker,      \* .takeover-unseal.json is in the target
    db,          \* the database of the target
    tree,        \* the permissions of the target
    restoreLock, \* the process that holds the lease of the restore
    restoreText, \* what the text of that lease says of its last holder
    lock,        \* the process that holds the source-operation lease
    fenced,      \* the source is disabled and protected
    at,          \* what each process is doing
    calls, faults

target == <<published, marker, db, tree>>
restore == <<stage, restoreLock, restoreText>>
bounds == <<calls, faults>>
vars == <<restore, target, lock, fenced, at, bounds>>

\* journal: a transaction has begun and has not ended.  used: the successor has
\* committed more than its own row.
Databases == {"source", "journal", "successor", "used"}
Trees == {"closed", "open", "torn"}
Steps == {"idle", "fence", "restore", "restoring", "copy", "publish", "inspect", "plan",
          "open", "reconcile", "reconciling", "protect", "classify", "refence", "reissue",
          "recover", "reissued", "committed", "activate", "begin", "commit", "verify",
          "complete", "active"}

Idle == [pc |-> "idle", abandoned |-> FALSE, fence |-> FALSE]

TypeOK ==
    /\ stage \in {"none", "partial", "sealed"}
    /\ {published, marker, fenced} \subseteq BOOLEAN
    /\ db \in Databases /\ tree \in Trees
    /\ {restoreLock, lock} \subseteq Process \cup {None}
    /\ restoreText \in {"held", "released"} /\ (restoreLock # None => restoreText = "held")
    /\ at \in [Process -> [pc : Steps, abandoned : BOOLEAN, fence : BOOLEAN]]
    /\ calls \in 0..MaxCalls /\ faults \in 0..MaxFaults

Init ==
    /\ stage = "none" /\ published = FALSE /\ marker = FALSE
    /\ db = "source" /\ tree = "closed"
    /\ restoreLock = None /\ restoreText = "released" /\ lock = None
    /\ fenced = TRUE
    /\ at = [p \in Process |-> Idle]
    /\ calls = 0 /\ faults = 0

\* What the code calls the exact restored closure.
Original == marker /\ db = "source"
Committed == db \in {"successor", "used"}
Active == published /\ ~marker /\ Committed
Writable == tree # "closed"

-----------------------------------------------------------------------------
(* How a step of a process is written                                      *)

Go(p, step) == at' = [at EXCEPT ![p].pc = step]
Return(p) == at' = [at EXCEPT ![p] = Idle]
Unlock(p) == lock' = IF lock = p THEN None ELSE lock
LeaveRestore(p) ==
    /\ restoreLock' = IF restoreLock = p THEN None ELSE restoreLock
    /\ restoreText' = IF restoreLock = p THEN "released" ELSE restoreText
Fail(p) == Return(p) /\ Unlock(p) /\ LeaveRestore(p) /\ UNCHANGED stage
Fault == faults < MaxFaults /\ faults' = faults + 1 /\ UNCHANGED calls
Same == UNCHANGED <<fenced, bounds>>

\* A step that reads under a lease and lets it go at once.
Look(p, ok, step) ==
    /\ IF lock = None /\ ok THEN Go(p, step) /\ UNCHANGED <<lock, restore>> ELSE Fail(p)
    /\ Same /\ UNCHANGED target

-----------------------------------------------------------------------------
(* A new target                                                            *)

\* The others stop asking.
Call(p) ==
    /\ at[p].pc = "idle"
    /\ IF p = Owner THEN UNCHANGED calls ELSE calls < MaxCalls /\ calls' = calls + 1
    /\ Go(p, IF published THEN "reconcile" ELSE "fence")
    /\ UNCHANGED <<restore, target, lock, fenced, faults>>

\* A mutant: a target that is there is taken for fenced.
ReadFenceOnce(p) ==
    /\ at[p].pc \in {"fence", "refence"}
    /\ IF fenced \/ published
       THEN /\ at' = [at EXCEPT ![p].fence = fenced,
                                ![p].pc = IF @ = "fence" THEN "restore" ELSE "reissue"]
            /\ UNCHANGED <<restore, lock>>
       ELSE Fail(p)
    /\ Same /\ UNCHANGED target

\* A fence is read where it is asked for; nothing keeps it afterwards.
ReadFence(p) ==
    /\ at[p].pc \in {"fence", "refence"}
    /\ IF fenced
       THEN /\ at' = [at EXCEPT ![p].fence = TRUE,
                                ![p].pc = IF @ = "fence" THEN "restore" ELSE "reissue"]
            /\ UNCHANGED <<restore, lock>>
       ELSE Fail(p)
    /\ Same /\ UNCHANGED target

\* acquire_kernel_lease: the text is read before it is replaced.
EnterRestore(p) ==
    /\ at[p].pc \in {"restore", "reconcile"}
    /\ IF restoreLock = None
       THEN /\ restoreLock' = p /\ restoreText' = "held"
            /\ at' = [at EXCEPT ![p].abandoned = (restoreText = "held"),
                                ![p].pc = IF @ = "restore" THEN "restoring" ELSE "reconciling"]
            /\ UNCHANGED <<stage, lock>>
       ELSE Fail(p)
    /\ Same /\ UNCHANGED target

\* A target or a stage that is there is taken over from a holder that died.
Adopts(p) == at[p].abandoned
Restoring(p) ==
    /\ at[p].pc = "restoring" /\ Same
    /\ \/ /\ published /\ Adopts(p) /\ stage = "none" /\ Original
          /\ tree' = "closed" /\ Go(p, "inspect")
          /\ UNCHANGED <<restore, lock, published, marker, db>>
       \/ /\ ~published /\ (stage = "none" \/ Adopts(p))
          /\ stage' = "partial" /\ Go(p, "copy")
          /\ UNCHANGED <<restoreLock, restoreText, lock, target>>
       \/ /\ IF published THEN ~(Adopts(p) /\ stage = "none" /\ Original)
             ELSE stage # "none" /\ ~Adopts(p)
          /\ Fail(p) /\ UNCHANGED target

Copy(p) ==
    /\ at[p].pc = "copy"
    /\ stage' = "sealed" /\ Go(p, "publish")
    /\ Same /\ UNCHANGED <<restoreLock, restoreText, lock, target>>

\* The marker comes with the tree, so that a Store never opens without it.
Publish(p) ==
    /\ at[p].pc = "publish"
    /\ stage' = "none" /\ published' = TRUE /\ marker' = TRUE
    /\ db' = "source" /\ tree' = "closed"
    /\ Go(p, "inspect")
    /\ Same /\ UNCHANGED <<restoreLock, restoreText, lock>>

Inspect(p) ==
    /\ at[p].pc = "inspect"
    /\ IF Original /\ ~Writable
       THEN Go(p, "plan") /\ LeaveRestore(p) /\ UNCHANGED <<stage, lock>>
       ELSE Fail(p)
    /\ Same /\ UNCHANGED target

\* An exception while copying removes the stage; an interrupt, or a failure later,
\* leaves it, and the lease is released like any other.
RestoreFails(p) ==
    /\ at[p].pc \in {"restoring", "copy", "publish", "inspect"} /\ Fault
    /\ Return(p) /\ LeaveRestore(p)
    /\ \/ at[p].pc = "copy" /\ stage' = "none"
       \/ UNCHANGED stage
    /\ UNCHANGED <<target, lock, fenced>>

\* prepare_takeover and confirm_explicit_takeover read the sealed tree again, with
\* no lease; then the target is opened under the lease of the Store.
Plan(p) ==
    /\ at[p].pc = "plan"
    /\ IF Original /\ ~Writable THEN Go(p, "open") /\ UNCHANGED <<restore, lock>> ELSE Fail(p)
    /\ Same /\ UNCHANGED target
Open(p) == at[p].pc = "open" /\ Look(p, db # "journal", "activate")

-----------------------------------------------------------------------------
(* A target that is there                                                  *)

\* The owner state of the restore first: what a dead restorer left is protected.
Reconciling(p) ==
    /\ at[p].pc = "reconciling" /\ Same /\ UNCHANGED target
    /\ \/ /\ stage = "none" /\ at[p].abandoned /\ Original
          /\ Go(p, "protect") /\ UNCHANGED <<restore, lock>>
       \/ /\ stage = "none" /\ ~at[p].abandoned
          /\ Go(p, "classify") /\ LeaveRestore(p) /\ UNCHANGED <<stage, lock>>
       \/ /\ stage # "none" \/ (at[p].abandoned /\ ~Original)
          /\ Fail(p)
Protect(p) ==
    /\ at[p].pc = "protect"
    /\ tree' = "closed"
    /\ IF Original
       THEN Go(p, "classify") /\ LeaveRestore(p) /\ UNCHANGED <<stage, lock>>
       ELSE Fail(p)
    /\ Same /\ UNCHANGED <<published, marker, db>>

\* _takeover_target_is_committed: a journal means not yet.
IsCommitted == Committed
NeedsFence == ~IsCommitted
Classify(p) ==
    at[p].pc = "classify" /\ Look(p, TRUE, IF NeedsFence THEN "refence" ELSE "committed")

\* A committed target needs its row only, no longer the source.
ReissueCommitted(p) == at[p].pc = "committed" /\ Look(p, IsCommitted, "activate")

\* Under the lease of the Store: a journal that a death has left is made void by
\* the bytes of the BackupSet; the journal goes last.
\* Mutants: no look at the journal, no recovery.
InterruptedByMarker == marker
InterruptedNever == FALSE
Free == lock = None
Interrupted == marker /\ db = "journal"
Reissue(p) ==
    /\ at[p].pc = "reissue"
    /\ IF Free
       THEN /\ lock' = p
            /\ IF Interrupted
               THEN tree' = "open" /\ Go(p, "recover")
               ELSE Go(p, "reissued") /\ UNCHANGED tree
            /\ UNCHANGED restore
       ELSE Fail(p) /\ UNCHANGED tree
    /\ Same /\ UNCHANGED <<published, marker, db>>
Recover(p) ==
    /\ at[p].pc = "recover"
    /\ db' = "source" /\ tree' = "closed"
    /\ Go(p, "reissued")
    /\ Same /\ UNCHANGED <<restore, lock, published, marker>>
RecoverFails(p) ==
    /\ at[p].pc = "recover" /\ Fault
    /\ tree' = "closed" /\ Fail(p)
    /\ UNCHANGED <<fenced, published, marker, db>>
Reissued(p) ==
    /\ at[p].pc = "reissued"
    /\ IF Original THEN Go(p, "activate") /\ Unlock(p) /\ UNCHANGED restore ELSE Fail(p)
    /\ Same /\ UNCHANGED target

-----------------------------------------------------------------------------
(* activate_takeover                                                       *)

\* Whatever fails once the tree is writable closes it again.  A tree without marker
\* is left as it is.
\* A mutant: nothing is closed.
ProtectedNot == UNCHANGED tree
Protected == tree' = IF marker THEN "closed" ELSE tree
FailProtected(p) == Protected /\ Fail(p) /\ UNCHANGED <<published, marker>>

Activate(p) ==
    /\ at[p].pc = "activate"
    /\ IF Free /\ (Original \/ db = "successor")
       THEN /\ lock' = p
            /\ tree' = IF marker THEN "open" ELSE tree
            /\ Go(p, IF db = "source" THEN "begin" ELSE "verify")
            /\ UNCHANGED restore
       ELSE Fail(p) /\ UNCHANGED tree
    /\ Same /\ UNCHANGED <<published, marker, db>>

\* BEGIN IMMEDIATE, the quiesced pre-state again, the row of the successor.
BeginWriter(p) ==
    /\ at[p].pc = "begin" /\ Same
    /\ IF Writable
       THEN db' = "journal" /\ Go(p, "commit") /\ UNCHANGED <<restore, lock, published, marker, tree>>
       ELSE FailProtected(p) /\ UNCHANGED db

\* COMMIT removes the journal.  It cannot in a tree that was closed meanwhile.
Commit(p) ==
    /\ at[p].pc = "commit" /\ Same
    /\ IF Writable
       THEN db' = "successor" /\ Go(p, "verify") /\ UNCHANGED <<restore, lock, published, marker, tree>>
       ELSE FailProtected(p) /\ UNCHANGED db

\* The commit is rolled back, or was made although it is reported as failed.
CommitFails(p) ==
    /\ at[p].pc = "commit" /\ Writable /\ Fault
    /\ db' \in {"source", "successor"}
    /\ FailProtected(p) /\ UNCHANGED fenced

\* The first ordinary connection makes the database WAL.
Verify(p) ==
    /\ at[p].pc = "verify" /\ Same /\ UNCHANGED db
    /\ IF Writable
       THEN /\ IF marker THEN Go(p, "complete") /\ UNCHANGED lock ELSE Go(p, "active") /\ Unlock(p)
            /\ UNCHANGED <<restore, published, marker, tree>>
       ELSE FailProtected(p)

\* _complete_takeover_unseal
Complete(p) ==
    /\ at[p].pc = "complete" /\ Same /\ UNCHANGED db
    /\ IF Writable /\ db = "successor"
       THEN marker' = FALSE /\ Go(p, "active") /\ Unlock(p) /\ UNCHANGED <<restore, published, tree>>
       ELSE FailProtected(p)

ActivateFails(p) ==
    /\ at[p].pc \in {"begin", "verify", "complete"} /\ Fault
    /\ FailProtected(p) /\ UNCHANGED <<fenced, db>>

Answered(p) ==
    /\ at[p].pc = "active" /\ Return(p)
    /\ Same /\ UNCHANGED <<restore, target, lock>>

-----------------------------------------------------------------------------
(* What happens around it                                                  *)

\* An ordinary Store opens the Workspace and commits.
Use ==
    /\ Active /\ db = "successor" /\ Writable
    /\ db' = "used"
    /\ Same /\ UNCHANGED <<restore, published, marker, tree, lock, at>>

Unfence == fenced /\ Fault /\ fenced' = FALSE /\ UNCHANGED <<restore, target, lock, at>>
Refence == ~fenced /\ fenced' = TRUE /\ UNCHANGED <<restore, target, lock, at, bounds>>

\* A death frees both leases; the text of the restore stays.
Death(p) ==
    /\ at[p].pc # "idle" /\ Fault
    /\ Return(p) /\ Unlock(p)
    /\ restoreLock' = IF restoreLock = p THEN None ELSE restoreLock
    /\ tree' = IF lock = p /\ marker /\ tree = "open" THEN "torn" ELSE tree
    /\ UNCHANGED <<restoreText, stage, published, marker, db, fenced>>

Step(p) ==
    \/ ReadFence(p) \/ EnterRestore(p) \/ Restoring(p) \/ Copy(p) \/ Publish(p)
    \/ Inspect(p) \/ Plan(p) \/ Open(p)
    \/ Reconciling(p) \/ Protect(p) \/ Classify(p) \/ ReissueCommitted(p)
    \/ Reissue(p) \/ Recover(p) \/ Reissued(p)
    \/ Activate(p) \/ BeginWriter(p) \/ Commit(p) \/ Verify(p) \/ Complete(p) \/ Answered(p)
Failure(p) ==
    RestoreFails(p) \/ RecoverFails(p) \/ CommitFails(p) \/ ActivateFails(p) \/ Death(p)

Next ==
    \/ \E p \in Process : Call(p) \/ Step(p) \/ Failure(p)
    \/ Use \/ Unfence \/ Refence
Spec == Init /\ [][Next]_vars

\* A process that runs goes on, and the owner gives its command again.
Fairness == WF_vars(Call(Owner)) /\ \A p \in Process : WF_vars(Step(p))
FairSpec == Spec /\ Fairness

-----------------------------------------------------------------------------
(* Properties                                                              *)

\* No replay, recovery or cleanup undoes a takeover that has committed, nor blocks it
\* again (_recover_interrupted_takeover_rollback_journal under the same lease).
CommittedForGood ==
    [][Committed => /\ db' = db \/ (db = "successor" /\ db' = "used")
                    /\ marker' => marker]_vars

\* A successor is committed by a command that has itself read the fence of the
\* source (require_live_source_fence), whoever has begun the takeover.
FencedCommit ==
    [][~Committed /\ Committed' =>
          \E p \in Process : at[p].pc = "commit" /\ at[p].fence]_vars

\* How far the target is.
Place ==
    CASE ~published -> "absent"
      [] published /\ ~Committed -> "restored"
      [] published /\ Committed /\ marker -> "committed"
      [] published /\ ~marker /\ db = "successor" -> "active"
      [] OTHER -> "used"

Promise ==
    INSTANCE TakeoverPromise WITH seen <- {p \in Process : at[p].fence}, place <- Place

\* Through every death, failure, repeated and concurrent command the target goes
\* one way, from nothing over a sealed copy and a committed successor to a
\* Workspace in use, and it is restored and committed only by a command that has
\* itself read the fence of the source.
KeepsTakeoverPromise == Promise!PromiseSpec

\* An incomplete takeover that nobody works on cannot be written to, however it
\* failed, unless a death interrupted it (_reseal_restored_after_failed_takeover,
\* _protect_committed_takeover_after_failure).
IncompleteIsClosed == published /\ marker /\ tree = "open" => lock # None

\* A stage without a target that no later call may remove: its lease was released.
Orphaned == ~published /\ stage # "none" /\ restoreLock = None /\ restoreText = "released"

\* From every crash and failure the command, given again, completes the takeover
\* once the source is fenced; only an orphaned stage stops it.
EventuallyActive == <>[]fenced => <>(Active \/ Orphaned)

=============================================================================
