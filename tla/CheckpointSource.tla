-------------------------- MODULE CheckpointSource --------------------------
(***************************************************************************)
(* The writer of a Workspace Store and the source it hands to backups      *)
(* (workspace_store.py, and the operations of mission_interface.py that    *)
(* call it).  Several processes of one principal work on one Store.  A     *)
(* write needs the lease of the one active writer epoch.  After a          *)
(* checkpoint has committed, its process releases the writer, copies the   *)
(* quiesced database into a slot, and claims a successor; a backup owner   *)
(* claims the slot, reads it and finalizes it.                             *)
(*                                                                         *)
(* Two exclusions with different lives: SQLite's write transaction, which  *)
(* nobody waits for (a busy database is an error at once), and the kernel  *)
(* lease of a source operation.  A death frees both.                       *)
(*                                                                         *)
(* Left out: the content of commands and their dependency heads, the       *)
(* stopped scientific commands, takeover, damage to the slot files from    *)
(* outside, failures to unlock.                                            *)
(***************************************************************************)
EXTENDS Naturals, Sequences, FiniteSets

CONSTANTS
    Process,
    None,        \* no process, no file
    MaxEpochs,   \* bound: Executive Epochs authorized
    MaxCaptures, \* bound: raw captures, each with one command id
    MaxCalls,    \* bound: calls other than authorizations
    MaxFaults    \* bound: deaths, interrupts and failed or ambiguous steps

ASSUME BoundsAssumption == {MaxEpochs, MaxCaptures, MaxCalls, MaxFaults} \subseteq Nat
ASSUME NoneAssumption == None \notin Process

VARIABLES
    log,     \* the project commits, each with its command and writer epoch
    writers, \* writer_epoch: the lifecycle of each epoch; only the last may be active
    tx,      \* the process that holds the SQLite write transaction
    lock,    \* the process that holds the source-operation lease
    stage, latest, claimed, \* the three slots of the recovery directory
    spent,   \* claim ids whose slot was deleted after use
    at,      \* what each process is doing
    calls, faults

store == <<log, writers>>
slots == <<stage, latest, claimed, spent>>
holds == <<tx, lock>>
bounds == <<calls, faults>>
vars == <<store, holds, slots, at, bounds>>

Commands ==
    [kind : {"authorize", "checkpoint"}, n : 1..MaxEpochs]
        \cup [kind : {"capture"}, n : 1..MaxCaptures]
SourceCalls == [kind : {"claim", "finalize"}, n : Nat]
NoCommand == [kind |-> "none", n |-> 0]

\* The database image of a slot: its last commit, its last writer epoch and the
\* commit of its checkpoint, which is also what its claim id is made from.
Images == [cut : Nat, prior : Nat, checkpoint : Nat]
Partial == [cut |-> 0, prior |-> 0, checkpoint |-> 0]
Slots == Images \cup {None}
ASSUME NoFileAssumption == None \notin Images

Steps == {"idle", "reissue", "reissued", "open", "commit", "lock_claim",
          "replay", "validate", "lock", "skip", "release", "unreleased", "create",
          "copy", "replace", "successor", "readback", "check", "answer",
          "source_lock", "claim", "finalize"}
SafeAnswers == {"published", "preserved", "reacquired", "damaged", "replayed"}
Answers == {"none", "unsafe", "unverified"} \cup SafeAnswers
Errors == {"none", "transient", "damage", "interrupt"}

Idle == [pc |-> "idle", cmd |-> NoCommand, lease |-> 0, cut |-> 0, src |-> None,
         err |-> "none", answer |-> "none"]

\* metadata.current_writer_epoch; 0 stands for NULL.
Writer ==
    IF writers # <<>> /\ writers[Len(writers)] = "active" THEN Len(writers) ELSE 0
Done(cmd) == \E i \in DOMAIN log : log[i].cmd = cmd
CommitOf(cmd) == CHOOSE i \in DOMAIN log : log[i].cmd = cmd
Commits(kind) == {i \in DOMAIN log : log[i].cmd.kind = kind}
Authorized == Cardinality(Commits("authorize"))
Checkpointed == Cardinality(Commits("checkpoint"))
LatestCheckpoint ==
    IF Commits("checkpoint") = {} THEN 0
    ELSE CHOOSE i \in Commits("checkpoint") : \A j \in Commits("checkpoint") : j <= i

TypeOK ==
    /\ log \in Seq([cmd : Commands, epoch : Nat \ {0}])
    /\ writers \in Seq({"active", "quiesced"})
    /\ {tx, lock} \subseteq Process \cup {None}
    /\ {stage, latest, claimed} \subseteq Slots
    /\ spent \subseteq Nat
    /\ at \in [Process -> [pc : Steps, cmd : Commands \cup SourceCalls \cup {NoCommand},
                           lease : Nat, cut : Nat, src : Slots, err : Errors, answer : Answers]]
    /\ calls \in 0..MaxCalls
    /\ faults \in 0..MaxFaults

\* After genesis: the writer that made it is active.
Init ==
    /\ log = <<>> /\ writers = <<"active">>
    /\ tx = None /\ lock = None
    /\ stage = None /\ latest = None /\ claimed = None /\ spent = {}
    /\ at = [p \in Process |-> Idle]
    /\ calls = 0 /\ faults = 0

-----------------------------------------------------------------------------
(* How a step of a process is written                                      *)

Go(p, step) == at' = [at EXCEPT ![p].pc = step]
Return(p) == at' = [at EXCEPT ![p] = Idle]
Answer(p, lease, answer) ==
    at' = [at EXCEPT ![p].pc = "answer", ![p].lease = lease, ![p].answer = answer]
Fault == faults < MaxFaults /\ faults' = faults + 1 /\ UNCHANGED calls
TxFree == tx = None
Holds(p) == Writer # 0 /\ at[p].lease = Writer
ExactCut(p) == Len(log) = at[p].cut

\* Ends a source operation or a call: what the process holds is free.
Unlock(p) == lock' = IF lock = p THEN None ELSE lock
Fail(p) == Return(p) /\ Unlock(p) /\ UNCHANGED <<store, tx, slots, bounds>>

-----------------------------------------------------------------------------
(* Calls.  The Host asks for the Epoch that is open, if one is, or the next. *)

Call(p, cmd, step) ==
    /\ at[p].pc = "idle"
    /\ at' = [at EXCEPT ![p] = [Idle EXCEPT !.pc = step, !.cmd = cmd, !.cut = Len(log)]]
    /\ UNCHANGED <<store, holds, slots, faults>>
Counted == calls < MaxCalls /\ calls' = calls + 1

CallAuthorize(p) ==
    \E n \in 1..MaxEpochs :
        /\ n = IF Authorized > Checkpointed THEN Authorized ELSE Authorized + 1
        /\ Call(p, [kind |-> "authorize", n |-> n], IF Writer # 0 THEN "reissue" ELSE "lock_claim")
        /\ UNCHANGED calls

CallCapture(p) ==
    \E n \in 1..MaxCaptures :
        Counted /\ Call(p, [kind |-> "capture", n |-> n], "reissue")

CallCheckpoint(p) ==
    \E n \in 1..Authorized :
        LET cmd == [kind |-> "checkpoint", n |-> n]
        IN Counted /\ Call(p, cmd, IF Done(cmd) THEN "replay" ELSE "reissue")

CallSource(p) ==
    \E kind \in {"claim", "finalize"}, n \in Commits("checkpoint") :
        Counted /\ Call(p, [kind |-> kind, n |-> n], "source_lock")

-----------------------------------------------------------------------------
(* A command: a lease, one write transaction, one commit                    *)

LockClaim(p) ==
    /\ at[p].pc = "lock_claim"
    /\ \/ lock = None /\ lock' = p /\ Go(p, "open") /\ UNCHANGED <<store, tx, slots, bounds>>
       \/ lock # None /\ Fail(p)

\* reissue_writer_lease looks inside a write transaction that it rolls back.
Reissue(p) ==
    /\ at[p].pc = "reissue"
    /\ \/ /\ TxFree /\ tx' = p
          /\ at' = [at EXCEPT ![p].pc = "reissued", ![p].lease = Writer]
          /\ UNCHANGED <<store, lock, slots, bounds>>
       \/ ~TxFree /\ Fail(p)

Reissued(p) ==
    /\ at[p].pc = "reissued"
    /\ tx' = None
    /\ IF at[p].lease = 0 THEN Return(p) ELSE Go(p, "open")
    /\ UNCHANGED <<store, lock, slots, bounds>>

Open(p) ==
    /\ at[p].pc = "open"
    /\ \/ TxFree /\ tx' = p /\ Go(p, "commit") /\ UNCHANGED <<store, lock, slots, bounds>>
       \/ ~TxFree /\ Fail(p)

\* Without a lease the command claims the next epoch of a quiesced Workspace.
Claims(p) == at[p].lease = 0 /\ Writer = 0

EpochOf(p) == IF Claims(p) THEN Len(writers) + 1 ELSE at[p].lease

\* A mutant: any lease that was once issued may write.
AnyLeaseWrites(p) == at[p].lease # 0 \/ Claims(p)

MayWrite(p) == Holds(p) \/ Claims(p)
InOrder(p) ==
    LET cmd == at[p].cmd IN
    CASE cmd.kind = "authorize" ->
             ExactCut(p) /\ cmd.n = Authorized + 1 /\ Authorized = Checkpointed
      [] cmd.kind = "checkpoint" -> cmd.n = Authorized /\ Checkpointed = cmd.n - 1
      [] OTHER -> TRUE

Commit(p) ==
    /\ at[p].pc = "commit" /\ ~Done(at[p].cmd) /\ MayWrite(p) /\ InOrder(p)
    /\ log' = Append(log, [cmd |-> at[p].cmd, epoch |-> EpochOf(p)])
    /\ writers' = IF Claims(p) THEN Append(writers, "active") ELSE writers
    /\ tx' = None
    /\ IF at[p].cmd.kind = "checkpoint"
       THEN at' = [at EXCEPT ![p].pc = "validate", ![p].cut = Len(log) + 1]
       ELSE Return(p)
    /\ Unlock(p)
    /\ UNCHANGED <<slots, bounds>>

\* A command that was committed before is answered from its result.
Refuse(p) ==
    /\ at[p].pc = "commit" /\ ~(~Done(at[p].cmd) /\ MayWrite(p) /\ InOrder(p))
    /\ Return(p) /\ Unlock(p) /\ tx' = None
    /\ UNCHANGED <<store, slots, bounds>>

\* A mutant: a replayed checkpoint is handed off again.
ReplayPublishes(p) ==
    /\ at[p].pc = "replay" /\ TxFree
    /\ at' = [at EXCEPT ![p].pc = "validate", ![p].lease = Writer]
    /\ UNCHANGED <<store, holds, slots, bounds>>

\* A checkpoint that was committed before: its process only looks at the writer.
Replay(p) ==
    /\ at[p].pc = "replay"
    /\ CASE CommitOf(at[p].cmd) # LatestCheckpoint -> Return(p)
         [] ~TxFree -> Answer(p, 0, "unverified")
         [] TxFree /\ Writer = 0 -> Answer(p, 0, "unsafe")
         [] OTHER -> Answer(p, Writer, "replayed")
    /\ UNCHANGED <<store, holds, slots, bounds>>

-----------------------------------------------------------------------------
(* The handoff of the process whose checkpoint has just committed           *)

Validate(p) ==
    /\ at[p].pc = "validate"
    /\ CASE ~Holds(p) -> Answer(p, at[p].lease, "unsafe")
         [] Holds(p) /\ ~ExactCut(p) -> Answer(p, at[p].lease, "unverified")
         [] OTHER -> Go(p, "lock")
    /\ UNCHANGED <<store, holds, slots, bounds>>

\* A mutant: the handoff goes on whoever holds the lease.
LockNot(p) ==
    /\ at[p].pc = "lock" /\ Go(p, "release")
    /\ UNCHANGED <<store, holds, slots, bounds>>

Lock(p) ==
    /\ at[p].pc = "lock"
    /\ lock' = IF lock = None THEN p ELSE lock
    /\ Go(p, IF lock = None THEN "release" ELSE "skip")
    /\ UNCHANGED <<store, tx, slots, bounds>>

\* A mutant: the cut may have moved since the checkpoint.
ProvenAnyCut(p) == TxFree /\ Holds(p)

\* _checkpoint_source_active_writer_scope, in a transaction of its own
Proven(p) == TxFree /\ Holds(p) /\ ExactCut(p)
Skip(p) ==
    /\ at[p].pc \in {"skip", "unreleased"}
    /\ Answer(p, at[p].lease,
              CASE Proven(p) -> "preserved"
                [] at[p].pc = "skip" /\ TxFree /\ ~Holds(p) -> "unsafe"
                [] OTHER -> "unverified")
    /\ UNCHANGED <<store, holds, slots, bounds>>

Quiesced(p) == writers' = [writers EXCEPT ![at[p].lease] = "quiesced"]
Release(p) ==
    /\ at[p].pc = "release"
    /\ \/ Proven(p) /\ Quiesced(p) /\ Go(p, "create")
       \/ ~Proven(p) /\ UNCHANGED writers /\ Go(p, "unreleased")
    /\ UNCHANGED <<log, holds, slots, bounds>>

\* No size of the database, or a release that raises with or without effect.
ReleaseFails(p) ==
    /\ at[p].pc = "release" /\ Fault
    /\ \/ UNCHANGED writers /\ Go(p, "skip")
       \/ Proven(p) /\ Quiesced(p) /\ Go(p, "unreleased")
    /\ UNCHANGED <<log, holds, slots>>

Create(p) ==
    /\ at[p].pc = "create"
    /\ stage' = Partial /\ Go(p, "copy")
    /\ UNCHANGED <<store, holds, latest, claimed, spent, bounds>>

Image == [cut |-> Len(log), prior |-> Len(writers), checkpoint |-> LatestCheckpoint]
Copy(p) ==
    /\ at[p].pc = "copy"
    /\ \/ /\ TxFree /\ ExactCut(p) /\ Writer = 0
          /\ stage' = Image /\ Go(p, "replace")
       \/ /\ ~TxFree \* the WAL cannot be truncated
          /\ stage' = None
          /\ at' = [at EXCEPT ![p].pc = "successor", ![p].err = "transient"]
    /\ UNCHANGED <<store, holds, latest, claimed, spent, bounds>>

Replace(p) ==
    /\ at[p].pc = "replace"
    /\ latest' = stage /\ stage' = None
    /\ at' = [at EXCEPT ![p].pc = "successor", ![p].src = stage]
    /\ UNCHANGED <<store, holds, claimed, spent, bounds>>

\* Whatever stops the copy, the writer is claimed again before it is raised.
CaptureFails(p) ==
    /\ at[p].pc \in {"create", "copy", "replace"} /\ Fault
    /\ \E err \in Errors \ {"none"} :
           at' = [at EXCEPT ![p].pc = "successor", ![p].err = err]
    /\ \/ stage' \in {None, stage} /\ UNCHANGED latest
       \/ at[p].pc = "replace" /\ latest' = stage /\ stage' = None
    /\ UNCHANGED <<store, holds, claimed, spent>>

Claimable(p) == TxFree /\ Writer = 0 /\ ExactCut(p)
Successor(p) ==
    /\ at[p].pc = "successor"
    /\ \/ /\ Claimable(p) /\ writers' = Append(writers, "active")
          /\ at' = [at EXCEPT ![p].pc = "check", ![p].lease = Len(writers) + 1]
       \/ ~Claimable(p) /\ UNCHANGED writers /\ Go(p, "readback")
    /\ UNCHANGED <<log, holds, slots, bounds>>

\* The claim raises, after its commit or before it.
SuccessorFails(p) ==
    /\ at[p].pc = "successor" /\ Fault
    /\ \/ UNCHANGED writers
       \/ Claimable(p) /\ writers' = Append(writers, "active")
    /\ \E err \in {at[p].err, "interrupt"} :
           at' = [at EXCEPT ![p].pc = "readback", ![p].err = err]
    /\ UNCHANGED <<log, holds, slots>>

Readback(p) ==
    /\ at[p].pc = "readback"
    /\ CASE ~TxFree -> Answer(p, at[p].lease, "unverified")
         [] TxFree /\ Writer = at[p].lease + 1 /\ ExactCut(p) ->
                at' = [at EXCEPT ![p].pc = "check", ![p].lease = Writer]
         [] OTHER -> Answer(p, at[p].lease, "unsafe")
    /\ UNCHANGED <<store, holds, slots, bounds>>

Check(p) ==
    /\ at[p].pc = "check"
    /\ CASE at[p].err = "none" -> Answer(p, at[p].lease, "published") /\ UNCHANGED lock
         [] at[p].err = "transient" -> Answer(p, at[p].lease, "reacquired") /\ UNCHANGED lock
         [] at[p].err = "damage" -> Answer(p, at[p].lease, "damaged") /\ UNCHANGED lock
         [] at[p].err = "interrupt" -> Return(p) /\ Unlock(p)
    /\ UNCHANGED <<store, tx, slots, bounds>>

\* The published source cannot be validated; the writer is looked at again.
CheckFails(p) ==
    /\ at[p].pc = "check" /\ at[p].err = "none" /\ Fault
    /\ Answer(p, at[p].lease,
              CASE Proven(p) -> "damaged"
                [] ~TxFree -> "unverified"
                [] OTHER -> "unsafe")
    /\ UNCHANGED <<store, holds, slots>>

Answered(p) ==
    /\ at[p].pc = "answer"
    /\ Return(p) /\ Unlock(p)
    /\ UNCHANGED <<store, tx, slots, bounds>>

-----------------------------------------------------------------------------
(* The owner of a backup, by the claim id it keeps                          *)

Names(p, slot) == slot # None /\ slot.checkpoint = at[p].cmd.n

SourceLock(p) ==
    /\ at[p].pc = "source_lock"
    /\ \/ /\ lock = None /\ lock' = p /\ Go(p, at[p].cmd.kind)
          /\ UNCHANGED <<store, tx, slots, bounds>>
       \/ lock # None /\ Fail(p)

\* A claim that finds its own slot claimed is a replay.
Claim(p) ==
    /\ at[p].pc = "claim" /\ Return(p) /\ Unlock(p)
    /\ IF claimed = None /\ Names(p, latest)
       THEN claimed' = latest /\ latest' = None
       ELSE UNCHANGED <<latest, claimed>>
    /\ UNCHANGED <<store, tx, stage, spent, bounds>>

Finalize(p) ==
    /\ at[p].pc = "finalize" /\ Return(p) /\ Unlock(p)
    /\ IF Names(p, claimed)
       THEN claimed' = None /\ spent' = spent \cup {claimed.checkpoint}
       ELSE UNCHANGED <<claimed, spent>>
    /\ UNCHANGED <<store, tx, stage, latest, bounds>>

-----------------------------------------------------------------------------
\* A mutant: a lock that outlives its process.
DeathKeepsLock(p) ==
    /\ at[p].pc # "idle" /\ Fault
    /\ Return(p) /\ UNCHANGED lock
    /\ tx' = IF tx = p THEN None ELSE tx
    /\ UNCHANGED <<store, slots>>

Death(p) ==
    /\ at[p].pc # "idle" /\ Fault
    /\ Return(p) /\ Unlock(p)
    /\ tx' = IF tx = p THEN None ELSE tx
    /\ UNCHANGED <<store, slots>>

Begin(p) == CallAuthorize(p) \/ CallCapture(p) \/ CallCheckpoint(p) \/ CallSource(p)
Step(p) ==
    \/ LockClaim(p) \/ Reissue(p) \/ Reissued(p) \/ Open(p) \/ Commit(p)
    \/ Refuse(p) \/ Replay(p)
    \/ Validate(p) \/ Lock(p) \/ Skip(p) \/ Release(p) \/ Create(p) \/ Copy(p)
    \/ Replace(p) \/ Successor(p) \/ Readback(p) \/ Check(p) \/ Answered(p)
    \/ SourceLock(p) \/ Claim(p) \/ Finalize(p)
Failure(p) ==
    ReleaseFails(p) \/ CaptureFails(p) \/ SuccessorFails(p) \/ CheckFails(p) \/ Death(p)

Next == \E p \in Process : Begin(p) \/ Step(p) \/ Failure(p)
Spec == Init /\ [][Next]_vars

\* A process that runs goes on; the Host asks for its Epoch again and again.
Fairness ==
    /\ \A p \in Process : WF_vars(Step(p))
    /\ SF_vars(\E p \in Process : CallAuthorize(p))
FairSpec == Spec /\ Fairness

-----------------------------------------------------------------------------
(* Properties                                                              *)

\* Nothing is written under an epoch after a source of that epoch was cut: of
\* every slot, the commits up to its cut are those of its writer and earlier ones
\* (release_writer, _assert_writer, _copy_quiesced_store_to_checkpoint_source_stage).
SourceIsWholePast ==
    \A slot \in {stage, latest, claimed} \ {None, Partial} :
        \A i \in DOMAIN log : i <= slot.cut <=> log[i].epoch <= slot.prior

\* Only the authorization of an Epoch claims a Workspace that has no writer, so a
\* handoff that dies or fails may leave none only where the next may be authorized
\* (the exact cut of release_writer; _writer_lease_for_epoch_authorization).
NoWriterBetweenEpochs == Writer = 0 => Authorized = Checkpointed

\* A source is used once: no slot holds a claim id again after its slot was
\* finalized, and no two slots hold the same (_checkpoint_source_claim_id).
SourceUsedOnce ==
    /\ \A slot \in {latest, claimed} \ {None} : slot.checkpoint \notin spent
    /\ latest # None /\ claimed # None => latest.checkpoint # claimed.checkpoint

Promise ==
    INSTANCE SourcePromise
    WITH past <- log, open <- Authorized # Checkpointed,
         writer <- Writer, epochs <- Len(writers),
         offered <- latest, taken <- claimed, used <- spent

\* However processes interleave, die and fail, the Store does what SourcePromise
\* says: each commit is by the one writer there is, writers pause only after a
\* checkpoint, and the latest slot is replaced only in such a pause, by an image of
\* all that is committed, which is claimed and finalized once.
KeepsSourcePromise == Promise!PromiseSpec

\* An answer that says the writer is safe names the writer active at that moment.
SafeAnswerHasWriter ==
    [][\A p \in Process :
          at[p].pc # "answer" /\ at'[p].answer \in SafeAnswers => at'[p].lease = Writer']_vars

\* A Workspace without writer gets one again, as long as Epochs are authorized.
WriterReturns == Writer = 0 ~> Writer # 0 \/ Authorized = MaxEpochs
=============================================================================
