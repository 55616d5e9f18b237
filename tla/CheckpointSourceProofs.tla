----------------------- MODULE CheckpointSourceProofs -----------------------
(***************************************************************************)
(* What holds of the writer of a Store and of its checkpoint sources for   *)
(* any number of processes, Epochs, calls and faults: types, that no Epoch *)
(* is without its writer, that a source is the whole past of its writer    *)
(* and is used once, and that an answer about the writer is true.          *)
(***************************************************************************)
EXTENDS CheckpointSource, FiniteSetTheorems, TLAPS

\* What a process may be doing with the cut of the checkpoint it committed.
Before == {"validate", "lock", "release", "create", "copy", "replace"}
After == {"skip", "unreleased", "successor", "readback", "check"}
Handoff == Before \cup After

\* Steps inside a source operation.
Locked == {"release", "unreleased", "create", "copy", "replace", "successor",
           "readback", "check", "claim", "finalize"}

\* Epochs and their checkpoints alternate.
Alternate ==
    /\ Authorized \in 0 .. MaxEpochs
    /\ Checkpointed \in {Authorized, Authorized - 1}
    /\ log # <<>> /\ log[Len(log)].cmd.kind = "checkpoint" => Authorized = Checkpointed

\* A handoff is of a checkpoint in the log, and no two are of the same.
Cuts ==
    /\ \A p \in Process :
          at[p].pc \in Handoff => at[p].cut \in Commits("checkpoint")
    /\ \A p, q \in Process :
          p # q /\ at[p].pc \in Handoff /\ at[q].pc \in Handoff => at[p].cut # at[q].cut

\* A source operation holds the lock.
Exclusive ==
    \A p \in Process : at[p].pc \in Locked => lock = p

\* No epoch is used before it is claimed, and only the last may be active.
Epochs ==
    /\ writers # <<>>
    /\ \A i \in DOMAIN log : log[i].epoch \in 1 .. Len(writers)
    /\ \A p \in Process : at[p].lease <= Len(writers)

\* A slot is cut where its writer ended.
IsPast(slot) ==
    /\ slot.cut <= Len(log)
    /\ slot.prior <= Len(writers) /\ (Writer # 0 => slot.prior < Len(writers))
    /\ \A i \in DOMAIN log : i <= slot.cut <=> log[i].epoch <= slot.prior
Pasts == \A slot \in {stage, latest, claimed} \ {None} : IsPast(slot)

\* What is in the slots is of a checkpoint that is not being handed off.
Spent ==
    /\ spent \subseteq Commits("checkpoint")
    /\ \A slot \in {latest, claimed} \ {None} : slot.checkpoint \in Commits("checkpoint")
    /\ \A p \in Process : at[p].pc \in Before =>
          /\ at[p].cut \notin spent
          /\ \A slot \in {latest, claimed} \ {None} : slot.checkpoint # at[p].cut
    /\ \A p \in Process : at[p].pc = "replace" => stage # None /\ stage.checkpoint = at[p].cut

\* Before a handoff ends it has its writer again.
Answering ==
    \A p \in Process :
        /\ at[p].pc = "check" => Writer # 0 /\ at[p].lease = Writer
        /\ at[p].answer # "none" => at[p].pc = "answer"

\* What was asked of a process.
Commanding == {"lock_claim", "reissue", "reissued", "open", "commit", "replay"}
Sourcing == {"source_lock", "claim", "finalize"}
Called ==
    \A p \in Process :
        /\ at[p].pc \in Commanding => at[p].cmd \in Commands
        /\ at[p].pc \in Sourcing => at[p].cmd.kind \in {"claim", "finalize"}

IInv ==
    /\ Called /\ TypeOK /\ Alternate /\ Cuts /\ Exclusive /\ Epochs /\ Pasts /\ Spent
    /\ SourceUsedOnce /\ NoWriterBetweenEpochs /\ Answering

-----------------------------------------------------------------------------
(* The commits of a kind, as the log grows                                 *)

LEMMA CommitsFinite ==
    ASSUME TypeOK, NEW kind
    PROVE  /\ IsFiniteSet(Commits(kind)) /\ Commits(kind) \subseteq 1 .. Len(log)
           /\ Cardinality(Commits(kind)) \in Nat
<1>1. Len(log) \in Nat /\ Commits(kind) \subseteq 1 .. Len(log)
  BY DEF TypeOK, Commits
<1>2. IsFiniteSet(1 .. Len(log))
  BY <1>1, FS_Interval
<1>3. IsFiniteSet(Commits(kind))
  BY <1>1, <1>2, FS_Subset
<1> QED BY <1>1, <1>3, FS_CardinalityType

LEMMA CommitsGrow ==
    ASSUME TypeOK, NEW cmd \in Commands, NEW epoch \in Nat \ {0}, NEW kind,
           log' = Append(log, [cmd |-> cmd, epoch |-> epoch])
    PROVE  /\ Len(log)' = Len(log) + 1 /\ Len(log) \in Nat
           /\ Len(log) + 1 \notin Commits(kind)
           /\ \A i \in 1 .. Len(log) : log'[i] = log[i]
           /\ log'[Len(log) + 1] = [cmd |-> cmd, epoch |-> epoch]
           /\ cmd.kind = kind => /\ Commits(kind)' = Commits(kind) \cup {Len(log) + 1}
                                 /\ Cardinality(Commits(kind))' = Cardinality(Commits(kind)) + 1
           /\ cmd.kind # kind => Commits(kind)' = Commits(kind)
<1>1. /\ Len(log) \in Nat /\ Len(log)' = Len(log) + 1 /\ DOMAIN log = 1 .. Len(log)
      /\ DOMAIN log' = 1 .. Len(log) + 1
      /\ \A i \in 1 .. Len(log) : log'[i] = log[i]
      /\ log'[Len(log) + 1] = [cmd |-> cmd, epoch |-> epoch]
  BY DEF TypeOK
<1>2. Len(log) + 1 \notin Commits(kind)
  BY <1>1 DEF Commits
<1>3. cmd.kind = kind => Commits(kind)' = Commits(kind) \cup {Len(log) + 1}
  BY <1>1 DEF Commits
<1>4. cmd.kind # kind => Commits(kind)' = Commits(kind)
  BY <1>1 DEF Commits
<1>5. cmd.kind = kind => Cardinality(Commits(kind))' = Cardinality(Commits(kind)) + 1
  BY <1>2, <1>3, CommitsFinite, FS_AddElement
<1> QED BY <1>1, <1>2, <1>3, <1>4, <1>5

\* A checkpoint that ends the log is the latest.
LEMMA LastIsLatest ==
    ASSUME TypeOK, Len(log) \in Commits("checkpoint")
    PROVE  LatestCheckpoint = Len(log)
<1>1. \A j \in Commits("checkpoint") : j \in Nat /\ j <= Len(log)
  BY CommitsFinite DEF TypeOK
<1>2. \A i \in Commits("checkpoint") :
         (\A j \in Commits("checkpoint") : j <= i) => i = Len(log)
  BY <1>1
<1> QED BY <1>1, <1>2 DEF LatestCheckpoint

-----------------------------------------------------------------------------
(* A step of one process: what it may come to                              *)

AtState == [pc : Steps, cmd : Commands \cup SourceCalls \cup {NoCommand},
            lease : Nat, cut : Nat, src : Slots, err : Errors, answer : Answers]

Follows(p, r) ==
    /\ r \in AtState
    /\ r.pc \in Handoff => at[p].pc \in Handoff /\ r.cut = at[p].cut
    /\ r.pc \in Before => at[p].pc \in Before
    /\ r.pc \in Commanding => r.cmd \in Commands
    /\ r.pc \in Sourcing => r.cmd.kind \in {"claim", "finalize"}
    /\ r.answer # "none" => r.pc = "answer"

Locks(p) ==
    /\ lock' \in {lock, p, None}
    /\ \A q \in Process \ {p} : lock = q => lock' = q

\* What a step keeps that leaves the log alone.
LEMMA MoveKeeps ==
    ASSUME IInv, NEW p \in Process, NEW r, log' = log, at' = [at EXCEPT ![p] = r],
           Follows(p, r), Locks(p), r.pc \in Locked => lock' = p
    PROVE  /\ at' \in [Process -> AtState] /\ lock' \in Process \cup {None}
           /\ Alternate' /\ Cuts' /\ Exclusive' /\ Called'
           /\ at'[p] = r /\ \A q \in Process \ {p} : at'[q] = at[q]
<1> USE DEF IInv
<1>1. at \in [Process -> AtState]
  BY DEF TypeOK, AtState
<1>2. /\ at' \in [Process -> AtState] /\ at'[p] = r
      /\ \A q \in Process \ {p} : at'[q] = at[q]
  BY <1>1 DEF Follows
<1>3. Commits("checkpoint")' = Commits("checkpoint") /\ Commits("authorize")' = Commits("authorize")
  BY DEF Commits
<1>4. Alternate'
  BY <1>3 DEF Alternate, Authorized, Checkpointed
<1>5. Cuts'
  BY <1>2, <1>3 DEF Cuts, Follows
<1>6. Exclusive'
  BY <1>2 DEF Exclusive, Locks
<1>7. Called'
  BY <1>2 DEF Called, Follows
<1>8. lock' \in Process \cup {None}
  BY DEF Locks, TypeOK
<1> QED BY <1>2, <1>4, <1>5, <1>6, <1>7, <1>8

Counts == calls' \in 0 .. MaxCalls /\ faults' \in 0 .. MaxFaults
\* A step that leaves the Store and the slots alone.
Quiet(p) ==
    /\ log' = log /\ writers' = writers
    /\ stage' = stage /\ latest' = latest /\ claimed' = claimed /\ spent' = spent
    /\ tx' \in {tx, p, None} /\ Locks(p) /\ Counts

LEMMA QuietKeeps ==
    ASSUME IInv, NEW p \in Process, NEW r, Quiet(p),
           at' = [at EXCEPT ![p] = r], Follows(p, r),
           r.pc \in Locked => lock' = p,
           r.pc = "replace" => at[p].pc = "replace",
           r.pc = "check" => Writer # 0 /\ r.lease = Writer,
           r.lease <= Len(writers)
    PROVE  IInv'
<1> USE DEF IInv
<1>1. /\ at' \in [Process -> AtState] /\ lock' \in Process \cup {None}
      /\ Alternate' /\ Cuts' /\ Exclusive' /\ Called'
      /\ at'[p] = r /\ \A q \in Process \ {p} : at'[q] = at[q]
  BY MoveKeeps DEF Quiet
<1>2. TypeOK'
  BY <1>1 DEF TypeOK, Quiet, AtState, Counts
<1>3. Commits("checkpoint")' = Commits("checkpoint") /\ Commits("authorize")' = Commits("authorize")
      /\ Writer' = Writer
  BY DEF Commits, Writer, Quiet
<1>4. Epochs'
  BY <1>1 DEF Epochs, Quiet
<1>5. Pasts'
  BY <1>3 DEF Pasts, IsPast, Quiet
<1>6. Spent'
  <2>1. \A q \in Process : at'[q].pc \in Before => at[q].pc \in Before /\ at'[q].cut = at[q].cut
    BY <1>1 DEF Follows, Handoff
  <2>2. \A q \in Process : at'[q].pc = "replace" => at[q].pc = "replace"
    BY <1>1
  <2>3. \A q \in Process : at'[q].pc = "replace" => at'[q].cut = at[q].cut
    BY <2>1, <2>2 DEF Before
  <2> QED BY <1>3, <2>1, <2>2, <2>3 DEF Spent, Quiet
<1>7. SourceUsedOnce'
  BY DEF SourceUsedOnce, Quiet
<1>8. NoWriterBetweenEpochs'
  BY <1>3 DEF NoWriterBetweenEpochs, Authorized, Checkpointed
<1>9. Answering'
  BY <1>1, <1>3 DEF Answering, Follows
<1> QED BY <1>1, <1>2, <1>4, <1>5, <1>6, <1>7, <1>8, <1>9

\* The same for each form such a step is written in.
LEMMA GoKeeps ==
    ASSUME IInv, NEW p \in Process, NEW step \in Steps, Quiet(p), Go(p, step),
           at[p].pc # "answer",
           step \in Locked => lock' = p,
           step \in Handoff => at[p].pc \in Handoff,
           step \in Before => at[p].pc \in Before,
           step \in Commanding => at[p].pc \in Commanding,
           step \in Sourcing => at[p].pc \in Sourcing,
           step \notin {"replace", "check"}
    PROVE  IInv'
<1> DEFINE r == [at[p] EXCEPT !.pc = step]
<1>1. at \in [Process -> AtState]
  BY DEF IInv, TypeOK, AtState
<1>2. at' = [at EXCEPT ![p] = r]
  BY <1>1 DEF Go
<1>3. r \in AtState /\ r.pc = step /\ r.cmd = at[p].cmd /\ r.cut = at[p].cut
      /\ r.lease = at[p].lease /\ r.answer = at[p].answer
  BY <1>1 DEF AtState
<1> HIDE DEF r
<1>4. at[p].answer = "none" /\ at[p].lease <= Len(writers)
  BY DEF IInv, Answering, Epochs
<1>5. Follows(p, r)
  BY <1>3, <1>4 DEF Follows, IInv, Called
<1> QED BY <1>2, <1>3, <1>4, <1>5, QuietKeeps

LEMMA ReturnKeeps ==
    ASSUME IInv, NEW p \in Process, Quiet(p), Return(p)
    PROVE  IInv'
<1>1. /\ Idle \in AtState /\ Idle.pc = "idle" /\ Idle.answer = "none" /\ Idle.lease = 0
  BY DEF AtState, Idle, Steps, Slots, Errors, Answers
<1>2. Follows(p, Idle)
  BY <1>1 DEF Follows, Handoff, Before, After, Commanding, Sourcing
<1>3. at' = [at EXCEPT ![p] = Idle]
  BY DEF Return
<1>4. Idle.pc \notin Locked /\ Idle.lease <= Len(writers)
  BY <1>1 DEF Locked, IInv, TypeOK
<1> QED BY <1>1, <1>2, <1>3, <1>4, QuietKeeps

LEMMA AnswerKeeps ==
    ASSUME IInv, NEW p \in Process, NEW lease \in Nat, NEW answer \in Answers, Quiet(p),
           Answer(p, lease, answer), lease <= Len(writers)
    PROVE  IInv'
<1> DEFINE r == [at[p] EXCEPT !.pc = "answer", !.lease = lease, !.answer = answer]
<1>1. at \in [Process -> AtState]
  BY DEF IInv, TypeOK, AtState
<1>2. at' = [at EXCEPT ![p] = r]
  BY <1>1 DEF Answer
<1>3. r \in AtState /\ r.pc = "answer" /\ r.lease = lease
  <2>1. "answer" \in Steps
    BY DEF Steps
  <2> QED BY <1>1, <2>1 DEF AtState
<1> HIDE DEF r
<1>4. Follows(p, r) /\ "answer" \notin Locked
  BY <1>3 DEF Follows, Handoff, Before, After, Commanding, Sourcing, Locked
<1> QED BY <1>2, <1>3, <1>4, QuietKeeps

\* The lease of a process, and that of the active writer, were issued.
LEMMA Leases ==
    ASSUME IInv, NEW p \in Process
    PROVE  /\ Writer \in Nat /\ Writer <= Len(writers) /\ Len(writers) \in Nat
           /\ at[p].lease \in Nat /\ at[p].lease <= Len(writers)
           /\ Writer # 0 => Writer = Len(writers)
BY DEF IInv, Epochs, TypeOK, Writer

-----------------------------------------------------------------------------
(* The actions, one lemma each                                             *)

LEMMA InitIInv == Init => IInv
<1> SUFFICES ASSUME Init PROVE IInv
  OBVIOUS
<1> USE BoundsAssumption, NoneAssumption DEF Init
<1>1. Commits("authorize") = {} /\ Commits("checkpoint") = {}
  BY DEF Commits
<1>2. Alternate /\ NoWriterBetweenEpochs
  <2>1. Authorized = 0 /\ Checkpointed = 0
    BY <1>1, FS_EmptySet DEF Authorized, Checkpointed
  <2>2. log = <<>> /\ MaxEpochs \in Nat
    OBVIOUS
  <2> HIDE DEF Init
  <2> QED BY <2>1, <2>2 DEF Alternate, NoWriterBetweenEpochs
<1>3. /\ Idle \in AtState /\ Idle.pc = "idle" /\ Idle.answer = "none" /\ Idle.lease = 0
  BY DEF AtState, Idle, Steps, Slots, Errors, Answers
<1>4. TypeOK
  <2>1. at \in [Process -> AtState]
    BY <1>3
  <2>2. log \in Seq([cmd : Commands, epoch : Nat \ {0}]) /\ writers \in Seq({"active", "quiesced"})
    OBVIOUS
  <2>3. spent \subseteq Nat /\ {tx, lock} \subseteq Process \cup {None} /\ calls \in 0 .. MaxCalls /\ faults \in 0 .. MaxFaults
    OBVIOUS
  <2>4. {stage, latest, claimed} \subseteq Slots
    BY DEF Slots
  <2> HIDE DEF Init
  <2> QED BY <2>1, <2>2, <2>3, <2>4 DEF TypeOK, AtState
<1>5. \A p \in Process : at[p].pc = "idle" /\ at[p].answer = "none" /\ at[p].lease = 0
  BY <1>3
<1>6. Cuts /\ Exclusive /\ Called /\ Answering
  BY <1>5 DEF Cuts, Exclusive, Called, Answering, Handoff, Before, After, Locked, Commanding, Sourcing
<1>7. Epochs /\ Pasts /\ SourceUsedOnce
  BY <1>5 DEF Epochs, Pasts, SourceUsedOnce
<1>8. Spent
  BY <1>1, <1>5 DEF Spent, Before
<1> QED BY <1>2, <1>4, <1>6, <1>7, <1>8 DEF IInv

LEMMA CallKeeps ==
    ASSUME IInv, NEW p \in Process, NEW cmd \in Commands \cup SourceCalls, NEW step \in Steps,
           Call(p, cmd, step), Counts,
           \/ step \in Commanding \ Sourcing /\ cmd \in Commands
           \/ step \in {"source_lock"} /\ cmd.kind \in {"claim", "finalize"}
    PROVE  IInv'
<1> DEFINE r == [Idle EXCEPT !.pc = step, !.cmd = cmd, !.cut = Len(log)]
<1>1. r \in AtState /\ r.pc = step /\ r.cmd = cmd /\ r.answer = "none" /\ r.lease = 0
  <2>1. Len(log) \in Nat
    BY DEF IInv, TypeOK
  <2> QED BY <2>1 DEF AtState, Idle, Slots, Errors, Answers
<1>2. at' = [at EXCEPT ![p] = r] /\ Quiet(p)
  BY DEF Call, Quiet, Locks, store, holds, slots
<1> HIDE DEF r
<1>3. step \notin Handoff \cup Locked \cup {"replace", "check"}
  BY DEF Commanding, Handoff, Before, After, Locked
<1>4. Follows(p, r)
  BY <1>1, <1>3 DEF Follows, Handoff, Commanding, Sourcing
<1>5. r.lease <= Len(writers)
  BY <1>1, Leases
<1> QED BY <1>1, <1>2, <1>3, <1>4, <1>5, QuietKeeps

LEMMA BeginKeeps == ASSUME IInv, NEW p \in Process, Begin(p) PROVE IInv'
<1> USE BoundsAssumption
<1>0. calls \in 0 .. MaxCalls /\ faults \in 0 .. MaxFaults
  BY DEF IInv, TypeOK
<1>1. /\ {"reissue", "lock_claim", "replay"} \subseteq Steps \cap (Commanding \ Sourcing)
      /\ "source_lock" \in Steps
  BY DEF Steps, Commanding, Sourcing
<1>2. CASE CallAuthorize(p)
  <2>1. PICK n \in 1 .. MaxEpochs : \E step \in {"reissue", "lock_claim"} :
           Call(p, [kind |-> "authorize", n |-> n], step) /\ UNCHANGED calls
    BY <1>2 DEF CallAuthorize
  <2>2. [kind |-> "authorize", n |-> n] \in Commands
    BY DEF Commands
  <2>3. Counts
    BY <1>0, <2>1 DEF Call, Counts
  <2> QED BY <1>1, <2>1, <2>2, <2>3, CallKeeps
<1>3. CASE CallCapture(p)
  <2>1. PICK n \in 1 .. MaxCaptures : Counted /\ Call(p, [kind |-> "capture", n |-> n], "reissue")
    BY <1>3 DEF CallCapture
  <2>2. [kind |-> "capture", n |-> n] \in Commands
    BY DEF Commands
  <2>3. Counts
    BY <1>0, <2>1 DEF Call, Counts, Counted
  <2> QED BY <1>1, <2>1, <2>2, <2>3, CallKeeps
<1>4. CASE CallCheckpoint(p)
  <2>1. PICK n \in 1 .. Authorized : Counted /\ \E step \in {"reissue", "replay"} :
           Call(p, [kind |-> "checkpoint", n |-> n], step)
    BY <1>4 DEF CallCheckpoint
  <2>2. [kind |-> "checkpoint", n |-> n] \in Commands
    BY DEF Commands, IInv, Alternate
  <2>3. Counts
    BY <1>0, <2>1 DEF Call, Counts, Counted
  <2> QED BY <1>1, <2>1, <2>2, <2>3, CallKeeps
<1>5. CASE CallSource(p)
  <2>1. PICK kind \in {"claim", "finalize"}, n \in Commits("checkpoint") :
           Counted /\ Call(p, [kind |-> kind, n |-> n], "source_lock")
    BY <1>5 DEF CallSource
  <2>2. [kind |-> kind, n |-> n] \in SourceCalls /\ [kind |-> kind, n |-> n].kind = kind
    BY CommitsFinite DEF SourceCalls, IInv
  <2>3. Counts
    BY <1>0, <2>1 DEF Call, Counts, Counted
  <2> QED BY <1>1, <2>1, <2>2, <2>3, CallKeeps
<1> QED BY <1>2, <1>3, <1>4, <1>5 DEF Begin

LEMMA LockClaimKeeps == ASSUME IInv, NEW p \in Process, LockClaim(p) PROVE IInv'
<1>1. Quiet(p)
  BY NoneAssumption DEF LockClaim, Fail, Unlock, Quiet, Locks, Counts, IInv, TypeOK, store, slots, bounds
<1>2. CASE Return(p)
  BY <1>1, <1>2, ReturnKeeps
<1>3. CASE Go(p, "open")
  BY <1>1, <1>3, GoKeeps
  DEF LockClaim, Steps, Locked, Handoff, Before, After, Commanding, Sourcing
<1> QED BY <1>2, <1>3 DEF LockClaim, Fail

LEMMA ReissueKeeps == ASSUME IInv, NEW p \in Process, Reissue(p) PROVE IInv'
<1>1. Quiet(p)
  BY DEF Reissue, TxFree, Fail, Unlock, Quiet, Locks, Counts, IInv, TypeOK, store, slots, bounds
<1>2. CASE Return(p)
  BY <1>1, <1>2, ReturnKeeps
<1>3. CASE at' = [at EXCEPT ![p].pc = "reissued", ![p].lease = Writer]
  <2> DEFINE r == [at[p] EXCEPT !.pc = "reissued", !.lease = Writer]
  <2>1. at \in [Process -> AtState]
    BY DEF IInv, TypeOK, AtState
  <2>2. at' = [at EXCEPT ![p] = r]
    BY <1>3, <2>1
  <2>3. r \in AtState /\ r.pc = "reissued" /\ r.lease = Writer /\ r.cmd = at[p].cmd /\ r.answer = at[p].answer
    BY <2>1, Leases DEF AtState, Steps
  <2> HIDE DEF r
  <2>4. at[p].pc = "reissue"
    BY DEF Reissue
  <2>5. at[p].cmd \in Commands /\ at[p].answer = "none"
    BY <2>4 DEF IInv, Called, Commanding, Answering
  <2>6. Follows(p, r) /\ "reissued" \notin Locked
    BY <2>3, <2>5 DEF Follows, Handoff, Before, After, Commanding, Sourcing, Locked
  <2> QED BY <1>1, <2>2, <2>3, <2>6, Leases, QuietKeeps
<1> QED BY <1>2, <1>3 DEF Reissue, Fail

LEMMA ReissuedKeeps == ASSUME IInv, NEW p \in Process, Reissued(p) PROVE IInv'
<1>1. Quiet(p)
  BY DEF Reissued, Quiet, Locks, Counts, IInv, TypeOK, store, slots, bounds
<1>2. CASE Return(p)
  BY <1>1, <1>2, ReturnKeeps
<1>3. CASE Go(p, "open")
  BY <1>1, <1>3, GoKeeps
  DEF Reissued, Steps, Locked, Handoff, Before, After, Commanding, Sourcing
<1> QED BY <1>2, <1>3 DEF Reissued

LEMMA OpenKeeps == ASSUME IInv, NEW p \in Process, Open(p) PROVE IInv'
<1>1. Quiet(p)
  BY DEF Open, TxFree, Fail, Unlock, Quiet, Locks, Counts, IInv, TypeOK, store, slots, bounds
<1>2. CASE Return(p)
  BY <1>1, <1>2, ReturnKeeps
<1>3. CASE Go(p, "commit")
  BY <1>1, <1>3, GoKeeps
  DEF Open, Steps, Locked, Handoff, Before, After, Commanding, Sourcing
<1> QED BY <1>2, <1>3 DEF Open, Fail

LEMMA RefuseKeeps == ASSUME IInv, NEW p \in Process, Refuse(p) PROVE IInv'
<1>1. Quiet(p) /\ Return(p)
  BY DEF Refuse, Unlock, Quiet, Locks, Counts, IInv, TypeOK, store, slots, bounds
<1> QED BY <1>1, ReturnKeeps

LEMMA AnsweredKeeps == ASSUME IInv, NEW p \in Process, Answered(p) PROVE IInv'
<1>1. Quiet(p) /\ Return(p)
  BY DEF Answered, Unlock, Quiet, Locks, Counts, IInv, TypeOK, store, slots, bounds
<1> QED BY <1>1, ReturnKeeps

LEMMA DeathKeeps == ASSUME IInv, NEW p \in Process, Death(p) PROVE IInv'
<1>1. Quiet(p) /\ Return(p)
  BY BoundsAssumption DEF Death, Fault, Unlock, Quiet, Locks, Counts, IInv, TypeOK, store, slots
<1> QED BY <1>1, ReturnKeeps

LEMMA ReplayKeeps == ASSUME IInv, NEW p \in Process, Replay(p) PROVE IInv'
<1>1. Quiet(p)
  BY DEF Replay, Quiet, Locks, Counts, IInv, TypeOK, store, holds, slots, bounds
<1>2. CASE Return(p)
  BY <1>1, <1>2, ReturnKeeps
<1>3. CASE \E lease \in {0, Writer}, answer \in {"unverified", "unsafe", "replayed"} :
              Answer(p, lease, answer)
  BY <1>1, <1>3, Leases, AnswerKeeps DEF Answers, SafeAnswers
<1> QED BY <1>2, <1>3 DEF Replay

LEMMA ValidateKeeps == ASSUME IInv, NEW p \in Process, Validate(p) PROVE IInv'
<1>1. Quiet(p)
  BY DEF Validate, Quiet, Locks, Counts, IInv, TypeOK, store, holds, slots, bounds
<1>2. CASE Go(p, "lock")
  BY <1>1, <1>2, GoKeeps
  DEF Validate, Steps, Locked, Handoff, Before, After, Commanding, Sourcing
<1>3. CASE \E answer \in {"unverified", "unsafe"} : Answer(p, at[p].lease, answer)
  BY <1>1, <1>3, Leases, AnswerKeeps DEF Answers
<1> QED BY <1>2, <1>3 DEF Validate

LEMMA LockKeeps == ASSUME IInv, NEW p \in Process, Lock(p) PROVE IInv'
<1>1. Quiet(p) /\ at[p].pc = "lock" /\ (lock = None => lock' = p)
  BY NoneAssumption DEF Lock, Quiet, Locks, Counts, IInv, TypeOK, store, slots, bounds
<1>2. CASE lock = None
  <2>1. Go(p, "release")
    BY <1>2 DEF Lock
  <2> QED BY <1>1, <1>2, <2>1, GoKeeps
      DEF Steps, Locked, Handoff, Before, After, Commanding, Sourcing
<1>3. CASE lock # None
  <2>1. Go(p, "skip")
    BY <1>3 DEF Lock
  <2> QED BY <1>1, <2>1, GoKeeps
      DEF Steps, Locked, Handoff, Before, After, Commanding, Sourcing
<1> QED BY <1>2, <1>3

LEMMA SkipKeeps == ASSUME IInv, NEW p \in Process, Skip(p) PROVE IInv'
<1>1. Quiet(p)
  BY DEF Skip, Quiet, Locks, Counts, IInv, TypeOK, store, holds, slots, bounds
<1>2. \E answer \in {"preserved", "unverified", "unsafe"} : Answer(p, at[p].lease, answer)
  BY DEF Skip
<1> QED BY <1>1, <1>2, Leases, AnswerKeeps DEF Answers, SafeAnswers

LEMMA ReadbackKeeps == ASSUME IInv, NEW p \in Process, Readback(p) PROVE IInv'
<1>1. Quiet(p)
  BY DEF Readback, Quiet, Locks, Counts, IInv, TypeOK, store, holds, slots, bounds
<1>2. CASE \E answer \in {"unverified", "unsafe"} : Answer(p, at[p].lease, answer)
  BY <1>1, <1>2, Leases, AnswerKeeps DEF Answers
<1>3. CASE Writer = at[p].lease + 1 /\ at' = [at EXCEPT ![p].pc = "check", ![p].lease = Writer]
  <2> DEFINE r == [at[p] EXCEPT !.pc = "check", !.lease = Writer]
  <2>1. at \in [Process -> AtState]
    BY DEF IInv, TypeOK, AtState
  <2>2. at' = [at EXCEPT ![p] = r]
    BY <1>3, <2>1
  <2>3. r \in AtState /\ r.pc = "check" /\ r.lease = Writer /\ r.cut = at[p].cut /\ r.answer = at[p].answer
    BY <2>1, Leases DEF AtState, Steps
  <2> HIDE DEF r
  <2>4. at[p].pc = "readback" /\ lock' = lock
    BY DEF Readback, holds
  <2>5. at[p].answer = "none" /\ lock = p
    BY <2>4 DEF IInv, Answering, Exclusive, Locked
  <2>6. Follows(p, r)
    BY <2>3, <2>4, <2>5 DEF Follows, Handoff, Before, After, Commanding, Sourcing
  <2>7. Writer # 0
    BY <1>3, Leases
  <2> QED BY <1>1, <2>2, <2>3, <2>4, <2>5, <2>6, <2>7, Leases, QuietKeeps
<1> QED BY <1>2, <1>3 DEF Readback

LEMMA CheckKeeps == ASSUME IInv, NEW p \in Process, Check(p) PROVE IInv'
<1>1. at[p].err \in Errors
  BY DEF IInv, TypeOK
<1>2. CASE at[p].err = "interrupt"
  <2>1. Return(p) /\ Unlock(p)
    BY <1>2 DEF Check
  <2>2. Quiet(p)
    BY <2>1 DEF Check, Unlock, Quiet, Locks, Counts, IInv, TypeOK, store, slots, bounds
  <2> QED BY <2>1, <2>2, ReturnKeeps
<1>3. CASE at[p].err # "interrupt"
  <2>1. /\ \E answer \in {"published", "reacquired", "damaged"} : Answer(p, at[p].lease, answer)
        /\ UNCHANGED lock
    BY <1>1, <1>3 DEF Check, Errors
  <2>2. Quiet(p)
    BY <2>1 DEF Check, Quiet, Locks, Counts, IInv, TypeOK, store, slots, bounds
  <2> QED BY <2>1, <2>2, Leases, AnswerKeeps DEF Answers, SafeAnswers
<1> QED BY <1>2, <1>3

LEMMA CheckFailsKeeps == ASSUME IInv, NEW p \in Process, CheckFails(p) PROVE IInv'
<1>1. Quiet(p)
  BY BoundsAssumption
  DEF CheckFails, Fault, Quiet, Locks, Counts, IInv, TypeOK, store, holds, slots
<1>2. \E answer \in {"damaged", "unverified", "unsafe"} : Answer(p, at[p].lease, answer)
  BY DEF CheckFails
<1> QED BY <1>1, <1>2, Leases, AnswerKeeps DEF Answers, SafeAnswers

LEMMA SourceLockKeeps == ASSUME IInv, NEW p \in Process, SourceLock(p) PROVE IInv'
<1>1. Quiet(p) /\ at[p].pc = "source_lock"
  BY NoneAssumption DEF SourceLock, Fail, Unlock, Quiet, Locks, Counts, IInv, TypeOK, store, slots, bounds
<1>2. CASE Return(p)
  BY <1>1, <1>2, ReturnKeeps
<1>3. CASE lock' = p /\ Go(p, at[p].cmd.kind)
  <2>1. at[p].cmd.kind \in {"claim", "finalize"}
    BY <1>1 DEF IInv, Called, Sourcing
  <2>2. at[p].cmd.kind \in Steps /\ at[p].cmd.kind \notin Handoff \cup Before \cup Commanding \cup {"replace", "check"}
    BY <2>1 DEF Steps, Handoff, Before, After, Commanding
  <2>3. at[p].pc \in Sourcing /\ at[p].pc # "answer"
    BY <1>1 DEF Sourcing
  <2> QED BY <1>1, <1>3, <2>2, <2>3, GoKeeps
<1> QED BY <1>2, <1>3 DEF SourceLock, Fail

-----------------------------------------------------------------------------
(* Steps of a handoff that change the slots or the writer                  *)

LEMMA Keep ==
    ASSUME IInv, NEW p \in Process, NEW step \in Handoff, NEW r \in AtState,
           at[p].pc \in Handoff, r.pc = step, r.cut = at[p].cut, r.answer = at[p].answer,
           step \in Before => at[p].pc \in Before
    PROVE  Follows(p, r)
<1>1. at[p].pc # "answer"
  BY DEF Handoff, Before, After
<1>2. r.answer = "none"
  BY <1>1 DEF IInv, Answering
<1>3. step \notin Commanding \cup Sourcing
  BY DEF Handoff, Before, After, Commanding, Sourcing
<1> QED BY <1>2, <1>3 DEF Follows

LEMMA SlotKeeps ==
    ASSUME IInv, NEW p \in Process, NEW r, log' = log, writers' = writers, tx' = tx,
           Locks(p), Counts, at' = [at EXCEPT ![p] = r], Follows(p, r),
           r.pc \in Locked => lock' = p,
           r.pc # "check", r.lease <= Len(writers),
           {stage', latest', claimed'} \subseteq Slots,
           \A slot \in {stage', latest', claimed'} \ {None} : IsPast(slot),
           spent' \subseteq Commits("checkpoint"),
           Spent', SourceUsedOnce'
    PROVE  IInv'
<1> USE DEF IInv
<1>1. /\ at' \in [Process -> AtState] /\ lock' \in Process \cup {None}
      /\ Alternate' /\ Cuts' /\ Exclusive' /\ Called'
      /\ at'[p] = r /\ \A q \in Process \ {p} : at'[q] = at[q]
  BY MoveKeeps
<1>2. spent' \subseteq Nat
  BY CommitsFinite DEF TypeOK
<1>3. TypeOK'
  BY <1>1, <1>2 DEF TypeOK, AtState, Counts
<1>4. Commits("checkpoint")' = Commits("checkpoint") /\ Commits("authorize")' = Commits("authorize")
      /\ Writer' = Writer
  BY DEF Commits, Writer
<1>5. Epochs'
  BY <1>1 DEF Epochs
<1>6. Pasts'
  BY <1>4 DEF Pasts, IsPast
<1>7. NoWriterBetweenEpochs'
  BY <1>4 DEF NoWriterBetweenEpochs, Authorized, Checkpointed
<1>8. Answering'
  BY <1>1, <1>4 DEF Answering, Follows
<1> QED BY <1>1, <1>3, <1>5, <1>6, <1>7, <1>8

\* What the owner of the lock is doing alone.
LEMMA Alone ==
    ASSUME IInv, NEW p \in Process, at[p].pc \in Locked
    PROVE  lock = p /\ \A q \in Process \ {p} : at[q].pc \notin Locked
BY DEF IInv, Exclusive

\* The slots as they are.
LEMMA PastSlots ==
    ASSUME IInv
    PROVE  /\ {stage, latest, claimed} \subseteq Slots
           /\ \A slot \in {stage, latest, claimed} \ {None} : IsPast(slot)
           /\ spent \subseteq Commits("checkpoint")
BY DEF IInv, TypeOK, Pasts, Spent

LEMMA PartialIsPast == ASSUME IInv PROVE Partial \in Slots /\ IsPast(Partial)
<1>1. Partial \in Slots /\ Partial.cut = 0 /\ Partial.prior = 0
  BY DEF Partial, Slots, Images
<1>2. \A i \in DOMAIN log : i >= 1 /\ i \in Nat /\ log[i].epoch \in Nat /\ log[i].epoch >= 1
  BY DEF IInv, TypeOK, Epochs
<1>3. Len(log) \in Nat /\ Len(writers) \in Nat /\ Len(writers) > 0
  BY DEF IInv, TypeOK, Epochs
<1> QED BY <1>1, <1>2, <1>3 DEF IsPast

LEMMA CreateKeeps == ASSUME IInv, NEW p \in Process, Create(p) PROVE IInv'
<1> DEFINE r == [at[p] EXCEPT !.pc = "copy"]
<1>1. at \in [Process -> AtState]
  BY DEF IInv, TypeOK, AtState
<1>2. at' = [at EXCEPT ![p] = r]
  BY <1>1 DEF Create, Go
<1>3. r \in AtState /\ r.pc = "copy" /\ r.cut = at[p].cut /\ r.answer = at[p].answer /\ r.lease = at[p].lease
  BY <1>1 DEF AtState, Steps
<1> HIDE DEF r
<1>4. /\ at[p].pc = "create" /\ stage' = Partial /\ log' = log /\ writers' = writers /\ tx' = tx
      /\ lock' = lock /\ latest' = latest /\ claimed' = claimed /\ spent' = spent
      /\ calls' = calls /\ faults' = faults
  BY DEF Create, store, holds, bounds
<1>5. Follows(p, r)
  BY <1>3, <1>4, Keep DEF Handoff, Before
<1>6. lock = p /\ \A q \in Process \ {p} : at[q].pc # "replace"
  BY <1>4, Alone DEF Locked
<1>7. Counts /\ Locks(p)
  BY <1>4 DEF Counts, Locks, IInv, TypeOK
<1>8. Spent'
  <2>1. Commits("checkpoint")' = Commits("checkpoint")
    BY <1>4 DEF Commits
  <2>2. \A q \in Process : /\ at'[q].pc # "replace" /\ at'[q].cut = at[q].cut
                           /\ at'[q].pc \in Before => at[q].pc \in Before
    BY <1>1, <1>2, <1>3, <1>4, <1>6 DEF Before
  <2> QED BY <2>1, <2>2, <1>4 DEF Spent, IInv
<1>9. SourceUsedOnce'
  BY <1>4 DEF SourceUsedOnce, IInv
<1>10. r.lease <= Len(writers)
  BY <1>3, Leases
<1> QED BY <1>2, <1>3, <1>4, <1>5, <1>6, <1>7, <1>8, <1>9, <1>10, PastSlots, PartialIsPast, SlotKeeps

LEMMA CopyKeeps == ASSUME IInv, NEW p \in Process, Copy(p) PROVE IInv'
<1>1. at \in [Process -> AtState]
  BY DEF IInv, TypeOK, AtState
<1>2. /\ at[p].pc = "copy" /\ log' = log /\ writers' = writers /\ tx' = tx
      /\ lock' = lock /\ latest' = latest /\ claimed' = claimed /\ spent' = spent
      /\ calls' = calls /\ faults' = faults
  BY DEF Copy, store, holds, bounds
<1>3. lock = p /\ \A q \in Process \ {p} : at[q].pc # "replace"
  BY <1>2, Alone DEF Locked
<1>4. Counts /\ Locks(p)
  BY <1>2 DEF Counts, Locks, IInv, TypeOK
<1>5. SourceUsedOnce'
  BY <1>2 DEF SourceUsedOnce, IInv
<1>6. Commits("checkpoint")' = Commits("checkpoint")
  BY <1>2 DEF Commits
<1>7. CASE ExactCut(p) /\ Writer = 0 /\ stage' = Image /\ Go(p, "replace")
  <2> DEFINE r == [at[p] EXCEPT !.pc = "replace"]
  <2>1. at' = [at EXCEPT ![p] = r]
    BY <1>1, <1>7 DEF Go
  <2>2. r \in AtState /\ r.pc = "replace" /\ r.cut = at[p].cut /\ r.answer = at[p].answer /\ r.lease = at[p].lease
    BY <1>1 DEF AtState, Steps
  <2> HIDE DEF r
  <2>3. Follows(p, r)
    BY <1>2, <2>2, Keep DEF Handoff, Before
  <2>4. Len(log) \in Commits("checkpoint") /\ at[p].cut = Len(log)
    BY <1>2, <1>7 DEF ExactCut, IInv, Cuts, Handoff, Before
  <2>5. Image = [cut |-> Len(log), prior |-> Len(writers), checkpoint |-> Len(log)]
    BY <2>4, LastIsLatest DEF Image, IInv
  <2>6. Image \in Slots /\ Image # None
    <3>1. Len(log) \in Nat /\ Len(writers) \in Nat
      BY DEF IInv, TypeOK
    <3>2. Image \in Images
      BY <2>5, <3>1 DEF Images
    <3> QED BY <3>2, NoFileAssumption DEF Slots
  <2>7. IsPast(Image)
    <3>1. \A i \in DOMAIN log : i <= Len(log) /\ log[i].epoch <= Len(writers)
      BY DEF IInv, TypeOK, Epochs
    <3>2. Len(log) \in Nat /\ Len(writers) \in Nat /\ Image.cut = Len(log) /\ Image.prior = Len(writers)
      BY <2>5 DEF IInv, TypeOK
    <3> QED BY <1>7, <3>1, <3>2 DEF IsPast
  <2>8. Spent'
    <3>1. \A q \in Process : /\ at'[q].cut = at[q].cut
                             /\ at'[q].pc \in Before => at[q].pc \in Before
                             /\ at'[q].pc = "replace" => q = p
      BY <1>1, <1>2, <1>3, <2>1, <2>2 DEF Before
    <3>2. stage' # None /\ stage'.checkpoint = at[p].cut
      BY <1>7, <2>4, <2>5, <2>6
    <3> QED BY <1>2, <1>6, <3>1, <3>2 DEF Spent, IInv
  <2>9. r.lease <= Len(writers)
    BY <2>2, Leases
  <2> QED BY <1>2, <1>3, <1>4, <1>5, <1>7, <2>1, <2>2, <2>3, <2>6, <2>7, <2>8, <2>9, PastSlots, SlotKeeps
<1>8. CASE stage' = None /\ at' = [at EXCEPT ![p].pc = "successor", ![p].err = "transient"]
  <2> DEFINE r == [at[p] EXCEPT !.pc = "successor", !.err = "transient"]
  <2>1. at' = [at EXCEPT ![p] = r]
    BY <1>1, <1>8
  <2>2. r \in AtState /\ r.pc = "successor" /\ r.cut = at[p].cut /\ r.answer = at[p].answer /\ r.lease = at[p].lease
    <3>1. "successor" \in Steps /\ "transient" \in Errors
      BY DEF Steps, Errors
    <3> QED BY <1>1, <3>1 DEF AtState
  <2> HIDE DEF r
  <2>3. Follows(p, r)
    BY <1>2, <2>2, Keep DEF Handoff, Before, After
  <2>4. Spent'
    <3>1. \A q \in Process : /\ at'[q].cut = at[q].cut
                             /\ at'[q].pc \in Before => at[q].pc \in Before
                             /\ at'[q].pc # "replace"
      BY <1>1, <1>2, <1>3, <2>1, <2>2 DEF Before
    <3> QED BY <1>2, <1>6, <3>1 DEF Spent, IInv
  <2>5. r.lease <= Len(writers) /\ None \in Slots
    BY <2>2, Leases DEF Slots
  <2> QED BY <1>2, <1>3, <1>4, <1>5, <1>8, <2>1, <2>2, <2>3, <2>4, <2>5, PastSlots, SlotKeeps
<1> QED BY <1>7, <1>8 DEF Copy

LEMMA ReplaceKeeps == ASSUME IInv, NEW p \in Process, Replace(p) PROVE IInv'
<1> DEFINE r == [at[p] EXCEPT !.pc = "successor", !.src = stage]
<1>1. at \in [Process -> AtState] /\ stage \in Slots /\ None \in Slots
  BY DEF IInv, TypeOK, AtState, Slots
<1>2. /\ at[p].pc = "replace" /\ log' = log /\ writers' = writers /\ tx' = tx
      /\ lock' = lock /\ latest' = stage /\ stage' = None /\ claimed' = claimed /\ spent' = spent
      /\ calls' = calls /\ faults' = faults
  BY DEF Replace, store, holds, bounds
<1>3. at' = [at EXCEPT ![p] = r]
  BY <1>1 DEF Replace
<1>4. r \in AtState /\ r.pc = "successor" /\ r.cut = at[p].cut /\ r.answer = at[p].answer /\ r.lease = at[p].lease
  <2>1. "successor" \in Steps
    BY DEF Steps
  <2> QED BY <1>1, <2>1 DEF AtState
<1> HIDE DEF r
<1>5. Follows(p, r)
  BY <1>2, <1>4, Keep DEF Handoff, Before, After
<1>6. lock = p /\ \A q \in Process \ {p} : at[q].pc # "replace"
  BY <1>2, Alone DEF Locked
<1>7. Counts /\ Locks(p)
  BY <1>2 DEF Counts, Locks, IInv, TypeOK
<1>8. stage # None /\ stage.checkpoint = at[p].cut
  BY <1>2 DEF IInv, Spent
<1>9. /\ at[p].cut \in Commits("checkpoint") /\ at[p].cut \notin spent
      /\ claimed # None => claimed.checkpoint # at[p].cut
      /\ \A q \in Process \ {p} : at[q].pc \in Before => at[q].cut # at[p].cut
  BY <1>2 DEF IInv, Cuts, Spent, Handoff, Before
<1>10. Spent'
  <2>1. Commits("checkpoint")' = Commits("checkpoint")
    BY <1>2 DEF Commits
  <2>2. \A q \in Process : /\ at'[q].cut = at[q].cut /\ at'[q].pc # "replace"
                           /\ at'[q].pc \in Before => at[q].pc \in Before /\ q # p
    BY <1>1, <1>3, <1>4, <1>6 DEF Before
  <2>3. spent' \subseteq Commits("checkpoint")' /\ \A slot \in {latest', claimed'} \ {None} :
           slot.checkpoint \in Commits("checkpoint")'
    BY <2>1, <1>2, <1>8, <1>9 DEF Spent, IInv
  <2>4. \A q \in Process : at'[q].pc \in Before =>
           /\ at'[q].cut \notin spent'
           /\ \A slot \in {latest', claimed'} \ {None} : slot.checkpoint # at'[q].cut
    BY <2>2, <1>2, <1>8, <1>9 DEF Spent, IInv
  <2> QED BY <2>2, <2>3, <2>4 DEF Spent
<1>11. SourceUsedOnce'
  BY <1>2, <1>8, <1>9 DEF SourceUsedOnce, IInv
<1>12. r.lease <= Len(writers)
  BY <1>4, Leases
<1> QED BY <1>1, <1>2, <1>3, <1>4, <1>5, <1>6, <1>7, <1>10, <1>11, <1>12, PastSlots, SlotKeeps

LEMMA CaptureFailsKeeps == ASSUME IInv, NEW p \in Process, CaptureFails(p) PROVE IInv'
<1>1. at \in [Process -> AtState] /\ stage \in Slots /\ None \in Slots
  BY DEF IInv, TypeOK, AtState, Slots
<1>2. /\ at[p].pc \in {"create", "copy", "replace"} /\ log' = log /\ writers' = writers /\ tx' = tx
      /\ lock' = lock /\ claimed' = claimed /\ spent' = spent
      /\ calls' = calls /\ faults' \in 0 .. MaxFaults
  BY BoundsAssumption DEF CaptureFails, Fault, store, holds, IInv, TypeOK
<1>3. PICK err \in Errors : at' = [at EXCEPT ![p].pc = "successor", ![p].err = err]
  BY DEF CaptureFails
<1> DEFINE r == [at[p] EXCEPT !.pc = "successor", !.err = err]
<1>4. at' = [at EXCEPT ![p] = r]
  BY <1>1, <1>3
<1>5. r \in AtState /\ r.pc = "successor" /\ r.cut = at[p].cut /\ r.answer = at[p].answer /\ r.lease = at[p].lease
  BY <1>1 DEF AtState, Steps
<1> HIDE DEF r
<1>6. Follows(p, r)
  BY <1>2, <1>5, Keep DEF Handoff, Before, After
<1>7. lock = p /\ \A q \in Process \ {p} : at[q].pc # "replace"
  BY <1>2, Alone DEF Locked
<1>8. Counts /\ Locks(p) /\ r.lease <= Len(writers)
  BY <1>2, <1>5, Leases DEF Counts, Locks, IInv, TypeOK
<1>9. Commits("checkpoint")' = Commits("checkpoint")
  BY <1>2 DEF Commits
<1>10. \A q \in Process : /\ at'[q].cut = at[q].cut /\ at'[q].pc # "replace"
                          /\ at'[q].pc \in Before => at[q].pc \in Before /\ q # p
  BY <1>1, <1>4, <1>5, <1>7 DEF Before
<1>11. CASE stage' \in {None, stage} /\ latest' = latest
  <2>1. Spent'
    BY <1>2, <1>9, <1>10, <1>11 DEF Spent, IInv
  <2>2. SourceUsedOnce'
    BY <1>2, <1>11 DEF SourceUsedOnce, IInv
  <2> QED BY <1>1, <1>2, <1>4, <1>5, <1>6, <1>7, <1>8, <1>11, <2>1, <2>2, PastSlots, SlotKeeps
<1>12. CASE at[p].pc = "replace" /\ latest' = stage /\ stage' = None
  <2>1. stage # None /\ stage.checkpoint = at[p].cut
    BY <1>12 DEF IInv, Spent
  <2>2. /\ at[p].cut \in Commits("checkpoint") /\ at[p].cut \notin spent
        /\ claimed # None => claimed.checkpoint # at[p].cut
        /\ \A q \in Process \ {p} : at[q].pc \in Before => at[q].cut # at[p].cut
    BY <1>12 DEF IInv, Cuts, Spent, Handoff, Before
  <2>3. spent' \subseteq Commits("checkpoint")' /\ \A slot \in {latest', claimed'} \ {None} :
           slot.checkpoint \in Commits("checkpoint")'
    BY <2>1, <2>2, <1>2, <1>9, <1>12 DEF Spent, IInv
  <2>4. \A q \in Process : at'[q].pc \in Before =>
           /\ at'[q].cut \notin spent'
           /\ \A slot \in {latest', claimed'} \ {None} : slot.checkpoint # at'[q].cut
    BY <2>1, <2>2, <1>2, <1>10, <1>12 DEF Spent, IInv
  <2>5. Spent'
    BY <1>10, <2>3, <2>4 DEF Spent
  <2>6. SourceUsedOnce'
    BY <1>2, <1>12, <2>1, <2>2 DEF SourceUsedOnce, IInv
  <2> QED BY <1>1, <1>2, <1>4, <1>5, <1>6, <1>7, <1>8, <1>12, <2>5, <2>6, PastSlots, SlotKeeps
<1> QED BY <1>11, <1>12 DEF CaptureFails

\* A call of the owner of a backup that ends.
LEMMA OwnerKeeps ==
    ASSUME IInv, NEW p \in Process, Return(p), Unlock(p), UNCHANGED <<store, tx, stage, bounds>>,
           {latest', claimed'} \subseteq {latest, claimed, None},
           latest' # None /\ claimed' # None => latest' = latest /\ claimed' = claimed,
           spent' \subseteq spent \cup {slot.checkpoint : slot \in {claimed} \ {None}},
           spent' # spent => claimed' = None /\ latest' \in {latest, None}
    PROVE  IInv'
<1>1. /\ Idle \in AtState /\ Idle.pc = "idle" /\ Idle.answer = "none" /\ Idle.lease = 0
  BY DEF AtState, Idle, Steps, Slots, Errors, Answers
<1>2. Follows(p, Idle)
  BY <1>1 DEF Follows, Handoff, Before, After, Commanding, Sourcing
<1>3. at' = [at EXCEPT ![p] = Idle] /\ at \in [Process -> AtState]
  BY DEF Return, IInv, TypeOK, AtState
<1>4. Idle.pc \notin Locked /\ Idle.lease <= Len(writers)
  BY <1>1 DEF Locked, IInv, TypeOK
<1>5. Counts /\ Locks(p) /\ log' = log /\ writers' = writers /\ tx' = tx /\ stage' = stage
  BY DEF Counts, Locks, Unlock, store, bounds, IInv, TypeOK
<1>6. Commits("checkpoint")' = Commits("checkpoint")
  BY <1>5 DEF Commits
<1>7. \A q \in Process : /\ at'[q].pc \in Before => at[q].pc \in Before /\ at'[q].cut = at[q].cut
                         /\ at'[q].pc = "replace" => at[q].pc = "replace" /\ at'[q].cut = at[q].cut
  BY <1>1, <1>3 DEF Before
<1>8. spent' \subseteq Commits("checkpoint")
  BY DEF IInv, Spent
<1>9. Spent'
  <2>1. spent' \subseteq Commits("checkpoint")' /\ \A slot \in {latest', claimed'} \ {None} :
           slot.checkpoint \in Commits("checkpoint")'
    BY <1>6, <1>8 DEF IInv, Spent
  <2>2. \A q \in Process : at'[q].pc \in Before =>
           /\ at'[q].cut \notin spent'
           /\ \A slot \in {latest', claimed'} \ {None} : slot.checkpoint # at'[q].cut
    BY <1>7 DEF IInv, Spent
  <2>3. \A q \in Process : at'[q].pc = "replace" => stage' # None /\ stage'.checkpoint = at'[q].cut
    BY <1>5, <1>7 DEF IInv, Spent
  <2> QED BY <2>1, <2>2, <2>3 DEF Spent
<1>10. SourceUsedOnce'
  BY DEF SourceUsedOnce, IInv
<1>11. {stage', latest', claimed'} \subseteq {stage, latest, claimed, None} /\ None \in Slots
  BY <1>5 DEF Slots
<1> QED BY <1>1, <1>2, <1>3, <1>4, <1>5, <1>8, <1>9, <1>10, <1>11, PastSlots, SlotKeeps

LEMMA ClaimKeeps == ASSUME IInv, NEW p \in Process, Claim(p) PROVE IInv'
<1>1. Return(p) /\ Unlock(p) /\ UNCHANGED <<store, tx, stage, bounds>> /\ spent' = spent
  BY DEF Claim
<1>2. \/ claimed = None /\ claimed' = latest /\ latest' = None
      \/ latest' = latest /\ claimed' = claimed
  BY DEF Claim
<1> QED BY <1>1, <1>2, OwnerKeeps

LEMMA FinalizeKeeps == ASSUME IInv, NEW p \in Process, Finalize(p) PROVE IInv'
<1>1. Return(p) /\ Unlock(p) /\ UNCHANGED <<store, tx, stage, bounds>> /\ latest' = latest
  BY DEF Finalize
<1>2. \/ claimed # None /\ claimed' = None /\ spent' = spent \cup {claimed.checkpoint}
      \/ spent' = spent /\ claimed' = claimed
  BY DEF Finalize, Names
<1>3. {slot.checkpoint : slot \in {claimed} \ {None}} = IF claimed = None THEN {} ELSE {claimed.checkpoint}
  OBVIOUS
<1> QED BY <1>1, <1>2, <1>3, OwnerKeeps

\* A writer is claimed for the process whose handoff released the last.
LEMMA SuccessorClaims ==
    ASSUME IInv, NEW p \in Process, NEW r \in AtState, at[p].pc = "successor", Claimable(p),
           UNCHANGED <<log, holds, slots>>, Counts, writers' = Append(writers, "active"),
           at' = [at EXCEPT ![p] = r], r.pc \in {"check", "readback"}, r.cut = at[p].cut,
           r.answer = at[p].answer, r.lease <= Len(writers) + 1,
           r.pc = "check" => r.lease = Len(writers) + 1
    PROVE  IInv'
<1>1. /\ log' = log /\ tx' = tx /\ lock' = lock /\ stage' = stage /\ latest' = latest
      /\ claimed' = claimed /\ spent' = spent
  BY DEF holds, slots
<1>2. Follows(p, r) /\ Locks(p)
  BY <1>1, Keep DEF Handoff, Before, After, Locks
<1>3. lock = p /\ \A q \in Process \ {p} : at[q].pc # "check"
  BY Alone DEF Locked
<1>4. /\ at' \in [Process -> AtState] /\ lock' \in Process \cup {None}
      /\ Alternate' /\ Cuts' /\ Exclusive' /\ Called'
      /\ at'[p] = r /\ \A q \in Process \ {p} : at'[q] = at[q]
  BY <1>1, <1>2, <1>3, MoveKeeps
<1>5. /\ writers \in Seq({"active", "quiesced"}) /\ writers' \in Seq({"active", "quiesced"})
      /\ Len(writers) \in Nat /\ Len(writers)' = Len(writers) + 1 /\ Writer' = Len(writers) + 1
      /\ writers' # <<>>
  <2>1. writers \in Seq({"active", "quiesced"}) /\ Len(writers) \in Nat
    BY DEF IInv, TypeOK
  <2>2. writers' \in Seq({"active", "quiesced"}) /\ Len(writers') = Len(writers) + 1
        /\ writers'[Len(writers) + 1] = "active"
    BY <2>1
  <2> QED BY <2>1, <2>2 DEF Writer
<1>6. TypeOK'
  BY <1>1, <1>4, <1>5 DEF TypeOK, AtState, Counts, IInv
<1>7. Epochs'
  <2>1. \A i \in DOMAIN log : log[i].epoch \in 1 .. Len(writers)
    BY DEF IInv, Epochs
  <2>2. \A i \in DOMAIN log : log[i].epoch \in 1 .. Len(writers) + 1
    BY <1>5, <2>1
  <2>3. \A q \in Process : at'[q].lease <= Len(writers) + 1
    BY <1>4, <1>5, Leases
  <2> QED BY <1>1, <1>5, <2>2, <2>3 DEF Epochs
<1>8. Pasts'
  <2>1. \A slot \in {stage, latest, claimed} \ {None} : IsPast(slot) /\ slot.prior \in Nat
    BY PastSlots DEF Slots, Images
  <2>2. \A slot \in {stage, latest, claimed} \ {None} : slot.prior < Len(writers) + 1
    BY <1>5, <2>1 DEF IsPast
  <2>3. \A slot \in {stage, latest, claimed} \ {None} : slot.prior <= Len(writers) + 1
    BY <1>5, <2>1, <2>2
  <2> QED BY <1>1, <1>5, <2>1, <2>2, <2>3 DEF Pasts, IsPast
<1>9. Commits("checkpoint")' = Commits("checkpoint")
  BY <1>1 DEF Commits
<1>10. Spent'
  <2>1. \A q \in Process : at'[q].pc # "replace" \/ q # p
    BY <1>4
  <2>2. \A q \in Process : at'[q].pc \in Before => at[q].pc \in Before /\ at'[q].cut = at[q].cut
    BY <1>4 DEF Before
  <2>3. \A q \in Process : at'[q].pc = "replace" => at[q].pc = "replace" /\ at'[q].cut = at[q].cut
    BY <1>4
  <2> QED BY <1>1, <1>9, <2>2, <2>3 DEF Spent, IInv
<1>11. SourceUsedOnce'
  BY <1>1 DEF SourceUsedOnce, IInv
<1>12. NoWriterBetweenEpochs'
  BY <1>5 DEF NoWriterBetweenEpochs
<1>13. Answering'
  BY <1>2, <1>3, <1>4, <1>5 DEF Answering, Follows, IInv
<1> QED BY <1>4, <1>6, <1>7, <1>8, <1>10, <1>11, <1>12, <1>13 DEF IInv

LEMMA SuccessorKeeps == ASSUME IInv, NEW p \in Process, Successor(p) PROVE IInv'
<1>1. at \in [Process -> AtState] /\ at[p].pc = "successor"
  BY DEF IInv, TypeOK, AtState, Successor
<1>2. Counts /\ UNCHANGED <<log, holds, slots>>
  BY DEF Successor, Counts, bounds, IInv, TypeOK
<1>3. CASE /\ Claimable(p) /\ writers' = Append(writers, "active")
           /\ at' = [at EXCEPT ![p].pc = "check", ![p].lease = Len(writers) + 1]
  <2> DEFINE r == [at[p] EXCEPT !.pc = "check", !.lease = Len(writers) + 1]
  <2>1. at' = [at EXCEPT ![p] = r]
    BY <1>1, <1>3
  <2>2. Len(writers) + 1 \in Nat
    BY Leases
  <2>3. r \in AtState /\ r.pc = "check" /\ r.cut = at[p].cut /\ r.answer = at[p].answer
        /\ r.lease = Len(writers) + 1
    <3>1. "check" \in Steps
      BY DEF Steps
    <3> QED BY <1>1, <2>2, <3>1 DEF AtState
  <2>4. r.lease <= Len(writers) + 1 /\ r.pc \in {"check", "readback"}
    BY <2>2, <2>3
  <2> HIDE DEF r
  <2> QED BY <1>1, <1>2, <1>3, <2>1, <2>3, <2>4, SuccessorClaims
<1>4. CASE UNCHANGED writers /\ Go(p, "readback")
  <2>1. Quiet(p)
    BY <1>2, <1>4 DEF Quiet, holds, slots, Locks
  <2>2. lock' = p
    BY <1>1, <1>2, Alone DEF holds, Locked
  <2> QED BY <1>1, <1>4, <2>1, <2>2, GoKeeps DEF Steps, Handoff, Before, After, Commanding, Sourcing
<1> QED BY <1>3, <1>4 DEF Successor

LEMMA SuccessorFailsKeeps == ASSUME IInv, NEW p \in Process, SuccessorFails(p) PROVE IInv'
<1>1. at \in [Process -> AtState] /\ at[p].pc = "successor"
  BY DEF IInv, TypeOK, AtState, SuccessorFails
<1>2. Counts /\ UNCHANGED <<log, holds, slots>>
  BY BoundsAssumption DEF SuccessorFails, Fault, Counts, IInv, TypeOK
<1>3. PICK err \in Errors : at' = [at EXCEPT ![p].pc = "readback", ![p].err = err]
  BY <1>1 DEF SuccessorFails, Errors, AtState
<1> DEFINE r == [at[p] EXCEPT !.pc = "readback", !.err = err]
<1>4. at' = [at EXCEPT ![p] = r]
  BY <1>1, <1>3
<1>5. r \in AtState /\ r.pc = "readback" /\ r.cut = at[p].cut /\ r.answer = at[p].answer /\ r.lease = at[p].lease
  BY <1>1 DEF AtState, Steps
<1> HIDE DEF r
<1>6. r.lease <= Len(writers) /\ r.lease <= Len(writers) + 1
  BY <1>5, Leases
<1>7. CASE UNCHANGED writers
  <2>1. Quiet(p) /\ lock' = p
    BY <1>1, <1>2, <1>7, Alone DEF Quiet, holds, slots, Locks, Locked
  <2>2. Follows(p, r)
    BY <1>1, <1>5, Keep DEF Handoff, Before, After
  <2> QED BY <1>4, <1>5, <1>6, <2>1, <2>2, QuietKeeps
<1>8. CASE Claimable(p) /\ writers' = Append(writers, "active")
  BY <1>1, <1>2, <1>4, <1>5, <1>6, <1>8, SuccessorClaims
<1> QED BY <1>7, <1>8 DEF SuccessorFails

\* The writer is released at the cut of the last checkpoint.
LEMMA Quiesces ==
    ASSUME IInv, NEW p \in Process, NEW step \in {"create", "unreleased"}, at[p].pc = "release",
           Proven(p), Quiesced(p), UNCHANGED <<log, holds, slots>>, Counts, Go(p, step)
    PROVE  IInv'
<1> DEFINE r == [at[p] EXCEPT !.pc = step]
<1>1. /\ log' = log /\ tx' = tx /\ lock' = lock /\ stage' = stage /\ latest' = latest
      /\ claimed' = claimed /\ spent' = spent
  BY DEF holds, slots
<1>2. at \in [Process -> AtState] /\ at' = [at EXCEPT ![p] = r]
  BY DEF IInv, TypeOK, AtState, Go
<1>3. r \in AtState /\ r.pc = step /\ r.cut = at[p].cut /\ r.answer = at[p].answer /\ r.lease = at[p].lease
  BY <1>2 DEF AtState, Steps
<1> HIDE DEF r
<1>4. Follows(p, r) /\ Locks(p)
  BY <1>1, <1>3, Keep DEF Handoff, Before, After, Locks
<1>5. lock = p /\ \A q \in Process \ {p} : at[q].pc # "check" /\ at[q].pc # "replace"
  BY Alone DEF Locked
<1>6. /\ at' \in [Process -> AtState] /\ lock' \in Process \cup {None}
      /\ Alternate' /\ Cuts' /\ Exclusive' /\ Called'
      /\ at'[p] = r /\ \A q \in Process \ {p} : at'[q] = at[q]
  BY <1>1, <1>2, <1>3, <1>4, <1>5, MoveKeeps
<1>7. /\ writers \in Seq({"active", "quiesced"}) /\ writers' \in Seq({"active", "quiesced"})
      /\ Len(writers)' = Len(writers) /\ Len(writers) \in Nat /\ Writer' = 0 /\ writers' # <<>>
  <2>1. /\ writers \in Seq({"active", "quiesced"}) /\ writers # <<>> /\ Len(writers) \in Nat
    BY DEF IInv, TypeOK, Epochs
  <2>2. at[p].lease = Len(writers)
    BY Leases DEF Proven, Holds
  <2>3. writers' = [writers EXCEPT ![Len(writers)] = "quiesced"]
    BY <2>2 DEF Quiesced
  <2>4. writers' \in Seq({"active", "quiesced"}) /\ Len(writers') = Len(writers)
        /\ writers'[Len(writers)] = "quiesced"
    BY <2>1, <2>3
  <2>5. writers' # <<>>
    BY <2>1, <2>4
  <2> QED BY <2>1, <2>4, <2>5 DEF Writer
<1>8. TypeOK'
  BY <1>1, <1>6, <1>7 DEF TypeOK, AtState, Counts, IInv
<1>9. Epochs'
  <2>1. \A i \in DOMAIN log : log[i].epoch \in 1 .. Len(writers)
    BY DEF IInv, Epochs
  <2>2. \A q \in Process : at'[q].lease <= Len(writers)
    BY <1>3, <1>6, Leases
  <2> QED BY <1>1, <1>7, <2>1, <2>2 DEF Epochs
<1>10. Pasts'
  BY <1>1, <1>7 DEF Pasts, IsPast, IInv
<1>11. Commits("checkpoint")' = Commits("checkpoint") /\ Commits("authorize")' = Commits("authorize")
  BY <1>1 DEF Commits
<1>12. Spent'
  <2>1. \A q \in Process : at'[q].pc \in Before => at[q].pc \in Before /\ at'[q].cut = at[q].cut
    BY <1>3, <1>6 DEF Before
  <2>2. \A q \in Process : at'[q].pc # "replace"
    BY <1>3, <1>5, <1>6
  <2> QED BY <1>1, <1>11, <2>1, <2>2 DEF Spent, IInv
<1>13. SourceUsedOnce'
  BY <1>1 DEF SourceUsedOnce, IInv
<1>14. NoWriterBetweenEpochs'
  <2>1. at[p].cut \in Commits("checkpoint") /\ Len(log) = at[p].cut
    BY DEF IInv, Cuts, Handoff, Before, Proven, ExactCut
  <2>2. log # <<>> /\ log[Len(log)].cmd.kind = "checkpoint"
    BY <2>1 DEF Commits, IInv, TypeOK
  <2>3. Authorized = Checkpointed
    BY <2>2 DEF IInv, Alternate
  <2> QED BY <2>3, <1>11 DEF NoWriterBetweenEpochs, Authorized, Checkpointed
<1>15. Answering'
  BY <1>3, <1>4, <1>5, <1>6 DEF Answering, Follows, IInv
<1> QED BY <1>6, <1>8, <1>9, <1>10, <1>12, <1>13, <1>14, <1>15 DEF IInv

LEMMA ReleaseKeeps == ASSUME IInv, NEW p \in Process, Release(p) PROVE IInv'
<1>1. at[p].pc = "release" /\ Counts /\ UNCHANGED <<log, holds, slots>>
  BY DEF Release, Counts, bounds, IInv, TypeOK
<1>2. CASE Proven(p) /\ Quiesced(p) /\ Go(p, "create")
  BY <1>1, <1>2, Quiesces
<1>3. CASE UNCHANGED writers /\ Go(p, "unreleased")
  <2>1. Quiet(p) /\ lock' = p
    BY <1>1, <1>3, Alone DEF Quiet, holds, slots, Locks, Locked
  <2> QED BY <1>1, <1>3, <2>1, GoKeeps DEF Steps, Handoff, Before, After, Commanding, Sourcing
<1> QED BY <1>2, <1>3 DEF Release

LEMMA ReleaseFailsKeeps == ASSUME IInv, NEW p \in Process, ReleaseFails(p) PROVE IInv'
<1>1. at[p].pc = "release" /\ Counts /\ UNCHANGED <<log, holds, slots>>
  BY BoundsAssumption DEF ReleaseFails, Fault, Counts, IInv, TypeOK
<1>2. CASE Proven(p) /\ Quiesced(p) /\ Go(p, "unreleased")
  BY <1>1, <1>2, Quiesces
<1>3. CASE UNCHANGED writers /\ Go(p, "skip")
  <2>1. Quiet(p) /\ lock' = p
    BY <1>1, <1>3, Alone DEF Quiet, holds, slots, Locks, Locked
  <2> QED BY <1>1, <1>3, <2>1, GoKeeps DEF Steps, Handoff, Before, After, Commanding, Sourcing
<1> QED BY <1>2, <1>3 DEF ReleaseFails

-----------------------------------------------------------------------------
(* The commit of a command                                                 *)

LEMMA CommitKeeps == ASSUME IInv, NEW p \in Process, Commit(p) PROVE IInv'
<1> DEFINE cmd == at[p].cmd
<1> DEFINE epoch == EpochOf(p)
<1> DEFINE r == IF cmd.kind = "checkpoint"
                THEN [at[p] EXCEPT !.pc = "validate", !.cut = Len(log) + 1] ELSE Idle
<1>1. /\ at \in [Process -> AtState] /\ TypeOK /\ Len(log) \in Nat /\ Len(writers) \in Nat
      /\ writers \in Seq({"active", "quiesced"}) /\ writers # <<>>
  BY DEF IInv, TypeOK, AtState, Epochs
<1>2. /\ at[p].pc = "commit" /\ log' = Append(log, [cmd |-> cmd, epoch |-> epoch])
      /\ tx' = None /\ stage' = stage /\ latest' = latest /\ claimed' = claimed /\ spent' = spent
      /\ MayWrite(p) /\ InOrder(p)
  BY DEF Commit, slots
<1>3. Counts /\ Locks(p)
  BY NoneAssumption DEF Commit, Counts, Locks, Unlock, bounds, IInv, TypeOK
<1>4. cmd \in Commands
  BY <1>2 DEF IInv, Called, Commanding
<1>5. /\ epoch \in 1 .. Len(writers)' /\ \A slot \in {stage, latest, claimed} \ {None} : slot.prior < epoch
      /\ writers' \in Seq({"active", "quiesced"}) /\ Len(writers)' \in Nat /\ Len(writers) <= Len(writers)'
      /\ writers' # <<>> /\ Writer' # 0
      /\ Writer # 0 => Writer' = Writer
      /\ \A slot \in {stage, latest, claimed} \ {None} : slot.prior < Len(writers)'
  <2>0. \A slot \in {stage, latest, claimed} \ {None} : IsPast(slot) /\ slot.prior \in Nat
    BY PastSlots DEF Slots, Images
  <2>1. CASE Claims(p)
    <3>1. writers' = Append(writers, "active") /\ Writer = 0 /\ epoch = Len(writers) + 1
      BY <2>1 DEF Commit, Claims, EpochOf
    <3>2. /\ writers' \in Seq({"active", "quiesced"}) /\ Len(writers') = Len(writers) + 1
          /\ writers'[Len(writers) + 1] = "active"
      BY <1>1, <3>1
    <3>3. Writer' = Len(writers) + 1
      BY <1>1, <3>2 DEF Writer
    <3>4. \A slot \in {stage, latest, claimed} \ {None} : slot.prior < Len(writers) + 1
      BY <1>1, <2>0 DEF IsPast
    <3> QED BY <1>1, <3>1, <3>2, <3>3, <3>4
  <2>2. CASE ~Claims(p)
    <3>1. writers' = writers /\ epoch = at[p].lease /\ Holds(p)
      BY <1>2, <2>2 DEF Commit, MayWrite, EpochOf
    <3>2. epoch = Len(writers) /\ Writer # 0 /\ Writer' = Writer
      BY <3>1, Leases DEF Holds, Writer
    <3>3. \A slot \in {stage, latest, claimed} \ {None} : slot.prior < Len(writers)
      BY <2>0, <3>2 DEF IsPast
    <3>4. Len(writers) \in 1 .. Len(writers)
      BY <1>1, <3>2, Leases
    <3> QED BY <1>1, <3>1, <3>2, <3>3, <3>4
  <2> QED BY <2>1, <2>2
<1>6. epoch \in Nat \ {0}
  BY <1>5
<1>7. /\ Len(log)' = Len(log) + 1
      /\ \A i \in 1 .. Len(log) : log'[i] = log[i]
      /\ log'[Len(log) + 1] = [cmd |-> cmd, epoch |-> epoch]
      /\ \A kind \in {"authorize", "checkpoint"} :
            /\ Len(log) + 1 \notin Commits(kind)
            /\ cmd.kind = kind => /\ Commits(kind)' = Commits(kind) \cup {Len(log) + 1}
                                  /\ Cardinality(Commits(kind))' = Cardinality(Commits(kind)) + 1
            /\ cmd.kind # kind => Commits(kind)' = Commits(kind)
  BY <1>1, <1>2, <1>4, <1>6, CommitsGrow
<1>8. at' = [at EXCEPT ![p] = r]
  BY <1>1 DEF Commit, Return
<1>9. /\ r \in AtState /\ r.answer = "none" /\ r.pc \in {"validate", "idle"}
      /\ r.lease <= Len(writers)
      /\ r.pc = "validate" => r.cut = Len(log) + 1 /\ cmd.kind = "checkpoint"
  <2>1. at[p].answer = "none"
    BY <1>2 DEF IInv, Answering
  <2>2. CASE cmd.kind = "checkpoint"
    <3>1. r = [at[p] EXCEPT !.pc = "validate", !.cut = Len(log) + 1] /\ Len(log) + 1 \in Nat
      BY <1>1, <2>2
    <3> HIDE DEF r
    <3>2. /\ r \in AtState /\ r.pc = "validate" /\ r.cut = Len(log) + 1
          /\ r.answer = at[p].answer /\ r.lease = at[p].lease
      <4>1. "validate" \in Steps
        BY DEF Steps
      <4> QED BY <1>1, <3>1, <4>1 DEF AtState
    <3> QED BY <2>1, <2>2, <3>2, Leases
  <2>3. CASE cmd.kind # "checkpoint"
    BY <1>1, <2>3 DEF AtState, Steps, Idle, Slots, Errors, Answers
  <2> QED BY <2>2, <2>3
<1> HIDE DEF r, epoch, cmd
<1>10. /\ at'[p] = r /\ at' \in [Process -> AtState] /\ \A q \in Process \ {p} : at'[q] = at[q]
  BY <1>1, <1>8, <1>9
<1>11. TypeOK'
  <2>1. log' \in Seq([cmd : Commands, epoch : Nat \ {0}])
    BY <1>1, <1>2, <1>4, <1>6 DEF TypeOK
  <2>2. {tx', lock'} \subseteq Process \cup {None}
    BY <1>1, <1>2, <1>3 DEF Locks, TypeOK
  <2> QED BY <1>1, <1>2, <1>3, <1>5, <1>10, <2>1, <2>2 DEF TypeOK, AtState, Counts
<1>12. Alternate'
  <2>0. Authorized \in 0 .. MaxEpochs /\ Checkpointed \in {Authorized, Authorized - 1} /\ Checkpointed \in Nat
    BY CommitsFinite DEF IInv, Alternate, Authorized, Checkpointed
  <2>1. log' # <<>> /\ log'[Len(log')].cmd = cmd
    BY <1>1, <1>7
  <2>2. CASE cmd.kind = "authorize"
    <3>1. Authorized' = Authorized + 1 /\ Checkpointed' = Checkpointed
      BY <1>7, <2>2 DEF Authorized, Checkpointed
    <3>2. Authorized + 1 \in 1 .. MaxEpochs /\ Authorized = Checkpointed
      BY <1>2, <1>4, <2>0, <2>2 DEF InOrder, Commands, cmd
    <3> QED BY <2>0, <2>1, <2>2, <3>1, <3>2 DEF Alternate
  <2>3. CASE cmd.kind = "checkpoint"
    <3>1. Authorized' = Authorized /\ Checkpointed' = Checkpointed + 1
      BY <1>7, <2>3 DEF Authorized, Checkpointed
    <3>2. Checkpointed = Authorized - 1
      BY <1>2, <2>3 DEF InOrder, cmd
    <3> QED BY <2>0, <3>1, <3>2 DEF Alternate
  <2>4. CASE cmd.kind \notin {"authorize", "checkpoint"}
    <3>1. Authorized' = Authorized /\ Checkpointed' = Checkpointed
      BY <1>7, <2>4 DEF Authorized, Checkpointed
    <3> QED BY <2>0, <2>1, <2>4, <3>1 DEF Alternate
  <2> QED BY <2>2, <2>3, <2>4
<1>13. Commits("checkpoint") \subseteq Commits("checkpoint")' /\ Len(log) + 1 \notin Commits("checkpoint")
  BY <1>7
<1>14. /\ r.pc \notin Locked \cup Commanding \cup Sourcing \cup {"check", "replace"}
       /\ r.pc \in Handoff => r.pc = "validate"
  BY <1>9 DEF Locked, Commanding, Sourcing, Handoff, Before, After
<1>15. Cuts'
  <2>1. r.pc \in Handoff => r.cut = Len(log) + 1 /\ r.cut \in Commits("checkpoint")'
    BY <1>7, <1>9, <1>14
  <2>2. \A q \in Process \ {p} : at[q].pc \in Handoff =>
           at[q].cut \in Commits("checkpoint") /\ at[q].cut # Len(log) + 1
    BY <1>13 DEF IInv, Cuts
  <2> QED BY <1>10, <1>13, <2>1, <2>2 DEF IInv, Cuts
<1>16. Exclusive' /\ Called' /\ Answering'
  <2>1. Exclusive' /\ Called'
    BY <1>3, <1>10, <1>14 DEF IInv, Exclusive, Called, Locks
  <2>2. Answering'
    BY <1>5, <1>9, <1>10, <1>14 DEF IInv, Answering
  <2> QED BY <2>1, <2>2
<1>17. Epochs'
  <2>1. \A i \in 1 .. Len(log) : log[i].epoch \in 1 .. Len(writers)
    BY <1>1 DEF IInv, Epochs, TypeOK
  <2>2. DOMAIN log' = 1 .. Len(log) + 1
    BY <1>1, <1>2
  <2>3. \A i \in DOMAIN log' : log'[i].epoch \in 1 .. Len(writers)'
    <3> SUFFICES ASSUME NEW i \in DOMAIN log' PROVE log'[i].epoch \in 1 .. Len(writers)'
      OBVIOUS
    <3>1. CASE i \in 1 .. Len(log)
      BY <1>1, <1>5, <1>7, <2>1, <3>1
    <3>2. CASE i = Len(log) + 1
      BY <1>5, <1>7, <3>2
    <3> QED BY <1>1, <2>2, <3>1, <3>2
  <2>4. \A q \in Process : at'[q].lease <= Len(writers)'
    <3>1. \A q \in Process \ {p} : at'[q].lease \in Nat /\ at'[q].lease <= Len(writers)
      BY <1>10, Leases
    <3>2. at'[p].lease \in Nat /\ at'[p].lease <= Len(writers)
      BY <1>9, <1>10 DEF AtState
    <3> QED BY <1>1, <1>5, <3>1, <3>2
  <2> QED BY <1>5, <2>3, <2>4 DEF Epochs
<1>18. Pasts'
  <2> SUFFICES ASSUME NEW slot \in {stage, latest, claimed} \ {None} PROVE IsPast(slot)'
    BY <1>2 DEF Pasts
  <2>1. IsPast(slot) /\ slot.cut \in Nat /\ slot.prior \in Nat
    BY PastSlots DEF Slots, Images
  <2>2. slot.cut <= Len(log)' /\ slot.prior <= Len(writers)' /\ slot.prior < Len(writers)'
    BY <1>1, <1>5, <1>7, <2>1 DEF IsPast
  <2>3. DOMAIN log' = 1 .. Len(log) + 1 /\ DOMAIN log = 1 .. Len(log)
    BY <1>1, <1>2 DEF TypeOK
  <2>4. \A i \in DOMAIN log' : i <= slot.cut <=> log'[i].epoch <= slot.prior
    <3> SUFFICES ASSUME NEW i \in DOMAIN log' PROVE i <= slot.cut <=> log'[i].epoch <= slot.prior
      OBVIOUS
    <3>1. CASE i \in 1 .. Len(log)
      BY <1>7, <2>1, <2>3, <3>1 DEF IsPast
    <3>2. CASE i = Len(log) + 1
      <4>1. log'[i].epoch = epoch /\ slot.prior < epoch /\ slot.cut <= Len(log)
        BY <1>5, <1>7, <2>1, <3>2 DEF IsPast
      <4> QED BY <1>1, <1>6, <2>1, <3>2, <4>1
    <3> QED BY <1>1, <2>3, <3>1, <3>2
  <2> QED BY <2>2, <2>4 DEF IsPast
<1>19. Spent'
  <2>1. \A q \in Process : at'[q].pc # "replace" \/ q # p
    BY <1>10, <1>14
  <2>2. /\ \A q \in Process \ {p} : at'[q].pc \in Before => at[q].pc \in Before /\ at'[q].cut = at[q].cut
        /\ at'[p].pc \in Before => at'[p].cut = Len(log) + 1
    BY <1>9, <1>10 DEF Before
  <2>3. \A q \in Process : at'[q].pc \in Before =>
           /\ at'[q].cut \notin spent'
           /\ \A slot \in {latest', claimed'} \ {None} : slot.checkpoint # at'[q].cut
    BY <1>2, <1>13, <2>2 DEF IInv, Spent
  <2>4. \A q \in Process : at'[q].pc = "replace" => stage' # None /\ stage'.checkpoint = at'[q].cut
    BY <1>2, <1>10, <2>1 DEF IInv, Spent
  <2>5. spent' \subseteq Commits("checkpoint")' /\ \A slot \in {latest', claimed'} \ {None} :
           slot.checkpoint \in Commits("checkpoint")'
    BY <1>2, <1>13 DEF IInv, Spent
  <2> QED BY <2>3, <2>4, <2>5 DEF Spent
<1>20. SourceUsedOnce' /\ NoWriterBetweenEpochs'
  BY <1>2, <1>5 DEF SourceUsedOnce, NoWriterBetweenEpochs, IInv
<1> QED BY <1>11, <1>12, <1>15, <1>16, <1>17, <1>18, <1>19, <1>20 DEF IInv

-----------------------------------------------------------------------------
LEMMA StepKeeps == ASSUME IInv, NEW p \in Process, Step(p) PROVE IInv'
BY LockClaimKeeps, ReissueKeeps, ReissuedKeeps, OpenKeeps, CommitKeeps, RefuseKeeps, ReplayKeeps,
   ValidateKeeps, LockKeeps, SkipKeeps, ReleaseKeeps, CreateKeeps, CopyKeeps, ReplaceKeeps,
   SuccessorKeeps, ReadbackKeeps, CheckKeeps, AnsweredKeeps, SourceLockKeeps, ClaimKeeps,
   FinalizeKeeps
DEF Step

LEMMA FailureKeeps == ASSUME IInv, NEW p \in Process, Failure(p) PROVE IInv'
BY ReleaseFailsKeeps, CaptureFailsKeeps, SuccessorFailsKeeps, CheckFailsKeeps, DeathKeeps
DEF Failure

LEMMA StutterKeeps == ASSUME IInv, UNCHANGED vars PROVE IInv'
<1>1. /\ UNCHANGED <<log, writers, tx, lock, stage, latest, claimed, spent, at, calls, faults>>
  BY DEF vars, store, holds, slots, bounds
<1>2. TypeOK' /\ Called' /\ Exclusive' /\ Epochs' /\ SourceUsedOnce'
  BY <1>1 DEF IInv, TypeOK, Called, Exclusive, Epochs, SourceUsedOnce
<1>3. Alternate' /\ Cuts' /\ NoWriterBetweenEpochs'
  BY <1>1 DEF IInv, Alternate, Cuts, NoWriterBetweenEpochs, Authorized, Checkpointed, Commits, Writer
<1>4. Pasts' /\ Spent' /\ Answering'
  BY <1>1 DEF IInv, Pasts, IsPast, Spent, Answering, Commits, Writer
<1> QED BY <1>2, <1>3, <1>4 DEF IInv

\* Every reachable state of the Store, its slots and its processes satisfies the
\* inductive invariant.
THEOREM Invariance == Spec => []IInv
<1>1. Init => IInv
  BY InitIInv
<1>2. IInv /\ [Next]_vars => IInv'
  BY BeginKeeps, StepKeeps, FailureKeeps, StutterKeeps DEF Next
<1> QED BY <1>1, <1>2, PTL DEF Spec

\* Every variable keeps its type: what a process is asked, what it holds and what
\* the slots are images of.
THEOREM TypesHold == Spec => []TypeOK
<1>1. IInv => TypeOK
  BY DEF IInv
<1> QED BY <1>1, Invariance, PTL

\* Of every slot the commits up to its cut are those of its writer and of earlier
\* ones: the copy is made at the last checkpoint while no writer is active, and
\* whoever writes later writes under a later epoch (release_writer, _assert_writer).
THEOREM SourceWholePast == Spec => []SourceIsWholePast
<1>1. IInv => SourceIsWholePast
  BY DEF IInv, Pasts, IsPast, SourceIsWholePast
<1> QED BY <1>1, Invariance, PTL

\* A Workspace without writer is between two Epochs, where the next may be
\* authorized, however its handoff ended (_writer_lease_for_epoch_authorization).
THEOREM NoWriterBetween == Spec => []NoWriterBetweenEpochs
<1>1. IInv => NoWriterBetweenEpochs
  BY DEF IInv
<1> QED BY <1>1, Invariance, PTL

\* The claim id of a finalized slot names no slot again, and no two slots share
\* one: a handoff is of a commit of its own (_checkpoint_source_claim_id).
THEOREM SourceOnce == Spec => []SourceUsedOnce
<1>1. IInv => SourceUsedOnce
  BY DEF IInv
<1> QED BY <1>1, Invariance, PTL

-----------------------------------------------------------------------------
(* What a step answers                                                     *)

Says(p) ==
    /\ at' = [at EXCEPT ![p] = at'[p]]
    /\ at[p].pc # "answer" /\ at'[p].answer \in SafeAnswers => at'[p].lease = Writer'

LEMMA SaysNothing ==
    ASSUME IInv, NEW p \in Process, NEW r, at' = [at EXCEPT ![p] = r],
           r.answer \in {"none", at[p].answer}
    PROVE  Says(p)
<1>1. at \in [Process -> AtState]
  BY DEF IInv, TypeOK, AtState
<1>2. at'[p] = r /\ at' = [at EXCEPT ![p] = at'[p]]
  BY <1>1
<1>3. at[p].pc # "answer" => r.answer = "none"
  BY DEF IInv, Answering
<1> QED BY <1>2, <1>3 DEF Says, SafeAnswers

LEMMA SaysGo == ASSUME IInv, NEW p \in Process, NEW step, Go(p, step) PROVE Says(p)
<1> DEFINE r == [at[p] EXCEPT !.pc = step]
<1>1. at \in [Process -> AtState]
  BY DEF IInv, TypeOK, AtState
<1>2. at' = [at EXCEPT ![p] = r] /\ r.answer = at[p].answer
  BY <1>1 DEF Go, AtState
<1> QED BY <1>2, SaysNothing

LEMMA SaysReturn == ASSUME IInv, NEW p \in Process, Return(p) PROVE Says(p)
<1>1. Idle.answer = "none" /\ at' = [at EXCEPT ![p] = Idle]
  BY DEF Idle, Return
<1> QED BY <1>1, SaysNothing

LEMMA SaysAnswer ==
    ASSUME IInv, NEW p \in Process, NEW lease, NEW answer, Answer(p, lease, answer),
           answer \in SafeAnswers => lease = Writer'
    PROVE  Says(p)
<1> DEFINE r == [at[p] EXCEPT !.pc = "answer", !.lease = lease, !.answer = answer]
<1>1. at \in [Process -> AtState]
  BY DEF IInv, TypeOK, AtState
<1>2. at' = [at EXCEPT ![p] = r] /\ r.answer = answer /\ r.lease = lease
  BY <1>1 DEF Answer, AtState
<1>3. at'[p] = r
  BY <1>1, <1>2
<1> HIDE DEF r
<1>4. at' = [at EXCEPT ![p] = at'[p]]
  BY <1>2, <1>3
<1> QED BY <1>2, <1>3, <1>4 DEF Says

LEMMA BeginSays == ASSUME IInv, NEW p \in Process, Begin(p) PROVE Says(p)
<1>1. PICK cmd, step : Call(p, cmd, step)
  BY DEF Begin, CallAuthorize, CallCapture, CallCheckpoint, CallSource
<1> DEFINE r == [Idle EXCEPT !.pc = step, !.cmd = cmd, !.cut = Len(log)]
<1>2. at' = [at EXCEPT ![p] = r] /\ r.answer = "none"
  BY <1>1 DEF Call, Idle
<1> QED BY <1>2, SaysNothing

\* Only these steps set an answer; the rest leave it, or end the call.
LEMMA AnswerSays ==
    ASSUME IInv, NEW p \in Process,
           Replay(p) \/ Validate(p) \/ Skip(p) \/ Check(p) \/ CheckFails(p)
    PROVE  Says(p)
<1>1. Writer' = Writer
  BY DEF Replay, Validate, Skip, Check, CheckFails, store, Writer
<1>2. "unsafe" \notin SafeAnswers /\ "unverified" \notin SafeAnswers
  BY DEF SafeAnswers
<1>3. CASE Replay(p)
  <2>1. Return(p) \/ Answer(p, 0, "unverified") \/ Answer(p, 0, "unsafe") \/ Answer(p, Writer, "replayed")
    BY <1>3 DEF Replay
  <2> QED BY <1>1, <1>2, <2>1, SaysReturn, SaysAnswer
<1>4. CASE Validate(p)
  <2>1. Answer(p, at[p].lease, "unsafe") \/ Answer(p, at[p].lease, "unverified") \/ Go(p, "lock")
    BY <1>4 DEF Validate
  <2> QED BY <1>2, <2>1, SaysGo, SaysAnswer
<1>5. CASE Skip(p)
  <2>1. \/ Holds(p) /\ Answer(p, at[p].lease, "preserved")
        \/ Answer(p, at[p].lease, "unsafe") \/ Answer(p, at[p].lease, "unverified")
    BY <1>5 DEF Skip, Proven
  <2> QED BY <1>1, <1>2, <2>1, SaysAnswer DEF Holds
<1>6. CASE Check(p)
  <2>1. at[p].err \in Errors /\ at[p].lease = Writer
    BY <1>6 DEF Check, IInv, TypeOK, Answering
  <2>2. \/ Return(p)
        \/ \E answer \in SafeAnswers : Answer(p, at[p].lease, answer)
    BY <1>6, <2>1 DEF Check, Errors, SafeAnswers
  <2> QED BY <1>1, <2>1, <2>2, SaysReturn, SaysAnswer
<1>7. CASE CheckFails(p)
  <2>1. \/ Holds(p) /\ Answer(p, at[p].lease, "damaged")
        \/ Answer(p, at[p].lease, "unsafe") \/ Answer(p, at[p].lease, "unverified")
    BY <1>7 DEF CheckFails, Proven
  <2> QED BY <1>1, <1>2, <2>1, SaysAnswer DEF Holds
<1> QED BY <1>3, <1>4, <1>5, <1>6, <1>7

LEMMA ReadbackSays == ASSUME IInv, NEW p \in Process, Readback(p) PROVE Says(p)
<1>1. at \in [Process -> AtState]
  BY DEF IInv, TypeOK, AtState
<1>2. CASE \E answer \in {"unverified", "unsafe"} : Answer(p, at[p].lease, answer)
  BY <1>2, SaysAnswer DEF SafeAnswers
<1>3. CASE at' = [at EXCEPT ![p].pc = "check", ![p].lease = Writer]
  <2> DEFINE r == [at[p] EXCEPT !.pc = "check", !.lease = Writer]
  <2>1. at' = [at EXCEPT ![p] = r] /\ r.answer = at[p].answer
    BY <1>1, <1>3 DEF AtState
  <2> QED BY <2>1, SaysNothing
<1> QED BY <1>2, <1>3 DEF Readback

\* Steps that change more of what a process knows than its step.
LEMMA RecordSays ==
    ASSUME IInv, NEW p \in Process,
           \/ Reissue(p) \/ Commit(p) \/ Copy(p) \/ Replace(p) \/ Successor(p)
           \/ CaptureFails(p) \/ SuccessorFails(p)
    PROVE  Says(p)
<1>1. at \in [Process -> AtState]
  BY DEF IInv, TypeOK, AtState
<1>2. CASE Reissue(p)
  <2> DEFINE r == [at[p] EXCEPT !.pc = "reissued", !.lease = Writer]
  <2>1. at' = [at EXCEPT ![p].pc = "reissued", ![p].lease = Writer] \/ Return(p)
    BY <1>2 DEF Reissue, Fail
  <2>2. r.answer = at[p].answer
    BY <1>1 DEF AtState
  <2>3. CASE at' = [at EXCEPT ![p].pc = "reissued", ![p].lease = Writer]
    <3>1. at' = [at EXCEPT ![p] = r]
      BY <1>1, <2>3
    <3> QED BY <2>2, <3>1, SaysNothing
  <2> QED BY <2>1, <2>3, SaysReturn
<1>3. CASE Commit(p)
  <2> DEFINE r == [at[p] EXCEPT !.pc = "validate", !.cut = Len(log) + 1]
  <2>1. at' = [at EXCEPT ![p].pc = "validate", ![p].cut = Len(log) + 1] \/ Return(p)
    BY <1>3 DEF Commit
  <2>2. r.answer = at[p].answer
    BY <1>1 DEF AtState
  <2>3. CASE at' = [at EXCEPT ![p].pc = "validate", ![p].cut = Len(log) + 1]
    <3>1. at' = [at EXCEPT ![p] = r]
      BY <1>1, <2>3
    <3> QED BY <2>2, <3>1, SaysNothing
  <2> QED BY <2>1, <2>3, SaysReturn
<1>4. CASE Copy(p)
  <2> DEFINE r == [at[p] EXCEPT !.pc = "successor", !.err = "transient"]
  <2>1. at' = [at EXCEPT ![p].pc = "successor", ![p].err = "transient"] \/ Go(p, "replace")
    BY <1>4 DEF Copy
  <2>2. r.answer = at[p].answer
    BY <1>1 DEF AtState
  <2>3. CASE at' = [at EXCEPT ![p].pc = "successor", ![p].err = "transient"]
    <3>1. at' = [at EXCEPT ![p] = r]
      BY <1>1, <2>3
    <3> QED BY <2>2, <3>1, SaysNothing
  <2> QED BY <2>1, <2>3, SaysGo
<1>5. CASE Replace(p)
  <2> DEFINE r == [at[p] EXCEPT !.pc = "successor", !.src = stage]
  <2>1. at' = [at EXCEPT ![p] = r] /\ r.answer = at[p].answer
    BY <1>1, <1>5 DEF Replace, AtState
  <2> QED BY <2>1, SaysNothing
<1>6. CASE Successor(p)
  <2> DEFINE r == [at[p] EXCEPT !.pc = "check", !.lease = Len(writers) + 1]
  <2>1. at' = [at EXCEPT ![p].pc = "check", ![p].lease = Len(writers) + 1] \/ Go(p, "readback")
    BY <1>6 DEF Successor
  <2>2. r.answer = at[p].answer
    BY <1>1 DEF AtState
  <2>3. CASE at' = [at EXCEPT ![p].pc = "check", ![p].lease = Len(writers) + 1]
    <3>1. at' = [at EXCEPT ![p] = r]
      BY <1>1, <2>3
    <3> QED BY <2>2, <3>1, SaysNothing
  <2> QED BY <2>1, <2>3, SaysGo
<1>7. CASE CaptureFails(p)
  <2>1. PICK err : at' = [at EXCEPT ![p].pc = "successor", ![p].err = err]
    BY <1>7 DEF CaptureFails
  <2> DEFINE r == [at[p] EXCEPT !.pc = "successor", !.err = err]
  <2>2. at' = [at EXCEPT ![p] = r] /\ r.answer = at[p].answer
    BY <1>1, <2>1 DEF AtState
  <2> QED BY <2>2, SaysNothing
<1>8. CASE SuccessorFails(p)
  <2>1. PICK err : at' = [at EXCEPT ![p].pc = "readback", ![p].err = err]
    BY <1>8 DEF SuccessorFails
  <2> DEFINE r == [at[p] EXCEPT !.pc = "readback", !.err = err]
  <2>2. at' = [at EXCEPT ![p] = r] /\ r.answer = at[p].answer
    BY <1>1, <2>1 DEF AtState
  <2> QED BY <2>2, SaysNothing
<1> QED BY <1>2, <1>3, <1>4, <1>5, <1>6, <1>7, <1>8

LEMMA StepSays ==
    ASSUME IInv, NEW p \in Process, Begin(p) \/ Step(p) \/ Failure(p) PROVE Says(p)
<1>1. CASE LockClaim(p) \/ Reissued(p) \/ Open(p) \/ Refuse(p) \/ Lock(p) \/ Release(p) \/ Create(p)
           \/ Answered(p) \/ SourceLock(p) \/ Claim(p) \/ Finalize(p) \/ ReleaseFails(p) \/ Death(p)
  <2>1. Return(p) \/ \E step : Go(p, step)
    BY <1>1 DEF LockClaim, Reissued, Open, Refuse, Lock, Release, Create, Answered, SourceLock,
                Claim, Finalize, ReleaseFails, Death, Fail
  <2> QED BY <2>1, SaysGo, SaysReturn
<1> QED BY <1>1, BeginSays, AnswerSays, ReadbackSays, RecordSays DEF Step, Failure

\* A process that is told its writer is safe is told of the writer that is active
\* at that moment, in a handoff, in a replay and after a failed publication.
THEOREM SafeAnswersTrue == Spec => SafeAnswerHasWriter
<1>1. IInv /\ [Next]_vars =>
        [\A p \in Process :
            at[p].pc # "answer" /\ at'[p].answer \in SafeAnswers => at'[p].lease = Writer']_vars
  <2> SUFFICES ASSUME IInv, [Next]_vars, NEW p \in Process, vars' # vars,
                      at[p].pc # "answer", at'[p].answer \in SafeAnswers
               PROVE  at'[p].lease = Writer'
    OBVIOUS
  <2>1. PICK q \in Process : Begin(q) \/ Step(q) \/ Failure(q)
    BY DEF Next
  <2>2. Says(q)
    BY <2>1, StepSays
  <2>3. CASE q = p
    BY <2>2, <2>3 DEF Says
  <2>4. CASE q # p
    <3>1. at'[p] = at[p]
      BY <2>2, <2>4 DEF Says, IInv, TypeOK
    <3>2. at[p].answer = "none"
      BY DEF IInv, Answering
    <3> QED BY <3>1, <3>2 DEF SafeAnswers
  <2> QED BY <2>3, <2>4
<1> QED BY <1>1, Invariance, PTL DEF Spec, SafeAnswerHasWriter

-----------------------------------------------------------------------------
(* The promise                                                             *)

\* Only an authorization claims a writer, and it holds the lock until it is done.
Claimant(p) ==
    /\ at[p].pc = "lock_claim" => at[p].cmd.kind = "authorize"
    /\ at[p].pc \in {"open", "commit"} /\ at[p].lease = 0 =>
          lock = p /\ at[p].cmd.kind = "authorize"

\* What is about to be the latest slot is the Store as it still is.
Copier(p) == at[p].pc = "replace" => Writer = 0 /\ ExactCut(p) /\ stage = Image

PInv == IInv /\ \A p \in Process : Claimant(p) /\ Copier(p)

Does(p) == Begin(p) \/ Step(p) \/ Failure(p)
Watched == {"lock_claim", "open", "commit", "replace"}

\* Only a call that fails, or another process, frees the lock of a process.
LEMMA LockStays ==
    ASSUME IInv, NEW q \in Process, Does(q), NEW p \in Process, p # q, lock = p
    PROVE  lock' = p
<1>1. p # None
  BY NoneAssumption
<1>2. CASE Begin(q)
  BY <1>2 DEF Begin, CallAuthorize, CallCapture, CallCheckpoint, CallSource, Call, holds
<1>3. CASE LockClaim(q) \/ Lock(q) \/ SourceLock(q)
  BY <1>1, <1>3 DEF LockClaim, Lock, SourceLock, Fail, Unlock
<1>4. CASE Reissue(q) \/ Open(q) \/ Commit(q) \/ Refuse(q) \/ Answered(q) \/ Claim(q) \/ Finalize(q)
           \/ Death(q)
  BY <1>4 DEF Reissue, Open, Commit, Refuse, Answered, Claim, Finalize, Death, Fail, Unlock
<1>5. CASE Check(q)
  <2>1. lock' = lock \/ Unlock(q)
    <3>1. CASE at[q].err = "interrupt"
      BY <1>5, <3>1 DEF Check
    <3>2. CASE at[q].err # "interrupt"
      BY <1>5, <3>2 DEF Check, IInv, TypeOK, Errors
    <3> QED BY <3>1, <3>2
  <2> QED BY <2>1 DEF Unlock
<1>6. CASE Reissued(q) \/ Replay(q) \/ Validate(q) \/ Skip(q) \/ Release(q) \/ Create(q) \/ Copy(q)
           \/ Replace(q) \/ Successor(q) \/ Readback(q)
  BY <1>6 DEF Reissued, Replay, Validate, Skip, Release, Create, Copy, Replace, Successor,
              Readback, holds
<1>7. CASE ReleaseFails(q) \/ CaptureFails(q) \/ SuccessorFails(q) \/ CheckFails(q)
  BY <1>7 DEF ReleaseFails, CaptureFails, SuccessorFails, CheckFails, holds
<1> QED BY <1>2, <1>3, <1>4, <1>5, <1>6, <1>7 DEF Does, Step, Failure

\* Which steps lead to the steps that the promise is about.
LEMMA Leads ==
    ASSUME IInv, NEW q \in Process, Does(q), at'[q].pc \in Watched
    PROVE  CallAuthorize(q) \/ LockClaim(q) \/ Reissued(q) \/ Open(q) \/ Copy(q)
<1>1. at \in [Process -> AtState]
  BY DEF IInv, TypeOK, AtState
<1>2. \A step : Go(q, step) => at'[q].pc = step
  BY <1>1 DEF Go, AtState
<1>3. \A lease, answer : Answer(q, lease, answer) => at'[q].pc = "answer"
  BY <1>1 DEF Answer, AtState
<1>4. Return(q) => at'[q].pc = "idle"
  BY <1>1 DEF Return, Idle
<1>5. CASE CallCapture(q) \/ CallCheckpoint(q) \/ CallSource(q)
  <2>1. \E cmd : Call(q, cmd, "reissue") \/ Call(q, cmd, "replay") \/ Call(q, cmd, "source_lock")
    BY <1>5 DEF CallCapture, CallCheckpoint, CallSource
  <2>2. at'[q].pc \in {"reissue", "replay", "source_lock"}
    BY <1>1, <2>1 DEF Call, Idle
  <2> QED BY <2>2 DEF Watched
<1>6. CASE Reissue(q) \/ Readback(q) \/ Successor(q)
  <2>1. at'[q].pc \in {"reissued", "idle", "check", "answer", "readback"}
    BY <1>1, <1>2, <1>3, <1>4, <1>6 DEF Reissue, Readback, Successor, Fail, AtState
  <2> QED BY <2>1 DEF Watched
<1>7. CASE Commit(q) \/ Replace(q)
  <2>1. at'[q].pc \in {"validate", "idle", "successor"}
    BY <1>1, <1>4, <1>7 DEF Commit, Replace, AtState
  <2> QED BY <2>1 DEF Watched
<1>8. CASE Refuse(q) \/ Answered(q) \/ Claim(q) \/ Finalize(q) \/ Death(q)
  BY <1>4, <1>8 DEF Refuse, Answered, Claim, Finalize, Death, Watched
<1>9. CASE Replay(q) \/ Validate(q) \/ Skip(q) \/ CheckFails(q)
  BY <1>2, <1>3, <1>4, <1>9 DEF Replay, Validate, Skip, CheckFails, Watched
<1>10. CASE Check(q)
  <2>1. Return(q) \/ \E answer : Answer(q, at[q].lease, answer)
    BY <1>10 DEF Check, IInv, TypeOK, Errors
  <2> QED BY <1>3, <1>4, <2>1 DEF Watched
<1>11. CASE Lock(q) \/ Release(q) \/ Create(q) \/ ReleaseFails(q)
  BY <1>2, <1>11 DEF Lock, Release, Create, ReleaseFails, Watched
<1>12. CASE SourceLock(q)
  <2>1. at[q].cmd.kind \in {"claim", "finalize"}
    BY <1>12 DEF SourceLock, IInv, Called, Sourcing
  <2> QED BY <1>2, <1>4, <1>12, <2>1 DEF SourceLock, Fail, Watched
<1>13. CASE CaptureFails(q)
  <2>1. PICK err : at' = [at EXCEPT ![q].pc = "successor", ![q].err = err]
    BY <1>13 DEF CaptureFails
  <2> QED BY <1>1, <2>1 DEF AtState, Watched
<1>14. CASE SuccessorFails(q)
  <2>1. PICK err : at' = [at EXCEPT ![q].pc = "readback", ![q].err = err]
    BY <1>14 DEF SuccessorFails
  <2> QED BY <1>1, <2>1 DEF AtState, Watched
<1> QED BY <1>5, <1>6, <1>7, <1>8, <1>9, <1>10, <1>11, <1>12, <1>13, <1>14
    DEF Does, Begin, Step, Failure

LEMMA ClaimantStays ==
    ASSUME PInv, NEW q \in Process, Does(q), NEW p \in Process
    PROVE  Claimant(p)'
<1>1. at \in [Process -> AtState]
  BY DEF PInv, IInv, TypeOK, AtState
<1>2. CASE p # q
  <2>1. at'[p] = at[p]
    BY <1>1, <1>2, StepSays DEF PInv, Does, Says
  <2>2. lock = p => lock' = p
    BY <1>2, LockStays DEF PInv
  <2> QED BY <2>1, <2>2 DEF PInv, Claimant
<1>3. CASE p = q /\ at'[q].pc \notin Watched
  BY <1>3 DEF Claimant, Watched
<1>4. CASE p = q /\ CallAuthorize(q)
  <2>1. \E cmd : /\ cmd.kind = "authorize"
                 /\ Call(q, cmd, "reissue") \/ Call(q, cmd, "lock_claim")
    BY <1>4 DEF CallAuthorize
  <2>2. \A cmd, step : Call(q, cmd, step) => at'[q].pc = step /\ at'[q].cmd = cmd
    BY <1>1 DEF Call, Idle
  <2>3. at'[q].pc \in {"reissue", "lock_claim"} /\ at'[q].cmd.kind = "authorize"
    BY <2>1, <2>2
  <2> QED BY <1>4, <2>3 DEF Claimant
<1>5. CASE p = q /\ LockClaim(q)
  <2>1. CASE Return(q)
    BY <1>1, <1>5, <2>1 DEF Return, Idle, Claimant
  <2>2. CASE lock' = q /\ Go(q, "open")
    <3>1. at'[q] = [at[q] EXCEPT !.pc = "open"] /\ at[q].pc = "lock_claim"
      BY <1>1, <1>5, <2>2 DEF Go, LockClaim
    <3>2. at'[q].cmd.kind = "authorize" /\ at'[q].pc = "open"
      BY <1>1, <3>1 DEF PInv, Claimant, AtState
    <3> QED BY <1>5, <2>2, <3>2 DEF Claimant
  <2> QED BY <1>5, <2>1, <2>2 DEF LockClaim, Fail
<1>6. CASE p = q /\ Reissued(q)
  <2>1. CASE at[q].lease = 0
    BY <1>1, <1>6, <2>1 DEF Reissued, Return, Idle, Claimant
  <2>2. CASE at[q].lease # 0
    <3>1. at'[q].lease = at[q].lease /\ at'[q].pc = "open"
      BY <1>1, <1>6, <2>2 DEF Reissued, Go, AtState
    <3> QED BY <1>6, <2>2, <3>1 DEF Claimant
  <2> QED BY <2>1, <2>2
<1>7. CASE p = q /\ Open(q)
  <2>1. CASE Return(q)
    BY <1>1, <1>7, <2>1 DEF Return, Idle, Claimant
  <2>2. CASE UNCHANGED lock /\ Go(q, "commit")
    <3>1. at'[q] = [at[q] EXCEPT !.pc = "commit"] /\ at[q].pc = "open"
      BY <1>1, <1>7, <2>2 DEF Go, Open
    <3>2. at'[q].cmd = at[q].cmd /\ at'[q].lease = at[q].lease /\ at'[q].pc = "commit"
      BY <1>1, <3>1 DEF AtState
    <3> QED BY <1>7, <2>2, <3>1, <3>2 DEF PInv, Claimant
  <2> QED BY <1>7, <2>1, <2>2 DEF Open, Fail
<1>8. CASE p = q /\ Copy(q)
  <2>1. at'[q].pc \in {"replace", "successor"}
    BY <1>1, <1>8 DEF Copy, Go, AtState
  <2> QED BY <1>8, <2>1 DEF Claimant
<1> QED BY <1>2, <1>3, <1>4, <1>5, <1>6, <1>7, <1>8, Leads DEF PInv

\* While a copy is about to be the latest slot, nobody else writes: who holds a lease
\* has none that is active, and who would claim one waits for the lock.
LEMMA Alike ==
    ASSUME PInv, NEW q \in Process, Does(q), NEW p \in Process, p # q, at[p].pc = "replace"
    PROVE  log' = log /\ writers' = writers /\ stage' = stage
<1>1. lock = p /\ at[q].pc \notin Locked
  BY Alone DEF PInv, Locked
<1>2. Writer = 0
  BY DEF PInv, Copier
<1>3. ~Commit(q)
  <2> SUFFICES ASSUME Commit(q) PROVE FALSE
    OBVIOUS
  <2>1. at[q].pc = "commit" /\ at[q].lease = 0
    BY <1>2 DEF Commit, MayWrite, Holds, Claims
  <2>2. lock = q
    BY <2>1 DEF PInv, Claimant
  <2> QED BY <1>1, <2>2
<1>4. CASE Begin(q)
  BY <1>4 DEF Begin, CallAuthorize, CallCapture, CallCheckpoint, CallSource, Call, store, slots
<1>5. CASE LockClaim(q) \/ Lock(q) \/ SourceLock(q) \/ Reissue(q) \/ Open(q) \/ Refuse(q)
           \/ Answered(q) \/ Death(q) \/ Check(q)
  BY <1>5 DEF LockClaim, Lock, SourceLock, Reissue, Open, Refuse, Answered, Death, Check, Fail,
              store, slots
<1>6. CASE Reissued(q) \/ Replay(q) \/ Validate(q) \/ Skip(q) \/ Readback(q) \/ CheckFails(q)
           \/ Claim(q) \/ Finalize(q)
  BY <1>6 DEF Reissued, Replay, Validate, Skip, Readback, CheckFails, Claim, Finalize, store, slots
<1>7. ~(Release(q) \/ Create(q) \/ Copy(q) \/ Replace(q) \/ Successor(q) \/ ReleaseFails(q)
        \/ CaptureFails(q) \/ SuccessorFails(q))
  BY <1>1 DEF Release, Create, Copy, Replace, Successor, ReleaseFails, CaptureFails,
              SuccessorFails, Locked
<1> QED BY <1>3, <1>4, <1>5, <1>6, <1>7 DEF Does, Step, Failure

LEMMA CopierStays ==
    ASSUME PInv, NEW q \in Process, Does(q), NEW p \in Process
    PROVE  Copier(p)'
<1>1. at \in [Process -> AtState]
  BY DEF PInv, IInv, TypeOK, AtState
<1>2. CASE p # q
  <2>1. at'[p] = at[p]
    BY <1>1, <1>2, StepSays DEF PInv, Does, Says
  <2>2. CASE at[p].pc = "replace"
    <3>1. log' = log /\ writers' = writers /\ stage' = stage
      BY <1>2, <2>2, Alike
    <3> QED BY <2>1, <3>1 DEF PInv, Copier, Writer, ExactCut, Image, LatestCheckpoint, Commits
  <2>3. CASE at[p].pc # "replace"
    BY <2>1, <2>3 DEF Copier
  <2> QED BY <2>2, <2>3
<1>3. CASE p = q /\ at'[q].pc = "replace"
  <2>1. ~(CallAuthorize(q) \/ LockClaim(q) \/ Reissued(q) \/ Open(q))
    <3>1. Return(q) => at'[q].pc = "idle"
      BY <1>1 DEF Return, Idle
    <3>2. \A step : Go(q, step) => at'[q].pc = step
      BY <1>1 DEF Go, AtState
    <3>3. \A cmd, step : Call(q, cmd, step) => at'[q].pc = step
      BY <1>1 DEF Call, Idle
    <3> QED BY <1>3, <3>1, <3>2, <3>3 DEF CallAuthorize, LockClaim, Reissued, Open, Fail
  <2>2. Copy(q)
    BY <1>3, <2>1, Leads DEF PInv, Watched
  <2>3. Writer = 0 /\ ExactCut(q) /\ stage' = Image /\ Go(q, "replace")
    BY <1>1, <1>3, <2>2 DEF Copy, AtState
  <2>4. log' = log /\ writers' = writers /\ at'[q].cut = at[q].cut
    BY <1>1, <2>2, <2>3 DEF Copy, store, Go, AtState
  <2>5. Writer' = 0 /\ ExactCut(q)'
    BY <2>3, <2>4 DEF Writer, ExactCut
  <2>6. stage' = Image'
    BY <2>3, <2>4 DEF Image, LatestCheckpoint, Commits
  <2> QED BY <1>3, <2>5, <2>6 DEF Copier
<1>4. CASE p = q /\ at'[q].pc # "replace"
  BY <1>4 DEF Copier
<1> QED BY <1>2, <1>3, <1>4

\* Where a handoff holds its exact cut, the last commit is its checkpoint.
LEMMA EndsThere ==
    ASSUME IInv, NEW p \in Process, at[p].pc \in Handoff, ExactCut(p)
    PROVE  Promise!Ended /\ LatestCheckpoint = Len(log) /\ at[p].cut = Len(log)
<1>1. Len(log) \in Commits("checkpoint") /\ at[p].cut = Len(log)
  BY DEF IInv, Cuts, ExactCut
<1>2. log # <<>> /\ log[Len(log)].cmd.kind = "checkpoint"
  BY <1>1 DEF Commits, IInv, TypeOK
<1> QED BY <1>1, <1>2, LastIsLatest DEF Promise!Ended, IInv

LEMMA CommitWrites ==
    ASSUME PInv, NEW p \in Process, Commit(p)
    PROVE  \E cmd \in Commands : Promise!Write(cmd)
<1> DEFINE cmd == at[p].cmd
<1>1. /\ at[p].pc = "commit" /\ ~Done(cmd) /\ MayWrite(p) /\ InOrder(p)
      /\ log' = Append(log, [cmd |-> cmd, epoch |-> EpochOf(p)])
      /\ latest' = latest /\ claimed' = claimed /\ spent' = spent
  BY DEF Commit, slots
<1>2. cmd \in Commands
  BY <1>1 DEF PInv, IInv, Called, Commanding
<1>3. /\ Writer' = EpochOf(p) /\ EpochOf(p) \in Nat \ {0}
      /\ \/ Writer # 0 /\ Writer' = Writer /\ Len(writers)' = Len(writers)
         \/ /\ Writer = 0 /\ cmd.kind = "authorize"
            /\ Writer' = Len(writers) + 1 /\ Len(writers)' = Len(writers) + 1
  <2>1. writers \in Seq({"active", "quiesced"}) /\ Len(writers) \in Nat /\ Writer \in Nat
    BY Leases DEF PInv, IInv, TypeOK
  <2>2. CASE Claims(p)
    <3>1. writers' = Append(writers, "active") /\ EpochOf(p) = Len(writers) + 1
      BY <2>2 DEF Commit, EpochOf
    <3>2. /\ Len(writers') = Len(writers) + 1 /\ writers' # <<>>
          /\ writers'[Len(writers) + 1] = "active"
      BY <2>1, <3>1
    <3>3. Writer' = Len(writers) + 1
      BY <3>2 DEF Writer
    <3>4. Writer = 0 /\ cmd.kind = "authorize"
      BY <1>1, <2>2 DEF Claims, PInv, Claimant
    <3> QED BY <2>1, <3>1, <3>2, <3>3, <3>4
  <2>3. CASE ~Claims(p)
    <3>1. writers' = writers /\ EpochOf(p) = at[p].lease /\ Holds(p)
      BY <1>1, <2>3 DEF Commit, MayWrite, EpochOf
    <3> QED BY <2>1, <3>1 DEF Holds, Writer
  <2> QED BY <2>2, <2>3
<1>4. /\ \A kind \in {"authorize", "checkpoint"} :
            /\ cmd.kind = kind => Cardinality(Commits(kind))' = Cardinality(Commits(kind)) + 1
            /\ cmd.kind # kind => Commits(kind)' = Commits(kind)
  BY <1>1, <1>2, <1>3, CommitsGrow DEF PInv, IInv
<1>5. Authorized \in Nat /\ Checkpointed \in Nat
  BY CommitsFinite DEF Authorized, Checkpointed, PInv, IInv
<1> HIDE DEF cmd
<1>6. CASE cmd.kind = "authorize"
  <2>1. Authorized' = Authorized + 1 /\ Checkpointed' = Checkpointed
    BY <1>4, <1>6 DEF Authorized, Checkpointed
  <2>2. Authorized = Checkpointed
    BY <1>1, <1>6 DEF InOrder, cmd
  <2>3. Authorized' # Checkpointed'
    BY <1>5, <2>1, <2>2
  <2> QED BY <1>1, <1>2, <1>3, <1>6, <2>2, <2>3 DEF Promise!Write, Promise!Begun, Done
<1>7. CASE cmd.kind = "checkpoint"
  <2>1. Authorized' = Authorized /\ Checkpointed' = Checkpointed + 1
    BY <1>4, <1>7 DEF Authorized, Checkpointed
  <2>2. Checkpointed = Authorized - 1
    BY <1>1, <1>7 DEF InOrder, cmd
  <2>3. Authorized' = Checkpointed' /\ Authorized # Checkpointed
    BY <1>5, <2>1, <2>2
  <2> QED BY <1>1, <1>2, <1>3, <1>7, <2>3 DEF Promise!Write, Promise!Begun, Done
<1>8. CASE cmd.kind \notin {"authorize", "checkpoint"}
  <2>1. Authorized' = Authorized /\ Checkpointed' = Checkpointed
    BY <1>4, <1>8 DEF Authorized, Checkpointed
  <2> QED BY <1>1, <1>2, <1>3, <1>8, <2>1 DEF Promise!Write, Promise!Begun, Done
<1> QED BY <1>6, <1>7, <1>8

LEMMA ReleasePauses ==
    ASSUME IInv, NEW p \in Process, at[p].pc = "release", Proven(p), Quiesced(p),
           UNCHANGED <<log, slots>>
    PROVE  Promise!Pause
<1>1. Promise!Ended /\ Writer # 0 /\ at[p].lease = Len(writers)
  BY EndsThere, Leases DEF Proven, Holds, Handoff, Before
<1>2. Writer' = 0 /\ Len(writers)' = Len(writers)
  <2>1. writers \in Seq({"active", "quiesced"}) /\ writers # <<>> /\ Len(writers) \in Nat
    BY DEF IInv, TypeOK, Epochs
  <2>2. writers' = [writers EXCEPT ![Len(writers)] = "quiesced"]
    BY <1>1 DEF Quiesced
  <2>3. Len(writers') = Len(writers) /\ writers'[Len(writers)] = "quiesced"
    BY <2>1, <2>2
  <2> QED BY <2>3 DEF Writer
<1>3. /\ latest' = latest /\ claimed' = claimed /\ spent' = spent /\ log' = log
      /\ Authorized' = Authorized /\ Checkpointed' = Checkpointed
  BY DEF slots, Authorized, Checkpointed, Commits
<1> QED BY <1>1, <1>2, <1>3 DEF Promise!Pause

LEMMA ClaimSucceeds ==
    ASSUME IInv, NEW p \in Process, at[p].pc = "successor", Claimable(p),
           writers' = Append(writers, "active"), UNCHANGED <<log, slots>>
    PROVE  Promise!Succeed
<1>1. Promise!Ended /\ Writer = 0
  BY EndsThere DEF Claimable, Handoff, After
<1>2. Writer' = Len(writers) + 1 /\ Len(writers)' = Len(writers) + 1
  <2>1. writers \in Seq({"active", "quiesced"}) /\ Len(writers) \in Nat
    BY DEF IInv, TypeOK
  <2>2. /\ Len(writers') = Len(writers) + 1 /\ writers' # <<>>
        /\ writers'[Len(writers) + 1] = "active"
    BY <2>1
  <2> QED BY <2>2 DEF Writer
<1>3. /\ latest' = latest /\ claimed' = claimed /\ spent' = spent /\ log' = log
      /\ Authorized' = Authorized /\ Checkpointed' = Checkpointed
  BY DEF slots, Authorized, Checkpointed, Commits
<1> QED BY <1>1, <1>2, <1>3 DEF Promise!Succeed, Promise!Begun

LEMMA ReplaceOffers ==
    ASSUME PInv, NEW p \in Process, at[p].pc = "replace", latest' = stage,
           UNCHANGED <<store, claimed, spent>>
    PROVE  Promise!Offer
<1>1. Writer = 0 /\ ExactCut(p) /\ stage = Image
  BY DEF PInv, Copier
<1>2. Promise!Ended /\ LatestCheckpoint = Len(log) /\ at[p].cut = Len(log)
  BY <1>1, EndsThere DEF PInv, Handoff, Before
<1>3. latest' = [cut |-> Len(log), prior |-> Len(writers), checkpoint |-> Len(log)]
  BY <1>1, <1>2 DEF Image
<1>4. Len(log) \notin spent /\ (claimed # None => claimed.checkpoint # Len(log))
  BY <1>2 DEF PInv, IInv, Spent, Before
<1>5. /\ log' = log /\ writers' = writers /\ claimed' = claimed /\ spent' = spent
      /\ Writer' = Writer /\ Authorized' = Authorized /\ Checkpointed' = Checkpointed
  BY DEF store, Writer, Authorized, Checkpointed, Commits
<1> QED BY <1>1, <1>2, <1>3, <1>4, <1>5 DEF Promise!Offer

\* A step that leaves the log, the writers and the slots of the promise alone.
LEMMA Unseen ==
    ASSUME UNCHANGED <<store, latest, claimed, spent>>
    PROVE  UNCHANGED Promise!promiseVars
<1>1. /\ log' = log /\ writers' = writers
      /\ Writer' = Writer /\ Authorized' = Authorized /\ Checkpointed' = Checkpointed
  BY DEF store, Writer, Authorized, Checkpointed, Commits
<1> QED BY <1>1 DEF Promise!promiseVars

LEMMA SourceMoves ==
    ASSUME PInv, NEW p \in Process, Does(p)
    PROVE  Promise!PromiseNext \/ UNCHANGED Promise!promiseVars
<1>1. CASE Begin(p)
  BY <1>1, Unseen
  DEF Begin, CallAuthorize, CallCapture, CallCheckpoint, CallSource, Call, slots
<1>2. CASE LockClaim(p) \/ Lock(p) \/ SourceLock(p) \/ Reissue(p) \/ Open(p) \/ Refuse(p)
           \/ Answered(p) \/ Death(p) \/ Check(p)
  BY <1>2, Unseen
  DEF LockClaim, Lock, SourceLock, Reissue, Open, Refuse, Answered, Death, Check, Fail, slots
<1>3. CASE Reissued(p) \/ Replay(p) \/ Validate(p) \/ Skip(p) \/ Readback(p) \/ CheckFails(p)
           \/ Create(p) \/ Copy(p)
  BY <1>3, Unseen
  DEF Reissued, Replay, Validate, Skip, Readback, CheckFails, Create, Copy, slots
<1>4. CASE Commit(p)
  BY <1>4, CommitWrites DEF Promise!PromiseNext
<1>5. CASE Release(p) \/ ReleaseFails(p)
  <2>1. at[p].pc = "release" /\ UNCHANGED <<log, slots>>
    BY <1>5 DEF Release, ReleaseFails
  <2>2. CASE Proven(p) /\ Quiesced(p)
    BY <2>1, <2>2, ReleasePauses DEF PInv, Promise!PromiseNext
  <2>3. CASE UNCHANGED writers
    BY <2>1, <2>3, Unseen DEF store, slots
  <2> QED BY <1>5, <2>2, <2>3 DEF Release, ReleaseFails
<1>6. CASE Successor(p) \/ SuccessorFails(p)
  <2>1. at[p].pc = "successor" /\ UNCHANGED <<log, slots>>
    BY <1>6 DEF Successor, SuccessorFails
  <2>2. CASE Claimable(p) /\ writers' = Append(writers, "active")
    BY <2>1, <2>2, ClaimSucceeds DEF PInv, Promise!PromiseNext
  <2>3. CASE UNCHANGED writers
    BY <2>1, <2>3, Unseen DEF store, slots
  <2> QED BY <1>6, <2>2, <2>3 DEF Successor, SuccessorFails
<1>7. CASE Replace(p) \/ CaptureFails(p)
  <2>1. UNCHANGED <<store, claimed, spent>>
    BY <1>7 DEF Replace, CaptureFails
  <2>2. CASE at[p].pc = "replace" /\ latest' = stage
    BY <2>1, <2>2, ReplaceOffers DEF Promise!PromiseNext
  <2>3. CASE UNCHANGED latest
    BY <2>1, <2>3, Unseen
  <2> QED BY <1>7, <2>2, <2>3 DEF Replace, CaptureFails
<1>8. CASE Claim(p)
  <2>1. UNCHANGED <<store, spent>>
    BY <1>8 DEF Claim
  <2>2. CASE latest # None /\ claimed = None /\ claimed' = latest /\ latest' = None
    <3>1. /\ log' = log /\ writers' = writers /\ spent' = spent
          /\ Writer' = Writer /\ Authorized' = Authorized /\ Checkpointed' = Checkpointed
      BY <2>1 DEF store, Writer, Authorized, Checkpointed, Commits
    <3> QED BY <2>2, <3>1 DEF Promise!Take, Promise!PromiseNext
  <2>3. CASE UNCHANGED <<latest, claimed>>
    BY <2>1, <2>3, Unseen
  <2> QED BY <1>8, <2>2, <2>3 DEF Claim, Names
<1>9. CASE Finalize(p)
  <2>1. UNCHANGED <<store, latest>>
    BY <1>9 DEF Finalize
  <2>2. CASE claimed # None /\ claimed' = None /\ spent' = spent \cup {claimed.checkpoint}
    <3>1. /\ log' = log /\ writers' = writers /\ latest' = latest
          /\ Writer' = Writer /\ Authorized' = Authorized /\ Checkpointed' = Checkpointed
      BY <2>1 DEF store, Writer, Authorized, Checkpointed, Commits
    <3> QED BY <2>2, <3>1 DEF Promise!UseUp, Promise!PromiseNext
  <2>3. CASE UNCHANGED <<claimed, spent>>
    BY <2>1, <2>3, Unseen
  <2> QED BY <1>9, <2>2, <2>3 DEF Finalize, Names
<1> QED BY <1>1, <1>2, <1>3, <1>4, <1>5, <1>6, <1>7, <1>8, <1>9 DEF Does, Step, Failure

\* Every behaviour of the processes of a Store is one of SourcePromise: whatever
\* dies, fails or comes in between, a commit is by the one writer there is, and a
\* source is offered only while there is none, is the whole log at that moment, and
\* is claimed and finalized once.
THEOREM SourcePromised == Spec => KeepsSourcePromise
<1>1. Init => PInv /\ Promise!PromiseInit
  <2> SUFFICES ASSUME Init PROVE PInv /\ Promise!PromiseInit
    OBVIOUS
  <2>1. \A p \in Process : at[p].pc = "idle"
    BY DEF Init, Idle
  <2>2. \A p \in Process : Claimant(p) /\ Copier(p)
    BY <2>1 DEF Claimant, Copier
  <2>3. Authorized = Checkpointed
    BY DEF Init, Authorized, Checkpointed, Commits
  <2>4. Writer = 1 /\ Len(writers) = 1
    BY DEF Init, Writer
  <2> QED BY <2>2, <2>3, <2>4, InitIInv DEF Init, PInv, Promise!PromiseInit
<1>2. PInv /\ [Next]_vars => PInv' /\ [Promise!PromiseNext]_Promise!promiseVars
  <2> SUFFICES ASSUME PInv, [Next]_vars
               PROVE  PInv' /\ (Promise!PromiseNext \/ UNCHANGED Promise!promiseVars)
    OBVIOUS
  <2>1. CASE UNCHANGED vars
    <3>1. /\ UNCHANGED <<log, writers, lock, stage, latest, claimed, spent, at>>
      BY <2>1 DEF vars, store, holds, slots
    <3>2. IInv'
      BY <2>1, StutterKeeps DEF PInv
    <3>3. \A p \in Process : Claimant(p)'
      BY <3>1 DEF PInv, Claimant
    <3>4. \A p \in Process : Copier(p)'
      BY <3>1 DEF PInv, Copier, Writer, ExactCut, Image, LatestCheckpoint, Commits
    <3>5. UNCHANGED Promise!promiseVars
      BY <3>1, Unseen DEF store
    <3> QED BY <3>2, <3>3, <3>4, <3>5 DEF PInv
  <2>2. CASE Next
    <3>1. PICK q \in Process : Does(q)
      BY <2>2 DEF Next, Does
    <3>2. IInv'
      BY <3>1, BeginKeeps, StepKeeps, FailureKeeps DEF PInv, Does
    <3>3. \A p \in Process : Claimant(p)' /\ Copier(p)'
      BY <3>1, ClaimantStays, CopierStays
    <3> QED BY <3>1, <3>2, <3>3, SourceMoves DEF PInv
  <2> QED BY <2>1, <2>2
<1> QED BY <1>1, <1>2, PTL DEF Spec, KeepsSourcePromise, Promise!PromiseSpec
=============================================================================
