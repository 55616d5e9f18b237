--------------------------- MODULE TakeoverProofs ---------------------------
(***************************************************************************)
(* What holds of a takeover for any number of processes, commands, faults  *)
(* and sources that come back: types, that a commit is for good, that the  *)
(* process which commits has read the fence, and that an incomplete target *)
(* nobody works on is closed.                                              *)
(***************************************************************************)
EXTENDS Takeover, TLAPS

Holding == {"recover", "reissued", "begin", "commit", "verify", "complete"}
Restorer == {"restoring", "copy", "publish", "inspect", "reconciling", "protect"}

\* Who holds which lease is known from where it is.
Locked ==
    \A p \in Process : /\ lock = p <=> at[p].pc \in Holding
                       /\ restoreLock = p <=> at[p].pc \in Restorer

\* What is built is not there yet, and nothing else makes a target.
Placed ==
    /\ marker \/ db # "source" => published
    /\ \A p \in Process :
          /\ at[p].pc \in {"copy", "publish"} => ~published
          /\ at[p].pc = "begin" => published

\* The database is as the one that works on it has left it.
DatabaseAt ==
    \A p \in Process :
        /\ at[p].pc = "begin" => db = "source"
        /\ at[p].pc \in {"recover", "commit"} => db = "journal"
        /\ at[p].pc \in {"verify", "complete"} => Committed
        /\ at[p].pc = "reissued" /\ marker => tree # "open"

\* The fence was read on the way to every step that may lead to a commit.
FenceRead ==
    \A p \in Process :
        /\ at[p].pc \in {"restore", "restoring", "copy", "publish", "inspect", "plan",
                         "open", "reissue", "recover", "reissued", "begin", "commit"}
              => at[p].fence
        /\ at[p].pc = "activate" => at[p].fence \/ Committed

AtType == [Process -> [pc : Steps, abandoned : BOOLEAN, fence : BOOLEAN]]

IInv == TypeOK /\ Locked /\ Placed /\ DatabaseAt /\ FenceRead /\ IncompleteIsClosed

\* The ways in which a process moves keep its type.
LEMMA MoveTyped ==
    ASSUME at \in AtType, NEW p \in Process, NEW step \in Steps,
           NEW f \in BOOLEAN, NEW b \in BOOLEAN
    PROVE  /\ [at EXCEPT ![p] = Idle] \in AtType
           /\ [at EXCEPT ![p].pc = step] \in AtType
           /\ [at EXCEPT ![p].fence = f, ![p].pc = step] \in AtType
           /\ [at EXCEPT ![p].abandoned = b, ![p].pc = step] \in AtType
<1>1. Idle \in [pc : Steps, abandoned : BOOLEAN, fence : BOOLEAN]
  BY DEF Idle, Steps
<1>2. [at EXCEPT ![p] = Idle] \in AtType
  BY <1>1 DEF AtType
<1>3. [at EXCEPT ![p].pc = step] \in AtType
  BY DEF AtType
<1>4. [at EXCEPT ![p].fence = f, ![p].pc = step] \in AtType
  BY DEF AtType
<1>5. [at EXCEPT ![p].abandoned = b, ![p].pc = step] \in AtType
  BY DEF AtType
<1> QED BY <1>2, <1>3, <1>4, <1>5

\* Nothing is there at first.
LEMMA InitIInv == Init => IInv
<1> SUFFICES ASSUME Init PROVE IInv
  OBVIOUS
<1> USE OwnerAssumption, BoundsAssumption DEF Init, Idle
<1>1. TypeOK
  <2>1. at \in AtType
    BY DEF AtType, Steps
  <2>2. 0 \in 0 .. MaxCalls /\ 0 \in 0 .. MaxFaults
    OBVIOUS
  <2> QED BY <2>1, <2>2 DEF TypeOK, AtType, Databases, Trees
<1>2. Locked /\ Placed
  BY DEF Locked, Placed, Holding, Restorer
<1>3. DatabaseAt /\ FenceRead /\ IncompleteIsClosed
  BY DEF DatabaseAt, FenceRead, IncompleteIsClosed
<1> QED BY <1>1, <1>2, <1>3 DEF IInv

\* A command begins with nothing read.
LEMMA CallKeeps == ASSUME IInv, NEW p \in Process, Call(p) PROVE IInv'
<1> USE OwnerAssumption, BoundsAssumption
    DEF IInv, Call, Go, restore, target, Same, bounds, Idle
<1>1. TypeOK'
  <2>1. at \in AtType
    BY DEF AtType, TypeOK
  <2>3. at' \in AtType
    BY <2>1, MoveTyped DEF Steps
  <2>2. TypeOK' \/ at' \notin AtType
    BY DEF AtType, TypeOK, Databases, Trees
  <2> QED BY <2>2, <2>3
<1>2. Locked'
  BY DEF Locked, TypeOK, Holding, Restorer
<1>3. Placed'
  BY DEF Placed, TypeOK, DatabaseAt, Locked, Restorer
<1>4. DatabaseAt'
  BY DEF DatabaseAt, TypeOK, Locked, Placed, Committed, Holding
<1>5. FenceRead'
  BY DEF FenceRead, TypeOK, Committed, DatabaseAt
<1>6. IncompleteIsClosed'
  BY DEF IncompleteIsClosed, TypeOK, Locked, Placed, DatabaseAt, Holding
<1> QED BY <1>1, <1>2, <1>3, <1>4, <1>5, <1>6

\* The fence is what the process goes on with.
LEMMA ReadFenceKeeps == ASSUME IInv, NEW p \in Process, ReadFence(p) PROVE IInv'
<1> USE OwnerAssumption, BoundsAssumption
    DEF IInv, ReadFence, Go, restore, target, Same, bounds, Idle, Fail, Return, Unlock, LeaveRestore
<1>1. TypeOK'
  <2>1. at \in AtType
    BY DEF AtType, TypeOK
  <2>3. at' \in AtType
    <3> DEFINE next == IF at[p].pc = "fence" THEN "restore" ELSE "reissue"
    <3>1. \/ at' = [at EXCEPT ![p] = Idle]
          \/ at' = [at EXCEPT ![p].fence = TRUE, ![p].pc = next]
      BY <2>1 DEF AtType
    <3>2. next \in Steps
      BY DEF Steps
    <3>3. /\ [at EXCEPT ![p] = Idle] \in AtType
          /\ [at EXCEPT ![p].fence = TRUE, ![p].pc = next] \in AtType
      BY <2>1, <3>2, MoveTyped
    <3> QED BY <3>1, <3>3
  <2>2. TypeOK' \/ at' \notin AtType
    BY DEF AtType, TypeOK, Databases, Trees
  <2> QED BY <2>2, <2>3
<1>2. Locked'
  BY DEF Locked, TypeOK, Holding, Restorer
<1>3. Placed'
  BY DEF Placed, TypeOK, DatabaseAt, Locked, Restorer
<1>4. DatabaseAt'
  BY DEF DatabaseAt, TypeOK, Locked, Placed, Committed, Holding
<1>5. FenceRead'
  BY DEF FenceRead, TypeOK, Committed, DatabaseAt
<1>6. IncompleteIsClosed'
  BY DEF IncompleteIsClosed, TypeOK, Locked, Placed, DatabaseAt, Holding
<1> QED BY <1>1, <1>2, <1>3, <1>4, <1>5, <1>6

\* The lease of the restore is free before it is taken.
LEMMA EnterRestoreKeeps == ASSUME IInv, NEW p \in Process, EnterRestore(p) PROVE IInv'
<1> USE OwnerAssumption, BoundsAssumption
    DEF IInv, EnterRestore, Go, restore, target, Same, bounds, Idle, Fail, Return, Unlock, LeaveRestore
<1>1. TypeOK'
  <2>1. at \in AtType
    BY DEF AtType, TypeOK
  <2>3. at' \in AtType
    <3> DEFINE next == IF at[p].pc = "restore" THEN "restoring" ELSE "reconciling"
    <3>1. \/ at' = [at EXCEPT ![p] = Idle]
          \/ at' = [at EXCEPT ![p].abandoned = (restoreText = "held"), ![p].pc = next]
      BY <2>1 DEF AtType
    <3>2. next \in Steps
      BY DEF Steps
    <3>3. /\ [at EXCEPT ![p] = Idle] \in AtType
          /\ [at EXCEPT ![p].abandoned = (restoreText = "held"), ![p].pc = next] \in AtType
      BY <2>1, <3>2, MoveTyped
    <3> QED BY <3>1, <3>3
  <2>2. TypeOK' \/ at' \notin AtType
    BY DEF AtType, TypeOK, Databases, Trees
  <2> QED BY <2>2, <2>3
<1>2. Locked'
  BY DEF Locked, TypeOK, Holding, Restorer
<1>3. Placed'
  BY DEF Placed, TypeOK, DatabaseAt, Locked, Restorer
<1>4. DatabaseAt'
  BY DEF DatabaseAt, TypeOK, Locked, Placed, Committed, Holding
<1>5. FenceRead'
  BY DEF FenceRead, TypeOK, Committed, DatabaseAt
<1>6. IncompleteIsClosed'
  BY DEF IncompleteIsClosed, TypeOK, Locked, Placed, DatabaseAt, Holding
<1> QED BY <1>1, <1>2, <1>3, <1>4, <1>5, <1>6

\* What is there is taken over, or a stage is begun where no target is.
LEMMA RestoringKeeps == ASSUME IInv, NEW p \in Process, Restoring(p) PROVE IInv'
<1> USE OwnerAssumption, BoundsAssumption
    DEF IInv, Restoring, Go, restore, target, Same, bounds, Idle, Fail, Return, Unlock, LeaveRestore, Adopts
<1>1. TypeOK'
  <2>1. at \in AtType
    BY DEF AtType, TypeOK
  <2>3. at' \in AtType
    BY <2>1, MoveTyped DEF Steps
  <2>2. TypeOK' \/ at' \notin AtType
    BY DEF AtType, TypeOK, Databases, Trees
  <2> QED BY <2>2, <2>3
<1>2. Locked'
  BY DEF Locked, TypeOK, Holding, Restorer
<1>3. Placed'
  BY DEF Placed, TypeOK, DatabaseAt, Locked, Restorer
<1>4. DatabaseAt'
  BY DEF DatabaseAt, TypeOK, Locked, Placed, Committed, Holding
<1>5. FenceRead'
  BY DEF FenceRead, TypeOK, Committed, DatabaseAt
<1>6. IncompleteIsClosed'
  BY DEF IncompleteIsClosed, TypeOK, Locked, Placed, DatabaseAt, Holding
<1> QED BY <1>1, <1>2, <1>3, <1>4, <1>5, <1>6

\* The stage is full.
LEMMA CopyKeeps == ASSUME IInv, NEW p \in Process, Copy(p) PROVE IInv'
<1> USE OwnerAssumption, BoundsAssumption
    DEF IInv, Copy, Go, restore, target, Same, bounds, Idle
<1>1. TypeOK'
  <2>1. at \in AtType
    BY DEF AtType, TypeOK
  <2>3. at' \in AtType
    BY <2>1, MoveTyped DEF Steps
  <2>2. TypeOK' \/ at' \notin AtType
    BY DEF AtType, TypeOK, Databases, Trees
  <2> QED BY <2>2, <2>3
<1>2. Locked'
  BY DEF Locked, TypeOK, Holding, Restorer
<1>3. Placed'
  BY DEF Placed, TypeOK, DatabaseAt, Locked, Restorer
<1>4. DatabaseAt'
  BY DEF DatabaseAt, TypeOK, Locked, Placed, Committed, Holding
<1>5. FenceRead'
  BY DEF FenceRead, TypeOK, Committed, DatabaseAt
<1>6. IncompleteIsClosed'
  BY DEF IncompleteIsClosed, TypeOK, Locked, Placed, DatabaseAt, Holding
<1> QED BY <1>1, <1>2, <1>3, <1>4, <1>5, <1>6

\* The one step that makes a target: there was none, so nothing was committed.
LEMMA PublishKeeps == ASSUME IInv, NEW p \in Process, Publish(p) PROVE IInv'
<1>7. ~published /\ db = "source"
  <2>1. /\ marker \/ db # "source" => published
        /\ at[p].pc \in {"copy", "publish"} => ~published
    BY DEF IInv, Placed
  <2>2. at[p].pc = "publish"
    BY DEF Publish
  <2> QED BY <2>1, <2>2
<1> USE OwnerAssumption, BoundsAssumption
    DEF IInv, Publish, Go, restore, target, Same, bounds, Idle
<1>1. TypeOK'
  <2>1. at \in AtType
    BY DEF AtType, TypeOK
  <2>3. at' \in AtType
    BY <2>1, MoveTyped DEF Steps
  <2>2. TypeOK' \/ at' \notin AtType
    BY DEF AtType, TypeOK, Databases, Trees
  <2> QED BY <2>2, <2>3
<1>2. Locked'
  BY DEF Locked, TypeOK, Holding, Restorer
<1>3. Placed'
  BY DEF Placed, TypeOK, DatabaseAt, Locked, Restorer
<1>11. db' = "source" /\ tree' = "closed"
  OBVIOUS
<1>8. at \in AtType /\ at' = [at EXCEPT ![p].pc = "inspect"]
  BY DEF TypeOK, AtType
<1>9. /\ at'[p].pc = "inspect" /\ at'[p].fence = at[p].fence
      /\ \A q \in Process : q # p => at'[q] = at[q]
  BY <1>8 DEF AtType
<1>10. \A q \in Process : at[q].pc \notin {"recover", "commit", "verify", "complete"}
  BY <1>7 DEF DatabaseAt, Committed
<1>4. DatabaseAt'
  BY <1>7, <1>9, <1>10, <1>11 DEF DatabaseAt
<1>5. FenceRead'
  BY <1>7, <1>9, <1>11 DEF FenceRead, Committed
<1>6. IncompleteIsClosed'
  BY DEF IncompleteIsClosed, TypeOK, Locked, Placed, DatabaseAt, Holding
<1> QED BY <1>1, <1>2, <1>3, <1>4, <1>5, <1>6

\* The published tree is read again and the lease let go.
LEMMA InspectKeeps == ASSUME IInv, NEW p \in Process, Inspect(p) PROVE IInv'
<1> USE OwnerAssumption, BoundsAssumption
    DEF IInv, Inspect, Go, restore, target, Same, bounds, Idle, Fail, Return, Unlock, LeaveRestore, Original, Writable
<1>1. TypeOK'
  <2>1. at \in AtType
    BY DEF AtType, TypeOK
  <2>3. at' \in AtType
    BY <2>1, MoveTyped DEF Steps
  <2>2. TypeOK' \/ at' \notin AtType
    BY DEF AtType, TypeOK, Databases, Trees
  <2> QED BY <2>2, <2>3
<1>2. Locked'
  BY DEF Locked, TypeOK, Holding, Restorer
<1>3. Placed'
  BY DEF Placed, TypeOK, DatabaseAt, Locked, Restorer
<1>4. DatabaseAt'
  BY DEF DatabaseAt, TypeOK, Locked, Placed, Committed, Holding
<1>5. FenceRead'
  BY DEF FenceRead, TypeOK, Committed, DatabaseAt
<1>6. IncompleteIsClosed'
  BY DEF IncompleteIsClosed, TypeOK, Locked, Placed, DatabaseAt, Holding
<1> QED BY <1>1, <1>2, <1>3, <1>4, <1>5, <1>6

\* A failed restore gives up its lease.
LEMMA RestoreFailsKeeps == ASSUME IInv, NEW p \in Process, RestoreFails(p) PROVE IInv'
<1> USE OwnerAssumption, BoundsAssumption
    DEF IInv, RestoreFails, Go, restore, target, Same, bounds, Idle, Fail, Return, Unlock, LeaveRestore, Fault
<1>1. TypeOK'
  <2>1. at \in AtType
    BY DEF AtType, TypeOK
  <2>3. at' \in AtType
    BY <2>1, MoveTyped DEF Steps
  <2>2. TypeOK' \/ at' \notin AtType
    BY DEF AtType, TypeOK, Databases, Trees
  <2> QED BY <2>2, <2>3
<1>2. Locked'
  BY DEF Locked, TypeOK, Holding, Restorer
<1>3. Placed'
  BY DEF Placed, TypeOK, DatabaseAt, Locked, Restorer
<1>4. DatabaseAt'
  BY DEF DatabaseAt, TypeOK, Locked, Placed, Committed, Holding
<1>5. FenceRead'
  BY DEF FenceRead, TypeOK, Committed, DatabaseAt
<1>6. IncompleteIsClosed'
  BY DEF IncompleteIsClosed, TypeOK, Locked, Placed, DatabaseAt, Holding
<1> QED BY <1>1, <1>2, <1>3, <1>4, <1>5, <1>6

\* A look without a lease.
LEMMA PlanKeeps == ASSUME IInv, NEW p \in Process, Plan(p) PROVE IInv'
<1> USE OwnerAssumption, BoundsAssumption
    DEF IInv, Plan, Go, restore, target, Same, bounds, Idle, Fail, Return, Unlock, LeaveRestore, Original, Writable
<1>1. TypeOK'
  <2>1. at \in AtType
    BY DEF AtType, TypeOK
  <2>3. at' \in AtType
    BY <2>1, MoveTyped DEF Steps
  <2>2. TypeOK' \/ at' \notin AtType
    BY DEF AtType, TypeOK, Databases, Trees
  <2> QED BY <2>2, <2>3
<1>2. Locked'
  BY DEF Locked, TypeOK, Holding, Restorer
<1>3. Placed'
  BY DEF Placed, TypeOK, DatabaseAt, Locked, Restorer
<1>4. DatabaseAt'
  BY DEF DatabaseAt, TypeOK, Locked, Placed, Committed, Holding
<1>5. FenceRead'
  BY DEF FenceRead, TypeOK, Committed, DatabaseAt
<1>6. IncompleteIsClosed'
  BY DEF IncompleteIsClosed, TypeOK, Locked, Placed, DatabaseAt, Holding
<1> QED BY <1>1, <1>2, <1>3, <1>4, <1>5, <1>6

\* A look under the lease of the Store.
LEMMA OpenKeeps == ASSUME IInv, NEW p \in Process, Open(p) PROVE IInv'
<1> USE OwnerAssumption, BoundsAssumption
    DEF IInv, Open, Go, restore, target, Same, bounds, Idle, Fail, Return, Unlock, LeaveRestore, Look
<1>1. TypeOK'
  <2>1. at \in AtType
    BY DEF AtType, TypeOK
  <2>3. at' \in AtType
    BY <2>1, MoveTyped DEF Steps
  <2>2. TypeOK' \/ at' \notin AtType
    BY DEF AtType, TypeOK, Databases, Trees
  <2> QED BY <2>2, <2>3
<1>2. Locked'
  BY DEF Locked, TypeOK, Holding, Restorer
<1>3. Placed'
  BY DEF Placed, TypeOK, DatabaseAt, Locked, Restorer
<1>4. DatabaseAt'
  BY DEF DatabaseAt, TypeOK, Locked, Placed, Committed, Holding
<1>5. FenceRead'
  BY DEF FenceRead, TypeOK, Committed, DatabaseAt
<1>6. IncompleteIsClosed'
  BY DEF IncompleteIsClosed, TypeOK, Locked, Placed, DatabaseAt, Holding
<1> QED BY <1>1, <1>2, <1>3, <1>4, <1>5, <1>6

\* The owner state of a restore is settled first.
LEMMA ReconcilingKeeps == ASSUME IInv, NEW p \in Process, Reconciling(p) PROVE IInv'
<1> USE OwnerAssumption, BoundsAssumption
    DEF IInv, Reconciling, Go, restore, target, Same, bounds, Idle, Fail, Return, Unlock, LeaveRestore
<1>1. TypeOK'
  <2>1. at \in AtType
    BY DEF AtType, TypeOK
  <2>3. at' \in AtType
    BY <2>1, MoveTyped DEF Steps
  <2>2. TypeOK' \/ at' \notin AtType
    BY DEF AtType, TypeOK, Databases, Trees
  <2> QED BY <2>2, <2>3
<1>2. Locked'
  BY DEF Locked, TypeOK, Holding, Restorer
<1>3. Placed'
  BY DEF Placed, TypeOK, DatabaseAt, Locked, Restorer
<1>4. DatabaseAt'
  BY DEF DatabaseAt, TypeOK, Locked, Placed, Committed, Holding
<1>5. FenceRead'
  BY DEF FenceRead, TypeOK, Committed, DatabaseAt
<1>6. IncompleteIsClosed'
  BY DEF IncompleteIsClosed, TypeOK, Locked, Placed, DatabaseAt, Holding
<1> QED BY <1>1, <1>2, <1>3, <1>4, <1>5, <1>6

\* What a dead restorer left is closed.
LEMMA ProtectKeeps == ASSUME IInv, NEW p \in Process, Protect(p) PROVE IInv'
<1> USE OwnerAssumption, BoundsAssumption
    DEF IInv, Protect, Go, restore, target, Same, bounds, Idle, Fail, Return, Unlock, LeaveRestore, Original
<1>1. TypeOK'
  <2>1. at \in AtType
    BY DEF AtType, TypeOK
  <2>3. at' \in AtType
    BY <2>1, MoveTyped DEF Steps
  <2>2. TypeOK' \/ at' \notin AtType
    BY DEF AtType, TypeOK, Databases, Trees
  <2> QED BY <2>2, <2>3
<1>2. Locked'
  BY DEF Locked, TypeOK, Holding, Restorer
<1>3. Placed'
  BY DEF Placed, TypeOK, DatabaseAt, Locked, Restorer
<1>4. DatabaseAt'
  BY DEF DatabaseAt, TypeOK, Locked, Placed, Committed, Holding
<1>5. FenceRead'
  BY DEF FenceRead, TypeOK, Committed, DatabaseAt
<1>6. IncompleteIsClosed'
  BY DEF IncompleteIsClosed, TypeOK, Locked, Placed, DatabaseAt, Holding
<1> QED BY <1>1, <1>2, <1>3, <1>4, <1>5, <1>6

\* A committed target needs no fence.
LEMMA ClassifyKeeps == ASSUME IInv, NEW p \in Process, Classify(p) PROVE IInv'
<1> USE OwnerAssumption, BoundsAssumption
    DEF IInv, Classify, Go, restore, target, Same, bounds, Idle, Fail, Return, Unlock, LeaveRestore, Look
<1>1. TypeOK'
  <2>1. at \in AtType
    BY DEF AtType, TypeOK
  <2>3. at' \in AtType
    BY <2>1, MoveTyped DEF Steps
  <2>2. TypeOK' \/ at' \notin AtType
    BY DEF AtType, TypeOK, Databases, Trees
  <2> QED BY <2>2, <2>3
<1>2. Locked'
  BY DEF Locked, TypeOK, Holding, Restorer
<1>3. Placed'
  BY DEF Placed, TypeOK, DatabaseAt, Locked, Restorer
<1>4. DatabaseAt'
  BY DEF DatabaseAt, TypeOK, Locked, Placed, Committed, Holding
<1>5. FenceRead'
  BY DEF FenceRead, TypeOK, Committed, DatabaseAt
<1>6. IncompleteIsClosed'
  BY DEF IncompleteIsClosed, TypeOK, Locked, Placed, DatabaseAt, Holding
<1> QED BY <1>1, <1>2, <1>3, <1>4, <1>5, <1>6

\* What is committed stays so.
LEMMA ReissueCommittedKeeps == ASSUME IInv, NEW p \in Process, ReissueCommitted(p) PROVE IInv'
<1> USE OwnerAssumption, BoundsAssumption
    DEF IInv, ReissueCommitted, Go, restore, target, Same, bounds, Idle, Fail, Return, Unlock, LeaveRestore, Look, IsCommitted
<1>1. TypeOK'
  <2>1. at \in AtType
    BY DEF AtType, TypeOK
  <2>3. at' \in AtType
    BY <2>1, MoveTyped DEF Steps
  <2>2. TypeOK' \/ at' \notin AtType
    BY DEF AtType, TypeOK, Databases, Trees
  <2> QED BY <2>2, <2>3
<1>2. Locked'
  BY DEF Locked, TypeOK, Holding, Restorer
<1>3. Placed'
  BY DEF Placed, TypeOK, DatabaseAt, Locked, Restorer
<1>4. DatabaseAt'
  BY DEF DatabaseAt, TypeOK, Locked, Placed, Committed, Holding
<1>5. FenceRead'
  BY DEF FenceRead, TypeOK, Committed, DatabaseAt
<1>6. IncompleteIsClosed'
  BY DEF IncompleteIsClosed, TypeOK, Locked, Placed, DatabaseAt, Holding
<1> QED BY <1>1, <1>2, <1>3, <1>4, <1>5, <1>6

\* A free lease means that no transaction is live: a journal is a dead one's.
LEMMA ReissueKeeps == ASSUME IInv, NEW p \in Process, Reissue(p) PROVE IInv'
<1> USE OwnerAssumption, BoundsAssumption
    DEF IInv, Reissue, Go, restore, target, Same, bounds, Idle, Fail, Return, Unlock, LeaveRestore, Free, Interrupted
<1>1. TypeOK'
  <2>1. at \in AtType
    BY DEF AtType, TypeOK
  <2>3. at' \in AtType
    BY <2>1, MoveTyped DEF Steps
  <2>2. TypeOK' \/ at' \notin AtType
    BY DEF AtType, TypeOK, Databases, Trees
  <2> QED BY <2>2, <2>3
<1>2. Locked'
  BY DEF Locked, TypeOK, Holding, Restorer
<1>3. Placed'
  BY DEF Placed, TypeOK, DatabaseAt, Locked, Restorer
<1>4. DatabaseAt'
  BY DEF DatabaseAt, TypeOK, Locked, Placed, Committed, Holding, IncompleteIsClosed
<1>5. FenceRead'
  BY DEF FenceRead, TypeOK, Committed, DatabaseAt
<1>6. IncompleteIsClosed'
  BY DEF IncompleteIsClosed, TypeOK, Locked, Placed, DatabaseAt, Holding
<1> QED BY <1>1, <1>2, <1>3, <1>4, <1>5, <1>6

\* The journal is void and the database the source's.
LEMMA RecoverKeeps == ASSUME IInv, NEW p \in Process, Recover(p) PROVE IInv'
<1> USE OwnerAssumption, BoundsAssumption
    DEF IInv, Recover, Go, restore, target, Same, bounds, Idle
<1>1. TypeOK'
  <2>1. at \in AtType
    BY DEF AtType, TypeOK
  <2>3. at' \in AtType
    BY <2>1, MoveTyped DEF Steps
  <2>2. TypeOK' \/ at' \notin AtType
    BY DEF AtType, TypeOK, Databases, Trees
  <2> QED BY <2>2, <2>3
<1>2. Locked'
  BY DEF Locked, TypeOK, Holding, Restorer
<1>3. Placed'
  BY DEF Placed, TypeOK, DatabaseAt, Locked, Restorer
<1>4. DatabaseAt'
  BY DEF DatabaseAt, TypeOK, Locked, Placed, Committed, Holding
<1>5. FenceRead'
  BY DEF FenceRead, TypeOK, Committed, DatabaseAt
<1>6. IncompleteIsClosed'
  BY DEF IncompleteIsClosed, TypeOK, Locked, Placed, DatabaseAt, Holding
<1> QED BY <1>1, <1>2, <1>3, <1>4, <1>5, <1>6

\* A failed recovery closes the tree again.
LEMMA RecoverFailsKeeps == ASSUME IInv, NEW p \in Process, RecoverFails(p) PROVE IInv'
<1> USE OwnerAssumption, BoundsAssumption
    DEF IInv, RecoverFails, Go, restore, target, Same, bounds, Idle, Fail, Return, Unlock, LeaveRestore, Fault
<1>1. TypeOK'
  <2>1. at \in AtType
    BY DEF AtType, TypeOK
  <2>3. at' \in AtType
    BY <2>1, MoveTyped DEF Steps
  <2>2. TypeOK' \/ at' \notin AtType
    BY DEF AtType, TypeOK, Databases, Trees
  <2> QED BY <2>2, <2>3
<1>2. Locked'
  BY DEF Locked, TypeOK, Holding, Restorer
<1>3. Placed'
  BY DEF Placed, TypeOK, DatabaseAt, Locked, Restorer
<1>4. DatabaseAt'
  BY DEF DatabaseAt, TypeOK, Locked, Placed, Committed, Holding
<1>5. FenceRead'
  BY DEF FenceRead, TypeOK, Committed, DatabaseAt
<1>6. IncompleteIsClosed'
  BY DEF IncompleteIsClosed, TypeOK, Locked, Placed, DatabaseAt, Holding
<1> QED BY <1>1, <1>2, <1>3, <1>4, <1>5, <1>6

\* The lease is let go over a closed tree.
LEMMA ReissuedKeeps == ASSUME IInv, NEW p \in Process, Reissued(p) PROVE IInv'
<1> USE OwnerAssumption, BoundsAssumption
    DEF IInv, Reissued, Go, restore, target, Same, bounds, Idle, Fail, Return, Unlock, LeaveRestore, Original
<1>1. TypeOK'
  <2>1. at \in AtType
    BY DEF AtType, TypeOK
  <2>3. at' \in AtType
    BY <2>1, MoveTyped DEF Steps
  <2>2. TypeOK' \/ at' \notin AtType
    BY DEF AtType, TypeOK, Databases, Trees
  <2> QED BY <2>2, <2>3
<1>2. Locked'
  BY DEF Locked, TypeOK, Holding, Restorer
<1>3. Placed'
  BY DEF Placed, TypeOK, DatabaseAt, Locked, Restorer
<1>4. DatabaseAt'
  BY DEF DatabaseAt, TypeOK, Locked, Placed, Committed, Holding
<1>5. FenceRead'
  BY DEF FenceRead, TypeOK, Committed, DatabaseAt
<1>6. IncompleteIsClosed'
  BY DEF IncompleteIsClosed, TypeOK, Locked, Placed, DatabaseAt, Holding
<1> QED BY <1>1, <1>2, <1>3, <1>4, <1>5, <1>6

\* The tree is opened under the lease.
LEMMA ActivateKeeps == ASSUME IInv, NEW p \in Process, Activate(p) PROVE IInv'
<1> USE OwnerAssumption, BoundsAssumption
    DEF IInv, Activate, Go, restore, target, Same, bounds, Idle, Fail, Return, Unlock, LeaveRestore, Free, Original
<1>1. TypeOK'
  <2>1. at \in AtType
    BY DEF AtType, TypeOK
  <2>3. at' \in AtType
    BY <2>1, MoveTyped DEF Steps
  <2>2. TypeOK' \/ at' \notin AtType
    BY DEF AtType, TypeOK, Databases, Trees
  <2> QED BY <2>2, <2>3
<1>2. Locked'
  BY DEF Locked, TypeOK, Holding, Restorer
<1>3. Placed'
  BY DEF Placed, TypeOK, DatabaseAt, Locked, Restorer
<1>4. DatabaseAt'
  BY DEF DatabaseAt, TypeOK, Locked, Placed, Committed, Holding
<1>5. FenceRead'
  BY DEF FenceRead, TypeOK, Committed, DatabaseAt
<1>6. IncompleteIsClosed'
  BY DEF IncompleteIsClosed, TypeOK, Locked, Placed, DatabaseAt, Holding
<1> QED BY <1>1, <1>2, <1>3, <1>4, <1>5, <1>6

\* The transaction begins on the source.
LEMMA BeginWriterKeeps == ASSUME IInv, NEW p \in Process, BeginWriter(p) PROVE IInv'
<1> USE OwnerAssumption, BoundsAssumption
    DEF IInv, BeginWriter, Go, restore, target, Same, bounds, Idle, Fail, Return, Unlock, LeaveRestore, Writable, FailProtected, Protected
<1>1. TypeOK'
  <2>1. at \in AtType
    BY DEF AtType, TypeOK
  <2>3. at' \in AtType
    BY <2>1, MoveTyped DEF Steps
  <2>2. TypeOK' \/ at' \notin AtType
    BY DEF AtType, TypeOK, Databases, Trees
  <2> QED BY <2>2, <2>3
<1>2. Locked'
  BY DEF Locked, TypeOK, Holding, Restorer
<1>3. Placed'
  BY DEF Placed, TypeOK, DatabaseAt, Locked, Restorer
<1>4. DatabaseAt'
  BY DEF DatabaseAt, TypeOK, Locked, Placed, Committed, Holding
<1>5. FenceRead'
  BY DEF FenceRead, TypeOK, Committed, DatabaseAt
<1>6. IncompleteIsClosed'
  BY DEF IncompleteIsClosed, TypeOK, Locked, Placed, DatabaseAt, Holding
<1> QED BY <1>1, <1>2, <1>3, <1>4, <1>5, <1>6

\* The transaction commits.
LEMMA CommitKeeps == ASSUME IInv, NEW p \in Process, Commit(p) PROVE IInv'
<1> USE OwnerAssumption, BoundsAssumption
    DEF IInv, Commit, Go, restore, target, Same, bounds, Idle, Fail, Return, Unlock, LeaveRestore, Writable, FailProtected, Protected
<1>1. TypeOK'
  <2>1. at \in AtType
    BY DEF AtType, TypeOK
  <2>3. at' \in AtType
    BY <2>1, MoveTyped DEF Steps
  <2>2. TypeOK' \/ at' \notin AtType
    BY DEF AtType, TypeOK, Databases, Trees
  <2> QED BY <2>2, <2>3
<1>2. Locked'
  BY DEF Locked, TypeOK, Holding, Restorer
<1>3. Placed'
  BY DEF Placed, TypeOK, DatabaseAt, Locked, Restorer
<1>4. DatabaseAt'
  BY DEF DatabaseAt, TypeOK, Locked, Placed, Committed, Holding
<1>5. FenceRead'
  BY DEF FenceRead, TypeOK, Committed, DatabaseAt
<1>6. IncompleteIsClosed'
  BY DEF IncompleteIsClosed, TypeOK, Locked, Placed, DatabaseAt, Holding
<1> QED BY <1>1, <1>2, <1>3, <1>4, <1>5, <1>6

\* It fails, whatever became of the commit.
LEMMA CommitFailsKeeps == ASSUME IInv, NEW p \in Process, CommitFails(p) PROVE IInv'
<1> USE OwnerAssumption, BoundsAssumption
    DEF IInv, CommitFails, Go, restore, target, Same, bounds, Idle, Fail, Return, Unlock, LeaveRestore, Writable, FailProtected, Protected, Fault
<1>1. TypeOK'
  <2>1. at \in AtType
    BY DEF AtType, TypeOK
  <2>3. at' \in AtType
    BY <2>1, MoveTyped DEF Steps
  <2>2. TypeOK' \/ at' \notin AtType
    BY DEF AtType, TypeOK, Databases, Trees
  <2> QED BY <2>2, <2>3
<1>2. Locked'
  BY DEF Locked, TypeOK, Holding, Restorer
<1>3. Placed'
  BY DEF Placed, TypeOK, DatabaseAt, Locked, Restorer
<1>4. DatabaseAt'
  BY DEF DatabaseAt, TypeOK, Locked, Placed, Committed, Holding
<1>5. FenceRead'
  BY DEF FenceRead, TypeOK, Committed, DatabaseAt
<1>6. IncompleteIsClosed'
  BY DEF IncompleteIsClosed, TypeOK, Locked, Placed, DatabaseAt, Holding
<1> QED BY <1>1, <1>2, <1>3, <1>4, <1>5, <1>6

\* A committed target is opened.
LEMMA VerifyKeeps == ASSUME IInv, NEW p \in Process, Verify(p) PROVE IInv'
<1> USE OwnerAssumption, BoundsAssumption
    DEF IInv, Verify, Go, restore, target, Same, bounds, Idle, Fail, Return, Unlock, LeaveRestore, Writable, FailProtected, Protected
<1>1. TypeOK'
  <2>1. at \in AtType
    BY DEF AtType, TypeOK
  <2>3. at' \in AtType
    BY <2>1, MoveTyped DEF Steps
  <2>2. TypeOK' \/ at' \notin AtType
    BY DEF AtType, TypeOK, Databases, Trees
  <2> QED BY <2>2, <2>3
<1>2. Locked'
  BY DEF Locked, TypeOK, Holding, Restorer
<1>3. Placed'
  BY DEF Placed, TypeOK, DatabaseAt, Locked, Restorer
<1>4. DatabaseAt'
  BY DEF DatabaseAt, TypeOK, Locked, Placed, Committed, Holding
<1>5. FenceRead'
  BY DEF FenceRead, TypeOK, Committed, DatabaseAt
<1>6. IncompleteIsClosed'
  BY DEF IncompleteIsClosed, TypeOK, Locked, Placed, DatabaseAt, Holding
<1> QED BY <1>1, <1>2, <1>3, <1>4, <1>5, <1>6

\* The marker goes last.
LEMMA CompleteKeeps == ASSUME IInv, NEW p \in Process, Complete(p) PROVE IInv'
<1> USE OwnerAssumption, BoundsAssumption
    DEF IInv, Complete, Go, restore, target, Same, bounds, Idle, Fail, Return, Unlock, LeaveRestore, Writable, FailProtected, Protected
<1>1. TypeOK'
  <2>1. at \in AtType
    BY DEF AtType, TypeOK
  <2>3. at' \in AtType
    BY <2>1, MoveTyped DEF Steps
  <2>2. TypeOK' \/ at' \notin AtType
    <3>1. CASE Writable /\ db = "successor"
      BY <3>1 DEF AtType, TypeOK, Databases, Trees
    <3>2. CASE ~(Writable /\ db = "successor")
      BY <3>2 DEF AtType, TypeOK, Databases, Trees
    <3> QED BY <3>1, <3>2
  <2> QED BY <2>2, <2>3
<1>2. Locked'
  BY DEF Locked, TypeOK, Holding, Restorer
<1>3. Placed'
  BY DEF Placed, TypeOK, DatabaseAt, Locked, Restorer
<1>4. DatabaseAt'
  BY DEF DatabaseAt, TypeOK, Locked, Placed, Committed, Holding
<1>5. FenceRead'
  BY DEF FenceRead, TypeOK, Committed, DatabaseAt
<1>6. IncompleteIsClosed'
  BY DEF IncompleteIsClosed, TypeOK, Locked, Placed, DatabaseAt, Holding
<1> QED BY <1>1, <1>2, <1>3, <1>4, <1>5, <1>6

\* A failure closes the tree where the marker is.
LEMMA ActivateFailsKeeps == ASSUME IInv, NEW p \in Process, ActivateFails(p) PROVE IInv'
<1> USE OwnerAssumption, BoundsAssumption
    DEF IInv, ActivateFails, Go, restore, target, Same, bounds, Idle, Fail, Return, Unlock, LeaveRestore, Writable, FailProtected, Protected, Fault
<1>1. TypeOK'
  <2>1. at \in AtType
    BY DEF AtType, TypeOK
  <2>3. at' \in AtType
    BY <2>1, MoveTyped DEF Steps
  <2>2. TypeOK' \/ at' \notin AtType
    BY DEF AtType, TypeOK, Databases, Trees
  <2> QED BY <2>2, <2>3
<1>2. Locked'
  BY DEF Locked, TypeOK, Holding, Restorer
<1>3. Placed'
  BY DEF Placed, TypeOK, DatabaseAt, Locked, Restorer
<1>4. DatabaseAt'
  BY DEF DatabaseAt, TypeOK, Locked, Placed, Committed, Holding
<1>5. FenceRead'
  BY DEF FenceRead, TypeOK, Committed, DatabaseAt
<1>6. IncompleteIsClosed'
  BY DEF IncompleteIsClosed, TypeOK, Locked, Placed, DatabaseAt, Holding
<1> QED BY <1>1, <1>2, <1>3, <1>4, <1>5, <1>6

\* The call returns.
LEMMA AnsweredKeeps == ASSUME IInv, NEW p \in Process, Answered(p) PROVE IInv'
<1> USE OwnerAssumption, BoundsAssumption
    DEF IInv, Answered, Go, restore, target, Same, bounds, Idle, Return
<1>1. TypeOK'
  <2>1. at \in AtType
    BY DEF AtType, TypeOK
  <2>3. at' \in AtType
    BY <2>1, MoveTyped DEF Steps
  <2>2. TypeOK' \/ at' \notin AtType
    BY DEF AtType, TypeOK, Databases, Trees
  <2> QED BY <2>2, <2>3
<1>2. Locked'
  BY DEF Locked, TypeOK, Holding, Restorer
<1>3. Placed'
  BY DEF Placed, TypeOK, DatabaseAt, Locked, Restorer
<1>4. DatabaseAt'
  BY DEF DatabaseAt, TypeOK, Locked, Placed, Committed, Holding
<1>5. FenceRead'
  BY DEF FenceRead, TypeOK, Committed, DatabaseAt
<1>6. IncompleteIsClosed'
  BY DEF IncompleteIsClosed, TypeOK, Locked, Placed, DatabaseAt, Holding
<1> QED BY <1>1, <1>2, <1>3, <1>4, <1>5, <1>6

\* A death tears the tree it had opened.
LEMMA DeathKeeps == ASSUME IInv, NEW p \in Process, Death(p) PROVE IInv'
<1> USE OwnerAssumption, BoundsAssumption
    DEF IInv, Death, Go, restore, target, Same, bounds, Idle, Fail, Return, Unlock, LeaveRestore, Fault
<1>1. TypeOK'
  <2>1. at \in AtType
    BY DEF AtType, TypeOK
  <2>3. at' \in AtType
    BY <2>1, MoveTyped DEF Steps
  <2>2. TypeOK' \/ at' \notin AtType
    BY DEF AtType, TypeOK, Databases, Trees
  <2> QED BY <2>2, <2>3
<1>2. Locked'
  BY DEF Locked, TypeOK, Holding, Restorer
<1>3. Placed'
  BY DEF Placed, TypeOK, DatabaseAt, Locked, Restorer
<1>4. DatabaseAt'
  BY DEF DatabaseAt, TypeOK, Locked, Placed, Committed, Holding
<1>5. FenceRead'
  BY DEF FenceRead, TypeOK, Committed, DatabaseAt
<1>6. IncompleteIsClosed'
  BY DEF IncompleteIsClosed, TypeOK, Locked, Placed, DatabaseAt, Holding
<1> QED BY <1>1, <1>2, <1>3, <1>4, <1>5, <1>6

\* What happens around the takeover.
LEMMA AroundKeeps == ASSUME IInv, Use \/ Unfence \/ Refence PROVE IInv'
<1>5. faults' \in 0 .. MaxFaults /\ calls' \in 0 .. MaxCalls
  <2>1. faults \in 0 .. MaxFaults /\ calls \in 0 .. MaxCalls /\ MaxFaults \in Nat
    BY BoundsAssumption DEF IInv, TypeOK
  <2>2. calls' = calls /\ (faults' = faults \/ (faults < MaxFaults /\ faults' = faults + 1))
    BY DEF Use, Unfence, Refence, Same, bounds, Fault
  <2> QED BY <2>1, <2>2
<1> USE OwnerAssumption, BoundsAssumption
    DEF IInv, restore, target, Same, bounds, Use, Unfence, Refence, Fault, Active, Committed
<1>1. TypeOK'
  <2>1. CASE Use
    BY <2>1 DEF TypeOK, Databases
  <2>2. CASE Unfence
    <3>1. fenced' \in BOOLEAN
      BY <2>2
    <3> QED BY <1>5, <2>2, <3>1 DEF TypeOK
  <2>3. CASE Refence
    BY <2>3 DEF TypeOK
  <2> QED BY <2>1, <2>2, <2>3
<1>2. Locked' /\ Placed'
  BY DEF Locked, Placed
<1>3. DatabaseAt' /\ FenceRead'
  BY DEF DatabaseAt, FenceRead
<1>4. IncompleteIsClosed'
  BY DEF IncompleteIsClosed
<1> QED BY <1>1, <1>2, <1>3, <1>4

\* Every step keeps the invariant.
LEMMA NextKeeps == IInv /\ [Next]_vars => IInv'
<1> SUFFICES ASSUME IInv, [Next]_vars PROVE IInv'
  OBVIOUS
<1>1. ASSUME NEW p \in Process, Call(p) \/ Step(p) PROVE IInv'
  BY <1>1, CallKeeps, ReadFenceKeeps, EnterRestoreKeeps, RestoringKeeps, CopyKeeps,
     PublishKeeps, InspectKeeps, PlanKeeps, OpenKeeps, ReconcilingKeeps, ProtectKeeps,
     ClassifyKeeps, ReissueCommittedKeeps, ReissueKeeps, RecoverKeeps, ReissuedKeeps,
     ActivateKeeps, BeginWriterKeeps, CommitKeeps, VerifyKeeps, CompleteKeeps,
     AnsweredKeeps
  DEF Step
<1>2. ASSUME NEW p \in Process, Failure(p) PROVE IInv'
  BY <1>2, RestoreFailsKeeps, RecoverFailsKeeps, CommitFailsKeeps, ActivateFailsKeeps,
     DeathKeeps
  DEF Failure
<1>3. CASE UNCHANGED vars
  BY <1>3 DEF vars, restore, target, bounds, IInv, TypeOK, Locked, Placed, DatabaseAt,
     FenceRead, IncompleteIsClosed, Committed
<1> QED BY <1>1, <1>2, <1>3, AroundKeeps DEF Next

\* The invariant of the takeover.
THEOREM IInvHolds == Spec => []IInv
<1> QED BY InitIInv, NextKeeps, PTL DEF Spec

\* Every variable of the takeover keeps its type.
THEOREM TypesHold == Spec => []TypeOK
<1>1. IInv => TypeOK
  BY DEF IInv
<1> QED BY <1>1, IInvHolds, PTL

\* A target that still has its marker is writable only under the lease of the
\* Store, or after a death under it (_reseal_restored_after_failed_takeover).
THEOREM IncompleteStaysClosed == Spec => []IncompleteIsClosed
<1>1. IInv => IncompleteIsClosed
  BY DEF IInv
<1> QED BY <1>1, IInvHolds, PTL

\* The actions of the two action properties.
Keeps ==
    Committed =>
        /\ db' = db \/ (db = "successor" /\ db' = "used")
        /\ marker' => marker
Fences ==
    ~Committed /\ Committed' =>
        \E p \in Process : at[p].pc = "commit" /\ at[p].fence

\* Only a step from "commit" makes a successor; nothing takes one back.
LEMMA StepOfCommit == ASSUME IInv, [Next]_vars PROVE Keeps /\ Fences
<1>1. ASSUME db' = db, marker' = marker \/ ~marker' PROVE Keeps /\ Fences
  <2>1. Committed' = Committed
    BY <1>1 DEF Committed
  <2> QED BY <1>1, <2>1 DEF Keeps, Fences
<1>2. ASSUME NEW p \in Process, Call(p) \/ Step(p) \/ Failure(p) PROVE Keeps /\ Fences
  <2>1. CASE \/ Call(p) \/ ReadFence(p) \/ EnterRestore(p) \/ Restoring(p) \/ Copy(p)
             \/ Inspect(p) \/ Plan(p) \/ Open(p) \/ Reconciling(p) \/ Protect(p)
             \/ Classify(p) \/ ReissueCommitted(p) \/ Reissue(p) \/ Reissued(p)
             \/ Activate(p) \/ Verify(p) \/ Complete(p) \/ Answered(p) \/ RestoreFails(p)
             \/ RecoverFails(p) \/ ActivateFails(p) \/ Death(p)
    <3>1. db' = db /\ (marker' = marker \/ ~marker')
      BY <2>1
      DEF Call, ReadFence, EnterRestore, Restoring, Copy, Inspect, Plan, Open, Reconciling,
          Protect, Classify, ReissueCommitted, Reissue, Reissued, Activate, Verify,
          Complete, Answered, RestoreFails, RecoverFails, ActivateFails, Death, Look, target,
          FailProtected
    <3> QED BY <1>1, <3>1
  <2>2. CASE Publish(p) \/ Recover(p) \/ BeginWriter(p)
    <3>1. ~Committed
      BY <2>2
      DEF Publish, Recover, BeginWriter, IInv, Placed, DatabaseAt, Committed
    <3>2. db' \in {"source", "journal"}
      BY <2>2
      DEF Publish, Recover, BeginWriter, IInv, DatabaseAt, FailProtected
    <3> QED BY <3>1, <3>2 DEF Keeps, Fences, Committed
  <2>3. CASE Commit(p) \/ CommitFails(p)
    <3>1. at[p].pc = "commit" /\ at[p].fence /\ ~Committed
      BY <2>3 DEF Commit, CommitFails, IInv, DatabaseAt, FenceRead, Committed
    <3> QED BY <3>1 DEF Keeps, Fences
  <2> QED BY <1>2, <2>1, <2>2, <2>3 DEF Step, Failure
<1>3. CASE Use
  <2>1. Committed /\ db = "successor" /\ db' = "used" /\ marker' = marker
    BY <1>3 DEF Use, Active
  <2> QED BY <2>1 DEF Keeps, Fences
<1>4. CASE Unfence \/ Refence \/ UNCHANGED vars
  <2>1. db' = db /\ marker' = marker
    BY <1>4 DEF vars, target, Unfence, Refence
  <2> QED BY <1>1, <2>1
<1> QED BY <1>2, <1>3, <1>4 DEF Next

\* A takeover that has committed is never undone, nor blocked again by a marker
\* (_recover_interrupted_takeover_rollback_journal under the same lease).
THEOREM CommitsForGood == Spec => CommittedForGood
<1>1. IInv /\ [Next]_vars => [Keeps]_vars
  BY StepOfCommit
<1> QED BY <1>1, IInvHolds, PTL DEF Spec, CommittedForGood, Keeps

\* The process whose transaction commits the successor has read the fence of the
\* source itself (require_live_source_fence).
THEOREM CommitsFenced == Spec => FencedCommit
<1>1. IInv /\ [Next]_vars => [Fences]_vars
  BY StepOfCommit
<1> QED BY <1>1, IInvHolds, PTL DEF Spec, FencedCommit, Fences

-----------------------------------------------------------------------------
(* The promise.  A step moves one process, which may forget the fence it has *)
(* read; and seven steps move the target.                                    *)

Seen == {p \in Process : at[p].fence}

\* A target without marker has its successor: only a commit takes it away.
Marked == published /\ ~marker => Committed

\* How a step of p leaves the processes.
Moves(p) ==
    /\ \A q \in Process : q # p => at'[q] = at[q]
    /\ at'[p].fence \in {at[p].fence, FALSE}

LEMMA MovesAre ==
    ASSUME at \in AtType, NEW p \in Process, NEW step,
           \/ at' = [at EXCEPT ![p] = Idle]
           \/ at' = [at EXCEPT ![p].pc = step]
    PROVE  Moves(p)
<1>1. CASE at' = [at EXCEPT ![p] = Idle]
  BY <1>1 DEF AtType, Moves, Idle
<1>2. CASE at' = [at EXCEPT ![p].pc = step]
  BY <1>2 DEF AtType, Moves
<1> QED BY <1>1, <1>2

LEMMA AbandonedMoves ==
    ASSUME at \in AtType, NEW p \in Process, NEW step, NEW b,
           at' = [at EXCEPT ![p].abandoned = b, ![p].pc = step]
    PROVE  Moves(p)
BY DEF AtType, Moves

LEMMA MovesSeen ==
    ASSUME NEW p \in Process, Moves(p)
    PROVE  Seen' \in {Seen, Seen \ {p}}
<1>1. CASE at'[p].fence = at[p].fence
  <2>1. Seen' = Seen
    BY <1>1 DEF Seen, Moves
  <2> QED BY <2>1
<1>2. CASE at'[p].fence = FALSE
  <2>1. Seen' = Seen \ {p}
    BY <1>2 DEF Seen, Moves
  <2> QED BY <2>1
<1> QED BY <1>1, <1>2 DEF Moves

LEMMA PlaceStays ==
    ASSUME UNCHANGED <<published, marker>>, db' = db \/ {db, db'} \subseteq {"source", "journal"}
    PROVE  Place' = Place
BY DEF Place, Committed

\* The steps that leave the target, or change only what is not committed.
LEMMA QuietMoves ==
    ASSUME IInv, NEW p \in Process,
           \/ Call(p) \/ EnterRestore(p) \/ Restoring(p) \/ Copy(p) \/ Inspect(p)
           \/ Plan(p) \/ Open(p) \/ Reconciling(p) \/ Protect(p) \/ Classify(p)
           \/ ReissueCommitted(p) \/ Reissue(p) \/ Recover(p) \/ Reissued(p)
           \/ Activate(p) \/ BeginWriter(p) \/ Verify(p) \/ Answered(p)
           \/ RestoreFails(p) \/ RecoverFails(p) \/ ActivateFails(p) \/ Death(p)
    PROVE  /\ Moves(p) /\ UNCHANGED <<published, marker, fenced>>
           /\ db' = db \/ {db, db'} \subseteq {"source", "journal"}
<1> USE DEF restore, target, Same, Fail, Return, Go
<1>0. at \in AtType
  BY DEF IInv, TypeOK, AtType
<1>1. CASE Call(p) \/ EnterRestore(p) \/ Restoring(p) \/ Copy(p) \/ Inspect(p)
  <2>1. CASE EnterRestore(p)
    <3>1. \/ at' = [at EXCEPT ![p] = Idle]
          \/ \E b, step : at' = [at EXCEPT ![p].abandoned = b, ![p].pc = step]
      BY <2>1, <1>0 DEF EnterRestore, AtType
    <3> QED BY <1>0, <2>1, <3>1, MovesAre, AbandonedMoves DEF EnterRestore
  <2>2. CASE ~EnterRestore(p)
    <3>1. at' = [at EXCEPT ![p] = Idle] \/ \E step : at' = [at EXCEPT ![p].pc = step]
      BY <1>1, <2>2 DEF Call, Restoring, Copy, Inspect
    <3> QED BY <1>0, <1>1, <2>2, <3>1, MovesAre DEF Call, Restoring, Copy, Inspect
  <2> QED BY <2>1, <2>2
<1>2. CASE Plan(p) \/ Open(p) \/ Reconciling(p) \/ Protect(p) \/ Classify(p)
           \/ ReissueCommitted(p)
  <2>1. at' = [at EXCEPT ![p] = Idle] \/ \E step : at' = [at EXCEPT ![p].pc = step]
    BY <1>2 DEF Plan, Open, Reconciling, Protect, Classify, ReissueCommitted, Look
  <2> QED BY <1>0, <1>2, <2>1, MovesAre
          DEF Plan, Open, Reconciling, Protect, Classify, ReissueCommitted, Look
<1>3. CASE Reissue(p) \/ Recover(p) \/ Reissued(p) \/ Activate(p) \/ BeginWriter(p)
           \/ Verify(p) \/ Answered(p)
  <2>1. at' = [at EXCEPT ![p] = Idle] \/ \E step : at' = [at EXCEPT ![p].pc = step]
    BY <1>3 DEF Reissue, Recover, Reissued, Activate, BeginWriter, Verify, Answered,
       FailProtected
  <2>2. CASE Recover(p) \/ BeginWriter(p)
    BY <1>0, <2>1, <2>2, MovesAre DEF Recover, BeginWriter, FailProtected, IInv, DatabaseAt
  <2> QED BY <1>0, <1>3, <2>1, <2>2, MovesAre
          DEF Reissue, Reissued, Activate, Verify, Answered, FailProtected
<1>4. CASE RestoreFails(p) \/ RecoverFails(p) \/ ActivateFails(p) \/ Death(p)
  BY <1>0, <1>4, MovesAre
     DEF RestoreFails, RecoverFails, ActivateFails, Death, FailProtected, Fault
<1> QED BY <1>1, <1>2, <1>3, <1>4

\* A step of one process, seen from the promise.
LEMMA ProcessPromised ==
    ASSUME IInv, Marked, NEW p \in Process, Call(p) \/ Step(p) \/ Failure(p)
    PROVE  Marked' /\ [Promise!PromiseNext]_<<fenced, Seen, Place>>
<1> USE DEF restore, target, Same, Fail, Return, Go
<1>0. at \in AtType /\ Placed /\ DatabaseAt /\ FenceRead /\ db \in Databases
  BY DEF IInv, TypeOK, AtType
<1>1. CASE Moves(p) /\ UNCHANGED <<published, marker, fenced>>
           /\ (db' = db \/ {db, db'} \subseteq {"source", "journal"})
  <2>1. Place' = Place /\ Seen' \in {Seen, Seen \ {p}}
    BY <1>1, PlaceStays, MovesSeen
  <2>2. Marked'
    BY <1>1 DEF Marked, Committed
  <2> QED BY <1>1, <2>1, <2>2 DEF Promise!PromiseNext, Promise!Forget, Seen
<1>2. CASE ReadFence(p)
  <2>1. UNCHANGED <<published, marker, db, fenced>>
    BY <1>2 DEF ReadFence
  <2>2. Place' = Place /\ Marked'
    BY <2>1, PlaceStays DEF Marked, Committed
  <2>3. CASE fenced
    <3>1. \E step : at' = [at EXCEPT ![p].fence = TRUE, ![p].pc = step]
      BY <1>0, <1>2, <2>3 DEF ReadFence, AtType
    <3>2. Seen' = Seen \cup {p}
      BY <1>0, <3>1 DEF Seen, AtType
    <3> QED BY <2>1, <2>2, <2>3, <3>2 DEF Promise!PromiseNext, Promise!See, Seen
  <2>4. CASE ~fenced
    <3>1. Moves(p)
      BY <1>0, <1>2, <2>4, MovesAre DEF ReadFence
    <3> QED BY <1>1, <2>1, <3>1
  <2> QED BY <2>3, <2>4
<1>3. CASE Publish(p)
  <2>1. at[p].pc = "publish" /\ UNCHANGED fenced /\ published' /\ marker' /\ db' = "source"
        /\ at' = [at EXCEPT ![p].pc = "inspect"]
    BY <1>3 DEF Publish
  <2>2. ~published /\ p \in Seen
    BY <1>0, <2>1 DEF Placed, FenceRead, Seen
  <2>3. Seen' = Seen
    BY <1>0, <2>1 DEF AtType, Seen
  <2>4. Place = "absent" /\ Place' = "restored" /\ Marked'
    BY <2>1, <2>2 DEF Place, Committed, Marked
  <2> QED BY <2>1, <2>2, <2>3, <2>4 DEF Promise!PromiseNext, Promise!Restore, Seen
<1>4. CASE Commit(p) \/ CommitFails(p)
  <2>1. /\ at[p].pc = "commit" /\ UNCHANGED <<published, marker, fenced>>
        /\ at' = [at EXCEPT ![p] = Idle] \/ at' = [at EXCEPT ![p].pc = "verify"]
        /\ db' \in {db, "source", "successor"}
    BY <1>4 DEF Commit, CommitFails, FailProtected
  <2>2. db = "journal" /\ published /\ marker /\ p \in Seen
    BY <1>0, <2>1 DEF DatabaseAt, Placed, Marked, Committed, FenceRead, Seen
  <2>3. Moves(p)
    BY <1>0, <2>1, MovesAre
  <2>4. CASE db' = "successor"
    <3>1. Place = "restored" /\ Place' = "committed" /\ Marked'
      BY <2>1, <2>2, <2>4 DEF Place, Committed, Marked
    <3>2. Seen' \in {Seen, Seen \ {p}}
      BY <2>3, MovesSeen
    <3> QED BY <2>1, <2>2, <3>1, <3>2 DEF Promise!PromiseNext, Promise!CommitSuccessor, Seen
  <2>5. CASE db' # "successor"
    BY <1>1, <2>1, <2>2, <2>3, <2>5
  <2> QED BY <2>4, <2>5
<1>5. CASE Complete(p)
  <2>1. /\ UNCHANGED <<published, db, fenced>>
        /\ at' = [at EXCEPT ![p] = Idle] \/ at' = [at EXCEPT ![p].pc = "active"]
        /\ UNCHANGED marker \/ (marker' = FALSE /\ db = "successor"
                                /\ at' = [at EXCEPT ![p].pc = "active"])
    BY <1>5 DEF Complete, FailProtected
  <2>2. Moves(p)
    BY <1>0, <2>1, MovesAre
  <2>3. CASE marker /\ ~marker'
    <3>1. db = "successor" /\ published /\ at' = [at EXCEPT ![p].pc = "active"]
      BY <1>0, <2>1, <2>3 DEF Placed
    <3>2. Place = "committed" /\ Place' = "active" /\ Marked'
      BY <2>1, <2>3, <3>1 DEF Place, Committed, Marked
    <3>3. Seen' = Seen
      BY <1>0, <3>1 DEF AtType, Seen
    <3> QED BY <2>1, <3>2, <3>3 DEF Promise!PromiseNext, Promise!Unseal, Seen
  <2>4. CASE UNCHANGED marker
    BY <1>1, <2>1, <2>2, <2>4
  <2>5. marker \in BOOLEAN
    BY DEF IInv, TypeOK
  <2> QED BY <2>1, <2>3, <2>4, <2>5
<1> QED BY <1>1, <1>2, <1>3, <1>4, <1>5, QuietMoves DEF Step, Failure

\* What happens around a takeover, seen from the promise.
LEMMA AroundPromised ==
    ASSUME IInv, Marked, Use \/ Unfence \/ Refence \/ UNCHANGED vars
    PROVE  Marked' /\ [Promise!PromiseNext]_<<fenced, Seen, Place>>
<1> USE DEF restore, target, bounds, Same
<1>1. CASE Use
  <2>1. UNCHANGED <<published, marker, fenced, at>> /\ db = "successor" /\ db' = "used"
        /\ published /\ ~marker
    BY <1>1 DEF Use, Active
  <2>2. Place = "active" /\ Place' = "used" /\ Marked'
    BY <2>1 DEF Place, Committed, Marked
  <2>3. Seen' = Seen
    BY <2>1 DEF Seen
  <2> QED BY <2>1, <2>2, <2>3 DEF Promise!PromiseNext, Promise!UseIt, Seen
<1>2. CASE Unfence \/ Refence \/ UNCHANGED vars
  <2>1. UNCHANGED <<published, marker, db, at>> /\ (fenced' = ~fenced \/ fenced' = fenced)
    BY <1>2 DEF Unfence, Refence, vars
  <2>2. Place' = Place /\ Marked'
    BY <2>1, PlaceStays DEF Marked, Committed
  <2>3. Seen' = Seen
    BY <2>1 DEF Seen
  <2> QED BY <2>1, <2>2, <2>3 DEF Promise!PromiseNext, Promise!Turn, Seen
<1> QED BY <1>1, <1>2

\* For any number of processes, commands, faults and sources that come back each
\* step is a step of the promise or leaves it alone.
THEOREM TakeoverPromised == Spec => KeepsTakeoverPromise
<1>1. ASSUME Init PROVE Promise!PromiseInit /\ Marked
  <2>1. Seen = {} /\ Place = "absent" /\ fenced = TRUE /\ ~published
    BY <1>1 DEF Init, Seen, Place, Idle
  <2> QED BY <2>1 DEF Promise!PromiseInit, Seen, Marked
<1>2. ASSUME IInv, Marked, [Next]_vars
      PROVE  Marked' /\ [Promise!PromiseNext]_(Promise!promiseVars)
  <2>1. Marked' /\ [Promise!PromiseNext]_<<fenced, Seen, Place>>
    BY <1>2, ProcessPromised, AroundPromised DEF Next
  <2> QED BY <2>1 DEF Promise!promiseVars, Seen
<1> QED BY <1>1, <1>2, IInvHolds, PTL DEF Spec, KeepsTakeoverPromise, Promise!PromiseSpec
=============================================================================
