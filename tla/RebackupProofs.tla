--------------------------- MODULE RebackupProofs ---------------------------
(***************************************************************************)
(* What holds of a rebackup for any number of executors, operations and    *)
(* leases, however they die or fail: types, that there is one stage at     *)
(* most, that an executor removes or fills only the stages of its own      *)
(* operation, and that the owner of a stage survives a line of deaths.     *)
(***************************************************************************)
EXTENDS Rebackup, FiniteSetTheorems, TLAPS

ExecType ==
    [pc : ExecSteps, scope : Scope \cup {NoScope}, lease : Lease, pred : Lease,
     abandoned : BOOLEAN]

\* The steps under the kernel lock.
Inside == {"read", "write", "truncate", "body", "release", "unlock"}

\* Who is inside holds the lock, for a scope; only an abandoned text names a
\* predecessor, which bounds the length of the next.
Entered ==
    \A p \in Proc :
        /\ exec[p].pc \in Inside => holder = p
        /\ exec[p].pc # "idle" => exec[p].scope \in Scope
        /\ exec[p].pred # 0 => exec[p].abandoned

Worked == \A p \in Proc : exec[p].pc # "body" => work[p] = "none"

\* What the one in the body knows of the stages.
Known ==
    \A p \in Proc :
        /\ work[p] \notin {"none", "look"} => final = NoScope
        /\ work[p] = "mkdir" => stages = {}
        /\ work[p] \in {"remove", "copy", "manifest", "publish", "verify", "verified"}
              => \E s \in stages : stages = {s} /\ Mine(p, s)

\* At most one stage, without counting.
AtMostOne ==
    /\ \A s, t \in stages : s = t
    /\ final # NoScope => stages = {}

LInv == LeaseTypeOK /\ Entered
IInv == TypeOK /\ Entered /\ Worked /\ Known /\ AtMostOne

\* The two records keep their types when fields of theirs change.
LEMMA FileTyped ==
    ASSUME file \in FileType, NEW l \in {"empty", "nul", "held", "released"},
           NEW n \in 0 .. 75, NEW b \in BOOLEAN
    PROVE  /\ [file EXCEPT !.life = l, !.size = n] \in FileType
           /\ [file EXCEPT !.nulled = b] \in FileType
           /\ [file EXCEPT !.tail = b, !.size = n] \in FileType
<1>1. [file EXCEPT !.life = l, !.size = n] \in FileType
  BY DEF FileType
<1>2. [file EXCEPT !.nulled = b] \in FileType
  BY DEF FileType
<1>3. [file EXCEPT !.tail = b, !.size = n] \in FileType
  BY DEF FileType
<1> QED BY <1>1, <1>2, <1>3

\* An executor that opens the lock file has a typed record.
LEMMA OutsideTyped ==
    ASSUME NEW step \in ExecSteps, NEW scope \in Scope
    PROVE  [Outside EXCEPT !.pc = step, !.scope = scope] \in ExecType
<1>1. Outside \in ExecType
  BY LeasesAssumption DEF Outside, ExecType, Lease, ExecSteps
<1> QED BY <1>1 DEF ExecType

\* What acquire_kernel_lease does keeps the types and that the lock has one holder.
LEMMA LeaseStep ==
    ASSUME LInv, NEW p \in Proc, Acquiring(p) \/ Releasing(p) \/ Leave(p) \/ Die(p)
    PROVE  LInv'
<1> USE ProcAssumption, LeasesAssumption
<1>1. CASE \E scope \in Scope : Open(p, scope)
  <2>1. PICK scope \in Scope : Open(p, scope)
    BY <1>1
  <2> DEFINE step == IF file.size = 0 THEN "nul" ELSE "lock"
             new == [Outside EXCEPT !.pc = step, !.scope = scope]
  <2>2. exec' = [exec EXCEPT ![p] = new] /\ UNCHANGED <<file, holder, issued>>
    BY <2>1 DEF Open
  <2>3. new \in ExecType
    BY <2>1, OutsideTyped DEF ExecSteps
  <2>4. new.pc \notin Inside /\ new.scope \in Scope /\ new.pred = 0
    BY DEF Inside, Outside
  <2> HIDE DEF new
  <2> QED BY <2>2, <2>3, <2>4 DEF LInv, LeaseTypeOK, Entered, ExecType
<1>2. CASE WriteNul(p)
  <2>1. file' \in FileType
    <3>1. file \in FileType
      BY DEF LInv, LeaseTypeOK
    <3>2. \/ file' = [file EXCEPT !.life = "nul", !.size = 1]
          \/ file' = [file EXCEPT !.nulled = (file.life # "nul")]
      BY <1>2 DEF WriteNul
    <3> DEFINE b == file.life # "nul"
    <3>3. "nul" \in {"empty", "nul", "held", "released"} /\ 1 \in 0 .. 75 /\ b \in BOOLEAN
      OBVIOUS
    <3>4. [file EXCEPT !.life = "nul", !.size = 1] \in FileType
      BY <3>1, <3>3, FileTyped
    <3>5. [file EXCEPT !.nulled = b] \in FileType
      BY <3>1, <3>3, FileTyped
    <3> QED BY <3>2, <3>4, <3>5
  <2>2. (exec' \in [Proc -> ExecType]) /\ Entered'
    BY <1>2 DEF LInv, LeaseTypeOK, ExecType, Entered, WriteNul, Step, ExecSteps, Inside
  <2> QED BY <1>2, <2>1, <2>2 DEF LInv, LeaseTypeOK, ExecType, WriteNul
<1>3. CASE Lock(p)
  BY <1>3 DEF LInv, LeaseTypeOK, Entered, Lock, Step, ExecSteps, Inside, Lease
<1>4. CASE Read(p)
  <2> DEFINE pred == Predecessor(exec[p].scope)
             new == [exec[p] EXCEPT !.pc = "write", !.lease = issued + 1,
                                    !.pred = pred, !.abandoned = Abandoned]
  <2>1. pred \in Lease /\ Abandoned \in BOOLEAN /\ (pred # 0 => Abandoned = TRUE)
    <3>1. file \in FileType
      BY DEF LInv, LeaseTypeOK
    <3>2. Abandoned \in BOOLEAN
      BY <3>1 DEF Abandoned, Readable, FileType
    <3>3. pred \in Lease
      BY <3>1 DEF Predecessor, FileType, Lease
    <3>4. pred # 0 => Readable /\ file.life = "held"
      BY DEF Predecessor
    <3>5. Readable /\ file.life = "held" => Abandoned = TRUE
      BY DEF Abandoned
    <3> QED BY <3>2, <3>3, <3>4, <3>5
  <2>2. /\ exec' = [exec EXCEPT ![p] = new] /\ issued' = issued + 1
        /\ UNCHANGED <<file, holder>> /\ exec[p].pc = "read" /\ issued < MaxLeases
    BY <1>4 DEF Read
  <2>3. exec \in [Proc -> ExecType] /\ issued \in Lease
    BY DEF LInv, LeaseTypeOK, ExecType
  <2>4. issued' \in Lease
    BY <2>2, <2>3 DEF Lease
  <2> HIDE DEF pred
  <2>5. /\ new \in ExecType /\ new.pc = "write" /\ new.scope = exec[p].scope
        /\ new.pred = pred /\ new.abandoned = Abandoned
    BY <2>1, <2>2, <2>3, <2>4 DEF ExecType, ExecSteps
  <2> HIDE DEF new
  <2>6. exec' \in [Proc -> ExecType] /\ exec'[p] = new
        /\ \A q \in Proc : q # p => exec'[q] = exec[q]
    BY <2>2, <2>3, <2>5
  <2>7. LeaseTypeOK'
    BY <2>2, <2>4, <2>6 DEF LInv, LeaseTypeOK, ExecType
  <2>8. Entered'
    BY <2>1, <2>2, <2>5, <2>6 DEF LInv, Entered, Inside
  <2> QED BY <2>7, <2>8 DEF LInv
<1>5. CASE Write(p)
  BY <1>5 DEF LInv, LeaseTypeOK, Entered, Write, Step, TextOf, Length,
     ExecSteps, Inside, Lease, FileType
<1>6. CASE Truncate(p)
  <2> DEFINE size == Length("held", exec[p].pred, exec[p].abandoned)
  <2>1. size \in 0 .. 75
    BY DEF Length
  <2>2. file \in FileType /\ file' = [file EXCEPT !.tail = FALSE, !.size = size]
    BY <1>6 DEF LInv, LeaseTypeOK, Truncate
  <2> HIDE DEF size
  <2>3. file' \in FileType
    BY <2>1, <2>2 DEF FileType
  <2>4. (exec' \in [Proc -> ExecType]) /\ Entered'
    BY <1>6 DEF LInv, LeaseTypeOK, ExecType, Entered, Truncate, Step, ExecSteps, Inside
  <2> QED BY <1>6, <2>3, <2>4 DEF LInv, LeaseTypeOK, ExecType, Truncate
<1>7. CASE Release(p)
  BY <1>7 DEF LInv, LeaseTypeOK, Entered, Release, Step, TextOf, Length,
     ExecSteps, Inside, Lease, FileType
<1>8. CASE Unlock(p)
  BY <1>8 DEF LInv, LeaseTypeOK, Entered, Unlock, Step, ExecSteps, Inside, Lease
<1>9. CASE Leave(p)
  BY <1>9 DEF LInv, LeaseTypeOK, Entered, Leave, Step, ExecSteps, Inside, Lease
<1>10. CASE Die(p)
  BY <1>10 DEF LInv, LeaseTypeOK, Entered, Die, Outside, ExecSteps, Inside, Lease
<1> QED BY <1>1, <1>2, <1>3, <1>4, <1>5, <1>6, <1>7, <1>8, <1>9, <1>10 DEF Acquiring, Releasing

\* The body of a lease is entered without work, and work ends with it.
LEMMA LeaseKeepsRest ==
    ASSUME IInv, NEW p \in Proc, Acquiring(p) \/ Releasing(p),
           UNCHANGED <<stages, final, work>>
    PROVE  Worked' /\ Known' /\ AtMostOne'
<1>1. /\ exec \in [Proc -> ExecType] /\ work[p] = "none"
      /\ \A q \in Proc : q # p => exec'[q] = exec[q]
  BY DEF IInv, TypeOK, LeaseTypeOK, ExecType, Worked, Acquiring, Releasing, Open, WriteNul,
     Lock, Read, Write, Truncate, Release, Unlock, Step
<1>2. Worked'
  BY <1>1 DEF IInv, Worked
<1>3. Known'
  BY <1>1 DEF IInv, Known, Mine, Owner
<1> QED BY <1>2, <1>3 DEF IInv, AtMostOne

\* At the start there is no text, no holder and no stage.
LEMMA InitIInv == Init => IInv
<1> SUFFICES ASSUME Init PROVE IInv
  OBVIOUS
<1> USE ProcAssumption, LeasesAssumption DEF Init, LeaseInit
<1>1. LeaseTypeOK
  <2>1. Empty \in FileType
    BY DEF Empty, FileType, Lease
  <2>2. Outside \in ExecType
    BY DEF Outside, ExecType, Lease, ExecSteps
  <2> QED BY <2>1, <2>2 DEF LeaseTypeOK, ExecType, Lease
<1>2. TypeOK
  BY <1>1 DEF TypeOK, WorkSteps
<1>3. Entered
  BY DEF Entered, Outside, Inside
<1>4. Worked /\ Known /\ AtMostOne
  BY DEF Worked, Known, AtMostOne
<1> QED BY <1>2, <1>3, <1>4 DEF IInv

\* Nobody else has work to do while p is in the body.
LEMMA Alone ==
    ASSUME IInv, NEW p \in Proc, exec[p].pc = "body", NEW q \in Proc, q # p
    PROVE  work[q] = "none" /\ exec[q].pc # "body"
<1>1. holder = p
  BY DEF IInv, Entered, Inside
<1>2. exec[q].pc # "body"
  BY <1>1 DEF IInv, Entered, Inside
<1> QED BY <1>2 DEF IInv, Worked

\* What p's stage being the only one means.
Has(p, ss) == \E s \in ss : ss = {s} /\ Mine(p, s)

\* A step inside the body keeps the invariant when what p knows next is true.
LEMMA GoesKeeps ==
    ASSUME IInv, NEW p \in Proc, exec[p].pc = "body", NEW to \in WorkSteps, Goes(p, to),
           Remember,
           stages' \subseteq Stage, final' \in Scope \cup {NoScope}, AtMostOne',
           to \notin {"none", "look"} => final' = NoScope,
           to = "mkdir" => stages' = {},
           to \in {"remove", "copy", "manifest", "publish", "verify", "verified"}
              => Has(p, stages')
    PROVE  IInv'
<1>1. UNCHANGED leaseVars /\ work' = [work EXCEPT ![p] = to]
  BY DEF Goes
<1>2. LeaseTypeOK' /\ Entered'
  BY <1>1 DEF IInv, TypeOK, leaseVars, LeaseTypeOK, Entered
<1>3. work' \in [Proc -> WorkSteps] /\ work'[p] = to
  BY <1>1 DEF IInv, TypeOK
<1>4. disturbed' \in BOOLEAN
  BY DEF Remember
<1>5. \A q \in Proc : q # p => work'[q] = "none"
  BY <1>1, Alone DEF IInv, TypeOK
<1>6. Worked'
  BY <1>1, <1>5 DEF leaseVars, Worked
<1>7. \A s : Mine(p, s)' <=> Mine(p, s)
  BY <1>1 DEF leaseVars, Mine, Owner
<1>8. Known'
  BY <1>3, <1>5, <1>7 DEF Known, Has
<1> QED BY <1>2, <1>3, <1>4, <1>6, <1>8 DEF IInv, TypeOK

\* Leaving the body does, whatever the stages are left as.
LEMMA ReturnsKeeps ==
    ASSUME IInv, NEW p \in Proc, exec[p].pc = "body", Returns(p), Remember,
           stages' \subseteq Stage, final' \in Scope \cup {NoScope}, AtMostOne'
    PROVE  IInv'
<1>1. Leave(p) /\ work' = [work EXCEPT ![p] = "none"]
  BY DEF Returns
<1>2. LInv'
  BY <1>1, LeaseStep DEF IInv, TypeOK, LInv
<1>3. work' = [q \in Proc |-> "none"]
  BY <1>1, Alone DEF IInv, TypeOK
<1>4. disturbed' \in BOOLEAN
  BY DEF Remember
<1>5. Worked' /\ Known'
  BY <1>3 DEF Worked, Known
<1> QED BY <1>2, <1>3, <1>4, <1>5 DEF LInv, IInv, TypeOK, WorkSteps

\* An executor that dies leaves the stages as they are and the lock free.
LEMMA DiesKeeps ==
    ASSUME IInv, NEW p \in Proc, Dies(p), Remember
    PROVE  IInv'
<1>1. LInv'
  BY LeaseStep DEF Dies, IInv, TypeOK, LInv
<1>2. /\ work' = [work EXCEPT ![p] = "none"] /\ UNCHANGED <<stages, final>>
      /\ exec' = [exec EXCEPT ![p] = Outside]
  BY DEF Dies, Die
<1>3. work' \in [Proc -> WorkSteps] /\ disturbed' \in BOOLEAN
  BY <1>2 DEF IInv, TypeOK, WorkSteps, Remember
<1>4. \A q \in Proc : q # p => work'[q] = work[q] /\ exec'[q] = exec[q]
  BY <1>2 DEF IInv, TypeOK, LeaseTypeOK
<1>5. work'[p] = "none"
  BY <1>2 DEF IInv, TypeOK
<1>6. Worked' /\ Known'
  BY <1>2, <1>4, <1>5 DEF IInv, Worked, Known, Mine, Owner
<1> QED BY <1>1, <1>2, <1>3, <1>6 DEF LInv, IInv, TypeOK, AtMostOne

\* The stage p makes has a type.
LEMMA OwnerTyped ==
    ASSUME IInv, NEW p \in Proc, exec[p].pc = "body"
    PROVE  Owner(p) \in Lease /\ exec[p].scope \in Scope
BY DEF IInv, TypeOK, LeaseTypeOK, Entered, Owner

\* With its stage the only one, p takes all there is.
LEMMA HadAll ==
    ASSUME NEW p, Has(p, stages)
    PROVE  Others(p) = {}
BY DEF Has, Others

\* Past the look and the mkdir, p's own stage is the only one.
LEMMA KnownHas ==
    ASSUME IInv, NEW p \in Proc,
           work[p] \in {"remove", "copy", "manifest", "publish", "verify", "verified"}
    PROVE  Has(p, stages) /\ final = NoScope
BY DEF IInv, Known, Has

\* _existing_rebackup_stage: what p goes on to is true of what it found.
LEMMA LookKeeps ==
    ASSUME IInv, NEW p \in Proc, Look(p), Remember
    PROVE  IInv'
<1>1. exec[p].pc = "body" /\ stages' = stages /\ final' = final
  BY DEF Look, At
<1>2. stages' \subseteq Stage /\ final' \in Scope \cup {NoScope} /\ AtMostOne'
  BY <1>1 DEF IInv, TypeOK, AtMostOne
<1>3. CASE stages = {} /\ final = NoScope /\ Goes(p, "mkdir")
  BY <1>1, <1>2, <1>3, GoesKeeps DEF WorkSteps
<1>4. CASE \E s \in stages : /\ stages = {s} /\ Mine(p, s) /\ final = NoScope
                               /\ Goes(p, Resume(s.state))
  <2>1. PICK s \in stages : /\ stages = {s} /\ Mine(p, s) /\ final = NoScope
                              /\ Goes(p, Resume(s.state))
    BY <1>4
  <2>2. Resume(s.state) \in {"remove", "manifest", "verify"}
    BY DEF Resume, IInv, TypeOK, Stage
  <2>3. Has(p, stages')
    BY <1>1, <2>1 DEF Has
  <2> QED BY <1>1, <1>2, <2>1, <2>2, <2>3, GoesKeeps DEF WorkSteps
<1>5. CASE Returns(p)
  BY <1>1, <1>2, <1>5, ReturnsKeeps
<1> QED BY <1>3, <1>4, <1>5 DEF Look

\* A stage filled by p is its own and still the only one.
LEMMA FillOwn ==
    ASSUME IInv, NEW p \in Proc, Has(p, stages), NEW state \in {"copied", "manifested"},
           Fill(p, state)
    PROVE  stages' \subseteq Stage /\ Has(p, stages') /\ \A s, t \in stages' : s = t
<1>1. PICK s \in stages : stages = {s} /\ Mine(p, s)
  BY DEF Has
<1>2. Others(p) = {} /\ stages \ Others(p) = {s}
  BY <1>1 DEF Others
<1> DEFINE new == [s EXCEPT !.state = state]
<1>3. stages' = {new}
  BY <1>2 DEF Fill
<1>4. new \in Stage /\ Mine(p, new)
  BY <1>1 DEF IInv, TypeOK, Stage, Mine
<1> QED BY <1>3, <1>4 DEF Has

\* Every step of rebackup_verified_offline_migration keeps the invariant.
LEMMA BodyKeeps ==
    ASSUME IInv, NEW p \in Proc, Body(p), Remember
    PROVE  IInv'
<1> USE DEF WorkSteps
<1>1. stages \subseteq Stage /\ final \in Scope \cup {NoScope} /\ AtMostOne
  BY DEF IInv, TypeOK
<1>2. CASE Begin(p)
  <2>1. AtMostOne'
    BY <1>1, <1>2 DEF Begin, AtMostOne
  <2> QED BY <1>1, <1>2, <2>1, GoesKeeps DEF Begin, At
<1>3. CASE Look(p)
  BY <1>3, LookKeeps
<1>4. CASE Remove(p)
  <2>1. exec[p].pc = "body" /\ Goes(p, "mkdir") /\ Has(p, stages) /\ final = NoScope
    BY <1>4, KnownHas DEF Remove, At
  <2>2. stages' = {} /\ final' = NoScope
    BY <1>4, <2>1, HadAll DEF Remove
  <2>3. AtMostOne'
    BY <2>2 DEF AtMostOne
  <2> QED BY <2>1, <2>2, <2>3, GoesKeeps
<1>5. CASE Mkdir(p)
  <2>1. exec[p].pc = "body" /\ Goes(p, "copy") /\ stages = {} /\ final = NoScope
    BY <1>5 DEF Mkdir, At, IInv, Known
  <2> DEFINE new == [scope |-> exec[p].scope, owner |-> Owner(p), state |-> "partial"]
  <2>2. stages' = {new} /\ final' = NoScope
    BY <1>5, <2>1 DEF Mkdir
  <2>3. new \in Stage /\ Mine(p, new)
    BY <2>1, OwnerTyped DEF Stage, Mine
  <2>4. AtMostOne' /\ Has(p, stages') /\ stages' \subseteq Stage
    BY <2>2, <2>3 DEF AtMostOne, Has
  <2> QED BY <2>1, <2>2, <2>4, GoesKeeps
<1>6. CASE Copy(p)
  <2>1. exec[p].pc = "body" /\ Goes(p, "manifest") /\ Has(p, stages) /\ final' = NoScope
    BY <1>6, KnownHas DEF Copy, At
  <2>2. stages' \subseteq Stage /\ Has(p, stages') /\ AtMostOne'
    BY <1>6, <2>1, FillOwn DEF Copy, AtMostOne
  <2> QED BY <2>1, <2>2, GoesKeeps
<1>7. CASE Manifest(p)
  <2>1. exec[p].pc = "body" /\ Goes(p, "publish") /\ Has(p, stages) /\ final' = NoScope
    BY <1>7, KnownHas DEF Manifest, At
  <2>2. stages' \subseteq Stage /\ Has(p, stages') /\ AtMostOne'
    BY <1>7, <2>1, FillOwn DEF Manifest, AtMostOne
  <2> QED BY <2>1, <2>2, GoesKeeps
<1>8. CASE Verify(p)
  <2>1. exec[p].pc = "body" /\ Has(p, stages) /\ final' = NoScope
    BY <1>8, KnownHas DEF Verify, At
  <2>2. CASE UNCHANGED stages /\ Goes(p, "verified")
    <3>1. AtMostOne'
      BY <1>1, <2>1, <2>2 DEF AtMostOne
    <3> QED BY <1>1, <2>1, <2>2, <3>1, GoesKeeps
  <2>3. CASE stages' = Others(p) /\ Goes(p, "mkdir")
    <3>1. stages' = {} /\ AtMostOne'
      BY <2>1, <2>3, HadAll DEF AtMostOne
    <3> QED BY <2>1, <2>3, <3>1, GoesKeeps
  <2> QED BY <1>8, <2>2, <2>3 DEF Verify
<1>9. CASE Publish(p)
  <2>1. exec[p].pc = "body" /\ Returns(p) /\ Has(p, stages) /\ final' = exec[p].scope
    BY <1>9, KnownHas DEF Publish
  <2>2. stages' = {} /\ final' \in Scope
    BY <1>9, <2>1, HadAll, OwnerTyped DEF Publish
  <2>3. AtMostOne'
    BY <2>2 DEF AtMostOne
  <2> QED BY <2>1, <2>2, <2>3, ReturnsKeeps
<1>10. CASE FailKeeping(p) \/ Interrupt(p)
  <2>1. AtMostOne'
    BY <1>1, <1>10 DEF FailKeeping, Interrupt, AtMostOne
  <2> QED BY <1>1, <1>10, <2>1, ReturnsKeeps DEF FailKeeping, Interrupt
<1>11. CASE FailRemoving(p)
  <2>1. stages' \subseteq Stage /\ AtMostOne'
    BY <1>1, <1>11 DEF FailRemoving, Others, AtMostOne
  <2> QED BY <1>1, <1>11, <2>1, ReturnsKeeps DEF FailRemoving
<1> QED BY <1>2, <1>3, <1>4, <1>5, <1>6, <1>7, <1>8, <1>9, <1>10, <1>11 DEF Body

\* So does every step of the system.
LEMMA NextKeepsIInv == IInv /\ [Next]_vars => IInv'
<1> SUFFICES ASSUME IInv, [Next]_vars PROVE IInv'
  OBVIOUS
<1>1. CASE UNCHANGED vars
  BY <1>1 DEF vars, leaseVars, rebackupVars, IInv, TypeOK, LeaseTypeOK, Entered, Worked,
     Known, Mine, Owner, AtMostOne
<1>2. CASE Next
  <2>1. Remember
    BY <1>2 DEF Next
  <2>2. PICK p \in Proc :
           \/ (Acquiring(p) \/ Releasing(p)) /\ UNCHANGED <<stages, final, work>>
           \/ Body(p)
           \/ Dies(p)
    BY <1>2 DEF Next
  <2>3. CASE (Acquiring(p) \/ Releasing(p)) /\ UNCHANGED <<stages, final, work>>
    <3>1. LInv'
      BY <2>3, LeaseStep DEF IInv, TypeOK, LInv
    <3>2. Worked' /\ Known' /\ AtMostOne'
      BY <2>3, LeaseKeepsRest
    <3>3. disturbed' \in BOOLEAN
      BY <2>1 DEF Remember
    <3> QED BY <2>3, <3>1, <3>2, <3>3 DEF IInv, TypeOK, LInv
  <2>4. CASE Body(p)
    BY <2>1, <2>4, BodyKeeps
  <2>5. CASE Dies(p)
    BY <2>1, <2>5, DiesKeeps
  <2> QED BY <2>2, <2>3, <2>4, <2>5
<1> QED BY <1>1, <1>2

\* The invariant holds in every reachable state.
LEMMA IInvHolds == Spec => []IInv
BY InitIInv, NextKeepsIInv, PTL DEF Spec

\* The lock file, the executors and the stages keep their types.
THEOREM TypesHold == Spec => []TypeOK
<1>1. IInv => TypeOK
  BY DEF IInv
<1> QED BY <1>1, IInvHolds, PTL

\* Whatever dies, fails or collides, at any number of executors, operations and
\* leases, there is at most one stage directory, and none beside a published
\* backup: _existing_rebackup_stage never meets two.
THEOREM OneStageHolds == Spec => []OneStage
<1>1. IInv => OneStage
  <2> SUFFICES ASSUME IInv PROVE OneStage
    OBVIOUS
  <2>1. CASE stages = {}
    BY <2>1, FS_EmptySet DEF OneStage
  <2>2. CASE stages # {}
    <3>1. PICK s : stages = {s}
      BY <2>2 DEF IInv, AtMostOne
    <3>2. Cardinality(stages) = 1
      BY <3>1, FS_Singleton
    <3> QED BY <3>1, <3>2 DEF IInv, AtMostOne, OneStage
  <2> QED BY <2>1, <2>2
<1> QED BY <1>1, IInvHolds, PTL

\* No step removes, fills or publishes a stage but one of the holder of the lock,
\* working for the operation the stage belongs to.
THEOREM ForeignStagesUntouched == Spec => ForeignUntouched
<1> DEFINE Safe == \A s \in stages \ stages' : exec[holder].scope = s.scope
<1>1. IInv /\ [Next]_vars => Safe
  <2> SUFFICES ASSUME IInv, [Next]_vars, NEW s \in stages \ stages'
               PROVE  exec[holder].scope = s.scope
    OBVIOUS
  <2>1. PICK p \in Proc : Body(p) /\ stages' # stages
    BY DEF Next, Dies, vars, rebackupVars
  <2>2. exec[p].pc = "body"
    BY <2>1 DEF Body, Begin, Look, Remove, Mkdir, Copy, Manifest, Verify, Publish,
       FailKeeping, FailRemoving, Interrupt, At
  <2>3. holder = p
    BY <2>2 DEF IInv, Entered, Inside
  <2>4. Others(p) \subseteq stages'
    BY <2>1 DEF Body, Begin, Look, Remove, Mkdir, Copy, Manifest, Verify, Publish,
       FailKeeping, FailRemoving, Interrupt, Fill, Others
  <2>5. Mine(p, s)
    BY <2>4 DEF Others
  <2> QED BY <2>3, <2>5 DEF Mine
<1>2. IInv /\ [Next]_vars => [Safe]_vars
  BY <1>1
<1> QED BY <1>2, IInvHolds, PTL DEF Spec, ForeignUntouched
-----------------------------------------------------------------------------
(* The line of owners. *)

Written == file.life \in {"held", "released"}

\* Whom the text in the file names to an heir of its scope.
LineOwner == IF file.abandoned /\ file.pred # 0 THEN file.pred ELSE file.lease

\* The text tells its own length, and names a predecessor only of an abandoned
\* lease: so the text of a first owner, whose predecessor is null, is the shorter,
\* those of its heirs are as long as one another, and a heir's covers the old one.
Sound ==
    /\ file.size = 0 <=> file.life = "empty"
    /\ file.pred # 0 => file.abandoned
    /\ Written => file.lease # 0
    /\ Written /\ ~file.tail => file.size = Length(file.life, file.pred, file.abandoned)

\* The file has the text of p's lease.
HasText(p) ==
    /\ file.life = "held"
    /\ file.lease = exec[p].lease
    /\ file.scope = exec[p].scope
    /\ file.pred = exec[p].pred
    /\ file.abandoned = exec[p].abandoned

\* From the write to the release the file has the holder's text, and from the
\* truncation on nothing but it.
Texts ==
    \A p \in Proc :
        /\ exec[p].pc \in {"write", "truncate", "body", "release"} => exec[p].lease # 0
        /\ exec[p].pc \in {"truncate", "body", "release"} => HasText(p)
        /\ exec[p].pc \in {"body", "release"} => ~file.tail

\* While executors only die, a stage stands beside a readable text of its scope
\* that names its owner, and an heir of the scope has read just that.
Lined ==
    ~disturbed =>
      /\ ~file.nulled
      /\ \A s \in stages :
           /\ file.life = "held" /\ ~file.tail
           /\ s.scope = file.scope /\ s.owner = LineOwner
           /\ \A p \in Proc :
                exec[p].pc = "write" /\ exec[p].scope = file.scope
                   => exec[p].abandoned /\ exec[p].pred = s.owner /\ s.owner # 0

OwnerInv == IInv /\ Sound /\ Texts /\ Lined

\* Only the holder of the lock is past it.
LEMMA OneInside ==
    ASSUME IInv, NEW p \in Proc, exec[p].pc \in Inside, NEW q \in Proc, q # p
    PROVE  exec[q].pc \notin Inside
BY DEF IInv, Entered

\* Lengths are those of JSON texts: never zero.
LEMMA LengthPositive ==
    ASSUME NEW life, NEW pred, NEW abandoned
    PROVE  Length(life, pred, abandoned) \in Nat /\ Length(life, pred, abandoned) >= 10
BY DEF Length

\* An heir's text is at least as long as that of any lease.
LEMMA HeirCovers ==
    ASSUME NEW pred, NEW abandoned \in BOOLEAN, pred # 0 => abandoned, NEW heir, heir # 0
    PROVE  Length("held", pred, abandoned) <= Length("held", heir, TRUE)
BY DEF Length

\* The size of the file after a write: the longer of two.
LEMMA LongerOfTwo ==
    ASSUME NEW m \in Nat, NEW n \in Nat, n >= 10, NEW r, r = IF m > n THEN m ELSE n
    PROVE  (m > n \/ r = n) /\ r >= 10
OBVIOUS

\* A text that is covered is not the longer one.
LEMMA NotLonger ==
    ASSUME NEW m \in Nat, NEW n \in Nat, m <= n
    PROVE  ~(m > n)
OBVIOUS

\* The text that is written is p's, and it may leave a tail of the old one.
LEMMA TextWritten ==
    ASSUME IInv, NEW p \in Proc, NEW life \in {"held", "released"}, file' = TextOf(p, life)
    PROVE  /\ file'.life = life /\ file'.lease = exec[p].lease
           /\ file'.scope = exec[p].scope /\ file'.pred = exec[p].pred
           /\ file'.abandoned = exec[p].abandoned /\ ~file'.nulled
           /\ file'.tail = (file.size > Length(life, exec[p].pred, exec[p].abandoned))
           /\ ~file'.tail => file'.size = Length(life, exec[p].pred, exec[p].abandoned)
           /\ file'.size >= 10
<1>1. file.size \in Nat
  BY DEF IInv, TypeOK, LeaseTypeOK, FileType
<1> DEFINE size == Length(life, exec[p].pred, exec[p].abandoned)
<1>2. size \in Nat /\ size >= 10
  BY LengthPositive
<1> HIDE DEF size
<1>3. file' = [life |-> life, lease |-> exec[p].lease, scope |-> exec[p].scope,
               pred |-> exec[p].pred, abandoned |-> exec[p].abandoned, nulled |-> FALSE,
               tail |-> file.size > size,
               size |-> IF file.size > size THEN file.size ELSE size]
  BY DEF TextOf, size
<1>4. file'.tail = (file.size > size)
  BY <1>3
<1>5. file'.size = IF file.size > size THEN file.size ELSE size
  BY <1>3
<1>6. (file.size > size \/ file'.size = size) /\ file'.size >= 10
  BY <1>1, <1>2, <1>5, LongerOfTwo
<1>7. ~file'.tail => file'.size = size
  BY <1>4, <1>6
<1> QED BY <1>3, <1>4, <1>6, <1>7 DEF size

\* A step that leaves the file alone and enters no later step of the lease but
\* with its lease keeps what the texts say.
LEMMA SameFile ==
    ASSUME OwnerInv, NEW p \in Proc, file' = file,
           \A q \in Proc : q # p => exec'[q] = exec[q],
           exec'[p].pc \in {"write", "truncate", "body", "release"} => exec'[p].lease # 0,
           exec'[p].pc \in {"truncate", "body", "release"} =>
              /\ exec[p].pc \in {"truncate", "body", "release"}
              /\ exec'[p].lease = exec[p].lease /\ exec'[p].scope = exec[p].scope
              /\ exec'[p].pred = exec[p].pred /\ exec'[p].abandoned = exec[p].abandoned,
           exec'[p].pc \in {"body", "release"} => exec[p].pc \in {"body", "release"}
    PROVE  Sound' /\ Texts'
<1>1. Sound'
  BY DEF OwnerInv, Sound, Written
<1>2. Texts'
  BY DEF OwnerInv, Texts, HasText
<1> QED BY <1>1, <1>2

\* A late first byte changes no field a text is read by but the one that spoils it.
LEMMA NulKeepsText ==
    ASSUME OwnerInv, NEW p \in Proc, WriteNul(p)
    PROVE  Sound' /\ Texts'
<1> USE DEF OwnerInv
<1>1. file \in FileType /\ exec \in [Proc -> ExecType]
  BY DEF IInv, TypeOK, LeaseTypeOK, ExecType
<1>2. exec' = [exec EXCEPT ![p].pc = "lock"] /\ exec[p].pc = "nul"
  BY DEF WriteNul, Step
<1>3. CASE file.size = 0
  <2>1. file' = [file EXCEPT !.life = "nul", !.size = 1] /\ file.life = "empty"
    BY <1>3 DEF WriteNul, Sound
  <2>2. file'.life = "nul" /\ file'.size = 1 /\ file'.pred = file.pred
        /\ file'.abandoned = file.abandoned
    BY <1>1, <2>1 DEF FileType
  <2>3. Sound'
    BY <2>2 DEF Sound, Written
  <2>4. Texts'
    BY <1>1, <1>2, <2>1 DEF Texts, HasText, ExecType
  <2> QED BY <2>3, <2>4
<1>4. CASE file.size # 0
  <2>1. file' = [file EXCEPT !.nulled = (file.life # "nul")]
    BY <1>4 DEF WriteNul
  <2>2. /\ file'.life = file.life /\ file'.size = file.size /\ file'.pred = file.pred
        /\ file'.abandoned = file.abandoned /\ file'.lease = file.lease
        /\ file'.scope = file.scope /\ file'.tail = file.tail
    BY <1>1, <2>1 DEF FileType
  <2>3. Sound'
    BY <2>2 DEF Sound, Written
  <2>4. Texts'
    BY <1>1, <1>2, <2>2 DEF Texts, HasText, ExecType
  <2> QED BY <2>3, <2>4
<1> QED BY <1>3, <1>4

\* The holder's text takes the place of the last one.
LEMMA WriteKeepsText ==
    ASSUME OwnerInv, NEW p \in Proc, Write(p)
    PROVE  Sound' /\ Texts'
<1> USE DEF OwnerInv
<1>1. exec \in [Proc -> ExecType] /\ exec[p].pc = "write"
      /\ exec' = [exec EXCEPT ![p].pc = "truncate"]
  BY DEF IInv, TypeOK, LeaseTypeOK, ExecType, Write, Step
<1>2. /\ exec'[p] = [exec[p] EXCEPT !.pc = "truncate"]
      /\ \A q \in Proc : q # p => exec'[q] = exec[q]
  BY <1>1
<1>3. /\ exec'[p].pc = "truncate" /\ exec'[p].lease = exec[p].lease
      /\ exec'[p].scope = exec[p].scope /\ exec'[p].pred = exec[p].pred
      /\ exec'[p].abandoned = exec[p].abandoned
  BY <1>1, <1>2 DEF ExecType
<1>4. file' = TextOf(p, "held")
  BY DEF Write
<1>5. exec[p].lease # 0 /\ (exec[p].pred # 0 => exec[p].abandoned)
  BY <1>1 DEF Texts, IInv, Entered
<1>6. /\ file'.life = "held" /\ file'.lease = exec[p].lease
      /\ file'.scope = exec[p].scope /\ file'.pred = exec[p].pred
      /\ file'.abandoned = exec[p].abandoned
      /\ ~file'.tail => file'.size = Length("held", exec[p].pred, exec[p].abandoned)
      /\ file'.size >= 10
  BY <1>4, TextWritten
<1>7. Sound'
  BY <1>5, <1>6 DEF Sound, Written
<1>8. \A q \in Proc : q # p => exec'[q].pc \notin {"write", "truncate", "body", "release"}
  BY <1>1, <1>2, OneInside DEF Inside
<1>9. Texts'
  BY <1>3, <1>5, <1>6, <1>8 DEF Texts, HasText
<1> QED BY <1>7, <1>9

\* The truncation leaves the text alone and takes its tail away.
LEMMA TruncateKeepsText ==
    ASSUME OwnerInv, NEW p \in Proc, Truncate(p)
    PROVE  /\ Sound' /\ Texts' /\ ~file'.tail
           /\ file'.life = file.life /\ file'.lease = file.lease /\ file'.scope = file.scope
           /\ file'.pred = file.pred /\ file'.abandoned = file.abandoned
<1> USE DEF OwnerInv
<1>1. file \in FileType /\ exec \in [Proc -> ExecType] /\ exec[p].pc = "truncate"
      /\ exec' = [exec EXCEPT ![p].pc = "body"]
  BY DEF IInv, TypeOK, LeaseTypeOK, ExecType, Truncate, Step
<1>2. /\ exec'[p] = [exec[p] EXCEPT !.pc = "body"]
      /\ \A q \in Proc : q # p => exec'[q] = exec[q]
  BY <1>1
<1>3. /\ exec'[p].pc = "body" /\ exec'[p].lease = exec[p].lease
      /\ exec'[p].scope = exec[p].scope /\ exec'[p].pred = exec[p].pred
      /\ exec'[p].abandoned = exec[p].abandoned
  BY <1>1, <1>2 DEF ExecType
<1> DEFINE size == Length("held", exec[p].pred, exec[p].abandoned)
<1>4. size \in Nat /\ size >= 10
  BY LengthPositive
<1>5. file' = [file EXCEPT !.tail = FALSE, !.size = size]
  BY DEF Truncate
<1>6. exec[p].lease # 0 /\ HasText(p)
  BY <1>1 DEF Texts
<1> HIDE DEF size
<1>7. /\ ~file'.tail /\ file'.size = size
      /\ file'.life = file.life /\ file'.lease = file.lease /\ file'.scope = file.scope
      /\ file'.pred = file.pred /\ file'.abandoned = file.abandoned
  BY <1>1, <1>5 DEF FileType
<1>8. file'.size = Length(file'.life, file'.pred, file'.abandoned)
  BY <1>6, <1>7 DEF size, HasText
<1>9. Sound'
  BY <1>4, <1>6, <1>7, <1>8 DEF Sound, Written, HasText
<1>10. \A q \in Proc : q # p => exec'[q].pc \notin {"write", "truncate", "body", "release"}
  BY <1>1, <1>2, OneInside DEF Inside
<1>11. Texts'
  BY <1>3, <1>6, <1>7, <1>10 DEF Texts, HasText
<1> QED BY <1>7, <1>9, <1>11

\* A release is written over the holder's own text.
LEMMA ReleaseKeepsText ==
    ASSUME OwnerInv, NEW p \in Proc, Release(p)
    PROVE  Sound' /\ Texts'
<1> USE DEF OwnerInv
<1>1. exec \in [Proc -> ExecType] /\ exec[p].pc = "release"
      /\ exec' = [exec EXCEPT ![p].pc = "unlock"]
  BY DEF IInv, TypeOK, LeaseTypeOK, ExecType, Release, Step
<1>2. exec'[p].pc = "unlock" /\ \A q \in Proc : q # p => exec'[q] = exec[q]
  BY <1>1 DEF ExecType
<1>3. file' = TextOf(p, "released")
  BY DEF Release
<1>4. exec[p].lease # 0 /\ (exec[p].pred # 0 => exec[p].abandoned)
  BY <1>1 DEF Texts, IInv, Entered
<1>5. /\ file'.life = "released" /\ file'.lease = exec[p].lease /\ file'.pred = exec[p].pred
      /\ file'.abandoned = exec[p].abandoned
      /\ ~file'.tail => file'.size = Length("released", exec[p].pred, exec[p].abandoned)
      /\ file'.size >= 10
  BY <1>3, TextWritten
<1>6. Sound'
  BY <1>4, <1>5 DEF Sound, Written
<1>7. \A q \in Proc : q # p => exec'[q].pc \notin {"write", "truncate", "body", "release"}
  BY <1>1, <1>2, OneInside DEF Inside
<1>8. Texts'
  BY <1>2, <1>7 DEF Texts
<1> QED BY <1>6, <1>8

\* What the history remembers: the line of owners is as it was, and the step has
\* not disturbed it.
LEMMA Undisturbed ==
    ASSUME Remember, ~disturbed', OwnerInv
    PROVE  /\ ~disturbed /\ ~file.nulled /\ ~file'.nulled
           /\ \A s \in stages' : file'.life # "released"
           /\ \A s \in stages' : file'.life = "held" => file'.scope = s.scope
BY DEF Remember, Disturbing, OwnerInv, Lined

\* Stages that keep scope and owner, beside a file that stays, stay in line when
\* nobody has come to the write.
LEMMA SameLine ==
    ASSUME OwnerInv, Remember, file' = file,
           \A q \in Proc : exec'[q].pc = "write" => exec'[q] = exec[q],
           \A t \in stages' : \E s \in stages : t.scope = s.scope /\ t.owner = s.owner
    PROVE  Lined'
<1> SUFFICES ASSUME ~disturbed' PROVE Lined'
  BY DEF Lined
<1>1. ~disturbed /\ ~file'.nulled
  BY Undisturbed
<1>2. LineOwner' = LineOwner
  BY DEF LineOwner
<1> QED BY <1>1, <1>2 DEF OwnerInv, Lined

\* A late first byte is written where no stage is, or disturbs.
LEMMA NulKeepsLine ==
    ASSUME OwnerInv, Remember, NEW p \in Proc, WriteNul(p), stages' = stages
    PROVE  Lined'
<1> SUFFICES ASSUME ~disturbed', NEW s \in stages PROVE FALSE
  BY Undisturbed DEF Lined
<1>1. ~disturbed /\ ~file'.nulled
  BY Undisturbed
<1>2. file.life = "held"
  BY <1>1 DEF OwnerInv, Lined
<1>3. file.size # 0 /\ file \in FileType
  BY <1>2 DEF OwnerInv, Sound, IInv, TypeOK, LeaseTypeOK
<1>4. file' = [file EXCEPT !.nulled = (file.life # "nul")]
  BY <1>3 DEF WriteNul
<1>5. file'.nulled = TRUE
  BY <1>2, <1>3, <1>4 DEF FileType
<1> QED BY <1>1, <1>5

\* Beside a stage the file is readable, and an heir of its scope reads its owner.
LEMMA ReadKeepsLine ==
    ASSUME OwnerInv, Remember, NEW p \in Proc, Read(p), stages' = stages
    PROVE  Lined'
<1> SUFFICES ASSUME ~disturbed' PROVE Lined'
  BY DEF Lined
<1> USE DEF OwnerInv
<1>1. ~disturbed /\ ~file'.nulled
  BY Undisturbed
<1>2. exec \in [Proc -> ExecType] /\ file' = file
  BY DEF IInv, TypeOK, LeaseTypeOK, ExecType, Read
<1> DEFINE new == [exec[p] EXCEPT !.pc = "write", !.lease = issued + 1,
                                  !.pred = Predecessor(exec[p].scope), !.abandoned = Abandoned]
<1>3. exec' = [exec EXCEPT ![p] = new]
  BY DEF Read
<1>4. /\ new.scope = exec[p].scope /\ new.pred = Predecessor(exec[p].scope)
      /\ new.abandoned = Abandoned
  BY <1>2 DEF ExecType
<1> HIDE DEF new
<1>5. exec'[p] = new /\ \A q \in Proc : q # p => exec'[q] = exec[q]
  BY <1>2, <1>3
<1>6. LineOwner' = LineOwner
  BY <1>2 DEF LineOwner
<1>7. ASSUME NEW s \in stages, exec'[p].scope = file'.scope
      PROVE  exec'[p].abandoned /\ exec'[p].pred = s.owner /\ s.owner # 0
  <2>1. /\ file.life = "held" /\ ~file.tail /\ ~file.nulled
        /\ s.scope = file.scope /\ s.owner = LineOwner
    BY <1>1 DEF Lined
  <2>2. Readable
    BY <2>1 DEF Readable
  <2>3. Abandoned = TRUE
    BY <2>1, <2>2 DEF Abandoned
  <2>4. exec[p].scope = file.scope
    BY <1>2, <1>4, <1>5, <1>7
  <2>5. Predecessor(exec[p].scope) = LineOwner
    BY <2>1, <2>2, <2>4 DEF Predecessor, LineOwner
  <2>6. LineOwner # 0
    BY <2>1 DEF LineOwner, Sound, Written
  <2> QED BY <1>4, <1>5, <2>1, <2>3, <2>5, <2>6
<1> QED BY <1>1, <1>2, <1>5, <1>6, <1>7 DEF Lined

\* An heir of another scope disturbs.  One of the scope writes the owner down, in
\* a text that covers the old one: a death before the truncation costs nothing.
LEMMA WriteKeepsLine ==
    ASSUME OwnerInv, Remember, NEW p \in Proc, Write(p), stages' = stages
    PROVE  Lined'
<1> SUFFICES ASSUME ~disturbed' PROVE Lined'
  BY DEF Lined
<1> USE DEF OwnerInv
<1>1. /\ ~disturbed /\ ~file'.nulled
      /\ \A s \in stages : file'.life = "held" => file'.scope = s.scope
  BY Undisturbed
<1>2. exec \in [Proc -> ExecType] /\ exec[p].pc = "write"
      /\ exec' = [exec EXCEPT ![p].pc = "truncate"]
  BY DEF IInv, TypeOK, LeaseTypeOK, ExecType, Write, Step
<1>3. exec'[p].pc = "truncate" /\ \A q \in Proc : q # p => exec'[q] = exec[q]
  BY <1>2 DEF ExecType
<1>4. \A q \in Proc : exec'[q].pc # "write"
  BY <1>2, <1>3, OneInside DEF Inside
<1>5. file' = TextOf(p, "held")
  BY DEF Write
<1>6. /\ file'.life = "held" /\ file'.scope = exec[p].scope
      /\ file'.pred = exec[p].pred /\ file'.abandoned = exec[p].abandoned
      /\ file'.tail = (file.size > Length("held", exec[p].pred, exec[p].abandoned))
  BY <1>5, TextWritten
<1>7. ASSUME NEW s \in stages
      PROVE  ~file'.tail /\ s.scope = file'.scope /\ s.owner = LineOwner'
  <2>1. file.life = "held" /\ ~file.tail /\ s.scope = file.scope
    BY <1>1 DEF Lined
  <2>2. exec[p].scope = file.scope
    BY <1>1, <1>6, <2>1
  <2>3. exec[p].abandoned = TRUE /\ exec[p].pred = s.owner /\ s.owner # 0
    BY <1>1, <1>2, <2>2 DEF Lined, ExecType
  <2>4. s.owner = LineOwner'
    BY <1>6, <2>3 DEF LineOwner
  <2>5. file.size = Length("held", file.pred, file.abandoned)
    BY <2>1 DEF Sound, Written
  <2>6. file.abandoned \in BOOLEAN /\ (file.pred # 0 => file.abandoned)
    BY DEF Sound, IInv, TypeOK, LeaseTypeOK, FileType
  <2>7. Length("held", file.pred, file.abandoned) <= Length("held", exec[p].pred, TRUE)
    BY <2>3, <2>6, HeirCovers
  <2>8. /\ Length("held", file.pred, file.abandoned) \in Nat
        /\ Length("held", exec[p].pred, TRUE) \in Nat
    BY LengthPositive
  <2>9. ~(Length("held", file.pred, file.abandoned) > Length("held", exec[p].pred, TRUE))
    BY <2>7, <2>8, NotLonger
  <2>10. ~(file.size > Length("held", exec[p].pred, exec[p].abandoned))
    BY <2>3, <2>5, <2>9
  <2> QED BY <1>6, <2>1, <2>2, <2>4, <2>10
<1> QED BY <1>1, <1>4, <1>6, <1>7 DEF Lined

\* The truncation changes nothing the line is read from.
LEMMA TruncateKeepsLine ==
    ASSUME OwnerInv, Remember, NEW p \in Proc, Truncate(p), stages' = stages
    PROVE  Lined'
<1> SUFFICES ASSUME ~disturbed' PROVE Lined'
  BY DEF Lined
<1>1. ~disturbed /\ ~file'.nulled
  BY Undisturbed
<1>2. /\ ~file'.tail /\ file'.life = file.life /\ file'.lease = file.lease
      /\ file'.scope = file.scope /\ file'.pred = file.pred /\ file'.abandoned = file.abandoned
  BY TruncateKeepsText
<1>3. \A q \in Proc : exec'[q].pc = "write" => exec'[q] = exec[q]
  BY DEF OwnerInv, IInv, TypeOK, LeaseTypeOK, Truncate, Step
<1>4. LineOwner' = LineOwner
  BY <1>2 DEF LineOwner
<1> QED BY <1>1, <1>2, <1>3, <1>4 DEF OwnerInv, Lined

\* What acquire_kernel_lease does keeps texts and line.
LEMMA LeaseKeepsOwners ==
    ASSUME OwnerInv, Remember, NEW p \in Proc, Acquiring(p) \/ Releasing(p), stages' = stages
    PROVE  Sound' /\ Texts' /\ Lined'
<1>1. exec \in [Proc -> ExecType] /\ issued \in Nat
  BY DEF OwnerInv, IInv, TypeOK, LeaseTypeOK, ExecType, Lease
<1>2. CASE \E scope \in Scope : Open(p, scope)
  <2>1. /\ file' = file /\ exec'[p].pc \in {"nul", "lock"}
        /\ \A q \in Proc : q # p => exec'[q] = exec[q]
    BY <1>1, <1>2 DEF Open, Outside
  <2> QED BY <2>1, SameFile, SameLine
<1>3. CASE WriteNul(p)
  BY <1>3, NulKeepsText, NulKeepsLine
<1>4. CASE Lock(p)
  <2>1. /\ file' = file /\ exec'[p].pc \in {"read", "idle"}
        /\ \A q \in Proc : q # p => exec'[q] = exec[q]
    BY <1>1, <1>4 DEF Lock, Step, ExecType
  <2> QED BY <2>1, SameFile, SameLine
<1>5. CASE Read(p)
  <2>1. /\ file' = file /\ exec'[p].pc = "write" /\ exec'[p].lease = issued + 1
        /\ \A q \in Proc : q # p => exec'[q] = exec[q]
    BY <1>1, <1>5 DEF Read, ExecType
  <2>2. exec'[p].lease # 0
    BY <1>1, <2>1
  <2> QED BY <1>5, <2>1, <2>2, SameFile, ReadKeepsLine
<1>6. CASE Write(p)
  BY <1>6, WriteKeepsText, WriteKeepsLine
<1>7. CASE Truncate(p)
  BY <1>7, TruncateKeepsText, TruncateKeepsLine
<1>8. CASE Release(p)
  <2>1. file'.life = "released"
    BY <1>8, TextWritten DEF Release, OwnerInv
  <2>2. ~disturbed' => stages = {}
    BY <2>1, Undisturbed
  <2>3. Lined'
    BY <2>2, Undisturbed DEF Lined
  <2> QED BY <1>8, <2>3, ReleaseKeepsText
<1>9. CASE Unlock(p)
  <2>1. /\ file' = file /\ exec'[p].pc = "idle"
        /\ \A q \in Proc : q # p => exec'[q] = exec[q]
    BY <1>1, <1>9 DEF Unlock, Step, ExecType
  <2> QED BY <2>1, SameFile, SameLine
<1> QED BY <1>2, <1>3, <1>4, <1>5, <1>6, <1>7, <1>8, <1>9 DEF Acquiring, Releasing

\* A step of the body leaves the text alone, and p is at the release or still there.
LEMMA BodyExec ==
    ASSUME OwnerInv, NEW p \in Proc, Body(p)
    PROVE  /\ file' = file /\ exec[p].pc = "body" /\ exec'[p].pc \in {"body", "release"}
           /\ exec'[p].lease = exec[p].lease /\ exec'[p].scope = exec[p].scope
           /\ exec'[p].pred = exec[p].pred /\ exec'[p].abandoned = exec[p].abandoned
           /\ \A q \in Proc : q # p => exec'[q] = exec[q]
<1>1. exec \in [Proc -> ExecType]
  BY DEF OwnerInv, IInv, TypeOK, LeaseTypeOK, ExecType
<1>2. exec[p].pc = "body" /\ (UNCHANGED leaseVars \/ Leave(p))
  BY DEF Body, Begin, Look, Remove, Mkdir, Copy, Manifest, Verify, Publish,
     FailKeeping, FailRemoving, Interrupt, At, Goes, Returns
<1>3. CASE UNCHANGED leaseVars
  BY <1>2, <1>3 DEF leaseVars
<1>4. CASE Leave(p)
  BY <1>1, <1>4 DEF Leave, Step, ExecType
<1> QED BY <1>2, <1>3, <1>4

\* A step of the body makes no stage but in mkdir, and renames none.
LEMMA BodyStages ==
    ASSUME OwnerInv, NEW p \in Proc, Body(p), ~Mkdir(p)
    PROVE  \A t \in stages' : \E s \in stages : t.scope = s.scope /\ t.owner = s.owner
<1>1. stages \subseteq Stage
  BY DEF OwnerInv, IInv, TypeOK
<1>2. CASE stages' \subseteq stages
  BY <1>2
<1>3. CASE \E state \in {"copied", "manifested"} : Fill(p, state)
  BY <1>1, <1>3 DEF Fill, Others, Stage
<1>4. \/ stages' \subseteq stages
      \/ \E state \in {"copied", "manifested"} : Fill(p, state)
  BY DEF Body, Begin, Look, Remove, Copy, Manifest, Verify, Publish, FailKeeping,
     FailRemoving, Interrupt, Others
<1> QED BY <1>2, <1>3, <1>4

\* The body keeps texts and line: a stage is made for the owner the holder's own
\* text names.
LEMMA BodyKeepsOwners ==
    ASSUME OwnerInv, Remember, NEW p \in Proc, Body(p)
    PROVE  Sound' /\ Texts' /\ Lined'
<1>1. /\ file' = file /\ exec[p].pc = "body" /\ exec'[p].pc \in {"body", "release"}
      /\ exec'[p].lease = exec[p].lease /\ exec'[p].scope = exec[p].scope
      /\ exec'[p].pred = exec[p].pred /\ exec'[p].abandoned = exec[p].abandoned
      /\ \A q \in Proc : q # p => exec'[q] = exec[q]
  BY BodyExec
<1>2. exec[p].lease # 0 /\ HasText(p) /\ ~file.tail
  BY <1>1 DEF OwnerInv, Texts
<1>3. Sound' /\ Texts'
  BY <1>1, <1>2, SameFile
<1>4. CASE ~Mkdir(p)
  <2>1. \A q \in Proc : exec'[q].pc = "write" => exec'[q] = exec[q]
    BY <1>1
  <2>2. \A t \in stages' : \E s \in stages : t.scope = s.scope /\ t.owner = s.owner
    BY <1>4, BodyStages
  <2>3. file' = file
    BY <1>1
  <2> QED BY <1>3, <2>1, <2>2, <2>3, SameLine
<1>5. CASE Mkdir(p)
  <2> SUFFICES ASSUME ~disturbed' PROVE Lined'
    BY <1>3 DEF Lined
  <2>1. ~disturbed /\ ~file'.nulled
    BY Undisturbed
  <2>2. stages = {}
    BY <1>5 DEF Mkdir, At, OwnerInv, IInv, Known
  <2>3. stages' = {[scope |-> exec[p].scope, owner |-> Owner(p), state |-> "partial"]}
    BY <1>5, <2>2 DEF Mkdir
  <2>4. LineOwner' = Owner(p) /\ file'.scope = exec[p].scope /\ file'.life = "held"
    BY <1>1, <1>2 DEF LineOwner, Owner, HasText
  <2>5. \A q \in Proc : exec'[q].pc # "write"
    BY <1>1, OneInside DEF OwnerInv, Inside
  <2> QED BY <1>1, <1>2, <2>1, <2>3, <2>4, <2>5 DEF Lined
<1> QED BY <1>3, <1>4, <1>5

\* A death leaves file and stages as they are.
LEMMA DiesKeepsOwners ==
    ASSUME OwnerInv, Remember, NEW p \in Proc, Dies(p)
    PROVE  Sound' /\ Texts' /\ Lined'
<1>1. /\ file' = file /\ stages' = stages /\ exec'[p].pc = "idle"
      /\ \A q \in Proc : q # p => exec'[q] = exec[q]
  BY DEF Dies, Die, Outside, OwnerInv, IInv, TypeOK, LeaseTypeOK
<1> QED BY <1>1, SameFile, SameLine

\* At the start the file is empty.
LEMMA InitOwners == Init => OwnerInv
<1> SUFFICES ASSUME Init PROVE OwnerInv
  OBVIOUS
<1>1. IInv
  BY InitIInv
<1>2. Sound /\ Texts /\ Lined
  BY DEF Init, LeaseInit, Empty, Outside, Sound, Written, Texts, Lined
<1> QED BY <1>1, <1>2 DEF OwnerInv

\* Every step keeps the texts and the line.
LEMMA NextKeepsOwners == OwnerInv /\ [Next]_vars => OwnerInv'
<1> SUFFICES ASSUME OwnerInv, [Next]_vars PROVE OwnerInv'
  OBVIOUS
<1>1. IInv'
  BY NextKeepsIInv DEF OwnerInv
<1>2. CASE UNCHANGED vars
  BY <1>1, <1>2 DEF vars, leaseVars, rebackupVars, OwnerInv, Sound, Written, Texts, HasText,
     Lined, LineOwner
<1>3. CASE Next
  <2>1. Remember
    BY <1>3 DEF Next
  <2>2. PICK p \in Proc :
           \/ (Acquiring(p) \/ Releasing(p)) /\ UNCHANGED <<stages, final, work>>
           \/ Body(p)
           \/ Dies(p)
    BY <1>3 DEF Next
  <2>3. Sound' /\ Texts' /\ Lined'
    BY <2>1, <2>2, LeaseKeepsOwners, BodyKeepsOwners, DiesKeepsOwners
  <2> QED BY <1>1, <2>3 DEF OwnerInv
<1> QED BY <1>2, <1>3

\* The invariant of the line holds in every reachable state.
LEMMA OwnerInvHolds == Spec => []OwnerInv
BY InitOwners, NextKeepsOwners, PTL DEF Spec

\* Any number of executors may die one after the other, at any step of the lease
\* or of its body: as long as nothing else disturbs the line, the next one of the
\* scope finds the stage under the name it expects, that of the first owner.
THEOREM OwnerSurvives == Spec => []OwnerSurvivesCrashes
<1>1. OwnerInv => OwnerSurvivesCrashes
  <2> SUFFICES ASSUME OwnerInv, NEW p \in Proc, ~disturbed, At(p, "look"), NEW s \in stages
               PROVE  Mine(p, s)
    BY DEF OwnerSurvivesCrashes
  <2>1. s.scope = file.scope /\ s.owner = LineOwner
    BY DEF OwnerInv, Lined
  <2>2. HasText(p)
    BY DEF At, OwnerInv, Texts
  <2>3. Owner(p) = LineOwner
    BY <2>2 DEF HasText, Owner, LineOwner
  <2> QED BY <2>1, <2>2, <2>3 DEF HasText, Mine
<1> QED BY <1>1, OwnerInvHolds, PTL
=============================================================================
