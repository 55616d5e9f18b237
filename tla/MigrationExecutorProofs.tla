---------------------- MODULE MigrationExecutorProofs ----------------------
(***************************************************************************)
(* What holds of an offline migration for any limit of attempts and any    *)
(* number of deaths and failures: types, receipts that say what the        *)
(* database says, a passed state on which a result can be issued, and a    *)
(* protected artifact that stays as it is.                                 *)
(***************************************************************************)
EXTENDS MigrationExecutor, FiniteSetTheorems, TLAPS

Last == Cardinality(started)

\* Attempts are numbered without a gap, and only the last may lack an outcome.
Numbered ==
    /\ Last \in 0 .. MaxAttempts /\ started = 1 .. Last
    /\ \A n \in Attempt : n > Last => outcome[n] = "none"
    /\ \A n \in Attempt : n < Last => outcome[n] \in Undone
    /\ counted <= Last

\* The commit is that of the last attempt, which no receipt denies.
Committed ==
    /\ db # 0 => db = Last /\ outcome[db] \in {"none", "passed"}
    /\ \A n \in Attempt : outcome[n] = "passed" => db = n

\* What the command knows at each of its steps.
BeforeAttempt ==
    /\ at = "settle" => db = 0 /\ number = Last + 1 /\ Last < MaxAttempts
    /\ at = "interrupted" =>
          db = 0 /\ number = Last + 1 /\ Last \in 1 .. MaxAttempts - 1 /\ outcome[Last] = "none"
    /\ at = "retryable" =>
          db = 0 /\ number = Last + 1 /\ Last \in 1 .. MaxAttempts - 1 /\ outcome[Last] \in Undone
    /\ at = "start" =>
          /\ db = 0 /\ number = Last + 1 /\ Last < MaxAttempts
          /\ Last # 0 => outcome[Last] \in Undone
    /\ at \in {"tidy", "open"} /\ db = 0 => number = Last + 1 /\ Last < MaxAttempts

InAttempt ==
    /\ at \in {"running", "connect", "commit", "check", "outcome", "passed", "seal",
               "recover", "classify", "failed", "giveup", "leave"} =>
          number = Last /\ Last \in Attempt
    /\ at \in {"running", "connect", "commit"} => db = 0 /\ outcome[Last] = "none"
    /\ at \in {"check", "outcome", "passed", "seal"} => db = Last
    /\ at \in {"outcome", "passed"} => sealed
    /\ at = "passed" => outcome[Last] = "passed"
    /\ at = "failed" => db = 0 /\ outcome[Last] = "none"
    /\ at = "giveup" => db = 0 /\ outcome[Last] \in Undone
    /\ at \in {"recover", "classify"} /\ db = 0 => outcome[Last] = "none"

\* Where the command goes over a passed state, and when the handler is set.
Over ==
    {"idle", "prepare", "read", "reissue", "issue", "protect", "close"}

Handled ==
    /\ trying => at \in {"connect", "commit", "check", "outcome", "passed"}
    /\ at \in {"reissue", "issue", "protect", "close"} => status = "passed"
    /\ status = "passed" => at \in Over \cup {"recover", "classify", "leave"}

\* A passed state and what it is over.
PassedState ==
    status = "passed" => db # 0 /\ counted = db /\ outcome[db] = "passed"

SealedState ==
    status = "passed" /\ ~torn => sealed \/ at \in {"classify", "leave"}

\* Nothing but the last check of a result is left once protection has begun.
Protected ==
    /\ modes # "open" \/ at \in {"protect", "close"} =>
          status = "passed" /\ sealed /\ pending = {}
    /\ modes # "open" => at \in Over

IInv ==
    /\ TypeOK /\ Numbered /\ Committed /\ BeforeAttempt /\ InAttempt
    /\ Handled /\ PassedState /\ SealedState /\ Protected
-----------------------------------------------------------------------------
LEMMA InitIInv == Init => IInv
<1> USE BoundsAssumption DEF Init
<1>1. ASSUME Init PROVE Last = 0
  BY <1>1, FS_EmptySet DEF Last
<1>2. ASSUME Init PROVE outcome \in [Attempt -> {"none", "passed"} \cup Undone]
  BY <1>2 DEF Attempt
<1>3. ASSUME Init PROVE at \in Steps /\ number \in 0 .. MaxAttempts + 1
  BY <1>3 DEF Steps
<1>4. ASSUME Init PROVE TypeOK
  <2>1. stage \in {"none"} /\ db \in 0 .. MaxAttempts /\ sealed \in BOOLEAN /\ counted \in 0 .. MaxAttempts
    BY <1>4
  <2>2. status \in {"absent"} /\ pending = {} /\ modes \in {"open"} /\ started = {}
    BY <1>4
  <2>3. faults \in 0 .. MaxFaults
    BY <1>4
  <2>4. trying \in BOOLEAN /\ torn \in BOOLEAN
    BY <1>4
  <2>5. started \subseteq Attempt /\ pending \subseteq {"state", "started", "outcome"}
    BY <2>2
  <2>6. /\ stage \in {"none", "partial", "complete"} /\ modes \in {"open", "partly", "closed"}
        /\ status \in {"absent", "ready", "running", "retryable", "reconcile", "passed"}
    BY <2>1, <2>2
  <2> HIDE DEF Init
  <2> QED BY <1>2, <1>3, <1>4, <2>1, <2>3, <2>4, <2>5, <2>6 DEF TypeOK
<1>5. ASSUME Init PROVE Numbered
  <2>1. started = 1 .. 0
    BY <1>5
  <2>2. \A n \in Attempt : outcome[n] = "none" /\ ~(n < 0)
    BY <1>5 DEF Attempt
  <2>3. 0 \in 0 .. MaxAttempts /\ counted <= 0
    BY <1>5
  <2>4. Last = 0
    BY <1>1, <1>5
  <2> HIDE DEF Init
  <2> QED BY <2>1, <2>2, <2>3, <2>4 DEF Numbered
<1>6. ASSUME Init PROVE Committed
  BY <1>6 DEF Committed
<1>7. ASSUME Init PROVE BeforeAttempt /\ InAttempt /\ Handled /\ PassedState /\ SealedState
  BY <1>7 DEF BeforeAttempt, InAttempt, Handled, PassedState, SealedState, Over
<1>8. ASSUME Init PROVE Protected
  BY <1>8 DEF Protected, Over
<1> QED BY <1>4, <1>5, <1>6, <1>7, <1>8 DEF IInv

LEMMA CallKeeps == ASSUME IInv, Call PROVE IInv'
BY BoundsAssumption
DEF IInv, TypeOK, Numbered, Committed, BeforeAttempt, InAttempt, Handled, PassedState, SealedState,
    Protected, Over, Last, Attempt, Undone,
    Call, Steps, Goes, Fault, Raises, Then, Only, Writes, files

LEMMA PrepareKeeps == ASSUME IInv, Prepare PROVE IInv'
BY BoundsAssumption
DEF IInv, TypeOK, Numbered, Committed, BeforeAttempt, InAttempt, Handled, PassedState, SealedState,
    Protected, Over, Last, Attempt, Undone,
    Prepare, Steps, Goes, Fault, Raises, Then, Only, Writes, files

LEMMA MkdirKeeps == ASSUME IInv, Mkdir PROVE IInv'
BY BoundsAssumption
DEF IInv, TypeOK, Numbered, Committed, BeforeAttempt, InAttempt, Handled, PassedState, SealedState,
    Protected, Over, Last, Attempt, Undone,
    Mkdir, Steps, Goes, Fault, Raises, Then, Only, Writes, files

LEMMA FillKeeps == ASSUME IInv, Fill PROVE IInv'
BY BoundsAssumption
DEF IInv, TypeOK, Numbered, Committed, BeforeAttempt, InAttempt, Handled, PassedState, SealedState,
    Protected, Over, Last, Attempt, Undone,
    Fill, Steps, Goes, Fault, Raises, Then, Only, Writes, files

LEMMA PublishKeeps == ASSUME IInv, Publish PROVE IInv'
<1> USE BoundsAssumption DEF IInv, Publish, Goes, Fault, Raises, Then, Only, Writes, files
<1>1. TypeOK'
  <2> USE DEF TypeOK, InAttempt, BeforeAttempt, Numbered, Undone
  <2>1. stage' \in {"none", "partial", "complete"} /\ db' \in 0 .. MaxAttempts /\ sealed' \in BOOLEAN
    BY DEF Attempt
  <2>2. status' \in {"absent", "ready", "running", "retryable", "reconcile", "passed"}
    BY DEF Attempt
  <2>3. counted' \in 0 .. MaxAttempts /\ started' \subseteq Attempt
    BY DEF Attempt
  <2>4. outcome' \in [Attempt -> {"none", "passed"} \cup Undone]
    BY DEF Attempt
  <2>5. pending' \subseteq {"state", "started", "outcome"} /\ modes' \in {"open", "partly", "closed"}
    BY DEF Attempt
  <2>6. at' \in Steps
    BY DEF Steps
  <2>7. number' \in 0 .. MaxAttempts + 1 /\ trying' \in BOOLEAN
    BY DEF Attempt
  <2>8. faults' \in 0 .. MaxFaults /\ torn' \in BOOLEAN
    BY DEF Attempt
  <2> QED BY <2>1, <2>2, <2>3, <2>4, <2>5, <2>6, <2>7, <2>8
<1> USE DEF TypeOK, Numbered, Committed, BeforeAttempt, InAttempt, Handled, PassedState, SealedState,
           Protected, Over, Last, Attempt, Undone
<1>2. Numbered'  OBVIOUS
<1>3. Committed'  OBVIOUS
<1>4. BeforeAttempt'  OBVIOUS
<1>5. InAttempt'  OBVIOUS
<1>6. Handled'  OBVIOUS
<1>7. PassedState'  OBVIOUS
<1>8. SealedState'  OBVIOUS
<1>9. Protected'  OBVIOUS
<1> QED BY <1>1, <1>2, <1>3, <1>4, <1>5, <1>6, <1>7, <1>8, <1>9

LEMMA ReadKeeps == ASSUME IInv, Read PROVE IInv'
BY BoundsAssumption
DEF IInv, TypeOK, Numbered, Committed, BeforeAttempt, InAttempt, Handled, PassedState, SealedState,
    Protected, Over, Last, Attempt, Undone,
    Read, Receipts, AfterRead, Steps, Goes, Fault, Raises, Then, Only, Writes, files

LEMMA ExhaustedKeeps == ASSUME IInv, Exhausted PROVE IInv'
BY BoundsAssumption
DEF IInv, TypeOK, Numbered, Committed, BeforeAttempt, InAttempt, Handled, PassedState, SealedState,
    Protected, Over, Last, Attempt, Undone,
    Exhausted, Steps, Goes, Fault, Raises, Then, Only, Writes, files

LEMMA TidyKeeps == ASSUME IInv, Tidy PROVE IInv'
<1> USE BoundsAssumption DEF IInv, Tidy, Goes, Fault, Raises, Then, Only, Writes, files
<1>1. TypeOK'
  <2> USE DEF TypeOK, InAttempt, BeforeAttempt, Numbered, Undone
  <2>1. stage' \in {"none", "partial", "complete"} /\ db' \in 0 .. MaxAttempts /\ sealed' \in BOOLEAN
    BY DEF Attempt
  <2>2. status' \in {"absent", "ready", "running", "retryable", "reconcile", "passed"}
    BY DEF Attempt
  <2>3. counted' \in 0 .. MaxAttempts /\ started' \subseteq Attempt
    BY DEF Attempt
  <2>4. outcome' \in [Attempt -> {"none", "passed"} \cup Undone]
    BY DEF Attempt
  <2>5. pending' \subseteq {"state", "started", "outcome"} /\ modes' \in {"open", "partly", "closed"}
    BY DEF Attempt
  <2>6. at' \in Steps
    BY DEF Steps
  <2>7. number' \in 0 .. MaxAttempts + 1 /\ trying' \in BOOLEAN
    BY DEF Attempt
  <2>8. faults' \in 0 .. MaxFaults /\ torn' \in BOOLEAN
    BY DEF Attempt
  <2> QED BY <2>1, <2>2, <2>3, <2>4, <2>5, <2>6, <2>7, <2>8
<1> USE DEF TypeOK, Numbered, Committed, BeforeAttempt, InAttempt, Handled, PassedState, SealedState,
           Protected, Over, Last, Attempt, Undone
<1>2. Numbered'  OBVIOUS
<1>3. Committed'  OBVIOUS
<1>4. BeforeAttempt'  OBVIOUS
<1>5. InAttempt'  OBVIOUS
<1>6. Handled'  OBVIOUS
<1>7. PassedState'  OBVIOUS
<1>8. SealedState'  OBVIOUS
<1>9. Protected'  OBVIOUS
<1> QED BY <1>1, <1>2, <1>3, <1>4, <1>5, <1>6, <1>7, <1>8, <1>9

LEMMA OpenKeeps == ASSUME IInv, Open PROVE IInv'
<1> USE BoundsAssumption DEF IInv, Open, AfterOpen, ExactReceipt, Goes, Fault, Raises, Then, Only, Writes, files
<1>1. TypeOK'
  <2> USE DEF TypeOK, InAttempt, BeforeAttempt, Numbered, Undone
  <2>1. stage' \in {"none", "partial", "complete"} /\ db' \in 0 .. MaxAttempts /\ sealed' \in BOOLEAN
    BY DEF Attempt
  <2>2. status' \in {"absent", "ready", "running", "retryable", "reconcile", "passed"}
    BY DEF Attempt
  <2>3. counted' \in 0 .. MaxAttempts /\ started' \subseteq Attempt
    BY DEF Attempt
  <2>4. outcome' \in [Attempt -> {"none", "passed"} \cup Undone]
    BY DEF Attempt
  <2>5. pending' \subseteq {"state", "started", "outcome"} /\ modes' \in {"open", "partly", "closed"}
    BY DEF Attempt
  <2>6. at' \in Steps
    BY DEF Steps
  <2>7. number' \in 0 .. MaxAttempts + 1 /\ trying' \in BOOLEAN
    BY DEF Attempt
  <2>8. faults' \in 0 .. MaxFaults /\ torn' \in BOOLEAN
    BY DEF Attempt
  <2> QED BY <2>1, <2>2, <2>3, <2>4, <2>5, <2>6, <2>7, <2>8
<1> USE DEF TypeOK, Numbered, Committed, BeforeAttempt, InAttempt, Handled, PassedState, SealedState,
           Protected, Over, Last, Attempt, Undone
<1>2. Numbered'  OBVIOUS
<1>3. Committed'  OBVIOUS
<1>4. BeforeAttempt'  OBVIOUS
<1>5. InAttempt'  OBVIOUS
<1>6. Handled'  OBVIOUS
<1>7. PassedState'  OBVIOUS
<1>8. SealedState'  OBVIOUS
<1>9. Protected'  OBVIOUS
<1> QED BY <1>1, <1>2, <1>3, <1>4, <1>5, <1>6, <1>7, <1>8, <1>9

LEMMA SealKeeps == ASSUME IInv, Seal PROVE IInv'
<1> USE BoundsAssumption DEF IInv, Seal, Goes, Fault, Raises, Then, Only, Writes, files
<1>1. TypeOK'
  <2> USE DEF TypeOK, InAttempt, BeforeAttempt, Numbered, Undone
  <2>1. stage' \in {"none", "partial", "complete"} /\ db' \in 0 .. MaxAttempts /\ sealed' \in BOOLEAN
    BY DEF Attempt
  <2>2. status' \in {"absent", "ready", "running", "retryable", "reconcile", "passed"}
    BY DEF Attempt
  <2>3. counted' \in 0 .. MaxAttempts /\ started' \subseteq Attempt
    BY DEF Attempt
  <2>4. outcome' \in [Attempt -> {"none", "passed"} \cup Undone]
    BY DEF Attempt
  <2>5. pending' \subseteq {"state", "started", "outcome"} /\ modes' \in {"open", "partly", "closed"}
    BY DEF Attempt
  <2>6. at' \in Steps
    BY DEF Steps
  <2>7. number' \in 0 .. MaxAttempts + 1 /\ trying' \in BOOLEAN
    BY DEF Attempt
  <2>8. faults' \in 0 .. MaxFaults /\ torn' \in BOOLEAN
    BY DEF Attempt
  <2> QED BY <2>1, <2>2, <2>3, <2>4, <2>5, <2>6, <2>7, <2>8
<1> USE DEF TypeOK, Numbered, Committed, BeforeAttempt, InAttempt, Handled, PassedState, SealedState,
           Protected, Over, Last, Attempt, Undone
<1>2. Numbered'  OBVIOUS
<1>3. Committed'  OBVIOUS
<1>4. BeforeAttempt'  OBVIOUS
<1>5. InAttempt'  OBVIOUS
<1>6. Handled'  OBVIOUS
<1>7. PassedState'  OBVIOUS
<1>8. SealedState'  OBVIOUS
<1>9. Protected'  OBVIOUS
<1> QED BY <1>1, <1>2, <1>3, <1>4, <1>5, <1>6, <1>7, <1>8, <1>9

LEMMA SettleKeeps == ASSUME IInv, Settle PROVE IInv'
<1> USE BoundsAssumption DEF IInv, Settle, AfterSettle, InvalidOutcome, Missing, Goes, Fault, Raises, Then, Only, Writes, files
<1>1. TypeOK'
  <2> USE DEF TypeOK, InAttempt, BeforeAttempt, Numbered, Undone
  <2>1. stage' \in {"none", "partial", "complete"} /\ db' \in 0 .. MaxAttempts /\ sealed' \in BOOLEAN
    BY DEF Attempt
  <2>2. status' \in {"absent", "ready", "running", "retryable", "reconcile", "passed"}
    BY DEF Attempt
  <2>3. counted' \in 0 .. MaxAttempts /\ started' \subseteq Attempt
    BY DEF Attempt
  <2>4. outcome' \in [Attempt -> {"none", "passed"} \cup Undone]
    BY DEF Attempt
  <2>5. pending' \subseteq {"state", "started", "outcome"} /\ modes' \in {"open", "partly", "closed"}
    BY DEF Attempt
  <2>6. at' \in Steps
    BY DEF Steps
  <2>7. number' \in 0 .. MaxAttempts + 1 /\ trying' \in BOOLEAN
    BY DEF Attempt
  <2>8. faults' \in 0 .. MaxFaults /\ torn' \in BOOLEAN
    BY DEF Attempt
  <2> QED BY <2>1, <2>2, <2>3, <2>4, <2>5, <2>6, <2>7, <2>8
<1> USE DEF TypeOK, Numbered, Committed, BeforeAttempt, InAttempt, Handled, PassedState, SealedState,
           Protected, Over, Last, Attempt, Undone
<1>2. Numbered'  OBVIOUS
<1>3. Committed'  OBVIOUS
<1>4. BeforeAttempt'  OBVIOUS
<1>5. InAttempt'  OBVIOUS
<1>6. Handled'  OBVIOUS
<1>7. PassedState'  OBVIOUS
<1>8. SealedState'  OBVIOUS
<1>9. Protected'  OBVIOUS
<1> QED BY <1>1, <1>2, <1>3, <1>4, <1>5, <1>6, <1>7, <1>8, <1>9

LEMMA MarkKeeps == ASSUME IInv, Mark PROVE IInv'
<1> USE BoundsAssumption DEF IInv, Mark, Goes, Fault, Raises, Then, Only, Writes, files
<1>1. TypeOK'
  <2> USE DEF TypeOK, InAttempt, BeforeAttempt, Numbered, Undone
  <2>1. stage' \in {"none", "partial", "complete"} /\ db' \in 0 .. MaxAttempts /\ sealed' \in BOOLEAN
    BY DEF Attempt
  <2>2. status' \in {"absent", "ready", "running", "retryable", "reconcile", "passed"}
    BY DEF Attempt
  <2>3. counted' \in 0 .. MaxAttempts /\ started' \subseteq Attempt
    BY DEF Attempt
  <2>4. outcome' \in [Attempt -> {"none", "passed"} \cup Undone]
    BY DEF Attempt
  <2>5. pending' \subseteq {"state", "started", "outcome"} /\ modes' \in {"open", "partly", "closed"}
    BY DEF Attempt
  <2>6. at' \in Steps
    BY DEF Steps
  <2>7. number' \in 0 .. MaxAttempts + 1 /\ trying' \in BOOLEAN
    BY DEF Attempt
  <2>8. faults' \in 0 .. MaxFaults /\ torn' \in BOOLEAN
    BY DEF Attempt
  <2> QED BY <2>1, <2>2, <2>3, <2>4, <2>5, <2>6, <2>7, <2>8
<1> USE DEF TypeOK, Numbered, Committed, BeforeAttempt, InAttempt, Handled, PassedState, SealedState,
           Protected, Over, Last, Attempt, Undone
<1>2. Numbered'  OBVIOUS
<1>3. Committed'  OBVIOUS
<1>4. BeforeAttempt'  OBVIOUS
<1>5. InAttempt'  OBVIOUS
<1>6. Handled'  OBVIOUS
<1>7. PassedState'  OBVIOUS
<1>8. SealedState'  OBVIOUS
<1>9. Protected'  OBVIOUS
<1> QED BY <1>1, <1>2, <1>3, <1>4, <1>5, <1>6, <1>7, <1>8, <1>9

LEMMA InterruptedKeeps == ASSUME IInv, Interrupted PROVE IInv'
<1> USE BoundsAssumption DEF IInv, Interrupted, Goes, Fault, Raises, Then, Only, Writes, files
<1>1. TypeOK'
  <2> USE DEF TypeOK, InAttempt, BeforeAttempt, Numbered, Undone
  <2>1. stage' \in {"none", "partial", "complete"} /\ db' \in 0 .. MaxAttempts /\ sealed' \in BOOLEAN
    BY DEF Attempt
  <2>2. status' \in {"absent", "ready", "running", "retryable", "reconcile", "passed"}
    BY DEF Attempt
  <2>3. counted' \in 0 .. MaxAttempts /\ started' \subseteq Attempt
    BY DEF Attempt
  <2>4. outcome' \in [Attempt -> {"none", "passed"} \cup Undone]
    BY DEF Attempt
  <2>5. pending' \subseteq {"state", "started", "outcome"} /\ modes' \in {"open", "partly", "closed"}
    BY DEF Attempt
  <2>6. at' \in Steps
    BY DEF Steps
  <2>7. number' \in 0 .. MaxAttempts + 1 /\ trying' \in BOOLEAN
    BY DEF Attempt
  <2>8. faults' \in 0 .. MaxFaults /\ torn' \in BOOLEAN
    BY DEF Attempt
  <2> QED BY <2>1, <2>2, <2>3, <2>4, <2>5, <2>6, <2>7, <2>8
<1> USE DEF TypeOK, Numbered, Committed, BeforeAttempt, InAttempt, Handled, PassedState, SealedState,
           Protected, Over, Last, Attempt, Undone
<1>2. Numbered'  OBVIOUS
<1>3. Committed'  OBVIOUS
<1>4. BeforeAttempt'  OBVIOUS
<1>5. InAttempt'  OBVIOUS
<1>6. Handled'  OBVIOUS
<1>7. PassedState'  OBVIOUS
<1>8. SealedState'  OBVIOUS
<1>9. Protected'  OBVIOUS
<1> QED BY <1>1, <1>2, <1>3, <1>4, <1>5, <1>6, <1>7, <1>8, <1>9

LEMMA RetryableKeeps == ASSUME IInv, Retryable PROVE IInv'
<1> USE BoundsAssumption DEF IInv, Retryable, Goes, Fault, Raises, Then, Only, Writes, files
<1>1. TypeOK'
  <2> USE DEF TypeOK, InAttempt, BeforeAttempt, Numbered, Undone
  <2>1. stage' \in {"none", "partial", "complete"} /\ db' \in 0 .. MaxAttempts /\ sealed' \in BOOLEAN
    BY DEF Attempt
  <2>2. status' \in {"absent", "ready", "running", "retryable", "reconcile", "passed"}
    BY DEF Attempt
  <2>3. counted' \in 0 .. MaxAttempts /\ started' \subseteq Attempt
    BY DEF Attempt
  <2>4. outcome' \in [Attempt -> {"none", "passed"} \cup Undone]
    BY DEF Attempt
  <2>5. pending' \subseteq {"state", "started", "outcome"} /\ modes' \in {"open", "partly", "closed"}
    BY DEF Attempt
  <2>6. at' \in Steps
    BY DEF Steps
  <2>7. number' \in 0 .. MaxAttempts + 1 /\ trying' \in BOOLEAN
    BY DEF Attempt
  <2>8. faults' \in 0 .. MaxFaults /\ torn' \in BOOLEAN
    BY DEF Attempt
  <2> QED BY <2>1, <2>2, <2>3, <2>4, <2>5, <2>6, <2>7, <2>8
<1> USE DEF TypeOK, Numbered, Committed, BeforeAttempt, InAttempt, Handled, PassedState, SealedState,
           Protected, Over, Last, Attempt, Undone
<1>2. Numbered'  OBVIOUS
<1>3. Committed'  OBVIOUS
<1>4. BeforeAttempt'  OBVIOUS
<1>5. InAttempt'  OBVIOUS
<1>6. Handled'  OBVIOUS
<1>7. PassedState'  OBVIOUS
<1>8. SealedState'  OBVIOUS
<1>9. Protected'  OBVIOUS
<1> QED BY <1>1, <1>2, <1>3, <1>4, <1>5, <1>6, <1>7, <1>8, <1>9

LEMMA StartKeeps == ASSUME IInv, Start PROVE IInv'
<1> USE BoundsAssumption DEF IInv, Start, Goes, Fault, Raises, Then, Only, Writes, files
<1>0. Last' = Last + 1 /\ started' = 1 .. Last + 1
  <2>1. number = Last + 1 /\ Last \in Nat /\ started = 1 .. Last
    BY DEF BeforeAttempt, Numbered
  <2>2. IsFiniteSet(started) /\ number \notin started
    BY <2>1, FS_Interval
  <2>3. Cardinality(started \cup {number}) = Cardinality(started) + 1
    BY <2>2, FS_AddElement
  <2>4. started' = 1 .. Last + 1
    BY <2>1
  <2> QED BY <2>3, <2>4 DEF Last
<1>1. TypeOK'
  <2> USE DEF TypeOK, InAttempt, BeforeAttempt, Numbered, Undone
  <2>1. stage' \in {"none", "partial", "complete"} /\ db' \in 0 .. MaxAttempts /\ sealed' \in BOOLEAN
    BY DEF Attempt
  <2>2. status' \in {"absent", "ready", "running", "retryable", "reconcile", "passed"}
    BY DEF Attempt
  <2>3. counted' \in 0 .. MaxAttempts /\ started' \subseteq Attempt
    BY <1>0 DEF Attempt
  <2>4. outcome' \in [Attempt -> {"none", "passed"} \cup Undone]
    BY DEF Attempt
  <2>5. pending' \subseteq {"state", "started", "outcome"} /\ modes' \in {"open", "partly", "closed"}
    BY DEF Attempt
  <2>6. at' \in Steps
    BY DEF Steps
  <2>7. number' \in 0 .. MaxAttempts + 1 /\ trying' \in BOOLEAN
    BY <1>0 DEF Attempt
  <2>8. faults' \in 0 .. MaxFaults /\ torn' \in BOOLEAN
    BY DEF Attempt
  <2> QED BY <2>1, <2>2, <2>3, <2>4, <2>5, <2>6, <2>7, <2>8
<1> USE <1>0 DEF TypeOK, Numbered, Committed, BeforeAttempt, InAttempt, Handled, PassedState, SealedState,
           Protected, Over, Attempt, Undone
<1>2. Numbered'  OBVIOUS
<1>3. Committed'  OBVIOUS
<1>4. BeforeAttempt'  OBVIOUS
<1>5. InAttempt'  OBVIOUS
<1>6. Handled'  OBVIOUS
<1>7. PassedState'  OBVIOUS
<1>8. SealedState'  OBVIOUS
<1>9. Protected'  OBVIOUS
<1> QED BY <1>1, <1>2, <1>3, <1>4, <1>5, <1>6, <1>7, <1>8, <1>9

LEMMA RunningKeeps == ASSUME IInv, Running PROVE IInv'
<1> USE BoundsAssumption DEF IInv, Running, Goes, Fault, Raises, Then, Only, Writes, files
<1>1. TypeOK'
  <2> USE DEF TypeOK, InAttempt, BeforeAttempt, Numbered, Undone
  <2>1. stage' \in {"none", "partial", "complete"} /\ db' \in 0 .. MaxAttempts /\ sealed' \in BOOLEAN
    BY DEF Attempt
  <2>2. status' \in {"absent", "ready", "running", "retryable", "reconcile", "passed"}
    BY DEF Attempt
  <2>3. counted' \in 0 .. MaxAttempts /\ started' \subseteq Attempt
    BY DEF Attempt
  <2>4. outcome' \in [Attempt -> {"none", "passed"} \cup Undone]
    BY DEF Attempt
  <2>5. pending' \subseteq {"state", "started", "outcome"} /\ modes' \in {"open", "partly", "closed"}
    BY DEF Attempt
  <2>6. at' \in Steps
    BY DEF Steps
  <2>7. number' \in 0 .. MaxAttempts + 1 /\ trying' \in BOOLEAN
    BY DEF Attempt
  <2>8. faults' \in 0 .. MaxFaults /\ torn' \in BOOLEAN
    BY DEF Attempt
  <2> QED BY <2>1, <2>2, <2>3, <2>4, <2>5, <2>6, <2>7, <2>8
<1> USE DEF TypeOK, Numbered, Committed, BeforeAttempt, InAttempt, Handled, PassedState, SealedState,
           Protected, Over, Last, Attempt, Undone
<1>2. Numbered'  OBVIOUS
<1>3. Committed'  OBVIOUS
<1>4. BeforeAttempt'  OBVIOUS
<1>5. InAttempt'  OBVIOUS
<1>6. Handled'  OBVIOUS
<1>7. PassedState'  OBVIOUS
<1>8. SealedState'  OBVIOUS
<1>9. Protected'  OBVIOUS
<1> QED BY <1>1, <1>2, <1>3, <1>4, <1>5, <1>6, <1>7, <1>8, <1>9

LEMMA ConnectKeeps == ASSUME IInv, Connect PROVE IInv'
<1> USE BoundsAssumption DEF IInv, Connect, Goes, Fault, Raises, Then, Only, Writes, files
<1>1. TypeOK'
  <2> USE DEF TypeOK, InAttempt, BeforeAttempt, Numbered, Undone
  <2>1. stage' \in {"none", "partial", "complete"} /\ db' \in 0 .. MaxAttempts /\ sealed' \in BOOLEAN
    BY DEF Attempt
  <2>2. status' \in {"absent", "ready", "running", "retryable", "reconcile", "passed"}
    BY DEF Attempt
  <2>3. counted' \in 0 .. MaxAttempts /\ started' \subseteq Attempt
    BY DEF Attempt
  <2>4. outcome' \in [Attempt -> {"none", "passed"} \cup Undone]
    BY DEF Attempt
  <2>5. pending' \subseteq {"state", "started", "outcome"} /\ modes' \in {"open", "partly", "closed"}
    BY DEF Attempt
  <2>6. at' \in Steps
    BY DEF Steps
  <2>7. number' \in 0 .. MaxAttempts + 1 /\ trying' \in BOOLEAN
    BY DEF Attempt
  <2>8. faults' \in 0 .. MaxFaults /\ torn' \in BOOLEAN
    BY DEF Attempt
  <2> QED BY <2>1, <2>2, <2>3, <2>4, <2>5, <2>6, <2>7, <2>8
<1> USE DEF TypeOK, Numbered, Committed, BeforeAttempt, InAttempt, Handled, PassedState, SealedState,
           Protected, Over, Last, Attempt, Undone
<1>2. Numbered'  OBVIOUS
<1>3. Committed'  OBVIOUS
<1>4. BeforeAttempt'  OBVIOUS
<1>5. InAttempt'  OBVIOUS
<1>6. Handled'  OBVIOUS
<1>7. PassedState'  OBVIOUS
<1>8. SealedState'  OBVIOUS
<1>9. Protected'  OBVIOUS
<1> QED BY <1>1, <1>2, <1>3, <1>4, <1>5, <1>6, <1>7, <1>8, <1>9

LEMMA CommitKeeps == ASSUME IInv, Commit PROVE IInv'
<1> USE BoundsAssumption DEF IInv, Commit, Goes, Fault, Raises, Then, Only, Writes, files
<1>1. TypeOK'
  <2> USE DEF TypeOK, InAttempt, BeforeAttempt, Numbered, Undone
  <2>1. stage' \in {"none", "partial", "complete"} /\ db' \in 0 .. MaxAttempts /\ sealed' \in BOOLEAN
    BY DEF Attempt
  <2>2. status' \in {"absent", "ready", "running", "retryable", "reconcile", "passed"}
    BY DEF Attempt
  <2>3. counted' \in 0 .. MaxAttempts /\ started' \subseteq Attempt
    BY DEF Attempt
  <2>4. outcome' \in [Attempt -> {"none", "passed"} \cup Undone]
    BY DEF Attempt
  <2>5. pending' \subseteq {"state", "started", "outcome"} /\ modes' \in {"open", "partly", "closed"}
    BY DEF Attempt
  <2>6. at' \in Steps
    BY DEF Steps
  <2>7. number' \in 0 .. MaxAttempts + 1 /\ trying' \in BOOLEAN
    BY DEF Attempt
  <2>8. faults' \in 0 .. MaxFaults /\ torn' \in BOOLEAN
    BY DEF Attempt
  <2> QED BY <2>1, <2>2, <2>3, <2>4, <2>5, <2>6, <2>7, <2>8
<1> USE DEF TypeOK, Numbered, Committed, BeforeAttempt, InAttempt, Handled, PassedState, SealedState,
           Protected, Over, Last, Attempt, Undone
<1>2. Numbered'  OBVIOUS
<1>3. Committed'  OBVIOUS
<1>4. BeforeAttempt'  OBVIOUS
<1>5. InAttempt'  OBVIOUS
<1>6. Handled'  OBVIOUS
<1>7. PassedState'  OBVIOUS
<1>8. SealedState'  OBVIOUS
<1>9. Protected'  OBVIOUS
<1> QED BY <1>1, <1>2, <1>3, <1>4, <1>5, <1>6, <1>7, <1>8, <1>9

LEMMA CheckKeeps == ASSUME IInv, Check PROVE IInv'
<1> USE BoundsAssumption DEF IInv, Check, Goes, Fault, Raises, Then, Only, Writes, files
<1>1. TypeOK'
  <2> USE DEF TypeOK, InAttempt, BeforeAttempt, Numbered, Undone
  <2>1. stage' \in {"none", "partial", "complete"} /\ db' \in 0 .. MaxAttempts /\ sealed' \in BOOLEAN
    BY DEF Attempt
  <2>2. status' \in {"absent", "ready", "running", "retryable", "reconcile", "passed"}
    BY DEF Attempt
  <2>3. counted' \in 0 .. MaxAttempts /\ started' \subseteq Attempt
    BY DEF Attempt
  <2>4. outcome' \in [Attempt -> {"none", "passed"} \cup Undone]
    BY DEF Attempt
  <2>5. pending' \subseteq {"state", "started", "outcome"} /\ modes' \in {"open", "partly", "closed"}
    BY DEF Attempt
  <2>6. at' \in Steps
    BY DEF Steps
  <2>7. number' \in 0 .. MaxAttempts + 1 /\ trying' \in BOOLEAN
    BY DEF Attempt
  <2>8. faults' \in 0 .. MaxFaults /\ torn' \in BOOLEAN
    BY DEF Attempt
  <2> QED BY <2>1, <2>2, <2>3, <2>4, <2>5, <2>6, <2>7, <2>8
<1> USE DEF TypeOK, Numbered, Committed, BeforeAttempt, InAttempt, Handled, PassedState, SealedState,
           Protected, Over, Last, Attempt, Undone
<1>2. Numbered'  OBVIOUS
<1>3. Committed'  OBVIOUS
<1>4. BeforeAttempt'  OBVIOUS
<1>5. InAttempt'  OBVIOUS
<1>6. Handled'  OBVIOUS
<1>7. PassedState'  OBVIOUS
<1>8. SealedState'  OBVIOUS
<1>9. Protected'  OBVIOUS
<1> QED BY <1>1, <1>2, <1>3, <1>4, <1>5, <1>6, <1>7, <1>8, <1>9

LEMMA OutcomeKeeps == ASSUME IInv, Outcome PROVE IInv'
<1> USE BoundsAssumption DEF IInv, Outcome, Goes, Fault, Raises, Then, Only, Writes, files
<1>1. TypeOK'
  <2> USE DEF TypeOK, InAttempt, BeforeAttempt, Numbered, Undone
  <2>1. stage' \in {"none", "partial", "complete"} /\ db' \in 0 .. MaxAttempts /\ sealed' \in BOOLEAN
    BY DEF Attempt
  <2>2. status' \in {"absent", "ready", "running", "retryable", "reconcile", "passed"}
    BY DEF Attempt
  <2>3. counted' \in 0 .. MaxAttempts /\ started' \subseteq Attempt
    BY DEF Attempt
  <2>4. outcome' \in [Attempt -> {"none", "passed"} \cup Undone]
    BY DEF Attempt
  <2>5. pending' \subseteq {"state", "started", "outcome"} /\ modes' \in {"open", "partly", "closed"}
    BY DEF Attempt
  <2>6. at' \in Steps
    BY DEF Steps
  <2>7. number' \in 0 .. MaxAttempts + 1 /\ trying' \in BOOLEAN
    BY DEF Attempt
  <2>8. faults' \in 0 .. MaxFaults /\ torn' \in BOOLEAN
    BY DEF Attempt
  <2> QED BY <2>1, <2>2, <2>3, <2>4, <2>5, <2>6, <2>7, <2>8
<1> USE DEF TypeOK, Numbered, Committed, BeforeAttempt, InAttempt, Handled, PassedState, SealedState,
           Protected, Over, Last, Attempt, Undone
<1>2. Numbered'  OBVIOUS
<1>3. Committed'  OBVIOUS
<1>4. BeforeAttempt'  OBVIOUS
<1>5. InAttempt'  OBVIOUS
<1>6. Handled'  OBVIOUS
<1>7. PassedState'  OBVIOUS
<1>8. SealedState'  OBVIOUS
<1>9. Protected'  OBVIOUS
<1> QED BY <1>1, <1>2, <1>3, <1>4, <1>5, <1>6, <1>7, <1>8, <1>9

LEMMA PassedKeeps == ASSUME IInv, Passed PROVE IInv'
<1> USE BoundsAssumption DEF IInv, Passed, Goes, Fault, Raises, Then, Only, Writes, files
<1>1. TypeOK'
  <2> USE DEF TypeOK, InAttempt, BeforeAttempt, Numbered, Undone
  <2>1. stage' \in {"none", "partial", "complete"} /\ db' \in 0 .. MaxAttempts /\ sealed' \in BOOLEAN
    BY DEF Attempt
  <2>2. status' \in {"absent", "ready", "running", "retryable", "reconcile", "passed"}
    BY DEF Attempt
  <2>3. counted' \in 0 .. MaxAttempts /\ started' \subseteq Attempt
    BY DEF Attempt
  <2>4. outcome' \in [Attempt -> {"none", "passed"} \cup Undone]
    BY DEF Attempt
  <2>5. pending' \subseteq {"state", "started", "outcome"} /\ modes' \in {"open", "partly", "closed"}
    BY DEF Attempt
  <2>6. at' \in Steps
    BY DEF Steps
  <2>7. number' \in 0 .. MaxAttempts + 1 /\ trying' \in BOOLEAN
    BY DEF Attempt
  <2>8. faults' \in 0 .. MaxFaults /\ torn' \in BOOLEAN
    BY DEF Attempt
  <2> QED BY <2>1, <2>2, <2>3, <2>4, <2>5, <2>6, <2>7, <2>8
<1> USE DEF TypeOK, Numbered, Committed, BeforeAttempt, InAttempt, Handled, PassedState, SealedState,
           Protected, Over, Last, Attempt, Undone
<1>2. Numbered'  OBVIOUS
<1>3. Committed'  OBVIOUS
<1>4. BeforeAttempt'  OBVIOUS
<1>5. InAttempt'  OBVIOUS
<1>6. Handled'  OBVIOUS
<1>7. PassedState'  OBVIOUS
<1>8. SealedState'  OBVIOUS
<1>9. Protected'  OBVIOUS
<1> QED BY <1>1, <1>2, <1>3, <1>4, <1>5, <1>6, <1>7, <1>8, <1>9

LEMMA ReissueKeeps == ASSUME IInv, Reissue PROVE IInv'
<1> USE BoundsAssumption DEF IInv, Reissue, Goes, Fault, Raises, Then, Only, Writes, files
<1>1. TypeOK'
  <2> USE DEF TypeOK, InAttempt, BeforeAttempt, Numbered, Undone
  <2>1. stage' \in {"none", "partial", "complete"} /\ db' \in 0 .. MaxAttempts /\ sealed' \in BOOLEAN
    BY DEF Attempt
  <2>2. status' \in {"absent", "ready", "running", "retryable", "reconcile", "passed"}
    BY DEF Attempt
  <2>3. counted' \in 0 .. MaxAttempts /\ started' \subseteq Attempt
    BY DEF Attempt
  <2>4. outcome' \in [Attempt -> {"none", "passed"} \cup Undone]
    BY DEF Attempt
  <2>5. pending' \subseteq {"state", "started", "outcome"} /\ modes' \in {"open", "partly", "closed"}
    BY DEF Attempt
  <2>6. at' \in Steps
    BY DEF Steps
  <2>7. number' \in 0 .. MaxAttempts + 1 /\ trying' \in BOOLEAN
    BY DEF Attempt
  <2>8. faults' \in 0 .. MaxFaults /\ torn' \in BOOLEAN
    BY DEF Attempt
  <2> QED BY <2>1, <2>2, <2>3, <2>4, <2>5, <2>6, <2>7, <2>8
<1> USE DEF TypeOK, Numbered, Committed, BeforeAttempt, InAttempt, Handled, PassedState, SealedState,
           Protected, Over, Last, Attempt, Undone
<1>2. Numbered'  OBVIOUS
<1>3. Committed'  OBVIOUS
<1>4. BeforeAttempt'  OBVIOUS
<1>5. InAttempt'  OBVIOUS
<1>6. Handled'  OBVIOUS
<1>7. PassedState'  OBVIOUS
<1>8. SealedState'  OBVIOUS
<1>9. Protected'  OBVIOUS
<1> QED BY <1>1, <1>2, <1>3, <1>4, <1>5, <1>6, <1>7, <1>8, <1>9

LEMMA IssueKeeps == ASSUME IInv, Issue PROVE IInv'
BY BoundsAssumption
DEF IInv, TypeOK, Numbered, Committed, BeforeAttempt, InAttempt, Handled, PassedState, SealedState,
    Protected, Over, Last, Attempt, Undone,
    Issue, Whole, ExactReceipt, Steps, Goes, Fault, Raises, Then, Only, Writes, files

LEMMA ProtectKeeps == ASSUME IInv, Protect PROVE IInv'
<1> USE BoundsAssumption DEF IInv, Protect, Goes, Fault, Raises, Then, Only, Writes, files
<1>1. TypeOK'
  <2> USE DEF TypeOK, InAttempt, BeforeAttempt, Numbered, Undone
  <2>1. stage' \in {"none", "partial", "complete"} /\ db' \in 0 .. MaxAttempts /\ sealed' \in BOOLEAN
    BY DEF Attempt
  <2>2. status' \in {"absent", "ready", "running", "retryable", "reconcile", "passed"}
    BY DEF Attempt
  <2>3. counted' \in 0 .. MaxAttempts /\ started' \subseteq Attempt
    BY DEF Attempt
  <2>4. outcome' \in [Attempt -> {"none", "passed"} \cup Undone]
    BY DEF Attempt
  <2>5. pending' \subseteq {"state", "started", "outcome"} /\ modes' \in {"open", "partly", "closed"}
    BY DEF Attempt
  <2>6. at' \in Steps
    BY DEF Steps
  <2>7. number' \in 0 .. MaxAttempts + 1 /\ trying' \in BOOLEAN
    BY DEF Attempt
  <2>8. faults' \in 0 .. MaxFaults /\ torn' \in BOOLEAN
    BY DEF Attempt
  <2> QED BY <2>1, <2>2, <2>3, <2>4, <2>5, <2>6, <2>7, <2>8
<1> USE DEF TypeOK, Numbered, Committed, BeforeAttempt, InAttempt, Handled, PassedState, SealedState,
           Protected, Over, Last, Attempt, Undone
<1>2. Numbered'  OBVIOUS
<1>3. Committed'  OBVIOUS
<1>4. BeforeAttempt'  OBVIOUS
<1>5. InAttempt'  OBVIOUS
<1>6. Handled'  OBVIOUS
<1>7. PassedState'  OBVIOUS
<1>8. SealedState'  OBVIOUS
<1>9. Protected'  OBVIOUS
<1> QED BY <1>1, <1>2, <1>3, <1>4, <1>5, <1>6, <1>7, <1>8, <1>9

LEMMA CloseKeeps == ASSUME IInv, Close PROVE IInv'
<1> USE BoundsAssumption DEF IInv, Close, Goes, Fault, Raises, Then, Only, Writes, files
<1>1. TypeOK'
  <2> USE DEF TypeOK, InAttempt, BeforeAttempt, Numbered, Undone
  <2>1. stage' \in {"none", "partial", "complete"} /\ db' \in 0 .. MaxAttempts /\ sealed' \in BOOLEAN
    BY DEF Attempt
  <2>2. status' \in {"absent", "ready", "running", "retryable", "reconcile", "passed"}
    BY DEF Attempt
  <2>3. counted' \in 0 .. MaxAttempts /\ started' \subseteq Attempt
    BY DEF Attempt
  <2>4. outcome' \in [Attempt -> {"none", "passed"} \cup Undone]
    BY DEF Attempt
  <2>5. pending' \subseteq {"state", "started", "outcome"} /\ modes' \in {"open", "partly", "closed"}
    BY DEF Attempt
  <2>6. at' \in Steps
    BY DEF Steps
  <2>7. number' \in 0 .. MaxAttempts + 1 /\ trying' \in BOOLEAN
    BY DEF Attempt
  <2>8. faults' \in 0 .. MaxFaults /\ torn' \in BOOLEAN
    BY DEF Attempt
  <2> QED BY <2>1, <2>2, <2>3, <2>4, <2>5, <2>6, <2>7, <2>8
<1> USE DEF TypeOK, Numbered, Committed, BeforeAttempt, InAttempt, Handled, PassedState, SealedState,
           Protected, Over, Last, Attempt, Undone
<1>2. Numbered'  OBVIOUS
<1>3. Committed'  OBVIOUS
<1>4. BeforeAttempt'  OBVIOUS
<1>5. InAttempt'  OBVIOUS
<1>6. Handled'  OBVIOUS
<1>7. PassedState'  OBVIOUS
<1>8. SealedState'  OBVIOUS
<1>9. Protected'  OBVIOUS
<1> QED BY <1>1, <1>2, <1>3, <1>4, <1>5, <1>6, <1>7, <1>8, <1>9

LEMMA RecoverKeeps == ASSUME IInv, Recover PROVE IInv'
<1> USE BoundsAssumption DEF IInv, Recover, Goes, Fault, Raises, Then, Only, Writes, files
<1>1. TypeOK'
  <2> USE DEF TypeOK, InAttempt, BeforeAttempt, Numbered, Undone
  <2>1. stage' \in {"none", "partial", "complete"} /\ db' \in 0 .. MaxAttempts /\ sealed' \in BOOLEAN
    BY DEF Attempt
  <2>2. status' \in {"absent", "ready", "running", "retryable", "reconcile", "passed"}
    BY DEF Attempt
  <2>3. counted' \in 0 .. MaxAttempts /\ started' \subseteq Attempt
    BY DEF Attempt
  <2>4. outcome' \in [Attempt -> {"none", "passed"} \cup Undone]
    BY DEF Attempt
  <2>5. pending' \subseteq {"state", "started", "outcome"} /\ modes' \in {"open", "partly", "closed"}
    BY DEF Attempt
  <2>6. at' \in Steps
    BY DEF Steps
  <2>7. number' \in 0 .. MaxAttempts + 1 /\ trying' \in BOOLEAN
    BY DEF Attempt
  <2>8. faults' \in 0 .. MaxFaults /\ torn' \in BOOLEAN
    BY DEF Attempt
  <2> QED BY <2>1, <2>2, <2>3, <2>4, <2>5, <2>6, <2>7, <2>8
<1> USE DEF TypeOK, Numbered, Committed, BeforeAttempt, InAttempt, Handled, PassedState, SealedState,
           Protected, Over, Last, Attempt, Undone
<1>2. Numbered'  OBVIOUS
<1>3. Committed'  OBVIOUS
<1>4. BeforeAttempt'  OBVIOUS
<1>5. InAttempt'  OBVIOUS
<1>6. Handled'  OBVIOUS
<1>7. PassedState'  OBVIOUS
<1>8. SealedState'  OBVIOUS
<1>9. Protected'  OBVIOUS
<1> QED BY <1>1, <1>2, <1>3, <1>4, <1>5, <1>6, <1>7, <1>8, <1>9

LEMMA ClassifyKeeps == ASSUME IInv, Classify PROVE IInv'
<1> USE BoundsAssumption DEF IInv, Classify, AfterClassify, Goes, Fault, Raises, Then, Only, Writes, files
<1>1. TypeOK'
  <2> USE DEF TypeOK, InAttempt, BeforeAttempt, Numbered, Undone
  <2>1. stage' \in {"none", "partial", "complete"} /\ db' \in 0 .. MaxAttempts /\ sealed' \in BOOLEAN
    BY DEF Attempt
  <2>2. status' \in {"absent", "ready", "running", "retryable", "reconcile", "passed"}
    BY DEF Attempt
  <2>3. counted' \in 0 .. MaxAttempts /\ started' \subseteq Attempt
    BY DEF Attempt
  <2>4. outcome' \in [Attempt -> {"none", "passed"} \cup Undone]
    BY DEF Attempt
  <2>5. pending' \subseteq {"state", "started", "outcome"} /\ modes' \in {"open", "partly", "closed"}
    BY DEF Attempt
  <2>6. at' \in Steps
    BY DEF Steps
  <2>7. number' \in 0 .. MaxAttempts + 1 /\ trying' \in BOOLEAN
    BY DEF Attempt
  <2>8. faults' \in 0 .. MaxFaults /\ torn' \in BOOLEAN
    BY DEF Attempt
  <2> QED BY <2>1, <2>2, <2>3, <2>4, <2>5, <2>6, <2>7, <2>8
<1> USE DEF TypeOK, Numbered, Committed, BeforeAttempt, InAttempt, Handled, PassedState, SealedState,
           Protected, Over, Last, Attempt, Undone
<1>2. Numbered'  OBVIOUS
<1>3. Committed'  OBVIOUS
<1>4. BeforeAttempt'  OBVIOUS
<1>5. InAttempt'  OBVIOUS
<1>6. Handled'  OBVIOUS
<1>7. PassedState'  OBVIOUS
<1>8. SealedState'  OBVIOUS
<1>9. Protected'  OBVIOUS
<1> QED BY <1>1, <1>2, <1>3, <1>4, <1>5, <1>6, <1>7, <1>8, <1>9

LEMMA FailedKeeps == ASSUME IInv, Failed PROVE IInv'
<1> USE BoundsAssumption DEF IInv, Failed, Goes, Fault, Raises, Then, Only, Writes, files
<1>1. TypeOK'
  <2> USE DEF TypeOK, InAttempt, BeforeAttempt, Numbered, Undone
  <2>1. stage' \in {"none", "partial", "complete"} /\ db' \in 0 .. MaxAttempts /\ sealed' \in BOOLEAN
    BY DEF Attempt
  <2>2. status' \in {"absent", "ready", "running", "retryable", "reconcile", "passed"}
    BY DEF Attempt
  <2>3. counted' \in 0 .. MaxAttempts /\ started' \subseteq Attempt
    BY DEF Attempt
  <2>4. outcome' \in [Attempt -> {"none", "passed"} \cup Undone]
    BY DEF Attempt
  <2>5. pending' \subseteq {"state", "started", "outcome"} /\ modes' \in {"open", "partly", "closed"}
    BY DEF Attempt
  <2>6. at' \in Steps
    BY DEF Steps
  <2>7. number' \in 0 .. MaxAttempts + 1 /\ trying' \in BOOLEAN
    BY DEF Attempt
  <2>8. faults' \in 0 .. MaxFaults /\ torn' \in BOOLEAN
    BY DEF Attempt
  <2> QED BY <2>1, <2>2, <2>3, <2>4, <2>5, <2>6, <2>7, <2>8
<1> USE DEF TypeOK, Numbered, Committed, BeforeAttempt, InAttempt, Handled, PassedState, SealedState,
           Protected, Over, Last, Attempt, Undone
<1>2. Numbered'  OBVIOUS
<1>3. Committed'  OBVIOUS
<1>4. BeforeAttempt'  OBVIOUS
<1>5. InAttempt'  OBVIOUS
<1>6. Handled'  OBVIOUS
<1>7. PassedState'  OBVIOUS
<1>8. SealedState'  OBVIOUS
<1>9. Protected'  OBVIOUS
<1> QED BY <1>1, <1>2, <1>3, <1>4, <1>5, <1>6, <1>7, <1>8, <1>9

LEMMA GiveUpKeeps == ASSUME IInv, GiveUp PROVE IInv'
<1> USE BoundsAssumption DEF IInv, GiveUp, Goes, Fault, Raises, Then, Only, Writes, files
<1>1. TypeOK'
  <2> USE DEF TypeOK, InAttempt, BeforeAttempt, Numbered, Undone
  <2>1. stage' \in {"none", "partial", "complete"} /\ db' \in 0 .. MaxAttempts /\ sealed' \in BOOLEAN
    BY DEF Attempt
  <2>2. status' \in {"absent", "ready", "running", "retryable", "reconcile", "passed"}
    BY DEF Attempt
  <2>3. counted' \in 0 .. MaxAttempts /\ started' \subseteq Attempt
    BY DEF Attempt
  <2>4. outcome' \in [Attempt -> {"none", "passed"} \cup Undone]
    BY DEF Attempt
  <2>5. pending' \subseteq {"state", "started", "outcome"} /\ modes' \in {"open", "partly", "closed"}
    BY DEF Attempt
  <2>6. at' \in Steps
    BY DEF Steps
  <2>7. number' \in 0 .. MaxAttempts + 1 /\ trying' \in BOOLEAN
    BY DEF Attempt
  <2>8. faults' \in 0 .. MaxFaults /\ torn' \in BOOLEAN
    BY DEF Attempt
  <2> QED BY <2>1, <2>2, <2>3, <2>4, <2>5, <2>6, <2>7, <2>8
<1> USE DEF TypeOK, Numbered, Committed, BeforeAttempt, InAttempt, Handled, PassedState, SealedState,
           Protected, Over, Last, Attempt, Undone
<1>2. Numbered'  OBVIOUS
<1>3. Committed'  OBVIOUS
<1>4. BeforeAttempt'  OBVIOUS
<1>5. InAttempt'  OBVIOUS
<1>6. Handled'  OBVIOUS
<1>7. PassedState'  OBVIOUS
<1>8. SealedState'  OBVIOUS
<1>9. Protected'  OBVIOUS
<1> QED BY <1>1, <1>2, <1>3, <1>4, <1>5, <1>6, <1>7, <1>8, <1>9

LEMMA LeaveKeeps == ASSUME IInv, Leave PROVE IInv'
<1> USE BoundsAssumption DEF IInv, Leave, Goes, Fault, Raises, Then, Only, Writes, files
<1>1. TypeOK'
  <2> USE DEF TypeOK, InAttempt, BeforeAttempt, Numbered, Undone
  <2>1. stage' \in {"none", "partial", "complete"} /\ db' \in 0 .. MaxAttempts /\ sealed' \in BOOLEAN
    BY DEF Attempt
  <2>2. status' \in {"absent", "ready", "running", "retryable", "reconcile", "passed"}
    BY DEF Attempt
  <2>3. counted' \in 0 .. MaxAttempts /\ started' \subseteq Attempt
    BY DEF Attempt
  <2>4. outcome' \in [Attempt -> {"none", "passed"} \cup Undone]
    BY DEF Attempt
  <2>5. pending' \subseteq {"state", "started", "outcome"} /\ modes' \in {"open", "partly", "closed"}
    BY DEF Attempt
  <2>6. at' \in Steps
    BY DEF Steps
  <2>7. number' \in 0 .. MaxAttempts + 1 /\ trying' \in BOOLEAN
    BY DEF Attempt
  <2>8. faults' \in 0 .. MaxFaults /\ torn' \in BOOLEAN
    BY DEF Attempt
  <2> QED BY <2>1, <2>2, <2>3, <2>4, <2>5, <2>6, <2>7, <2>8
<1> USE DEF TypeOK, Numbered, Committed, BeforeAttempt, InAttempt, Handled, PassedState, SealedState,
           Protected, Over, Last, Attempt, Undone
<1>2. Numbered'  OBVIOUS
<1>3. Committed'  OBVIOUS
<1>4. BeforeAttempt'  OBVIOUS
<1>5. InAttempt'  OBVIOUS
<1>6. Handled'  OBVIOUS
<1>7. PassedState'  OBVIOUS
<1>8. SealedState'  OBVIOUS
<1>9. Protected'  OBVIOUS
<1> QED BY <1>1, <1>2, <1>3, <1>4, <1>5, <1>6, <1>7, <1>8, <1>9

LEMMA FailsKeeps == ASSUME IInv, Fails PROVE IInv'
<1> USE BoundsAssumption DEF IInv, Fails, Tears, Goes, Fault, Raises, Then, Only, Writes, files
<1>1. TypeOK'
  <2> USE DEF TypeOK, InAttempt, BeforeAttempt, Numbered, Undone
  <2>1. stage' \in {"none", "partial", "complete"} /\ db' \in 0 .. MaxAttempts /\ sealed' \in BOOLEAN
    BY DEF Attempt
  <2>2. status' \in {"absent", "ready", "running", "retryable", "reconcile", "passed"}
    BY DEF Attempt
  <2>3. counted' \in 0 .. MaxAttempts /\ started' \subseteq Attempt
    BY DEF Attempt
  <2>4. outcome' \in [Attempt -> {"none", "passed"} \cup Undone]
    BY DEF Attempt
  <2>5. pending' \subseteq {"state", "started", "outcome"} /\ modes' \in {"open", "partly", "closed"}
    BY DEF Attempt
  <2>6. at' \in Steps
    BY DEF Steps
  <2>7. number' \in 0 .. MaxAttempts + 1 /\ trying' \in BOOLEAN
    BY DEF Attempt
  <2>8. faults' \in 0 .. MaxFaults /\ torn' \in BOOLEAN
    BY DEF Attempt
  <2> QED BY <2>1, <2>2, <2>3, <2>4, <2>5, <2>6, <2>7, <2>8
<1> USE DEF TypeOK, Numbered, Committed, BeforeAttempt, InAttempt, Handled, PassedState, SealedState,
           Protected, Over, Last, Attempt, Undone
<1>2. Numbered'  OBVIOUS
<1>3. Committed'  OBVIOUS
<1>4. BeforeAttempt'  OBVIOUS
<1>5. InAttempt'  OBVIOUS
<1>6. Handled'  OBVIOUS
<1>7. PassedState'  OBVIOUS
<1>8. SealedState'  OBVIOUS
<1>9. Protected'  OBVIOUS
<1> QED BY <1>1, <1>2, <1>3, <1>4, <1>5, <1>6, <1>7, <1>8, <1>9

LEMMA DiesKeeps == ASSUME IInv, Dies PROVE IInv'
<1> USE BoundsAssumption DEF IInv, Dies, Tears, Half, Goes, Fault, Raises, Then, Only, Writes, files
<1>1. TypeOK'
  <2> USE DEF TypeOK, InAttempt, BeforeAttempt, Numbered, Undone
  <2>1. stage' \in {"none", "partial", "complete"} /\ db' \in 0 .. MaxAttempts /\ sealed' \in BOOLEAN
    BY DEF Attempt
  <2>2. status' \in {"absent", "ready", "running", "retryable", "reconcile", "passed"}
    BY DEF Attempt
  <2>3. counted' \in 0 .. MaxAttempts /\ started' \subseteq Attempt
    BY DEF Attempt
  <2>4. outcome' \in [Attempt -> {"none", "passed"} \cup Undone]
    BY DEF Attempt
  <2>5. pending' \subseteq {"state", "started", "outcome"} /\ modes' \in {"open", "partly", "closed"}
    BY DEF Attempt
  <2>6. at' \in Steps
    BY DEF Steps
  <2>7. number' \in 0 .. MaxAttempts + 1 /\ trying' \in BOOLEAN
    BY DEF Attempt
  <2>8. faults' \in 0 .. MaxFaults /\ torn' \in BOOLEAN
    BY DEF Attempt
  <2> QED BY <2>1, <2>2, <2>3, <2>4, <2>5, <2>6, <2>7, <2>8
<1> USE DEF TypeOK, Numbered, Committed, BeforeAttempt, InAttempt, Handled, PassedState, SealedState,
           Protected, Over, Last, Attempt, Undone
<1>2. Numbered'  OBVIOUS
<1>3. Committed'  OBVIOUS
<1>4. BeforeAttempt'  OBVIOUS
<1>5. InAttempt'  OBVIOUS
<1>6. Handled'  OBVIOUS
<1>7. PassedState'  OBVIOUS
<1>8. SealedState'  OBVIOUS
<1>9. Protected'  OBVIOUS
<1> QED BY <1>1, <1>2, <1>3, <1>4, <1>5, <1>6, <1>7, <1>8, <1>9
-----------------------------------------------------------------------------
LEMMA NextKeeps == IInv /\ [Next]_vars => IInv'
<1> SUFFICES ASSUME IInv, [Next]_vars PROVE IInv'
  OBVIOUS
<1>1. CASE Next
  BY <1>1, CallKeeps, PrepareKeeps, MkdirKeeps, FillKeeps, PublishKeeps, ReadKeeps, ExhaustedKeeps, TidyKeeps, OpenKeeps, SealKeeps, SettleKeeps, MarkKeeps, InterruptedKeeps, RetryableKeeps, StartKeeps, RunningKeeps, ConnectKeeps, CommitKeeps, CheckKeeps, OutcomeKeeps, PassedKeeps, ReissueKeeps, IssueKeeps, ProtectKeeps, CloseKeeps, RecoverKeeps, ClassifyKeeps, FailedKeeps, GiveUpKeeps, LeaveKeeps, FailsKeeps, DiesKeeps DEF Next, Step
<1>2. CASE UNCHANGED vars
  BY <1>2 DEF IInv, TypeOK, Numbered, Committed, BeforeAttempt, InAttempt, Handled, PassedState,
     SealedState, Protected, Last, ExactReceipt, vars, files
<1> QED BY <1>1, <1>2

LEMMA IInvHolds == Spec => []IInv
BY InitIInv, NextKeeps, PTL DEF Spec

\* Types, and with them: attempts numbered without a gap under their limit.
THEOREM TypesHold == Spec => [](TypeOK /\ Numbered)
BY IInvHolds, PTL DEF IInv

\* A receipt of an attempt says what the database says, however often and
\* wherever the command died or failed: passed is committed, failed and
\* interrupted are rolled back.
THEOREM OutcomesTrue == Spec => []OutcomesAreTrue
<1>1. IInv => OutcomesAreTrue
  BY BoundsAssumption DEF IInv, TypeOK, Numbered, Committed, OutcomesAreTrue, Attempt, Undone
<1> QED BY <1>1, IInvHolds, PTL

\* A passed state is one on which the result is issued again by every call,
\* unless the handler reopened the database and died.
THEOREM PassedWhole == Spec => []PassedIsWhole
<1>1. IInv => PassedIsWhole
  BY BoundsAssumption DEF IInv, TypeOK, Numbered, Committed, PassedState, SealedState, PassedIsWhole,
     ExactReceipt, Last, Attempt, Undone
<1> QED BY <1>1, IInvHolds, PTL

\* No call, death or failure changes an artifact once it is protected.
THEOREM ProtectedStays == Spec => ProtectedForGood
<1>1. ASSUME IInv, [Next]_vars, modes = "closed" PROVE UNCHANGED files
  <2>1. at \in Over /\ status = "passed" /\ pending = {} /\ started # {}
    BY <1>1, FS_EmptySet DEF IInv, Protected, PassedState, Committed, Last
  <2>2. CASE Next
    BY <1>1, <2>1, <2>2 DEF Over, Next, Step, Call, Prepare, Mkdir, Fill, Publish, Read, Exhausted,
       Tidy, Open, Seal, Settle, Mark, Interrupted, Retryable, Start, Running, Connect, Commit,
       Check, Outcome, Passed, Reissue, Issue, Protect, Close, Recover, Classify, Failed, GiveUp,
       Leave, Fails, Dies, Goes, Then, Only, Writes, Half, files
  <2> QED BY <1>1, <2>2 DEF vars
<1> QED BY <1>1, IInvHolds, PTL DEF Spec, ProtectedForGood
-----------------------------------------------------------------------------
(* The promise.                                                              *)

PromiseStep == [Promise!PromiseNext]_(Promise!promiseVars)

\* A step that leaves receipts and database, and does not finish the protection, is
\* none of the promise.
LEMMA QuietStep ==
    ASSUME UNCHANGED <<db, started, outcome>>, modes = "closed" <=> modes' = "closed"
    PROVE  PromiseStep
BY DEF PromiseStep, Promise!promiseVars

\* _write_exclusive of the started receipt: the source is there, and every attempt
\* before has an outcome.
LEMMA StartBegins == ASSUME IInv, Start PROVE PromiseStep
<1> USE BoundsAssumption
<1>1. /\ db = 0 /\ number = Last + 1 /\ Last \in Nat /\ Last < MaxAttempts
      /\ started = 1 .. Last /\ (Last # 0 => outcome[Last] \in Undone)
      /\ \A n \in Attempt : n < Last => outcome[n] \in Undone
  BY DEF IInv, BeforeAttempt, Numbered, Start
<1>2. started' = started \cup {number} /\ UNCHANGED <<db, outcome, modes>>
  BY DEF Start, Writes, Only
<1>3. Cardinality(started') = Cardinality(started) + 1
  <2>1. IsFiniteSet(started) /\ number \notin started
    BY <1>1, FS_Interval
  <2> QED BY <1>2, <2>1, FS_AddElement
<1>4. \A n \in 1 .. Last : outcome[n] \in Undone
  BY <1>1 DEF Attempt
<1>5. Promise!Begin
  BY <1>1, <1>2, <1>3, <1>4 DEF Promise!Begin, Promise!RolledBack, Undone, Last
<1> QED BY <1>5 DEF PromiseStep, Promise!PromiseNext

\* COMMIT of the migration, under an attempt that has no outcome.
LEMMA CommitsOnce == ASSUME IInv, Commit PROVE PromiseStep
<1>1. /\ db = 0 /\ number = Last /\ Last # 0 /\ outcome[Last] = "none"
  BY DEF IInv, InAttempt, Commit, Attempt
<1>2. db' = number /\ UNCHANGED <<started, outcome, modes>>
  BY DEF Commit, Only
<1>3. Promise!CommitOnce
  BY <1>1, <1>2 DEF Promise!CommitOnce, Last
<1> QED BY <1>3 DEF PromiseStep, Promise!PromiseNext

\* An outcome receipt is of the last attempt, and says what the database says.
LEMMA OutcomeJudges ==
    ASSUME IInv, Last # 0, UNCHANGED <<db, started, modes>>,
           NEW v \in IF db = Last THEN {"passed"} ELSE Undone,
           outcome[Last] = "none",
           outcome' = [outcome EXCEPT ![Last] = v]
    PROVE  PromiseStep
<1>1. Promise!Judge
  BY DEF Promise!Judge, Promise!RolledBack, Undone, Last
<1> QED BY <1>1 DEF PromiseStep, Promise!PromiseNext

\* The outcome of a committed attempt.
LEMMA OutcomePasses == ASSUME IInv, Outcome PROVE PromiseStep
<1> USE BoundsAssumption
<1>1. number = Last /\ Last \in Attempt /\ db = Last /\ Last # 0
  BY DEF IInv, InAttempt, Outcome, Attempt
<1>2. outcome' = [outcome EXCEPT ![Last] = "passed"] /\ UNCHANGED <<db, started, modes>>
  BY <1>1 DEF Outcome, Writes, Only
<1>3. outcome[Last] \in {"none", "passed"} /\ outcome \in [Attempt -> {"none", "passed"} \cup Undone]
  BY <1>1 DEF IInv, Committed, TypeOK
<1>4. CASE outcome[Last] = "none"
  BY <1>1, <1>2, <1>4, OutcomeJudges
<1>5. CASE outcome[Last] = "passed"
  <2>1. outcome' = outcome
    BY <1>1, <1>2, <1>3, <1>5
  <2> QED BY <1>2, <2>1, QuietStep
<1> QED BY <1>3, <1>4, <1>5

\* The outcome of an attempt an earlier call has left.
LEMMA InterruptedJudges == ASSUME IInv, Interrupted PROVE PromiseStep
<1> USE BoundsAssumption
<1>1. db = 0 /\ number - 1 = Last /\ Last # 0 /\ outcome[Last] = "none"
  BY DEF IInv, BeforeAttempt, Numbered, Interrupted
<1>2. /\ outcome' = [outcome EXCEPT ![Last] = "interrupted"]
      /\ UNCHANGED <<db, started, modes>>
  BY <1>1 DEF Interrupted, Writes, Only
<1> QED BY <1>1, <1>2, OutcomeJudges DEF Undone

\* The outcome the handler writes.
LEMMA FailedJudges == ASSUME IInv, Failed PROVE PromiseStep
<1> USE BoundsAssumption
<1>1. db = 0 /\ number = Last /\ Last # 0 /\ Last \in Attempt /\ outcome[Last] = "none"
  BY DEF IInv, InAttempt, Failed, Attempt
<1>2. outcome' = [outcome EXCEPT ![Last] = "failed"] /\ UNCHANGED <<db, started, modes>>
  BY <1>1 DEF Failed, Writes, Only, IInv, TypeOK
<1> QED BY <1>1, <1>2, OutcomeJudges DEF Undone

\* The end of _protect_artifact, over a passed state.
LEMMA CloseReturns == ASSUME IInv, Close PROVE PromiseStep
<1>1. db # 0 /\ outcome[db] = "passed"
  BY DEF IInv, Handled, PassedState, Close
<1>2. modes' = "closed" /\ UNCHANGED <<db, started, outcome>>
  BY DEF Close, Only
<1>3. CASE modes # "closed"
  <2>1. Promise!Return
    BY <1>1, <1>2, <1>3 DEF Promise!Return
  <2> QED BY <2>1 DEF PromiseStep, Promise!PromiseNext
<1>4. CASE modes = "closed"
  BY <1>2, <1>4, QuietStep
<1> QED BY <1>3, <1>4

\* Every step of the command is one of the promise or changes nothing it speaks of.
LEMMA NextPromised == IInv /\ [Next]_vars => PromiseStep
<1> SUFFICES ASSUME IInv, [Next]_vars PROVE PromiseStep
  OBVIOUS
<1>1. CASE Call \/ Prepare \/ Mkdir \/ Fill \/ Publish \/ Read \/ Exhausted \/ Tidy
  <2>1. UNCHANGED <<db, started, outcome, modes>>
    BY <1>1 DEF Call, Prepare, Mkdir, Fill, Publish, Read, Exhausted, Tidy, Only, files
  <2> QED BY <2>1, QuietStep
<1>2. CASE Open \/ Seal \/ Settle \/ Mark \/ Retryable \/ Running \/ Connect \/ Check
  <2>1. UNCHANGED <<db, started, outcome, modes>>
    BY <1>2 DEF Open, Seal, Settle, Mark, Retryable, Running, Connect, Check, Only, Writes
  <2> QED BY <2>1, QuietStep
<1>3. CASE Passed \/ Reissue \/ Issue \/ Recover \/ Classify \/ GiveUp \/ Leave
  <2>1. UNCHANGED <<db, started, outcome, modes>>
    BY <1>3 DEF Passed, Reissue, Issue, Recover, Classify, GiveUp, Leave, Only, Writes, files
  <2> QED BY <2>1, QuietStep
<1>4. CASE Protect
  <2>1. UNCHANGED <<db, started, outcome>> /\ (modes = "closed" <=> modes' = "closed")
    BY <1>4 DEF Protect, Only
  <2> QED BY <2>1, QuietStep
<1>5. CASE Fails \/ Dies \/ UNCHANGED vars
  <2>1. UNCHANGED <<db, started, outcome, modes>>
    BY <1>5 DEF Fails, Dies, vars, files
  <2> QED BY <2>1, QuietStep
<1> QED BY <1>1, <1>2, <1>3, <1>4, <1>5, StartBegins, CommitsOnce, OutcomePasses,
           InterruptedJudges, FailedJudges, CloseReturns DEF Next, Step

\* A migration implements its promise, for any limit of attempts and any faults: one
\* commit at most, a true and final verdict on each attempt, none begun before the
\* last is judged, and a result only of the committed one.
THEOREM MigrationPromised == Spec => KeepsMigrationPromise
<1>1. Init => Promise!PromiseInit
  BY FS_EmptySet DEF Init, Promise!PromiseInit, Attempt
<1>2. IInv /\ [Next]_vars => [Promise!PromiseNext]_(Promise!promiseVars)
  BY NextPromised DEF PromiseStep
<1> QED BY <1>1, <1>2, IInvHolds, PTL DEF Spec, KeepsMigrationPromise, Promise!PromiseSpec
=============================================================================
