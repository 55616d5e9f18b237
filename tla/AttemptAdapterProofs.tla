------------------------ MODULE AttemptAdapterProofs ------------------------
(***************************************************************************)
(* What holds of the Attempt adapter for any number of Attempts,           *)
(* controllers and workers, with crashes and revocation: types, that no    *)
(* effect precedes its durable intent, that one app server at most runs    *)
(* for an Attempt, and that what the journal says of a terminal record is  *)
(* true and stays true.  Then, with one controller at a time, that the     *)
(* adapter keeps the promise of AttemptPromise.                            *)
(***************************************************************************)
EXTENDS AttemptRefinement, TLAPS

\* A journal has a last trusted row.
HasHead(rows) == \E i \in Trusted(rows) : \A j \in Trusted(rows) : j <= i

\* Appending keeps every row, at its place.
LEMMA AppendedKeepsRows ==
    ASSUME NEW S, NEW rows \in Seq(S), NEW row \in S
    PROVE  /\ Appended(rows, row) \in Seq(S)
           /\ \A i \in DOMAIN rows :
                 i \in DOMAIN Appended(rows, row) /\ Appended(rows, row)[i] = rows[i]
BY DEF Appended

\* Keys once used stay used, and the appended row's key is used.
LEMMA AppendedKeepsKeys ==
    ASSUME NEW S, NEW rows \in Seq(S), NEW row \in S
    PROVE  /\ HasKey(Appended(rows, row), row.key)
           /\ \A key : HasKey(rows, key) => HasKey(Appended(rows, row), key)
<1>1. HasKey(Appended(rows, row), row.key)
  <2>1. CASE HasKey(rows, row.key)
    BY <2>1 DEF Appended
  <2>2. CASE ~HasKey(rows, row.key)
    <3>1. /\ Appended(rows, row) = Append(rows, row)
          /\ Len(rows) + 1 \in DOMAIN Append(rows, row)
          /\ Append(rows, row)[Len(rows) + 1] = row
      BY <2>2 DEF Appended
    <3> QED BY <3>1 DEF HasKey
  <2> QED BY <2>1, <2>2
<1>2. ASSUME NEW key, HasKey(rows, key)
      PROVE  HasKey(Appended(rows, row), key)
  <2>1. PICK i \in DOMAIN rows : rows[i].key = key
    BY <1>2 DEF HasKey
  <2>2. i \in DOMAIN Appended(rows, row) /\ Appended(rows, row)[i] = rows[i]
    BY AppendedKeepsRows
  <2> QED BY <2>1, <2>2 DEF HasKey
<1> QED BY <1>1, <1>2

\* A journal with a head keeps one, whatever is appended; a first trusted row
\* gives it one.
LEMMA AppendedKeepsHead ==
    ASSUME NEW rows \in Seq(RowType), NEW row \in RowType,
           HasHead(rows) \/ (rows = <<>> /\ row.evidence_only = FALSE)
    PROVE  HasHead(Appended(rows, row))
<1>1. CASE HasKey(rows, row.key)
  <2>1. rows # <<>>
    BY <1>1 DEF HasKey
  <2> QED BY <1>1, <2>1 DEF Appended
<1>2. CASE ~HasKey(rows, row.key)
  <2> DEFINE new == Append(rows, row)
             n == Len(rows)
  <2>1. /\ Appended(rows, row) = new
        /\ n \in Nat
        /\ DOMAIN rows = 1 .. n
        /\ DOMAIN new = 1 .. (n + 1)
        /\ new[n + 1] = row
        /\ \A i \in 1 .. n : new[i] = rows[i]
    BY <1>2 DEF Appended
  <2>2. CASE row.evidence_only = FALSE
    <3>1. n + 1 \in Trusted(new)
      BY <2>1, <2>2 DEF Trusted
    <3>2. \A j \in Trusted(new) : j <= n + 1
      BY <2>1 DEF Trusted
    <3> QED BY <2>1, <3>1, <3>2 DEF HasHead
  <2>3. CASE row.evidence_only = TRUE
    <3>1. HasHead(rows)
      BY <2>3
    <3>2. Trusted(new) = Trusted(rows)
      <4> HIDE DEF new, n
      <4> QED BY <2>1, <2>3 DEF Trusted
    <3> QED BY <2>1, <3>1, <3>2 DEF HasHead
  <2>4. row.evidence_only \in BOOLEAN
    BY DEF RowType
  <2> QED BY <2>2, <2>3, <2>4
<1> QED BY <1>1, <1>2

\* The head of a journal that has one is an Attempt state.
LEMMA HeadIsState ==
    ASSUME NEW rows \in Seq(RowType), HasHead(rows)
    PROVE  HeadState(rows) \in AttemptStates
<1>1. LastTrusted(rows) \in Trusted(rows)
  BY DEF HasHead, LastTrusted
<1>2. LastTrusted(rows) \in DOMAIN rows
  BY <1>1 DEF Trusted
<1>3. rows[LastTrusted(rows)] \in RowType
  BY <1>2
<1> QED BY <1>3 DEF HeadState, RowType
-----------------------------------------------------------------------------
(* The inductive invariant.                                                  *)

\* Every journal with rows has a head, so a record read has a state.
HeadsOK == \A a \in Attempt : log[a] # <<>> => HasHead(log[a])

\* The steps of a call that may be taken on an Attempt with no journal.
BeforeRecord == {"idle", "staging", "insert", "revoking"}

\* Past those steps the Attempt of a call is in the journal.
CallsRecorded ==
    \A c \in Controller :
        ctrl[c].pc \notin BeforeRecord => Recorded(ctrl[c].attempt)

\* A call that is about to act on the provider has its intent in the journal.
CallsIntended ==
    \A c \in Controller :
        /\ ctrl[c].pc = "call" => Requested(ctrl[c].attempt, ctrl[c].op)
        /\ ctrl[c].pc \in {"bind", "spawn", "claim"} =>
              Requested(ctrl[c].attempt, "launch")

\* A call that seals or records holds an answer of the provider.
CallsAnswered ==
    \A c \in Controller :
        /\ ctrl[c].pc \in {"seal", "sealing"} => ctrl[c].obs \in Outcomes
        /\ ctrl[c].pc = "record" => ctrl[c].obs \in Observations

\* A worker that runs its app server is the one worker-owner.json names.
RunningOwns ==
    \A w \in Worker :
        worker[w].status = "running" => owner[worker[w].attempt] = w

Typed == TypeOK /\ HeadsOK /\ CallsRecorded

\* Journals only gain rows.
LogsGrow ==
    /\ \A a \in Attempt : Recorded(a) => Recorded(a)'
    /\ \A a \in Attempt, op \in Operations : Requested(a, op) => Requested(a, op)'

LEMMA SameLogGrows == ASSUME UNCHANGED log PROVE LogsGrow
BY DEF LogsGrow, Recorded, Requested

\* One controller moves to a well-typed call.
LEMMA CallMoves ==
    ASSUME CtrlTypeOK, CallsRecorded, LogsGrow,
           NEW c \in Controller, NEW call \in CallType,
           call.pc # "idle" => call.attempt \in Attempt,
           call.pc \notin BeforeRecord => log'[call.attempt] # <<>>,
           ctrl' = [ctrl EXCEPT ![c] = call]
    PROVE  CtrlTypeOK' /\ CallsRecorded'
<1>1. ctrl' \in [Controller -> CallType]
  BY DEF CtrlTypeOK
<1>2. \A d \in Controller : ctrl'[d] = IF d = c THEN call ELSE ctrl[d]
  BY DEF CtrlTypeOK
<1>3. ASSUME NEW d \in Controller
      PROVE  /\ ctrl'[d].pc # "idle" => ctrl'[d].attempt \in Attempt
             /\ ctrl'[d].pc \notin BeforeRecord => log'[ctrl'[d].attempt] # <<>>
  <2>1. CASE d = c
    BY <1>2, <2>1
  <2>2. CASE d # c
    BY <1>2, <2>2 DEF CtrlTypeOK, CallsRecorded, LogsGrow, Recorded, BeforeRecord
  <2> QED BY <2>1, <2>2
<1> QED BY <1>1, <1>3 DEF CtrlTypeOK, CallsRecorded, Recorded

LEMMA IdleIsCall == Idle \in CallType
BY DEF Idle, CallType, Steps, Operations, AttemptStates, Details

\* At(c, pc) is a call of the same Attempt, or none.
LEMMA AtIsCall ==
    ASSUME CtrlTypeOK, NEW c \in Controller, ctrl[c].pc # "idle", NEW pc \in Steps
    PROVE  /\ At(c, pc) \in CallType
           /\ At(c, pc).pc = pc
           /\ pc # "idle" => /\ At(c, pc).attempt = ctrl[c].attempt
                            /\ At(c, pc).op = ctrl[c].op
           /\ ctrl[c].attempt \in Attempt
BY IdleIsCall DEF CtrlTypeOK, CallType, At, Idle

\* Posting a row, or failing to.
LEMMA PostStep ==
    ASSUME Typed, NEW c \in Controller, ctrl[c].pc # "idle",
           NEW row \in RowType, NEW pc \in Steps,
           Recorded(ctrl[c].attempt) \/ row.evidence_only = FALSE,
           Post(c, row, pc)
    PROVE  /\ log' \in [Attempt -> Seq(RowType)]
           /\ HeadsOK' /\ CtrlTypeOK' /\ CallsRecorded'
           /\ LogsGrow
           /\ HasKey(log'[ctrl[c].attempt], row.key)
           /\ \E q \in {pc, "idle"} : ctrl' = [ctrl EXCEPT ![c] = At(c, q)]
<1> DEFINE a == ctrl[c].attempt
<1>1. a \in Attempt /\ log[a] \in Seq(RowType)
  BY DEF Typed, TypeOK, CtrlTypeOK
<1>2. log' = [log EXCEPT ![a] = Appended(log[a], row)]
  BY DEF Post
<1>3. Appended(log[a], row) \in Seq(RowType)
  BY <1>1, AppendedKeepsRows
<1>4. log' \in [Attempt -> Seq(RowType)]
  BY <1>1, <1>2, <1>3 DEF Typed, TypeOK
<1>5. log'[a] = Appended(log[a], row)
  BY <1>1, <1>2 DEF Typed, TypeOK
<1>6. \A b \in Attempt : b # a => log'[b] = log[b]
  BY <1>1, <1>2 DEF Typed, TypeOK
<1>7. HasKey(log'[a], row.key)
  BY <1>1, <1>5, AppendedKeepsKeys
<1>8. log'[a] # <<>>
  BY <1>7 DEF HasKey
<1>9. HasHead(log'[a])
  <2>1. HasHead(log[a]) \/ (log[a] = <<>> /\ row.evidence_only = FALSE)
    BY <1>1 DEF Typed, HeadsOK, Recorded
  <2> QED BY <1>1, <1>5, <2>1, AppendedKeepsHead
<1>10. HeadsOK'
  BY <1>6, <1>9 DEF Typed, HeadsOK
<1>11. LogsGrow
  <2>1. ASSUME NEW b \in Attempt, Recorded(b) PROVE Recorded(b)'
    BY <1>6, <1>8, <2>1 DEF Recorded
  <2>2. ASSUME NEW b \in Attempt, NEW op \in Operations, Requested(b, op)
        PROVE  Requested(b, op)'
    <3>1. CASE b = a
      BY <1>1, <1>5, <2>2, <3>1, AppendedKeepsKeys DEF Requested
    <3>2. CASE b # a
      BY <1>6, <2>2, <3>2 DEF Requested
    <3> QED BY <3>1, <3>2
  <2> QED BY <2>1, <2>2 DEF LogsGrow
<1>12. PICK q \in {pc, "idle"} : ctrl' = [ctrl EXCEPT ![c] = At(c, q)]
  BY DEF Post, Goto
<1>13. q \in Steps
  BY DEF Steps
<1>14. CtrlTypeOK' /\ CallsRecorded'
  <2>1. CtrlTypeOK /\ CallsRecorded
    BY DEF Typed, TypeOK
  <2>2. /\ At(c, q) \in CallType
        /\ At(c, q).pc = q
        /\ q # "idle" => At(c, q).attempt = a
    BY <1>13, <2>1, AtIsCall
  <2>3. At(c, q).pc # "idle" => At(c, q).attempt \in Attempt
    BY <1>1, <2>2
  <2>4. At(c, q).pc \notin BeforeRecord => log'[At(c, q).attempt] # <<>>
    BY <1>8, <2>2 DEF BeforeRecord
  <2> HIDE DEF a
  <2> QED BY <1>11, <1>12, <2>1, <2>2, <2>3, <2>4, CallMoves
<1> QED BY <1>4, <1>7, <1>10, <1>11, <1>12, <1>14
-----------------------------------------------------------------------------
(* The ways a call moves without touching the journal.                       *)

\* A record that was read has a state and may name a handle.
LEMMA RecordRead ==
    ASSUME Typed, NEW a \in Attempt, Recorded(a)
    PROVE  HeadState(log[a]) \in AttemptStates /\ HasProviderRef(log[a]) \in BOOLEAN
<1>1. log[a] \in Seq(RowType) /\ HasHead(log[a])
  BY DEF Typed, TypeOK, HeadsOK, Recorded
<1>2. HeadState(log[a]) \in AttemptStates
  BY <1>1, HeadIsState
<1>3. HasProviderRef(log[a]) \in BOOLEAN
  BY DEF HasProviderRef
<1> QED BY <1>2, <1>3

LEMMA BeginStep ==
    ASSUME Typed, UNCHANGED log, NEW c \in Controller, NEW a \in Attempt,
           NEW op \in Operations, NEW pc \in Steps, Recorded(a), Begin(c, a, op, pc)
    PROVE  CtrlTypeOK' /\ CallsRecorded'
<1> DEFINE call == [pc |-> pc, op |-> op, attempt |-> a,
                    state |-> HeadState(log[a]), ref |-> HasProviderRef(log[a]),
                    obs |-> "none", child |-> NoWorker, fencing |-> FALSE]
<1>1. call \in CallType
  BY RecordRead DEF CallType, Details
<1>2. /\ ctrl' = [ctrl EXCEPT ![c] = call]
      /\ call.pc # "idle" => call.attempt \in Attempt
      /\ call.pc \notin BeforeRecord => log'[call.attempt] # <<>>
  BY DEF Begin, Recorded
<1>3. CtrlTypeOK /\ CallsRecorded /\ LogsGrow
  BY SameLogGrows DEF Typed, TypeOK
<1> HIDE DEF call
<1> QED BY <1>1, <1>2, <1>3, CallMoves

LEMMA GotoStep ==
    ASSUME Typed, UNCHANGED log, NEW c \in Controller, ctrl[c].pc # "idle",
           NEW pc \in Steps, pc \notin BeforeRecord => Recorded(ctrl[c].attempt),
           Goto(c, pc)
    PROVE  CtrlTypeOK' /\ CallsRecorded'
<1>1. CtrlTypeOK /\ CallsRecorded /\ LogsGrow
  BY SameLogGrows DEF Typed, TypeOK
<1>2. /\ At(c, pc) \in CallType
      /\ At(c, pc).pc = pc
      /\ pc # "idle" => At(c, pc).attempt = ctrl[c].attempt
      /\ ctrl[c].attempt \in Attempt
  BY <1>1, AtIsCall
<1>3. /\ At(c, pc).pc # "idle" => At(c, pc).attempt \in Attempt
      /\ At(c, pc).pc \notin BeforeRecord => log'[At(c, pc).attempt] # <<>>
      /\ ctrl' = [ctrl EXCEPT ![c] = At(c, pc)]
  BY <1>2 DEF Recorded, BeforeRecord, Goto
<1> QED BY <1>1, <1>2, <1>3, CallMoves

LEMMA ReportStep ==
    ASSUME Typed, UNCHANGED log, NEW c \in Controller, ctrl[c].pc \notin BeforeRecord,
           NEW pc \in Steps, NEW obs \in Details, Report(c, pc, obs)
    PROVE  CtrlTypeOK' /\ CallsRecorded'
<1> DEFINE call == [ctrl[c] EXCEPT !.pc = pc, !.obs = obs]
<1>1. CtrlTypeOK /\ CallsRecorded /\ LogsGrow
  BY SameLogGrows DEF Typed, TypeOK
<1>2. ctrl[c] \in CallType /\ ctrl[c].attempt \in Attempt /\ Recorded(ctrl[c].attempt)
  BY <1>1 DEF CtrlTypeOK, CallsRecorded, BeforeRecord
<1>3. call \in CallType /\ call.attempt = ctrl[c].attempt
  BY <1>2 DEF CallType
<1>4. /\ ctrl' = [ctrl EXCEPT ![c] = call]
      /\ call.pc # "idle" => call.attempt \in Attempt
      /\ call.pc \notin BeforeRecord => log'[call.attempt] # <<>>
  BY <1>2, <1>3 DEF Report, Recorded
<1> HIDE DEF call
<1> QED BY <1>1, <1>3, <1>4, CallMoves

\* A step that changes only a call.
LEMMA OnlyCalls ==
    ASSUME Typed, UNCHANGED <<journalVars, storeVars, providerVars, worker>>,
           CtrlTypeOK', CallsRecorded'
    PROVE  Typed'
BY DEF Typed, TypeOK, HeadsOK, StoreTypeOK, ProviderTypeOK, WorkerTypeOK,
       journalVars, storeVars, providerVars

\* A step that posts a row.
LEMMA OnlyPosts ==
    ASSUME Typed, UNCHANGED <<fence, storeVars, providerVars, worker>>,
           NEW c \in Controller, ctrl[c].pc # "idle",
           NEW row \in RowType, NEW pc \in Steps,
           Recorded(ctrl[c].attempt) \/ row.evidence_only = FALSE,
           Post(c, row, pc)
    PROVE  Typed' /\ LogsGrow
<1>1. /\ log' \in [Attempt -> Seq(RowType)]
      /\ HeadsOK' /\ CtrlTypeOK' /\ CallsRecorded' /\ LogsGrow
  BY PostStep
<1> QED BY <1>1 DEF Typed, TypeOK, StoreTypeOK, ProviderTypeOK, WorkerTypeOK,
                    storeVars, providerVars
-----------------------------------------------------------------------------
(* Each step keeps the types.                                                *)

LEMMA RowsAreTyped ==
    ASSUME CtrlTypeOK, NEW c \in Controller
    PROVE  /\ NoEffectRow(ctrl[c].op, ctrl[c].ref) \in RowType
           /\ IntentRow(ctrl[c].op, ctrl[c].ref) \in RowType
           /\ ctrl[c].obs \in Observations => ObservationRow(c) \in RowType
           /\ \A state \in AttemptStates, op \in Operations, kind \in Kinds,
                 detail \in Details, ref, evidence \in BOOLEAN,
                 certainty \in Certainties :
                   Row(Key(op, kind, detail), state, ref, evidence, certainty)
                     \in RowType
<1>1. /\ ctrl[c].op \in Operations /\ ctrl[c].ref \in BOOLEAN
      /\ ctrl[c].obs \in Details /\ ctrl[c].state \in AttemptStates
  BY DEF CtrlTypeOK, CallType
<1>2. ASSUME NEW state \in AttemptStates, NEW op \in Operations, NEW kind \in Kinds,
             NEW detail \in Details, NEW ref \in BOOLEAN, NEW evidence \in BOOLEAN,
             NEW certainty \in Certainties
      PROVE  Row(Key(op, kind, detail), state, ref, evidence, certainty) \in RowType
  BY DEF Row, Key, RowType
<1>3. /\ {"CANCELLED", "FORCE_STOPPED", "FENCED", "LAUNCH_REQUESTED",
          "CANCEL_REQUESTED", "FORCE_STOP_REQUESTED", "RUNNING", "UNKNOWN",
          "FAILED", "PREPARED"} \subseteq AttemptStates
      /\ {"NONE", "KNOWN", "UNKNOWN"} \subseteq Certainties
      /\ {"no_effect", "fence_revoked", "requested", "observation"} \subseteq Kinds
      /\ "none" \in Details /\ "revoke" \in Operations
      /\ {TRUE, FALSE} \subseteq BOOLEAN
  BY DEF AttemptStates, ActiveStates, RetryableStates, Certainties, Kinds, Details, Operations
<1>4. NoEffectRow(ctrl[c].op, ctrl[c].ref) \in RowType
  BY <1>1, <1>2, <1>3 DEF NoEffectRow
<1>5. IntentRow(ctrl[c].op, ctrl[c].ref) \in RowType
  BY <1>1, <1>2, <1>3 DEF IntentRow
<1>6. ASSUME ctrl[c].obs \in Observations PROVE ObservationRow(c) \in RowType
  <2>1. StateAfter(ctrl[c].state, ctrl[c].obs) \in AttemptStates
    BY <1>1 DEF StateAfter, EvidenceOnly, Outcomes, AttemptStates, ActiveStates, RetryableStates
  <2>2. EvidenceOnly(ctrl[c].state) \in BOOLEAN
    BY DEF EvidenceOnly
  <2> QED BY <1>1, <1>2, <1>3, <2>1, <2>2 DEF ObservationRow
<1> QED BY <1>2, <1>4, <1>5, <1>6

\* The calls that start.
LEMMA StartTyped ==
    ASSUME Typed, NEW c \in Controller, NEW a \in Attempt, Start(c, a)
    PROVE  Typed' /\ LogsGrow
<1> USE DEF Operations, Controls
<1>1. CASE Prepare(c, a)
  <2>1. CtrlTypeOK /\ CallsRecorded /\ LogsGrow
    BY <1>1, SameLogGrows DEF Typed, TypeOK, Prepare, journalVars
  <2> DEFINE call == [Idle EXCEPT !.pc = IF stage[a] = "whole" THEN "insert" ELSE "staging",
                                  !.op = "prepare", !.attempt = a]
  <2>2. call \in CallType /\ call.pc \in {"insert", "staging"} /\ call.attempt = a
    BY IdleIsCall DEF CallType, Steps
  <2>3. ctrl' = [ctrl EXCEPT ![c] = call]
    BY <1>1 DEF Prepare
  <2>4. CtrlTypeOK' /\ CallsRecorded'
    <3> HIDE DEF call
    <3> QED BY <2>1, <2>2, <2>3, CallMoves DEF BeforeRecord
  <2>5. StoreTypeOK'
    BY <1>1 DEF Prepare, Typed, TypeOK, StoreTypeOK, journalVars
  <2> QED BY <1>1, <2>1, <2>4, <2>5
          DEF Prepare, Typed, TypeOK, HeadsOK, ProviderTypeOK, WorkerTypeOK,
              journalVars, providerVars
<1>2. CASE Dispatch(c, a)
  <2>1. CtrlTypeOK' /\ CallsRecorded'
    <3>1. CASE Begin(c, a, "launch", IF fence[a] = "active" THEN "intend" ELSE "no_effect")
      <4> DEFINE pc == IF fence[a] = "active" THEN "intend" ELSE "no_effect"
      <4>1. pc \in Steps
        BY DEF Steps
      <4> QED BY <1>2, <3>1, <4>1, BeginStep DEF Dispatch, journalVars
    <3>2. CASE Begin(c, a, "reconcile", "observe")
      BY <1>2, <3>2, BeginStep DEF Dispatch, Steps, journalVars
    <3> QED BY <1>2, <3>1, <3>2 DEF Dispatch
  <2> QED BY <1>2, <2>1, OnlyCalls, SameLogGrows DEF Dispatch, journalVars
<1>3. CASE Reconcile(c, a)
  <2>1. CtrlTypeOK' /\ CallsRecorded'
    BY <1>3, BeginStep DEF Reconcile, Steps, journalVars
  <2> QED BY <1>3, <2>1, OnlyCalls, SameLogGrows DEF Reconcile, journalVars
<1>4. ASSUME NEW op \in Controls, RequestControl(c, a, op)
      PROVE  Typed' /\ LogsGrow
  <2>1. ControlOp(a, op) \in Operations /\ ControlStep(a, op) \in Steps
    BY DEF ControlOp, ControlStep, Steps
  <2>2. CtrlTypeOK' /\ CallsRecorded'
    BY <1>4, <2>1, BeginStep DEF RequestControl, journalVars
  <2> QED BY <1>4, <2>2, OnlyCalls, SameLogGrows DEF RequestControl, journalVars
<1>5. CASE RevokeFence(c, a)
  <2>1. CtrlTypeOK /\ CallsRecorded /\ LogsGrow
    BY <1>5, SameLogGrows DEF Typed, TypeOK, RevokeFence
  <2> DEFINE call == [Idle EXCEPT !.pc = "revoking", !.op = "revoke", !.attempt = a]
  <2>2. call \in CallType /\ call.pc = "revoking" /\ call.attempt = a
    BY IdleIsCall DEF CallType, Steps
  <2>3. ctrl' = [ctrl EXCEPT ![c] = call]
    BY <1>5 DEF RevokeFence
  <2>4. CtrlTypeOK' /\ CallsRecorded'
    <3> HIDE DEF call
    <3> QED BY <2>1, <2>2, <2>3, CallMoves DEF BeforeRecord
  <2>5. StoreTypeOK'
    BY <1>5 DEF RevokeFence, Typed, TypeOK, StoreTypeOK, storeVars
  <2> QED BY <1>5, <2>1, <2>4, <2>5
          DEF RevokeFence, Typed, TypeOK, HeadsOK, ProviderTypeOK, WorkerTypeOK,
              providerVars
<1> QED BY <1>1, <1>2, <1>3, <1>4, <1>5 DEF Start

\* The journal's part of a call.
LEMMA AdvanceIntentTyped ==
    ASSUME Typed, NEW c \in Controller, AdvanceIntent(c)
    PROVE  Typed' /\ LogsGrow
<1>1. CtrlTypeOK /\ CallsRecorded
  BY DEF Typed, TypeOK
<1>2. ASSUME StageDone(c) \/ StageFail(c)
      PROVE  Typed' /\ LogsGrow
  <2>1. UNCHANGED log /\ ctrl[c].pc = "staging"
    BY <1>2 DEF StageDone, StageFail, journalVars
  <2>2. ctrl[c].attempt \in Attempt
    BY <1>1, <2>1 DEF CtrlTypeOK
  <2>3. CtrlTypeOK' /\ CallsRecorded'
    BY <1>2, <2>1, GotoStep DEF StageDone, StageFail, Steps, BeforeRecord
  <2>4. StoreTypeOK'
    BY <1>2, <2>2 DEF StageDone, StageFail, Typed, TypeOK, StoreTypeOK, journalVars
  <2> QED BY <1>2, <2>1, <2>3, <2>4, SameLogGrows
          DEF StageDone, StageFail, Typed, TypeOK, HeadsOK, ProviderTypeOK,
              WorkerTypeOK, journalVars, providerVars
<1>3. CASE Insert(c)
  <2>1. Row(Key("prepare", "prepared", "none"), "PREPARED", FALSE, FALSE, "NONE") \in RowType
    BY DEF Row, Key, RowType, Operations, Kinds, Details, AttemptStates, Certainties
  <2>2. Row(Key("prepare", "prepared", "none"), "PREPARED", FALSE, FALSE, "NONE").evidence_only = FALSE
    BY DEF Row
  <2> QED BY <1>3, <2>1, <2>2, OnlyPosts DEF Insert, Steps
<1>4. CASE NoEffect(c)
  <2>1. Recorded(ctrl[c].attempt) /\ ctrl[c].pc # "idle"
    BY <1>1, <1>4 DEF NoEffect, CallsRecorded, BeforeRecord
  <2>2. Finished(c) \in Steps
    BY DEF Finished, Steps
  <2> QED BY <1>1, <1>4, <2>1, <2>2, RowsAreTyped, OnlyPosts DEF NoEffect
<1>5. CASE Intend(c)
  <2>1. Recorded(ctrl[c].attempt) /\ ctrl[c].pc # "idle"
    BY <1>1, <1>5 DEF Intend, CallsRecorded, BeforeRecord
  <2> QED BY <1>1, <1>5, <2>1, RowsAreTyped, OnlyPosts DEF Intend, Steps
<1> QED BY <1>2, <1>3, <1>4, <1>5 DEF AdvanceIntent

\* The provider's part of a launch or control.
LEMMA AdvanceLaunchTyped ==
    ASSUME Typed, NEW c \in Controller, AdvanceLaunch(c)
    PROVE  Typed' /\ LogsGrow
<1> DEFINE a == ctrl[c].attempt
<1>1. CtrlTypeOK /\ CallsRecorded /\ ctrl[c] \in CallType
  BY DEF Typed, TypeOK, CtrlTypeOK
<1>2. ctrl[c].pc \notin BeforeRecord
  BY DEF AdvanceLaunch, Call, VerifyFail, PolicyReject, Bind, Spawn, SpawnFail, Reject,
         IdentityUnknown, ClaimForChild, BeforeRecord
<1>3. a \in Attempt /\ Recorded(a) /\ ctrl[c].pc # "idle"
  BY <1>1, <1>2 DEF CtrlTypeOK, CallsRecorded, BeforeRecord
<1>4. CASE Call(c)
  <2> DEFINE op == ctrl[c].op
             call == [ctrl[c] EXCEPT !.pc = CallStep(a, op), !.obs = CallObs(a, op),
                        !.state = HeadState(log[a]), !.ref = HasProviderRef(log[a])]
  <2>1. UNCHANGED log /\ LogsGrow
    BY <1>4, SameLogGrows DEF Call, journalVars
  <2>2. CallStep(a, op) \in Steps /\ CallObs(a, op) \in Details
    <3>1. completion[a] \in Outcomes \cup {"none"}
      BY <1>3 DEF Typed, TypeOK, ProviderTypeOK
    <3> HIDE DEF a, op
    <3> QED BY <3>1 DEF CallStep, CallObs, Steps, Details, Observations, Unknowns
  <2>3. call \in CallType /\ call.attempt = a
    <3>1. HeadState(log[a]) \in AttemptStates /\ HasProviderRef(log[a]) \in BOOLEAN
      BY <1>3, RecordRead
    <3> QED BY <1>1, <2>2, <3>1 DEF CallType
  <2>4. ctrl' = [ctrl EXCEPT ![c] = call]
    BY <1>4 DEF Call
  <2>5. CtrlTypeOK' /\ CallsRecorded'
    <3>1. /\ call.pc # "idle" => call.attempt \in Attempt
          /\ call.pc \notin BeforeRecord => log'[call.attempt] # <<>>
      BY <1>3, <2>1, <2>3 DEF Recorded
    <3> HIDE DEF call
    <3> QED BY <1>1, <2>1, <2>3, <2>4, <3>1, CallMoves
  <2>6. requests' \in [Attempt -> SUBSET Controls]
    BY <1>3, <1>4 DEF Call, Typed, TypeOK, ProviderTypeOK
  <2> QED BY <1>4, <2>1, <2>5, <2>6
          DEF Call, Typed, TypeOK, HeadsOK, StoreTypeOK, ProviderTypeOK, WorkerTypeOK,
              journalVars, storeVars
<1>5. ASSUME VerifyFail(c) \/ PolicyReject(c) \/ SpawnFail(c)
      PROVE  Typed' /\ LogsGrow
  <2>1. UNCHANGED <<journalVars, storeVars, providerVars, worker>>
    BY <1>5 DEF VerifyFail, PolicyReject, SpawnFail
  <2>2. UNCHANGED log
    BY <2>1 DEF journalVars
  <2>3. CtrlTypeOK' /\ CallsRecorded'
    BY <1>3, <1>5, <2>2, GotoStep DEF VerifyFail, PolicyReject, SpawnFail, Steps
  <2> QED BY <2>1, <2>2, <2>3, OnlyCalls, SameLogGrows
<1>6. CASE Bind(c)
  <2>1. UNCHANGED log
    BY <1>6 DEF Bind, journalVars
  <2>2. CtrlTypeOK' /\ CallsRecorded'
    BY <1>3, <1>6, <2>1, GotoStep DEF Bind, Steps
  <2>3. launch' \subseteq Attempt
    BY <1>3, <1>6 DEF Bind, Typed, TypeOK, ProviderTypeOK
  <2> QED BY <1>6, <2>1, <2>2, <2>3, SameLogGrows
          DEF Bind, Typed, TypeOK, HeadsOK, StoreTypeOK, ProviderTypeOK, WorkerTypeOK,
              journalVars, storeVars
<1>7. ASSUME NEW w \in Worker, Spawn(c, w)
      PROVE  Typed' /\ LogsGrow
  <2> DEFINE call == [ctrl[c] EXCEPT !.pc = "claim", !.child = w]
  <2>1. UNCHANGED log /\ LogsGrow
    BY <1>7, SameLogGrows DEF Spawn, journalVars
  <2>2. call \in CallType /\ call.attempt = a
    BY <1>1 DEF CallType, Steps
  <2>3. CtrlTypeOK' /\ CallsRecorded'
    <3>1. /\ call.pc # "idle" => call.attempt \in Attempt
          /\ call.pc \notin BeforeRecord => log'[call.attempt] # <<>>
          /\ ctrl' = [ctrl EXCEPT ![c] = call]
      BY <1>3, <1>7, <2>1, <2>2 DEF Recorded, Spawn
    <3> HIDE DEF call
    <3> QED BY <1>1, <2>1, <2>2, <3>1, CallMoves
  <2>4. WorkerTypeOK'
    BY <1>3, <1>7 DEF Spawn, Typed, TypeOK, WorkerTypeOK
  <2> QED BY <1>7, <2>1, <2>3, <2>4
          DEF Spawn, Typed, TypeOK, HeadsOK, StoreTypeOK, ProviderTypeOK,
              journalVars, storeVars, providerVars
<1>8. CASE Reject(c)
  <2>1. Row(Key("launch", "rejected", "none"), "FAILED", FALSE, FALSE, "NONE") \in RowType
    BY DEF Row, Key, RowType, Operations, Kinds, Details, AttemptStates, RetryableStates,
           Certainties
  <2>2. Finished(c) \in Steps
    BY DEF Finished, Steps
  <2> QED BY <1>3, <1>8, <2>1, <2>2, OnlyPosts DEF Reject
<1>9. CASE IdentityUnknown(c)
  <2>1. CtrlTypeOK' /\ CallsRecorded'
    BY <1>2, <1>9, ReportStep DEF IdentityUnknown, Steps, Details, Unknowns, journalVars
  <2> QED BY <1>9, <2>1, OnlyCalls, SameLogGrows DEF IdentityUnknown, journalVars
<1>10. CASE ClaimForChild(c)
  <2>1. UNCHANGED log
    BY <1>10 DEF ClaimForChild, journalVars
  <2>2. CtrlTypeOK' /\ CallsRecorded'
    BY <1>2, <1>10, <2>1, ReportStep
       DEF ClaimForChild, Steps, Details, Unknowns, Observations
  <2>3. owner' \in [Attempt -> Worker \cup {NoWorker}]
    <3>1. ctrl[c].child \in Worker \cup {NoWorker}
      BY <1>1 DEF CallType
    <3> QED BY <1>3, <1>10, <3>1 DEF ClaimForChild, Typed, TypeOK, ProviderTypeOK
  <2> QED BY <1>10, <2>1, <2>2, <2>3, SameLogGrows
          DEF ClaimForChild, Typed, TypeOK, HeadsOK, StoreTypeOK, ProviderTypeOK,
              WorkerTypeOK, journalVars, storeVars
<1> QED BY <1>4, <1>5, <1>6, <1>7, <1>8, <1>9, <1>10 DEF AdvanceLaunch

\* The provider's answer and its row.
LEMMA AdvanceAnswerTyped ==
    ASSUME Typed, NEW c \in Controller, AdvanceAnswer(c),
           ctrl[c].pc = "record" => ctrl[c].obs \in Observations
    PROVE  Typed' /\ LogsGrow
<1> DEFINE a == ctrl[c].attempt
<1>1. CtrlTypeOK /\ CallsRecorded /\ ctrl[c] \in CallType
  BY DEF Typed, TypeOK, CtrlTypeOK
<1>2. ctrl[c].pc \notin BeforeRecord
  BY DEF AdvanceAnswer, Observe, Identify, Unknown, Seal, SealDone, Record, BeforeRecord
<1>3. a \in Attempt /\ Recorded(a) /\ ctrl[c].pc # "idle"
  BY <1>1, <1>2 DEF CtrlTypeOK, CallsRecorded, BeforeRecord
<1>4. completion[a] \in Outcomes \cup {"none"}
  BY <1>3 DEF Typed, TypeOK, ProviderTypeOK
<1>5. CASE Observe(c)
  <2>1. UNCHANGED log
    BY <1>5 DEF Observe, journalVars
  <2>2. CtrlTypeOK' /\ CallsRecorded'
    <3>1. CASE \E pc \in {"unknown", "seal", "record"}, obs \in Details : Report(c, pc, obs)
      BY <1>2, <2>1, <3>1, ReportStep DEF Steps
    <3>2. CASE Goto(c, "identify")
      BY <1>3, <2>1, <3>2, GotoStep DEF Steps
    <3> QED BY <1>4, <1>5, <3>1, <3>2 DEF Observe, Details, Observations, Unknowns
  <2> QED BY <1>5, <2>1, <2>2, OnlyCalls, SameLogGrows DEF Observe
<1>6. CASE Identify(c)
  <2>1. UNCHANGED log
    BY <1>6 DEF Identify, journalVars
  <2>2. \E pc \in {"seal", "record"}, obs \in Details : Report(c, pc, obs)
    <3>1. /\ RunningAs(ctrl[c].op) \in Details /\ "EXITED" \in Details
          /\ completion[a] # "none" => completion[a] \in Details
      BY <1>4 DEF RunningAs, Details, Observations
    <3> QED BY <1>6, <3>1 DEF Identify
  <2>3. CtrlTypeOK' /\ CallsRecorded'
    BY <1>2, <2>1, <2>2, ReportStep DEF Steps
  <2> QED BY <1>6, <2>1, <2>3, OnlyCalls, SameLogGrows DEF Identify
<1>7. CASE Unknown(c)
  <2>1. Row(Key(ctrl[c].op, "unknown", ctrl[c].obs), "UNKNOWN", ctrl[c].ref, FALSE, "UNKNOWN")
          \in RowType
    BY <1>1 DEF CallType, Row, Key, RowType, Kinds, AttemptStates, Certainties
  <2>2. Finished(c) \in Steps
    BY DEF Finished, Steps
  <2> QED BY <1>3, <1>7, <2>1, <2>2, OnlyPosts DEF Unknown
<1>8. ASSUME Seal(c) \/ SealDone(c)
      PROVE  Typed' /\ LogsGrow
  <2>1. UNCHANGED log
    BY <1>8 DEF Seal, SealDone, journalVars
  <2>2. CtrlTypeOK' /\ CallsRecorded'
    <3>1. \E pc \in {"sealing", "record", "idle"} : Goto(c, pc)
      BY <1>8 DEF Seal, SealDone
    <3> QED BY <1>3, <2>1, <3>1, GotoStep DEF Steps
  <2>3. StoreTypeOK'
    BY <1>3, <1>8 DEF Seal, SealDone, Typed, TypeOK, StoreTypeOK, journalVars
  <2> QED BY <1>8, <2>1, <2>2, <2>3, SameLogGrows
          DEF Seal, SealDone, Typed, TypeOK, HeadsOK, ProviderTypeOK, WorkerTypeOK,
              journalVars, providerVars
<1>9. CASE Record(c)
  <2>1. ObservationRow(c) \in RowType
    BY <1>1, <1>9, RowsAreTyped DEF Record
  <2>2. Finished(c) \in Steps
    BY DEF Finished, Steps
  <2> QED BY <1>3, <1>9, <2>1, <2>2, OnlyPosts DEF Record
<1> QED BY <1>5, <1>6, <1>7, <1>8, <1>9 DEF AdvanceAnswer

\* Revocation and crash.
LEMMA AdvanceRevocationTyped ==
    ASSUME Typed, NEW c \in Controller, AdvanceRevocation(c) \/ Crash(c)
    PROVE  Typed' /\ LogsGrow
<1> DEFINE a == ctrl[c].attempt
<1>1. CtrlTypeOK /\ CallsRecorded /\ ctrl[c] \in CallType /\ ctrl[c].pc # "idle"
  BY DEF Typed, TypeOK, CtrlTypeOK, AdvanceRevocation, RevokeAttempt, Recancel, FenceAfter,
         Crash
<1>2. a \in Attempt
  BY <1>1 DEF CtrlTypeOK
<1>3. CASE RevokeAttempt(c)
  <2>1. UNCHANGED log
    BY <1>3 DEF RevokeAttempt, journalVars
  <2>2. CtrlTypeOK' /\ CallsRecorded'
    <3>1. CASE Recorded(a) /\ Begin(c, a, "revoke", "no_effect")
      BY <1>2, <2>1, <3>1, BeginStep DEF Operations, Steps
    <3>2. CASE Active(a) /\ Goto(c, "recancel")
      BY <1>1, <2>1, <3>2, GotoStep DEF Active, Steps
    <3>3. CASE Goto(c, "idle")
      BY <1>1, <2>1, <3>3, GotoStep DEF Steps, BeforeRecord
    <3> QED BY <1>3, <3>1, <3>2, <3>3 DEF RevokeAttempt
  <2> QED BY <1>3, <2>1, <2>2, OnlyCalls, SameLogGrows DEF RevokeAttempt
<1>4. CASE Recancel(c)
  <2>1. UNCHANGED log /\ LogsGrow
    BY <1>4, SameLogGrows DEF Recancel, journalVars
  <2>2. Recorded(a)
    BY <1>1, <1>4 DEF Recancel, CallsRecorded, BeforeRecord
  <2> DEFINE step == ControlStep(a, "cancel")
             call == [pc |-> IF step = "idle" THEN "fence" ELSE step,
                      op |-> ControlOp(a, "cancel"), attempt |-> a,
                      state |-> HeadState(log[a]), ref |-> HasProviderRef(log[a]),
                      obs |-> "none", child |-> NoWorker, fencing |-> TRUE]
  <2>3. step \in Steps /\ ControlOp(a, "cancel") \in Operations
    BY DEF ControlStep, ControlOp, Steps, Operations, Controls
  <2>4. call \in CallType /\ call.attempt = a
    <3>1. HeadState(log[a]) \in AttemptStates /\ HasProviderRef(log[a]) \in BOOLEAN
      BY <1>2, <2>2, RecordRead
    <3>2. (IF step = "idle" THEN "fence" ELSE step) \in Steps
      BY <2>3 DEF Steps
    <3> HIDE DEF step
    <3> QED BY <1>2, <2>3, <3>1, <3>2 DEF CallType, Details
  <2>5. CASE ctrl' = [ctrl EXCEPT ![c] = Idle]
    <3>1. Idle.pc = "idle" /\ "idle" \in BeforeRecord
      BY DEF Idle, BeforeRecord
    <3>2. CtrlTypeOK' /\ CallsRecorded'
      BY <1>1, <2>1, <2>5, <3>1, IdleIsCall, CallMoves
    <3> QED BY <1>4, <2>1, <3>2, OnlyCalls DEF Recancel
  <2>6. CASE ctrl' = [ctrl EXCEPT ![c] = call]
    <3>1. log'[call.attempt] # <<>> /\ call.attempt \in Attempt
      BY <1>2, <2>1, <2>2, <2>4 DEF Recorded
    <3>2. CtrlTypeOK' /\ CallsRecorded'
      <4> HIDE DEF call
      <4> QED BY <1>1, <2>1, <2>4, <2>6, <3>1, CallMoves
    <3> QED BY <1>4, <2>1, <3>2, OnlyCalls DEF Recancel
  <2> QED BY <1>4, <2>5, <2>6 DEF Recancel
<1>5. CASE FenceAfter(c)
  <2>1. Recorded(a)
    BY <1>1, <1>5 DEF FenceAfter, CallsRecorded, BeforeRecord
  <2>2. HasProviderRef(log[a]) \in BOOLEAN
    BY <1>2, <2>1, RecordRead
  <2>3. Row(Key("revoke", "fence_revoked", "none"), "FENCED", HasProviderRef(log[a]),
            FALSE, "KNOWN") \in RowType
    BY <2>2 DEF Row, Key, RowType, Operations, Kinds, Details, AttemptStates, Certainties
  <2> QED BY <1>1, <1>5, <2>1, <2>3, OnlyPosts DEF FenceAfter, Steps
<1>6. CASE Crash(c)
  <2>1. CtrlTypeOK' /\ CallsRecorded'
    BY <1>1, <1>6, GotoStep DEF Crash, Steps, BeforeRecord, journalVars
  <2> QED BY <1>6, <2>1, OnlyCalls, SameLogGrows DEF Crash, journalVars
<1> QED BY <1>3, <1>4, <1>5, <1>6 DEF AdvanceRevocation

\* The workers.
LEMMA WorkerStepTyped ==
    ASSUME Typed, NEW w \in Worker, WorkerStep(w)
    PROVE  Typed' /\ LogsGrow
<1>1. UNCHANGED <<journalVars, storeVars, launch, requests, ctrl>>
  BY DEF WorkerStep, WorkerClaim, WorkerFinish, WorkerExit, providerVars
<1>2. worker[w].attempt \in Attempt
  BY DEF WorkerStep, WorkerClaim, WorkerFinish, WorkerExit, Live, Typed, TypeOK, WorkerTypeOK
<1>3. owner' \in [Attempt -> Worker \cup {NoWorker}]
  BY <1>2 DEF WorkerStep, WorkerClaim, WorkerFinish, WorkerExit, Typed, TypeOK,
              ProviderTypeOK, providerVars
<1>4. completion' \in [Attempt -> Outcomes \cup {"none"}]
  BY <1>2 DEF WorkerStep, WorkerClaim, WorkerFinish, WorkerExit, Typed, TypeOK,
              ProviderTypeOK, providerVars
<1>5. WorkerTypeOK'
  <2>1. \/ UNCHANGED worker
        \/ \E status \in {"running", "dead"} : worker' = [worker EXCEPT ![w].status = status]
    BY DEF WorkerStep, WorkerClaim, WorkerFinish, WorkerExit
  <2> QED BY <1>2, <2>1 DEF Typed, TypeOK, WorkerTypeOK
<1> QED BY <1>1, <1>3, <1>4, <1>5, SameLogGrows
        DEF Typed, TypeOK, HeadsOK, CallsRecorded, CtrlTypeOK, StoreTypeOK, ProviderTypeOK,
            Recorded, journalVars, storeVars
-----------------------------------------------------------------------------
(* Each step keeps what the calls under way rely on.                         *)

CallsOK == CallsIntended /\ CallsAnswered

\* The steps at which CallsOK says something.
Relying == {"call", "bind", "spawn", "claim", "seal", "sealing", "record"}

\* The steps at which a call holds something of the provider's files.
Telling == {"claim", "identify", "seal", "sealing", "record"}

\* Only the call of c moves.
Alone(c) == \A d \in Controller : d # c => ctrl'[d] = ctrl[d]

LEMMA RelyingMove ==
    ASSUME Typed, CallsOK, LogsGrow, NEW c \in Controller, Alone(c), CtrlTypeOK',
           ctrl'[c].pc = "call" =>
              HasKey(log'[ctrl'[c].attempt], Key(ctrl'[c].op, "requested", "none")),
           ctrl'[c].pc \in {"bind", "spawn", "claim"} =>
              HasKey(log'[ctrl'[c].attempt], Key("launch", "requested", "none")),
           ctrl'[c].pc \in {"seal", "sealing"} => ctrl'[c].obs \in Outcomes,
           ctrl'[c].pc = "record" => ctrl'[c].obs \in Observations
    PROVE  CallsOK'
<1>1. ASSUME NEW d \in Controller, d # c
      PROVE  /\ ctrl'[d].pc = "call" =>
                   HasKey(log'[ctrl'[d].attempt], Key(ctrl'[d].op, "requested", "none"))
             /\ ctrl'[d].pc \in {"bind", "spawn", "claim"} =>
                   HasKey(log'[ctrl'[d].attempt], Key("launch", "requested", "none"))
  <2>1. ctrl'[d] = ctrl[d] /\ ctrl[d] \in CallType /\ ctrl[d].op \in Operations
    BY <1>1 DEF Alone, Typed, TypeOK, CtrlTypeOK, CallType
  <2>2. ctrl[d].pc # "idle" => ctrl[d].attempt \in Attempt
    BY DEF Typed, TypeOK, CtrlTypeOK
  <2>3. "launch" \in Operations
    BY DEF Operations
  <2> QED BY <2>1, <2>2, <2>3 DEF CallsOK, CallsIntended, LogsGrow, Requested
<1>2. CallsIntended'
  BY <1>1 DEF CallsIntended, Requested
<1>3. CallsAnswered'
  BY DEF CallsAnswered, CallsOK, Alone
<1> QED BY <1>2, <1>3 DEF CallsOK

LEMMA QuietMove ==
    ASSUME Typed, CallsOK, LogsGrow, NEW c \in Controller, Alone(c), CtrlTypeOK',
           ctrl'[c].pc \notin Relying
    PROVE  CallsOK'
BY RelyingMove DEF Relying

LEMMA GotoShape ==
    ASSUME CtrlTypeOK, NEW c \in Controller, NEW pc \in Steps, Goto(c, pc)
    PROVE  /\ Alone(c)
           /\ ctrl'[c].pc = pc
           /\ pc # "idle" => /\ ctrl'[c].attempt = ctrl[c].attempt
                            /\ ctrl'[c].op = ctrl[c].op
                            /\ ctrl'[c].obs = ctrl[c].obs
BY DEF CtrlTypeOK, CallType, Goto, At, Idle, Alone

LEMMA ReportShape ==
    ASSUME CtrlTypeOK, NEW c \in Controller, NEW pc \in Steps, NEW obs \in Details,
           Report(c, pc, obs)
    PROVE  /\ Alone(c) /\ ctrl'[c].pc = pc /\ ctrl'[c].obs = obs
           /\ ctrl'[c].attempt = ctrl[c].attempt
BY DEF CtrlTypeOK, CallType, Report, Alone

LEMMA StartShape ==
    ASSUME Typed, NEW c \in Controller, NEW a \in Attempt, Start(c, a)
    PROVE  Alone(c) /\ ctrl'[c].pc \notin Relying \cup Telling
<1>1. \/ \E op \in Operations, pc \in {"intend", "no_effect", "observe"} : Begin(c, a, op, pc)
      \/ Prepare(c, a)
      \/ RevokeFence(c, a)
  <2>1. ASSUME NEW op \in Controls, RequestControl(c, a, op)
        PROVE  \E o \in Operations, pc \in {"intend", "no_effect", "observe"} : Begin(c, a, o, pc)
    BY <2>1 DEF RequestControl, ControlStep, ControlOp, Operations, Controls
  <2> QED BY <2>1 DEF Start, Dispatch, Reconcile, Operations
<1>2. ctrl \in [Controller -> CallType]
  BY DEF Typed, TypeOK, CtrlTypeOK
<1>3. ASSUME NEW op \in Operations, NEW pc \in {"intend", "no_effect", "observe"},
             Begin(c, a, op, pc)
      PROVE  Alone(c) /\ ctrl'[c].pc \notin Relying \cup Telling
  BY <1>2, <1>3 DEF Begin, Alone, Telling, Relying
<1>4. CASE Prepare(c, a)
  <2> DEFINE call == [Idle EXCEPT !.pc = IF stage[a] = "whole" THEN "insert" ELSE "staging",
                                  !.op = "prepare", !.attempt = a]
  <2>1. call.pc \in {"insert", "staging"} /\ ctrl' = [ctrl EXCEPT ![c] = call]
    BY <1>4 DEF Prepare, Idle
  <2> HIDE DEF call
  <2> QED BY <1>2, <2>1 DEF Alone, Telling, Relying
<1>5. CASE RevokeFence(c, a)
  <2> DEFINE call == [Idle EXCEPT !.pc = "revoking", !.op = "revoke", !.attempt = a]
  <2>1. call.pc = "revoking" /\ ctrl' = [ctrl EXCEPT ![c] = call]
    BY <1>5 DEF RevokeFence, Idle
  <2> HIDE DEF call
  <2> QED BY <1>2, <2>1 DEF Alone, Telling, Relying
<1> QED BY <1>1, <1>3, <1>4, <1>5

LEMMA StartCalls ==
    ASSUME Typed, CallsOK, NEW c \in Controller, NEW a \in Attempt, Start(c, a)
    PROVE  CallsOK'
<1>1. LogsGrow /\ CtrlTypeOK'
  BY StartTyped DEF Typed, TypeOK
<1>2. Alone(c) /\ ctrl'[c].pc \notin Relying
  BY StartShape
<1> QED BY <1>1, <1>2, QuietMove

\* A posted row that is not an intent leads to a quiet step.
LEMMA PostShape ==
    ASSUME CtrlTypeOK, NEW c \in Controller, NEW row, NEW pc \in Steps, Post(c, row, pc)
    PROVE  /\ Alone(c) /\ ctrl'[c].pc \in {pc, "idle"}
           /\ ctrl'[c].pc # "idle" => /\ ctrl'[c].attempt = ctrl[c].attempt
                                     /\ ctrl'[c].op = ctrl[c].op
<1>1. Goto(c, pc) \/ Goto(c, "idle")
  BY DEF Post
<1>2. "idle" \in Steps
  BY DEF Steps
<1> QED BY <1>1, <1>2, GotoShape

LEMMA AdvanceIntentCalls ==
    ASSUME Typed, CallsOK, NEW c \in Controller, AdvanceIntent(c)
    PROVE  CallsOK'
<1>1. LogsGrow /\ CtrlTypeOK' /\ CtrlTypeOK /\ CallsRecorded
  BY AdvanceIntentTyped DEF Typed, TypeOK
<1>2. CASE Intend(c)
  <2> DEFINE row == IntentRow(ctrl[c].op, ctrl[c].ref)
  <2>1. row.key = Key(ctrl[c].op, "requested", "none")
    BY DEF IntentRow, Row
  <2>2. Recorded(ctrl[c].attempt) /\ ctrl[c].pc # "idle"
    BY <1>1, <1>2 DEF Intend, CallsRecorded, BeforeRecord
  <2>3. row \in RowType /\ "call" \in Steps /\ Post(c, row, "call")
    BY <1>1, <1>2, RowsAreTyped DEF Intend, Steps
  <2>4. HasKey(log'[ctrl[c].attempt], row.key)
    <3> HIDE DEF row
    <3> QED BY <2>2, <2>3, PostStep
  <2>5. /\ Alone(c) /\ ctrl'[c].pc \in {"call", "idle"}
        /\ ctrl'[c].pc # "idle" => /\ ctrl'[c].attempt = ctrl[c].attempt
                                  /\ ctrl'[c].op = ctrl[c].op
    BY <1>1, <2>3, PostShape
  <2> HIDE DEF row
  <2> QED BY <1>1, <2>1, <2>4, <2>5, RelyingMove
<1>3. ASSUME StageDone(c) \/ StageFail(c)
      PROVE  CallsOK'
  <2>1. Goto(c, "insert") \/ Goto(c, "idle")
    BY <1>3 DEF StageDone, StageFail
  <2>2. Alone(c) /\ ctrl'[c].pc \notin Relying
    BY <1>1, <2>1, GotoShape DEF Steps, Relying
  <2> QED BY <1>1, <2>2, QuietMove
<1>4. ASSUME Insert(c) \/ NoEffect(c)
      PROVE  CallsOK'
  <2>1. Finished(c) \in {"idle", "fence"}
    BY DEF Finished
  <2>2. CASE Insert(c)
    <3>1. Alone(c) /\ ctrl'[c].pc \notin Relying
      BY <1>1, <2>2, PostShape DEF Insert, Steps, Relying
    <3> QED BY <1>1, <3>1, QuietMove
  <2>3. CASE NoEffect(c)
    <3>1. Alone(c) /\ ctrl'[c].pc \notin Relying
      BY <1>1, <2>1, <2>3, PostShape DEF NoEffect, Steps, Relying
    <3> QED BY <1>1, <3>1, QuietMove
  <2> QED BY <1>4, <2>2, <2>3
<1> QED BY <1>2, <1>3, <1>4 DEF AdvanceIntent

LEMMA AdvanceLaunchCalls ==
    ASSUME Typed, CallsOK, NEW c \in Controller, AdvanceLaunch(c)
    PROVE  CallsOK'
<1> DEFINE a == ctrl[c].attempt
<1>1. LogsGrow /\ CtrlTypeOK' /\ CtrlTypeOK
  BY AdvanceLaunchTyped DEF Typed, TypeOK
<1>2. ctrl \in [Controller -> CallType] /\ ctrl[c] \in CallType
  BY <1>1 DEF CtrlTypeOK
<1>3. a \in Attempt /\ ctrl[c].op \in Operations /\ "launch" \in Operations
  BY <1>1, <1>2
     DEF CtrlTypeOK, CallType, Operations, AdvanceLaunch, Call, VerifyFail, PolicyReject,
         Bind, Spawn, SpawnFail, Reject, IdentityUnknown, ClaimForChild
<1>4. CASE Call(c)
  <2> DEFINE op == ctrl[c].op
             call == [ctrl[c] EXCEPT !.pc = CallStep(a, op), !.obs = CallObs(a, op),
                        !.state = HeadState(log[a]), !.ref = HasProviderRef(log[a])]
  <2>1. /\ call.pc = CallStep(a, op) /\ call.obs = CallObs(a, op)
        /\ call.attempt = a /\ ctrl' = [ctrl EXCEPT ![c] = call]
    BY <1>2, <1>4 DEF Call, CallType
  <2>2. Alone(c) /\ ctrl'[c] = call
    <3> HIDE DEF call
    <3> QED BY <1>2, <2>1 DEF Alone
  <2>3. Requested(a, op) /\ UNCHANGED log
    BY <1>4 DEF Call, CallsOK, CallsIntended, journalVars
  <2>4. completion[a] \in Outcomes \cup {"none"}
    BY <1>3 DEF Typed, TypeOK, ProviderTypeOK
  <2>5. /\ CallStep(a, op) \in {"seal", "bind", "unknown", "observe"}
        /\ CallStep(a, op) = "bind" => op = "launch"
        /\ CallStep(a, op) = "seal" => CallObs(a, op) \in Outcomes
    <3> HIDE DEF a, op
    <3> QED BY <2>4 DEF CallStep, CallObs
  <2> HIDE DEF call
  <2> QED BY <1>1, <2>1, <2>2, <2>3, <2>5, RelyingMove DEF Requested
<1>5. ASSUME VerifyFail(c) \/ PolicyReject(c) \/ SpawnFail(c)
      PROVE  CallsOK'
  <2>1. Goto(c, "reject") \/ Goto(c, "idle")
    BY <1>5 DEF VerifyFail, PolicyReject, SpawnFail
  <2>2. Alone(c) /\ ctrl'[c].pc \notin Relying
    BY <1>1, <2>1, GotoShape DEF Steps, Relying
  <2> QED BY <1>1, <2>2, QuietMove
<1>6. CASE Bind(c)
  <2>1. /\ Requested(a, "launch") /\ UNCHANGED log
        /\ ctrl[c].pc = "bind" /\ Goto(c, "spawn")
    BY <1>6 DEF Bind, CallsOK, CallsIntended, journalVars
  <2>2. Alone(c) /\ ctrl'[c].pc = "spawn" /\ ctrl'[c].attempt = a
    BY <1>1, <2>1, GotoShape DEF Steps
  <2> QED BY <1>1, <2>1, <2>2, RelyingMove DEF Requested
<1>7. ASSUME NEW w \in Worker, Spawn(c, w)
      PROVE  CallsOK'
  <2>1. Requested(a, "launch") /\ UNCHANGED log
    BY <1>7 DEF Spawn, CallsOK, CallsIntended, journalVars
  <2>2. Alone(c) /\ ctrl'[c].pc = "claim" /\ ctrl'[c].attempt = a
    BY <1>2, <1>7 DEF Spawn, Alone, CallType
  <2> QED BY <1>1, <2>1, <2>2, RelyingMove DEF Requested
<1>8. CASE Reject(c)
  <2>1. Finished(c) \in {"idle", "fence"}
    BY DEF Finished
  <2>2. Alone(c) /\ ctrl'[c].pc \notin Relying
    BY <1>1, <1>8, <2>1, PostShape DEF Reject, Steps, Relying
  <2> QED BY <1>1, <2>2, QuietMove
<1>9. CASE IdentityUnknown(c)
  <2>1. Alone(c) /\ ctrl'[c].pc \notin Relying
    BY <1>1, <1>9, ReportShape DEF IdentityUnknown, Steps, Details, Unknowns, Relying
  <2> QED BY <1>1, <2>1, QuietMove
<1>10. CASE ClaimForChild(c)
  <2>1. Report(c, "record", "RUNNING") \/ Report(c, "unknown", "binding_conflict")
    BY <1>10 DEF ClaimForChild
  <2>2. /\ Alone(c)
        /\ \/ ctrl'[c].pc = "record" /\ ctrl'[c].obs = "RUNNING"
           \/ ctrl'[c].pc = "unknown"
    BY <1>1, <2>1, ReportShape DEF Steps, Details, Observations, Unknowns
  <2> QED BY <1>1, <2>2, RelyingMove DEF Observations
<1> QED BY <1>4, <1>5, <1>6, <1>7, <1>8, <1>9, <1>10 DEF AdvanceLaunch

LEMMA AdvanceAnswerCalls ==
    ASSUME Typed, CallsOK, NEW c \in Controller, AdvanceAnswer(c)
    PROVE  CallsOK'
<1> DEFINE a == ctrl[c].attempt
<1>1. LogsGrow /\ CtrlTypeOK' /\ CtrlTypeOK
  BY AdvanceAnswerTyped DEF Typed, TypeOK, CallsOK, CallsAnswered
<1>2. Outcomes \subseteq Observations /\ Observations \subseteq Details
  BY DEF Observations, Details
<1>3. ASSUME Observe(c) \/ Identify(c)
      PROVE  CallsOK'
  <2>1. completion[a] \in Outcomes \cup {"none"}
    BY <1>1, <1>3 DEF Observe, Identify, CtrlTypeOK, Typed, TypeOK, ProviderTypeOK
  <2>2. \/ Goto(c, "identify")
        \/ Report(c, "unknown", "launch_missing")
        \/ \E o \in Outcomes : Report(c, "seal", o)
        \/ \E o \in Observations : Report(c, "record", o)
    <3>1. CASE Observe(c)
      BY <2>1, <3>1 DEF Observe, Observations
    <3>2. CASE Identify(c)
      <4>1. RunningAs(ctrl[c].op) \in Observations /\ "EXITED" \in Observations
        BY DEF RunningAs, Observations
      <4> QED BY <2>1, <3>2, <4>1 DEF Identify
    <3> QED BY <1>3, <3>1, <3>2
  <2>3. CASE Goto(c, "identify") \/ Report(c, "unknown", "launch_missing")
    <3>1. Alone(c) /\ ctrl'[c].pc \notin Relying
      BY <1>1, <2>3, GotoShape, ReportShape DEF Steps, Details, Unknowns, Relying
    <3> QED BY <1>1, <3>1, QuietMove
  <2>4. ASSUME NEW o \in Outcomes, Report(c, "seal", o)
        PROVE  CallsOK'
    <3>1. Alone(c) /\ ctrl'[c].pc = "seal" /\ ctrl'[c].obs \in Outcomes
      BY <1>1, <1>2, <2>4, ReportShape DEF Steps
    <3> QED BY <1>1, <3>1, RelyingMove
  <2>5. ASSUME NEW o \in Observations, Report(c, "record", o)
        PROVE  CallsOK'
    <3>1. Alone(c) /\ ctrl'[c].pc = "record" /\ ctrl'[c].obs \in Observations
      BY <1>1, <1>2, <2>5, ReportShape DEF Steps
    <3> QED BY <1>1, <3>1, RelyingMove
  <2> QED BY <2>2, <2>3, <2>4, <2>5
<1>4. ASSUME Seal(c) \/ SealDone(c)
      PROVE  CallsOK'
  <2>1. \E pc \in {"sealing", "record", "idle"} : Goto(c, pc)
    BY <1>4 DEF Seal, SealDone
  <2>2. ctrl[c].obs \in Outcomes
    BY <1>4 DEF Seal, SealDone, CallsOK, CallsAnswered
  <2>3. /\ Alone(c) /\ ctrl'[c].pc \in {"sealing", "record", "idle"}
        /\ ctrl'[c].pc # "idle" => ctrl'[c].obs \in Outcomes
    BY <1>1, <2>1, <2>2, GotoShape DEF Steps
  <2> QED BY <1>1, <1>2, <2>3, RelyingMove
<1>5. ASSUME Unknown(c) \/ Record(c)
      PROVE  CallsOK'
  <2>1. Finished(c) \in {"idle", "fence"}
    BY DEF Finished
  <2>2. Alone(c) /\ ctrl'[c].pc \notin Relying
    <3>1. CASE Unknown(c)
      BY <1>1, <2>1, <3>1, PostShape DEF Unknown, Steps, Relying
    <3>2. CASE Record(c)
      BY <1>1, <2>1, <3>2, PostShape DEF Record, Steps, Relying
    <3> QED BY <1>5, <3>1, <3>2
  <2> QED BY <1>1, <2>2, QuietMove
<1> QED BY <1>3, <1>4, <1>5 DEF AdvanceAnswer

LEMMA AdvanceRevocationShape ==
    ASSUME Typed, NEW c \in Controller, AdvanceRevocation(c) \/ Crash(c)
    PROVE  Alone(c) /\ ctrl'[c].pc \notin Relying \cup Telling
<1>1. CtrlTypeOK /\ ctrl \in [Controller -> CallType]
  BY DEF Typed, TypeOK, CtrlTypeOK
<1>2. CASE RevokeAttempt(c)
  <2>1. CASE Begin(c, ctrl[c].attempt, "revoke", "no_effect")
    BY <1>1, <2>1 DEF Begin, Alone, Telling, Relying
  <2>2. CASE Goto(c, "recancel") \/ Goto(c, "idle")
    BY <1>1, <2>2, GotoShape DEF Steps, Telling, Relying
  <2> QED BY <1>2, <2>1, <2>2 DEF RevokeAttempt
<1>3. CASE Recancel(c)
  <2> DEFINE a == ctrl[c].attempt
             step == ControlStep(a, "cancel")
             call == IF step = "idle" /\ HeadState(log[a]) = "UNKNOWN" THEN Idle
                     ELSE [pc |-> IF step = "idle" THEN "fence" ELSE step,
                           op |-> ControlOp(a, "cancel"), attempt |-> a,
                           state |-> HeadState(log[a]), ref |-> HasProviderRef(log[a]),
                           obs |-> "none", child |-> NoWorker, fencing |-> TRUE]
  <2>1. step \in {"idle", "no_effect", "intend", "observe"}
    BY DEF ControlStep
  <2>2. call.pc \in {"idle", "fence", "no_effect", "intend", "observe"}
    <3> HIDE DEF step
    <3> QED BY <2>1 DEF Idle
  <2>3. ctrl' = [ctrl EXCEPT ![c] = call]
    BY <1>3 DEF Recancel
  <2> HIDE DEF call
  <2> QED BY <1>1, <2>2, <2>3 DEF Alone, Telling, Relying
<1>4. CASE FenceAfter(c)
  BY <1>1, <1>4, PostShape DEF FenceAfter, Steps, Telling, Relying
<1>5. CASE Crash(c)
  BY <1>1, <1>5, GotoShape DEF Crash, Steps, Telling, Relying
<1> QED BY <1>2, <1>3, <1>4, <1>5 DEF AdvanceRevocation

LEMMA AdvanceRevocationCalls ==
    ASSUME Typed, CallsOK, NEW c \in Controller, AdvanceRevocation(c) \/ Crash(c)
    PROVE  CallsOK'
<1>1. LogsGrow /\ CtrlTypeOK'
  BY AdvanceRevocationTyped DEF Typed, TypeOK
<1>2. Alone(c) /\ ctrl'[c].pc \notin Relying
  BY AdvanceRevocationShape
<1> QED BY <1>1, <1>2, QuietMove
-----------------------------------------------------------------------------
(* No effect before its intent.                                              *)

LEMMA EffectsKept ==
    ASSUME EffectAfterIntent, ProviderTypeOK, LogsGrow, UNCHANGED <<launch, requests>>,
           \A w \in Worker : worker'[w].attempt = worker[w].attempt
    PROVE  EffectAfterIntent'
<1>1. "launch" \in Operations /\ Controls \subseteq Operations
  BY DEF Operations, Controls
<1>2. ASSUME NEW a \in Attempt
      PROVE  /\ a \in launch' \/ WorkersOf(a)' # {} => Requested(a, "launch")'
             /\ \A op \in requests'[a] : Requested(a, op)'
  <2>1. WorkersOf(a)' = WorkersOf(a)
    BY DEF WorkersOf
  <2>2. requests[a] \subseteq Controls
    BY DEF ProviderTypeOK
  <2> QED BY <1>1, <2>1, <2>2 DEF EffectAfterIntent, LogsGrow
<1> QED BY <1>2 DEF EffectAfterIntent

LEMMA EffectStep ==
    ASSUME Typed, CallsOK, EffectAfterIntent, Next
    PROVE  EffectAfterIntent'
<1>1. ProviderTypeOK /\ CtrlTypeOK /\ CallsIntended
  BY DEF Typed, TypeOK, CallsOK
<1>2. ASSUME NEW a \in Attempt, InstallFence(a)
      PROVE  EffectAfterIntent'
  BY <1>1, <1>2, SameLogGrows, EffectsKept DEF InstallFence, providerVars
<1>3. ASSUME NEW c \in Controller, NEW a \in Attempt, Start(c, a)
      PROVE  EffectAfterIntent'
  <2>1. UNCHANGED <<launch, requests, worker>>
    BY <1>3 DEF Start, Prepare, Dispatch, Reconcile, RequestControl, RevokeFence, providerVars
  <2> QED BY <1>1, <1>3, <2>1, StartTyped, EffectsKept
<1>4. ASSUME NEW c \in Controller, AdvanceIntent(c)
      PROVE  EffectAfterIntent'
  <2>1. UNCHANGED <<launch, requests, worker>>
    BY <1>4 DEF AdvanceIntent, StageDone, StageFail, Insert, NoEffect, Intend, providerVars
  <2> QED BY <1>1, <1>4, <2>1, AdvanceIntentTyped, EffectsKept
<1>5. ASSUME NEW c \in Controller, AdvanceLaunch(c)
      PROVE  EffectAfterIntent'
  <2> DEFINE a == ctrl[c].attempt
  <2>1. LogsGrow
    BY <1>5, AdvanceLaunchTyped
  <2>2. CASE Call(c)
    <3>1. UNCHANGED <<launch, worker, log>> /\ Requested(a, ctrl[c].op) /\ a \in Attempt
      BY <1>1, <2>2 DEF Call, CallsIntended, CtrlTypeOK, journalVars
    <3>2. \A b \in Attempt, op \in Controls :
             op \in requests'[b] => op \in requests[b] \/ (b = a /\ op = ctrl[c].op)
      BY <1>1, <2>2, <3>1 DEF Call, ProviderTypeOK
    <3>3. requests' \in [Attempt -> SUBSET Controls]
      BY <2>2, <1>5, AdvanceLaunchTyped DEF Typed, TypeOK, ProviderTypeOK
    <3>4. \A b \in Attempt : \A op \in requests'[b] : Requested(b, op)
      BY <3>1, <3>2, <3>3 DEF EffectAfterIntent
    <3> QED BY <3>1, <3>4 DEF EffectAfterIntent, Requested, WorkersOf
  <2>3. CASE Bind(c)
    <3>1. /\ UNCHANGED <<requests, worker, log>> /\ Requested(a, "launch")
          /\ launch' = launch \cup {a}
      BY <1>1, <2>3 DEF Bind, CallsIntended, journalVars
    <3> QED BY <3>1 DEF EffectAfterIntent, Requested, WorkersOf
  <2>4. ASSUME NEW w \in Worker, Spawn(c, w)
        PROVE  EffectAfterIntent'
    <3>1. UNCHANGED <<launch, requests, log>> /\ Requested(a, "launch")
      BY <1>1, <2>4 DEF Spawn, CallsIntended, journalVars, providerVars
    <3>2. \A v \in Worker : worker'[v].attempt \in {worker[v].attempt, a}
      BY <2>4 DEF Spawn, Typed, TypeOK, WorkerTypeOK
    <3>3. \A b \in Attempt : WorkersOf(b)' # {} => WorkersOf(b) # {} \/ b = a
      BY <3>2 DEF WorkersOf
    <3> QED BY <3>1, <3>3 DEF EffectAfterIntent, Requested
  <2>5. ASSUME \/ VerifyFail(c) \/ PolicyReject(c) \/ SpawnFail(c) \/ Reject(c)
               \/ IdentityUnknown(c) \/ ClaimForChild(c)
        PROVE  EffectAfterIntent'
    <3>1. UNCHANGED <<launch, requests, worker>>
      BY <2>5 DEF VerifyFail, PolicyReject, SpawnFail, Reject, IdentityUnknown,
                  ClaimForChild, providerVars
    <3> QED BY <1>1, <2>1, <3>1, EffectsKept
  <2> QED BY <1>5, <2>2, <2>3, <2>4, <2>5 DEF AdvanceLaunch
<1>6. ASSUME NEW c \in Controller, AdvanceAnswer(c)
      PROVE  EffectAfterIntent'
  <2>1. UNCHANGED <<launch, requests, worker>>
    BY <1>6 DEF AdvanceAnswer, Observe, Identify, Unknown, Seal, SealDone, Record, providerVars
  <2> QED BY <1>1, <1>6, <2>1, AdvanceAnswerTyped, EffectsKept DEF CallsOK, CallsAnswered
<1>7. ASSUME NEW c \in Controller, AdvanceRevocation(c) \/ Crash(c)
      PROVE  EffectAfterIntent'
  <2>1. UNCHANGED <<launch, requests, worker>>
    BY <1>7 DEF AdvanceRevocation, RevokeAttempt, Recancel, FenceAfter, Crash, providerVars
  <2> QED BY <1>1, <1>7, <2>1, AdvanceRevocationTyped, EffectsKept
<1>8. ASSUME NEW w \in Worker, WorkerStep(w)
      PROVE  EffectAfterIntent'
  <2>1. UNCHANGED <<launch, requests>>
    BY <1>8 DEF WorkerStep, WorkerClaim, WorkerFinish, WorkerExit, providerVars
  <2>2. \A v \in Worker : worker'[v].attempt = worker[v].attempt
    <3>1. \/ UNCHANGED worker
          \/ \E status \in {"running", "dead"} : worker' = [worker EXCEPT ![w].status = status]
      BY <1>8 DEF WorkerStep, WorkerClaim, WorkerFinish, WorkerExit
    <3> QED BY <3>1 DEF Typed, TypeOK, WorkerTypeOK
  <2> QED BY <1>1, <1>8, <2>1, <2>2, WorkerStepTyped, EffectsKept
<1> QED BY <1>2, <1>3, <1>4, <1>5, <1>6, <1>7, <1>8 DEF Next
-----------------------------------------------------------------------------
(* One app server.                                                           *)

LEMMA OwnersStep ==
    ASSUME Typed, RunningOwns, Next
    PROVE  RunningOwns'
<1>1. /\ worker \in [Worker -> [attempt : Attempt \cup {NoAttempt},
            status : {"unborn", "starting", "running", "dead"}]]
      /\ \A w \in Worker : worker[w].status # "unborn" => worker[w].attempt \in Attempt
      /\ owner \in [Attempt -> Worker \cup {NoWorker}]
  BY DEF Typed, TypeOK, WorkerTypeOK, ProviderTypeOK
<1>2. CASE UNCHANGED <<owner, worker>>
  BY <1>2 DEF RunningOwns
<1>3. ASSUME NEW c \in Controller, NEW w \in Worker, Spawn(c, w)
      PROVE  RunningOwns'
  BY <1>1, <1>3 DEF Spawn, RunningOwns, providerVars
<1>4. ASSUME NEW c \in Controller, ClaimForChild(c)
      PROVE  RunningOwns'
  <2>1. UNCHANGED worker
    BY <1>4 DEF ClaimForChild
  <2>2. \A a \in Attempt : owner[a] # NoWorker => owner'[a] = owner[a]
    BY <1>1, <1>4 DEF ClaimForChild
  <2> QED BY <1>1, <2>1, <2>2, WorkerAssumption DEF RunningOwns
<1>5. ASSUME NEW w \in Worker, WorkerClaim(w)
      PROVE  RunningOwns'
  <2> DEFINE a == worker[w].attempt
  <2>1. a \in Attempt
    BY <1>1, <1>5 DEF WorkerClaim
  <2>2. CASE owner[a] \in {NoWorker, w}
    <3>1. /\ owner' = [owner EXCEPT ![a] = w]
          /\ worker' = [worker EXCEPT ![w].status = "running"]
      BY <1>5, <2>2 DEF WorkerClaim
    <3>2. ASSUME NEW v \in Worker, v # w, worker'[v].status = "running"
          PROVE  owner'[worker'[v].attempt] = v
      <4>1. worker'[v] = worker[v] /\ worker[v].status = "running"
        BY <1>1, <3>1, <3>2
      <4>2. worker[v].attempt \in Attempt /\ owner[worker[v].attempt] = v
        BY <1>1, <4>1 DEF RunningOwns
      <4>3. worker[v].attempt # a
        BY <2>2, <3>2, <4>2, WorkerAssumption
      <4> QED BY <1>1, <3>1, <4>1, <4>2, <4>3
    <3>3. owner'[worker'[w].attempt] = w
      BY <1>1, <2>1, <3>1
    <3> QED BY <3>2, <3>3 DEF RunningOwns
  <2>3. CASE owner[a] \notin {NoWorker, w}
    <3>1. UNCHANGED owner /\ worker' = [worker EXCEPT ![w].status = "dead"]
      BY <1>5, <2>3 DEF WorkerClaim
    <3> QED BY <1>1, <3>1 DEF RunningOwns
  <2> QED BY <2>2, <2>3
<1>6. ASSUME NEW w \in Worker, WorkerExit(w)
      PROVE  RunningOwns'
  BY <1>1, <1>6 DEF WorkerExit, RunningOwns, providerVars
<1>7. ASSUME NEW w \in Worker, NEW o \in Outcomes, WorkerFinish(w, o)
      PROVE  UNCHANGED <<owner, worker>>
  BY <1>7 DEF WorkerFinish
<1>8. ASSUME NEW a \in Attempt, InstallFence(a)
      PROVE  UNCHANGED <<owner, worker>>
  BY <1>8 DEF InstallFence, providerVars
<1>9. ASSUME NEW c \in Controller, NEW a \in Attempt, Start(c, a)
      PROVE  UNCHANGED <<owner, worker>>
  BY <1>9 DEF Start, Prepare, Dispatch, Reconcile, RequestControl, RevokeFence, providerVars
<1>10. ASSUME NEW c \in Controller,
              AdvanceIntent(c) \/ AdvanceAnswer(c) \/ AdvanceRevocation(c) \/ Crash(c)
       PROVE  UNCHANGED <<owner, worker>>
  BY <1>10 DEF AdvanceIntent, StageDone, StageFail, Insert, NoEffect, Intend,
               AdvanceAnswer, Observe, Identify, Unknown, Seal, SealDone, Record,
               AdvanceRevocation, RevokeAttempt, Recancel, FenceAfter, Crash, providerVars
<1>11. ASSUME NEW c \in Controller, AdvanceLaunch(c)
       PROVE  RunningOwns'
  <2>1. ASSUME \/ Call(c) \/ VerifyFail(c) \/ PolicyReject(c) \/ Bind(c) \/ SpawnFail(c)
               \/ Reject(c) \/ IdentityUnknown(c)
        PROVE  UNCHANGED <<owner, worker>>
    BY <2>1 DEF Call, VerifyFail, PolicyReject, Bind, SpawnFail, Reject, IdentityUnknown,
                providerVars
  <2> QED BY <1>2, <1>3, <1>4, <1>11, <2>1 DEF AdvanceLaunch
<1> QED BY <1>2, <1>5, <1>6, <1>7, <1>8, <1>9, <1>10, <1>11 DEF Next, WorkerStep
-----------------------------------------------------------------------------
(* What the journal and the calls say of a terminal record is true, and it   *)
(* stays true.                                                               *)

\* The Attempt's one app server is gone and left no terminal record.
Ended(a) ==
    /\ completion[a] = "none"
    /\ owner[a] # NoWorker
    /\ worker[owner[a]].status = "dead"

\* worker-owner.json names a process that was started.
OwnersBorn ==
    \A a \in Attempt : owner[a] # NoWorker => worker[owner[a]].status # "unborn"

\* What the call of c took from the provider's files still holds of them.
CallTrue(c) ==
    /\ ctrl[c].pc \in {"seal", "sealing", "record"} /\ ctrl[c].obs \in Outcomes =>
          completion[ctrl[c].attempt] = ctrl[c].obs
    /\ ctrl[c].pc = "record" /\ ctrl[c].obs = "EXITED" => Ended(ctrl[c].attempt)
    /\ ctrl[c].pc = "identify" => owner[ctrl[c].attempt] # NoWorker
    /\ ctrl[c].pc = "claim" =>
          ctrl[c].child \in Worker /\ worker[ctrl[c].child].status # "unborn"

CallsTrue == \A c \in Controller : CallTrue(c)

\* So does what the observations in the journal say of the terminal record.
RowsTrue ==
    \A a \in Attempt : \A i \in DOMAIN log[a] :
        log[a][i].key.kind = "observation" =>
            /\ log[a][i].key.detail \in Outcomes => completion[a] = log[a][i].key.detail
            /\ log[a][i].key.detail = "EXITED" => Ended(a)

Truthful == OwnersBorn /\ CallsTrue /\ RowsTrue

\* Terminal records and owners are written once, a dead owner stays dead, and
\* a process once started stays started.
FactsStay ==
    /\ \A a \in Attempt :
          /\ completion[a] # "none" => completion'[a] = completion[a]
          /\ owner[a] # NoWorker => owner'[a] = owner[a]
          /\ Ended(a) => Ended(a)'
    /\ \A w \in Worker : worker[w].status # "unborn" => worker'[w].status # "unborn"

\* The steps that touch none of these files and no process.
LEMMA QuietFacts ==
    ASSUME UNCHANGED <<owner, completion, worker>>, OwnersBorn
    PROVE  FactsStay /\ OwnersBorn'
BY DEF FactsStay, OwnersBorn, Ended

LEMMA LaunchFacts ==
    ASSUME Typed, OwnersBorn, CallsTrue, NEW c \in Controller, AdvanceLaunch(c)
    PROVE  FactsStay /\ OwnersBorn'
<1> DEFINE a == ctrl[c].attempt
<1>1. /\ worker \in [Worker -> [attempt : Attempt \cup {NoAttempt},
            status : {"unborn", "starting", "running", "dead"}]]
      /\ owner \in [Attempt -> Worker \cup {NoWorker}]
      /\ ctrl[c].pc # "idle" => a \in Attempt
  BY DEF Typed, TypeOK, WorkerTypeOK, ProviderTypeOK, CtrlTypeOK
<1>2. ASSUME NEW w \in Worker, Spawn(c, w)
      PROVE  FactsStay /\ OwnersBorn'
  <2>1. /\ worker[w].status = "unborn" /\ UNCHANGED <<owner, completion>>
        /\ worker' = [worker EXCEPT ![w] = [attempt |-> a, status |-> "starting"]]
    BY <1>2 DEF Spawn, providerVars
  <2>2. /\ worker'[w].status = "starting"
        /\ \A v \in Worker : v # w => worker'[v] = worker[v]
    BY <1>1, <2>1
  <2> QED BY <1>1, <2>1, <2>2 DEF FactsStay, OwnersBorn, Ended
<1>3. CASE ClaimForChild(c)
  <2>1. /\ ctrl[c].pc = "claim" /\ UNCHANGED <<worker, completion>> /\ a \in Attempt
        /\ \/ UNCHANGED owner
           \/ /\ owner[a] \in {NoWorker, ctrl[c].child}
              /\ owner' = [owner EXCEPT ![a] = ctrl[c].child]
    BY <1>1, <1>3 DEF ClaimForChild
  <2>2. ctrl[c].child \in Worker /\ worker[ctrl[c].child].status # "unborn"
    BY <2>1 DEF CallsTrue, CallTrue
  <2>3. \A b \in Attempt :
           /\ owner[b] # NoWorker => owner'[b] = owner[b]
           /\ owner'[b] \in {owner[b], ctrl[c].child}
    BY <1>1, <2>1
  <2> QED BY <2>1, <2>2, <2>3 DEF FactsStay, OwnersBorn, Ended
<1>4. ASSUME \/ Call(c) \/ VerifyFail(c) \/ PolicyReject(c) \/ Bind(c) \/ SpawnFail(c)
             \/ Reject(c) \/ IdentityUnknown(c)
      PROVE  UNCHANGED <<owner, completion, worker>>
  BY <1>4 DEF Call, VerifyFail, PolicyReject, Bind, SpawnFail, Reject, IdentityUnknown,
              providerVars
<1> QED BY <1>2, <1>3, <1>4, QuietFacts DEF AdvanceLaunch

LEMMA WorkerFacts ==
    ASSUME Typed, OwnersBorn, RunningOwns, NEW w \in Worker, WorkerStep(w)
    PROVE  FactsStay /\ OwnersBorn'
<1> DEFINE a == worker[w].attempt
<1>1. /\ worker \in [Worker -> [attempt : Attempt \cup {NoAttempt},
            status : {"unborn", "starting", "running", "dead"}]]
      /\ owner \in [Attempt -> Worker \cup {NoWorker}]
      /\ completion \in [Attempt -> Outcomes \cup {"none"}]
      /\ worker[w].status # "unborn" => a \in Attempt
  BY DEF Typed, TypeOK, WorkerTypeOK, ProviderTypeOK
<1>2. CASE WorkerClaim(w)
  <2>1. /\ worker[w].status = "starting" /\ a \in Attempt /\ UNCHANGED completion
        /\ \E status \in {"running", "dead"} : worker' = [worker EXCEPT ![w].status = status]
        /\ \/ UNCHANGED owner
           \/ owner[a] \in {NoWorker, w} /\ owner' = [owner EXCEPT ![a] = w]
    BY <1>1, <1>2 DEF WorkerClaim
  <2>2. /\ worker'[w].status # "unborn"
        /\ \A v \in Worker : v # w => worker'[v] = worker[v]
    BY <1>1, <2>1
  <2>3. \A b \in Attempt :
           /\ owner[b] # NoWorker => owner'[b] = owner[b]
           /\ owner'[b] \in {owner[b], w}
    BY <1>1, <2>1
  <2>4. \A b \in Attempt : Ended(b) => owner[b] # w
    BY <2>1 DEF Ended
  <2> QED BY <1>1, <2>1, <2>2, <2>3, <2>4 DEF FactsStay, OwnersBorn, Ended
<1>3. ASSUME NEW o \in Outcomes, WorkerFinish(w, o)
      PROVE  FactsStay /\ OwnersBorn'
  <2>1. /\ worker[w].status = "running" /\ a \in Attempt /\ UNCHANGED <<owner, worker>>
        /\ completion[a] = "none" /\ completion' = [completion EXCEPT ![a] = o]
    BY <1>1, <1>3 DEF WorkerFinish
  <2>2. ~Ended(a)
    BY <2>1 DEF RunningOwns, Ended
  <2>3. \A b \in Attempt : b # a => completion'[b] = completion[b]
    BY <1>1, <2>1
  <2> QED BY <2>1, <2>2, <2>3 DEF FactsStay, OwnersBorn, Ended
<1>4. CASE WorkerExit(w)
  <2>1. /\ worker[w].status \in {"starting", "running"} /\ UNCHANGED <<owner, completion>>
        /\ worker' = [worker EXCEPT ![w].status = "dead"]
    BY <1>4 DEF WorkerExit, Live, providerVars
  <2>2. /\ worker'[w].status = "dead"
        /\ \A v \in Worker : v # w => worker'[v] = worker[v]
    BY <1>1, <2>1
  <2> QED BY <1>1, <2>1, <2>2 DEF FactsStay, OwnersBorn, Ended
<1> QED BY <1>2, <1>3, <1>4 DEF WorkerStep

LEMMA FactsStep ==
    ASSUME Typed, OwnersBorn, CallsTrue, RunningOwns, Next
    PROVE  FactsStay /\ OwnersBorn'
<1>1. ASSUME NEW a \in Attempt, InstallFence(a)
      PROVE  UNCHANGED <<owner, completion, worker>>
  BY <1>1 DEF InstallFence, providerVars
<1>2. ASSUME NEW c \in Controller, NEW a \in Attempt, Start(c, a)
      PROVE  UNCHANGED <<owner, completion, worker>>
  BY <1>2 DEF Start, Prepare, Dispatch, Reconcile, RequestControl, RevokeFence, providerVars
<1>3. ASSUME NEW c \in Controller,
             AdvanceIntent(c) \/ AdvanceAnswer(c) \/ AdvanceRevocation(c) \/ Crash(c)
      PROVE  UNCHANGED <<owner, completion, worker>>
  BY <1>3 DEF AdvanceIntent, StageDone, StageFail, Insert, NoEffect, Intend,
              AdvanceAnswer, Observe, Identify, Unknown, Seal, SealDone, Record,
              AdvanceRevocation, RevokeAttempt, Recancel, FenceAfter, Crash, providerVars
<1> QED BY <1>1, <1>2, <1>3, QuietFacts, LaunchFacts, WorkerFacts DEF Next

\* A call that does not move stays true, and so does the journal.
LEMMA CallStays ==
    ASSUME Typed, FactsStay, NEW d \in Controller, CallTrue(d), ctrl'[d] = ctrl[d]
    PROVE  CallTrue(d)'
<1>1. ctrl[d].pc # "idle" => ctrl[d].attempt \in Attempt
  BY DEF Typed, TypeOK, CtrlTypeOK
<1>2. "none" \notin Outcomes
  BY DEF Outcomes
<1>3. \A a \in Attempt :
         Ended(a) => /\ completion'[a] = "none"
                     /\ owner'[a] # NoWorker
                     /\ worker'[owner'[a]].status = "dead"
  BY DEF FactsStay, Ended
<1>4. CallTrue(d) /\ ctrl[d].pc = "record" /\ ctrl[d].obs = "EXITED" =>
         ctrl[d].attempt \in Attempt /\ Ended(ctrl[d].attempt)
  BY <1>1 DEF CallTrue
<1> QED BY <1>1, <1>2, <1>3, <1>4 DEF CallTrue, FactsStay, Ended

LEMMA CallsMove ==
    ASSUME Typed, FactsStay, CallsTrue, NEW c \in Controller, Alone(c), CallTrue(c)'
    PROVE  CallsTrue'
<1>1. \A d \in Controller : d # c => CallTrue(d)'
  BY CallStays DEF CallsTrue, Alone
<1> QED BY <1>1 DEF CallsTrue

LEMMA CallsQuiet ==
    ASSUME Typed, FactsStay, CallsTrue, NEW c \in Controller, Alone(c),
           ctrl'[c].pc \notin Telling
    PROVE  CallsTrue'
<1>1. CallTrue(c)'
  BY DEF CallTrue, Telling
<1> QED BY <1>1, CallsMove

LEMMA RowsStay ==
    ASSUME FactsStay, RowsTrue, UNCHANGED log
    PROVE  RowsTrue'
BY DEF FactsStay, RowsTrue, Outcomes

LEMMA RowsPosted ==
    ASSUME Typed, FactsStay, RowsTrue, NEW c \in Controller, ctrl[c].pc # "idle",
           NEW row \in RowType, NEW pc, Post(c, row, pc),
           row.key.kind = "observation" =>
              /\ row.key.detail \in Outcomes =>
                    completion[ctrl[c].attempt] = row.key.detail
              /\ row.key.detail = "EXITED" => Ended(ctrl[c].attempt)
    PROVE  RowsTrue'
<1> DEFINE a == ctrl[c].attempt
<1>1. a \in Attempt /\ log \in [Attempt -> Seq(RowType)]
  BY DEF Typed, TypeOK, CtrlTypeOK
<1>2. \A b \in Attempt : log'[b] = IF b = a THEN Appended(log[a], row) ELSE log[b]
  BY <1>1 DEF Post
<1>3. ASSUME NEW b \in Attempt, NEW i \in DOMAIN log'[b]
      PROVE  \/ i \in DOMAIN log[b] /\ log'[b][i] = log[b][i]
             \/ b = a /\ log'[b][i] = row
  <2>1. log[a] \in Seq(RowType)
    BY <1>1
  <2>2. CASE b # a \/ HasKey(log[a], row.key)
    BY <1>2, <1>3, <2>2 DEF Appended
  <2>3. CASE b = a /\ ~HasKey(log[a], row.key)
    <3> DEFINE rows == log[a]
    <3>1. log'[b] = Append(rows, row) /\ i \in DOMAIN Append(rows, row)
      BY <1>2, <1>3, <2>3 DEF Appended
    <3>2. rows \in Seq(RowType)
      BY <2>1
    <3> HIDE DEF rows
    <3>3. \/ i \in DOMAIN rows /\ Append(rows, row)[i] = rows[i]
          \/ Append(rows, row)[i] = row
      BY <3>1, <3>2
    <3> QED BY <2>3, <3>1, <3>3 DEF rows
  <2> QED BY <2>2, <2>3
<1>4. "none" \notin Outcomes
  BY DEF Outcomes
<1>5. ASSUME NEW b \in Attempt, NEW i \in DOMAIN log'[b],
             log'[b][i].key.kind = "observation"
      PROVE  /\ log'[b][i].key.detail \in Outcomes => completion'[b] = log'[b][i].key.detail
             /\ log'[b][i].key.detail = "EXITED" => Ended(b)'
  <2>1. /\ log'[b][i].key.detail \in Outcomes => completion[b] = log'[b][i].key.detail
        /\ log'[b][i].key.detail = "EXITED" => Ended(b)
    BY <1>3, <1>5 DEF RowsTrue
  <2> QED BY <1>4, <2>1 DEF FactsStay
<1> QED BY <1>5 DEF RowsTrue

\* Each step keeps the calls and the journal true.
LEMMA StartTruth ==
    ASSUME Typed, FactsStay, CallsTrue, RowsTrue, NEW c \in Controller, NEW a \in Attempt,
           Start(c, a)
    PROVE  CallsTrue' /\ RowsTrue'
<1>1. CallsTrue'
  BY StartShape, CallsQuiet
<1>2. UNCHANGED log
  BY DEF Start, Prepare, Dispatch, Reconcile, RequestControl, RevokeFence, journalVars
<1> QED BY <1>1, <1>2, RowsStay

LEMMA IntentTruth ==
    ASSUME Typed, FactsStay, CallsTrue, RowsTrue, NEW c \in Controller, AdvanceIntent(c)
    PROVE  CallsTrue' /\ RowsTrue'
<1>1. CtrlTypeOK /\ Finished(c) \in {"idle", "fence"}
  BY DEF Typed, TypeOK, Finished
<1>2. CASE StageDone(c) \/ StageFail(c)
  <2>1. (Goto(c, "insert") \/ Goto(c, "idle")) /\ UNCHANGED log
    BY <1>2 DEF StageDone, StageFail, journalVars
  <2>2. Alone(c) /\ ctrl'[c].pc \notin Telling
    BY <1>1, <2>1, GotoShape DEF Steps, Telling
  <2> QED BY <2>1, <2>2, CallsQuiet, RowsStay
<1>3. CASE Insert(c) \/ NoEffect(c) \/ Intend(c)
  <2>1. PICK row \in RowType, pc \in {"idle", "fence", "call"} :
           Post(c, row, pc) /\ row.key.kind # "observation"
    <3>1. CASE Insert(c)
      <4>1. Row(Key("prepare", "prepared", "none"), "PREPARED", FALSE, FALSE, "NONE") \in RowType
        BY DEF Row, Key, RowType, Operations, Kinds, Details, AttemptStates, Certainties
      <4> QED BY <3>1, <4>1 DEF Insert, Row, Key
    <3>2. CASE NoEffect(c)
      BY <1>1, <3>2, RowsAreTyped DEF NoEffect, NoEffectRow, Row, Key
    <3>3. CASE Intend(c)
      BY <1>1, <3>3, RowsAreTyped DEF Intend, IntentRow, Row, Key
    <3> QED BY <1>3, <3>1, <3>2, <3>3
  <2>2. ctrl[c].pc # "idle"
    BY <1>3 DEF Insert, NoEffect, Intend
  <2>3. Alone(c) /\ ctrl'[c].pc \notin Telling
    BY <1>1, <2>1, PostShape DEF Steps, Telling
  <2> QED BY <2>1, <2>2, <2>3, CallsQuiet, RowsPosted
<1> QED BY <1>2, <1>3 DEF AdvanceIntent

LEMMA LaunchTruth ==
    ASSUME Typed, CallsOK, FactsStay, CallsTrue, RowsTrue, NEW c \in Controller,
           AdvanceLaunch(c)
    PROVE  CallsTrue' /\ RowsTrue'
<1> DEFINE a == ctrl[c].attempt
<1>1. /\ CtrlTypeOK /\ Finished(c) \in {"idle", "fence"}
      /\ ctrl \in [Controller -> CallType] /\ ctrl[c] \in CallType
  BY DEF Typed, TypeOK, Finished, CtrlTypeOK
<1>2. CASE Call(c)
  <2> DEFINE op == ctrl[c].op
             call == [ctrl[c] EXCEPT !.pc = CallStep(a, op), !.obs = CallObs(a, op),
                        !.state = HeadState(log[a]), !.ref = HasProviderRef(log[a])]
  <2>1. /\ call.pc = CallStep(a, op) /\ call.obs = CallObs(a, op)
        /\ call.attempt = a /\ ctrl' = [ctrl EXCEPT ![c] = call]
        /\ UNCHANGED <<log, completion>>
    BY <1>1, <1>2 DEF Call, CallType, journalVars
  <2>2. Alone(c) /\ ctrl'[c] = call
    <3> HIDE DEF call
    <3> QED BY <1>1, <2>1 DEF Alone
  <2>3. /\ CallStep(a, op) \in {"seal", "bind", "unknown", "observe"}
        /\ CallStep(a, op) = "seal" => CallObs(a, op) = completion[a]
    <3> HIDE DEF a, op
    <3> QED BY DEF CallStep, CallObs
  <2> HIDE DEF call
  <2>4. CallTrue(c)'
    BY <2>1, <2>2, <2>3 DEF CallTrue
  <2> QED BY <2>1, <2>2, <2>4, CallsMove, RowsStay
<1>3. CASE VerifyFail(c) \/ PolicyReject(c) \/ SpawnFail(c) \/ Bind(c)
  <2>1. (Goto(c, "reject") \/ Goto(c, "idle") \/ Goto(c, "spawn")) /\ UNCHANGED log
    BY <1>3 DEF VerifyFail, PolicyReject, SpawnFail, Bind, journalVars
  <2>2. Alone(c) /\ ctrl'[c].pc \notin Telling
    BY <1>1, <2>1, GotoShape DEF Steps, Telling
  <2> QED BY <2>1, <2>2, CallsQuiet, RowsStay
<1>4. ASSUME NEW w \in Worker, Spawn(c, w)
      PROVE  CallsTrue' /\ RowsTrue'
  <2>1. /\ Alone(c) /\ ctrl'[c].pc = "claim" /\ ctrl'[c].child = w
        /\ UNCHANGED log
    BY <1>1, <1>4 DEF Spawn, Alone, CallType, journalVars
  <2>2. worker'[w].status = "starting"
    BY <1>4 DEF Spawn, Typed, TypeOK, WorkerTypeOK
  <2>3. CallTrue(c)'
    BY <2>1, <2>2 DEF CallTrue
  <2> QED BY <2>1, <2>3, CallsMove, RowsStay
<1>5. CASE Reject(c)
  <2> DEFINE row == Row(Key("launch", "rejected", "none"), "FAILED", FALSE, FALSE, "NONE")
  <2>1. row \in RowType /\ row.key.kind # "observation"
    BY DEF Row, Key, RowType, Operations, Kinds, Details, AttemptStates, RetryableStates,
           Certainties
  <2>2. Post(c, row, Finished(c)) /\ ctrl[c].pc # "idle"
    BY <1>5 DEF Reject
  <2> HIDE DEF row
  <2>3. Alone(c) /\ ctrl'[c].pc \notin Telling
    BY <1>1, <2>2, PostShape DEF Steps, Telling
  <2> QED BY <2>1, <2>2, <2>3, CallsQuiet, RowsPosted
<1>6. CASE IdentityUnknown(c) \/ ClaimForChild(c)
  <2>1. /\ UNCHANGED log
        /\ \/ Report(c, "unknown", "identity_unknown")
           \/ Report(c, "unknown", "binding_conflict")
           \/ Report(c, "record", "RUNNING")
    BY <1>6 DEF IdentityUnknown, ClaimForChild, journalVars
  <2>2. /\ Alone(c)
        /\ \/ ctrl'[c].pc = "unknown"
           \/ ctrl'[c].pc = "record" /\ ctrl'[c].obs = "RUNNING"
    BY <1>1, <2>1, ReportShape DEF Steps, Details, Observations, Unknowns
  <2>3. CallTrue(c)'
    BY <2>2 DEF CallTrue, Outcomes
  <2> QED BY <2>1, <2>2, <2>3, CallsMove, RowsStay
<1> QED BY <1>2, <1>3, <1>4, <1>5, <1>6 DEF AdvanceLaunch

LEMMA AnswerTruth ==
    ASSUME Typed, CallsOK, OwnersBorn, FactsStay, CallsTrue, RowsTrue,
           NEW c \in Controller, AdvanceAnswer(c)
    PROVE  CallsTrue' /\ RowsTrue'
<1> DEFINE a == ctrl[c].attempt
<1>1. /\ CtrlTypeOK /\ Finished(c) \in {"idle", "fence"}
      /\ Outcomes \subseteq Details /\ {"EXITED", "NO_OWNER"} \subseteq Details
      /\ Running \subseteq Details /\ "launch_missing" \in Details
      /\ {"identify", "unknown", "seal", "sealing", "record", "idle"} \subseteq Steps
  BY DEF Typed, TypeOK, Finished, Details, Observations, Running, Unknowns, Steps
<1>2. /\ ctrl[c].pc # "idle" => a \in Attempt
      /\ ctrl[c].pc \in {"seal", "sealing"} => ctrl[c].obs \in Outcomes
      /\ completion \in [Attempt -> Outcomes \cup {"none"}]
      /\ owner \in [Attempt -> Worker \cup {NoWorker}]
      /\ \A w \in Worker : worker[w].status \in {"unborn", "starting", "running", "dead"}
  BY DEF Typed, TypeOK, CtrlTypeOK, CallsOK, CallsAnswered, ProviderTypeOK, WorkerTypeOK
<1>3. CASE Observe(c)
  <2>1. /\ a \in Attempt /\ UNCHANGED <<log, completion, owner, worker>>
        /\ \/ Report(c, "unknown", "launch_missing")
           \/ completion[a] \in Outcomes /\ Report(c, "seal", completion[a])
           \/ Report(c, "record", "NO_OWNER")
           \/ owner[a] # NoWorker /\ Goto(c, "identify")
    BY <1>2, <1>3 DEF Observe, journalVars, providerVars
  <2>2. /\ Alone(c) /\ ctrl'[c].attempt = a
        /\ \/ ctrl'[c].pc = "unknown"
           \/ ctrl'[c].pc = "seal" /\ ctrl'[c].obs = completion[a]
           \/ ctrl'[c].pc = "record" /\ ctrl'[c].obs = "NO_OWNER"
           \/ ctrl'[c].pc = "identify" /\ owner[a] # NoWorker
    BY <1>1, <2>1, ReportShape, GotoShape
  <2>3. CallTrue(c)'
    BY <2>1, <2>2 DEF CallTrue, Outcomes
  <2> QED BY <2>1, <2>2, <2>3, CallsMove, RowsStay
<1>4. CASE Identify(c)
  <2>1. RunningAs(ctrl[c].op) \in Running
    BY DEF RunningAs, Running
  <2>2. /\ a \in Attempt /\ UNCHANGED <<log, completion, owner, worker>>
        /\ owner[a] # NoWorker
        /\ \/ Report(c, "record", RunningAs(ctrl[c].op))
           \/ completion[a] \in Outcomes /\ Report(c, "seal", completion[a])
           \/ ~Live(owner[a]) /\ completion[a] = "none" /\ Report(c, "record", "EXITED")
    BY <1>2, <1>4 DEF Identify, CallsTrue, CallTrue, journalVars, providerVars
  <2>3. ~Live(owner[a]) /\ completion[a] = "none" => Ended(a)
    BY <1>2, <2>2 DEF Live, Ended, OwnersBorn
  <2>4. /\ Alone(c) /\ ctrl'[c].attempt = a
        /\ \/ ctrl'[c].pc = "record" /\ ctrl'[c].obs \in Running
           \/ ctrl'[c].pc = "seal" /\ ctrl'[c].obs = completion[a]
           \/ ctrl'[c].pc = "record" /\ ctrl'[c].obs = "EXITED" /\ Ended(a)
    BY <1>1, <2>1, <2>2, <2>3, ReportShape
  <2>5. CallTrue(c)'
    BY <2>2, <2>4 DEF CallTrue, Outcomes, Running, Ended
  <2> QED BY <2>2, <2>4, <2>5, CallsMove, RowsStay
<1>5. CASE Seal(c) \/ SealDone(c)
  <2>1. /\ ctrl[c].obs \in Outcomes /\ completion[a] = ctrl[c].obs
        /\ UNCHANGED <<log, completion, owner, worker>>
        /\ \E pc \in {"sealing", "record", "idle"} : Goto(c, pc)
    BY <1>2, <1>5 DEF Seal, SealDone, CallsTrue, CallTrue, journalVars, providerVars
  <2>2. /\ Alone(c) /\ ctrl'[c].pc \in {"sealing", "record", "idle"}
        /\ ctrl'[c].pc # "idle" => ctrl'[c].attempt = a /\ ctrl'[c].obs = ctrl[c].obs
    BY <1>1, <2>1, GotoShape
  <2>3. CallTrue(c)'
    BY <2>1, <2>2 DEF CallTrue, Outcomes
  <2> QED BY <2>1, <2>2, <2>3, CallsMove, RowsStay
<1>6. CASE Unknown(c) \/ Record(c)
  <2>1. PICK row \in RowType :
           /\ Post(c, row, Finished(c))
           /\ row.key.kind = "observation" =>
                 ctrl[c].pc = "record" /\ row.key.detail = ctrl[c].obs
    <3>1. CASE Unknown(c)
      <4>1. /\ ctrl[c].op \in Operations /\ ctrl[c].obs \in Details
            /\ ctrl[c].ref \in BOOLEAN
        BY DEF Typed, TypeOK, CtrlTypeOK, CallType
      <4>2. Row(Key(ctrl[c].op, "unknown", ctrl[c].obs), "UNKNOWN", ctrl[c].ref, FALSE,
                "UNKNOWN") \in RowType
        BY <4>1 DEF Row, Key, RowType, Kinds, AttemptStates, Certainties
      <4> QED BY <3>1, <4>2 DEF Unknown, Row, Key
    <3>2. CASE Record(c)
      <4>1. ObservationRow(c) \in RowType
        BY <1>1, <3>2, RowsAreTyped DEF Record, CallsOK, CallsAnswered
      <4>2. ObservationRow(c).key.detail = ctrl[c].obs
        BY DEF ObservationRow, Row, Key
      <4> QED BY <3>2, <4>1, <4>2 DEF Record
    <3> QED BY <1>6, <3>1, <3>2
  <2>2. ctrl[c].pc # "idle"
    BY <1>6 DEF Unknown, Record
  <2>3. row.key.kind = "observation" =>
           /\ row.key.detail \in Outcomes => completion[a] = row.key.detail
           /\ row.key.detail = "EXITED" => Ended(a)
    BY <2>1 DEF CallsTrue, CallTrue
  <2>4. Alone(c) /\ ctrl'[c].pc \notin Telling
    BY <1>1, <2>1, PostShape DEF Steps, Telling
  <2>5. RowsTrue'
    BY <2>1, <2>2, <2>3, RowsPosted
  <2> QED BY <2>4, <2>5, CallsQuiet
<1> QED BY <1>3, <1>4, <1>5, <1>6 DEF AdvanceAnswer

LEMMA RevocationTruth ==
    ASSUME Typed, FactsStay, CallsTrue, RowsTrue, NEW c \in Controller,
           AdvanceRevocation(c) \/ Crash(c)
    PROVE  CallsTrue' /\ RowsTrue'
<1>1. CallsTrue'
  BY AdvanceRevocationShape, CallsQuiet
<1>2. CASE FenceAfter(c)
  <2> DEFINE a == ctrl[c].attempt
             row == Row(Key("revoke", "fence_revoked", "none"), "FENCED",
                        HasProviderRef(log[a]), FALSE, "KNOWN")
  <2>1. ctrl[c].pc = "fence" /\ Post(c, row, "idle")
    BY <1>2 DEF FenceAfter
  <2>2. row \in RowType /\ row.key.kind # "observation"
    <3>1. HasProviderRef(log[a]) \in BOOLEAN
      BY DEF HasProviderRef
    <3> HIDE DEF a
    <3> QED BY <3>1 DEF Row, Key, RowType, Operations, Kinds, Details, AttemptStates,
                        Certainties
  <2> HIDE DEF row
  <2> QED BY <1>1, <2>1, <2>2, RowsPosted
<1>3. CASE RevokeAttempt(c) \/ Recancel(c) \/ Crash(c)
  <2>1. UNCHANGED log
    BY <1>3 DEF RevokeAttempt, Recancel, Crash, journalVars
  <2> QED BY <1>1, <2>1, RowsStay
<1> QED BY <1>2, <1>3 DEF AdvanceRevocation

LEMMA TruthStep ==
    ASSUME Typed, CallsOK, RunningOwns, Truthful, Next
    PROVE  Truthful'
<1>1. OwnersBorn /\ CallsTrue /\ RowsTrue
  BY DEF Truthful
<1>2. FactsStay /\ OwnersBorn'
  BY <1>1, FactsStep
<1>3. ASSUME NEW a \in Attempt, InstallFence(a)
      PROVE  CallsTrue' /\ RowsTrue'
  <2>1. UNCHANGED <<log, ctrl>>
    BY <1>3 DEF InstallFence
  <2> QED BY <1>1, <1>2, <2>1, CallStays, RowsStay DEF CallsTrue
<1>4. ASSUME NEW w \in Worker, WorkerStep(w)
      PROVE  CallsTrue' /\ RowsTrue'
  <2>1. UNCHANGED <<log, ctrl>>
    BY <1>4 DEF WorkerStep, WorkerClaim, WorkerFinish, WorkerExit, journalVars
  <2> QED BY <1>1, <1>2, <2>1, CallStays, RowsStay DEF CallsTrue
<1>5. CallsTrue' /\ RowsTrue'
  BY <1>1, <1>2, <1>3, <1>4, StartTruth, IntentTruth, LaunchTruth, AnswerTruth,
     RevocationTruth DEF Next
<1> QED BY <1>2, <1>5 DEF Truthful
-----------------------------------------------------------------------------
(* The theorems.                                                             *)

IInv == Typed /\ CallsOK /\ EffectAfterIntent /\ RunningOwns /\ Truthful

\* The invariant holds at first and every step of the adapter keeps it.
THEOREM IInvHolds == Spec => []IInv
<1>1. Init => IInv
  <2> SUFFICES ASSUME Init PROVE IInv
    OBVIOUS
  <2>1. CtrlTypeOK /\ \A c \in Controller : ctrl[c] = Idle
    BY IdleIsCall DEF Init, CtrlTypeOK, Idle
  <2>2. CallsRecorded /\ CallsOK
    BY <2>1 DEF CallsRecorded, CallsOK, CallsIntended, CallsAnswered, BeforeRecord, Idle
  <2>3. log \in [Attempt -> Seq(RowType)] /\ HeadsOK
    BY DEF Init, HeadsOK
  <2>4. StoreTypeOK /\ ProviderTypeOK
    BY DEF Init, StoreTypeOK, ProviderTypeOK
  <2>5. WorkerTypeOK /\ RunningOwns
    BY DEF Init, WorkerTypeOK, RunningOwns, Unborn
  <2>6. EffectAfterIntent
    BY PreviousAssumption DEF Init, EffectAfterIntent, WorkersOf, Unborn
  <2>7. Truthful
    BY <2>1 DEF Init, Truthful, OwnersBorn, CallsTrue, CallTrue, RowsTrue, Idle
  <2> QED BY <2>1, <2>2, <2>3, <2>4, <2>5, <2>6, <2>7 DEF IInv, Typed, TypeOK
<1>2. IInv /\ [Next]_vars => IInv'
  <2> SUFFICES ASSUME IInv, [Next]_vars PROVE IInv'
    OBVIOUS
  <2>1. CASE UNCHANGED vars
    BY <2>1 DEF vars, IInv, Typed, TypeOK, HeadsOK, CallsRecorded, CallsOK, CallsIntended,
                CallsAnswered, StoreTypeOK, ProviderTypeOK, WorkerTypeOK, CtrlTypeOK,
                Recorded, Requested, EffectAfterIntent, WorkersOf, RunningOwns,
                Truthful, OwnersBorn, CallsTrue, CallTrue, RowsTrue, Ended
  <2>2. CASE Next
    <3>1. Typed /\ CallsOK /\ EffectAfterIntent /\ RunningOwns /\ Truthful
      BY DEF IInv
    <3>2. EffectAfterIntent' /\ RunningOwns' /\ Truthful'
      BY <2>2, <3>1, EffectStep, OwnersStep, TruthStep
    <3>3. ASSUME NEW a \in Attempt, InstallFence(a)
          PROVE  Typed' /\ CallsOK'
      BY <3>1, <3>3
         DEF InstallFence, Typed, TypeOK, HeadsOK, CallsRecorded, CallsOK, CallsIntended,
             CallsAnswered, StoreTypeOK, ProviderTypeOK, WorkerTypeOK, CtrlTypeOK, Recorded,
             Requested, storeVars, providerVars
    <3>4. ASSUME NEW c \in Controller, NEW a \in Attempt, Start(c, a)
          PROVE  Typed' /\ CallsOK'
      BY <3>1, <3>4, StartTyped, StartCalls
    <3>5. ASSUME NEW c \in Controller,
                 \/ AdvanceIntent(c) \/ AdvanceLaunch(c) \/ AdvanceAnswer(c)
                 \/ AdvanceRevocation(c) \/ Crash(c)
          PROVE  Typed' /\ CallsOK'
      <4>1. ctrl[c].pc = "record" => ctrl[c].obs \in Observations
        BY <3>1 DEF CallsOK, CallsAnswered
      <4> QED BY <3>1, <3>5, <4>1, AdvanceIntentTyped, AdvanceIntentCalls,
                 AdvanceLaunchTyped, AdvanceLaunchCalls, AdvanceAnswerTyped,
                 AdvanceAnswerCalls, AdvanceRevocationTyped, AdvanceRevocationCalls
    <3>6. ASSUME NEW w \in Worker, WorkerStep(w)
          PROVE  Typed' /\ CallsOK'
      <4>1. Typed'
        BY <3>1, <3>6, WorkerStepTyped
      <4>2. UNCHANGED <<log, ctrl>>
        BY <3>6 DEF WorkerStep, WorkerClaim, WorkerFinish, WorkerExit, journalVars
      <4> QED BY <3>1, <4>1, <4>2 DEF CallsOK, CallsIntended, CallsAnswered, Requested
    <3>7. Typed' /\ CallsOK'
      BY <2>2, <3>3, <3>4, <3>5, <3>6 DEF Next
    <3> QED BY <3>2, <3>7 DEF IInv
  <2> QED BY <2>1, <2>2
<1> QED BY <1>1, <1>2, PTL DEF Spec

\* Every variable keeps its type, whatever calls overlap and crash.
THEOREM TypesHold == Spec => []TypeOK
<1>1. IInv => TypeOK
  BY DEF IInv, Typed
<1> QED BY <1>1, IInvHolds, PTL

\* dispatch(), request_cancel() and force_stop(): no launch binding, worker or
\* control request without its durable intent, for any number of controllers.
THEOREM IntentPrecedesEffect == Spec => []EffectAfterIntent
<1>1. IInv => EffectAfterIntent
  BY DEF IInv
<1> QED BY <1>1, IInvHolds, PTL

\* worker-owner.json is written once: of any number of workers spawned for an
\* Attempt one at most runs an app server.
THEOREM OneAppServerRuns == Spec => []OneAppServer
<1>1. IInv => OneAppServer
  BY DEF IInv, RunningOwns, OneAppServer
<1> QED BY <1>1, IInvHolds, PTL

\* _observe_recorded_launch() and _apply_observation(): however many calls
\* observe an Attempt, whatever they read before and seal after, a terminal
\* observation they journal is the terminal record.
THEOREM OutcomesAgree == Spec => []AgreedOutcome
<1>1. IInv => AgreedOutcome
  BY DEF IInv, Truthful, RowsTrue, AgreedOutcome
<1> QED BY <1>1, IInvHolds, PTL

\* _observe_recorded_launch(): an exit without terminal record is journalled
\* only when none of the Attempt's workers, however many were spawned, can
\* still write one.
THEOREM ExitsAreFinal == Spec => []ExitedWithoutRecord
<1>1. IInv => ExitedWithoutRecord
  <2> SUFFICES ASSUME IInv PROVE ExitedWithoutRecord
    OBVIOUS
  <2>1. ASSUME NEW a \in Attempt, Ended(a), NEW w \in WorkersOf(a)
        PROVE  worker[w].status # "running"
    BY <2>1 DEF IInv, RunningOwns, Ended, WorkersOf
  <2> QED BY <2>1 DEF IInv, Truthful, RowsTrue, ExitedWithoutRecord, Ended
<1> QED BY <1>1, IInvHolds, PTL

-----------------------------------------------------------------------------
(***************************************************************************)
(* One controller at a time.  The adapter keeps the promise of             *)
(* AttemptPromise, and a retry follows only an Attempt that left nothing   *)
(* running.                                                                *)
(*                                                                         *)
(* The argument: what a call read of an Attempt before one of its steps is *)
(* still true at the next (Custody), because only this call appends to the *)
(* journal or revokes a fence.  So every row says what the promise allows  *)
(* to be said there.  Steps of workers, and of the call that only look,    *)
(* are steps of the promise whatever the call holds.                       *)
(***************************************************************************)

\* The last trusted row is the only one no trusted row follows.
LEMMA LastTrustedIs ==
    ASSUME NEW rows \in Seq(RowType), NEW n \in Trusted(rows), \A j \in Trusted(rows) : j <= n
    PROVE  LastTrusted(rows) = n
<1>1. Trusted(rows) \subseteq Nat
  BY DEF Trusted
<1>2. /\ LastTrusted(rows) \in Trusted(rows)
      /\ \A j \in Trusted(rows) : j <= LastTrusted(rows)
  BY DEF LastTrusted
<1> QED BY <1>1, <1>2

\* A row under a key the journal has is not appended; another one is, and moves
\* the head unless it is evidence.
LEMMA AppendedHead ==
    ASSUME NEW rows \in Seq(RowType), NEW row \in RowType,
           HasHead(rows) \/ (rows = <<>> /\ row.evidence_only = FALSE)
    PROVE  /\ HasKey(rows, row.key) => Appended(rows, row) = rows
           /\ ~HasKey(rows, row.key) /\ row.evidence_only =>
                 HeadState(Appended(rows, row)) = HeadState(rows)
           /\ ~HasKey(rows, row.key) /\ ~row.evidence_only =>
                 HeadState(Appended(rows, row)) = row.state
           /\ \A key : HasKey(Appended(rows, row), key) =>
                          HasKey(rows, key) \/ key = row.key
<1>1. CASE HasKey(rows, row.key)
  BY <1>1 DEF Appended
<1>2. CASE ~HasKey(rows, row.key)
  <2> DEFINE new == Append(rows, row)
             n == Len(rows)
  <2>1. /\ Appended(rows, row) = new
        /\ new \in Seq(RowType)
        /\ n \in Nat
        /\ DOMAIN rows = 1 .. n
        /\ DOMAIN new = 1 .. (n + 1)
        /\ new[n + 1] = row
        /\ \A i \in 1 .. n : new[i] = rows[i]
    BY <1>2 DEF Appended
  <2> HIDE DEF new, n
  <2>2. \A key : HasKey(new, key) => HasKey(rows, key) \/ key = row.key
    BY <2>1 DEF HasKey
  <2>3. ASSUME ~row.evidence_only
        PROVE  HeadState(new) = row.state
    <3>1. n + 1 \in Trusted(new) /\ \A j \in Trusted(new) : j <= n + 1
      BY <2>1, <2>3 DEF Trusted
    <3>2. LastTrusted(new) = n + 1
      BY <2>1, <3>1, LastTrustedIs
    <3> QED BY <2>1, <3>2 DEF HeadState
  <2>4. ASSUME row.evidence_only
        PROVE  HeadState(new) = HeadState(rows)
    <3>1. HasHead(rows)
      BY <2>4
    <3>2. Trusted(new) = Trusted(rows)
      BY <2>1, <2>4 DEF Trusted
    <3>3. LastTrusted(new) = LastTrusted(rows)
      BY <3>2 DEF LastTrusted
    <3>4. LastTrusted(rows) \in DOMAIN rows
      BY <3>1 DEF LastTrusted, HasHead, Trusted
    <3> QED BY <2>1, <3>3, <3>4 DEF HeadState
  <2> QED BY <1>2, <2>1, <2>2, <2>3, <2>4
<1> QED BY <1>1, <1>2
-----------------------------------------------------------------------------
(* One controller at a time: what its call found out stays true, for nobody  *)
(* else appends a row or revokes a fence meanwhile.                          *)

\* No two processes call the adapter at once.
Sole == \A c, d \in Controller : c = d

\* The steps of a call that acts on an Attempt in the state it read.
Tracking ==
    {"bind", "spawn", "claim", "observe", "identify", "seal", "sealing", "record", "unknown"}

\* Nothing was started for a, and its fence lets something start.
Clear(a) == WorkersOf(a) = {} /\ fence[a] = "active"

\* What the call of c may count on about the Attempt's fence ...
FenceHeld(c) ==
    LET call == ctrl[c] IN
    /\ call.pc \in {"staging", "insert"} => fence[call.attempt] # "absent"
    /\ call.pc \in {"revoking", "recancel", "fence"} => fence[call.attempt] = "revoked"
    /\ call.fencing /\ call.pc # "idle" => fence[call.attempt] = "revoked"

\* ... about the state in its journal ...
StateHeld(c) ==
    LET call == ctrl[c]
        head == HeadState(log[call.attempt])
    IN  /\ call.pc = "no_effect" =>
              /\ head = "PREPARED"
              /\ call.op \in Controls \/ fence[call.attempt] = "revoked"
        /\ call.pc = "intend" =>
              \/ call.op = "launch" /\ head = "PREPARED" /\ fence[call.attempt] = "active"
              \/ call.op \in Controls /\ head \in ActiveStates
        /\ call.pc \in {"call", "bind", "spawn", "claim", "reject"} => head \in ActiveStates
        /\ call.pc \in Tracking =>
              call.state = head /\ head \in ActiveStates \cup {"UNKNOWN"}

\* ... and about what was started for it.
LaunchHeld(c) ==
    LET call == ctrl[c] IN
    /\ call.pc = "call" => call.op \in Controls \/ (call.op = "launch" /\ Clear(call.attempt))
    /\ call.pc \in {"bind", "spawn"} => Clear(call.attempt)
    /\ call.pc = "reject" => WorkersOf(call.attempt) = {}

Held == \A c \in Controller : FenceHeld(c) /\ StateHeld(c) /\ LaunchHeld(c)

\* Every journal begins with its prepare row, under a fence, and has no launch
\* intent while the Attempt is PREPARED; a terminal record has a writer.
Steady ==
    \A a \in Attempt :
        /\ Recorded(a) =>
              /\ HasKey(log[a], Key("prepare", "prepared", "none"))
              /\ fence[a] # "absent"
              /\ HeadState(log[a]) = "PREPARED" => ~Requested(a, "launch")
        /\ completion[a] # "none" => WorkersOf(a) # {}

\* A worker that was not started yet belongs to no Attempt.
Fresh == \A w \in Worker : worker[w].status = "unborn" => worker[w].attempt \notin Attempt

Custody == Held /\ Steady /\ Fresh
-----------------------------------------------------------------------------
(* What a posted row does to a journal, and how a call moves.                *)

\* The journal of a after a row was posted to it: unchanged when it has the key.
PostedTo(a, row) ==
    /\ \A b \in Attempt : b # a => log'[b] = log[b]
    /\ HasKey(log[a], row.key) => log'[a] = log[a]
    /\ ~HasKey(log[a], row.key) =>
          HeadState(log'[a]) = IF row.evidence_only THEN HeadState(log[a]) ELSE row.state
    /\ log'[a] # <<>>
    /\ \A key : HasKey(log'[a], key) <=> HasKey(log[a], key) \/ key = row.key

LEMMA PostLog ==
    ASSUME Typed, NEW c \in Controller, ctrl[c].pc # "idle",
           NEW row \in RowType, NEW pc,
           Recorded(ctrl[c].attempt) \/ row.evidence_only = FALSE,
           Post(c, row, pc)
    PROVE  PostedTo(ctrl[c].attempt, row)
<1> DEFINE a == ctrl[c].attempt
           rows == log[a]
<1>1. a \in Attempt /\ log \in [Attempt -> Seq(RowType)] /\ rows \in Seq(RowType)
  BY DEF Typed, TypeOK, CtrlTypeOK
<1>2. HasHead(rows) \/ (rows = <<>> /\ row.evidence_only = FALSE)
  BY <1>1 DEF Typed, HeadsOK, Recorded
<1>3. \A b \in Attempt : log'[b] = IF b = a THEN Appended(rows, row) ELSE log[b]
  BY <1>1 DEF Post
<1>4. row.evidence_only \in BOOLEAN
  BY DEF RowType
<1> HIDE DEF rows
<1>5. HasKey(Appended(rows, row), row.key) /\ \A key : HasKey(rows, key) => HasKey(Appended(rows, row), key)
  BY <1>1, AppendedKeepsKeys
<1>6. Appended(rows, row) # <<>>
  BY <1>5 DEF HasKey
<1>7. /\ HasKey(rows, row.key) => Appended(rows, row) = rows
      /\ ~HasKey(rows, row.key) /\ row.evidence_only =>
            HeadState(Appended(rows, row)) = HeadState(rows)
      /\ ~HasKey(rows, row.key) /\ ~row.evidence_only =>
            HeadState(Appended(rows, row)) = row.state
      /\ \A key : HasKey(Appended(rows, row), key) => HasKey(rows, key) \/ key = row.key
  BY <1>1, <1>2, AppendedHead
<1>8. log'[a] = Appended(rows, row)
  BY <1>1, <1>3
<1> QED BY <1>1, <1>3, <1>4, <1>5, <1>6, <1>7, <1>8 DEF PostedTo, rows

\* A call that goes on keeps all it holds.
LEMMA GotoCall ==
    ASSUME CtrlTypeOK, NEW c \in Controller, NEW pc \in Steps, Goto(c, pc)
    PROVE  \/ pc = "idle" /\ ctrl'[c] = Idle
           \/ /\ ctrl'[c].pc = pc /\ ctrl'[c].op = ctrl[c].op
              /\ ctrl'[c].attempt = ctrl[c].attempt /\ ctrl'[c].state = ctrl[c].state
              /\ ctrl'[c].obs = ctrl[c].obs /\ ctrl'[c].fencing = ctrl[c].fencing
BY DEF CtrlTypeOK, CallType, Goto, At

LEMMA ReportCall ==
    ASSUME CtrlTypeOK, NEW c \in Controller, NEW pc \in Steps, NEW obs, Report(c, pc, obs)
    PROVE  /\ ctrl'[c].pc = pc /\ ctrl'[c].op = ctrl[c].op
           /\ ctrl'[c].attempt = ctrl[c].attempt /\ ctrl'[c].state = ctrl[c].state
           /\ ctrl'[c].obs = obs /\ ctrl'[c].fencing = ctrl[c].fencing
BY DEF CtrlTypeOK, CallType, Report

LEMMA BeginCall ==
    ASSUME CtrlTypeOK, NEW c \in Controller, NEW a, NEW op, NEW pc, Begin(c, a, op, pc)
    PROVE  /\ ctrl'[c].pc = pc /\ ctrl'[c].op = op
           /\ ctrl'[c].attempt = a /\ ctrl'[c].state = HeadState(log[a])
           /\ ctrl'[c].fencing = FALSE
BY DEF CtrlTypeOK, CallType, Begin

LEMMA PostCall ==
    ASSUME CtrlTypeOK, NEW c \in Controller, NEW row, NEW pc \in Steps, Post(c, row, pc)
    PROVE  \/ ctrl'[c] = Idle
           \/ /\ ctrl'[c].pc = pc /\ ctrl'[c].op = ctrl[c].op
              /\ ctrl'[c].attempt = ctrl[c].attempt /\ ctrl'[c].fencing = ctrl[c].fencing
<1>1. Goto(c, pc) \/ Goto(c, "idle")
  BY DEF Post
<1>2. "idle" \in Steps
  BY DEF Steps
<1>3. ASSUME Goto(c, "idle") PROVE ctrl'[c] = Idle
  BY <1>3 DEF Goto, At, CtrlTypeOK
<1>4. ASSUME Goto(c, pc)
      PROVE  \/ pc = "idle" /\ ctrl'[c] = Idle
             \/ /\ ctrl'[c].pc = pc /\ ctrl'[c].op = ctrl[c].op
                /\ ctrl'[c].attempt = ctrl[c].attempt /\ ctrl'[c].fencing = ctrl[c].fencing
  BY <1>4, GotoCall
<1> QED BY <1>1, <1>3, <1>4

\* With one controller its call is all there is to hold.
LEMMA HeldMove ==
    ASSUME Sole, NEW c \in Controller, FenceHeld(c)', StateHeld(c)', LaunchHeld(c)'
    PROVE  Held'
BY DEF Sole, Held

LEMMA IdleHeld ==
    ASSUME Sole, NEW c \in Controller, ctrl'[c] = Idle
    PROVE  Held'
<1>1. FenceHeld(c)' /\ StateHeld(c)' /\ LaunchHeld(c)'
  BY DEF FenceHeld, StateHeld, LaunchHeld, Idle, Tracking
<1> QED BY <1>1, HeldMove

\* A journal that did not change is as steady as before.
LEMMA SteadyStays ==
    ASSUME Steady, UNCHANGED <<log, completion>>,
           \A a \in Attempt : /\ fence'[a] = "absent" => fence[a] = "absent"
                              /\ WorkersOf(a) # {} => WorkersOf(a)' # {}
    PROVE  Steady'
BY DEF Steady, Recorded, Requested

LEMMA SteadyPosted ==
    ASSUME Steady, UNCHANGED <<fence, worker, completion>>,
           NEW a \in Attempt, NEW row \in RowType, PostedTo(a, row),
           \/ /\ row.key = Key("prepare", "prepared", "none") /\ fence[a] # "absent"
              /\ Recorded(a) \/ \A key : ~HasKey(log[a], key)
           \/ /\ Recorded(a)
              /\ IF row.evidence_only THEN row.key # Key("launch", "requested", "none")
                 ELSE row.state # "PREPARED"
    PROVE  Steady'
<1> DEFINE first == Key("prepare", "prepared", "none")
           intent == Key("launch", "requested", "none")
<1>1. first # intent
  BY DEF Key
<1>2. \A b \in Attempt : WorkersOf(b)' = WorkersOf(b)
  BY DEF WorkersOf
<1>3. HasKey(log'[a], first) /\ fence[a] # "absent"
  BY DEF PostedTo, Steady
<1>4. HeadState(log'[a]) = "PREPARED" => ~HasKey(log'[a], intent)
  <2>1. CASE HasKey(log[a], row.key)
    BY <2>1 DEF PostedTo, Steady, Requested, Recorded, HasKey
  <2>2. CASE ~HasKey(log[a], row.key) /\ row.key = first
    <3>1. \A key : ~HasKey(log[a], key)
      BY <2>2 DEF Steady
    <3> QED BY <1>1, <2>2, <3>1 DEF PostedTo
  <2>3. CASE ~HasKey(log[a], row.key) /\ row.key # first
    <3> HIDE DEF first, intent
    <3>1. Recorded(a)
      BY <2>3 DEF first
    <3>2. row.evidence_only \in BOOLEAN
      BY DEF RowType
    <3> QED BY <2>3, <3>1, <3>2 DEF PostedTo, Steady, Requested, first, intent
  <2> QED BY <2>1, <2>2, <2>3
<1>5. ASSUME NEW b \in Attempt, b # a
      PROVE  Recorded(b)' => /\ HasKey(log'[b], first)
                             /\ fence'[b] # "absent"
                             /\ HeadState(log'[b]) = "PREPARED" => ~HasKey(log'[b], intent)
  BY <1>5 DEF PostedTo, Steady, Recorded, Requested
<1> HIDE DEF first, intent
<1> QED BY <1>2, <1>3, <1>4, <1>5 DEF Steady, Recorded, Requested, first, intent
-----------------------------------------------------------------------------
(* The ways a step moves the promise.                                        *)

Promised == [Promise!PromiseNext]_(Promise!promiseVars)

LEMMA LifeIs ==
    ASSUME NEW a \in Attempt
    PROVE  /\ log[a] = <<>> => LifeOf(a) = "absent"
           /\ log[a] # <<>> =>
                 LifeOf(a) = IF HeadState(log[a]) \in ActiveStates THEN "active"
                             ELSE IF HeadState(log[a]) = "PREPARED" THEN "ready"
                             ELSE HeadState(log[a])
BY DEF LifeOf, Active, Recorded, ActiveStates

LEMMA LifeIsNext ==
    ASSUME NEW a \in Attempt
    PROVE  /\ log'[a] = <<>> => LifeOf(a)' = "absent"
           /\ log'[a] # <<>> =>
                 LifeOf(a)' = IF HeadState(log'[a]) \in ActiveStates THEN "active"
                              ELSE IF HeadState(log'[a]) = "PREPARED" THEN "ready"
                              ELSE HeadState(log'[a])
BY DEF LifeOf, Active, Recorded, ActiveStates

LEMMA WorkIs ==
    ASSUME NEW a \in Attempt
    PROVE  /\ WorkersOf(a) = {} => WorkOf(a) = "none"
           /\ WorkersOf(a) # {} /\ completion[a] # "none" => WorkOf(a) = completion[a]
           /\ \A w \in WorkersOf(a) : completion[a] = "none" /\ Live(w) => WorkOf(a) = "live"
           /\ /\ WorkersOf(a) # {} /\ completion[a] = "none"
              /\ \A w \in WorkersOf(a) : ~Live(w)
              => WorkOf(a) = "lost"
<1>1. ASSUME WorkersOf(a) = {}
      PROVE  WorkOf(a) = "none"
  <2>1. ~\E w \in WorkersOf(a) : Live(w)
    BY <1>1
  <2> QED BY <1>1, <2>1, Zenon DEF WorkOf
<1>2. ASSUME WorkersOf(a) # {}, completion[a] # "none"
      PROVE  WorkOf(a) = completion[a]
  <2>1. ~(completion[a] = "none" /\ \E w \in WorkersOf(a) : Live(w))
    BY <1>2
  <2> QED BY <1>2, <2>1, Zenon DEF WorkOf
<1>3. ASSUME completion[a] = "none", NEW w \in WorkersOf(a), Live(w)
      PROVE  WorkOf(a) = "live"
  BY <1>3 DEF WorkOf
<1>4. ASSUME WorkersOf(a) # {}, completion[a] = "none",
             \A w \in WorkersOf(a) : ~Live(w)
      PROVE  WorkOf(a) = "lost"
  <2>1. ~\E w \in WorkersOf(a) : Live(w)
    BY <1>4
  <2> QED BY <1>4, <2>1, Zenon DEF WorkOf
<1> QED BY <1>1, <1>2, <1>3, <1>4

LEMMA WorkIsNext ==
    ASSUME NEW a \in Attempt
    PROVE  /\ WorkersOf(a)' = {} => WorkOf(a)' = "none"
           /\ WorkersOf(a)' # {} /\ completion'[a] # "none" => WorkOf(a)' = completion'[a]
           /\ \A w \in WorkersOf(a)' : completion'[a] = "none" /\ Live(w)' => WorkOf(a)' = "live"
           /\ /\ WorkersOf(a)' # {} /\ completion'[a] = "none"
              /\ \A w \in WorkersOf(a)' : ~Live(w)'
              => WorkOf(a)' = "lost"
<1>1. ASSUME WorkersOf(a)' = {}
      PROVE  WorkOf(a)' = "none"
  <2>1. ~\E w \in WorkersOf(a)' : Live(w)'
    BY <1>1
  <2> QED BY <1>1, <2>1, Zenon DEF WorkOf
<1>2. ASSUME WorkersOf(a)' # {}, completion'[a] # "none"
      PROVE  WorkOf(a)' = completion'[a]
  <2>1. ~(completion'[a] = "none" /\ \E w \in WorkersOf(a)' : Live(w)')
    BY <1>2
  <2> QED BY <1>2, <2>1, Zenon DEF WorkOf
<1>3. ASSUME completion'[a] = "none", NEW w \in WorkersOf(a)', Live(w)'
      PROVE  WorkOf(a)' = "live"
  BY <1>3 DEF WorkOf
<1>4. ASSUME WorkersOf(a)' # {}, completion'[a] = "none",
             \A w \in WorkersOf(a)' : ~Live(w)'
      PROVE  WorkOf(a)' = "lost"
  <2>1. ~\E w \in WorkersOf(a)' : Live(w)'
    BY <1>4
  <2> QED BY <1>4, <2>1, Zenon DEF WorkOf
<1> QED BY <1>1, <1>2, <1>3, <1>4

\* Nothing the promise speaks of changes.
LEMMA QuietPromise ==
    ASSUME UNCHANGED <<log, fence, worker, completion>>
    PROVE  Promised
BY DEF Promised, Promise!promiseVars, LifeOf, WorkOf, Active, Recorded, WorkersOf, Live

\* A row moves what the adapter says of one Attempt.
LEMMA LifeMoves ==
    ASSUME NEW a \in Attempt, UNCHANGED <<fence, worker, completion>>,
           \A b \in Attempt : b # a => log'[b] = log[b],
           \/ LifeOf(a)' = LifeOf(a)
           \/ LifeOf(a) = "absent" /\ LifeOf(a)' = "ready"
           \/ LifeOf(a) = "ready" /\ LifeOf(a)' \in {"CANCELLED", "FORCE_STOPPED", "active"}
           \/ fence[a] = "revoked" /\ LifeOf(a) # "absent" /\ LifeOf(a)' = "FENCED"
           \/ LifeOf(a) = "active" /\ LifeOf(a)' = "UNKNOWN"
           \/ LifeOf(a) = "active" /\ WorkOf(a) \in Outcomes /\ LifeOf(a)' = WorkOf(a)
           \/ LifeOf(a) = "active" /\ WorkOf(a) = "none" /\ LifeOf(a)' = "FAILED"
    PROVE  Promised
<1>1. \A b \in Attempt : WorkOf(b)' = WorkOf(b)
  BY DEF WorkOf, WorkersOf, Live
<1>2. \A b \in Attempt : b # a => LifeOf(b)' = LifeOf(b)
  BY DEF LifeOf, Active, Recorded
<1> DEFINE life == [b \in Attempt |-> LifeOf(b)]
<1>3. \A s : LifeOf(a)' = s => Promise!Become(a, s)
  BY <1>1, <1>2 DEF Promise!Become
<1>4. CASE LifeOf(a)' = LifeOf(a)
  BY <1>1, <1>2, <1>4 DEF Promised, Promise!promiseVars
<1>5. CASE LifeOf(a) = "absent" /\ LifeOf(a)' = "ready"
  BY <1>3, <1>5 DEF Promised, Promise!PromiseNext, Promise!Ready
<1>6. CASE LifeOf(a) = "ready" /\ LifeOf(a)' \in {"CANCELLED", "FORCE_STOPPED"}
  BY <1>3, <1>6 DEF Promised, Promise!PromiseNext, Promise!Decline
<1>7. CASE LifeOf(a) = "ready" /\ LifeOf(a)' = "active"
  BY <1>3, <1>7 DEF Promised, Promise!PromiseNext, Promise!Begun
<1>8. CASE fence[a] = "revoked" /\ LifeOf(a) # "absent" /\ LifeOf(a)' = "FENCED"
  BY <1>3, <1>8 DEF Promised, Promise!PromiseNext, Promise!Fence
<1>9. CASE LifeOf(a) = "active" /\ LifeOf(a)' = "UNKNOWN"
  BY <1>3, <1>9 DEF Promised, Promise!PromiseNext, Promise!GiveUp
<1>10. CASE LifeOf(a) = "active" /\ WorkOf(a) \in Outcomes /\ LifeOf(a)' = WorkOf(a)
  <2>1. Promise!Settle(a)
    BY <1>3, <1>10 DEF Promise!Settle, Promise!WorkOutcomes, Outcomes
  <2> QED BY <2>1 DEF Promised, Promise!PromiseNext
<1>11. CASE LifeOf(a) = "active" /\ WorkOf(a) = "none" /\ LifeOf(a)' = "FAILED"
  BY <1>3, <1>11 DEF Promised, Promise!PromiseNext, Promise!Refuse
<1> QED BY <1>4, <1>5, <1>6, <1>7, <1>8, <1>9, <1>10, <1>11

\* A worker moves the effect of one Attempt.
LEMMA WorkMoves ==
    ASSUME NEW a \in Attempt, UNCHANGED <<log, fence>>,
           \A b \in Attempt : b # a => WorkOf(b)' = WorkOf(b),
           \/ WorkOf(a)' = WorkOf(a)
           \/ /\ LifeOf(a) = "active" /\ fence[a] # "revoked"
              /\ WorkOf(a) = "none" /\ WorkOf(a)' = "live"
           \/ WorkOf(a) = "live" /\ WorkOf(a)' \in Outcomes \cup {"lost"}
    PROVE  Promised
<1>1. \A b \in Attempt : LifeOf(b)' = LifeOf(b)
  BY DEF LifeOf, Active, Recorded
<1>2. \A effect : WorkOf(a)' = effect => Promise!Happen(a, effect)
  BY <1>1 DEF Promise!Happen
<1>3. CASE WorkOf(a)' = WorkOf(a)
  BY <1>1, <1>3 DEF Promised, Promise!promiseVars
<1>4. CASE /\ LifeOf(a) = "active" /\ fence[a] # "revoked"
           /\ WorkOf(a) = "none" /\ WorkOf(a)' = "live"
  BY <1>2, <1>4 DEF Promised, Promise!PromiseNext, Promise!Work
<1>5. CASE WorkOf(a) = "live" /\ WorkOf(a)' \in Outcomes
  BY <1>2, <1>5 DEF Promised, Promise!PromiseNext, Promise!Finish, Promise!WorkOutcomes, Outcomes
<1>6. CASE WorkOf(a) = "live" /\ WorkOf(a)' = "lost"
  BY <1>2, <1>6 DEF Promised, Promise!PromiseNext, Promise!Lose
<1> QED BY <1>3, <1>4, <1>5, <1>6

\* Installing a fence says nothing; revoking it is a step of its own.
LEMMA FenceMoves ==
    ASSUME NEW a \in Attempt, UNCHANGED <<log, worker, completion>>,
           \A b \in Attempt : b # a => fence'[b] = fence[b],
           fence'[a] = "revoked" \/ (fence[a] # "revoked" /\ fence'[a] # "revoked")
    PROVE  Promised
<1>1. \A b \in Attempt : LifeOf(b)' = LifeOf(b) /\ WorkOf(b)' = WorkOf(b)
  BY DEF LifeOf, Active, Recorded, WorkOf, WorkersOf, Live
<1>2. CASE (fence'[a] = "revoked") = (fence[a] = "revoked")
  BY <1>1, <1>2 DEF Promised, Promise!promiseVars
<1>3. CASE fence'[a] = "revoked" /\ fence[a] # "revoked"
  <2>1. Promise!Revoke(a)
    BY <1>1, <1>3 DEF Promise!Revoke
  <2> QED BY <2>1 DEF Promised, Promise!PromiseNext
<1> QED BY <1>2, <1>3
-----------------------------------------------------------------------------
(* Each step of the adapter keeps custody and the promise.                   *)

Kept == Held' /\ Steady' /\ Promised

\* A step that touches no journal, fence or process.
LEMMA QuietKept ==
    ASSUME Steady, UNCHANGED <<log, fence, worker, completion>>, Held'
    PROVE  Kept
<1>1. Steady'
  BY SteadyStays DEF WorkersOf
<1> QED BY <1>1, QuietPromise DEF Kept

LEMMA PrepareKept ==
    ASSUME Sole, Typed, Custody, NEW c \in Controller, NEW a \in Attempt, Prepare(c, a)
    PROVE  Kept
<1>1. UNCHANGED <<log, fence, worker, completion>> /\ fence[a] = "active"
  BY DEF Prepare, journalVars, providerVars
<1> DEFINE call == [Idle EXCEPT !.pc = IF stage[a] = "whole" THEN "insert" ELSE "staging",
                                !.op = "prepare", !.attempt = a]
<1>2. /\ call.pc \in {"insert", "staging"} /\ call.attempt = a /\ call.fencing = FALSE
      /\ ctrl' = [ctrl EXCEPT ![c] = call]
  BY DEF Prepare, Idle
<1> HIDE DEF call
<1>3. ctrl'[c] = call
  BY <1>2 DEF Typed, TypeOK, CtrlTypeOK
<1>4. FenceHeld(c)' /\ StateHeld(c)' /\ LaunchHeld(c)'
  BY <1>1, <1>2, <1>3 DEF FenceHeld, StateHeld, LaunchHeld, Tracking
<1> QED BY <1>1, <1>4, HeldMove, QuietKept DEF Custody

LEMMA BeginKept ==
    ASSUME Sole, Typed, Custody, NEW c \in Controller, NEW a \in Attempt, Recorded(a),
           Dispatch(c, a) \/ Reconcile(c, a) \/ \E op \in Controls : RequestControl(c, a, op)
    PROVE  Kept
<1>1. UNCHANGED <<log, fence, worker, completion>>
  BY DEF Dispatch, Reconcile, RequestControl, journalVars, providerVars
<1>2. CtrlTypeOK /\ fence[a] \in {"active", "revoked"}
  BY DEF Typed, TypeOK, StoreTypeOK, Custody, Steady
<1>3. PICK op, pc :
         /\ Begin(c, a, op, pc)
         /\ \/ /\ pc = "intend" /\ op = "launch"
               /\ HeadState(log[a]) = "PREPARED" /\ fence[a] = "active"
            \/ pc = "intend" /\ op \in Controls /\ HeadState(log[a]) \in ActiveStates
            \/ /\ pc = "no_effect" /\ HeadState(log[a]) = "PREPARED"
               /\ op \in Controls \/ fence[a] = "revoked"
            \/ pc = "observe" /\ HeadState(log[a]) \in ActiveStates \cup {"UNKNOWN"}
  <2>1. CASE Dispatch(c, a)
    BY <1>2, <2>1 DEF Dispatch
  <2>2. CASE Reconcile(c, a)
    BY <2>2 DEF Reconcile
  <2>3. ASSUME NEW op \in Controls, RequestControl(c, a, op)
        PROVE  \/ HeadState(log[a]) = "PREPARED" /\ Begin(c, a, op, "no_effect")
               \/ HeadState(log[a]) \in ActiveStates /\ Begin(c, a, op, "intend")
               \/ HeadState(log[a]) \in ActiveStates /\ Begin(c, a, "reconcile", "observe")
    BY <2>3 DEF RequestControl, ControlStep, ControlOp, Active, ActiveStates
  <2> QED BY <2>1, <2>2, <2>3
<1>4. /\ ctrl'[c].pc = pc /\ ctrl'[c].op = op /\ ctrl'[c].attempt = a
      /\ ctrl'[c].state = HeadState(log[a]) /\ ctrl'[c].fencing = FALSE
  BY <1>2, <1>3, BeginCall
<1>5. FenceHeld(c)'
  BY <1>3, <1>4 DEF FenceHeld
<1>6. StateHeld(c)'
  BY <1>1, <1>3, <1>4 DEF StateHeld, Tracking
<1>7. LaunchHeld(c)'
  BY <1>3, <1>4 DEF LaunchHeld
<1> QED BY <1>1, <1>5, <1>6, <1>7, HeldMove, QuietKept DEF Custody

LEMMA StartKept ==
    ASSUME Sole, Typed, Custody, NEW c \in Controller, NEW a \in Attempt, Start(c, a)
    PROVE  Kept
<1>1. CASE RevokeFence(c, a)
  <2> DEFINE call == [Idle EXCEPT !.pc = "revoking", !.op = "revoke", !.attempt = a]
  <2>1. /\ UNCHANGED <<log, worker, completion>>
        /\ fence' = [fence EXCEPT ![a] = "revoked"]
        /\ ctrl' = [ctrl EXCEPT ![c] = call]
        /\ call.pc = "revoking" /\ call.attempt = a
    BY <1>1 DEF RevokeFence, providerVars, Idle
  <2> HIDE DEF call
  <2>2. fence'[a] = "revoked" /\ \A b \in Attempt : b # a => fence'[b] = fence[b]
    BY <2>1 DEF Typed, TypeOK, StoreTypeOK
  <2>3. ctrl'[c] = call
    BY <2>1 DEF Typed, TypeOK, CtrlTypeOK
  <2>4. FenceHeld(c)' /\ StateHeld(c)' /\ LaunchHeld(c)'
    BY <2>1, <2>2, <2>3 DEF FenceHeld, StateHeld, LaunchHeld, Tracking
  <2>5. Steady'
    BY <2>1, <2>2, SteadyStays DEF Custody, WorkersOf
  <2> QED BY <2>1, <2>2, <2>4, <2>5, HeldMove, FenceMoves DEF Kept
<1>2. ASSUME Dispatch(c, a) \/ Reconcile(c, a) \/ \E op \in Controls : RequestControl(c, a, op)
      PROVE  Kept
  <2>1. Recorded(a)
    BY <1>2 DEF Dispatch, Reconcile, RequestControl
  <2> QED BY <1>2, <2>1, BeginKept
<1> QED BY <1>1, <1>2, PrepareKept DEF Start

\* A call that goes on, or reports, without leaving what it holds.
LEMMA GotoKept ==
    ASSUME Sole, Typed, Custody, NEW c \in Controller, NEW pc \in Steps, Goto(c, pc),
           UNCHANGED <<log, fence, worker, completion>>,
           \/ pc = "idle"
           \/ pc = "insert" /\ ctrl[c].pc = "staging"
           \/ pc = "reject" /\ ctrl[c].pc = "call" /\ ctrl[c].op = "launch"
           \/ pc = "reject" /\ ctrl[c].pc = "spawn"
           \/ pc = "spawn" /\ ctrl[c].pc = "bind"
           \/ pc = "recancel" /\ ctrl[c].pc = "revoking"
           \/ pc \in Tracking \ {"bind", "spawn", "claim"} /\ ctrl[c].pc \in Tracking
    PROVE  Kept
<1>1. CtrlTypeOK /\ FenceHeld(c) /\ StateHeld(c) /\ LaunchHeld(c)
  BY DEF Typed, TypeOK, Custody, Held
<1>2. CASE pc = "idle"
  <2>1. ctrl'[c] = Idle
    BY <1>1, <1>2, GotoCall DEF Idle, Goto, At, CtrlTypeOK
  <2> QED BY <2>1, IdleHeld, QuietKept DEF Custody
<1>3. CASE pc # "idle"
  <2>1. /\ ctrl'[c].pc = pc /\ ctrl'[c].op = ctrl[c].op
        /\ ctrl'[c].attempt = ctrl[c].attempt /\ ctrl'[c].state = ctrl[c].state
        /\ ctrl'[c].fencing = ctrl[c].fencing
    BY <1>1, <1>3, GotoCall
  <2>3. FenceHeld(c)'
    BY <1>1, <1>3, <2>1 DEF FenceHeld, Tracking
  <2>4. StateHeld(c)'
    BY <1>1, <1>3, <2>1 DEF StateHeld, Tracking
  <2>5. LaunchHeld(c)'
    BY <1>1, <1>3, <2>1 DEF LaunchHeld, Clear, WorkersOf, Tracking, Controls
  <2> QED BY <2>3, <2>4, <2>5, HeldMove, QuietKept DEF Custody
<1> QED BY <1>2, <1>3

LEMMA ReportKept ==
    ASSUME Sole, Typed, Custody, NEW c \in Controller, NEW obs,
           NEW pc \in Tracking \ {"bind", "spawn", "claim"}, Report(c, pc, obs),
           UNCHANGED <<log, fence, worker, completion>>, ctrl[c].pc \in Tracking
    PROVE  Kept
<1>1. CtrlTypeOK /\ FenceHeld(c) /\ StateHeld(c) /\ LaunchHeld(c) /\ pc \in Steps
  BY DEF Typed, TypeOK, Custody, Held, Tracking, Steps
<1>2. /\ ctrl'[c].pc = pc /\ ctrl'[c].op = ctrl[c].op
      /\ ctrl'[c].attempt = ctrl[c].attempt /\ ctrl'[c].state = ctrl[c].state
      /\ ctrl'[c].fencing = ctrl[c].fencing
  BY <1>1, ReportCall
<1>3. FenceHeld(c)' /\ StateHeld(c)' /\ LaunchHeld(c)'
  BY <1>1, <1>2 DEF FenceHeld, StateHeld, LaunchHeld, Tracking
<1> QED BY <1>3, HeldMove, QuietKept DEF Custody

LEMMA IntentKept ==
    ASSUME Sole, Typed, EffectAfterIntent, Custody, NEW c \in Controller, Intend(c),
           NEW a \in Attempt, ctrl[c].attempt = a
    PROVE  Kept
<1> DEFINE op == ctrl[c].op
           row == IntentRow(op, ctrl[c].ref)
<1>1. /\ CtrlTypeOK /\ CallsRecorded /\ Steady
      /\ FenceHeld(c) /\ StateHeld(c) /\ LaunchHeld(c)
  BY DEF Typed, TypeOK, Custody, Held
<1>2. /\ ctrl[c].pc = "intend" /\ Post(c, row, "call")
      /\ UNCHANGED <<fence, worker, completion>>
  BY DEF Intend, providerVars
<1>3. Recorded(a)
  BY <1>1, <1>2 DEF CtrlTypeOK, CallsRecorded, BeforeRecord
<1>4. /\ row \in RowType /\ row.evidence_only = FALSE
      /\ row.key = Key(op, "requested", "none")
      /\ op = "launch" => row.state = "LAUNCH_REQUESTED"
      /\ row.state \in ActiveStates
  BY <1>1, RowsAreTyped DEF IntentRow, Row, ActiveStates
<1> HIDE DEF row
<1>5. PostedTo(a, row)
  BY <1>2, <1>3, <1>4, PostLog
<1>6. \/ /\ op = "launch" /\ HeadState(log[a]) = "PREPARED" /\ fence[a] = "active"
         /\ ~HasKey(log[a], row.key) /\ WorkersOf(a) = {}
      \/ op \in Controls /\ HeadState(log[a]) \in ActiveStates
  BY <1>1, <1>2, <1>3, <1>4 DEF StateHeld, Steady, EffectAfterIntent, Requested
<1>7. HeadState(log'[a]) \in ActiveStates
  BY <1>4, <1>5, <1>6 DEF PostedTo
<1>8. Held'
  <2>1. \/ ctrl'[c] = Idle
        \/ /\ ctrl'[c].pc = "call" /\ ctrl'[c].op = op
           /\ ctrl'[c].attempt = a /\ ctrl'[c].fencing = ctrl[c].fencing
    BY <1>1, <1>2, PostCall DEF Steps
  <2>2. ASSUME ctrl'[c].pc = "call", ctrl'[c].op = op,
               ctrl'[c].attempt = a, ctrl'[c].fencing = ctrl[c].fencing
        PROVE  Held'
    <3>1. FenceHeld(c)'
      BY <1>1, <1>2, <2>2 DEF FenceHeld
    <3>2. StateHeld(c)'
      BY <1>7, <2>2 DEF StateHeld, Tracking
    <3>3. LaunchHeld(c)'
      BY <1>2, <1>6, <2>2 DEF LaunchHeld, Clear, WorkersOf
    <3> QED BY <3>1, <3>2, <3>3, HeldMove
  <2> QED BY <2>1, <2>2, IdleHeld
<1>9. Steady'
  <2>1. row.state # "PREPARED"
    BY <1>4 DEF ActiveStates
  <2> QED BY <1>1, <1>2, <1>3, <1>4, <1>5, <2>1, SteadyPosted
<1>10. Promised
  <2>1. LifeOf(a) \in {"ready", "active"} /\ LifeOf(a)' = "active"
    <3>1. log[a] # <<>> /\ log'[a] # <<>> /\ "PREPARED" \notin ActiveStates
      BY <1>3, <1>5 DEF Recorded, PostedTo, ActiveStates
    <3>2. HeadState(log[a]) \in ActiveStates \cup {"PREPARED"}
      BY <1>6
    <3> QED BY <1>7, <3>1, <3>2, LifeIs, LifeIsNext
  <2> QED BY <1>2, <1>3, <1>5, <2>1, LifeMoves DEF PostedTo
<1> QED BY <1>8, <1>9, <1>10 DEF Kept

\* A call that has posted its last row, or goes on to fence.
LEMMA LastPost ==
    ASSUME Sole, Typed, Custody, NEW c \in Controller, NEW row \in RowType,
           NEW pc \in {"idle", "fence"}, ctrl[c].pc # "idle", Post(c, row, pc),
           pc = "fence" => ctrl[c].fencing, UNCHANGED fence
    PROVE  Held'
<1>1. CtrlTypeOK /\ FenceHeld(c) /\ pc \in Steps
  BY DEF Typed, TypeOK, Custody, Held, Steps
<1>2. CASE ctrl'[c] = Idle
  BY <1>2, IdleHeld
<1>3. ASSUME ctrl'[c].pc = pc, pc = "fence", ctrl'[c].attempt = ctrl[c].attempt,
             ctrl'[c].fencing = ctrl[c].fencing
      PROVE  Held'
  <2>1. FenceHeld(c)' /\ StateHeld(c)' /\ LaunchHeld(c)'
    BY <1>1, <1>3 DEF FenceHeld, StateHeld, LaunchHeld, Tracking
  <2> QED BY <2>1, HeldMove
<1>4. CASE pc = "idle"
  <2>1. Goto(c, "idle")
    BY <1>4 DEF Post
  <2>2. ctrl'[c] = Idle
    BY <1>1, <2>1 DEF Goto, At, CtrlTypeOK
  <2> QED BY <2>2, IdleHeld
<1> QED BY <1>1, <1>2, <1>3, <1>4, PostCall

\* The row a call ends with, on an Attempt in the state the call holds.
LEMMA RowKept ==
    ASSUME Sole, Typed, Custody, NEW c \in Controller, ctrl[c].pc # "idle",
           NEW a \in Attempt, ctrl[c].attempt = a, Recorded(a), NEW row \in RowType,
           Post(c, row, Finished(c)) \/ (Post(c, row, "idle") /\ ctrl[c].pc = "fence"),
           UNCHANGED <<fence, worker, completion>>,
           IF row.evidence_only THEN row.key # Key("launch", "requested", "none")
           ELSE LET head == HeadState(log[a]) IN
                \/ head = "PREPARED" /\ row.state \in {"CANCELLED", "FORCE_STOPPED"}
                \/ fence[a] = "revoked" /\ row.state = "FENCED"
                \/ head \in ActiveStates /\ row.state \in ActiveStates \cup {"UNKNOWN"}
                \/ head = "UNKNOWN" /\ row.state = "UNKNOWN"
                \/ head \in ActiveStates /\ WorkOf(a) \in Outcomes /\ row.state = WorkOf(a)
                \/ head \in ActiveStates /\ WorkOf(a) = "none" /\ row.state = "FAILED"
    PROVE  Kept
<1>1. PICK pc \in {"idle", "fence"} : Post(c, row, pc) /\ (pc = "fence" => ctrl[c].fencing)
  BY DEF Finished
<1>2. PostedTo(a, row)
  BY <1>1, PostLog
<1>3. Held'
  BY <1>1, LastPost
<1>4. ~row.evidence_only => row.state # "PREPARED"
  BY DEF ActiveStates, Outcomes
<1>5. Steady'
  BY <1>2, <1>4, SteadyPosted DEF Custody
<1>6. log[a] # <<>> /\ log'[a] # <<>>
  BY <1>2 DEF Recorded, PostedTo
<1>7. Promised
  <2> DEFINE head == HeadState(log[a])
             next == HeadState(log'[a])
  <2>1. /\ LifeOf(a) = IF head \in ActiveStates THEN "active"
                       ELSE IF head = "PREPARED" THEN "ready" ELSE head
        /\ LifeOf(a)' = IF next \in ActiveStates THEN "active"
                        ELSE IF next = "PREPARED" THEN "ready" ELSE next
    BY <1>6, LifeIs, LifeIsNext
  <2>2. CASE HasKey(log[a], row.key) \/ row.evidence_only
    <3>1. next = head
      BY <1>2, <2>2 DEF PostedTo
    <3>2. LifeOf(a)' = LifeOf(a)
      BY <2>1, <3>1
    <3> QED BY <1>2, <3>2, LifeMoves DEF PostedTo
  <2>3. CASE ~HasKey(log[a], row.key) /\ ~row.evidence_only
    <3>1. next = row.state
      BY <1>2, <2>3 DEF PostedTo
    <3>2. \/ LifeOf(a)' = LifeOf(a)
          \/ LifeOf(a) = "ready" /\ LifeOf(a)' \in {"CANCELLED", "FORCE_STOPPED"}
          \/ fence[a] = "revoked" /\ LifeOf(a) # "absent" /\ LifeOf(a)' = "FENCED"
          \/ LifeOf(a) = "active" /\ LifeOf(a)' = "UNKNOWN"
          \/ LifeOf(a) = "active" /\ WorkOf(a) \in Outcomes /\ LifeOf(a)' = WorkOf(a)
          \/ LifeOf(a) = "active" /\ WorkOf(a) = "none" /\ LifeOf(a)' = "FAILED"
      <4>1. head \in AttemptStates /\ "absent" \notin AttemptStates
        BY RecordRead DEF AttemptStates, ActiveStates, RetryableStates
      <4>2. {"CANCELLED", "FORCE_STOPPED", "FENCED", "UNKNOWN", "FAILED", "PREPARED"}
               \cap ActiveStates = {}
            /\ Outcomes \cap (ActiveStates \cup {"PREPARED"}) = {}
        BY DEF ActiveStates, Outcomes
      <4> HIDE DEF head, next
      <4>3. \/ head = "PREPARED" /\ row.state \in {"CANCELLED", "FORCE_STOPPED"}
            \/ fence[a] = "revoked" /\ row.state = "FENCED"
            \/ head \in ActiveStates /\ row.state \in ActiveStates \cup {"UNKNOWN"}
            \/ head = "UNKNOWN" /\ row.state = "UNKNOWN"
            \/ head \in ActiveStates /\ WorkOf(a) \in Outcomes /\ row.state = WorkOf(a)
            \/ head \in ActiveStates /\ WorkOf(a) = "none" /\ row.state = "FAILED"
        BY <2>3 DEF head
      <4> QED BY <2>1, <3>1, <4>1, <4>2, <4>3
    <3> QED BY <1>2, <3>2, LifeMoves DEF PostedTo
  <2>4. row.evidence_only \in BOOLEAN
    BY DEF RowType
  <2> QED BY <2>2, <2>3, <2>4
<1> QED BY <1>3, <1>5, <1>7 DEF Kept

LEMMA InsertKept ==
    ASSUME Sole, Typed, Custody, NEW c \in Controller, Insert(c),
           NEW a \in Attempt, ctrl[c].attempt = a
    PROVE  Kept
<1> DEFINE row == Row(Key("prepare", "prepared", "none"), "PREPARED", FALSE, FALSE, "NONE")
<1>1. /\ ctrl[c].pc = "insert" /\ Post(c, row, "idle")
      /\ UNCHANGED <<fence, worker, completion>>
  BY DEF Insert, providerVars
<1>2. /\ row \in RowType /\ row.evidence_only = FALSE /\ row.state = "PREPARED"
      /\ row.key = Key("prepare", "prepared", "none")
  BY DEF Row, Key, RowType, Operations, Kinds, Details, AttemptStates, Certainties
<1> HIDE DEF row
<1>3. fence[a] # "absent" /\ Steady
  BY <1>1 DEF Custody, Held, FenceHeld
<1>4. PostedTo(a, row)
  BY <1>1, <1>2, PostLog
<1>5. Held'
  BY <1>1, <1>2, LastPost
<1>6. Recorded(a) \/ \A key : ~HasKey(log[a], key)
  BY DEF Recorded, HasKey
<1>7. Steady'
  BY <1>1, <1>2, <1>3, <1>4, <1>6, SteadyPosted
<1>8. Promised
  <2>1. CASE Recorded(a)
    <3>1. log'[a] = log[a]
      BY <1>2, <1>3, <1>4, <2>1 DEF PostedTo, Steady
    <3>2. LifeOf(a)' = LifeOf(a)
      BY <3>1 DEF LifeOf, Active, Recorded
    <3> QED BY <1>1, <1>4, <3>2, LifeMoves DEF PostedTo
  <2>2. CASE ~Recorded(a)
    <3>1. log[a] = <<>> /\ log'[a] # <<>> /\ HeadState(log'[a]) = "PREPARED"
      BY <1>2, <1>4, <1>6, <2>2 DEF PostedTo, Recorded
    <3>2. LifeOf(a) = "absent" /\ LifeOf(a)' = "ready"
      BY <3>1, LifeIs, LifeIsNext DEF ActiveStates
    <3> QED BY <1>1, <1>4, <3>2, LifeMoves DEF PostedTo
  <2> QED BY <2>1, <2>2
<1> QED BY <1>5, <1>7, <1>8 DEF Kept

LEMMA AdvanceIntentKept ==
    ASSUME Sole, Typed, EffectAfterIntent, Custody, NEW c \in Controller, AdvanceIntent(c)
    PROVE  Kept
<1>1. CtrlTypeOK /\ CallsRecorded /\ StateHeld(c) /\ FenceHeld(c)
  BY DEF Typed, TypeOK, Custody, Held
<1>2. PICK a \in Attempt : ctrl[c].attempt = a
  BY <1>1 DEF CtrlTypeOK, AdvanceIntent, StageDone, StageFail, Insert, NoEffect, Intend
<1>3. CASE StageDone(c) \/ StageFail(c)
  <2>1. /\ UNCHANGED <<log, fence, worker, completion>>
        /\ ctrl[c].pc = "staging" /\ (Goto(c, "insert") \/ Goto(c, "idle"))
    BY <1>3 DEF StageDone, StageFail, journalVars, providerVars
  <2> QED BY <2>1, GotoKept DEF Steps
<1>4. CASE NoEffect(c)
  <2> DEFINE row == NoEffectRow(ctrl[c].op, ctrl[c].ref)
  <2>1. /\ ctrl[c].pc = "no_effect" /\ Post(c, row, Finished(c))
        /\ UNCHANGED <<fence, worker, completion>> /\ Recorded(a)
    BY <1>1, <1>2, <1>4 DEF NoEffect, providerVars, CallsRecorded, BeforeRecord
  <2>2. row \in RowType /\ row.evidence_only = FALSE
    BY <1>1, RowsAreTyped DEF NoEffectRow, Row
  <2>3. /\ ctrl[c].op = "cancel" => row.state = "CANCELLED"
        /\ ctrl[c].op = "force_stop" => row.state = "FORCE_STOPPED"
        /\ ctrl[c].op \notin Controls => row.state = "FENCED"
    BY DEF NoEffectRow, Row, Controls
  <2>4. /\ HeadState(log[a]) = "PREPARED"
        /\ ctrl[c].op \in Controls \/ fence[a] = "revoked"
    BY <1>1, <1>2, <2>1 DEF StateHeld
  <2> HIDE DEF row
  <2> QED BY <1>2, <2>1, <2>2, <2>3, <2>4, RowKept DEF Controls
<1> QED BY <1>2, <1>3, <1>4, IntentKept, InsertKept DEF AdvanceIntent

LEMMA CallKept ==
    ASSUME Sole, Typed, Custody, NEW c \in Controller, Call(c),
           NEW a \in Attempt, ctrl[c].attempt = a
    PROVE  Kept
<1> DEFINE op == ctrl[c].op
           call == [ctrl[c] EXCEPT !.pc = CallStep(a, op), !.obs = CallObs(a, op),
                      !.state = HeadState(log[a]), !.ref = HasProviderRef(log[a])]
<1>1. /\ StateHeld(c) /\ FenceHeld(c) /\ LaunchHeld(c)
      /\ ctrl[c] \in CallType /\ ctrl \in [Controller -> CallType]
  BY DEF Typed, TypeOK, CtrlTypeOK, Custody, Held
<1>2. /\ UNCHANGED <<log, fence, worker, completion>>
      /\ ctrl[c].pc = "call" /\ ctrl' = [ctrl EXCEPT ![c] = call]
  BY DEF Call, journalVars
<1>3. /\ call.pc = CallStep(a, op) /\ call.attempt = a /\ call.op = op
      /\ call.state = HeadState(log[a]) /\ call.fencing = ctrl[c].fencing
  BY <1>1 DEF CallType
<1>4. ctrl'[c] = call
  <2> HIDE DEF call
  <2> QED BY <1>1, <1>2
<1>5. /\ CallStep(a, op) \in {"seal", "bind", "unknown", "observe"}
      /\ CallStep(a, op) = "bind" => op = "launch"
  <2> HIDE DEF op
  <2> QED BY DEF CallStep
<1> HIDE DEF call
<1>6. FenceHeld(c)'
  BY <1>1, <1>2, <1>3, <1>4, <1>5 DEF FenceHeld
<1>7. StateHeld(c)'
  BY <1>1, <1>2, <1>3, <1>4, <1>5 DEF StateHeld, Tracking
<1>8. LaunchHeld(c)'
  BY <1>1, <1>2, <1>3, <1>4, <1>5 DEF LaunchHeld, Clear, WorkersOf, Controls
<1> QED BY <1>2, <1>6, <1>7, <1>8, HeldMove, QuietKept DEF Custody

\* An effect stays what it was when its workers and terminal record do.
LEMMA WorkSame ==
    ASSUME NEW a \in Attempt, WorkersOf(a)' = WorkersOf(a), completion'[a] = completion[a],
           \A w \in WorkersOf(a) : Live(w)' <=> Live(w)
    PROVE  WorkOf(a)' = WorkOf(a)
<1>1. CASE WorkersOf(a) = {}
  BY <1>1, WorkIs, WorkIsNext
<1>2. CASE WorkersOf(a) # {} /\ completion[a] # "none"
  BY <1>2, WorkIs, WorkIsNext
<1>3. CASE completion[a] = "none" /\ \E w \in WorkersOf(a) : Live(w)
  BY <1>3, WorkIs, WorkIsNext
<1>4. CASE /\ WorkersOf(a) # {} /\ completion[a] = "none"
           /\ \A w \in WorkersOf(a) : ~Live(w)
  BY <1>4, WorkIs, WorkIsNext
<1> QED BY <1>1, <1>2, <1>3, <1>4

LEMMA SpawnKept ==
    ASSUME Sole, Typed, Custody, NEW c \in Controller, NEW w \in Worker, Spawn(c, w),
           NEW a \in Attempt, ctrl[c].attempt = a
    PROVE  Kept
<1>1. /\ StateHeld(c) /\ FenceHeld(c) /\ LaunchHeld(c) /\ Steady /\ Fresh
      /\ ctrl[c] \in CallType /\ ctrl \in [Controller -> CallType]
      /\ worker[w].status = "unborn"
  BY DEF Typed, TypeOK, CtrlTypeOK, Custody, Held, Spawn
<1>2. /\ UNCHANGED <<log, fence, completion>> /\ ctrl[c].pc = "spawn"
      /\ ctrl'[c].pc = "claim" /\ ctrl'[c].op = ctrl[c].op /\ ctrl'[c].attempt = a
      /\ ctrl'[c].state = ctrl[c].state /\ ctrl'[c].fencing = ctrl[c].fencing
  BY <1>1 DEF Spawn, journalVars, providerVars, CallType
<1>3. /\ worker'[w] = [attempt |-> a, status |-> "starting"]
      /\ \A v \in Worker : v # w => worker'[v] = worker[v]
  BY DEF Spawn, Typed, TypeOK, WorkerTypeOK
<1>4. /\ WorkersOf(a) = {} /\ fence[a] = "active"
      /\ HeadState(log[a]) \in ActiveStates
  BY <1>1, <1>2 DEF LaunchHeld, Clear, StateHeld
<1>5. /\ w \in WorkersOf(a)' /\ Live(w)'
      /\ \A b \in Attempt : b # a => WorkersOf(b)' = WorkersOf(b)
  BY <1>1, <1>3 DEF WorkersOf, Fresh, Live
<1>6. Held'
  <2>1. FenceHeld(c)' /\ LaunchHeld(c)'
    BY <1>1, <1>2 DEF FenceHeld, LaunchHeld
  <2>2. StateHeld(c)'
    BY <1>1, <1>2 DEF StateHeld, Tracking
  <2> QED BY <2>1, <2>2, HeldMove
<1>7. Steady'
  <2>1. \A b \in Attempt : WorkersOf(b) # {} => WorkersOf(b)' # {}
    BY <1>4, <1>5
  <2> QED BY <1>1, <1>2, <2>1, SteadyStays
<1>8. Promised
  <2>1. log[a] # <<>>
    BY <1>2 DEF Typed, CallsRecorded, BeforeRecord, Recorded
  <2>2. LifeOf(a) = "active"
    BY <1>4, <2>1, LifeIs
  <2>3. completion[a] = "none" /\ completion'[a] = "none"
    BY <1>1, <1>2, <1>4 DEF Steady
  <2>4. WorkOf(a) = "none" /\ WorkOf(a)' = "live"
    BY <1>4, <1>5, <2>3, WorkIs, WorkIsNext
  <2>5. ASSUME NEW b \in Attempt, b # a
        PROVE  WorkOf(b)' = WorkOf(b)
    <3>1. \A v \in WorkersOf(b) : Live(v)' <=> Live(v)
      BY <1>1, <1>3, <2>5 DEF WorkersOf, Live, Fresh
    <3> QED BY <1>2, <1>5, <2>5, <3>1, WorkSame
  <2> QED BY <1>2, <1>4, <2>2, <2>4, <2>5, WorkMoves
<1> QED BY <1>6, <1>7, <1>8 DEF Kept

LEMMA AdvanceLaunchKept ==
    ASSUME Sole, Typed, Custody, NEW c \in Controller, AdvanceLaunch(c)
    PROVE  Kept
<1>1. /\ CtrlTypeOK /\ CallsRecorded
      /\ StateHeld(c) /\ FenceHeld(c) /\ LaunchHeld(c)
  BY DEF Typed, TypeOK, Custody, Held
<1>2. PICK a \in Attempt : ctrl[c].attempt = a
  BY <1>1 DEF CtrlTypeOK, AdvanceLaunch, Call, VerifyFail, PolicyReject, Bind, Spawn,
              SpawnFail, Reject, IdentityUnknown, ClaimForChild
<1>3. ASSUME VerifyFail(c) \/ PolicyReject(c) \/ SpawnFail(c) \/ Bind(c)
      PROVE  Kept
  <2>1. /\ UNCHANGED <<log, fence, worker, completion>>
        /\ \/ Goto(c, "idle")
           \/ Goto(c, "reject") /\ ctrl[c].pc = "call" /\ ctrl[c].op = "launch"
           \/ Goto(c, "reject") /\ ctrl[c].pc = "spawn"
           \/ Goto(c, "spawn") /\ ctrl[c].pc = "bind"
    BY <1>3 DEF VerifyFail, PolicyReject, SpawnFail, Bind, journalVars, providerVars
  <2> QED BY <2>1, GotoKept DEF Steps
<1>4. CASE Reject(c)
  <2> DEFINE row == Row(Key("launch", "rejected", "none"), "FAILED", FALSE, FALSE, "NONE")
  <2>1. /\ ctrl[c].pc = "reject" /\ Post(c, row, Finished(c)) /\ Recorded(a)
        /\ UNCHANGED <<fence, worker, completion>>
    BY <1>1, <1>2, <1>4 DEF Reject, providerVars, CallsRecorded, BeforeRecord
  <2>2. row \in RowType /\ row.evidence_only = FALSE /\ row.state = "FAILED"
    BY DEF Row, Key, RowType, Operations, Kinds, Details, AttemptStates, RetryableStates,
           Certainties
  <2>3. HeadState(log[a]) \in ActiveStates /\ WorkOf(a) = "none"
    BY <1>1, <1>2, <2>1, WorkIs DEF StateHeld, LaunchHeld
  <2> HIDE DEF row
  <2> QED BY <1>2, <2>1, <2>2, <2>3, RowKept
<1>5. CASE IdentityUnknown(c) \/ ClaimForChild(c)
  <2>1. /\ UNCHANGED <<log, fence, worker, completion>> /\ ctrl[c].pc = "claim"
        /\ \/ Report(c, "unknown", "identity_unknown")
           \/ Report(c, "record", "RUNNING")
           \/ Report(c, "unknown", "binding_conflict")
    BY <1>5 DEF IdentityUnknown, ClaimForChild, journalVars, providerVars
  <2> QED BY <2>1, ReportKept DEF Tracking
<1> QED BY <1>2, <1>3, <1>4, <1>5, CallKept, SpawnKept DEF AdvanceLaunch

LEMMA RecordKept ==
    ASSUME Sole, Typed, CallsOK, CallsTrue, Custody, NEW c \in Controller, Record(c),
           NEW a \in Attempt, ctrl[c].attempt = a
    PROVE  Kept
<1> DEFINE row == ObservationRow(c)
           state == ctrl[c].state
           obs == ctrl[c].obs
<1>1. /\ CtrlTypeOK /\ CallsRecorded /\ StateHeld(c) /\ CallTrue(c) /\ Steady
      /\ ctrl[c].pc = "record" /\ Post(c, row, Finished(c))
      /\ UNCHANGED <<fence, worker, completion>>
  BY DEF Typed, TypeOK, Custody, Held, CallsTrue, Record, providerVars
<1>2. /\ Recorded(a) /\ obs \in Observations
      /\ state = HeadState(log[a]) /\ state \in ActiveStates \cup {"UNKNOWN"}
  BY <1>1 DEF CallsRecorded, BeforeRecord, CallsOK, CallsAnswered, StateHeld, Tracking
<1>3. row \in RowType
  BY <1>1, <1>2, RowsAreTyped
<1>4. /\ row.key.kind = "observation" /\ row.state = StateAfter(state, obs)
      /\ row.evidence_only <=> EvidenceOnly(state)
  BY DEF ObservationRow, Row, Key
<1> HIDE DEF row
<1>5. row.key # Key("launch", "requested", "none")
  BY <1>4 DEF Key
<1>6. CASE state = "UNKNOWN"
  <2>1. row.evidence_only
    BY <1>4, <1>6 DEF EvidenceOnly
  <2> QED BY <1>1, <1>2, <1>3, <1>5, <2>1, RowKept
<1>7. CASE state \in ActiveStates
  <2>1. ~row.evidence_only
    BY <1>4, <1>7 DEF EvidenceOnly, ActiveStates
  <2>2. CASE obs \in Outcomes
    <3>1. row.state = obs
      <4> HIDE DEF state, obs
      <4> QED BY <1>4, <1>7, <2>2 DEF StateAfter, EvidenceOnly, ActiveStates, Outcomes, Running
    <3>2. completion[a] = obs /\ completion[a] # "none"
      BY <1>1, <2>2 DEF CallTrue, Outcomes
    <3>3. WorkOf(a) = obs
      BY <1>1, <3>2, WorkIs DEF Steady
    <3> QED BY <1>1, <1>2, <1>3, <1>7, <2>1, <2>2, <3>1, <3>3, RowKept
  <2>3. CASE obs \notin Outcomes
    <3>1. row.state \in ActiveStates \cup {"UNKNOWN"}
      <4> HIDE DEF state, obs
      <4> QED BY <1>4, <1>7, <2>3 DEF StateAfter, EvidenceOnly, ActiveStates
    <3> QED BY <1>1, <1>2, <1>3, <1>7, <2>1, <3>1, RowKept
  <2> QED BY <2>2, <2>3
<1> QED BY <1>2, <1>6, <1>7

LEMMA AdvanceAnswerKept ==
    ASSUME Sole, Typed, CallsOK, CallsTrue, Custody, NEW c \in Controller, AdvanceAnswer(c)
    PROVE  Kept
<1>1. CtrlTypeOK /\ CallsRecorded /\ StateHeld(c)
  BY DEF Typed, TypeOK, Custody, Held
<1>2. PICK a \in Attempt : ctrl[c].attempt = a
  BY <1>1 DEF CtrlTypeOK, AdvanceAnswer, Observe, Identify, Unknown, Seal, SealDone, Record
<1>3. CASE Observe(c) \/ Identify(c)
  <2>1. /\ UNCHANGED <<log, fence, worker, completion>>
        /\ ctrl[c].pc \in {"observe", "identify"}
        /\ \/ Report(c, "unknown", "launch_missing")
           \/ Report(c, "seal", completion[a])
           \/ Report(c, "record", "NO_OWNER")
           \/ Report(c, "record", "EXITED")
           \/ Report(c, "record", RunningAs(ctrl[c].op))
           \/ Goto(c, "identify")
    BY <1>2, <1>3 DEF Observe, Identify, journalVars, providerVars
  <2> QED BY <2>1, ReportKept, GotoKept DEF Tracking, Steps
<1>4. CASE Seal(c) \/ SealDone(c)
  <2>1. /\ UNCHANGED <<log, fence, worker, completion>>
        /\ ctrl[c].pc \in {"seal", "sealing"}
        /\ Goto(c, "sealing") \/ Goto(c, "record") \/ Goto(c, "idle")
    BY <1>4 DEF Seal, SealDone, journalVars, providerVars
  <2> QED BY <2>1, GotoKept DEF Tracking, Steps
<1>5. CASE Unknown(c)
  <2> DEFINE row == Row(Key(ctrl[c].op, "unknown", ctrl[c].obs), "UNKNOWN", ctrl[c].ref, FALSE,
                        "UNKNOWN")
  <2>1. /\ ctrl[c].pc = "unknown" /\ Post(c, row, Finished(c)) /\ Recorded(a)
        /\ UNCHANGED <<fence, worker, completion>>
    BY <1>1, <1>2, <1>5 DEF Unknown, providerVars, CallsRecorded, BeforeRecord
  <2>2. row \in RowType /\ row.evidence_only = FALSE /\ row.state = "UNKNOWN"
    <3>1. ctrl[c].op \in Operations /\ ctrl[c].obs \in Details /\ ctrl[c].ref \in BOOLEAN
      BY <1>1 DEF CtrlTypeOK, CallType
    <3> QED BY <3>1 DEF Row, Key, RowType, Kinds, AttemptStates, Certainties
  <2>3. HeadState(log[a]) \in ActiveStates \cup {"UNKNOWN"}
    BY <1>1, <1>2, <2>1 DEF StateHeld, Tracking
  <2> HIDE DEF row
  <2> QED BY <1>2, <2>1, <2>2, <2>3, RowKept
<1> QED BY <1>2, <1>3, <1>4, <1>5, RecordKept DEF AdvanceAnswer

LEMMA AdvanceRevocationKept ==
    ASSUME Sole, Typed, Custody, NEW c \in Controller, AdvanceRevocation(c) \/ Crash(c)
    PROVE  Kept
<1>1. CtrlTypeOK /\ CallsRecorded /\ StateHeld(c) /\ FenceHeld(c)
  BY DEF Typed, TypeOK, Custody, Held
<1>2. PICK a \in Attempt : ctrl[c].attempt = a
  BY <1>1 DEF CtrlTypeOK, AdvanceRevocation, RevokeAttempt, Recancel, FenceAfter, Crash
<1>3. CASE RevokeAttempt(c) \/ Crash(c)
  <2>1. UNCHANGED <<log, fence, worker, completion>>
    BY <1>3 DEF RevokeAttempt, Crash, journalVars, providerVars
  <2>2. CASE Goto(c, "idle") \/ (Goto(c, "recancel") /\ ctrl[c].pc = "revoking")
    BY <2>1, <2>2, GotoKept DEF Steps
  <2>3. CASE /\ ctrl[c].pc = "revoking" /\ HeadState(log[a]) = "PREPARED"
             /\ Begin(c, a, "revoke", "no_effect")
    <3>1. /\ ctrl'[c].pc = "no_effect" /\ ctrl'[c].attempt = a /\ ctrl'[c].fencing = FALSE
      BY <1>1, <2>3, BeginCall
    <3>2. fence[a] = "revoked"
      BY <1>1, <1>2, <2>3 DEF FenceHeld
    <3>3. FenceHeld(c)' /\ StateHeld(c)' /\ LaunchHeld(c)'
      BY <2>1, <2>3, <3>1, <3>2 DEF FenceHeld, StateHeld, LaunchHeld, Tracking
    <3> QED BY <2>1, <3>3, HeldMove, QuietKept DEF Custody
  <2> QED BY <1>2, <1>3, <2>2, <2>3 DEF RevokeAttempt, Crash
<1>4. CASE Recancel(c)
  <2> DEFINE step == ControlStep(a, "cancel")
             call == IF step = "idle" /\ HeadState(log[a]) = "UNKNOWN" THEN Idle
                     ELSE [pc |-> IF step = "idle" THEN "fence" ELSE step,
                           op |-> ControlOp(a, "cancel"), attempt |-> a,
                           state |-> HeadState(log[a]), ref |-> HasProviderRef(log[a]),
                           obs |-> "none", child |-> NoWorker, fencing |-> TRUE]
  <2>1. /\ UNCHANGED <<log, fence, worker, completion>> /\ fence[a] = "revoked"
        /\ ctrl' = [ctrl EXCEPT ![c] = call]
    BY <1>1, <1>2, <1>4 DEF Recancel, journalVars, providerVars, FenceHeld
  <2>2. /\ step \in {"idle", "no_effect", "intend", "observe"}
        /\ step = "no_effect" => HeadState(log[a]) = "PREPARED"
        /\ step \in {"intend", "observe"} => HeadState(log[a]) \in ActiveStates
        /\ step # "observe" => ControlOp(a, "cancel") = "cancel"
    BY DEF ControlStep, ControlOp, Active
  <2>3. \/ call = Idle
        \/ /\ call.pc = IF step = "idle" THEN "fence" ELSE step
           /\ call.op = ControlOp(a, "cancel") /\ call.attempt = a
           /\ call.state = HeadState(log[a])
    <3> HIDE DEF step
    <3> QED OBVIOUS
  <2> HIDE DEF step, call
  <2>4. ctrl'[c] = call
    BY <1>1, <2>1 DEF CtrlTypeOK
  <2>5. CASE call = Idle
    <3>1. Held'
      BY <2>4, <2>5, IdleHeld
    <3> QED BY <2>1, <3>1, QuietKept DEF Custody
  <2>6. ASSUME call.pc = IF step = "idle" THEN "fence" ELSE step,
               call.op = ControlOp(a, "cancel"), call.attempt = a,
               call.state = HeadState(log[a])
        PROVE  Kept
    <3>1. FenceHeld(c)'
      BY <2>1, <2>2, <2>4, <2>6 DEF FenceHeld
    <3>2. StateHeld(c)'
      BY <2>1, <2>2, <2>4, <2>6 DEF StateHeld, Tracking, Controls
    <3>3. LaunchHeld(c)'
      BY <2>2, <2>4, <2>6 DEF LaunchHeld
    <3> QED BY <2>1, <3>1, <3>2, <3>3, HeldMove, QuietKept DEF Custody
  <2> QED BY <2>3, <2>5, <2>6
<1>5. CASE FenceAfter(c)
  <2> DEFINE row == Row(Key("revoke", "fence_revoked", "none"), "FENCED",
                        HasProviderRef(log[a]), FALSE, "KNOWN")
  <2>1. /\ ctrl[c].pc = "fence" /\ Post(c, row, "idle") /\ Recorded(a)
        /\ UNCHANGED <<fence, worker, completion>> /\ fence[a] = "revoked"
    BY <1>1, <1>2, <1>5 DEF FenceAfter, providerVars, CallsRecorded, BeforeRecord, FenceHeld
  <2>2. row \in RowType /\ row.evidence_only = FALSE /\ row.state = "FENCED"
    <3>1. HasProviderRef(log[a]) \in BOOLEAN
      BY DEF HasProviderRef
    <3> QED BY <3>1 DEF Row, Key, RowType, Operations, Kinds, Details, AttemptStates,
                        Certainties
  <2> HIDE DEF row
  <2> QED BY <1>2, <2>1, <2>2, RowKept
<1> QED BY <1>3, <1>4, <1>5 DEF AdvanceRevocation

LEMMA WorkerKept ==
    ASSUME Typed, RunningOwns, Custody, NEW w \in Worker, WorkerStep(w)
    PROVE  Kept
<1>1. UNCHANGED <<log, fence, ctrl>>
  BY DEF WorkerStep, WorkerClaim, WorkerFinish, WorkerExit, journalVars
<1>2. PICK a \in Attempt : worker[w].attempt = a
  BY DEF WorkerStep, WorkerClaim, WorkerFinish, WorkerExit, Live, Typed, TypeOK, WorkerTypeOK
<1>3. /\ worker'[w].attempt = a
      /\ \A v \in Worker : v # w => worker'[v] = worker[v]
      /\ completion \in [Attempt -> Outcomes \cup {"none"}]
      /\ \A b \in Attempt : b # a => completion'[b] = completion[b]
  BY <1>2 DEF WorkerStep, WorkerClaim, WorkerFinish, WorkerExit, Typed, TypeOK, WorkerTypeOK,
              ProviderTypeOK, providerVars
<1>4. w \in WorkersOf(a) /\ \A b \in Attempt : WorkersOf(b)' = WorkersOf(b)
  BY <1>2, <1>3 DEF WorkersOf
<1>5. Held'
  <2>1. ASSUME NEW c \in Controller
        PROVE  FenceHeld(c)' /\ StateHeld(c)' /\ LaunchHeld(c)'
    <3>1. ctrl[c].pc # "idle" => ctrl[c].attempt \in Attempt
      BY DEF Typed, TypeOK, CtrlTypeOK
    <3>2. FenceHeld(c)' /\ StateHeld(c)'
      BY <1>1 DEF Custody, Held, FenceHeld, StateHeld
    <3>3. PICK b : ctrl[c].attempt = b /\ ctrl'[c].attempt = b
      BY <1>1
    <3>4. LaunchHeld(c)'
      BY <1>1, <1>4, <3>1, <3>3 DEF Custody, Held, LaunchHeld, Clear
    <3> QED BY <3>2, <3>4
  <2> QED BY <2>1 DEF Held
<1>6. Steady'
  <2>1. ASSUME NEW b \in Attempt, completion'[b] # "none" PROVE WorkersOf(b)' # {}
    BY <1>3, <1>4, <2>1 DEF Custody, Steady
  <2> QED BY <1>1, <2>1 DEF Custody, Steady, Recorded, Requested
<1>7. ASSUME NEW b \in Attempt, b # a
      PROVE  WorkOf(b)' = WorkOf(b)
  <2>1. \A v \in WorkersOf(b) : Live(v)' <=> Live(v)
    BY <1>2, <1>3, <1>7 DEF WorkersOf, Live
  <2> QED BY <1>3, <1>4, <1>7, <2>1, WorkSame
<1>8. Live(w) /\ WorkersOf(a)' # {}
  BY <1>4 DEF WorkerStep, WorkerClaim, WorkerFinish, WorkerExit, Live
<1>9. CASE UNCHANGED completion
  <2>1. completion[a] # "none" => WorkOf(a)' = WorkOf(a)
    BY <1>4, <1>8, <1>9, WorkIs, WorkIsNext
  <2>2. completion[a] = "none" => WorkOf(a) = "live"
    BY <1>4, <1>8, WorkIs
  <2>3. completion[a] = "none" => WorkOf(a)' \in {"live", "lost"}
    <3>1. CASE \E v \in WorkersOf(a)' : Live(v)'
      BY <1>9, <3>1, WorkIsNext
    <3>2. CASE \A v \in WorkersOf(a)' : ~Live(v)'
      BY <1>8, <1>9, <3>2, WorkIsNext
    <3> QED BY <3>1, <3>2
  <2>4. Promised
    BY <1>1, <1>7, <2>1, <2>2, <2>3, WorkMoves
  <2> QED BY <1>5, <1>6, <2>4 DEF Kept
<1>10. ASSUME NEW o \in Outcomes, WorkerFinish(w, o)
       PROVE  Kept
  <2>1. completion[a] = "none" /\ completion'[a] = o /\ o # "none"
    BY <1>2, <1>3, <1>10 DEF WorkerFinish, Outcomes
  <2>2. WorkOf(a) = "live" /\ WorkOf(a)' = o
    BY <1>4, <1>8, <2>1, WorkIs, WorkIsNext
  <2>3. Promised
    BY <1>1, <1>7, <2>2, WorkMoves
  <2> QED BY <1>5, <1>6, <2>3 DEF Kept
<1> QED BY <1>9, <1>10 DEF WorkerStep, WorkerClaim, WorkerExit, providerVars

LEMMA InstallKept ==
    ASSUME Typed, Custody, NEW a \in Attempt, InstallFence(a)
    PROVE  Kept
<1>1. /\ UNCHANGED <<log, worker, completion, ctrl>>
      /\ fence[a] = "absent" /\ fence'[a] = "active"
      /\ \A b \in Attempt : b # a => fence'[b] = fence[b]
  BY DEF InstallFence, providerVars, Typed, TypeOK, StoreTypeOK
<1>2. Held'
  <2>1. ASSUME NEW c \in Controller
        PROVE  FenceHeld(c)' /\ StateHeld(c)' /\ LaunchHeld(c)'
    <3>1. PICK b : ctrl[c].attempt = b /\ ctrl'[c].attempt = b
      BY <1>1
    <3>2. ctrl[c].pc # "idle" => b \in Attempt
      BY <3>1 DEF Typed, TypeOK, CtrlTypeOK
    <3>3. FenceHeld(c) /\ StateHeld(c) /\ LaunchHeld(c)
      BY DEF Custody, Held
    <3> QED BY <1>1, <3>1, <3>2, <3>3
            DEF FenceHeld, StateHeld, LaunchHeld, Clear, WorkersOf, Tracking
  <2> QED BY <2>1 DEF Held
<1>3. Steady'
  BY <1>1, SteadyStays DEF Custody, WorkersOf
<1>4. Promised
  BY <1>1, FenceMoves
<1> QED BY <1>2, <1>3, <1>4 DEF Kept

LEMMA FreshStep ==
    ASSUME Typed, Fresh, Next
    PROVE  Fresh'
<1>1. worker \in [Worker -> [attempt : Attempt \cup {NoAttempt},
          status : {"unborn", "starting", "running", "dead"}]]
  BY DEF Typed, TypeOK, WorkerTypeOK
<1>2. ASSUME NEW c \in Controller, NEW w \in Worker, Spawn(c, w)
      PROVE  Fresh'
  BY <1>1, <1>2 DEF Spawn, Fresh
<1>3. ASSUME NEW w \in Worker, WorkerStep(w)
      PROVE  Fresh'
  <2>1. UNCHANGED worker \/ \E s \in {"running", "dead"} : worker' = [worker EXCEPT ![w].status = s]
    BY <1>3 DEF WorkerStep, WorkerClaim, WorkerFinish, WorkerExit
  <2> QED BY <1>1, <2>1 DEF Fresh
<1>4. ASSUME NEW c \in Controller,
             \/ AdvanceIntent(c) \/ AdvanceAnswer(c) \/ AdvanceRevocation(c) \/ Crash(c)
             \/ \E a \in Attempt : Start(c, a)
      PROVE  UNCHANGED worker
  BY <1>4 DEF AdvanceIntent, StageDone, StageFail, Insert, NoEffect, Intend,
              AdvanceAnswer, Observe, Identify, Unknown, Seal, SealDone, Record,
              AdvanceRevocation, RevokeAttempt, Recancel, FenceAfter, Crash,
              Start, Prepare, Dispatch, Reconcile, RequestControl, RevokeFence
<1>5. ASSUME NEW c \in Controller, AdvanceLaunch(c)
      PROVE  Fresh'
  <2>1. ASSUME \/ Call(c) \/ VerifyFail(c) \/ PolicyReject(c) \/ Bind(c) \/ SpawnFail(c)
               \/ Reject(c) \/ IdentityUnknown(c) \/ ClaimForChild(c)
        PROVE  UNCHANGED worker
    BY <2>1 DEF Call, VerifyFail, PolicyReject, Bind, SpawnFail, Reject, IdentityUnknown,
                ClaimForChild
  <2> QED BY <1>2, <1>5, <2>1 DEF AdvanceLaunch, Fresh
<1>6. ASSUME NEW a \in Attempt, InstallFence(a)
      PROVE  UNCHANGED worker
  BY <1>6 DEF InstallFence
<1> QED BY <1>3, <1>4, <1>5, <1>6 DEF Next, Fresh

LEMMA CustodyStep ==
    ASSUME Sole, IInv, Custody, Next
    PROVE  Custody' /\ Promised
<1>1. Typed /\ CallsOK /\ EffectAfterIntent /\ RunningOwns /\ CallsTrue
  BY DEF IInv, Truthful
<1>2. Kept
  BY <1>1, InstallKept, StartKept, AdvanceIntentKept, AdvanceLaunchKept, AdvanceAnswerKept,
     AdvanceRevocationKept, WorkerKept DEF Next
<1>3. Fresh'
  BY <1>1, FreshStep DEF Custody
<1> QED BY <1>2, <1>3 DEF Kept, Custody

\* Custody holds at first and every step of a sole controller, of a worker and
\* of an operator keeps it.
THEOREM CustodyHolds == Sole => (Spec => []Custody)
<1> SUFFICES ASSUME Sole PROVE Spec => []Custody
  OBVIOUS
<1>1. Init => Custody
  <2> SUFFICES ASSUME Init PROVE Custody
    OBVIOUS
  <2>1. Held
    BY DEF Init, Held, FenceHeld, StateHeld, LaunchHeld, Idle, Tracking
  <2>2. Steady /\ Fresh
    BY PreviousAssumption DEF Init, Steady, Fresh, Recorded, Unborn
  <2> QED BY <2>1, <2>2 DEF Custody
<1>2. Custody /\ IInv /\ [Next]_vars => Custody'
  <2>1. ASSUME Custody, UNCHANGED vars
        PROVE  Custody'
    BY <2>1 DEF vars, journalVars, storeVars, providerVars, Custody, Held, FenceHeld, StateHeld,
                LaunchHeld, Clear, Steady, Fresh, Recorded, Requested, WorkersOf
  <2> QED BY <2>1, CustodyStep
<1> QED BY <1>1, <1>2, IInvHolds, PTL DEF Spec

\* One controller at a time: the adapter implements AttemptPromise, for any
\* Attempts, retries and workers, with crashes and revocation at any step.
THEOREM PromiseKept == Sole => (Spec => KeepsPromise)
<1> SUFFICES ASSUME Sole PROVE Spec => KeepsPromise
  OBVIOUS
<1>1. Init => Promise!PromiseInit
  <2> SUFFICES ASSUME Init PROVE Promise!PromiseInit
    OBVIOUS
  <2>1. \A a \in Attempt : LifeOf(a) = "absent" /\ fence[a] # "revoked"
    BY LifeIs DEF Init
  <2>2. \A a \in Attempt : WorkersOf(a) = {}
    BY PreviousAssumption DEF Init, WorkersOf, Unborn
  <2>3. \A a \in Attempt : WorkOf(a) = "none"
    BY <2>2, WorkIs
  <2> QED BY <2>1, <2>3 DEF Promise!PromiseInit
<1>2. IInv /\ Custody /\ [Next]_vars => [Promise!PromiseNext]_(Promise!promiseVars)
  <2>1. ASSUME UNCHANGED vars
        PROVE  Promised
    BY <2>1, QuietPromise DEF vars, journalVars, providerVars
  <2> QED BY <2>1, CustodyStep DEF Promised
<1> QED BY <1>1, <1>2, IInvHolds, CustodyHolds, PTL DEF Spec, KeepsPromise, Promise!PromiseSpec
-----------------------------------------------------------------------------
(* Retries.                                                                  *)

\* The adapter has said its last word on a but for a revocation.
Settled(a) == LifeOf(a) \notin {"absent", "ready", "active"}

Preparing == {"staging", "insert"}

\* a is in the journal, or a call is about to put it there.
Underway(a) ==
    \/ Recorded(a)
    \/ \E c \in Controller : ctrl[c].pc \in Preparing /\ ctrl[c].attempt = a

\* Known failures and stops leave nothing running; the predecessor of a retry
\* is settled and leaves nothing running.
Retried ==
    /\ \A a \in Attempt : LifeOf(a) \in RetryableStates => WorkOf(a) # "live"
    /\ \A a \in Attempt :
          Underway(a) /\ Previous[a] \in Attempt =>
              Settled(Previous[a]) /\ WorkOf(Previous[a]) # "live"

\* What a step that keeps the promise may do to one Attempt.
LEMMA PromisedMoves ==
    ASSUME Promised, NEW a \in Attempt
    PROVE  /\ WorkOf(a)' = "live" => WorkOf(a) = "live" \/ LifeOf(a) = "active"
           /\ LifeOf(a)' = LifeOf(a) \/ WorkOf(a)' = WorkOf(a)
           /\ LifeOf(a)' \in RetryableStates =>
                 \/ LifeOf(a)' = LifeOf(a)
                 \/ LifeOf(a) = "ready"
                 \/ WorkOf(a) \in Outcomes \cup {"none"}
           /\ Settled(a) => Settled(a)'
<1>1. CASE UNCHANGED Promise!promiseVars
  <2>1. LifeOf(a)' = LifeOf(a) /\ WorkOf(a)' = WorkOf(a)
    BY <1>1 DEF Promise!promiseVars
  <2> QED BY <2>1 DEF Settled
<1>2. CASE Promise!PromiseNext
  <2>1. PICK b \in Attempt :
           \/ Promise!Ready(b) \/ Promise!Decline(b) \/ Promise!Revoke(b) \/ Promise!Fence(b)
           \/ Promise!Begun(b) \/ Promise!Work(b) \/ Promise!Finish(b) \/ Promise!Lose(b)
           \/ Promise!Settle(b) \/ Promise!Refuse(b) \/ Promise!GiveUp(b)
    BY <1>2 DEF Promise!PromiseNext
  <2>2. ASSUME NEW s, Promise!Become(b, s)
        PROVE  LifeOf(a)' = (IF a = b THEN s ELSE LifeOf(a)) /\ WorkOf(a)' = WorkOf(a)
    BY <2>2 DEF Promise!Become
  <2>3. ASSUME NEW effect, Promise!Happen(b, effect)
        PROVE  WorkOf(a)' = (IF a = b THEN effect ELSE WorkOf(a)) /\ LifeOf(a)' = LifeOf(a)
    BY <2>3 DEF Promise!Happen
  <2>4. CASE Promise!Revoke(b)
    <3>1. LifeOf(a)' = LifeOf(a) /\ WorkOf(a)' = WorkOf(a)
      BY <2>4 DEF Promise!Revoke
    <3> QED BY <3>1 DEF Settled
  <2>5. CASE Promise!Ready(b) \/ Promise!Decline(b) \/ Promise!Fence(b) \/ Promise!Begun(b)
             \/ Promise!Settle(b) \/ Promise!Refuse(b) \/ Promise!GiveUp(b)
    <3>1. PICK s : /\ Promise!Become(b, s)
                   /\ \/ LifeOf(b) = "absent" /\ s = "ready"
                      \/ LifeOf(b) = "ready" /\ s \in {"CANCELLED", "FORCE_STOPPED", "active"}
                      \/ s = "FENCED"
                      \/ LifeOf(b) = "active" /\ WorkOf(b) \in Outcomes /\ s = WorkOf(b)
                      \/ LifeOf(b) = "active" /\ WorkOf(b) = "none" /\ s = "FAILED"
                      \/ LifeOf(b) = "active" /\ s = "UNKNOWN"
      BY <2>5 DEF Promise!Ready, Promise!Decline, Promise!Fence, Promise!Begun, Promise!Settle,
                  Promise!Refuse, Promise!GiveUp, Promise!WorkOutcomes, Outcomes
    <3>2. LifeOf(a)' = (IF a = b THEN s ELSE LifeOf(a)) /\ WorkOf(a)' = WorkOf(a)
      BY <2>2, <3>1
    <3> QED BY <3>1, <3>2 DEF Settled, RetryableStates, Outcomes
  <2>6. CASE Promise!Work(b) \/ Promise!Finish(b) \/ Promise!Lose(b)
    <3>1. PICK effect : /\ Promise!Happen(b, effect)
                        /\ effect = "live" => LifeOf(b) = "active"
      BY <2>6 DEF Promise!Work, Promise!Finish, Promise!Lose, Promise!WorkOutcomes
    <3>2. WorkOf(a)' = (IF a = b THEN effect ELSE WorkOf(a)) /\ LifeOf(a)' = LifeOf(a)
      BY <2>3, <3>1
    <3> QED BY <3>1, <3>2 DEF Settled
  <2> QED BY <2>1, <2>4, <2>5, <2>6
<1> QED BY <1>1, <1>2 DEF Promised

LEMMA UnderwayQuiet ==
    ASSUME NEW c \in Controller, Alone(c), UNCHANGED log, ctrl'[c].pc \notin Preparing,
           NEW a \in Attempt, Underway(a)'
    PROVE  Underway(a)
BY DEF Underway, Alone, Recorded

LEMMA UnderwayPost ==
    ASSUME Typed, NEW c \in Controller, ctrl[c].pc # "idle", NEW row \in RowType,
           NEW pc \in {"idle", "fence", "call"}, Post(c, row, pc),
           Recorded(ctrl[c].attempt) \/ (ctrl[c].pc = "insert" /\ row.evidence_only = FALSE),
           NEW a \in Attempt, Underway(a)'
    PROVE  Underway(a)
<1>1. CtrlTypeOK /\ pc \in Steps /\ ctrl[c].attempt \in Attempt
  BY DEF Typed, TypeOK, CtrlTypeOK, Steps
<1>2. PICK b \in Attempt : ctrl[c].attempt = b
  BY <1>1
<1>3. Alone(c) /\ ctrl'[c].pc \notin Preparing
  BY <1>1, PostShape DEF Preparing
<1>4. \A d \in Attempt : d # b => log'[d] = log[d]
  BY <1>2, PostLog DEF PostedTo
<1>5. Underway(b)
  BY <1>2 DEF Underway, Preparing
<1> QED BY <1>2, <1>3, <1>4, <1>5 DEF Underway, Alone, Recorded

\* An Attempt gets under way with prepare() or retry(), and in no other way.
LEMMA UnderwayStart ==
    ASSUME Typed, NEW c \in Controller, NEW b \in Attempt, Start(c, b),
           NEW a \in Attempt, Underway(a)'
    PROVE  Underway(a) \/ Prepare(c, a)
<1>1. CtrlTypeOK
  BY DEF Typed, TypeOK
<1>2. CASE Prepare(c, b)
  <2>1. /\ UNCHANGED log /\ Alone(c)
        /\ ctrl'[c].attempt = b
    BY <1>1, <1>2 DEF Prepare, journalVars, Alone, CtrlTypeOK, Idle
  <2> QED BY <1>2, <2>1 DEF Underway, Alone, Recorded
<1>3. CASE RevokeFence(c, b)
  <2>1. UNCHANGED log /\ Alone(c) /\ ctrl'[c].pc = "revoking"
    BY <1>1, <1>3 DEF RevokeFence, Alone, CtrlTypeOK, Idle
  <2> QED BY <2>1, UnderwayQuiet DEF Preparing
<1>4. CASE Dispatch(c, b) \/ Reconcile(c, b) \/ \E op \in Controls : RequestControl(c, b, op)
  <2>1. /\ UNCHANGED log
        /\ \E op : \E pc \in {"intend", "no_effect", "observe"} : Begin(c, b, op, pc)
    BY <1>4 DEF Dispatch, Reconcile, RequestControl, ControlStep, journalVars
  <2>2. Alone(c) /\ ctrl'[c].pc \in {"intend", "no_effect", "observe"}
    BY <1>1, <2>1, BeginCall DEF Begin, Alone, CtrlTypeOK
  <2> QED BY <2>1, <2>2, UnderwayQuiet DEF Preparing
<1> QED BY <1>2, <1>3, <1>4 DEF Start

LEMMA UnderwayGoto ==
    ASSUME Typed, NEW c \in Controller, NEW pc \in Steps \ Preparing, NEW obs \in Details,
           UNCHANGED log, Goto(c, pc) \/ Report(c, pc, obs),
           NEW a \in Attempt, Underway(a)'
    PROVE  Underway(a)
<1>1. Alone(c) /\ ctrl'[c].pc = pc
  BY GotoShape, ReportShape DEF Typed, TypeOK
<1> QED BY <1>1, UnderwayQuiet

LEMMA UnderwayIntent ==
    ASSUME Typed, NEW c \in Controller, AdvanceIntent(c), NEW a \in Attempt, Underway(a)'
    PROVE  Underway(a)
<1>1. CtrlTypeOK /\ CallsRecorded /\ Finished(c) \in {"idle", "fence"}
  BY DEF Typed, TypeOK, Finished
<1>2. CASE StageDone(c)
  <2>1. /\ UNCHANGED log /\ Alone(c) /\ ctrl[c].pc \in Preparing
        /\ ctrl'[c].attempt = ctrl[c].attempt
    BY <1>1, <1>2, GotoShape DEF StageDone, journalVars, Steps, Preparing
  <2> QED BY <2>1 DEF Underway, Alone, Recorded
<1>3. CASE StageFail(c)
  BY <1>3, UnderwayGoto DEF StageFail, journalVars, Steps, Preparing, Details
<1>4. CASE Insert(c)
  <2> DEFINE row == Row(Key("prepare", "prepared", "none"), "PREPARED", FALSE, FALSE, "NONE")
  <2>1. row \in RowType /\ row.evidence_only = FALSE
    BY DEF Row, Key, RowType, Operations, Kinds, Details, AttemptStates, Certainties
  <2>2. ctrl[c].pc = "insert" /\ Post(c, row, "idle")
    BY <1>4 DEF Insert
  <2> HIDE DEF row
  <2> QED BY <2>1, <2>2, UnderwayPost
<1>5. CASE NoEffect(c)
  <2>1. /\ ctrl[c].pc = "no_effect" /\ Recorded(ctrl[c].attempt)
        /\ Post(c, NoEffectRow(ctrl[c].op, ctrl[c].ref), Finished(c))
    BY <1>1, <1>5 DEF NoEffect, CallsRecorded, BeforeRecord
  <2> QED BY <1>1, <2>1, RowsAreTyped, UnderwayPost
<1>6. CASE Intend(c)
  <2>1. /\ ctrl[c].pc = "intend" /\ Recorded(ctrl[c].attempt)
        /\ Post(c, IntentRow(ctrl[c].op, ctrl[c].ref), "call")
    BY <1>1, <1>6 DEF Intend, CallsRecorded, BeforeRecord
  <2> QED BY <1>1, <2>1, RowsAreTyped, UnderwayPost
<1> QED BY <1>2, <1>3, <1>4, <1>5, <1>6 DEF AdvanceIntent

LEMMA UnderwayLaunch ==
    ASSUME Typed, NEW c \in Controller, AdvanceLaunch(c), NEW a \in Attempt, Underway(a)'
    PROVE  Underway(a)
<1>1. CtrlTypeOK /\ CallsRecorded /\ Finished(c) \in {"idle", "fence"}
  BY DEF Typed, TypeOK, Finished
<1>2. CASE VerifyFail(c) \/ PolicyReject(c) \/ Bind(c) \/ SpawnFail(c)
  <2>1. UNCHANGED log /\ \E pc \in {"idle", "reject", "spawn"} : Goto(c, pc)
    BY <1>2 DEF VerifyFail, PolicyReject, Bind, SpawnFail, journalVars
  <2> QED BY <2>1, UnderwayGoto DEF Steps, Preparing, Details
<1>3. CASE IdentityUnknown(c) \/ ClaimForChild(c)
  <2>1. /\ UNCHANGED log
        /\ \E pc \in {"unknown", "record"}, obs \in Details : Report(c, pc, obs)
    BY <1>3 DEF IdentityUnknown, ClaimForChild, journalVars, Details, Unknowns, Observations
  <2> QED BY <2>1, UnderwayGoto DEF Steps, Preparing
<1>4. CASE Call(c)
  <2>1. UNCHANGED log /\ Alone(c)
    BY <1>1, <1>4 DEF Call, journalVars, Alone, CtrlTypeOK
  <2>2. ctrl'[c].pc = CallStep(ctrl[c].attempt, ctrl[c].op)
    BY <1>1, <1>4 DEF Call, CtrlTypeOK, CallType
  <2>3. ctrl'[c].pc \in {"seal", "bind", "unknown", "observe"}
    BY <2>2 DEF CallStep
  <2> QED BY <2>1, <2>3, UnderwayQuiet DEF Preparing
<1>5. ASSUME NEW w \in Worker, Spawn(c, w)
      PROVE  Underway(a)
  <2>1. UNCHANGED log /\ Alone(c) /\ ctrl'[c].pc = "claim"
    BY <1>1, <1>5 DEF Spawn, journalVars, Alone, CtrlTypeOK, CallType
  <2> QED BY <2>1, UnderwayQuiet DEF Preparing
<1>6. CASE Reject(c)
  <2> DEFINE row == Row(Key("launch", "rejected", "none"), "FAILED", FALSE, FALSE, "NONE")
  <2>1. row \in RowType
    BY DEF Row, Key, RowType, Operations, Kinds, Details, AttemptStates, RetryableStates,
           Certainties
  <2>2. ctrl[c].pc = "reject" /\ Post(c, row, Finished(c)) /\ Recorded(ctrl[c].attempt)
    BY <1>1, <1>6 DEF Reject, CallsRecorded, BeforeRecord
  <2> HIDE DEF row
  <2> QED BY <1>1, <2>1, <2>2, UnderwayPost
<1> QED BY <1>2, <1>3, <1>4, <1>5, <1>6 DEF AdvanceLaunch

LEMMA UnderwayAnswer ==
    ASSUME Typed, CallsOK, NEW c \in Controller, AdvanceAnswer(c),
           NEW a \in Attempt, Underway(a)'
    PROVE  Underway(a)
<1>1. CtrlTypeOK /\ CallsRecorded /\ Finished(c) \in {"idle", "fence"}
  BY DEF Typed, TypeOK, Finished
<1>2. CASE Seal(c) \/ SealDone(c)
  <2>1. UNCHANGED log /\ \E pc \in {"sealing", "record", "idle"} : Goto(c, pc)
    BY <1>2 DEF Seal, SealDone, journalVars
  <2> QED BY <2>1, UnderwayGoto DEF Steps, Preparing, Details
<1>3. CASE Observe(c) \/ Identify(c)
  <2>1. UNCHANGED log
    BY <1>3 DEF Observe, Identify, journalVars
  <2>2. PICK b \in Attempt : ctrl[c].attempt = b
    BY <1>1, <1>3 DEF CtrlTypeOK, Observe, Identify
  <2>3. \/ Goto(c, "identify")
        \/ Report(c, "unknown", "launch_missing")
        \/ Report(c, "seal", completion[b])
        \/ Report(c, "record", "NO_OWNER")
        \/ Report(c, "record", "EXITED")
        \/ Report(c, "record", RunningAs(ctrl[c].op))
    BY <1>3, <2>2 DEF Observe, Identify
  <2>4. completion[b] \in Details /\ RunningAs(ctrl[c].op) \in Details
    BY DEF Typed, TypeOK, ProviderTypeOK, RunningAs, Details, Observations
  <2>5. {"launch_missing", "NO_OWNER", "EXITED"} \subseteq Details
    BY DEF Details, Observations, Unknowns
  <2>6. {"identify", "unknown", "seal", "record"} \subseteq Steps \ Preparing /\ "none" \in Details
    BY DEF Steps, Preparing, Details
  <2> QED BY <2>1, <2>3, <2>4, <2>5, <2>6, UnderwayGoto
<1>4. CASE Unknown(c)
  <2> DEFINE row == Row(Key(ctrl[c].op, "unknown", ctrl[c].obs), "UNKNOWN", ctrl[c].ref, FALSE,
                        "UNKNOWN")
  <2>1. row \in RowType
    <3>1. ctrl[c].op \in Operations /\ ctrl[c].obs \in Details /\ ctrl[c].ref \in BOOLEAN
      BY <1>1 DEF CtrlTypeOK, CallType
    <3> QED BY <3>1 DEF Row, Key, RowType, Kinds, AttemptStates, Certainties
  <2>2. ctrl[c].pc = "unknown" /\ Post(c, row, Finished(c)) /\ Recorded(ctrl[c].attempt)
    BY <1>1, <1>4 DEF Unknown, CallsRecorded, BeforeRecord
  <2> HIDE DEF row
  <2> QED BY <1>1, <2>1, <2>2, UnderwayPost
<1>5. CASE Record(c)
  <2>1. /\ ctrl[c].pc = "record" /\ Post(c, ObservationRow(c), Finished(c))
        /\ Recorded(ctrl[c].attempt) /\ ctrl[c].obs \in Observations
    BY <1>1, <1>5 DEF Record, CallsRecorded, BeforeRecord, CallsOK, CallsAnswered
  <2>2. ObservationRow(c) \in RowType
    BY <1>1, <2>1, RowsAreTyped
  <2> QED BY <1>1, <2>1, <2>2, UnderwayPost
<1> QED BY <1>2, <1>3, <1>4, <1>5 DEF AdvanceAnswer

LEMMA UnderwayRevocation ==
    ASSUME Typed, NEW c \in Controller, AdvanceRevocation(c) \/ Crash(c),
           NEW a \in Attempt, Underway(a)'
    PROVE  Underway(a)
<1>1. CtrlTypeOK /\ CallsRecorded
  BY DEF Typed, TypeOK
<1>2. CASE RevokeAttempt(c) \/ Crash(c)
  <2>1. UNCHANGED log
    BY <1>2 DEF RevokeAttempt, Crash, journalVars
  <2>2. CASE \E pc \in {"idle", "recancel"} : Goto(c, pc)
    BY <2>1, <2>2, UnderwayGoto DEF Steps, Preparing, Details
  <2>3. CASE Begin(c, ctrl[c].attempt, "revoke", "no_effect")
    <3>1. Alone(c) /\ ctrl'[c].pc = "no_effect"
      BY <1>1, <2>3, BeginCall DEF Begin, Alone, CtrlTypeOK
    <3> QED BY <2>1, <3>1, UnderwayQuiet DEF Preparing
  <2> QED BY <1>2, <2>2, <2>3 DEF RevokeAttempt, Crash
<1>3. CASE Recancel(c)
  <2> DEFINE b == ctrl[c].attempt
             step == ControlStep(b, "cancel")
             call == IF step = "idle" /\ HeadState(log[b]) = "UNKNOWN" THEN Idle
                     ELSE [pc |-> IF step = "idle" THEN "fence" ELSE step,
                           op |-> ControlOp(b, "cancel"), attempt |-> b,
                           state |-> HeadState(log[b]), ref |-> HasProviderRef(log[b]),
                           obs |-> "none", child |-> NoWorker, fencing |-> TRUE]
  <2>1. UNCHANGED log /\ ctrl' = [ctrl EXCEPT ![c] = call]
    BY <1>3 DEF Recancel, journalVars
  <2>2. step \in {"idle", "no_effect", "intend", "observe"}
    BY DEF ControlStep
  <2>3. call = Idle \/ call.pc = IF step = "idle" THEN "fence" ELSE step
    <3> HIDE DEF step
    <3> QED OBVIOUS
  <2> HIDE DEF step, call
  <2>4. call.pc \in {"idle", "fence", "no_effect", "intend", "observe"}
    BY <2>2, <2>3 DEF Idle
  <2>5. Alone(c) /\ ctrl'[c] = call
    BY <1>1, <2>1 DEF Alone, CtrlTypeOK
  <2> QED BY <2>1, <2>4, <2>5, UnderwayQuiet DEF Preparing
<1>4. CASE FenceAfter(c)
  <2> DEFINE row == Row(Key("revoke", "fence_revoked", "none"), "FENCED",
                        HasProviderRef(log[ctrl[c].attempt]), FALSE, "KNOWN")
  <2>1. ctrl[c].pc = "fence" /\ Post(c, row, "idle") /\ Recorded(ctrl[c].attempt)
    BY <1>1, <1>4 DEF FenceAfter, CallsRecorded, BeforeRecord
  <2>2. row \in RowType
    <3>1. HasProviderRef(log[ctrl[c].attempt]) \in BOOLEAN
      BY DEF HasProviderRef
    <3> QED BY <3>1 DEF Row, Key, RowType, Operations, Kinds, Details, AttemptStates,
                        Certainties
  <2> HIDE DEF row
  <2> QED BY <2>1, <2>2, UnderwayPost
<1> QED BY <1>2, <1>3, <1>4 DEF AdvanceRevocation

LEMMA UnderwayStep ==
    ASSUME Typed, CallsOK, Next, NEW a \in Attempt, Underway(a)'
    PROVE  Underway(a) \/ \E c \in Controller : Prepare(c, a)
<1>1. ASSUME (\E b \in Attempt : InstallFence(b)) \/ (\E w \in Worker : WorkerStep(w))
      PROVE  Underway(a)
  <2>1. UNCHANGED <<log, ctrl>>
    BY <1>1 DEF InstallFence, WorkerStep, WorkerClaim, WorkerFinish, WorkerExit, journalVars
  <2> QED BY <2>1 DEF Underway, Recorded
<1> QED BY <1>1, UnderwayStart, UnderwayIntent, UnderwayLaunch, UnderwayAnswer,
           UnderwayRevocation DEF Next

\* A step that keeps the promise keeps the predecessors of retries at rest.
LEMMA RetriedStep ==
    ASSUME IInv, Custody, Retried, Next, Promised
    PROVE  Retried'
<1>1. Typed /\ CallsOK /\ EffectAfterIntent /\ Steady
  BY DEF IInv, Custody
<1>2. ASSUME NEW a \in Attempt, LifeOf(a) = "ready"
      PROVE  WorkOf(a) # "live"
  <2>1. log[a] # <<>>
    BY <1>2, LifeIs
  <2>2. HeadState(log[a]) # "ready"
    BY <1>1, <2>1, RecordRead DEF Recorded, AttemptStates, ActiveStates, RetryableStates
  <2>3. HeadState(log[a]) = "PREPARED"
    BY <1>2, <2>1, <2>2, LifeIs
  <2>4. WorkersOf(a) = {}
    BY <1>1, <2>1, <2>3 DEF Steady, EffectAfterIntent, Recorded
  <2> QED BY <2>4, WorkIs
<1>3. ASSUME NEW a \in Attempt, LifeOf(a)' \in RetryableStates
      PROVE  WorkOf(a)' # "live"
  <2>1. "active" \notin RetryableStates /\ "live" \notin Outcomes \cup {"none"}
    BY DEF RetryableStates, Outcomes
  <2> QED BY <1>2, <1>3, <2>1, PromisedMoves DEF Retried
<1>4. ASSUME NEW a \in Attempt, Settled(a), WorkOf(a) # "live"
      PROVE  Settled(a)' /\ WorkOf(a)' # "live"
  BY <1>4, PromisedMoves DEF Settled
<1>5. ASSUME NEW a \in Attempt, Underway(a)', Previous[a] \in Attempt
      PROVE  Settled(Previous[a]) /\ WorkOf(Previous[a]) # "live"
  <2>1. CASE Underway(a)
    BY <1>5, <2>1 DEF Retried
  <2>2. ASSUME NEW c \in Controller, Prepare(c, a)
        PROVE  Settled(Previous[a]) /\ WorkOf(Previous[a]) # "live"
    <3>1. PICK p \in Attempt : Previous[a] = p
      BY <1>5
    <3>2. log[p] # <<>> /\ HeadState(log[p]) \in RetryableStates
      BY <2>2, <3>1, PreviousAssumption DEF Prepare, MayFollow, Recorded
    <3>3. LifeOf(p) \in RetryableStates
      BY <3>2, LifeIs DEF RetryableStates, ActiveStates
    <3> QED BY <3>1, <3>3 DEF Settled, Retried, RetryableStates
  <2> QED BY <1>1, <1>5, <2>1, <2>2, UnderwayStep
<1>6. ASSUME NEW a \in Attempt, Underway(a)', Previous[a] \in Attempt
      PROVE  Settled(Previous[a])' /\ WorkOf(Previous[a])' # "live"
  <2>1. PICK p \in Attempt : Previous[a] = p
    BY <1>6
  <2>2. Settled(p) /\ WorkOf(p) # "live"
    BY <1>5, <1>6, <2>1
  <2>3. Settled(p)' /\ WorkOf(p)' # "live"
    BY <1>4, <2>2
  <2> QED BY <2>1, <2>3
<1> QED BY <1>3, <1>6 DEF Retried

\* One controller at a time: a retry exists only of an Attempt that left nothing
\* running which could still write.
THEOREM RetriesFollow == Sole => (Spec => []RetryAfterEffect)
<1> SUFFICES ASSUME Sole PROVE Spec => []RetryAfterEffect
  OBVIOUS
<1>1. Init => Retried
  <2> SUFFICES ASSUME Init PROVE Retried
    OBVIOUS
  <2>1. \A a \in Attempt : LifeOf(a) = "absent" /\ ~Underway(a)
    BY LifeIs DEF Init, Underway, Recorded, Idle, Preparing
  <2> QED BY <2>1 DEF Retried, RetryableStates
<1>2. IInv /\ Custody /\ Retried /\ [Next]_vars => Retried'
  <2>1. ASSUME UNCHANGED vars, Retried
        PROVE  Retried'
    <3>1. \A a \in Attempt : /\ LifeOf(a)' = LifeOf(a) /\ WorkOf(a)' = WorkOf(a)
                             /\ Underway(a)' <=> Underway(a)
      BY <2>1 DEF vars, LifeOf, WorkOf, Active, Recorded, WorkersOf, Live, Underway
    <3>2. \A a \in Attempt : Settled(a)' <=> Settled(a)
      BY <3>1 DEF Settled
    <3> QED BY <2>1, <3>1, <3>2 DEF Retried
  <2>2. ASSUME IInv, Custody, Retried, Next
        PROVE  Retried'
    BY <2>2, CustodyStep, RetriedStep
  <2> QED BY <2>1, <2>2
<1>3. Retried => RetryAfterEffect
  <2> SUFFICES ASSUME Retried, NEW a \in Attempt, Recorded(a), NEW p \in Attempt,
                      Previous[a] = p, NEW w \in WorkersOf(p), Live(w)
               PROVE  completion[p] # "none"
    BY DEF RetryAfterEffect
  <2>1. WorkOf(p) # "live"
    BY DEF Retried, Underway
  <2> QED BY <2>1, WorkIs
<1> QED BY <1>1, <1>2, <1>3, IInvHolds, CustodyHolds, PTL DEF Spec
=============================================================================
