---------------------------- MODULE FormalAttempt ----------------------------
(***************************************************************************)
(* The formal Attempt controller (mission_attempt_runtime.py) over one     *)
(* formal Session (formal_session.py): which Attempt a call works on, when *)
(* it may start an effect, what it keeps of the result, and when a result  *)
(* closes the Session.                                                     *)
(*                                                                         *)
(* Processes make calls of execute_formal_attempt_operation; one can stop  *)
(* at any step, by an exception or by dying, and everything durable stays. *)
(* The Session lives in the Workspace Store, the Attempts in the adapter's *)
(* journal and their work in detached workers, so every check of one is    *)
(* stale when the other is used.  The adapter is taken at the level of     *)
(* AttemptPromise; FAILED, CANCELLED and FORCE_STOPPED, which the          *)
(* controller never tells apart, are STOPPED.  No caller revokes a fence,  *)
(* so FENCED does not occur.                                               *)
(***************************************************************************)
EXTENDS Naturals, Sequences, FiniteSets, SequencesExt

CONSTANTS
    Process,      \* bridge processes that run a call
    Basis,        \* correction bases an explicit retry may name
    NoBasis,      \* the call names none
    MaxEpochs,    \* bound: Executive Epochs
    MaxRetries,   \* bound: Attempts in one lineage after the first
    MaxFaults,    \* bound: calls that stop
    MaxSetbacks   \* bound: Attempts recorded under a clock set back

ASSUME BasisAssumption == NoBasis \notin Basis
ASSUME BoundAssumption ==
    {MaxEpochs, MaxRetries, MaxFaults, MaxSetbacks} \subseteq Nat /\ MaxEpochs > 0

VARIABLES
    epoch,     \* the last Executive Epoch authorized; the Store's writer is its
    active,    \* it has not ended
    asked,     \* the Strategy head still holds the formal request
    session,   \* the head of the Session
    attempt,   \* attempt[i]: the journal's record of Attempt i
    listed,    \* the Attempts in the order list_attempts gives them
    captures,  \* raw captures of Attempt results
    ctrl,      \* ctrl[p]: where process p is in its call
    faults,    \* calls that stopped
    setbacks   \* times the clock was set back

storeVars == <<epoch, active, asked, session, captures>>
journalVars == <<attempt, listed, setbacks>>
vars == <<epoch, active, asked, session, attempt, listed, captures, ctrl,
          faults, setbacks>>

\* An Attempt's identity is a digest of its predecessor and its basis: the
\* sequence of the bases that led to it.
Identity == UNION {[1 .. n -> Basis] : n \in 0 .. MaxRetries}
First == <<>>
BasisOf(i) == IF i = First THEN NoBasis ELSE Last(i)

States == {"PREPARED", "ACTIVE", "SUCCEEDED", "STOPPED", "UNKNOWN"}
Settled == {"SUCCEEDED", "STOPPED"}

\* What the worker left: nothing, deliverables, or scratch files alone.
Outputs == {"none", "declared", "scratch"}

\* A result is known by its digest: the state and the rows of the history.
Result == [state : States, rows : 0 .. 2, output : Outputs]
NoResult == [state |-> "PREPARED", rows |-> 0, output |-> "none"]

Records ==
    [epoch : 1 .. MaxEpochs, state : States, rows : 0 .. 2,
     work : {"none", "live", "lost"} \cup Settled, output : Outputs]

NoBinding == [attempt |-> First, result |-> NoResult, capture |-> 0]
Bindings == [attempt : Identity, result : Result, capture : 0 .. MaxEpochs]

Steps ==
    {"idle", "create", "read", "select", "prepare", "insert", "control",
     "dispatch", "launch", "spawn", "settle", "reconcile", "record", "verify",
     "capture", "terminate"}

Idle ==
    [pc |-> "idle", epoch |-> 0, basis |-> NoBasis, attempt |-> First,
     head |-> [life |-> "none", bound |-> NoBinding],
     result |-> NoResult, capture |-> 0]

Heads == [life : {"none", "open", "terminal"}, bound : Bindings]

\* Every variable keeps its type, and the listing holds each Attempt once.
TypeOK ==
    /\ epoch \in 1 .. MaxEpochs /\ active \in BOOLEAN /\ asked \in BOOLEAN
    /\ session \in Heads
    /\ DOMAIN attempt \subseteq Identity
    /\ \A i \in DOMAIN attempt : attempt[i] \in Records
    /\ IsInjective(listed) /\ Range(listed) = DOMAIN attempt
    /\ \A c \in captures :
          c \in [attempt : DOMAIN attempt, result : Result,
                 epoch : 1 .. MaxEpochs, accepted : BOOLEAN]
    /\ \A p \in Process :
          ctrl[p] \in [pc : Steps, epoch : 0 .. MaxEpochs,
                       basis : Basis \cup {NoBasis}, attempt : Identity,
                       head : Heads, result : Result, capture : 0 .. MaxEpochs]
    /\ faults \in 0 .. MaxFaults /\ setbacks \in 0 .. MaxSetbacks

Init ==
    /\ epoch = 1 /\ active = TRUE /\ asked = TRUE
    /\ session = [life |-> "none", bound |-> NoBinding]
    /\ attempt = <<>> /\ listed = <<>>
    /\ captures = {}
    /\ ctrl = [p \in Process |-> Idle]
    /\ faults = 0 /\ setbacks = 0
-----------------------------------------------------------------------------
(* Helpers of the calls. *)

Goto(p, pc) == ctrl' = [ctrl EXCEPT ![p].pc = pc]

\* The call returns or raises.
Leave(p) == ctrl' = [ctrl EXCEPT ![p] = Idle]

\* The call goes on at pc if the condition holds, and raises if it does not.
GoOnIf(p, condition, pc) == IF condition THEN Goto(p, pc) ELSE Leave(p)

\* The call goes on at pc with Attempt i, and with nothing else it has read.
TakeUp(p, i, pc) ==
    ctrl' = [ctrl EXCEPT ![p] =
        [Idle EXCEPT !.pc = pc, !.epoch = ctrl[p].epoch, !.attempt = i]]

\* _assert_active_authority: the Epoch of the call is the active one.
Authorized(p) == active /\ ctrl[p].epoch = epoch

Recorded(i) == i \in DOMAIN attempt
Mine(p) == attempt[ctrl[p].attempt]
-----------------------------------------------------------------------------
(* Around the calls: Epochs, the Strategy, the workers. *)

EndEpoch ==
    /\ active /\ active' = FALSE
    /\ UNCHANGED <<epoch, asked, session, captures, journalVars, ctrl, faults>>

\* The next Epoch is authorized with a new writer: older leases are stale.
BeginEpoch ==
    /\ ~active /\ epoch < MaxEpochs
    /\ epoch' = epoch + 1 /\ active' = TRUE
    /\ UNCHANGED <<asked, session, captures, journalVars, ctrl, faults>>

\* The Strategy is revised and no longer asks for this formal work.
Withdraw ==
    /\ active /\ asked /\ asked' = FALSE
    /\ UNCHANGED <<epoch, active, session, captures, journalVars, ctrl, faults>>

\* A worker ends with an outcome and its files, or is lost.
WorkEnds(i) ==
    /\ attempt[i].work = "live"
    /\ \E end \in Settled \cup {"lost"}, output \in Outputs :
          /\ end = "lost" => output = "none"
          /\ attempt' = [attempt EXCEPT ![i].work = end, ![i].output = output]
    /\ UNCHANGED <<storeVars, listed, setbacks, ctrl, faults>>

\* The call stops here: a busy Store, a failed verification, or a crash.
Stop(p) ==
    /\ ctrl[p].pc # "idle" /\ faults < MaxFaults
    /\ faults' = faults + 1
    /\ Leave(p)
    /\ UNCHANGED <<storeVars, journalVars>>
-----------------------------------------------------------------------------
(* execute_formal_attempt_operation: the Session and the Attempt. *)

\* The request must be current when the call starts.
Call(p, basis) ==
    /\ ctrl[p].pc = "idle"
    /\ active /\ asked
    /\ ctrl' = [ctrl EXCEPT ![p] =
          [Idle EXCEPT !.pc = "create", !.epoch = epoch, !.basis = basis]]
    /\ UNCHANGED <<storeVars, journalVars, faults>>

\* The Session is created once; a later commit of the same request is a no-op.
Create(p) ==
    /\ ctrl[p].pc = "create"
    /\ LET new == session.life = "none"
           allowed == Authorized(p) /\ (new => asked)
       IN  /\ session' = IF allowed /\ new THEN [session EXCEPT !.life = "open"]
                         ELSE session
           /\ GoOnIf(p, allowed, "read")
    /\ UNCHANGED <<epoch, active, asked, captures, journalVars, faults>>

\* A closed Session answers only the action that closed it.
Read(p) ==
    /\ ctrl[p].pc = "read"
    /\ IF session.life = "terminal"
       THEN LET i == session.bound.attempt IN
            IF BasisOf(i) = ctrl[p].basis
            THEN TakeUp(p, i, "settle")
            ELSE Leave(p)
       ELSE Goto(p, "select")
    /\ UNCHANGED <<storeVars, journalVars, faults>>

\* _selected_attempt_lineage: no basis means the first Attempt; the basis of
\* the latest Attempt means that Attempt; another basis means its successor.
Lineage(basis) ==
    CASE basis = NoBasis -> First
      [] basis # NoBasis /\ BasisOf(Last(listed)) = basis -> Last(listed)
      [] OTHER -> Append(Last(listed), basis)

Select(p) ==
    /\ ctrl[p].pc = "select"
    /\ LET basis == ctrl[p].basis IN
       IF /\ basis # NoBasis => listed # <<>>
          /\ Lineage(basis) \in Identity
       THEN TakeUp(p, Lineage(basis), "prepare")
       ELSE Leave(p)
    /\ UNCHANGED <<storeVars, journalVars, faults>>

\* prepare_formal_attempt: authority and an open head, before the journal.
Prepare(p) ==
    /\ ctrl[p].pc = "prepare"
    /\ GoOnIf(p, Authorized(p) /\ session.life = "open", "insert")
    /\ UNCHANGED <<storeVars, journalVars, faults>>

\* A mutant: an unknown effect may be followed too.
MayFollowUnknown(i) ==
    i # First =>
        /\ Recorded(Front(i))
        /\ attempt[Front(i)].state \in {"STOPPED", "UNKNOWN"}

\* adapter.retry(): only a known failure or stop has a successor.
MayFollow(i) ==
    i # First =>
        /\ Recorded(Front(i))
        /\ attempt[Front(i)].state = "STOPPED"

\* create_attempt: an Attempt's intent names the Epoch that authorized it.
SameIntent(p) == Mine(p).epoch = ctrl[p].epoch

\* Where a new Attempt is listed: last, or earlier if the clock was set back.
Places == IF setbacks < MaxSetbacks THEN 1 .. Len(listed) + 1
          ELSE {Len(listed) + 1}

\* The record is created, or replayed if its intent is the same.
Insert(p) ==
    LET i == ctrl[p].attempt IN
    /\ ctrl[p].pc = "insert"
    /\ IF MayFollow(i) /\ ~Recorded(i)
       THEN /\ attempt' = [j \in DOMAIN attempt \cup {i} |->
                  IF j = i THEN [epoch |-> ctrl[p].epoch, state |-> "PREPARED",
                                 rows |-> 0, work |-> "none", output |-> "none"]
                  ELSE attempt[j]]
            /\ \E at \in Places :
                  /\ listed' = InsertAt(listed, at, i)
                  /\ setbacks' = setbacks + (IF at <= Len(listed) THEN 1 ELSE 0)
       ELSE UNCHANGED journalVars
    /\ GoOnIf(p, MayFollow(i) /\ (Recorded(i) => SameIntent(p)), "control")
    /\ UNCHANGED <<storeVars, faults>>
-----------------------------------------------------------------------------
(* The effect. *)

\* _apply_requested_control: if SIGINT, SIGTERM or SIGUSR2 has come, a prepared
\* Attempt is stopped before it starts; the stop of a running one is the
\* adapter's affair and leads on to "settle".
Control(p) ==
    LET i == ctrl[p].attempt IN
    /\ ctrl[p].pc = "control"
    /\ \/ /\ attempt[i].state = "PREPARED"
          /\ attempt' = [attempt EXCEPT ![i].state = "STOPPED", ![i].rows = 1]
          /\ Goto(p, "settle")
       \/ /\ UNCHANGED attempt
          /\ Goto(p, IF attempt[i].state = "PREPARED" THEN "dispatch"
                     ELSE "settle")
    /\ UNCHANGED <<storeVars, listed, setbacks, faults>>

\* dispatch_formal_attempt: authority and an open head, before the effect.
Dispatch(p) ==
    /\ ctrl[p].pc = "dispatch"
    /\ GoOnIf(p, Authorized(p) /\ session.life = "open", "launch")
    /\ UNCHANGED <<storeVars, journalVars, faults>>

\* adapter.dispatch(): the intent is durable first; another process may have
\* launched the Attempt or given it up since.
Launch(p) ==
    LET i == ctrl[p].attempt
        prepared == attempt[i].state = "PREPARED"
    IN  /\ ctrl[p].pc = "launch"
        /\ attempt' = IF prepared THEN [attempt EXCEPT ![i].state = "ACTIVE"]
                      ELSE attempt
        /\ Goto(p, IF prepared THEN "spawn" ELSE "settle")
        /\ UNCHANGED <<storeVars, listed, setbacks, faults>>

\* The worker starts; the provider may not be able to say that it did.
Start(p) ==
    LET i == ctrl[p].attempt IN
    /\ ctrl[p].pc = "spawn"
    /\ \E state \in {attempt[i].state, "UNKNOWN"} :
          attempt' = [attempt EXCEPT ![i].work = "live", ![i].state = state]
    /\ Goto(p, "settle")
    /\ UNCHANGED <<storeVars, listed, setbacks, faults>>

\* The provider refuses: a failure known to have had no effect.
Reject(p) ==
    /\ ctrl[p].pc = "spawn"
    /\ attempt' = [attempt EXCEPT ![ctrl[p].attempt].state = "STOPPED",
                                  ![ctrl[p].attempt].rows = 1]
    /\ Goto(p, "settle")
    /\ UNCHANGED <<storeVars, listed, setbacks, faults>>
-----------------------------------------------------------------------------
(* reconcile_and_settle_formal_attempt. *)

\* The Session head is read first, and used after everything below.
Settle(p) ==
    /\ ctrl[p].pc = "settle"
    /\ ctrl' = [ctrl EXCEPT ![p].pc = "reconcile", ![p].head = session]
    /\ UNCHANGED <<storeVars, journalVars, faults>>

\* adapter.reconcile() reads the record; a settled one is returned as it is.
Reconcile(p) ==
    /\ ctrl[p].pc = "reconcile"
    /\ Goto(p, IF Mine(p).state \in {"ACTIVE", "UNKNOWN"} THEN "record"
               ELSE "verify")
    /\ UNCHANGED <<storeVars, journalVars, faults>>

\* What a look at the provider makes of an active Attempt.  A provider that
\* raises leaves it UNKNOWN, whatever its worker does.
Observed(i) ==
    CASE attempt[i].work = "live" -> {"ACTIVE", "UNKNOWN"}
      [] attempt[i].work \in Settled -> {attempt[i].work, "UNKNOWN"}
      [] OTHER -> {"UNKNOWN"}

\* The rows of the history that can differ between two results: a row with an
\* outcome, and one more that a second process adds under a key of its own.
RowsAfter(i) ==
    CASE attempt[i].state \in Settled -> {attempt[i].rows, 2}
      [] attempt[i].state \notin Settled /\ attempt[i].work \in Settled ->
            {attempt[i].rows, 1}
      [] OTHER -> {attempt[i].rows}

\* The observation settles an active Attempt; one known as UNKNOWN, or settled
\* by another process in the meantime, only gains a row.
Record(p) ==
    LET i == ctrl[p].attempt
        seen == attempt[i].state
    IN  /\ ctrl[p].pc = "record"
        /\ \E rows \in RowsAfter(i), state \in Observed(i) :
              /\ seen = "ACTIVE" => (rows = 1 <=> state \in Settled)
              /\ attempt' = [attempt EXCEPT ![i].rows = rows,
                    ![i].state = IF seen = "ACTIVE" THEN state ELSE seen]
        /\ Goto(p, "verify")
        /\ UNCHANGED <<storeVars, listed, setbacks, faults>>

\* verify_result: an active Attempt has no sealed artifacts yet.
ResultOf(i) ==
    [state |-> attempt[i].state, rows |-> attempt[i].rows,
     output |-> IF attempt[i].rows = 0 THEN "none" ELSE attempt[i].output]

Verify(p) ==
    /\ ctrl[p].pc = "verify"
    /\ LET result == ResultOf(ctrl[p].attempt) IN
       ctrl' = [ctrl EXCEPT ![p].result = result,
          ![p].pc = IF result.output = "none" THEN "terminate" ELSE "capture"]
    /\ UNCHANGED <<storeVars, journalVars, faults>>

\* exact_terminal_replay: the head read first is closed by this very result.
ExactReplay(p) ==
    /\ ctrl[p].head.life = "terminal"
    /\ ctrl[p].head.bound.attempt = ctrl[p].attempt
    /\ ctrl[p].head.bound.result = ctrl[p].result

\* accept_trusted and a declared output: accepted, else evidence only.
Accepts(p) ==
    /\ ctrl[p].head.life = "open" \/ ExactReplay(p)
    /\ ctrl[p].result.state \in Settled
    /\ ctrl[p].result.output = "declared"

CaptureOf(p) ==
    [attempt |-> ctrl[p].attempt, result |-> ctrl[p].result,
     epoch |-> ctrl[p].epoch, accepted |-> Accepts(p)]

SameObservation(c, d) == c.attempt = d.attempt /\ c.result = d.result

\* The raw capture: identified by the observation, it holds the Epoch too, and
\* the Store refuses other facts under an identity it has.  The writer lease
\* is that of the call's Epoch.
Capture(p) ==
    LET new == CaptureOf(p)
        old == {c \in captures : SameObservation(c, new)}
        allowed == ctrl[p].epoch = epoch /\ old \subseteq {new}
    IN  /\ ctrl[p].pc = "capture"
        /\ captures' = IF allowed THEN captures \cup {new} ELSE captures
        /\ IF allowed
           THEN ctrl' = [ctrl EXCEPT ![p].pc = "terminate",
                                     ![p].capture = ctrl[p].epoch]
           ELSE Leave(p)
        /\ UNCHANGED <<epoch, active, asked, session, journalVars, faults>>

\* A mutant: a known failure closes the Session too.
MaySettleStopped(p) ==
    \/ ExactReplay(p)
    \/ ctrl[p].head.life = "open" /\ ctrl[p].result.state \in Settled

\* A mutant: a success without deliverables does not close the Session.
MaySettleDeclared(p) ==
    \/ ExactReplay(p)
    \/ /\ ctrl[p].head.life = "open"
       /\ ctrl[p].result.state = "SUCCEEDED"
       /\ Accepts(p)

\* may_settle: a success with its deliverables, or with nothing at all.
MaySettle(p) ==
    \/ ExactReplay(p)
    \/ /\ ctrl[p].head.life = "open"
       /\ ctrl[p].result.state = "SUCCEEDED"
       /\ ctrl[p].result.output # "none" => Accepts(p)

Binding(p) ==
    [attempt |-> ctrl[p].attempt, result |-> ctrl[p].result,
     capture |-> ctrl[p].capture]

\* terminate_formal_session: one transition, from the head as it is now.
Closes(p) == Authorized(p) /\ session.life = "open"

\* A call goes on polling while the Attempt is active, not while it is UNKNOWN.
Polls(p) == ctrl[p].result.state = "ACTIVE"

Terminate(p) ==
    /\ ctrl[p].pc = "terminate"
    /\ session' = IF MaySettle(p) /\ Closes(p)
                  THEN [life |-> "terminal", bound |-> Binding(p)] ELSE session
    /\ IF Polls(p)
       THEN TakeUp(p, ctrl[p].attempt, "control")
       ELSE Leave(p)
    /\ UNCHANGED <<epoch, active, asked, captures, journalVars, faults>>
-----------------------------------------------------------------------------
Step(p) ==
    \/ Create(p) \/ Read(p) \/ Select(p) \/ Prepare(p) \/ Insert(p)
    \/ Control(p) \/ Dispatch(p) \/ Launch(p) \/ Start(p) \/ Reject(p)
    \/ Settle(p) \/ Reconcile(p) \/ Record(p) \/ Verify(p) \/ Capture(p)
    \/ Terminate(p)

Next ==
    \/ EndEpoch \/ BeginEpoch \/ Withdraw
    \/ \E i \in DOMAIN attempt : WorkEnds(i)
    \/ \E p \in Process :
          \/ Step(p) \/ Stop(p)
          \/ \E b \in Basis \cup {NoBasis} : Call(p, b)

Spec == Init /\ [][Next]_vars

\* The Mission repeats the action of the latest Attempt it asked for.
Repeat == \E p \in Process : listed # <<>> /\ Call(p, BasisOf(Last(listed)))

Fairness ==
    /\ \A p \in Process : WF_vars(Step(p))
    /\ WF_vars(\E i \in DOMAIN attempt : WorkEnds(i))
    /\ SF_vars(Repeat)

FairSpec == Spec /\ Fairness
-----------------------------------------------------------------------------
(* Properties. *)

\* What a correction corrects is over: of an Attempt and its predecessors only
\* the last may still have an effect, whatever the order of corrections, repeated
\* calls and crashes, and whatever the clock does.  Two calls that correct the same
\* failure on different bases do make two Attempts that may run at once
\* (mission_attempt_runtime.py:912, adapter.py:178).
OneOpenInLineage ==
    \A i, j \in DOMAIN attempt :
        IsStrictPrefix(i, j) => attempt[i].state = "STOPPED"

\* A closed Session binds an Attempt that did succeed, and if that left files,
\* the capture of exactly this result, with its deliverables accepted
\* (formal_session.py:1145, mission_attempt_runtime.py:1600).
ClosedByTheResult ==
    session.life = "terminal" =>
        LET b == session.bound IN
        /\ attempt[b.attempt].state = "SUCCEEDED"
        /\ attempt[b.attempt].work = "SUCCEEDED"
        /\ \/ b.result.output = "none"
           \/ \E c \in captures :
                 /\ c.attempt = b.attempt /\ c.result = b.result
                 /\ c.accepted /\ c.epoch = b.capture

\* The effect of an Attempt starts only while its Session is open: "A new provider
\* effect cannot begin after the formal Session is terminal"
\* (mission_attempt_runtime.py:1237).  The head is read before the adapter is
\* called, and the two are not one step.
NoEffectAfterClose ==
    [][\A i \in DOMAIN attempt :
          attempt[i].work = "none" /\ attempt'[i].work = "live"
              => session.life = "open"]_vars

\* What does hold of a stale head: once a result has closed the Session, nothing
\* starts in its line of corrections, neither that Attempt again nor one it
\* corrects nor one that corrects it (mission_attempt_runtime.py:1345).
NoEffectInClosedLineage ==
    [][\A i \in DOMAIN attempt :
          (/\ session.life = "terminal"
           /\ attempt[i].work = "none" /\ attempt'[i].work = "live")
              => /\ ~IsPrefix(i, session.bound.attempt)
                 /\ ~IsPrefix(session.bound.attempt, i)]_vars

Succeeded(i) == attempt[i].state = "SUCCEEDED"

\* What may keep a success from closing its Session for good: its Epoch ended,
\* the request was withdrawn, a clock set back lists another Attempt as the
\* latest, or it wrote scratch files alone.
Stranded(i) ==
    \/ ~active \/ attempt[i].epoch # epoch
    \/ ~asked
    \/ Last(listed) # i
    \/ attempt[i].output = "scratch"

\* If the action is repeated, a success closes the Session, whatever stopped
\* the calls before; the exceptions are the code's own
\* (mission_attempt_runtime.py:1594).
SuccessCloses ==
    (\E i \in DOMAIN attempt : Succeeded(i))
        ~> \/ session.life = "terminal"
           \/ \E i \in DOMAIN attempt : Succeeded(i) /\ Stranded(i)

=============================================================================
