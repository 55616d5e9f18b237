--------------------------- MODULE AttemptAdapter ---------------------------
(***************************************************************************)
(* The formal research Attempt adapter and its Codex provider              *)
(* (research_attempt_adapter/adapter.py, journal.py,                       *)
(* codex_exec_provider.py, and run_worker of codex_attempt_worker.py).     *)
(*                                                                         *)
(* Controllers are processes that call the adapter.  A call is a sequence  *)
(* of steps: one journal transaction, one provider file or one process     *)
(* effect each.  A controller may crash between any two of them, which     *)
(* loses what it holds in memory and keeps everything durable.  Workers    *)
(* are the detached processes the provider starts; they outlive the        *)
(* controller and write one terminal record.                               *)
(*                                                                         *)
(* Read of a record and the first decision taken on it are one step, and   *)
(* a record re-read after an append is read in the step of the effect      *)
(* that follows.  Custody failures of an unmodified provider directory     *)
(* (tampered launch binding, unreadable file) are left out.                *)
(***************************************************************************)
EXTENDS AttemptJournal

CONSTANTS
    Attempt,      \* Attempt identities
    Controller,   \* processes that call the adapter
    Worker,       \* worker processes that can be started: a bound on spawns
    NoAttempt,    \* no predecessor
    NoWorker,     \* no owner record, no child process
    Previous,     \* Previous[a]: the Attempt that a retries, bound in its intent
    Revocable     \* Attempts whose execution fence the operator may revoke

ASSUME PreviousAssumption ==
    /\ Previous \in [Attempt -> Attempt \cup {NoAttempt}]
    /\ NoAttempt \notin Attempt
ASSUME WorkerAssumption == NoWorker \notin Worker
ASSUME RevocableAssumption == Revocable \subseteq Attempt

VARIABLES
    log,         \* log[a]: the journal rows of a, empty before prepare
    fence,       \* fence[a]: "absent", "active" or "revoked"
    stage,       \* stage[a]: staged inputs, "none", "partial" or "whole"
    seal,        \* seal[a]: sealed artifacts, "none", "partial" or "whole"
    launch,      \* Attempts whose launch.json exists
    owner,       \* owner[a]: the worker named by worker-owner.json
    requests,    \* requests[a]: control request files present
    completion,  \* completion[a]: the terminal record, or "none"
    worker,      \* worker[w]: the Attempt it was started for and its status
    ctrl         \* ctrl[c]: where controller c is in its current call

journalVars  == <<log, fence>>
storeVars    == <<stage, seal>>
providerVars == <<launch, owner, requests, completion>>
vars == <<log, fence, stage, seal, launch, owner, requests, completion,
          worker, ctrl>>

Outcomes == {"SUCCEEDED", "FAILED", "CANCELLED", "FORCE_STOPPED"}

\* What the provider may report.  The three forms of RUNNING differ in their
\* detail code; NO_OWNER and EXITED are the two forms of UNKNOWN.
Observations ==
    Outcomes \cup {"RUNNING", "CANCEL_SEEN", "FORCE_SEEN", "NO_OWNER", "EXITED"}

Running == {"RUNNING", "CANCEL_SEEN", "FORCE_SEEN"}

\* Why an effect is unknown: the detail code of a ProviderEffectUnknownError.
Unknowns == {"launch_missing", "identity_unknown", "binding_conflict"}

Controls == {"cancel", "force_stop"}
Operations == Controls \cup {"prepare", "launch", "reconcile", "revoke"}

Steps ==
    {"idle", "staging", "insert", "no_effect", "intend", "call", "bind",
     "spawn", "claim", "reject", "unknown", "observe", "identify", "seal",
     "sealing", "record", "revoking", "recancel", "fence"}

\* The kinds of journal row and the details that tell their keys apart.
Kinds ==
    {"prepared", "no_effect", "requested", "rejected", "unknown",
     "observation", "fence_revoked"}
Details == Observations \cup Unknowns \cup {"none"}

Idle ==
    [pc |-> "idle", op |-> "reconcile", attempt |-> NoAttempt,
     state |-> "PREPARED", ref |-> FALSE, obs |-> "none",
     child |-> NoWorker, fencing |-> FALSE]

Unborn == [attempt |-> NoAttempt, status |-> "unborn"]

RowType ==
    [key : [op : Operations, kind : Kinds, detail : Details],
     state : AttemptStates, provider_ref : BOOLEAN,
     evidence_only : BOOLEAN, certainty : Certainties]

CallType ==
    [pc : Steps, op : Operations, attempt : Attempt \cup {NoAttempt},
     state : AttemptStates, ref : BOOLEAN, obs : Details,
     child : Worker \cup {NoWorker}, fencing : BOOLEAN]

StoreTypeOK ==
    /\ fence \in [Attempt -> {"absent", "active", "revoked"}]
    /\ stage \in [Attempt -> {"none", "partial", "whole"}]
    /\ seal \in [Attempt -> {"none", "partial", "whole"}]

ProviderTypeOK ==
    /\ launch \subseteq Attempt
    /\ owner \in [Attempt -> Worker \cup {NoWorker}]
    /\ requests \in [Attempt -> SUBSET Controls]
    /\ completion \in [Attempt -> Outcomes \cup {"none"}]

WorkerTypeOK ==
    /\ worker \in [Worker ->
          [attempt : Attempt \cup {NoAttempt},
           status : {"unborn", "starting", "running", "dead"}]]
    /\ \A w \in Worker : worker[w].status # "unborn" => worker[w].attempt \in Attempt

CtrlTypeOK ==
    /\ ctrl \in [Controller -> CallType]
    /\ \A c \in Controller : ctrl[c].pc # "idle" => ctrl[c].attempt \in Attempt

\* Every variable keeps its type; a call under way and a worker that was
\* started have an Attempt.
TypeOK ==
    /\ log \in [Attempt -> Seq(RowType)]
    /\ StoreTypeOK
    /\ ProviderTypeOK
    /\ WorkerTypeOK
    /\ CtrlTypeOK

Init ==
    /\ log = [a \in Attempt |-> <<>>]
    /\ fence = [a \in Attempt |-> "absent"]
    /\ stage = [a \in Attempt |-> "none"]
    /\ seal = [a \in Attempt |-> "none"]
    /\ launch = {}
    /\ owner = [a \in Attempt |-> NoWorker]
    /\ requests = [a \in Attempt |-> {}]
    /\ completion = [a \in Attempt |-> "none"]
    /\ worker = [w \in Worker |-> Unborn]
    /\ ctrl = [c \in Controller |-> Idle]
-----------------------------------------------------------------------------
(* Helpers of the calls. *)

\* Controller c starts a call of op on a, having just read a's record.
Begin(c, a, op, pc) ==
    ctrl' = [ctrl EXCEPT ![c] =
        [pc |-> pc, op |-> op, attempt |-> a,
         state |-> HeadState(log[a]), ref |-> HasProviderRef(log[a]),
         obs |-> "none", child |-> NoWorker, fencing |-> FALSE]]

\* The call of c goes on at pc; at "idle" it has returned or raised.
At(c, pc) == IF pc = "idle" THEN Idle ELSE [ctrl[c] EXCEPT !.pc = pc]
Goto(c, pc) == ctrl' = [ctrl EXCEPT ![c] = At(c, pc)]

\* The provider reports obs to the call of c.
Report(c, pc, obs) ==
    ctrl' = [ctrl EXCEPT ![c] = [ctrl[c] EXCEPT !.pc = pc, !.obs = obs]]

\* Append a row in one transaction and go on at pc.  A conflicting row raises
\* JournalConflictError out of the whole call.
Post(c, row, pc) ==
    LET a == ctrl[c].attempt IN
    /\ log' = [log EXCEPT ![a] = Appended(@, row)]
    /\ IF Conflicts(log[a], row) THEN Goto(c, "idle") ELSE Goto(c, pc)

\* A call ends; revoke_fence has one more row to append after its cancel.
Finished(c) == IF ctrl[c].fencing THEN "fence" ELSE "idle"

Recorded(a) == log[a] # <<>>
Active(a) == Recorded(a) /\ HeadState(log[a]) \in ActiveStates

\* The controls whose request is already in the journal.
Requested(a, op) == HasKey(log[a], Key(op, "requested", "none"))

Live(w) == worker[w].status \in {"starting", "running"}
WorkersOf(a) == {w \in Worker : worker[w].attempt = a}
-----------------------------------------------------------------------------
(* Preparation: the fence, the staged inputs and the first row. *)

InstallFence(a) ==
    /\ fence[a] = "absent"
    /\ fence' = [fence EXCEPT ![a] = "active"]
    /\ UNCHANGED <<log, storeVars, providerVars, worker, ctrl>>

\* A mutant: retry() forgets to look at the predecessor's state.
MayFollowAnything(a) ==
    Previous[a] \in Attempt => Recorded(Previous[a])

\* retry() demands a predecessor known to have failed or stopped.
MayFollow(a) ==
    \/ Previous[a] = NoAttempt
    \/ /\ Previous[a] \in Attempt
       /\ Recorded(Previous[a])
       /\ HeadState(log[Previous[a]]) \in RetryableStates

\* prepare() and retry(): an Attempt whose stage is whole reuses it, one whose
\* stage was left half made raises staging_collision.
Prepare(c, a) ==
    /\ ctrl[c].pc = "idle"
    /\ MayFollow(a)
    /\ fence[a] = "active"
    /\ \/ stage[a] = "none" /\ stage' = [stage EXCEPT ![a] = "partial"]
       \/ stage[a] = "whole" /\ UNCHANGED stage
    /\ ctrl' = [ctrl EXCEPT ![c] =
          [Idle EXCEPT !.pc = IF stage[a] = "whole" THEN "insert" ELSE "staging",
                       !.op = "prepare", !.attempt = a]]
    /\ UNCHANGED <<journalVars, seal, providerVars, worker>>

\* All inputs and the manifest are written.
StageDone(c) ==
    /\ ctrl[c].pc = "staging"
    /\ stage' = [stage EXCEPT ![ctrl[c].attempt] = "whole"]
    /\ Goto(c, "insert")
    /\ UNCHANGED <<journalVars, seal, providerVars, worker>>

\* An ordinary failure removes the new directory.
StageFail(c) ==
    /\ ctrl[c].pc = "staging"
    /\ stage' = [stage EXCEPT ![ctrl[c].attempt] = "none"]
    /\ Goto(c, "idle")
    /\ UNCHANGED <<journalVars, seal, providerVars, worker>>

\* create_attempt: the Attempt and its first row in one transaction, or the
\* replay of an identical Attempt.
Insert(c) ==
    /\ ctrl[c].pc = "insert"
    /\ Post(c, Row(Key("prepare", "prepared", "none"), "PREPARED", FALSE,
                   FALSE, "NONE"), "idle")
    /\ UNCHANGED <<fence, storeVars, providerVars, worker>>
-----------------------------------------------------------------------------
(* The calls on a recorded Attempt, and the intent they make durable. *)

\* dispatch(): launch a prepared Attempt under its active fence, else fence it
\* off, else reconcile what was launched before.
Dispatch(c, a) ==
    /\ ctrl[c].pc = "idle"
    /\ Recorded(a)
    /\ \/ /\ HeadState(log[a]) = "PREPARED"
          /\ Begin(c, a, "launch",
                   IF fence[a] = "active" THEN "intend" ELSE "no_effect")
       \/ /\ HeadState(log[a]) \in ActiveStates \cup {"UNKNOWN"}
          /\ Begin(c, a, "reconcile", "observe")
    /\ UNCHANGED <<journalVars, storeVars, providerVars, worker>>

\* reconcile(), alone or from recover(): never launches.
Reconcile(c, a) ==
    /\ ctrl[c].pc = "idle"
    /\ Recorded(a)
    /\ HeadState(log[a]) \in ActiveStates \cup {"UNKNOWN"}
    /\ Begin(c, a, "reconcile", "observe")
    /\ UNCHANGED <<journalVars, storeVars, providerVars, worker>>

\* Where request_cancel() and force_stop() go on after reading the record.  A
\* repeated request reconciles; UNKNOWN raises and a settled Attempt returns.
ControlStep(a, op) ==
    CASE HeadState(log[a]) = "PREPARED" -> "no_effect"
      [] Active(a) /\ ~Requested(a, op) -> "intend"
      [] Active(a) /\ Requested(a, op) -> "observe"
      [] OTHER -> "idle"

\* The operation under which the call's rows are keyed from there on.
ControlOp(a, op) == IF ControlStep(a, op) = "observe" THEN "reconcile" ELSE op

RequestControl(c, a, op) ==
    /\ ctrl[c].pc = "idle"
    /\ Recorded(a)
    /\ ControlStep(a, op) # "idle"
    /\ Begin(c, a, ControlOp(a, op), ControlStep(a, op))
    /\ UNCHANGED <<journalVars, storeVars, providerVars, worker>>

\* The row of a call that settles an Attempt which never had an effect.
NoEffectRow(op, ref) ==
    CASE op = "cancel" ->
           Row(Key(op, "no_effect", "none"), "CANCELLED", ref, FALSE, "NONE")
      [] op = "force_stop" ->
           Row(Key(op, "no_effect", "none"), "FORCE_STOPPED", ref, FALSE, "NONE")
      [] op = "launch" ->
           Row(Key(op, "no_effect", "none"), "FENCED", ref, FALSE, "NONE")
      [] OTHER ->
           Row(Key("revoke", "fence_revoked", "none"), "FENCED", ref, FALSE, "NONE")

NoEffect(c) ==
    /\ ctrl[c].pc = "no_effect"
    /\ Post(c, NoEffectRow(ctrl[c].op, ctrl[c].ref), Finished(c))
    /\ UNCHANGED <<fence, storeVars, providerVars, worker>>

\* The durable intent, appended before the provider is called.
IntentRow(op, ref) ==
    CASE op = "launch" ->
           Row(Key(op, "requested", "none"), "LAUNCH_REQUESTED", FALSE, FALSE,
               "UNKNOWN")
      [] op = "cancel" ->
           Row(Key(op, "requested", "none"), "CANCEL_REQUESTED", ref, FALSE,
               "KNOWN")
      [] OTHER ->
           Row(Key(op, "requested", "none"), "FORCE_STOP_REQUESTED", ref, FALSE,
               "KNOWN")

\* A mutant: the provider is called with no durable intent.
CallFirst(c) ==
    /\ ctrl[c].pc = "intend"
    /\ Goto(c, "call")
    /\ UNCHANGED <<journalVars, storeVars, providerVars, worker>>

Intend(c) ==
    /\ ctrl[c].pc = "intend"
    /\ Post(c, IntentRow(ctrl[c].op, ctrl[c].ref), "call")
    /\ UNCHANGED <<fence, storeVars, providerVars, worker>>
-----------------------------------------------------------------------------
(* The provider's side of a call: launch.json, the worker process and its    *)
(* owner record, the control requests and the terminal record.               *)

\* The record is read again after the intent, then the provider looks at its
\* files: a terminal record answers, an existing launch is only observed.
CallStep(a, op) ==
    CASE completion[a] # "none" -> "seal"
      [] completion[a] = "none" /\ op = "launch" /\ a \notin launch -> "bind"
      [] completion[a] = "none" /\ op # "launch" /\ a \notin launch -> "unknown"
      [] OTHER -> "observe"

CallObs(a, op) ==
    CASE CallStep(a, op) = "seal" -> completion[a]
      [] CallStep(a, op) = "unknown" -> "launch_missing"
      [] OTHER -> "none"

\* write_json_once puts the control request in place before the observation.
Call(c) ==
    LET a == ctrl[c].attempt
        op == ctrl[c].op
    IN  /\ ctrl[c].pc = "call"
        /\ ctrl' = [ctrl EXCEPT ![c] = [ctrl[c] EXCEPT
              !.pc = CallStep(a, op), !.obs = CallObs(a, op),
              !.state = HeadState(log[a]), !.ref = HasProviderRef(log[a])]]
        /\ requests' = IF op \in Controls /\ CallStep(a, op) = "observe"
                       THEN [requests EXCEPT ![a] = @ \cup {op}] ELSE requests
        /\ UNCHANGED <<journalVars, storeVars, launch, owner, completion, worker>>

\* After a launch intent the inputs are verified again: a difference raises out
\* of dispatch(), a refused execution policy is ProviderRejectedError.
VerifyFail(c) ==
    /\ ctrl[c].pc = "call" /\ ctrl[c].op = "launch"
    /\ Goto(c, "idle")
    /\ UNCHANGED <<journalVars, storeVars, providerVars, worker>>

PolicyReject(c) ==
    /\ ctrl[c].pc = "call" /\ ctrl[c].op = "launch"
    /\ Goto(c, "reject")
    /\ UNCHANGED <<journalVars, storeVars, providerVars, worker>>

\* launch.json, the same bytes whoever writes it.
Bind(c) ==
    /\ ctrl[c].pc = "bind"
    /\ launch' = launch \cup {ctrl[c].attempt}
    /\ Goto(c, "spawn")
    /\ UNCHANGED <<journalVars, storeVars, owner, requests, completion, worker>>

\* Popen of the detached worker, or OSError.
Spawn(c, w) ==
    /\ ctrl[c].pc = "spawn"
    /\ worker[w].status = "unborn"
    /\ worker' = [worker EXCEPT ![w] =
          [attempt |-> ctrl[c].attempt, status |-> "starting"]]
    /\ ctrl' = [ctrl EXCEPT ![c] = [ctrl[c] EXCEPT !.pc = "claim", !.child = w]]
    /\ UNCHANGED <<journalVars, storeVars, providerVars>>

SpawnFail(c) ==
    /\ ctrl[c].pc = "spawn"
    /\ Goto(c, "reject")
    /\ UNCHANGED <<journalVars, storeVars, providerVars, worker>>

Reject(c) ==
    /\ ctrl[c].pc = "reject"
    /\ Post(c, Row(Key("launch", "rejected", "none"), "FAILED", FALSE, FALSE,
                   "NONE"), Finished(c))
    /\ UNCHANGED <<fence, storeVars, providerVars, worker>>

\* The child's birth identity cannot be read, the process being gone or not.
IdentityUnknown(c) ==
    /\ ctrl[c].pc = "claim"
    /\ Report(c, "unknown", "identity_unknown")
    /\ UNCHANGED <<journalVars, storeVars, providerVars, worker>>

\* The provider writes worker-owner.json for its child, once: the file may
\* already name that child, and another owner is a binding conflict.
ClaimForChild(c) ==
    LET a == ctrl[c].attempt
        w == ctrl[c].child
    IN  /\ ctrl[c].pc = "claim"
        /\ IF owner[a] \in {NoWorker, w}
           THEN /\ owner' = [owner EXCEPT ![a] = w]
                /\ Report(c, "record", "RUNNING")
           ELSE /\ UNCHANGED owner
                /\ Report(c, "unknown", "binding_conflict")
        /\ UNCHANGED <<journalVars, storeVars, launch, requests, completion, worker>>

\* _observe_recorded_launch, first look: no launch, a terminal record, no owner.
Observe(c) ==
    LET a == ctrl[c].attempt IN
    /\ ctrl[c].pc = "observe"
    /\ \/ a \notin launch /\ Report(c, "unknown", "launch_missing")
       \/ /\ a \in launch /\ completion[a] # "none"
          /\ Report(c, "seal", completion[a])
       \/ /\ a \in launch /\ completion[a] = "none" /\ owner[a] = NoWorker
          /\ Report(c, "record", "NO_OWNER")
       \/ /\ a \in launch /\ completion[a] = "none" /\ owner[a] # NoWorker
          /\ Goto(c, "identify")
    /\ UNCHANGED <<journalVars, storeVars, providerVars, worker>>

\* How a running worker is reported to op.
RunningAs(op) ==
    CASE op = "cancel" -> "CANCEL_SEEN"
      [] op = "force_stop" -> "FORCE_SEEN"
      [] OTHER -> "RUNNING"

\* A mutant: the terminal record is not looked at again after the owner is
\* found dead.
IdentifyOnce(c) ==
    LET a == ctrl[c].attempt IN
    /\ ctrl[c].pc = "identify"
    /\ IF Live(owner[a]) THEN Report(c, "record", RunningAs(ctrl[c].op))
       ELSE Report(c, "record", "EXITED")
    /\ UNCHANGED <<journalVars, storeVars, providerVars, worker>>

\* The owner is alive, or it died with or without a terminal record.
Identify(c) ==
    LET a == ctrl[c].attempt IN
    /\ ctrl[c].pc = "identify"
    /\ CASE Live(owner[a]) -> Report(c, "record", RunningAs(ctrl[c].op))
         [] ~Live(owner[a]) /\ completion[a] # "none" ->
              Report(c, "seal", completion[a])
         [] OTHER -> Report(c, "record", "EXITED")
    /\ UNCHANGED <<journalVars, storeVars, providerVars, worker>>
-----------------------------------------------------------------------------
(* What the call records of the provider's answer. *)

\* A mutant: the exception is dropped and nothing is recorded.
UnknownDropped(c) ==
    /\ ctrl[c].pc = "unknown"
    /\ Goto(c, "idle")
    /\ UNCHANGED <<journalVars, storeVars, providerVars, worker>>

\* ProviderEffectUnknownError: the effect may have happened.
Unknown(c) ==
    /\ ctrl[c].pc = "unknown"
    /\ Post(c, Row(Key(ctrl[c].op, "unknown", ctrl[c].obs), "UNKNOWN",
                   ctrl[c].ref, FALSE, "UNKNOWN"), Finished(c))
    /\ UNCHANGED <<fence, storeVars, providerVars, worker>>

\* A terminal record lists artifacts, copied into the seal before the row: a
\* whole copy is verified and kept, a torn one raises ContractError.
Seal(c) ==
    LET a == ctrl[c].attempt IN
    /\ ctrl[c].pc = "seal"
    /\ \/ /\ seal[a] = "none"
          /\ seal' = [seal EXCEPT ![a] = "partial"] /\ Goto(c, "sealing")
       \/ seal[a] = "whole" /\ UNCHANGED seal /\ Goto(c, "record")
       \/ seal[a] = "partial" /\ UNCHANGED seal /\ Goto(c, "idle")
    /\ UNCHANGED <<journalVars, stage, providerVars, worker>>

SealDone(c) ==
    /\ ctrl[c].pc = "sealing"
    /\ seal' = [seal EXCEPT ![ctrl[c].attempt] = "whole"]
    /\ Goto(c, "record")
    /\ UNCHANGED <<journalVars, stage, providerVars, worker>>

\* A mutant: a late answer settles an UNKNOWN Attempt.
NeverEvidence(state) == FALSE

\* Once UNKNOWN or FENCED, observations are evidence and move nothing.
EvidenceOnly(state) == state \in {"UNKNOWN", "FENCED"}

\* The state an observation gives an Attempt whose record was read as `state`.
StateAfter(state, obs) ==
    CASE EvidenceOnly(state) -> state
      [] ~EvidenceOnly(state) /\ obs \in Outcomes -> obs
      [] ~EvidenceOnly(state) /\ obs \in Running ->
           IF state \in {"CANCEL_REQUESTED", "FORCE_STOP_REQUESTED"}
           THEN state ELSE "RUNNING"
      [] OTHER -> "UNKNOWN"

\* The row of _apply_observation, keyed by operation and observation digest.
ObservationRow(c) ==
    LET obs == ctrl[c].obs IN
    Row(Key(ctrl[c].op, "observation", obs), StateAfter(ctrl[c].state, obs),
        TRUE, EvidenceOnly(ctrl[c].state),
        IF obs \in Outcomes \cup Running THEN "KNOWN" ELSE "UNKNOWN")

Record(c) ==
    /\ ctrl[c].pc = "record"
    /\ Post(c, ObservationRow(c), Finished(c))
    /\ UNCHANGED <<fence, storeVars, providerVars, worker>>
-----------------------------------------------------------------------------
(* Revocation of an execution fence, the crash, and the workers. *)

RevokeFence(c, a) ==
    /\ ctrl[c].pc = "idle"
    /\ a \in Revocable
    /\ fence[a] # "absent"
    /\ fence' = [fence EXCEPT ![a] = "revoked"]
    /\ ctrl' = [ctrl EXCEPT ![c] =
          [Idle EXCEPT !.pc = "revoking", !.op = "revoke", !.attempt = a]]
    /\ UNCHANGED <<log, storeVars, providerVars, worker>>

\* The Attempt bound to the revoked fence, by the state it is listed in.
RevokeAttempt(c) ==
    LET a == ctrl[c].attempt IN
    /\ ctrl[c].pc = "revoking"
    /\ \/ Recorded(a) /\ HeadState(log[a]) = "PREPARED" /\ Begin(c, a, "revoke", "no_effect")
       \/ Active(a) /\ Goto(c, "recancel")
       \/ /\ ~Active(a)
          /\ Recorded(a) => HeadState(log[a]) # "PREPARED"
          /\ Goto(c, "idle")
    /\ UNCHANGED <<journalVars, storeVars, providerVars, worker>>

\* request_cancel() from revoke_fence(), which reads the record again.  On an
\* UNKNOWN Attempt it raises; on a settled one it returns and the row follows.
Recancel(c) ==
    LET a == ctrl[c].attempt
        step == ControlStep(a, "cancel")
    IN  /\ ctrl[c].pc = "recancel"
        /\ ctrl' = [ctrl EXCEPT ![c] =
              IF step = "idle" /\ HeadState(log[a]) = "UNKNOWN" THEN Idle
              ELSE [pc |-> IF step = "idle" THEN "fence" ELSE step,
                    op |-> ControlOp(a, "cancel"), attempt |-> a,
                    state |-> HeadState(log[a]), ref |-> HasProviderRef(log[a]),
                    obs |-> "none", child |-> NoWorker, fencing |-> TRUE]]
        /\ UNCHANGED <<journalVars, storeVars, providerVars, worker>>

\* fenced_after_effect, with the handle of the record the cancel returned.
FenceAfter(c) ==
    /\ ctrl[c].pc = "fence"
    /\ Post(c, Row(Key("revoke", "fence_revoked", "none"), "FENCED",
                   HasProviderRef(log[ctrl[c].attempt]), FALSE, "KNOWN"), "idle")
    /\ UNCHANGED <<fence, storeVars, providerVars, worker>>

\* The controller's process is gone; what it held in memory is lost.
Crash(c) ==
    /\ ctrl[c].pc # "idle"
    /\ Goto(c, "idle")
    /\ UNCHANGED <<journalVars, storeVars, providerVars, worker>>

\* A mutant: the worker takes the owner record over instead of writing it once.
ClaimTakenOver(w) ==
    LET a == worker[w].attempt IN
    /\ worker[w].status = "starting"
    /\ owner' = [owner EXCEPT ![a] = w]
    /\ worker' = [worker EXCEPT ![w].status = "running"]
    /\ UNCHANGED <<journalVars, storeVars, launch, requests, completion, ctrl>>

\* A new worker writes worker-owner.json once, before it starts its app server;
\* another owner ends it.
WorkerClaim(w) ==
    LET a == worker[w].attempt IN
    /\ worker[w].status = "starting"
    /\ IF owner[a] \in {NoWorker, w}
       THEN /\ owner' = [owner EXCEPT ![a] = w]
            /\ worker' = [worker EXCEPT ![w].status = "running"]
       ELSE /\ UNCHANGED owner
            /\ worker' = [worker EXCEPT ![w].status = "dead"]
    /\ UNCHANGED <<journalVars, storeVars, launch, requests, completion, ctrl>>

\* What the monitor thread's control polling lets the terminal record say.
Reportable(a) ==
    {"SUCCEEDED", "FAILED"}
        \cup (IF "cancel" \in requests[a] THEN {"CANCELLED"} ELSE {})
        \cup (IF requests[a] # {} THEN {"FORCE_STOPPED"} ELSE {})

\* A mutant: the terminal record is written over an earlier one.
FinishAgain(w, o) ==
    LET a == worker[w].attempt IN
    /\ worker[w].status = "running"
    /\ o \in Reportable(a)
    /\ completion' = [completion EXCEPT ![a] = o]
    /\ UNCHANGED <<journalVars, storeVars, launch, owner, requests, worker, ctrl>>

\* The app server is over and completion.json is written, once.
WorkerFinish(w, o) ==
    LET a == worker[w].attempt IN
    /\ worker[w].status = "running"
    /\ completion[a] = "none"
    /\ o \in Reportable(a)
    /\ completion' = [completion EXCEPT ![a] = o]
    /\ UNCHANGED <<journalVars, storeVars, launch, owner, requests, worker, ctrl>>

\* The worker's process ends, after its record or without one.
WorkerExit(w) ==
    /\ Live(w)
    /\ worker' = [worker EXCEPT ![w].status = "dead"]
    /\ UNCHANGED <<journalVars, storeVars, providerVars, ctrl>>
-----------------------------------------------------------------------------
(* The specification.  Calls start a controller's sequence of steps; Advance  *)
(* takes the next of them.                                                    *)

Start(c, a) ==
    \/ Prepare(c, a)
    \/ Dispatch(c, a)
    \/ Reconcile(c, a)
    \/ \E op \in Controls : RequestControl(c, a, op)
    \/ RevokeFence(c, a)

\* Preparation, and the journal's part of a call before the provider's.
AdvanceIntent(c) ==
    \/ StageDone(c)
    \/ StageFail(c)
    \/ Insert(c)
    \/ NoEffect(c)
    \/ Intend(c)

AdvanceLaunch(c) ==
    \/ Call(c)
    \/ VerifyFail(c)
    \/ PolicyReject(c)
    \/ Bind(c)
    \/ \E w \in Worker : Spawn(c, w)
    \/ SpawnFail(c)
    \/ Reject(c)
    \/ IdentityUnknown(c)
    \/ ClaimForChild(c)

AdvanceAnswer(c) ==
    \/ Observe(c)
    \/ Identify(c)
    \/ Unknown(c)
    \/ Seal(c)
    \/ SealDone(c)
    \/ Record(c)

AdvanceRevocation(c) ==
    \/ RevokeAttempt(c)
    \/ Recancel(c)
    \/ FenceAfter(c)

WorkerStep(w) ==
    \/ WorkerClaim(w)
    \/ \E o \in Outcomes : WorkerFinish(w, o)
    \/ WorkerExit(w)

Next ==
    \/ \E a \in Attempt : InstallFence(a)
    \/ \E c \in Controller, a \in Attempt : Start(c, a)
    \/ \E c \in Controller :
          \/ AdvanceIntent(c)
          \/ AdvanceLaunch(c)
          \/ AdvanceAnswer(c)
          \/ AdvanceRevocation(c)
          \/ Crash(c)
    \/ \E w \in Worker : WorkerStep(w)

Spec == Init /\ [][Next]_vars

\* The caller repeats reconcile() for as long as the Attempt is active, and a
\* crash does not hit the same step of every one of those calls.
FairSpec ==
    /\ Spec
    /\ \A c \in Controller :
          /\ WF_vars(AdvanceIntent(c) \/ AdvanceLaunch(c) \/ AdvanceRevocation(c)
                        \/ SealDone(c))
          /\ \A a \in Attempt : SF_vars(Reconcile(c, a))
          /\ SF_vars(Observe(c))
          /\ SF_vars(Identify(c))
          /\ SF_vars(Unknown(c))
          /\ SF_vars(Seal(c))
          /\ SF_vars(Record(c))
-----------------------------------------------------------------------------
(* Properties that hold whatever the number of controllers.                  *)

\* No launch binding, worker process or control request exists whose intent is
\* not already a row of the journal ("the exact mutable boundaries are
\* reverified after the effect intent is durable", dispatch()).
EffectAfterIntent ==
    \A a \in Attempt :
        /\ a \in launch \/ WorkersOf(a) # {} => Requested(a, "launch")
        /\ \A op \in requests[a] : Requested(a, op)

\* However many workers were spawned for an Attempt, by whatever controllers,
\* one at most got past worker-owner.json to run an app server.
OneAppServer ==
    \A v, w \in Worker :
        /\ worker[v].status = "running" /\ worker[w].status = "running"
        /\ worker[v].attempt = worker[w].attempt
        => v = w

\* A terminal observation in the journal, trusted or evidence only, is the
\* terminal record: two calls never journal two different outcomes.
AgreedOutcome ==
    \A a \in Attempt : \A i \in DOMAIN log[a] :
        log[a][i].key.kind = "observation" /\ log[a][i].key.detail \in Outcomes
            => completion[a] = log[a][i].key.detail

\* "exited without terminal record" is journalled only of an Attempt that has
\* no terminal record and never will have one: no worker of it still runs.
ExitedWithoutRecord ==
    \A a \in Attempt : \A i \in DOMAIN log[a] :
        log[a][i].key.kind = "observation" /\ log[a][i].key.detail = "EXITED"
            => /\ completion[a] = "none"
               /\ \A w \in WorkersOf(a) : worker[w].status # "running"
-----------------------------------------------------------------------------
(* Properties of one controller at a time, the custody the Session owner has. *)

\* A retry exists only of an Attempt whose effect is over: none of the
\* predecessor's workers can still write to its custody.
RetryAfterEffect ==
    \A a \in Attempt :
        Recorded(a) /\ Previous[a] \in Attempt =>
            \A w \in WorkersOf(Previous[a]) :
                Live(w) => completion[Previous[a]] # "none"

\* What a caller is still to reconcile: an active Attempt with no live worker,
\* unless a crash tore its seal, which the code leaves for good.
Unsettled ==
    {a \in Attempt :
        Active(a) /\ seal[a] # "partial" /\ ~\E w \in WorkersOf(a) : Live(w)}

\* Reconciliation settles what was begun.
EventuallySettled == Unsettled # {} ~> Unsettled = {}
=============================================================================
