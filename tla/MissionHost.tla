---------------------------- MODULE MissionHost ----------------------------
(***************************************************************************)
(* The RH Mission Host (mission-host.ts) driving Executive Epochs over the *)
(* three durable places a crash can leave out of step: its own state file, *)
(* the Mission Store's chain of Epoch events (mission_interface.py) and    *)
(* the Codex threads it drives through one App Server boundary             *)
(* (boundary.ts).  A process may die between any two of their effects; the *)
(* next one starts from what they hold.                                    *)
(*                                                                         *)
(* One Host runs at a time (the runtime lock).  Its research loop is one   *)
(* lane, `pc`; the checkpoint call of the running Goal is another, `tool`. *)
(* A procedure that several callers await (containActive, suspendActive,   *)
(* reconcileUnmaterializedStart) is a sequence of steps, and `job` holds   *)
(* what it was called with and where its caller goes on.                   *)
(*                                                                         *)
(* Left out: explicit force-stop, the Mission fence, delegated grants and  *)
(* material capture, the checkpoint-stop and canary markers, what a        *)
(* launch request says.  An owner call of a dead Host has settled, either  *)
(* way, before the next Host reads the Store.                              *)
(***************************************************************************)
EXTENDS Naturals, Sequences

CONSTANTS
    Workspaces, \* Goal workspaces; the root thread of one is named by it
    None,       \* a null threadId, workspaceRoot or failureReason
    MaxEpochs,  \* bound: Epochs authorized
    MaxFaults,  \* bound: crashes and failed or stale calls
    MaxStops    \* bound: processes an operator asks to stop

ASSUME NoneAssumption == None \notin Workspaces \cup {"usage_limited", "operator_stop"}
ASSUME BoundsAssumption == MaxEpochs \in Nat /\ MaxFaults \in Nat /\ MaxStops \in Nat

VARIABLES
    saved,  \* activeGoal in the Host's state file
    epochs, \* the Store: the Mission's Epochs in order, each with its last event
    goal,   \* Codex: the root thread of each workspace and the Goal it holds
    room,   \* the workspace directories that exist
    pc,     \* the Host's lane
    active, \* activeGoal in memory
    job,    \* the awaited procedure's reason, its start's origin, what follows
    run,    \* the Goal's runtime in the boundary
    tool,   \* the checkpoint call of the root thread
    armed,  \* terminalGoalRelease is set
    stop,   \* the operator's signal is aborted
    stops,  \* processes stopped so far
    faults  \* faults so far

durable == <<saved, epochs, goal, room>>
lanes == <<run, tool, armed>>
inputs == <<stop, stops, faults>>
vars == <<durable, pc, active, job, lanes, inputs>>

Phases == {"planned", "authorized", "pending", "registered", "suspended", "checkpointed"}
SuspensionReasons == {"usage_limited", "operator_stop"}
StopReasons == {"owner_checkpoint", "boundary_failure", "turn_start_failure",
                "operator_stop", "dead_runner_recovery"}

ActiveGoals ==
    [phase : Phases, ws : Workspaces, thread : Workspaces \cup {None},
     epoch : 0..MaxEpochs, why : SuspensionReasons \cup {None}]
NoGoal == [phase |-> "none", ws |-> None, thread |-> None, epoch |-> 0, why |-> None]

EpochStates == {"authorized", "bound", "checkpointed", "failed"}
Terminal == {"checkpointed", "failed"}
GoalStates == {"absent", "none", "active", "paused", "usageLimited", "complete", "archived"}

Steps == {"down", "boot", "find", "classify", "settle", "refused", "cancel",
          "loop", "authorize", "adopt", "allocate", "thread", "bind", "activate",
          "register", "start_failed", "monitor", "operator",
          "suspend", "suspend_note", "suspend_goal", "suspend_read",
          "contain", "contain_note", "contain_pause", "contain_archive",
          "contain_read", "contain_fail", "close", "release", "forget",
          "unborn", "unborn_fail", "resume", "reactivate", "reopen"}

TypeOK ==
    /\ saved \in ActiveGoals \cup {NoGoal}
    /\ active \in ActiveGoals \cup {NoGoal}
    /\ epochs \in Seq([state : EpochStates, thread : Workspaces \cup {None}])
    /\ goal \in [Workspaces -> GoalStates]
    /\ room \subseteq Workspaces
    /\ pc \in Steps
    /\ job \in [reason : StopReasons \cup SuspensionReasons,
                mode : {"start", "recover", "cancel"},
                then : {"loop", "settle", "down"}]
    /\ run \in {"none", "running", "closed", "suspended", "terminal"}
    /\ tool \in {"idle", "asked", "committed", "answered"}
    /\ {armed, stop} \subseteq BOOLEAN
    /\ stops \in 0..MaxStops
    /\ faults \in 0..MaxFaults

Init ==
    /\ saved = NoGoal /\ epochs = <<>> /\ room = {}
    /\ goal = [w \in Workspaces |-> "absent"]
    /\ pc = "down" /\ active = NoGoal
    /\ job = [reason |-> "boundary_failure", mode |-> "recover", then |-> "down"]
    /\ run = "none" /\ tool = "idle" /\ armed = FALSE
    /\ stop = FALSE /\ stops = 0 /\ faults = 0

-----------------------------------------------------------------------------
(* The Store's current Epoch, read as the Host reads it.  Epoch n is the   *)
(* n-th of the chain; only the last can be live.                           *)

Current == IF epochs = <<>> THEN [state |-> "none", thread |-> None] ELSE epochs[Len(epochs)]
OwnEpoch == active.epoch # 0 /\ active.epoch = Len(epochs)
Exactly(states) ==
    OwnEpoch /\ Current.state \in states /\ Current.thread = active.thread
Live == Current.state \in {"authorized", "bound"}
SetCurrent(state, thread) ==
    epochs' = [epochs EXCEPT ![Len(epochs)] = [state |-> state, thread |-> thread]]

Save(record) == active' = record /\ saved' = record
Fault == faults < MaxFaults /\ faults' = faults + 1 /\ UNCHANGED <<stop, stops>>
Call(step, reason) == pc' = step /\ job' = [job EXCEPT !.reason = reason]
Throw == pc' = "close" /\ job' = [job EXCEPT !.then = "down"]
Refuse == pc' = "refused" /\ UNCHANGED job

-----------------------------------------------------------------------------
(* Processes: a start, a crash, the operator's signal                      *)

Start ==
    /\ pc = "down"
    /\ pc' = "boot"
    /\ active' = saved
    /\ job' = [job EXCEPT !.mode = "recover", !.then = "settle"]
    /\ run' = "none" /\ tool' = "idle" /\ armed' = FALSE /\ stop' = FALSE
    /\ UNCHANGED <<durable, stops, faults>>

\* A checkpoint in flight settles: its owner process commits or it does not.
Crash ==
    /\ pc # "down" /\ Fault
    /\ pc' = "down"
    /\ \/ tool = "asked" /\ Exactly({"bound"}) /\ SetCurrent("checkpointed", active.thread)
       \/ UNCHANGED epochs
    /\ UNCHANGED <<saved, goal, room, active, job, lanes>>

OperatorStop ==
    /\ pc # "down" /\ ~stop /\ stops < MaxStops
    /\ stop' = TRUE /\ stops' = stops + 1
    /\ UNCHANGED <<durable, pc, active, job, lanes, faults>>

\* The exit that a refused recovery is.
Exit ==
    /\ pc = "refused"
    /\ pc' = "down"
    /\ UNCHANGED <<durable, active, job, lanes, inputs>>

-----------------------------------------------------------------------------
(* runLoop up to the research loop                                         *)

Interrupted == active.why \in SuspensionReasons /\ active.thread # None
Recovers ==
    \/ active.phase = "checkpointed"
    \/ active.thread # None /\ Exactly({"checkpointed"})

\* Workspace gone and Epoch ended: only the save was lost.
ReleasedButSaved ==
    /\ active # NoGoal /\ OwnEpoch /\ active.ws \notin room
    /\ Current.state \in Terminal
    /\ Current.thread = active.thread \/ (Current.state = "failed" /\ Current.thread = None)
    /\ active.phase = "checkpointed" => Current.state = "checkpointed"

\* A Goal the state file holds is taken up by its phase, its suspension and
\* what the Store says of its Epoch; a suspended one runLoop resumes itself.
RecoverActiveGoal ==
    CASE Recovers -> Call("contain", "owner_checkpoint")
      [] ~Recovers /\ active.phase = "suspended" ->
            IF Exactly({"bound"}) THEN pc' = "resume" /\ UNCHANGED job ELSE Refuse
      [] ~Recovers /\ active.phase # "suspended" /\ Interrupted ->
            IF Exactly({"bound"}) THEN Call("suspend", active.why) ELSE Refuse
      [] ~Recovers /\ active.phase = "planned" /\ ~Interrupted ->
            pc' = "unborn" /\ UNCHANGED job
      [] ~Recovers /\ active.phase = "authorized" /\ ~Interrupted ->
            pc' = "find" /\ UNCHANGED job
      [] OTHER ->
            IF OwnEpoch /\ Current.thread \in {None, active.thread}
            THEN pc' = "classify" /\ UNCHANGED job
            ELSE Refuse

Boot ==
    /\ pc = "boot" /\ ~stop
    /\ \/ active = NoGoal /\ pc' = "settle" /\ UNCHANGED job
       \/ ReleasedButSaved /\ pc' = "release" /\ UNCHANGED job
       \/ active # NoGoal /\ ~ReleasedButSaved /\ RecoverActiveGoal
    /\ armed' = ReleasedButSaved
    /\ UNCHANGED <<durable, active, run, tool, inputs>>

\* readCurrentState and boundary.start take the signal.
BootCancelled ==
    /\ pc = "boot" /\ stop
    /\ pc' = "cancel"
    /\ UNCHANGED <<durable, active, job, lanes, inputs>>

\* reconcilePersistedCancellation
Cancel ==
    /\ pc = "cancel"
    /\ job' = [job EXCEPT !.mode = "cancel", !.then = "down"]
    /\ pc' = CASE active = NoGoal \/ active.phase = "suspended" -> "down"
               [] active.phase = "planned" -> "unborn"
               [] active.phase = "authorized" -> "find"
               [] OTHER -> "operator"
    /\ UNCHANGED <<durable, active, lanes, inputs>>

\* findMaterializedGoalEpoch, then the identity it found is saved.
Find ==
    /\ pc = "find" /\ (job.mode = "cancel" \/ ~stop)
    /\ IF goal[active.ws] \in {"absent", "archived"}
       THEN pc' = "unborn" /\ UNCHANGED <<active, saved>>
       ELSE pc' = "bind" /\ Save([active EXCEPT !.thread = active.ws, !.phase = "pending"])
    /\ UNCHANGED <<epochs, goal, room, job, lanes, inputs>>

FindCancelled ==
    /\ pc = "find" /\ job.mode = "recover" /\ stop
    /\ pc' = "cancel"
    /\ UNCHANGED <<durable, active, job, lanes, inputs>>

\* durableGoalSuspensionReason: a Goal that Codex holds paused or limited.
Classify ==
    /\ pc = "classify"
    /\ LET held == goal[active.thread]
       IN  IF held \in {"paused", "usageLimited"}
           THEN LET why == IF held = "paused" THEN "operator_stop" ELSE "usage_limited"
                IN  Save([active EXCEPT !.why = why]) /\ Call("suspend", why)
           ELSE Call("contain", "dead_runner_recovery") /\ UNCHANGED <<active, saved>>
    /\ UNCHANGED <<epochs, goal, room, lanes, inputs>>

\* A mutant: an authorization nobody holds stops the Host as well.
SettleNothing ==
    /\ pc = "settle"
    /\ pc' = IF Live THEN "refused" ELSE "loop"
    /\ UNCHANGED <<durable, active, job, lanes, inputs>>

\* An authorization the state file does not know is ended; a live binding
\* it does not know stops the Host.
Settle ==
    /\ pc = "settle"
    /\ IF Current.state = "authorized"
       THEN SetCurrent("failed", None) /\ pc' = "loop"
       ELSE /\ UNCHANGED epochs
            /\ pc' = IF Current.state = "bound" THEN "refused" ELSE "loop"
    /\ UNCHANGED <<saved, goal, room, active, job, lanes, inputs>>

-----------------------------------------------------------------------------
(* runEpoch: plan, authorize, allocate, start the Goal                     *)

\* The Mission may also end, for reasons the Store holds.
Stop ==
    /\ pc = "loop"
    /\ pc' = "down"
    /\ UNCHANGED <<durable, active, job, lanes, inputs>>

Plan ==
    /\ pc = "loop" /\ ~stop /\ Len(epochs) < MaxEpochs
    /\ \E w \in Workspaces \ room :
          /\ goal[w] = "absent"
          /\ Save([phase |-> "planned", ws |-> w, thread |-> None, epoch |-> 0, why |-> None])
    /\ pc' = "authorize"
    /\ job' = [job EXCEPT !.mode = "start", !.then = "loop"]
    /\ UNCHANGED <<epochs, goal, room, lanes, inputs>>

\* discardStalePlannedEpoch: stopped before the call, or the cut is stale.
Discard ==
    /\ pc = "authorize"
    /\ \/ stop /\ pc' = "down" /\ UNCHANGED inputs
       \/ Fault /\ pc' = "loop"
    /\ Save(NoGoal)
    /\ UNCHANGED <<epochs, goal, room, job, lanes>>

Authorize ==
    /\ pc = "authorize" /\ ~Live
    /\ epochs' = Append(epochs, [state |-> "authorized", thread |-> None])
    /\ pc' = "adopt"
    /\ UNCHANGED <<saved, goal, room, active, job, lanes, inputs>>

\* Refused or unanswered, with or without its effect.
AuthorizeLost ==
    /\ pc = "authorize"
    /\ \/ stop /\ UNCHANGED inputs
       \/ Fault
    /\ \/ ~Live /\ epochs' = Append(epochs, [state |-> "authorized", thread |-> None])
       \/ UNCHANGED epochs
    /\ pc' = "unborn"
    /\ UNCHANGED <<saved, goal, room, active, job, lanes>>

Adopt ==
    /\ pc = "adopt"
    /\ Save([active EXCEPT !.epoch = Len(epochs), !.phase = "authorized"])
    /\ pc' = "allocate"
    /\ UNCHANGED <<epochs, goal, room, job, lanes, inputs>>

Allocate ==
    /\ pc = "allocate"
    /\ \/ ~stop /\ room' = room \cup {active.ws} /\ pc' = "thread" /\ UNCHANGED inputs
       \/ stop /\ pc' = "unborn" /\ UNCHANGED <<room, inputs>>
       \/ Fault /\ pc' = "unborn" /\ UNCHANGED room
    /\ UNCHANGED <<saved, epochs, goal, active, job, lanes>>

\* A mutant: the identity is kept in memory only.
StartUnsaved ==
    /\ pc = "thread" /\ ~stop
    /\ goal' = [goal EXCEPT ![active.ws] = "none"]
    /\ active' = [active EXCEPT !.thread = active.ws, !.phase = "pending"]
    /\ run' = "running" /\ pc' = "bind"
    /\ UNCHANGED <<saved, epochs, room, job, tool, armed, inputs>>

\* boundary.start and thread/start.  A lost reply leaves the thread unknown;
\* a stop after the reply archives it.
StartThread ==
    /\ pc = "thread"
    /\ \/ /\ ~stop
          /\ goal' = [goal EXCEPT ![active.ws] = "none"]
          /\ Save([active EXCEPT !.thread = active.ws, !.phase = "pending"])
          /\ run' = "running" /\ pc' = "bind" /\ UNCHANGED inputs
       \/ /\ stop
          /\ goal' \in {goal, [goal EXCEPT ![active.ws] = "none"],
                        [goal EXCEPT ![active.ws] = "archived"]}
          /\ pc' = "unborn" /\ UNCHANGED <<active, saved, run, inputs>>
       \/ /\ Fault
          /\ goal' \in {goal, [goal EXCEPT ![active.ws] = "none"]}
          /\ pc' = "unborn" /\ UNCHANGED <<active, saved, run>>
    /\ UNCHANGED <<epochs, room, job, tool, armed>>

\* The process dies after thread/start and before its identity is saved.
CrashUnsaved ==
    /\ pc = "thread" /\ Fault
    /\ goal' = [goal EXCEPT ![active.ws] = "none"]
    /\ pc' = "down"
    /\ UNCHANGED <<saved, epochs, room, active, job, lanes>>

\* Where the caller of onEpochIdentityMaterialized goes on.
Bound == CASE job.mode = "start" -> "activate"
           [] job.mode = "recover" -> "classify"
           [] OTHER -> "operator"

Bind ==
    /\ pc = "bind"
    /\ IF OwnEpoch /\ Current.state = "authorized"
       THEN SetCurrent("bound", active.thread) /\ pc' = Bound /\ UNCHANGED job
       ELSE UNCHANGED epochs /\ (IF job.mode = "start" THEN Call("start_failed", "turn_start_failure") ELSE Refuse)
    /\ UNCHANGED <<saved, goal, room, active, lanes, inputs>>

\* A mutant: an unanswered binding counts as made.
BindAssumed ==
    /\ pc = "bind" /\ OwnEpoch /\ Current.state = "authorized" /\ Fault
    /\ \/ SetCurrent("bound", active.thread)
       \/ UNCHANGED epochs
    /\ pc' = Bound
    /\ UNCHANGED <<saved, goal, room, active, job, lanes>>

\* Refused, unanswered or, with the signal, cancelled.
BindLost ==
    /\ pc = "bind" /\ OwnEpoch /\ Current.state = "authorized"
    /\ \/ stop /\ job.mode # "cancel" /\ UNCHANGED inputs
       \/ Fault
    /\ \/ SetCurrent("bound", active.thread)
       \/ UNCHANGED epochs
    /\ CASE job.mode = "start" -> pc' = "start_failed" /\ UNCHANGED job
         [] job.mode = "recover" /\ stop -> pc' = "cancel" /\ UNCHANGED job
         [] OTHER -> Throw
    /\ UNCHANGED <<saved, goal, room, active, lanes>>

\* thread/goal/set
Activate ==
    /\ pc = "activate" /\ ~stop
    /\ goal' = [goal EXCEPT ![active.thread] = "active"]
    /\ pc' = "register"
    /\ UNCHANGED <<saved, epochs, room, active, job, lanes, inputs>>

\* The first turn has started.
Register ==
    /\ pc = "register" /\ ~stop
    /\ Save([active EXCEPT !.phase = "registered"])
    /\ pc' = "monitor"
    /\ UNCHANGED <<epochs, goal, room, job, lanes, inputs>>

StartFails ==
    /\ pc \in {"activate", "register"}
    /\ \/ stop /\ UNCHANGED inputs
       \/ Fault
    /\ pc' = "start_failed"
    /\ UNCHANGED <<durable, active, job, lanes>>

\* startBoundedGoalEpoch stops a thread it knows, or under a stop keeps the
\* Goal for suspendActive; then runEpoch's own handler.
StartFailed ==
    /\ pc = "start_failed"
    /\ LET keep == stop /\ goal[active.thread] = "active"
       IN  /\ run' = IF keep THEN run ELSE "terminal"
           /\ goal' = IF keep THEN goal ELSE [goal EXCEPT ![active.thread] = "archived"]
    /\ IF stop THEN pc' = "operator" /\ job' = [job EXCEPT !.then = "down"]
       ELSE pc' = "contain" /\ job' = [job EXCEPT !.reason = "turn_start_failure", !.then = "down"]
    /\ UNCHANGED <<saved, epochs, room, active, tool, armed, inputs>>

-----------------------------------------------------------------------------
(* monitorEpoch, and the checkpoint call beside it                         *)

AskCheckpoint ==
    /\ run = "running" /\ active.phase = "registered" /\ tool = "idle"
    /\ goal[active.thread] = "active"
    /\ tool' = "asked"
    /\ UNCHANGED <<durable, pc, active, job, run, armed, inputs>>

\* commit_direct_continuation_checkpoint, or the owner's refusal.
CommitCheckpoint ==
    /\ tool = "asked" /\ pc # "down"
    /\ \/ Exactly({"bound"}) /\ SetCurrent("checkpointed", active.thread) /\ tool' = "committed"
       \/ UNCHANGED epochs /\ tool' = "idle"
    /\ UNCHANGED <<saved, goal, room, pc, active, job, run, armed, inputs>>

\* The handler continues, in memory and then in the state file; it writes the
\* record of its own Epoch, which the Host may have released.
AnswerCheckpoint ==
    /\ tool = "committed" /\ pc # "down"
    /\ IF Exactly({"checkpointed"})
       THEN active' = [active EXCEPT !.phase = "checkpointed", !.why = None]
       ELSE UNCHANGED active
    /\ tool' = "answered"
    /\ UNCHANGED <<durable, pc, job, run, armed, inputs>>

SaveCheckpoint ==
    /\ tool = "answered" /\ pc # "down"
    /\ saved' = active
    /\ tool' = "idle"
    /\ UNCHANGED <<epochs, goal, room, pc, active, job, run, armed, inputs>>

\* Codex ends the Goal's work: complete, or out of usage.
GoalEnds ==
    /\ run = "running" /\ pc = "monitor" /\ goal[active.thread] = "active"
    /\ \E end \in {"complete", "usageLimited"} : goal' = [goal EXCEPT ![active.thread] = end]
    /\ UNCHANGED <<saved, epochs, room, pc, active, job, lanes, inputs>>

Monitor ==
    /\ pc = "monitor"
    /\ \/ /\ active.phase = "checkpointed"
          /\ Call("contain", "owner_checkpoint") /\ UNCHANGED <<active, saved, goal, run, armed>>
       \/ /\ active.phase # "checkpointed" /\ stop
          /\ pc' = "operator" /\ UNCHANGED <<job, active, saved, goal, run, armed>>
       \/ /\ active.phase # "checkpointed" /\ ~stop /\ goal[active.thread] = "usageLimited"
          /\ Save([active EXCEPT !.why = "usage_limited"])
          /\ Call("suspend", "usage_limited") /\ UNCHANGED <<goal, run, armed>>
       \/ /\ active.phase # "checkpointed" /\ ~stop /\ goal[active.thread] = "complete"
          /\ tool = "idle"
          /\ IF Exactly(Terminal)
             THEN /\ goal' = [goal EXCEPT ![active.thread] = "archived"]
                  /\ run' = "terminal" /\ armed' = TRUE /\ pc' = "close" /\ UNCHANGED job
             ELSE Call("contain", "boundary_failure") /\ UNCHANGED <<goal, run, armed>>
          /\ UNCHANGED <<active, saved>>
    /\ UNCHANGED <<epochs, room, tool, inputs>>

\* A failed read, a Goal gone or paused, or the App Server's exit, which
\* closes the runtime before the Host sees it.
MonitorFails ==
    /\ pc = "monitor" /\ Fault
    /\ run' \in {run, "terminal"}
    /\ CASE active.phase = "checkpointed" -> Call("contain", "owner_checkpoint")
         [] active.phase # "checkpointed" /\ stop -> pc' = "operator" /\ UNCHANGED job
         [] active.phase # "checkpointed" /\ ~stop /\ active.why = "usage_limited" ->
               Call("suspend", "usage_limited")
         [] OTHER -> Call("contain", "boundary_failure")
    /\ UNCHANGED <<durable, active, tool, armed>>

\* reconcileOperatorStop
Operator ==
    /\ pc = "operator"
    /\ IF Exactly({"checkpointed"}) THEN Call("contain", "owner_checkpoint")
       ELSE IF Exactly({"bound"}) THEN Call("suspend", "operator_stop")
       ELSE Call("contain", "operator_stop")
    /\ UNCHANGED <<durable, active, lanes, inputs>>

-----------------------------------------------------------------------------
(* suspendActive                                                           *)

\* Admission closes; a recovering boundary resumes the thread first.
Suspend ==
    /\ pc = "suspend"
    /\ CASE run = "running" -> pc' = "suspend_note" /\ run' = "closed" /\ UNCHANGED job
         [] run = "none" /\ goal[active.thread] \notin {"absent", "archived"} ->
               pc' = "suspend_note" /\ run' = "closed" /\ UNCHANGED job
         [] OTHER -> (IF job.mode = "start" THEN Throw ELSE Refuse) /\ UNCHANGED run
    /\ UNCHANGED <<durable, active, tool, armed, inputs>>

\* onGoalTermination: outstanding owner calls settle, then the reason is kept.
SuspendNote ==
    /\ pc = "suspend_note" /\ tool # "asked"
    /\ IF active.phase # "checkpointed" /\ active.why = None
       THEN Save([active EXCEPT !.why = job.reason])
       ELSE UNCHANGED <<active, saved>>
    /\ pc' = "suspend_goal"
    /\ UNCHANGED <<epochs, goal, room, job, lanes, inputs>>

\* thread/goal/set to the suspended status; there is no Goal to set on a
\* thread that never got one.
SuspendGoal ==
    /\ pc = "suspend_goal"
    /\ IF goal[active.thread] \in {"none", "archived"}
       THEN (IF job.mode = "start" THEN Throw ELSE Refuse) /\ UNCHANGED goal
       ELSE /\ goal' = [goal EXCEPT ![active.thread] =
                           IF @ = "usageLimited" \/ job.reason = "usage_limited"
                           THEN "usageLimited" ELSE "paused"]
            /\ pc' = "suspend_read" /\ UNCHANGED job
    /\ run' = "suspended"
    /\ UNCHANGED <<saved, epochs, room, active, tool, armed, inputs>>

\* A mutant: the suspension is kept for any Epoch of this Goal.
SuspendAny ==
    /\ pc = "suspend_read"
    /\ IF Exactly({"checkpointed"})
       THEN Call("contain", "owner_checkpoint") /\ UNCHANGED <<active, saved>>
       ELSE Save([active EXCEPT !.phase = "suspended", !.why = job.reason]) /\ Throw
    /\ UNCHANGED <<epochs, goal, room, lanes, inputs>>

SuspendRead ==
    /\ pc = "suspend_read"
    /\ CASE Exactly({"checkpointed"}) ->
               Call("contain", "owner_checkpoint") /\ UNCHANGED <<active, saved>>
         [] Exactly({"bound"}) ->
               /\ Save([active EXCEPT !.phase = "suspended",
                            !.why = IF goal[active.thread] = "usageLimited"
                                    THEN "usage_limited" ELSE "operator_stop"])
               /\ Throw
         [] OTHER -> Refuse /\ UNCHANGED <<active, saved>>
    /\ UNCHANGED <<epochs, goal, room, lanes, inputs>>

-----------------------------------------------------------------------------
(* containActive                                                           *)

\* A mutant: the calls under way are told to end and not awaited.
ContainAtOnce ==
    /\ pc = "contain"
    /\ IF run = "terminal" THEN pc' = "contain_read" /\ UNCHANGED run
       ELSE pc' = "contain_note" /\ run' = "closed"
    /\ UNCHANGED <<durable, active, job, tool, armed, inputs>>

\* A mutant: admission stays open until the thread is archived.
ContainOpen ==
    /\ pc = "contain" /\ tool # "asked"
    /\ pc' = IF run = "terminal" THEN "contain_read" ELSE "contain_note"
    /\ UNCHANGED <<durable, active, job, lanes, inputs>>

\* A mutant: the Store is asked before the thread is stopped.
ContainUnstopped ==
    /\ pc = "contain" /\ tool # "asked"
    /\ pc' = "contain_read"
    /\ UNCHANGED <<durable, active, job, lanes, inputs>>

\* cancelOutstanding, then stopBoundedGoalEpoch takes over the runtime, or
\* finds the thread again in a recovering boundary.
Contain ==
    /\ pc = "contain" /\ tool # "asked"
    /\ LET held == goal[active.thread]
           found == run # "none" \/ held \notin {"absent", "archived"}
           recovering == job.reason \in {"owner_checkpoint", "dead_runner_recovery"}
       IN  CASE run = "terminal" -> pc' = "contain_read" /\ UNCHANGED <<run, job>>
             [] run # "terminal" /\ found ->
                   pc' = "contain_note" /\ run' = "closed" /\ UNCHANGED job
             [] ~found /\ (recovering \/ active.phase = "pending") ->
                   pc' = "contain_read" /\ run' = "terminal" /\ UNCHANGED job
             [] OTHER -> Refuse /\ UNCHANGED run
    /\ UNCHANGED <<durable, active, tool, armed, inputs>>

ContainNote ==
    /\ pc = "contain_note" /\ tool # "asked"
    /\ IF job.reason = "operator_stop" /\ active.phase # "checkpointed" /\ active.why = None
       THEN Save([active EXCEPT !.why = "operator_stop"])
       ELSE UNCHANGED <<active, saved>>
    /\ pc' = "contain_pause"
    /\ UNCHANGED <<epochs, goal, room, job, lanes, inputs>>

\* A pause that fails is passed over.
ContainPause ==
    /\ pc = "contain_pause"
    /\ \/ /\ goal' = [goal EXCEPT ![active.thread] =
                         IF @ = "active" /\ job.reason # "owner_checkpoint" THEN "paused" ELSE @]
          /\ UNCHANGED inputs
       \/ Fault /\ UNCHANGED goal
    /\ pc' = "contain_archive"
    /\ UNCHANGED <<saved, epochs, room, active, job, lanes>>

\* thread/goal/clear and thread/archive; where either fails the dedicated
\* App Server is terminated instead.
ContainArchive ==
    /\ pc = "contain_archive"
    /\ \/ goal' = [goal EXCEPT ![active.thread] = "archived"] /\ UNCHANGED inputs
       \/ Fault /\ goal' \in {goal, [goal EXCEPT ![active.thread] = "none"]}
    /\ run' = "terminal"
    /\ pc' = "contain_read"
    /\ UNCHANGED <<saved, epochs, room, active, job, tool, armed>>

ValidatedCheckpoint == job.reason = "owner_checkpoint" \/ active.phase = "checkpointed"

\* A mutant: an Epoch that failed unbound is not recognised as this one's end.
ContainReadBound ==
    /\ pc = "contain_read"
    /\ LET ended == Exactly(IF ValidatedCheckpoint THEN {"checkpointed"} ELSE Terminal)
       IN  CASE ended -> armed' = TRUE /\ pc' = "close" /\ UNCHANGED job
             [] ~ended /\ OwnEpoch /\ Live -> pc' = "contain_fail" /\ UNCHANGED <<armed, job>>
             [] OTHER -> Refuse /\ UNCHANGED armed
    /\ UNCHANGED <<durable, active, run, tool, inputs>>

ContainRead ==
    /\ pc = "contain_read"
    /\ LET ended == IF ValidatedCheckpoint THEN Exactly({"checkpointed"})
                    ELSE \/ Exactly(Terminal)
                         \/ OwnEpoch /\ Current.state = "failed" /\ Current.thread = None
       IN  CASE ended -> armed' = TRUE /\ pc' = "close" /\ UNCHANGED job
             [] ~ended /\ ~ValidatedCheckpoint /\ OwnEpoch
                  /\ Current.thread \in {None, active.thread} ->
                   pc' = "contain_fail" /\ UNCHANGED <<armed, job>>
             [] OTHER -> Refuse /\ UNCHANGED armed
    /\ UNCHANGED <<durable, active, run, tool, inputs>>

\* recordFailedEpoch; the Store refuses it over a checkpoint.
ContainFail ==
    /\ pc = "contain_fail"
    /\ IF Current.state \in {"authorized", "bound"}
       THEN SetCurrent("failed", Current.thread) /\ armed' = TRUE /\ pc' = "close" /\ UNCHANGED job
       ELSE UNCHANGED <<epochs, armed>> /\ Throw
    /\ UNCHANGED <<saved, goal, room, active, run, tool, inputs>>

-----------------------------------------------------------------------------
(* withBoundary's end and the armed release                                *)

Close ==
    /\ pc = "close"
    /\ run' = "none"
    /\ pc' = IF armed THEN "release" ELSE job.then
    /\ UNCHANGED <<durable, active, job, tool, armed, inputs>>

\* waitForFatalBoundaryFence or boundary.stop rejects: nothing is released.
CloseFails ==
    /\ pc = "close" /\ Fault
    /\ run' = "none" /\ pc' = "down"
    /\ UNCHANGED <<durable, active, job, tool, armed>>

\* An empty directory is removed, any other is preserved.
Release ==
    /\ pc = "release"
    /\ \/ room' = room \ {active.ws}
       \/ goal[active.ws] # "absent" /\ UNCHANGED room
    /\ pc' = "forget"
    /\ UNCHANGED <<saved, epochs, goal, active, job, lanes, inputs>>

Forget ==
    /\ pc = "forget"
    /\ Save(NoGoal)
    /\ armed' = FALSE /\ pc' = job.then
    /\ UNCHANGED <<epochs, goal, room, job, run, tool, inputs>>

-----------------------------------------------------------------------------
(* reconcileUnmaterializedStart.  It throws over an Epoch that is bound or *)
(* not its own; the Host would stop here, and no state of a run is one.    *)

\* An authorization without a saved identity is claimed only by replaying
\* the launch cut, which a plan read back from the state file does not hold.
UnbornClaims ==
    /\ pc = "unborn" /\ Current.state = "authorized"
    /\ IF active.epoch = 0 THEN job.mode = "start" ELSE OwnEpoch
    /\ Save([active EXCEPT !.epoch = Len(epochs), !.phase = "authorized"])
    /\ pc' = "unborn_fail"
    /\ job' = [job EXCEPT !.then = IF job.mode = "start" THEN "down" ELSE @]
    /\ UNCHANGED <<epochs, goal, room, lanes, inputs>>

\* Nothing to end: no authorization, one already ended, or one not ours.
UnbornReleases ==
    /\ pc = "unborn"
    /\ \/ active.epoch = 0 /\ Current.state # "authorized" /\ UNCHANGED inputs
       \/ active.epoch = 0 /\ Current.state = "authorized" /\ job.mode # "start" /\ UNCHANGED inputs
       \/ active.epoch = 0 /\ Current.state = "authorized" /\ job.mode = "start" /\ Fault
       \/ OwnEpoch /\ Current.state \in Terminal /\ UNCHANGED inputs
    /\ armed' = TRUE /\ pc' = "close"
    /\ job' = [job EXCEPT !.then = IF job.mode = "start" THEN "down" ELSE @]
    /\ UNCHANGED <<durable, active, run, tool>>

UnbornFail ==
    /\ pc = "unborn_fail"
    /\ SetCurrent("failed", None)
    /\ armed' = TRUE /\ pc' = "close"
    /\ UNCHANGED <<saved, goal, room, active, job, run, tool, inputs>>

-----------------------------------------------------------------------------
(* resumeSuspendedGoal                                                     *)

\* The cut holds; the registered phase is saved before any provider call,
\* the suspension reason with it.
Resume ==
    /\ pc = "resume"
    /\ IF stop \/ ~Exactly({"bound"})
       THEN pc' = "cancel" /\ UNCHANGED <<active, saved>>
       ELSE Save([active EXCEPT !.phase = "registered"]) /\ pc' = "reactivate"
    /\ UNCHANGED <<epochs, goal, room, job, lanes, inputs>>

ResumeStale ==
    /\ pc = "resume" /\ Fault
    /\ pc' = "down"
    /\ UNCHANGED <<durable, active, job, lanes>>

\* thread/resume and thread/goal/set of resumeBoundedGoalEpoch
Reactivate ==
    /\ pc = "reactivate" /\ ~stop /\ goal[active.thread] \in {"paused", "usageLimited"}
    /\ goal' = [goal EXCEPT ![active.thread] = "active"]
    /\ run' = "running" /\ pc' = "reopen"
    /\ UNCHANGED <<saved, epochs, room, active, job, tool, armed, inputs>>

Reopen ==
    /\ pc = "reopen" /\ ~stop
    /\ Save([active EXCEPT !.why = None])
    /\ pc' = "monitor"
    /\ UNCHANGED <<epochs, goal, room, job, lanes, inputs>>

\* The resume rejects: before a runtime exists, or after, when the boundary
\* has stopped the thread itself.
ResumeFails ==
    /\ pc \in {"reactivate", "reopen"}
    /\ \/ stop /\ UNCHANGED <<inputs, goal, run>>
       \/ /\ Fault
          /\ IF pc = "reactivate" THEN UNCHANGED <<goal, run>>
             ELSE goal' = [goal EXCEPT ![active.thread] = "archived"] /\ run' = "terminal"
    /\ job' = [job EXCEPT !.then = "down",
                          !.reason = IF active.phase = "checkpointed" THEN "owner_checkpoint"
                                     ELSE "boundary_failure"]
    /\ pc' = IF stop /\ active.phase # "checkpointed" THEN "operator" ELSE "contain"
    /\ UNCHANGED <<saved, epochs, room, active, tool, armed>>

-----------------------------------------------------------------------------
HostStep ==
    \/ Start \/ Exit \/ Boot \/ BootCancelled \/ Cancel \/ Find \/ FindCancelled
    \/ Classify \/ Settle \/ Stop \/ Plan \/ Discard \/ Authorize \/ AuthorizeLost
    \/ Adopt \/ Allocate \/ StartThread \/ Bind \/ BindLost \/ Activate \/ Register
    \/ StartFails \/ StartFailed \/ Monitor \/ MonitorFails \/ Operator
    \/ Suspend \/ SuspendNote \/ SuspendGoal \/ SuspendRead
    \/ Contain \/ ContainNote \/ ContainPause \/ ContainArchive \/ ContainRead \/ ContainFail
    \/ Close \/ CloseFails \/ Release \/ Forget
    \/ UnbornClaims \/ UnbornReleases \/ UnbornFail
    \/ Resume \/ ResumeStale \/ Reactivate \/ Reopen \/ ResumeFails

ToolStep == CommitCheckpoint \/ AnswerCheckpoint \/ SaveCheckpoint

Environment == Crash \/ CrashUnsaved \/ OperatorStop \/ AskCheckpoint \/ GoalEnds

Next == HostStep \/ ToolStep \/ Environment

Spec == Init /\ [][Next]_vars

\* An operator restarts a Host that is down, and each lane goes on while it
\* can; no call has to fail, no Goal to end and no one to ask for a stop.
FairSpec == Spec /\ WF_vars(HostStep /\ UNCHANGED faults) /\ WF_vars(ToolStep)

-----------------------------------------------------------------------------
(* Properties                                                              *)

\* Between the Store's binding of an Epoch and its end, the state file names
\* that Epoch and its root thread: onEpochIdentityMaterialized saves before it
\* binds, and no crash, release or resume loses the Goal while it may work.
BoundIsSaved ==
    Current.state = "bound" =>
        saved.epoch = Len(epochs) /\ saved.thread = Current.thread

\* What the state file says of its Goal's outcome the Store says too: it never
\* names an old Epoch, keeps a suspension over one that failed, or claims a
\* checkpoint the Store does not hold.
SavedAgreesWithStore ==
    /\ saved.epoch # 0 => saved.epoch = Len(epochs)
    /\ saved.phase = "suspended" => Current.state \in {"bound", "checkpointed"}
    /\ saved.phase = "checkpointed" => Current.state = "checkpointed"

\* A bound Epoch is recorded failed_before_checkpoint only once its Goal is
\* contained and no checkpoint call is in the owner's hands (containActive).
FailureAfterContainment ==
    [][\A n \in DOMAIN epochs :
          epochs[n].state = "bound" /\ epochs'[n].state = "failed" =>
              run = "terminal" /\ tool # "asked"]_vars

\* No checkpoint lands between containActive's read of the Store and the
\* failure it then records, which the Store would refuse.
NoCheckpointPastRead == pc = "contain_fail" => Live

\* A root thread is given a Goal only for an Epoch the Store has bound to it,
\* whatever became of the answer of the binding call.
WorkIsBound ==
    \A w \in Workspaces : goal[w] \in {"active", "paused", "usageLimited", "complete"} =>
        \E n \in DOMAIN epochs : epochs[n].thread = w

\* The thread that works, for a Host that is up: its runtime is open and its
\* Goal active.
Worker ==
    IF /\ pc # "down" /\ run = "running"
       /\ active.thread # None /\ goal[active.thread] = "active"
    THEN active.thread ELSE None

Promise == INSTANCE EpochPromise WITH chain <- epochs, worker <- Worker

\* Through every crash, lost answer, suspension and restart the Host does with
\* Epochs what EpochPromise says: it authorizes none while a thread works,
\* binds no thread twice, lets a thread work for the last Epoch alone, from its
\* binding to its end, and fails none under a thread that works.
KeepsEpochPromise == Promise!PromiseSpec

\* Recovery refuses this state file: a suspension it reads as interrupted.
Held == saved.phase \in {"pending", "registered"} /\ saved.why # None

\* An authorization is bound or ended by this Host or a later one, unless the
\* recovery is held.
AuthorizationEnds ==
    Current.state = "authorized" ~> Current.state # "authorized" \/ Held

Ended == saved.epoch # 0 /\ Current.state \in Terminal

\* The Goal of an Epoch that ended is released by this Host or a later one;
\* a held recovery is the one thing that keeps it.
EndedIsReleasedOrHeld == Ended ~> ~Ended \/ Held

\* The same with no exception: the restart that reconciles what is recorded.
EndedIsReleased == Ended ~> ~Ended
=============================================================================
