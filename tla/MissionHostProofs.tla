--------------------------- MODULE MissionHostProofs ---------------------------
(***************************************************************************)
(* Proofs about MissionHost, for every set of workspaces and every bound:  *)
(* that the state file, the Store and Codex stay in step.                  *)
(*                                                                         *)
(* The invariant has three parts.  A record of the state file is one that  *)
(* the Store's chain can be beside (Fits), and memory is that record but   *)
(* for one step.  The chain is what the Store and Codex agree on.  And the *)
(* place the Host's lane is at tells how far its Goal and Epoch have got,  *)
(* and which other lanes may go on.                                        *)
(*                                                                         *)
(* A step that leaves the Store alone keeps each part by what it saves; a  *)
(* step that records an event keeps the first two together (EpochStep).    *)
(***************************************************************************)
EXTENDS MissionHost, TLAPS

\* The phases of a Goal whose root thread is known and not suspended.
Roots == {"pending", "registered", "checkpointed"}

\* The root threads the Store has bound.
Used == {epochs[n].thread : n \in DOMAIN epochs}

\* What a Goal is while there is work in its thread.
Working == {"active", "paused", "usageLimited", "complete"}

\* A record of the state file is one the Store can be beside: by its phase, the
\* Epoch it names, how far that Epoch may have got, and to which thread.
Fits(r, n, state, thread, used) ==
    /\ r.phase \in {"none", "planned"} =>
          r.epoch = 0 /\ r.thread = None /\ r.why = None /\ state # "bound"
    /\ r.phase = "authorized" =>
          /\ r.epoch = n /\ r.thread = None /\ r.why = None
          /\ state \in {"authorized", "failed"} /\ thread = None
    /\ r.phase \in Roots \cup {"suspended"} => r.epoch = n /\ r.thread = r.ws
    /\ r.phase \in Roots \cup {"suspended", "authorized"} => n # 0
    /\ r.phase = "pending" =>
          \/ state \in {"authorized", "failed"} /\ thread = None
          \/ state \in {"bound", "failed"} /\ thread = r.ws
    /\ r.phase = "registered" => state \in {"bound", "checkpointed", "failed"} /\ thread = r.ws
    /\ r.phase = "checkpointed" => r.why = None /\ state = "checkpointed" /\ thread = r.ws
    /\ r.phase = "suspended" => r.why # None /\ state = "bound" /\ thread = r.ws
    /\ \/ r.phase \in {"planned", "authorized"}
       \/ r.phase = "pending" /\ thread = None
       => r.ws \notin used

Agrees(r) == Fits(r, Len(epochs), Current.state, Current.thread, Used)

\* Memory is the state file, but for a checkpoint that is not saved yet.
Same ==
    \/ saved = active
    \/ /\ tool = "answered" /\ saved.phase = "registered"
       /\ active = [saved EXCEPT !.phase = "checkpointed", !.why = None]

Recorded == Agrees(saved) /\ (pc # "down" => Agrees(active) /\ Same)

\* The Store's chain: an authorization has no thread, a thread that is bound is
\* in Codex; and a Goal is in Codex before it may be bound.
Chain ==
    /\ Len(epochs) <= MaxEpochs
    /\ \A n \in DOMAIN epochs :
          /\ epochs[n].state = "authorized" => epochs[n].thread = None
          /\ epochs[n].thread \in Workspaces => goal[epochs[n].thread] # "absent"
    /\ saved.phase \in Roots => goal[saved.ws] # "absent"

\* Where the Host is tells how far its Goal has got ...
PhaseAt ==
    /\ pc \in {"settle", "loop"} => active = NoGoal
    /\ pc \in {"authorize", "adopt"} => active.phase = "planned"
    /\ pc \in {"find", "allocate", "thread", "unborn_fail"} => active.phase = "authorized"
    /\ pc = "unborn" => active.phase \in {"planned", "authorized"}
    /\ pc \in {"bind", "activate", "register", "start_failed"} => active.phase = "pending"
    /\ pc \in {"monitor", "reactivate", "reopen"} => active.phase \in {"registered", "checkpointed"}
    /\ pc \in {"classify", "operator", "suspend", "suspend_note", "suspend_goal", "suspend_read",
               "contain", "contain_note", "contain_pause", "contain_archive", "contain_read",
               "contain_fail"} => active.phase \in Roots
    /\ pc = "resume" => active.phase = "suspended"
    /\ pc \in {"close", "release", "forget"} => active # NoGoal

\* ... how far its Epoch has ...
EpochAt ==
    /\ pc = "authorize" => Len(epochs) < MaxEpochs
    /\ pc = "adopt" => Current.state = "authorized" /\ Current.thread = None
    /\ pc \in {"activate", "register"} =>
          Current.state = "bound" /\ Current.thread = active.thread
    /\ pc \in {"suspend", "suspend_note", "suspend_goal", "suspend_read"} =>
          Current.thread = active.thread
    /\ pc = "classify" => Current.state # "checkpointed"
    /\ pc = "contain_fail" => Live
    /\ pc = "unborn_fail" => Current.state = "authorized"
    /\ pc \in {"release", "forget"} \/ (pc = "close" /\ armed) => Current.state # "bound"

\* ... and what else goes on: a release is armed on the way to it only, a
\* checkpoint call is in the owner's hands only while the Goal is registered and
\* not contained.
LanesAt ==
    /\ pc \in {"authorize", "adopt", "allocate", "thread"} => job.mode = "start"
    /\ pc \in {"suspend", "suspend_note"} => job.reason \in SuspensionReasons
    /\ armed => pc \in {"down", "close", "release", "forget"}
    /\ pc = "close" /\ ~armed => job.then = "down"
    /\ tool = "asked" /\ pc # "down" =>
          /\ active.phase = "registered"
          /\ \/ pc \in {"contain", "monitor", "operator", "refused", "reopen", "suspend",
                        "suspend_note"}
             \/ pc = "close" /\ ~armed
    /\ run = "running" =>
          \/ pc \in {"down", "activate", "register", "start_failed", "monitor", "operator",
                     "contain", "suspend", "reopen"}
          \/ pc = "bind" /\ job.mode = "start"
    /\ pc \in {"contain_read", "contain_fail"} => run = "terminal"

IInv == TypeOK /\ Recorded /\ Chain /\ WorkIsBound /\ PhaseAt /\ EpochAt /\ LanesAt
-----------------------------------------------------------------------------
(* What the Store holds of the current Epoch.                                *)

EpochRecords == [state : EpochStates, thread : Workspaces \cup {None}]

LEMMA CurrentIs ==
    ASSUME epochs \in Seq(EpochRecords)
    PROVE  /\ Len(epochs) \in Nat /\ DOMAIN epochs = 1 .. Len(epochs)
           /\ Current.state \in EpochStates \cup {"none"}
           /\ Current.thread \in Workspaces \cup {None}
           /\ Current.state = "none" <=> Len(epochs) = 0
           /\ Len(epochs) # 0 => Current = epochs[Len(epochs)] /\ Len(epochs) \in DOMAIN epochs
           /\ Len(epochs) = 0 => Current.thread = None
<1>1. CASE epochs = <<>>
  BY <1>1 DEF Current, EpochStates
<1>2. CASE epochs # <<>>
  <2>1. Len(epochs) \in Nat \ {0} /\ epochs[Len(epochs)] \in EpochRecords
        /\ DOMAIN epochs = 1 .. Len(epochs)
    BY <1>2
  <2>2. Current = epochs[Len(epochs)]
    BY <1>2 DEF Current
  <2> QED BY <2>1, <2>2 DEF EpochRecords, EpochStates
<1> QED BY <1>1, <1>2

\* An event over the current Epoch.
LEMMA SetCurrentIs ==
    ASSUME epochs \in Seq(EpochRecords), Len(epochs) # 0,
           NEW state \in EpochStates, NEW thread \in Workspaces \cup {None},
           SetCurrent(state, thread)
    PROVE  /\ epochs' \in Seq(EpochRecords) /\ Len(epochs') = Len(epochs)
           /\ DOMAIN epochs' = DOMAIN epochs
           /\ Current'.state = state /\ Current'.thread = thread
           /\ \A n \in DOMAIN epochs : n # Len(epochs) => epochs'[n] = epochs[n]
           /\ epochs'[Len(epochs)].state = state /\ epochs'[Len(epochs)].thread = thread
           /\ Used' \subseteq Used \cup {thread}
<1> DEFINE n == Len(epochs)
           new == [state |-> state, thread |-> thread]
<1>1. /\ n \in Nat /\ n \in DOMAIN epochs /\ DOMAIN epochs = 1 .. n
      /\ new \in EpochRecords
  BY DEF EpochRecords
<1>2. epochs' = [epochs EXCEPT ![n] = new]
  BY DEF SetCurrent
<1> HIDE DEF new
<1>3. epochs' \in Seq(EpochRecords) /\ Len(epochs') = n /\ DOMAIN epochs' = DOMAIN epochs
  BY <1>1, <1>2
<1>4. epochs'[n] = new /\ \A m \in DOMAIN epochs : m # n => epochs'[m] = epochs[m]
  BY <1>1, <1>2
<1>5. Current' = new
  BY <1>1, <1>3, <1>4 DEF Current
<1>6. new.state = state /\ new.thread = thread
  BY DEF new
<1>7. Used' \subseteq Used \cup {thread}
  BY <1>1, <1>3, <1>4, <1>6 DEF Used
<1> QED BY <1>3, <1>4, <1>5, <1>6, <1>7

LEMMA AuthorizedIs ==
    ASSUME epochs \in Seq(EpochRecords),
           epochs' = Append(epochs, [state |-> "authorized", thread |-> None])
    PROVE  /\ epochs' \in Seq(EpochRecords) /\ Len(epochs') = Len(epochs) + 1
           /\ Current'.state = "authorized" /\ Current'.thread = None
           /\ \A n \in DOMAIN epochs : epochs'[n] = epochs[n]
           /\ DOMAIN epochs' = 1 .. (Len(epochs) + 1)
           /\ DOMAIN epochs = 1 .. Len(epochs)
           /\ epochs'[Len(epochs) + 1].state = "authorized"
           /\ epochs'[Len(epochs) + 1].thread = None
           /\ Used' \subseteq Used \cup {None}
<1> DEFINE n == Len(epochs)
           new == [state |-> "authorized", thread |-> None]
<1>1. n \in Nat /\ DOMAIN epochs = 1 .. n /\ new \in EpochRecords
  BY DEF EpochRecords, EpochStates
<1>2. epochs' = Append(epochs, new)
  OBVIOUS
<1>3. new.state = "authorized" /\ new.thread = None
  OBVIOUS
<1> HIDE DEF new
<1>4. /\ epochs' \in Seq(EpochRecords) /\ Len(epochs') = n + 1
      /\ DOMAIN epochs' = 1 .. (n + 1)
  BY <1>1, <1>2
<1>5. epochs'[n + 1] = new /\ \A m \in DOMAIN epochs : epochs'[m] = epochs[m]
  BY <1>1, <1>2
<1>6. Current' = new
  BY <1>1, <1>4, <1>5 DEF Current
<1>7. Used' \subseteq Used \cup {None}
  <2> SUFFICES ASSUME NEW m \in DOMAIN epochs' PROVE epochs'[m].thread \in Used \cup {None}
    BY DEF Used
  <2>1. m = n + 1 \/ m \in DOMAIN epochs
    BY <1>1, <1>4
  <2> QED BY <1>5, <1>3, <2>1 DEF Used
<1> QED BY <1>1, <1>4, <1>5, <1>6, <1>3, <1>7

LEMMA EpochsKept ==
    ASSUME UNCHANGED epochs
    PROVE  Current' = Current /\ Used' = Used /\ Len(epochs') = Len(epochs)
BY DEF Current, Used

-----------------------------------------------------------------------------
(* What a step leaves alone keeps its part of the invariant.                 *)

LEMMA RecordedKept ==
    ASSUME IInv, UNCHANGED <<saved, active, epochs, tool>>, pc # "down"
    PROVE  Recorded'
BY EpochsKept DEF IInv, Recorded, Agrees, Same

LEMMA ChainKept ==
    ASSUME IInv, UNCHANGED epochs, \A w \in Workspaces : goal'[w] = "absent" => goal[w] = "absent",
           saved'.phase \in Roots => saved'.ws \in Workspaces /\ goal'[saved'.ws] # "absent"
    PROVE  Chain'
BY DEF IInv, Chain

LEMMA WorkKept ==
    ASSUME WorkIsBound, UNCHANGED epochs,
           \A w \in Workspaces :
              goal'[w] \in Working => goal[w] \in Working \/ w \in Used
    PROVE  WorkIsBound'
BY DEF WorkIsBound, Working, Used

-----------------------------------------------------------------------------
(* Records of the state file.                                                *)

LEMMA GoalIs ==
    ASSUME NEW r \in ActiveGoals \cup {NoGoal}
    PROVE  /\ r.phase \in Phases \cup {"none"} /\ r.thread \in Workspaces \cup {None}
           /\ r.epoch \in 0 .. MaxEpochs /\ r.why \in SuspensionReasons \cup {None}
           /\ r.ws \in Workspaces \cup {None}
           /\ r.phase # "none" => r \in ActiveGoals /\ r.ws \in Workspaces
           /\ r.phase = "none" => r = NoGoal
           /\ r # NoGoal => r.phase # "none"
           /\ r = NoGoal => r.ws = None /\ r.thread = None /\ r.epoch = 0 /\ r.why = None
BY BoundsAssumption DEF ActiveGoals, NoGoal, Phases

-----------------------------------------------------------------------------
(* Who writes what.                                                          *)

LEMMA RecordWriters ==
    ASSUME Next
    PROVE  UNCHANGED <<saved, active>> \/ Start \/ Find \/ Classify \/ Plan \/ Discard
           \/ Adopt \/ StartThread \/ Register \/ Monitor \/ SuspendNote \/ SuspendRead
           \/ ContainNote \/ Forget \/ UnbornClaims \/ Resume \/ Reopen \/ AnswerCheckpoint
           \/ SaveCheckpoint
BY DEF Next, HostStep, ToolStep, Environment, Exit, Boot, BootCancelled, Cancel,
   FindCancelled, Settle, Stop, Authorize, AuthorizeLost, Allocate, Bind, BindLost, Activate,
   StartFails, StartFailed, MonitorFails, Operator, Suspend, SuspendGoal, Contain,
   ContainPause, ContainArchive, ContainRead, ContainFail, Close, CloseFails, Release,
   UnbornReleases, UnbornFail, ResumeStale, Reactivate, ResumeFails, CommitCheckpoint, Crash,
   CrashUnsaved, OperatorStop, AskCheckpoint, GoalEnds, RecoverActiveGoal, durable, lanes,
   inputs, Save, Fault, Throw, Refuse, Call

LEMMA EpochWriters ==
    ASSUME Next
    PROVE  UNCHANGED epochs \/ Settle \/ Authorize \/ AuthorizeLost \/ Bind \/ BindLost
           \/ ContainFail \/ UnbornFail \/ CommitCheckpoint \/ Crash
BY DEF Next, HostStep, ToolStep, Environment, Start, Exit, Boot, BootCancelled, Cancel, Find,
   FindCancelled, Classify, Stop, Plan, Discard, Adopt, Allocate, StartThread, Activate,
   Register, StartFails, StartFailed, Monitor, MonitorFails, Operator, Suspend, SuspendNote,
   SuspendGoal, SuspendRead, Contain, ContainNote, ContainPause, ContainArchive, ContainRead,
   Close, CloseFails, Release, Forget, UnbornClaims, UnbornReleases, Resume, ResumeStale,
   Reactivate, Reopen, ResumeFails, AnswerCheckpoint, SaveCheckpoint, CrashUnsaved,
   OperatorStop, AskCheckpoint, GoalEnds, RecoverActiveGoal, durable, lanes, inputs, Save,
   Fault, Throw, Refuse, Call

LEMMA GoalWriters ==
    ASSUME Next
    PROVE  UNCHANGED goal \/ StartThread \/ Activate \/ StartFailed \/ Monitor
           \/ SuspendGoal \/ ContainPause \/ ContainArchive \/ Reactivate \/ ResumeFails
           \/ CrashUnsaved \/ GoalEnds
BY DEF Next, HostStep, ToolStep, Environment, Start, Exit, Boot, BootCancelled, Cancel, Find,
   FindCancelled, Classify, Settle, Stop, Plan, Discard, Authorize, AuthorizeLost, Adopt,
   Allocate, Bind, BindLost, Register, StartFails, MonitorFails, Operator, Suspend,
   SuspendNote, SuspendRead, Contain, ContainNote, ContainRead, ContainFail, Close,
   CloseFails, Release, Forget, UnbornClaims, UnbornReleases, UnbornFail, Resume,
   ResumeStale, Reopen, CommitCheckpoint, AnswerCheckpoint, SaveCheckpoint, Crash,
   OperatorStop, AskCheckpoint, RecoverActiveGoal, durable, lanes, inputs, Save, Fault,
   Throw, Refuse, Call

LEMMA RoomWriters ==
    ASSUME Next
    PROVE  UNCHANGED room \/ Allocate \/ Release
BY DEF Next, HostStep, ToolStep, Environment, Start, Exit, Boot, BootCancelled, Cancel, Find,
   FindCancelled, Classify, Settle, Stop, Plan, Discard, Authorize, AuthorizeLost, Adopt,
   StartThread, Bind, BindLost, Activate, Register, StartFails, StartFailed, Monitor,
   MonitorFails, Operator, Suspend, SuspendNote, SuspendGoal, SuspendRead, Contain,
   ContainNote, ContainPause, ContainArchive, ContainRead, ContainFail, Close, CloseFails,
   Forget, UnbornClaims, UnbornReleases, UnbornFail, Resume, ResumeStale, Reactivate, Reopen,
   ResumeFails, CommitCheckpoint, AnswerCheckpoint, SaveCheckpoint, Crash, CrashUnsaved,
   OperatorStop, AskCheckpoint, GoalEnds, RecoverActiveGoal, durable, lanes, inputs, Save,
   Fault, Throw, Refuse, Call


LEMMA ToolWriters ==
    ASSUME Next, tool = "answered"
    PROVE  tool' = tool \/ Start \/ SaveCheckpoint
BY DEF Next, HostStep, ToolStep, Environment, AskCheckpoint, CommitCheckpoint,
   AnswerCheckpoint, Exit, Boot, BootCancelled, Cancel, Find, FindCancelled, Classify,
   Settle, Stop, Plan, Discard, Authorize, AuthorizeLost, Adopt, Allocate, StartThread, Bind,
   BindLost, Activate, Register, StartFails, StartFailed, Monitor, MonitorFails, Operator,
   Suspend, SuspendNote, SuspendGoal, SuspendRead, Contain, ContainNote, ContainPause,
   ContainArchive, ContainRead, ContainFail, Close, CloseFails, Release, Forget,
   UnbornClaims, UnbornReleases, UnbornFail, Resume, ResumeStale, Reactivate, Reopen,
   ResumeFails, Crash, CrashUnsaved, OperatorStop, GoalEnds, durable, lanes, inputs

\* A Host that is down does nothing but start.
LEMMA LeavesDown ==
    ASSUME Next, pc = "down"
    PROVE  Start \/ pc' = "down"
BY DEF Next, HostStep, ToolStep, Environment, Exit, Boot, BootCancelled, Cancel, Find,
   FindCancelled, Classify, Settle, Stop, Plan, Discard, Authorize, AuthorizeLost, Adopt,
   Allocate, StartThread, Bind, BindLost, Activate, Register, StartFails, StartFailed,
   Monitor, MonitorFails, Operator, Suspend, SuspendNote, SuspendGoal, SuspendRead, Contain,
   ContainNote, ContainPause, ContainArchive, ContainRead, ContainFail, Close, CloseFails,
   Release, Forget, UnbornClaims, UnbornReleases, UnbornFail, Resume, ResumeStale,
   Reactivate, Reopen, ResumeFails, CommitCheckpoint, AnswerCheckpoint, SaveCheckpoint,
   Crash, CrashUnsaved, OperatorStop, AskCheckpoint, GoalEnds, durable, lanes, inputs

-----------------------------------------------------------------------------
(* What the invariant gives in hand.                                         *)

\* What the invariant says of the records and the Store, taken apart.
LEMMA InHand ==
    ASSUME IInv
    PROVE  /\ PhaseAt /\ EpochAt /\ LanesAt /\ Chain /\ WorkIsBound
           /\ Agrees(saved) /\ (pc # "down" => Agrees(active) /\ Same)
           /\ active \in ActiveGoals \cup {NoGoal} /\ saved \in ActiveGoals \cup {NoGoal}
           /\ active.phase # "none" => active \in ActiveGoals /\ active.ws \in Workspaces
           /\ saved.phase # "none" => saved \in ActiveGoals /\ saved.ws \in Workspaces
           /\ epochs \in Seq(EpochRecords) /\ Len(epochs) \in 0 .. MaxEpochs
           /\ goal \in [Workspaces -> GoalStates]
BY GoalIs DEF IInv, Recorded, TypeOK, EpochRecords, Chain

LEMMA SavedAgrees ==
    ASSUME NEW r, Save(r), UNCHANGED epochs,
           Fits(r, Len(epochs), Current.state, Current.thread, Used)
    PROVE  Recorded'
<1>1. Agrees(saved)' /\ Agrees(active)' /\ saved' = active'
  BY EpochsKept DEF Agrees, Save
<1> QED BY <1>1 DEF Recorded, Same

\* A reason may be written over a Goal that is registered or about to be.
LEMMA WhyAgrees ==
    ASSUME NEW why, active \in ActiveGoals, Agrees(active), UNCHANGED epochs,
           Save([active EXCEPT !.why = why]),
           \/ active.phase \in {"pending", "registered"}
           \/ active.phase = "checkpointed" /\ why = None
    PROVE  Recorded'
<1> DEFINE r == [active EXCEPT !.why = why]
<1>1. /\ r.phase = active.phase /\ r.thread = active.thread /\ r.ws = active.ws
      /\ r.epoch = active.epoch /\ r.why = why
  BY DEF ActiveGoals
<1>2. Save(r)
  OBVIOUS
<1> HIDE DEF r
<1>3. Fits(r, Len(epochs), Current.state, Current.thread, Used)
  BY <1>1 DEF Agrees, Fits, Roots
<1> QED BY <1>2, <1>3, SavedAgrees


-----------------------------------------------------------------------------
(* Types.                                                                    *)

LEMMA RecordTypes ==
    ASSUME IInv, Next
    PROVE  saved' \in ActiveGoals \cup {NoGoal} /\ active' \in ActiveGoals \cup {NoGoal}
<1> USE DEF durable, lanes, inputs, Save, Fault, Throw, Refuse, Call
<1>0. /\ active \in ActiveGoals \cup {NoGoal} /\ saved \in ActiveGoals \cup {NoGoal}
      /\ PhaseAt /\ LanesAt
      /\ active.phase # "none" => active \in ActiveGoals /\ active.ws \in Workspaces
      /\ Len(epochs) \in 0 .. MaxEpochs
  BY GoalIs DEF IInv, TypeOK, Chain
<1>1. CASE Start
  BY <1>1, <1>0, BoundsAssumption DEF Start, ActiveGoals, NoGoal, PhaseAt, LanesAt, Phases,
     SuspensionReasons, Roots
<1>2. CASE Find
  <2>1. active \in ActiveGoals /\ active.ws \in Workspaces
    BY <1>0, <1>2 DEF Find, PhaseAt
  <2>2. [active EXCEPT !.thread = active.ws, !.phase = "pending"] \in ActiveGoals
    BY <2>1 DEF ActiveGoals, Phases
  <2> QED BY <1>0, <1>2, <2>2 DEF Find
<1>3. CASE Classify
  BY <1>3, <1>0, BoundsAssumption DEF Classify, ActiveGoals, NoGoal, PhaseAt, LanesAt,
     Phases, SuspensionReasons, Roots
<1>4. CASE Plan
  BY <1>4, <1>0, BoundsAssumption DEF Plan, ActiveGoals, NoGoal, PhaseAt, LanesAt, Phases,
     SuspensionReasons, Roots
<1>5. CASE Discard
  BY <1>5, <1>0, BoundsAssumption DEF Discard, ActiveGoals, NoGoal, PhaseAt, LanesAt, Phases,
     SuspensionReasons, Roots
<1>6. CASE Adopt
  BY <1>6, <1>0, BoundsAssumption DEF Adopt, ActiveGoals, NoGoal, PhaseAt, LanesAt, Phases,
     SuspensionReasons, Roots
<1>7. CASE StartThread
  BY <1>7, <1>0, BoundsAssumption DEF StartThread, ActiveGoals, NoGoal, PhaseAt, LanesAt,
     Phases, SuspensionReasons, Roots
<1>8. CASE Register
  BY <1>8, <1>0, BoundsAssumption DEF Register, ActiveGoals, NoGoal, PhaseAt, LanesAt,
     Phases, SuspensionReasons, Roots
<1>9. CASE Monitor
  BY <1>9, <1>0, BoundsAssumption DEF Monitor, ActiveGoals, NoGoal, PhaseAt, LanesAt, Phases,
     SuspensionReasons, Roots
<1>10. CASE SuspendNote
  BY <1>10, <1>0, BoundsAssumption DEF SuspendNote, ActiveGoals, NoGoal, PhaseAt, LanesAt,
     Phases, SuspensionReasons, Roots
<1>11. CASE SuspendRead
  <2>1. active \in ActiveGoals
    BY <1>0, <1>11 DEF SuspendRead, PhaseAt, Roots
  <2>2. \A why \in SuspensionReasons :
           [active EXCEPT !.phase = "suspended", !.why = why] \in ActiveGoals
    BY <2>1 DEF ActiveGoals, Phases
  <2>3. \/ UNCHANGED <<active, saved>>
        \/ \E why \in SuspensionReasons :
              Save([active EXCEPT !.phase = "suspended", !.why = why])
    <3>1. CASE Exactly({"bound"}) /\ ~Exactly({"checkpointed"})
      BY <1>11, <3>1 DEF SuspendRead, SuspensionReasons
    <3>2. CASE Exactly({"checkpointed"}) /\ ~Exactly({"bound"})
      BY <1>11, <3>2 DEF SuspendRead
    <3>3. CASE ~Exactly({"bound"}) /\ ~Exactly({"checkpointed"})
      BY <1>11, <3>3 DEF SuspendRead
    <3>4. ~(Exactly({"bound"}) /\ Exactly({"checkpointed"}))
      BY DEF Exactly
    <3> QED BY <3>1, <3>2, <3>3, <3>4
  <2> QED BY <1>0, <2>2, <2>3
<1>12. CASE ContainNote
  BY <1>12, <1>0, BoundsAssumption DEF ContainNote, ActiveGoals, NoGoal, PhaseAt, LanesAt,
     Phases, SuspensionReasons, Roots
<1>13. CASE Forget
  BY <1>13, <1>0, BoundsAssumption DEF Forget, ActiveGoals, NoGoal, PhaseAt, LanesAt, Phases,
     SuspensionReasons, Roots
<1>14. CASE UnbornClaims
  BY <1>14, <1>0, BoundsAssumption DEF UnbornClaims, ActiveGoals, NoGoal, PhaseAt, LanesAt,
     Phases, SuspensionReasons, Roots
<1>15. CASE Resume
  BY <1>15, <1>0, BoundsAssumption DEF Resume, ActiveGoals, NoGoal, PhaseAt, LanesAt, Phases,
     SuspensionReasons, Roots
<1>16. CASE Reopen
  BY <1>16, <1>0, BoundsAssumption DEF Reopen, ActiveGoals, NoGoal, PhaseAt, LanesAt, Phases,
     SuspensionReasons, Roots
<1>17. CASE AnswerCheckpoint
  <2>1. saved' = saved
    BY <1>17 DEF AnswerCheckpoint
  <2>2. CASE Exactly({"checkpointed"})
    <3>1. active \in ActiveGoals
      BY <1>0, <2>2 DEF Exactly, OwnEpoch, NoGoal
    <3>2. active' = [active EXCEPT !.phase = "checkpointed", !.why = None]
      BY <1>17, <2>2 DEF AnswerCheckpoint
    <3> QED BY <1>0, <2>1, <3>1, <3>2 DEF ActiveGoals, Phases
  <2>3. CASE ~Exactly({"checkpointed"})
    BY <1>0, <1>17, <2>1, <2>3 DEF AnswerCheckpoint
  <2> QED BY <2>2, <2>3
<1>18. CASE SaveCheckpoint
  BY <1>18, <1>0, BoundsAssumption DEF SaveCheckpoint, ActiveGoals, NoGoal, PhaseAt, LanesAt,
     Phases, SuspensionReasons, Roots
<1>19. CASE UNCHANGED <<saved, active>>
  BY <1>0, <1>19
<1> QED BY <1>1, <1>2, <1>3, <1>4, <1>5, <1>6, <1>7, <1>8, <1>9, <1>10, <1>11, <1>12, <1>13,
   <1>14, <1>15, <1>16, <1>17, <1>18, <1>19, RecordWriters

LEMMA EpochTypes ==
    ASSUME IInv, Next
    PROVE  epochs' \in Seq(EpochRecords)
<1> USE DEF durable, lanes, inputs, Save, Fault, Throw, Refuse, Call
<1>0. /\ epochs \in Seq(EpochRecords) /\ active.thread \in Workspaces \cup {None}
      /\ PhaseAt /\ EpochAt
  BY GoalIs DEF IInv, TypeOK, EpochRecords
<1>1. CASE Settle
  BY <1>1, <1>0, CurrentIs, SetCurrentIs, AuthorizedIs DEF Settle, EpochStates, EpochAt,
     OwnEpoch, Exactly, Live
<1>2. CASE Authorize
  BY <1>2, <1>0, CurrentIs, SetCurrentIs, AuthorizedIs DEF Authorize, EpochStates, EpochAt,
     OwnEpoch, Exactly, Live
<1>3. CASE AuthorizeLost
  BY <1>3, <1>0, CurrentIs, SetCurrentIs, AuthorizedIs DEF AuthorizeLost, EpochStates,
     EpochAt, OwnEpoch, Exactly, Live
<1>4. CASE Bind
  BY <1>4, <1>0, CurrentIs, SetCurrentIs, AuthorizedIs DEF Bind, EpochStates, EpochAt,
     OwnEpoch, Exactly, Live
<1>5. CASE BindLost
  BY <1>5, <1>0, CurrentIs, SetCurrentIs, AuthorizedIs DEF BindLost, EpochStates, EpochAt,
     OwnEpoch, Exactly, Live
<1>6. CASE ContainFail
  BY <1>6, <1>0, CurrentIs, SetCurrentIs, AuthorizedIs DEF ContainFail, EpochStates, EpochAt,
     OwnEpoch, Exactly, Live
<1>7. CASE UnbornFail
  BY <1>7, <1>0, CurrentIs, SetCurrentIs, AuthorizedIs DEF UnbornFail, EpochStates, EpochAt,
     OwnEpoch, Exactly, Live
<1>8. CASE CommitCheckpoint
  BY <1>8, <1>0, CurrentIs, SetCurrentIs, AuthorizedIs DEF CommitCheckpoint, EpochStates,
     EpochAt, OwnEpoch, Exactly, Live
<1>9. CASE Crash
  BY <1>9, <1>0, CurrentIs, SetCurrentIs, AuthorizedIs DEF Crash, EpochStates, EpochAt,
     OwnEpoch, Exactly, Live
<1>10. CASE UNCHANGED epochs
  BY <1>0, <1>10
<1> QED BY <1>1, <1>2, <1>3, <1>4, <1>5, <1>6, <1>7, <1>8, <1>9, <1>10, EpochWriters

LEMMA GoalTypes ==
    ASSUME IInv, Next
    PROVE  goal' \in [Workspaces -> GoalStates]
<1> USE DEF durable, lanes, inputs, Save, Fault, Throw, Refuse, Call
<1>0. goal \in [Workspaces -> GoalStates]
  BY DEF IInv, TypeOK
<1>1. CASE StartThread
  BY <1>1, <1>0 DEF StartThread, GoalStates
<1>2. CASE Activate
  BY <1>2, <1>0 DEF Activate, GoalStates
<1>3. CASE StartFailed
  BY <1>3, <1>0 DEF StartFailed, GoalStates
<1>4. CASE Monitor
  BY <1>4, <1>0 DEF Monitor, GoalStates
<1>5. CASE SuspendGoal
  BY <1>5, <1>0 DEF SuspendGoal, GoalStates
<1>6. CASE ContainPause
  BY <1>6, <1>0 DEF ContainPause, GoalStates
<1>7. CASE ContainArchive
  BY <1>7, <1>0 DEF ContainArchive, GoalStates
<1>8. CASE Reactivate
  BY <1>8, <1>0 DEF Reactivate, GoalStates
<1>9. CASE ResumeFails
  BY <1>9, <1>0 DEF ResumeFails, GoalStates
<1>10. CASE CrashUnsaved
  BY <1>10, <1>0 DEF CrashUnsaved, GoalStates
<1>11. CASE GoalEnds
  BY <1>11, <1>0 DEF GoalEnds, GoalStates
<1>12. CASE UNCHANGED goal
  BY <1>12, <1>0
<1> QED BY <1>1, <1>2, <1>3, <1>4, <1>5, <1>6, <1>7, <1>8, <1>9, <1>10, <1>11, <1>12,
   GoalWriters

LEMMA LaneTypes ==
    ASSUME IInv, Next
    PROVE  /\ pc' \in Steps /\ {armed', stop'} \subseteq BOOLEAN
           /\ run' \in {"none", "running", "closed", "suspended", "terminal"}
           /\ tool' \in {"idle", "asked", "committed", "answered"}
           /\ stops' \in 0..MaxStops /\ faults' \in 0..MaxFaults
<1> USE DEF durable, lanes, inputs, Save, Fault, Throw, Refuse, Call
<1>0. TypeOK
  BY DEF IInv
<1>1. CASE Start
  BY <1>1, <1>0, BoundsAssumption DEF Start, TypeOK, Steps
<1>2. CASE Exit
  BY <1>2, <1>0, BoundsAssumption DEF Exit, TypeOK, Steps
<1>3. CASE Boot
  BY <1>3, <1>0, BoundsAssumption DEF ReleasedButSaved, Boot, RecoverActiveGoal, TypeOK, Steps
<1>4. CASE BootCancelled \/ Cancel \/ Find
  BY <1>4, <1>0, BoundsAssumption DEF ReleasedButSaved, BootCancelled, Cancel, Find, TypeOK,
     Steps
<1>5. CASE FindCancelled \/ Classify \/ Settle
  BY <1>5, <1>0, BoundsAssumption DEF FindCancelled, Classify, Settle, TypeOK, Steps
<1>6. CASE Stop \/ Plan \/ Discard
  BY <1>6, <1>0, BoundsAssumption DEF Stop, Plan, Discard, TypeOK, Steps
<1>7. CASE Authorize \/ AuthorizeLost \/ Adopt
  BY <1>7, <1>0, BoundsAssumption DEF Authorize, AuthorizeLost, Adopt, TypeOK, Steps
<1>8. CASE Allocate \/ StartThread \/ Bind
  BY <1>8, <1>0, BoundsAssumption DEF Allocate, StartThread, Bind, Bound, TypeOK, Steps
<1>9. CASE BindLost \/ Activate \/ Register
  BY <1>9, <1>0, BoundsAssumption DEF BindLost, Activate, Register, TypeOK, Steps
<1>10. CASE StartFails
  BY <1>10, <1>0, BoundsAssumption DEF StartFails, TypeOK, Steps
<1>11. CASE StartFailed
  BY <1>11, <1>0, BoundsAssumption DEF StartFailed, TypeOK, Steps
<1>12. CASE Monitor
  BY <1>12, <1>0, BoundsAssumption DEF Monitor, TypeOK, Steps
<1>13. CASE MonitorFails \/ Operator \/ Suspend
  BY <1>13, <1>0, BoundsAssumption DEF MonitorFails, Operator, Suspend, TypeOK, Steps
<1>14. CASE SuspendNote \/ SuspendGoal \/ SuspendRead
  BY <1>14, <1>0, BoundsAssumption DEF SuspendNote, SuspendGoal, SuspendRead, TypeOK, Steps
<1>15. CASE Contain \/ ContainNote \/ ContainPause
  BY <1>15, <1>0, BoundsAssumption DEF Contain, ContainNote, ContainPause, TypeOK, Steps
<1>16. CASE ContainArchive
  BY <1>16, <1>0, BoundsAssumption DEF ContainArchive, TypeOK, Steps
<1>17. CASE ContainRead
  BY <1>17, <1>0, BoundsAssumption DEF ContainRead, TypeOK, Steps
<1>18. CASE ContainFail
  BY <1>18, <1>0, BoundsAssumption DEF ContainFail, TypeOK, Steps
<1>19. CASE Close \/ CloseFails \/ Release
  BY <1>19, <1>0, BoundsAssumption DEF Close, CloseFails, Release, TypeOK, Steps
<1>20. CASE Forget
  BY <1>20, <1>0, BoundsAssumption DEF Forget, TypeOK, Steps
<1>21. CASE UnbornClaims
  BY <1>21, <1>0, BoundsAssumption DEF UnbornClaims, TypeOK, Steps
<1>22. CASE UnbornReleases
  BY <1>22, <1>0, BoundsAssumption DEF UnbornReleases, TypeOK, Steps
<1>23. CASE UnbornFail
  BY <1>23, <1>0, BoundsAssumption DEF UnbornFail, TypeOK, Steps
<1>24. CASE Resume
  BY <1>24, <1>0, BoundsAssumption DEF Resume, TypeOK, Steps
<1>25. CASE ResumeStale
  BY <1>25, <1>0, BoundsAssumption DEF ResumeStale, TypeOK, Steps
<1>26. CASE Reactivate \/ Reopen \/ ResumeFails
  BY <1>26, <1>0, BoundsAssumption DEF Reactivate, Reopen, ResumeFails, TypeOK, Steps
<1>27. CASE CommitCheckpoint \/ AnswerCheckpoint \/ SaveCheckpoint
  BY <1>27, <1>0, BoundsAssumption DEF CommitCheckpoint, AnswerCheckpoint, SaveCheckpoint,
     TypeOK, Steps
<1>28. CASE Crash
  BY <1>28, <1>0, BoundsAssumption DEF Crash, TypeOK, Steps
<1>29. CASE CrashUnsaved
  BY <1>29, <1>0, BoundsAssumption DEF CrashUnsaved, TypeOK, Steps
<1>30. CASE OperatorStop
  BY <1>30, <1>0, BoundsAssumption DEF OperatorStop, TypeOK, Steps
<1>31. CASE AskCheckpoint \/ GoalEnds
  BY <1>31, <1>0, BoundsAssumption DEF AskCheckpoint, GoalEnds, TypeOK, Steps
<1> QED BY <1>1, <1>2, <1>3, <1>4, <1>5, <1>6, <1>7, <1>8, <1>9, <1>10, <1>11, <1>12, <1>13,
   <1>14, <1>15, <1>16, <1>17, <1>18, <1>19, <1>20, <1>21, <1>22, <1>23, <1>24, <1>25, <1>26,
   <1>27, <1>28, <1>29, <1>30, <1>31 DEF Next, HostStep, ToolStep, Environment


LEMMA JobTypes ==
    ASSUME IInv, Next
    PROVE  job' \in [reason : StopReasons \cup SuspensionReasons, mode : {"start", "recover", "cancel"},
                     then : {"loop", "settle", "down"}]
<1> USE DEF durable, lanes, inputs, Save, Fault, Throw, Refuse, Call
<1>0. job \in [reason : StopReasons \cup SuspensionReasons, mode : {"start", "recover", "cancel"},
                     then : {"loop", "settle", "down"}]
  BY DEF IInv, TypeOK
<1>1. CASE Start \/ Exit \/ Boot
  BY <1>1, <1>0 DEF Start, Exit, Boot, RecoverActiveGoal, StopReasons, SuspensionReasons,
     Interrupted
<1>2. CASE BootCancelled \/ Cancel \/ Find
  BY <1>2, <1>0 DEF BootCancelled, Cancel, Find, StopReasons, SuspensionReasons, Interrupted
<1>3. CASE FindCancelled \/ Classify \/ Settle
  BY <1>3, <1>0 DEF FindCancelled, Classify, Settle, StopReasons, SuspensionReasons, Interrupted
<1>4. CASE Stop \/ Plan \/ Discard
  BY <1>4, <1>0 DEF Stop, Plan, Discard, StopReasons, SuspensionReasons, Interrupted
<1>5. CASE Authorize \/ AuthorizeLost \/ Adopt
  BY <1>5, <1>0 DEF Authorize, AuthorizeLost, Adopt, StopReasons, SuspensionReasons, Interrupted
<1>6. CASE Allocate \/ StartThread \/ Bind
  BY <1>6, <1>0 DEF Allocate, StartThread, Bind, StopReasons, SuspensionReasons, Interrupted
<1>7. CASE BindLost \/ Activate \/ Register
  BY <1>7, <1>0 DEF BindLost, Activate, Register, StopReasons, SuspensionReasons, Interrupted
<1>8. CASE StartFails \/ StartFailed \/ Monitor
  BY <1>8, <1>0 DEF StartFails, StartFailed, Monitor, StopReasons, SuspensionReasons,
     Interrupted
<1>9. CASE MonitorFails \/ Operator \/ Suspend
  BY <1>9, <1>0 DEF MonitorFails, Operator, Suspend, StopReasons, SuspensionReasons, Interrupted
<1>10. CASE SuspendNote \/ SuspendGoal \/ SuspendRead
  BY <1>10, <1>0 DEF SuspendNote, SuspendGoal, SuspendRead, StopReasons, SuspensionReasons,
     Interrupted
<1>11. CASE Contain \/ ContainNote \/ ContainPause
  BY <1>11, <1>0 DEF Contain, ContainNote, ContainPause, StopReasons, SuspensionReasons,
     Interrupted
<1>12. CASE ContainArchive \/ ContainRead \/ ContainFail
  BY <1>12, <1>0 DEF ContainArchive, ContainRead, ContainFail, StopReasons,
     SuspensionReasons, Interrupted
<1>13. CASE Close \/ CloseFails \/ Release
  BY <1>13, <1>0 DEF Close, CloseFails, Release, StopReasons, SuspensionReasons, Interrupted
<1>14. CASE Forget \/ UnbornClaims \/ UnbornReleases
  BY <1>14, <1>0 DEF Forget, UnbornClaims, UnbornReleases, StopReasons, SuspensionReasons,
     Interrupted
<1>15. CASE UnbornFail \/ Resume \/ ResumeStale
  BY <1>15, <1>0 DEF UnbornFail, Resume, ResumeStale, StopReasons, SuspensionReasons,
     Interrupted
<1>16. CASE Reactivate \/ Reopen \/ ResumeFails
  BY <1>16, <1>0 DEF Reactivate, Reopen, ResumeFails, StopReasons, SuspensionReasons,
     Interrupted
<1>17. CASE CommitCheckpoint \/ AnswerCheckpoint \/ SaveCheckpoint
  BY <1>17, <1>0 DEF CommitCheckpoint, AnswerCheckpoint, SaveCheckpoint, StopReasons,
     SuspensionReasons, Interrupted
<1>18. CASE Crash \/ CrashUnsaved \/ OperatorStop
  BY <1>18, <1>0 DEF Crash, CrashUnsaved, OperatorStop, StopReasons, SuspensionReasons,
     Interrupted
<1>19. CASE AskCheckpoint \/ GoalEnds
  BY <1>19, <1>0 DEF AskCheckpoint, GoalEnds, StopReasons, SuspensionReasons, Interrupted
<1> QED BY <1>1, <1>2, <1>3, <1>4, <1>5, <1>6, <1>7, <1>8, <1>9, <1>10, <1>11, <1>12, <1>13,
   <1>14, <1>15, <1>16, <1>17, <1>18, <1>19 DEF Next, HostStep, ToolStep, Environment

LEMMA TypesStep ==
    ASSUME IInv, Next
    PROVE  TypeOK'
<1>1. room' \subseteq Workspaces
  <2>1. room \subseteq Workspaces
    BY DEF IInv, TypeOK
  <2>2. CASE Allocate
    <3>1. active.ws \in Workspaces
      BY <2>2, InHand DEF Allocate, PhaseAt
    <3> QED BY <2>1, <2>2, <3>1 DEF Allocate
  <2>3. CASE Release
    BY <2>1, <2>3 DEF Release
  <2> QED BY <2>1, <2>2, <2>3, RoomWriters
<1> QED BY <1>1, RecordTypes, EpochTypes, GoalTypes, LaneTypes, JobTypes DEF TypeOK,
   EpochRecords

-----------------------------------------------------------------------------
(* Steps that record nothing in the Store keep the state file in step with it. *)

LEMMA RecordedStep ==
    ASSUME IInv, Next, UNCHANGED epochs
    PROVE  Recorded'
<1> USE DEF durable, lanes, inputs, Save
<1>0. /\ PhaseAt /\ EpochAt /\ LanesAt /\ Chain
      /\ Agrees(saved) /\ (pc # "down" => Agrees(active) /\ Same)
      /\ active.phase # "none" => active \in ActiveGoals /\ active.ws \in Workspaces
      /\ saved.phase # "none" => saved \in ActiveGoals /\ saved.ws \in Workspaces
      /\ active \in ActiveGoals \cup {NoGoal} /\ saved \in ActiveGoals \cup {NoGoal}
      /\ epochs \in Seq(EpochRecords) /\ Len(epochs) \in 0 .. MaxEpochs
      /\ None \notin Workspaces
  BY InHand, NoneAssumption
<1>1. CASE Start
  BY <1>0, <1>1, EpochsKept DEF Start, Agrees, Recorded, Same
<1>2. CASE Find
  <2>1. active \in ActiveGoals /\ Agrees(active) /\ active.phase = "authorized"
    BY <1>0, <1>2 DEF Find, PhaseAt
  <2>2. CASE UNCHANGED <<active, saved>>
    BY <1>2, <2>2, RecordedKept DEF Find
  <2>3. CASE Save([active EXCEPT !.thread = active.ws, !.phase = "pending"])
    <3> DEFINE r == [active EXCEPT !.thread = active.ws, !.phase = "pending"]
    <3>1. /\ r.phase = "pending" /\ r.thread = r.ws /\ r.ws = active.ws
          /\ r.epoch = active.epoch /\ r.why = active.why
      BY <2>1 DEF ActiveGoals
    <3> HIDE DEF r
    <3>2. Fits(r, Len(epochs), Current.state, Current.thread, Used)
      BY <2>1, <3>1 DEF Agrees, Fits, Roots
    <3>3. Save(r) /\ UNCHANGED epochs
      BY <1>2, <2>3 DEF Find, r
    <3> QED BY <3>2, <3>3, SavedAgrees
  <2> QED BY <1>2, <2>2, <2>3 DEF Find
<1>3. CASE Classify
  <2>1. active \in ActiveGoals /\ Agrees(active) /\ active.phase \in {"pending", "registered"}
    BY <1>0, <1>3 DEF Classify, PhaseAt, EpochAt, Roots, Agrees, Fits
  <2>2. UNCHANGED epochs /\ (\/ \E why : Save([active EXCEPT !.why = why])
                            \/ UNCHANGED <<active, saved>>)
    BY <1>3 DEF Classify
  <2> QED BY <1>3, <2>1, <2>2, WhyAgrees, RecordedKept DEF Classify
<1>4. CASE Plan
  <2>1. PICK w \in Workspaces \ room :
           /\ goal[w] = "absent"
           /\ Save([phase |-> "planned", ws |-> w, thread |-> None, epoch |-> 0, why |-> None])
    BY <1>4 DEF Plan
  <2>2. w \notin Used
    BY <1>0, <2>1 DEF Chain, Used
  <2>3. Current.state # "bound"
    BY <1>0, <1>4 DEF Plan, PhaseAt, NoGoal, Agrees, Fits
  <2> DEFINE r == [phase |-> "planned", ws |-> w, thread |-> None, epoch |-> 0, why |-> None]
  <2>4. /\ r.phase = "planned" /\ r.thread = None /\ r.ws = w /\ r.epoch = 0 /\ r.why = None
        /\ Save(r) /\ UNCHANGED epochs
    BY <1>4, <2>1 DEF Plan
  <2> HIDE DEF r
  <2>5. Fits(r, Len(epochs), Current.state, Current.thread, Used)
    BY <2>2, <2>3, <2>4 DEF Fits, Roots
  <2> QED BY <2>4, <2>5, SavedAgrees
<1>5. CASE Discard \/ Forget
  <2>1. Save(NoGoal) /\ UNCHANGED epochs /\ Current.state # "bound"
    BY <1>0, <1>5 DEF Discard, Forget, PhaseAt, EpochAt, Agrees, Fits
  <2>2. Fits(NoGoal, Len(epochs), Current.state, Current.thread, Used)
    BY <2>1 DEF NoGoal, Fits, Roots
  <2> QED BY <2>1, <2>2, SavedAgrees
<1>6. CASE Adopt
  <2>1. active \in ActiveGoals /\ Agrees(active) /\ active.phase = "planned"
        /\ Current.state = "authorized" /\ Current.thread = None /\ Len(epochs) # 0
    BY <1>0, <1>6, CurrentIs DEF Adopt, PhaseAt, EpochAt
  <2> DEFINE r == [active EXCEPT !.epoch = Len(epochs), !.phase = "authorized"]
  <2>2. /\ r.phase = "authorized" /\ r.thread = active.thread /\ r.ws = active.ws
        /\ r.epoch = Len(epochs) /\ r.why = active.why
    BY <2>1 DEF ActiveGoals
  <2>3. Save(r) /\ UNCHANGED epochs
    BY <1>6 DEF Adopt
  <2> HIDE DEF r
  <2>4. Fits(r, Len(epochs), Current.state, Current.thread, Used)
    BY <2>1, <2>2 DEF Agrees, Fits, Roots
  <2> QED BY <2>3, <2>4, SavedAgrees
<1>7. CASE StartThread
  <2>1. active \in ActiveGoals /\ Agrees(active) /\ active.phase = "authorized" /\ tool' = tool
    BY <1>0, <1>7 DEF StartThread, PhaseAt
  <2>2. CASE UNCHANGED <<active, saved>>
    BY <1>7, <2>2, RecordedKept DEF StartThread
  <2>3. CASE Save([active EXCEPT !.thread = active.ws, !.phase = "pending"])
    <3> DEFINE r == [active EXCEPT !.thread = active.ws, !.phase = "pending"]
    <3>1. /\ r.phase = "pending" /\ r.thread = r.ws /\ r.ws = active.ws
          /\ r.epoch = active.epoch /\ r.why = active.why
      BY <2>1 DEF ActiveGoals
    <3> HIDE DEF r
    <3>2. Fits(r, Len(epochs), Current.state, Current.thread, Used)
      BY <2>1, <3>1 DEF Agrees, Fits, Roots
    <3>3. Save(r) /\ UNCHANGED epochs
      BY <1>7, <2>3 DEF StartThread, r
    <3> QED BY <3>2, <3>3, SavedAgrees
  <2> QED BY <1>7, <2>2, <2>3 DEF StartThread
<1>8. CASE Register \/ Resume
  <2>1. CASE UNCHANGED <<active, saved>>
    BY <1>8, <2>1, RecordedKept DEF Register, Resume
  <2>2. CASE Save([active EXCEPT !.phase = "registered"])
    <3>1. active \in ActiveGoals /\ Agrees(active) /\ active.phase \in {"pending", "suspended"}
          /\ Current.state = "bound" /\ Current.thread = active.thread /\ UNCHANGED epochs
      BY <1>0, <1>8 DEF Register, Resume, PhaseAt, EpochAt, Agrees, Fits, Roots
    <3> DEFINE r == [active EXCEPT !.phase = "registered"]
    <3>2. /\ r.phase = "registered" /\ r.thread = active.thread /\ r.ws = active.ws
          /\ r.epoch = active.epoch /\ Save(r)
      BY <3>1, <2>2 DEF ActiveGoals
    <3> HIDE DEF r
    <3>3. Fits(r, Len(epochs), Current.state, Current.thread, Used)
      BY <3>1, <3>2 DEF Agrees, Fits, Roots
    <3> QED BY <3>1, <3>2, <3>3, SavedAgrees
  <2> QED BY <1>8, <2>1, <2>2 DEF Register, Resume
<1>9. CASE Monitor
  <2>1. active \in ActiveGoals /\ Agrees(active) /\ UNCHANGED <<epochs, tool>> /\ pc = "monitor"
        /\ active.phase \in {"registered", "checkpointed"}
    BY <1>0, <1>9 DEF Monitor, PhaseAt
  <2>2. \/ UNCHANGED <<active, saved>>
        \/ active.phase # "checkpointed" /\ Save([active EXCEPT !.why = "usage_limited"])
    BY <1>9 DEF Monitor
  <2> QED BY <2>1, <2>2, WhyAgrees, RecordedKept
<1>10. CASE SuspendNote \/ ContainNote
  <2>1. active \in ActiveGoals /\ Agrees(active) /\ UNCHANGED <<epochs, tool>> /\ pc # "down"
        /\ active.phase \in Roots
    BY <1>0, <1>10 DEF SuspendNote, ContainNote, PhaseAt, Roots
  <2>2. \/ UNCHANGED <<active, saved>>
        \/ active.phase # "checkpointed" /\ \E why : Save([active EXCEPT !.why = why])
    BY <1>10 DEF SuspendNote, ContainNote
  <2> QED BY <2>1, <2>2, WhyAgrees, RecordedKept DEF Roots
<1>11. CASE SuspendRead
  <2>1. active \in ActiveGoals /\ Agrees(active) /\ UNCHANGED <<epochs, tool>> /\ pc # "down"
        /\ active.phase \in Roots
    BY <1>0, <1>11 DEF SuspendRead, PhaseAt, Roots
  <2>2. \/ UNCHANGED <<active, saved>>
        \/ /\ Exactly({"bound"})
           /\ \E why : why # None /\ Save([active EXCEPT !.phase = "suspended", !.why = why])
    <3>1. CASE Exactly({"bound"})
      BY <1>11, <3>1, NoneAssumption DEF SuspendRead, Exactly
    <3>2. CASE ~Exactly({"bound"})
      BY <1>11, <3>2 DEF SuspendRead
    <3> QED BY <3>1, <3>2
  <2>3. CASE UNCHANGED <<active, saved>>
    BY <2>1, <2>3, RecordedKept
  <2>4. ASSUME NEW why, why # None, Save([active EXCEPT !.phase = "suspended", !.why = why]),
               Exactly({"bound"})
        PROVE  Recorded'
    <3> DEFINE r == [active EXCEPT !.phase = "suspended", !.why = why]
    <3>1. /\ r.phase = "suspended" /\ r.thread = active.thread /\ r.ws = active.ws
          /\ r.epoch = active.epoch /\ r.why = why /\ Save(r)
      BY <2>1, <2>4 DEF ActiveGoals
    <3> HIDE DEF r
    <3>2. Fits(r, Len(epochs), Current.state, Current.thread, Used)
      BY <2>1, <2>4, <3>1 DEF Agrees, Fits, Roots, Exactly, OwnEpoch
    <3> QED BY <2>1, <3>1, <3>2, SavedAgrees
  <2> QED BY <2>2, <2>3, <2>4
<1>12. CASE UnbornClaims
  <2>1. active \in ActiveGoals /\ Agrees(active) /\ active.phase \in {"planned", "authorized"}
        /\ Current.state = "authorized" /\ Len(epochs) # 0 /\ Current.thread = None
    BY <1>0, <1>12, CurrentIs DEF UnbornClaims, PhaseAt, Chain
  <2> DEFINE r == [active EXCEPT !.epoch = Len(epochs), !.phase = "authorized"]
  <2>2. /\ r.phase = "authorized" /\ r.thread = active.thread /\ r.ws = active.ws
        /\ r.epoch = Len(epochs) /\ r.why = active.why
    BY <2>1 DEF ActiveGoals
  <2>3. Save(r) /\ UNCHANGED epochs
    BY <1>12 DEF UnbornClaims
  <2> HIDE DEF r
  <2>4. Fits(r, Len(epochs), Current.state, Current.thread, Used)
    BY <2>1, <2>2 DEF Agrees, Fits, Roots
  <2> QED BY <2>3, <2>4, SavedAgrees
<1>13. CASE Reopen
  <2>1. active \in ActiveGoals /\ Agrees(active) /\ UNCHANGED epochs
        /\ active.phase \in {"registered", "checkpointed"}
        /\ Save([active EXCEPT !.why = None])
    BY <1>0, <1>13 DEF Reopen, PhaseAt
  <2> QED BY <2>1, WhyAgrees
<1>14. CASE SaveCheckpoint
  BY <1>0, <1>14, EpochsKept DEF SaveCheckpoint, Recorded, Agrees, Same
<1>15. CASE AnswerCheckpoint
  <2>1. /\ pc # "down" /\ tool = "committed" /\ tool' = "answered"
        /\ UNCHANGED <<pc, saved, epochs>> /\ saved = active
    BY <1>0, <1>15 DEF AnswerCheckpoint, Same
  <2>2. CASE active' = active
    BY <1>0, <2>1, <2>2, EpochsKept DEF Recorded, Agrees, Same
  <2>3. CASE /\ Exactly({"checkpointed"})
             /\ active' = [active EXCEPT !.phase = "checkpointed", !.why = None]
    <3>1. active \in ActiveGoals /\ Agrees(active) /\ active.phase \in {"registered", "checkpointed"}
      BY <1>0, <2>1, <2>3, GoalIs DEF Agrees, Fits, Phases, Roots, Exactly, OwnEpoch, NoGoal
    <3>2. /\ active'.phase = "checkpointed" /\ active'.thread = active.thread
          /\ active'.ws = active.ws /\ active'.epoch = active.epoch /\ active'.why = None
      BY <2>3, <3>1 DEF ActiveGoals
    <3>3. Fits(active', Len(epochs), Current.state, Current.thread, Used)
      BY <2>3, <3>1, <3>2 DEF Agrees, Fits, Roots, Exactly, OwnEpoch
    <3>4. Agrees(active)' /\ Agrees(saved)'
      BY <1>0, <2>1, <3>3, EpochsKept DEF Agrees
    <3>5. Same'
      <4>1. CASE active.phase = "registered"
        BY <2>1, <2>3, <4>1 DEF Same
      <4>2. CASE active.phase = "checkpointed"
        <5>1. active.why = None
          BY <3>1, <4>2 DEF Agrees, Fits
        <5>2. active' = active
          BY <2>3, <3>1, <4>2, <5>1 DEF ActiveGoals
        <5> QED BY <2>1, <5>2 DEF Same
      <4> QED BY <3>1, <4>1, <4>2
    <3> QED BY <2>1, <3>4, <3>5 DEF Recorded
  <2> QED BY <1>15, <2>2, <2>3 DEF AnswerCheckpoint
<1>16. CASE UNCHANGED <<saved, active>>
  <2>1. Agrees(saved)' /\ (pc # "down" => Agrees(active)')
    BY <1>0, <1>16, EpochsKept DEF Agrees
  <2>2. CASE saved = active
    BY <1>0, <1>16, <2>1, <2>2, EpochsKept DEF Recorded, Same, Agrees
  <2>3. CASE pc' = "down"
    BY <2>1, <2>3 DEF Recorded
  <2>4. CASE saved # active /\ pc # "down" /\ pc' # "down"
    <3>1. tool = "answered" /\ Same
      BY <1>0, <2>4 DEF Same
    <3>2. tool' = tool \/ SaveCheckpoint
      BY <2>4, <3>1, ToolWriters DEF Start
    <3> QED BY <1>14, <1>16, <2>1, <2>4, <3>1, <3>2 DEF Recorded, Same
  <2>5. pc = "down" => Start \/ pc' = "down"
    BY LeavesDown
  <2> QED BY <1>1, <2>2, <2>3, <2>4, <2>5
<1> QED BY <1>1, <1>2, <1>3, <1>4, <1>5, <1>6, <1>7, <1>8, <1>9, <1>10, <1>11, <1>12, <1>13,
        <1>14, <1>15, <1>16, RecordWriters

-----------------------------------------------------------------------------
(* Steps over the Store.                                                     *)

\* What an event over the current Epoch leaves of the chain.
LEMMA StoreSet ==
    ASSUME IInv, NEW state \in EpochStates \ {"authorized"}, NEW thread \in Workspaces \cup {None},
           SetCurrent(state, thread), Len(epochs) # 0, UNCHANGED <<saved, goal>>,
           thread # None => goal[thread] # "absent",
           Current.thread \in {None, thread}
    PROVE  Chain' /\ WorkIsBound'
<1>1. Chain /\ WorkIsBound /\ epochs \in Seq(EpochRecords)
  BY InHand
<1>2. /\ Len(epochs') = Len(epochs) /\ DOMAIN epochs' = DOMAIN epochs
      /\ \A n \in DOMAIN epochs : n # Len(epochs) => epochs'[n] = epochs[n]
      /\ epochs'[Len(epochs)].state = state /\ epochs'[Len(epochs)].thread = thread
      /\ Len(epochs) \in DOMAIN epochs /\ epochs[Len(epochs)].thread \in {None, thread}
  BY <1>1, SetCurrentIs, CurrentIs
<1>3. Chain'
  BY <1>1, <1>2, NoneAssumption DEF Chain
<1>4. WorkIsBound'
  <2> SUFFICES ASSUME NEW w \in Workspaces, goal'[w] \in Working
               PROVE  \E n \in DOMAIN epochs' : epochs'[n].thread = w
    BY DEF WorkIsBound, Working
  <2>1. PICK n \in DOMAIN epochs : epochs[n].thread = w
    BY <1>1 DEF WorkIsBound, Working
  <2> QED BY <2>1, <1>2, NoneAssumption
<1> QED BY <1>3, <1>4

\* So does a new authorization.
LEMMA StoreAdd ==
    ASSUME IInv, epochs' = Append(epochs, [state |-> "authorized", thread |-> None]),
           Len(epochs) < MaxEpochs, UNCHANGED <<saved, goal>>
    PROVE  Chain' /\ WorkIsBound'
<1>1. /\ Chain /\ WorkIsBound /\ epochs \in Seq(EpochRecords)
      /\ MaxEpochs \in Nat /\ Len(epochs) \in Nat
  BY InHand, CurrentIs, BoundsAssumption
<1>2. /\ Len(epochs') = Len(epochs) + 1
      /\ DOMAIN epochs' = 1 .. (Len(epochs) + 1) /\ DOMAIN epochs = 1 .. Len(epochs)
      /\ \A n \in DOMAIN epochs : epochs'[n] = epochs[n]
      /\ epochs'[Len(epochs) + 1].state = "authorized"
      /\ epochs'[Len(epochs) + 1].thread = None
  BY <1>1, AuthorizedIs
<1>3. Chain'
  BY <1>1, <1>2, NoneAssumption DEF Chain
<1>4. WorkIsBound'
  <2> SUFFICES ASSUME NEW w \in Workspaces, goal'[w] \in Working
               PROVE  \E n \in DOMAIN epochs' : epochs'[n].thread = w
    BY DEF WorkIsBound, Working
  <2>1. PICK n \in DOMAIN epochs : epochs[n].thread = w
    BY <1>1 DEF WorkIsBound, Working
  <2> QED BY <1>1, <2>1, <1>2
<1> QED BY <1>3, <1>4

LEMMA AgreesSet ==
    ASSUME epochs \in Seq(EpochRecords), Len(epochs) # 0,
           NEW state \in EpochStates, NEW thread \in Workspaces \cup {None},
           SetCurrent(state, thread),
           NEW r, Fits(r, Len(epochs), state, thread, Used \cup {thread})
    PROVE  Fits(r, Len(epochs'), Current'.state, Current'.thread, Used')
<1>1. /\ Len(epochs') = Len(epochs) /\ Current'.state = state /\ Current'.thread = thread
      /\ Used' \subseteq Used \cup {thread}
  BY SetCurrentIs
<1> QED BY <1>1 DEF Fits

\* A live Epoch may fail beside any record but that of a suspension.
LEMMA MayFail ==
    ASSUME IInv, Live, NEW r \in ActiveGoals \cup {NoGoal}, Agrees(r), r.phase # "suspended"
    PROVE  Fits(r, Len(epochs), "failed", Current.thread, Used \cup {Current.thread})
<1>1. Len(epochs) # 0 => Current.thread \in Used \/ Current.thread = None
  BY InHand, CurrentIs DEF Used
<1>2. r.phase # "none" => r.ws # None
  BY GoalIs, NoneAssumption
<1>3. Len(epochs) # 0
  BY InHand, CurrentIs DEF Live
<1> QED BY <1>1, <1>2, <1>3 DEF Agrees, Fits, Live, Roots

LEMMA EpochStep ==
    ASSUME IInv, Next
    PROVE  UNCHANGED epochs \/ (Recorded' /\ Chain' /\ WorkIsBound')
<1> USE DEF durable, lanes, inputs
<1>0. /\ PhaseAt /\ EpochAt /\ LanesAt /\ Chain
      /\ Agrees(saved) /\ (pc # "down" => Agrees(active) /\ Same)
      /\ active.phase # "none" => active \in ActiveGoals /\ active.ws \in Workspaces
      /\ saved.phase # "none" => saved \in ActiveGoals /\ saved.ws \in Workspaces
      /\ active \in ActiveGoals \cup {NoGoal} /\ saved \in ActiveGoals \cup {NoGoal}
      /\ epochs \in Seq(EpochRecords) /\ Len(epochs) \in 0 .. MaxEpochs
      /\ None \notin Workspaces
      /\ {"bound", "checkpointed", "failed"} \subseteq EpochStates
  BY InHand, NoneAssumption DEF EpochStates
<1>1. ASSUME Live, pc # "down"
      PROVE  saved = active
  <2>1. active.phase # "checkpointed"
    BY <1>0, <1>1 DEF Agrees, Fits, Live
  <2>2. CASE saved # active
    <3>1. saved \in ActiveGoals /\ active = [saved EXCEPT !.phase = "checkpointed", !.why = None]
      BY <1>0, <1>1, <2>2 DEF Same
    <3> QED BY <2>1, <3>1 DEF ActiveGoals
  <2> QED BY <2>2
<1>2. ASSUME Live, SetCurrent("failed", Current.thread),
             UNCHANGED <<saved, goal, active>>, pc # "down", active.phase # "suspended"
      PROVE  Recorded' /\ Chain' /\ WorkIsBound'
  <2>1. Len(epochs) # 0 /\ saved = active /\ Current.thread \in Workspaces \cup {None}
    BY <1>0, <1>1, <1>2, CurrentIs DEF Live
  <2>2. Current.thread # None => goal[Current.thread] # "absent"
    BY <1>0, <2>1, CurrentIs DEF Chain
  <2>3. Chain' /\ WorkIsBound'
    BY <1>0, <1>2, <2>1, <2>2, StoreSet
  <2>4. Fits(active, Len(epochs'), Current'.state, Current'.thread, Used')
    BY <1>0, <1>2, <2>1, MayFail, AgreesSet
  <2> QED BY <1>2, <2>1, <2>3, <2>4 DEF Recorded, Agrees, Same
<1>3. Current.state = "authorized" => Current.thread = None /\ Live
  BY <1>0, CurrentIs DEF Chain, Live
<1>4. ASSUME NEW thread \in Workspaces, SetCurrent("bound", thread),
             active.phase = "pending", thread = active.ws, Current.state = "authorized",
             UNCHANGED <<saved, goal, active>>, pc # "down"
      PROVE  Recorded' /\ Chain' /\ WorkIsBound'
  <2>1. Len(epochs) # 0 /\ saved = active /\ Agrees(active)
    BY <1>0, <1>1, <1>3, <1>4, CurrentIs
  <2>2. Chain' /\ WorkIsBound'
    BY <1>0, <1>3, <1>4, <2>1, StoreSet DEF Chain, Roots
  <2>3. Fits(active, Len(epochs), "bound", thread, Used \cup {thread})
    BY <1>0, <1>4, <2>1 DEF Agrees, Fits, Roots
  <2>4. Fits(active, Len(epochs'), Current'.state, Current'.thread, Used')
    BY <1>0, <1>4, <2>1, <2>3, AgreesSet
  <2> QED BY <1>4, <2>1, <2>2, <2>4 DEF Recorded, Agrees, Same
<1>5. ASSUME tool = "asked", pc # "down", Exactly({"bound"}),
             SetCurrent("checkpointed", active.thread), UNCHANGED <<saved, goal, active>>
      PROVE  Recorded' /\ Chain' /\ WorkIsBound'
  <2>1. Len(epochs) # 0 /\ saved = active /\ Agrees(active) /\ active.phase = "registered"
        /\ Current.thread = active.thread /\ active.thread \in Workspaces /\ Current.state = "bound"
    BY <1>0, <1>1, <1>5, CurrentIs DEF Exactly, OwnEpoch, Live, LanesAt, Agrees, Fits, Roots
  <2>2. goal[active.thread] # "absent"
    BY <1>0, <2>1, CurrentIs DEF Chain
  <2>3. Chain' /\ WorkIsBound'
    BY <1>0, <1>5, <2>1, <2>2, StoreSet
  <2>4. Fits(active, Len(epochs), "checkpointed", active.thread, Used \cup {active.thread})
    BY <1>0, <2>1 DEF Agrees, Fits, Roots
  <2>5. Fits(active, Len(epochs'), Current'.state, Current'.thread, Used')
    BY <1>0, <1>5, <2>1, <2>4, AgreesSet
  <2> QED BY <1>5, <2>1, <2>3, <2>5 DEF Recorded, Agrees, Same
<1>6. ASSUME pc = "authorize", UNCHANGED <<saved, goal, active>>,
             epochs' = Append(epochs, [state |-> "authorized", thread |-> None])
      PROVE  Recorded' /\ Chain' /\ WorkIsBound'
  <2>1. /\ Agrees(active) /\ active.phase = "planned" /\ active.ws \in Workspaces
        /\ Len(epochs) < MaxEpochs /\ saved = active
    BY <1>0, <1>6 DEF PhaseAt, EpochAt, Same, ActiveGoals
  <2>2. Chain' /\ WorkIsBound'
    BY <1>6, <2>1, StoreAdd
  <2>3. /\ Current'.state = "authorized" /\ Current'.thread = None
        /\ Used' \subseteq Used \cup {None}
    BY <1>0, <1>6, AuthorizedIs
  <2>4. Fits(active, Len(epochs'), Current'.state, Current'.thread, Used')
    BY <1>0, <2>1, <2>3 DEF Agrees, Fits, Roots
  <2> QED BY <1>6, <2>1, <2>2, <2>4 DEF Recorded, Agrees, Same
<1>7. CASE Settle
  <2>1. \/ UNCHANGED epochs
        \/ Current.state = "authorized" /\ SetCurrent("failed", None)
    BY <1>7 DEF Settle
  <2>2. pc = "settle" /\ active.phase = "none" /\ UNCHANGED <<saved, goal, active>>
    BY <1>0, <1>7 DEF Settle, PhaseAt, NoGoal
  <2> QED BY <1>2, <1>3, <2>1, <2>2
<1>8. CASE Authorize \/ AuthorizeLost
  BY <1>6, <1>8 DEF Authorize, AuthorizeLost
<1>9. CASE Bind \/ BindLost
  <2>1. pc = "bind" /\ active.phase = "pending" /\ UNCHANGED <<saved, goal, active>>
    BY <1>0, <1>9 DEF Bind, BindLost, PhaseAt
  <2>2. active.thread = active.ws /\ active.ws \in Workspaces
    BY <1>0, <2>1 DEF Agrees, Fits, Roots
  <2>3. \/ UNCHANGED epochs
        \/ Current.state = "authorized" /\ SetCurrent("bound", active.thread)
    BY <1>9 DEF Bind, BindLost
  <2> QED BY <1>4, <2>1, <2>2, <2>3
<1>10. CASE ContainFail
  <2>1. pc = "contain_fail" /\ active.phase # "suspended" /\ UNCHANGED <<saved, goal, active>>
    BY <1>0, <1>10 DEF ContainFail, PhaseAt, Roots
  <2>2. UNCHANGED epochs \/ (Live /\ SetCurrent("failed", Current.thread))
    BY <1>10 DEF ContainFail, Live
  <2> QED BY <1>2, <2>1, <2>2
<1>11. CASE UnbornFail
  <2>1. pc = "unborn_fail" /\ active.phase # "suspended" /\ UNCHANGED <<saved, goal, active>>
        /\ Current.state = "authorized" /\ SetCurrent("failed", None)
    BY <1>0, <1>11 DEF UnbornFail, PhaseAt, EpochAt
  <2> QED BY <1>2, <1>3, <2>1
<1>12. CASE CommitCheckpoint
  BY <1>5, <1>12 DEF CommitCheckpoint
<1>13. CASE Crash
  BY <1>5, <1>13 DEF Crash
<1> QED BY <1>7, <1>8, <1>9, <1>10, <1>11, <1>12, <1>13, EpochWriters

-----------------------------------------------------------------------------
(* The chain and the work in its threads.                                    *)

\* No thread that Codex has is ever taken back.
LEMMA GoalsStay ==
    ASSUME IInv, Next, NEW w \in Workspaces, goal[w] # "absent"
    PROVE  goal'[w] # "absent"
<1> USE DEF durable, lanes, inputs
<1>0. goal \in [Workspaces -> GoalStates]
  BY InHand
<1>1. CASE UNCHANGED goal
  BY <1>1
<1>2. CASE StartThread \/ CrashUnsaved
  BY <1>0, <1>2 DEF StartThread, CrashUnsaved
<1>3. CASE Activate \/ StartFailed \/ Monitor
  BY <1>0, <1>3 DEF Activate, StartFailed, Monitor
<1>4. CASE SuspendGoal \/ ContainPause \/ ContainArchive
  BY <1>0, <1>4 DEF SuspendGoal, ContainPause, ContainArchive
<1>5. CASE Reactivate \/ ResumeFails \/ GoalEnds
  BY <1>0, <1>5 DEF Reactivate, ResumeFails, GoalEnds
<1> QED BY <1>1, <1>2, <1>3, <1>4, <1>5, GoalWriters

\* A Goal with a root thread is in Codex.
LEMMA RootsAreThere ==
    ASSUME IInv, pc # "down", active.phase \in Roots \cup {"suspended"}
    PROVE  active.ws \in Workspaces /\ goal[active.ws] # "absent"
<1>0. /\ Chain /\ Agrees(active) /\ Agrees(saved) /\ Same /\ active \in ActiveGoals
      /\ active.ws \in Workspaces /\ epochs \in Seq(EpochRecords)
      /\ saved \in ActiveGoals \cup {NoGoal}
  BY InHand DEF Roots
<1>1. CASE active.phase = "suspended"
  BY <1>0, <1>1, CurrentIs DEF Chain, Agrees, Fits
<1>2. CASE active.phase \in Roots /\ saved = active
  BY <1>0, <1>2 DEF Chain
<1>3. CASE active.phase \in Roots /\ saved # active
  <2>1. /\ saved.phase = "registered" /\ saved \in ActiveGoals
        /\ active = [saved EXCEPT !.phase = "checkpointed", !.why = None]
    BY <1>0, <1>3, InHand DEF Same
  <2>2. active.ws = saved.ws
    BY <2>1 DEF ActiveGoals
  <2> QED BY <1>0, <2>1, <2>2 DEF Chain, Roots
<1> QED BY <1>0, <1>1, <1>2, <1>3

LEMMA ChainStep ==
    ASSUME IInv, Next, UNCHANGED epochs
    PROVE  Chain'
<1> USE DEF durable, lanes, inputs, Save
<1>0. /\ PhaseAt /\ Chain
      /\ active.phase # "none" => active \in ActiveGoals /\ active.ws \in Workspaces
      /\ saved.phase # "none" => saved \in ActiveGoals /\ saved.ws \in Workspaces
      /\ goal \in [Workspaces -> GoalStates]
      /\ pc # "down" /\ active.phase \in Roots \cup {"suspended"} =>
            active.ws \in Workspaces /\ goal[active.ws] # "absent"
  BY InHand, RootsAreThere
<1> DEFINE There == saved'.phase \in Roots =>
                       saved'.ws \in Workspaces /\ goal'[saved'.ws] # "absent"
<1> SUFFICES There
  BY GoalsStay, ChainKept
<1>1. CASE UNCHANGED saved
  BY <1>0, <1>1, GoalsStay, InHand DEF Chain, Roots
<1>2. ASSUME pc # "down", active \in ActiveGoals, active.phase \in Roots \cup {"suspended"},
             saved'.ws = active.ws
      PROVE  There
  BY <1>0, <1>2, GoalsStay
<1>3. CASE Find
  <2>1. active \in ActiveGoals /\ active.ws \in Workspaces
    BY <1>0, <1>3 DEF Find, PhaseAt
  <2>2. \/ UNCHANGED saved
        \/ /\ saved' = [active EXCEPT !.thread = active.ws, !.phase = "pending"]
           /\ goal[active.ws] # "absent"
    BY <1>3 DEF Find
  <2>3. UNCHANGED saved \/ (saved'.ws = active.ws /\ goal[active.ws] # "absent")
    BY <2>1, <2>2 DEF ActiveGoals
  <2> QED BY <1>1, <2>1, <2>3, GoalsStay
<1>4. CASE StartThread
  BY <1>0, <1>4, <1>1 DEF StartThread, PhaseAt, ActiveGoals, Roots
<1>5. CASE Classify \/ Monitor \/ SuspendNote \/ ContainNote \/ Reopen
  <2>1. active.phase \in Roots /\ active \in ActiveGoals /\ pc # "down"
    BY <1>0, <1>5 DEF Classify, Monitor, SuspendNote, ContainNote, Reopen, PhaseAt, Roots
  <2>2. UNCHANGED saved \/ \E why : saved' = [active EXCEPT !.why = why]
    BY <1>5 DEF Classify, Monitor, SuspendNote, ContainNote, Reopen
  <2>3. ASSUME NEW why, saved' = [active EXCEPT !.why = why] PROVE saved'.ws = active.ws
    BY <2>1, <2>3 DEF ActiveGoals
  <2> QED BY <1>1, <1>2, <2>1, <2>2, <2>3
<1>6. CASE Register \/ Resume \/ SaveCheckpoint
  <2>1. UNCHANGED saved \/ (active.phase # "none" => saved'.ws = active.ws)
    BY <1>0, <1>6 DEF Register, Resume, SaveCheckpoint, ActiveGoals
  <2>2. Register \/ Resume => active.phase \in Roots \cup {"suspended"}
    BY <1>0 DEF Register, Resume, PhaseAt, Roots
  <2>3. SaveCheckpoint => saved' = active
    BY DEF SaveCheckpoint
  <2>4. pc # "down"
    BY <1>6 DEF Register, Resume, SaveCheckpoint
  <2> QED BY <1>0, <1>1, <1>2, <1>6, <2>1, <2>2, <2>3, <2>4 DEF Roots
<1>7. CASE Plan \/ Discard \/ Adopt \/ SuspendRead \/ Forget \/ UnbornClaims
  <2>1. CASE Plan \/ Discard \/ Forget
    BY <2>1 DEF Plan, Discard, Forget, NoGoal, Roots
  <2>2. CASE Adopt \/ UnbornClaims
    BY <1>0, <2>2 DEF Adopt, UnbornClaims, PhaseAt, ActiveGoals, Roots
  <2>3. CASE SuspendRead
    <3>1. active \in ActiveGoals
      BY <1>0, <2>3 DEF SuspendRead, PhaseAt, Roots
    <3>2. UNCHANGED saved \/ saved'.phase = "suspended"
      BY <2>3, <3>1 DEF SuspendRead, ActiveGoals
    <3> QED BY <1>1, <3>2 DEF Roots
  <2> QED BY <1>7, <2>1, <2>2, <2>3
<1>8. Start \/ AnswerCheckpoint => UNCHANGED saved
  BY DEF Start, AnswerCheckpoint
<1> QED BY <1>1, <1>3, <1>4, <1>5, <1>6, <1>7, <1>8, RecordWriters

LEMMA WorkStep ==
    ASSUME IInv, Next, UNCHANGED epochs
    PROVE  WorkIsBound'
<1> USE DEF durable, lanes, inputs
<1>0. /\ WorkIsBound /\ goal \in [Workspaces -> GoalStates]
      /\ pc \in {"activate", "suspend_goal"} => active.thread \in Used
  BY InHand, CurrentIs DEF EpochAt, Used, PhaseAt, Agrees, Fits, Roots
<1> DEFINE Kept == \A w \in Workspaces :
                      goal'[w] \in Working => goal[w] \in Working \/ w \in Used
<1> SUFFICES Kept
  BY <1>0, WorkKept
<1>1. CASE UNCHANGED goal
  BY <1>1
<1>2. CASE StartThread \/ CrashUnsaved
  BY <1>0, <1>2 DEF StartThread, CrashUnsaved, Working
<1>3. CASE Activate
  BY <1>0, <1>3 DEF Activate, Working
<1>4. CASE StartFailed \/ Monitor
  BY <1>0, <1>4 DEF StartFailed, Monitor, Working
<1>5. CASE SuspendGoal
  BY <1>0, <1>5 DEF SuspendGoal, Working
<1>6. CASE ContainPause \/ ContainArchive
  BY <1>0, <1>6 DEF ContainPause, ContainArchive, Working
<1>7. CASE Reactivate \/ ResumeFails \/ GoalEnds
  BY <1>0, <1>7 DEF Reactivate, ResumeFails, GoalEnds, Working
<1> QED BY <1>1, <1>2, <1>3, <1>4, <1>5, <1>6, <1>7, GoalWriters

-----------------------------------------------------------------------------
(* Where each step leaves the Host.                                          *)

\* What a process that starts goes on with.
LEMMA BootPlaces ==
    ASSUME IInv, Boot
    PROVE  PhaseAt' /\ EpochAt' /\ LanesAt'
<1> USE DEF durable, lanes, inputs, Call, Refuse, Exactly, OwnEpoch
<1>1. TypeOK /\ Recorded /\ PhaseAt /\ EpochAt /\ LanesAt /\ WorkIsBound /\ Agrees(active)
  BY DEF IInv, Recorded, Boot
<1>2. active \in ActiveGoals \cup {NoGoal}
  BY <1>1 DEF TypeOK
<1>3. epochs \in Seq(EpochRecords)
  BY <1>1 DEF TypeOK, EpochRecords
<1>4. /\ active.phase = "none" <=> active = NoGoal
      /\ active.phase \in Phases \cup {"none"}
  BY <1>2, GoalIs DEF NoGoal
<1>5. active.phase = "suspended" => Current.state = "bound"
  BY <1>1 DEF Agrees, Fits
<1>6. active.phase \in Roots \cup {"suspended"} <=> active.thread # None
  BY <1>1, <1>2, GoalIs, NoneAssumption DEF Agrees, Fits, Roots, Phases
<1>7. active.why # None => active.phase \in Roots \cup {"suspended"}
  BY <1>1, <1>4 DEF Agrees, Fits, Roots, Phases
<1>8. ReleasedButSaved => active # NoGoal /\ Current.state # "bound"
  BY DEF ReleasedButSaved, Terminal
<1>9. \/ pc' \in {"refused", "settle"} /\ (pc' = "settle" => active = NoGoal)
      \/ pc' = "release" /\ ReleasedButSaved
      \/ pc' = "resume" /\ active.phase = "suspended"
      \/ pc' = "contain" /\ active.phase \in Roots
      \/ pc' = "suspend" /\ active.phase \in Roots /\ Exactly({"bound"})
      \/ pc' = "unborn" /\ active.phase = "planned"
      \/ pc' = "find" /\ active.phase = "authorized"
      \/ pc' = "classify" /\ active.phase \in Roots /\ Current.state # "checkpointed"
  <2>1. CASE ~RecoverActiveGoal
    BY <2>1 DEF Boot
  <2>2. CASE RecoverActiveGoal /\ Recovers
    BY <2>2, <1>4, <1>5, <1>6 DEF RecoverActiveGoal, Recovers, Roots
  <2>3. CASE RecoverActiveGoal /\ ~Recovers /\ (active.phase = "suspended" \/ Interrupted)
    BY <2>3, <1>4, <1>6 DEF RecoverActiveGoal, Interrupted, Recovers, Phases, Roots
  <2>4. CASE /\ RecoverActiveGoal /\ ~Recovers /\ ~Interrupted
             /\ active.phase # "suspended" /\ active # NoGoal
    <3>1. CASE active.phase \in {"planned", "authorized"}
      BY <2>4, <3>1 DEF RecoverActiveGoal
    <3>2. CASE active.phase \notin {"planned", "authorized"}
      <4>1. \/ pc' = "refused"
            \/ pc' = "classify" /\ OwnEpoch /\ Current.thread \in {None, active.thread}
        BY <2>4, <3>2 DEF RecoverActiveGoal
      <4>2. active.phase \in Roots /\ active.phase # "checkpointed" /\ active.thread # None
        BY <2>4, <3>2, <1>4, <1>6 DEF Phases, Roots, Recovers
      <4>3. OwnEpoch /\ Current.thread \in {None, active.thread} => Current.state # "checkpointed"
        BY <2>4, <4>2, <1>1, CurrentIs DEF Recovers, Agrees, Fits, Roots
      <4> QED BY <4>1, <4>2, <4>3
    <3> QED BY <3>1, <3>2
  <2> QED BY <2>1, <2>2, <2>3, <2>4 DEF Boot
<1>10. /\ UNCHANGED <<epochs, active, run, tool>> /\ pc = "boot"
       /\ armed' = ReleasedButSaved
  BY DEF Boot
<1>11. ReleasedButSaved => pc' = "release"
  BY <1>10, <1>8 DEF Boot
<1>12. PhaseAt'
  BY <1>1, <1>9, <1>8, <1>10, <1>11, <1>4 DEF PhaseAt, Roots
<1>13. EpochAt'
  BY <1>1, <1>9, <1>8, <1>10, <1>11, <1>4, EpochsKept DEF EpochAt, Roots
<1>14. pc' = "suspend" => job'.reason \in SuspensionReasons
  BY <1>1 DEF Boot, RecoverActiveGoal, Interrupted, TypeOK
<1>15. LanesAt'
  BY <1>14, <1>1, <1>9, <1>8, <1>10, <1>11, <1>4 DEF LanesAt, Roots
<1> QED BY <1>12, <1>13, <1>15

\* The four steps whose outcome hangs on what the Host reads.
LEMMA ReadPlaces ==
    ASSUME IInv, Classify \/ StartThread \/ SuspendRead \/ AnswerCheckpoint
    PROVE  PhaseAt' /\ EpochAt' /\ LanesAt'
<1> USE DEF durable, lanes, inputs, Call, Refuse, Throw, Save, Fault, Live, Exactly, OwnEpoch
<1>1. /\ TypeOK /\ Recorded /\ PhaseAt /\ EpochAt /\ LanesAt /\ WorkIsBound
      /\ pc # "down" => Agrees(active)
  BY DEF IInv, Recorded
<1>2. active \in ActiveGoals \cup {NoGoal}
  BY <1>1 DEF TypeOK
<1>3. epochs \in Seq(EpochRecords)
  BY <1>1 DEF TypeOK, EpochRecords
<1>4. CASE Classify
  <2>1. active \in ActiveGoals /\ active.thread \in Workspaces
    BY <1>1, <1>2, <1>4, GoalIs DEF Classify, PhaseAt, Fits, Agrees, Roots
  <2>2. goal[active.thread] \in {"paused", "usageLimited"} => Current.thread = active.thread
    BY <1>1, <1>3, <2>1, <1>4, CurrentIs DEF Classify, PhaseAt, Fits, Agrees, Roots,
       WorkIsBound, Used
  <2>3. pc' = "contain" => active' = active
    BY <1>4 DEF Classify
  <2>4. active'.phase = active.phase /\ active'.thread = active.thread
    BY <1>4, <2>1 DEF ActiveGoals, Classify, SuspensionReasons
  <2>5. /\ UNCHANGED epochs /\ UNCHANGED <<run, tool, armed>> /\ pc = "classify"
    BY <1>4 DEF Classify
  <2>6. \/ pc' = "contain"
        \/ pc' = "suspend" /\ goal[active.thread] \in {"paused", "usageLimited"}
    <3>1. CASE goal[active.thread] \in {"paused", "usageLimited"}
      BY <1>4, <3>1 DEF Classify
    <3>2. CASE goal[active.thread] \notin {"paused", "usageLimited"}
      BY <1>4, <3>2 DEF Classify
    <3> QED BY <3>1, <3>2
  <2>7. pc' = "suspend" => job'.reason \in SuspensionReasons
    BY <1>1, <1>4, <2>6 DEF Classify, SuspensionReasons, TypeOK
  <2> QED BY <1>1, <2>2, <2>4, <2>5, <2>6, <2>7, EpochsKept DEF PhaseAt, EpochAt, LanesAt, Roots
<1>5. CASE StartThread
  <2>1. active \in ActiveGoals /\ active.ws \in Workspaces
    BY <1>1, <1>2, <1>5, GoalIs DEF StartThread, PhaseAt
  <2>2. \/ /\ active'.phase = "pending" /\ pc' = "bind"
           /\ run' = "running" /\ UNCHANGED <<epochs, job, tool, armed>>
        \/ active' = active /\ pc' = "unborn" /\ UNCHANGED <<epochs, job, run, tool, armed>>
    BY <1>5, <2>1 DEF ActiveGoals, StartThread, Phases
  <2>3. /\ pc = "thread" /\ ~armed /\ tool # "asked" /\ active.phase = "authorized"
        /\ job.mode = "start" /\ run # "running"
    BY <1>1, <1>5 DEF PhaseAt, LanesAt, StartThread
  <2> QED BY <2>2, <2>3, EpochsKept DEF PhaseAt, EpochAt, LanesAt, Roots, NoGoal
<1>6. CASE SuspendRead
  <2>1. active \in ActiveGoals
    BY <1>1, <1>2, <1>6, GoalIs DEF SuspendRead, PhaseAt, Roots
  <2>2. /\ UNCHANGED <<epochs, run, tool, armed>> /\ pc = "suspend_read" /\ ~armed
        /\ job \in [reason : StopReasons \cup SuspensionReasons,
                    mode : {"start", "recover", "cancel"}, then : {"loop", "settle", "down"}]
    BY <1>1, <1>6 DEF SuspendRead, LanesAt, TypeOK
  <2>3. CASE Exactly({"checkpointed"})
    <3>1. active' = active /\ pc' = "contain"
      BY <1>6, <2>3 DEF SuspendRead
    <3> QED BY <1>1, <2>2, <3>1, EpochsKept DEF PhaseAt, EpochAt, LanesAt, Roots
  <2>4. CASE Exactly({"bound"})
    <3>1. pc' = "close" /\ job'.then = "down"
      BY <1>6, <2>4, <2>2 DEF SuspendRead
    <3>2. active'.phase = "suspended"
      BY <1>6, <2>4, <2>1 DEF SuspendRead, ActiveGoals
    <3> QED BY <1>1, <2>2, <3>1, <3>2, EpochsKept DEF PhaseAt, EpochAt, LanesAt, Roots, NoGoal
  <2>5. CASE ~Exactly({"checkpointed"}) /\ ~Exactly({"bound"})
    <3>1. active' = active /\ pc' = "refused"
      BY <1>6, <2>5 DEF SuspendRead
    <3> QED BY <1>1, <2>2, <3>1, EpochsKept DEF PhaseAt, EpochAt, LanesAt, Roots
  <2> QED BY <2>3, <2>4, <2>5
<1>7. CASE AnswerCheckpoint
  <2>1. UNCHANGED <<epochs, pc, job, run, armed>> /\ tool' = "answered" /\ pc # "down"
    BY <1>7 DEF AnswerCheckpoint
  <2>2. CASE Exactly({"checkpointed"})
    <3>1. active \in ActiveGoals /\ active.phase \in {"registered", "checkpointed"}
      BY <1>1, <1>2, <2>1, <2>2, GoalIs DEF Agrees, Fits, Phases, Roots
    <3>2. active'.phase = "checkpointed" /\ active'.thread = active.thread
      BY <1>7, <2>2, <3>1 DEF AnswerCheckpoint, ActiveGoals
    <3> QED BY <1>1, <2>1, <3>1, <3>2, EpochsKept DEF PhaseAt, EpochAt, LanesAt, Roots, NoGoal
  <2>3. CASE ~Exactly({"checkpointed"})
    <3>1. active' = active
      BY <1>7, <2>3 DEF AnswerCheckpoint
    <3> QED BY <1>1, <2>1, <3>1, EpochsKept DEF PhaseAt, EpochAt, LanesAt
  <2> QED BY <2>2, <2>3
<1> QED BY <1>4, <1>5, <1>6, <1>7

\* The steps that read the Store's Epoch, or record an event over it.
LEMMA EpochPlaces ==
    ASSUME IInv,
           \/ Monitor \/ MonitorFails \/ ContainRead \/ UnbornReleases
           \/ Authorize \/ Bind \/ ContainFail \/ UnbornFail \/ CommitCheckpoint
    PROVE  PhaseAt' /\ EpochAt' /\ LanesAt'
<1> USE DEF durable, lanes, inputs, Call, Refuse, Throw, Save, Fault, Live
<1>0. TypeOK /\ PhaseAt /\ EpochAt /\ LanesAt
  BY DEF IInv
<1>1. /\ pc # "down" => Agrees(active)
      /\ active.phase # "none" => active \in ActiveGoals
      /\ epochs \in Seq(EpochRecords)
      /\ None \notin Workspaces
  BY InHand, NoneAssumption
<1>2. CASE Monitor
  <2>1. /\ pc = "monitor" /\ UNCHANGED <<epochs, tool>> /\ ~armed
        /\ active.phase \in {"registered", "checkpointed"}
    BY <1>0, <1>2 DEF Monitor, PhaseAt, LanesAt
  <2>2. active \in ActiveGoals /\ Current.thread = active.thread
    BY <1>1, <2>1 DEF Agrees, Fits, Roots
  <2>3. active'.phase = active.phase /\ active'.thread = active.thread
    BY <1>2, <2>2 DEF Monitor, ActiveGoals
  <2>4. \/ pc' \in {"contain", "operator"} /\ UNCHANGED <<run, armed>>
        \/ pc' = "suspend" /\ job'.reason = "usage_limited" /\ UNCHANGED <<run, armed>>
        \/ /\ pc' = "close" /\ run' = "terminal" /\ armed' = TRUE
           /\ Exactly(Terminal) /\ tool = "idle"
    BY <1>0, <1>2 DEF Monitor, TypeOK
  <2>5. Exactly(Terminal) => Current.state # "bound"
    BY DEF Exactly, Terminal
  <2> QED BY <1>0, <2>1, <2>2, <2>3, <2>4, <2>5, EpochsKept
          DEF SuspensionReasons, PhaseAt, EpochAt, LanesAt, Roots, NoGoal
<1>3. CASE MonitorFails
  <2>1. /\ pc = "monitor" /\ UNCHANGED <<active, epochs, tool, armed>> /\ ~armed
        /\ active.phase \in {"registered", "checkpointed"} /\ run' \in {run, "terminal"}
    BY <1>0, <1>3 DEF MonitorFails, PhaseAt, LanesAt
  <2>2. Current.thread = active.thread
    BY <1>1, <2>1 DEF Agrees, Fits, Roots
  <2>3. \/ pc' \in {"contain", "operator"}
        \/ pc' = "suspend" /\ job'.reason = "usage_limited"
    BY <1>0, <1>3 DEF MonitorFails, TypeOK
  <2> QED BY <1>0, <2>1, <2>2, <2>3, EpochsKept
          DEF SuspensionReasons, PhaseAt, EpochAt, LanesAt, Roots, NoGoal
<1>4. CASE ContainRead
  <2>1. /\ pc = "contain_read" /\ UNCHANGED <<active, epochs, tool, run>>
        /\ pc' = "close" => armed' = TRUE
        /\ pc' # "close" => UNCHANGED armed
        /\ pc' \in {"close", "contain_fail", "refused"}
    BY <1>4 DEF ContainRead
  <2>2. run = "terminal" /\ tool # "asked" /\ ~armed /\ active.phase \in Roots
    BY <1>0, <2>1 DEF PhaseAt, LanesAt
  <2>3. pc' = "close" => Current.state # "bound"
    BY <1>4 DEF ContainRead, Exactly, Terminal
  <2>4. pc' = "contain_fail" => Live
    <3>1. SUFFICES ASSUME pc' = "contain_fail" PROVE Live
      OBVIOUS
    <3>2. /\ active.phase # "checkpointed" /\ OwnEpoch
          /\ Current.thread \in {None, active.thread}
          /\ ~Exactly(Terminal) /\ ~(Current.state = "failed" /\ Current.thread = None)
      BY <1>4, <3>1 DEF ContainRead, ValidatedCheckpoint
    <3>3. Current.thread = active.thread => Current.state \notin {"checkpointed", "failed"}
      BY <3>2 DEF Exactly, Terminal
    <3>4. Current.thread = None => Current.state \in {"authorized", "failed"}
      BY <1>1, <2>1, <2>2, <3>2, <3>3, InHand DEF Agrees, Fits, Roots
    <3>5. Current.state \in EpochStates \cup {"none"} /\ Current.state # "none"
      BY <1>1, <3>2, CurrentIs DEF OwnEpoch
    <3> QED BY <3>2, <3>3, <3>4, <3>5 DEF EpochStates
  <2> QED BY <1>0, <2>1, <2>2, <2>3, <2>4, EpochsKept DEF PhaseAt, EpochAt, LanesAt, Roots, NoGoal
<1>5. CASE UnbornReleases
  <2>1. /\ pc = "unborn" /\ UNCHANGED <<active, epochs, tool, run>>
        /\ armed' = TRUE /\ pc' = "close"
        /\ Current.state \in Terminal \/ active.epoch = 0
    BY <1>5 DEF UnbornReleases
  <2>2. active.phase \in {"planned", "authorized"}
    BY <1>0, <2>1 DEF PhaseAt
  <2>3. Current.state # "bound"
    BY <1>1, <2>1, <2>2 DEF Agrees, Fits, Terminal
  <2> QED BY <1>0, <2>1, <2>2, <2>3, EpochsKept DEF PhaseAt, EpochAt, LanesAt, Roots, NoGoal
<1>6. CASE Authorize
  <2>1. /\ pc = "authorize" /\ pc' = "adopt" /\ UNCHANGED <<active, job, run, tool, armed>>
        /\ Current'.state = "authorized" /\ Current'.thread = None
    BY <1>1, <1>6, AuthorizedIs DEF Authorize
  <2> QED BY <1>0, <2>1 DEF PhaseAt, EpochAt, LanesAt, Roots, NoGoal
<1>7. CASE Bind
  <2>1. pc = "bind" /\ active.phase = "pending" /\ UNCHANGED <<active, run, tool, armed>>
    BY <1>0, <1>7 DEF Bind, PhaseAt
  <2>2. CASE OwnEpoch /\ Current.state = "authorized"
    <3>1. SetCurrent("bound", active.thread) /\ pc' = Bound /\ job' = job
      BY <1>7, <2>2 DEF Bind
    <3>2. Len(epochs) # 0 /\ active.thread \in Workspaces /\ "bound" \in EpochStates
      BY <1>1, <2>1, <2>2, InHand, CurrentIs DEF Agrees, Fits, Roots, EpochStates
    <3>3. Current'.state = "bound" /\ Current'.thread = active.thread
      BY <1>1, <3>1, <3>2, SetCurrentIs
    <3> QED BY <1>0, <2>1, <3>1, <3>3 DEF Bound, PhaseAt, EpochAt, LanesAt, Roots, NoGoal
  <2>3. CASE ~(OwnEpoch /\ Current.state = "authorized")
    <3>1. /\ UNCHANGED epochs
          /\ \/ pc' = "start_failed" /\ job'.mode = job.mode /\ job.mode = "start"
             \/ pc' = "refused" /\ job' = job /\ job.mode # "start"
      BY <1>0, <1>7, <2>3 DEF Bind, TypeOK
    <3> QED BY <1>0, <2>1, <3>1, EpochsKept DEF PhaseAt, EpochAt, LanesAt, Roots, NoGoal
  <2> QED BY <2>2, <2>3
<1>8. CASE ContainFail
  <2>1. /\ pc = "contain_fail" /\ UNCHANGED <<active, tool, run>> /\ pc' = "close"
        /\ armed' = TRUE /\ SetCurrent("failed", Current.thread) /\ Current.state # "none"
    BY <1>0, <1>8 DEF ContainFail, EpochAt
  <2>2. Len(epochs) # 0 /\ Current.thread \in Workspaces \cup {None} /\ "failed" \in EpochStates
    BY <1>1, <2>1, CurrentIs DEF EpochStates
  <2>3. Current'.state = "failed"
    BY <1>1, <2>1, <2>2, SetCurrentIs
  <2> QED BY <1>0, <2>1, <2>3 DEF PhaseAt, EpochAt, LanesAt, Roots, NoGoal
<1>9. CASE UnbornFail
  <2>1. /\ pc = "unborn_fail" /\ UNCHANGED <<active, tool, run>> /\ pc' = "close"
        /\ armed' = TRUE /\ SetCurrent("failed", None) /\ Current.state # "none"
    BY <1>0, <1>9 DEF UnbornFail, EpochAt
  <2>2. Len(epochs) # 0 /\ "failed" \in EpochStates
    BY <1>1, <2>1, CurrentIs DEF EpochStates
  <2>3. Current'.state = "failed"
    BY <1>1, <2>1, <2>2, SetCurrentIs
  <2> QED BY <1>0, <2>1, <2>3 DEF PhaseAt, EpochAt, LanesAt, Roots, NoGoal
<1>10. CASE CommitCheckpoint
  <2>1. /\ UNCHANGED <<pc, active, run, armed, job>>
        /\ tool' # "asked" /\ tool = "asked" /\ pc # "down"
        /\ \/ UNCHANGED epochs
           \/ Exactly({"bound"}) /\ SetCurrent("checkpointed", active.thread)
    BY <1>10 DEF CommitCheckpoint
  <2>2. ASSUME Exactly({"bound"}), SetCurrent("checkpointed", active.thread)
        PROVE  /\ Current.thread = active.thread
               /\ Current'.state = "checkpointed" /\ Current'.thread = active.thread
    <3>1. Len(epochs) # 0 /\ Current.thread = active.thread /\ "checkpointed" \in EpochStates
          /\ Current.thread \in Workspaces \cup {None}
      BY <1>1, <2>2, CurrentIs DEF Exactly, OwnEpoch, EpochStates
    <3> QED BY <1>1, <2>2, <3>1, SetCurrentIs
  <2>3. active.phase = "registered" /\ pc \in {"contain", "monitor", "operator", "refused",
                                              "reopen", "suspend", "suspend_note", "close"}
        /\ (pc = "close" => ~armed)
    BY <1>0, <2>1 DEF LanesAt
  <2> QED BY <1>0, <2>1, <2>2, <2>3, EpochsKept DEF PhaseAt, EpochAt, LanesAt, Roots, NoGoal
<1> QED BY <1>2, <1>3, <1>4, <1>5, <1>6, <1>7, <1>8, <1>9, <1>10

LEMMA PlaceStep ==
    ASSUME IInv, Next
    PROVE  PhaseAt' /\ EpochAt' /\ LanesAt'
<1> USE DEF durable, lanes, inputs, Call, Refuse, Throw, Save, Fault, Live
<1>0. TypeOK /\ Recorded /\ PhaseAt /\ EpochAt /\ LanesAt /\ MaxEpochs \in Nat
  BY BoundsAssumption DEF IInv
<1> USE DEF PhaseAt, EpochAt, LanesAt, Roots, NoGoal
<1>1. CASE Start \/ Exit \/ OperatorStop \/ Stop
  BY <1>0, <1>1, EpochsKept DEF Start, Exit, OperatorStop, Stop
<1>2. CASE BootCancelled \/ Cancel \/ FindCancelled
  BY <1>0, <1>2, EpochsKept DEF BootCancelled, Cancel, FindCancelled, TypeOK, ActiveGoals,
     Phases, Recorded, Same
<1>3. CASE Find
  BY <1>0, <1>3, EpochsKept DEF Find, TypeOK, ActiveGoals
<1>4. CASE Plan
  <2>1. active'.phase = "planned" /\ job'.mode = "start" /\ pc' = "authorize"
        /\ Len(epochs) < MaxEpochs /\ UNCHANGED <<epochs, run, tool, armed>> /\ pc = "loop"
    BY <1>0, <1>4 DEF Plan, TypeOK
  <2> QED BY <1>0, <2>1, EpochsKept
<1>5. CASE Discard
  BY <1>0, <1>5, EpochsKept DEF Discard
<1>6. CASE Adopt
  BY <1>0, <1>6, EpochsKept DEF Adopt, TypeOK, ActiveGoals
<1>7. CASE AuthorizeLost \/ Allocate \/ CrashUnsaved
  BY <1>0, <1>7, EpochsKept DEF AuthorizeLost, Allocate, CrashUnsaved
<1>8. CASE Activate \/ StartFails \/ StartFailed
  BY <1>0, <1>8, EpochsKept DEF Activate, StartFails, StartFailed, TypeOK
<1>9. CASE BindLost
  <2>1. /\ pc = "bind" /\ UNCHANGED <<active, run, tool, armed>>
        /\ \/ pc' = "start_failed" /\ job' = job
           \/ pc' = "cancel" /\ job' = job /\ job.mode # "start"
           \/ pc' = "close" /\ job'.then = "down" /\ job.mode # "start"
    BY <1>0, <1>9 DEF BindLost, TypeOK
  <2> QED BY <1>0, <2>1
<1>10. CASE Register \/ Resume \/ ResumeStale
  BY <1>0, <1>10, EpochsKept DEF Register, Resume, ResumeStale, TypeOK, ActiveGoals
<1>11. CASE Reactivate \/ Reopen \/ ResumeFails
  BY <1>0, <1>11, EpochsKept DEF Reactivate, Reopen, ResumeFails, TypeOK, ActiveGoals
<1>12. CASE Operator
  BY <1>0, <1>12, EpochsKept DEF Operator, TypeOK, Exactly, SuspensionReasons
<1>13. CASE Suspend
  <2>1. /\ pc = "suspend" /\ UNCHANGED <<active, epochs, tool, armed>> /\ run' # "running"
        /\ \/ pc' \in {"refused", "suspend_note"} /\ job' = job
           \/ pc' = "close" /\ job'.then = "down"
    BY <1>0, <1>13 DEF Suspend, TypeOK
  <2> QED BY <1>0, <2>1, EpochsKept
<1>14. CASE SuspendGoal
  <2>1. /\ pc = "suspend_goal" /\ UNCHANGED <<active, epochs, tool, armed>> /\ run' # "running"
        /\ \/ pc' \in {"refused", "suspend_read"} /\ job' = job
           \/ pc' = "close" /\ job'.then = "down"
    BY <1>0, <1>14 DEF SuspendGoal, TypeOK
  <2> QED BY <1>0, <2>1, EpochsKept
<1>15. CASE SuspendNote \/ ContainNote
  BY <1>0, <1>15, EpochsKept DEF SuspendNote, ContainNote, TypeOK, ActiveGoals
<1>16. CASE Contain \/ ContainPause \/ ContainArchive
  BY <1>0, <1>16, EpochsKept DEF Contain, ContainPause, ContainArchive
<1>17. CASE Close \/ CloseFails \/ Release \/ Forget
  BY <1>0, <1>17, EpochsKept DEF Close, CloseFails, Release, Forget, TypeOK
<1>18. CASE UnbornClaims
  BY <1>0, <1>18, EpochsKept DEF UnbornClaims, TypeOK, ActiveGoals
<1>19. CASE SaveCheckpoint \/ AskCheckpoint \/ GoalEnds
  BY <1>0, <1>19, EpochsKept DEF SaveCheckpoint, AskCheckpoint, GoalEnds
<1>20. CASE Crash \/ Settle
  BY <1>0, <1>20, EpochsKept DEF Crash, Settle
<1>21. CASE Boot
  BY <1>21, BootPlaces
<1>22. CASE \/ Monitor \/ MonitorFails \/ ContainRead \/ UnbornReleases
            \/ Authorize \/ Bind \/ ContainFail \/ UnbornFail \/ CommitCheckpoint
  BY <1>22, EpochPlaces
<1>23. CASE Classify \/ StartThread \/ SuspendRead \/ AnswerCheckpoint
  BY <1>23, ReadPlaces
<1> HIDE DEF PhaseAt, EpochAt, LanesAt
<1> QED
  BY <1>1, <1>2, <1>3, <1>4, <1>5, <1>6, <1>7, <1>8, <1>9, <1>10, <1>11, <1>12, <1>13, <1>14, <1>15,
     <1>16, <1>17, <1>18, <1>19, <1>20, <1>21, <1>22, <1>23 DEF Next, HostStep, ToolStep, Environment

-----------------------------------------------------------------------------
(* The theorems.                                                             *)

LEMMA InitIInv ==
    ASSUME Init
    PROVE  IInv
<1>1. /\ Len(epochs) = 0 /\ DOMAIN epochs = {} /\ Used = {}
      /\ Current = [state |-> "none", thread |-> None]
  BY DEF Init, Current, Used
<1>2. TypeOK
  <2>1. epochs \in Seq([state : EpochStates, thread : Workspaces \cup {None}])
    BY DEF Init
  <2>2. goal \in [Workspaces -> GoalStates]
    BY DEF Init, GoalStates
  <2>3. job \in [reason : StopReasons \cup SuspensionReasons,
                mode : {"start", "recover", "cancel"}, then : {"loop", "settle", "down"}]
    BY DEF Init, StopReasons
  <2>4. stops \in 0 .. MaxStops /\ faults \in 0 .. MaxFaults /\ room \subseteq Workspaces
    BY BoundsAssumption DEF Init
  <2>6. {armed, stop} \subseteq BOOLEAN
    BY Zenon DEF Init
  <2>5. /\ saved \in ActiveGoals \cup {NoGoal} /\ active \in ActiveGoals \cup {NoGoal}
        /\ pc \in Steps /\ run = "none" /\ tool = "idle"
    BY DEF Init, Steps
  <2> QED BY <2>1, <2>2, <2>3, <2>4, <2>5, <2>6 DEF TypeOK
<1>3. Recorded /\ Chain /\ WorkIsBound
  BY <1>1, BoundsAssumption DEF Init, NoGoal, Recorded, Agrees, Fits, Roots, Same,
     Chain, WorkIsBound
<1>4. PhaseAt /\ EpochAt /\ LanesAt
  BY <1>1 DEF Init, PhaseAt, EpochAt, LanesAt
<1> QED BY <1>2, <1>3, <1>4 DEF IInv

LEMMA NextIInv ==
    ASSUME IInv, Next
    PROVE  IInv'
<1>1. CASE UNCHANGED epochs
  BY <1>1, TypesStep, RecordedStep, ChainStep, WorkStep, PlaceStep DEF IInv
<1>2. CASE ~UNCHANGED epochs
  BY <1>2, TypesStep, EpochStep, PlaceStep DEF IInv
<1> QED BY <1>1, <1>2

LEMMA StutterIInv ==
    ASSUME IInv, UNCHANGED vars
    PROVE  IInv'
<1>1. UNCHANGED <<saved, epochs, goal, room, pc, active, job, run, tool, armed, stop, stops,
                  faults>>
  BY DEF vars, durable, lanes, inputs
<1>2. TypeOK'
  BY <1>1 DEF IInv, TypeOK
<1>3. Recorded' /\ Chain' /\ WorkIsBound'
  BY <1>1, EpochsKept DEF IInv, Recorded, Agrees, Same, Chain, WorkIsBound
<1>4. PhaseAt' /\ EpochAt' /\ LanesAt'
  BY <1>1, EpochsKept DEF IInv, PhaseAt, EpochAt, LanesAt, Live
<1> QED BY <1>2, <1>3, <1>4 DEF IInv

\* The state file, the Store and Codex stay in step through every crash,
\* failed call, stop and restart.
THEOREM Invariance == Spec => []IInv
<1>1. IInv /\ [Next]_vars => IInv'
  BY NextIInv, StutterIInv
<1> QED BY <1>1, InitIInv, PTL DEF Spec

\* Every variable keeps its type.
THEOREM TypesHold == Spec => []TypeOK
<1>1. IInv => TypeOK
  BY DEF IInv
<1> QED BY <1>1, Invariance, PTL

\* While an Epoch is bound the state file names it and its root thread, so a
\* Host that starts after any crash finds the Goal that may be working.
THEOREM BoundNamed == Spec => []BoundIsSaved
<1>1. ASSUME IInv PROVE BoundIsSaved
  <2>1. saved.phase \in Phases \cup {"none"} /\ Agrees(saved)
    BY <1>1, InHand, GoalIs
  <2> QED BY <2>1 DEF BoundIsSaved, Agrees, Fits, Phases, Roots
<1> QED BY <1>1, Invariance, PTL

\* The state file never names an old Epoch, keeps a suspension over one that
\* failed, or claims a checkpoint the Store does not hold.
THEOREM SavedTrue == Spec => []SavedAgreesWithStore
<1>1. ASSUME IInv PROVE SavedAgreesWithStore
  <2>1. saved.phase \in Phases \cup {"none"} /\ Agrees(saved)
    BY <1>1, InHand, GoalIs
  <2> QED BY <2>1 DEF SavedAgreesWithStore, Agrees, Fits, Phases, Roots
<1> QED BY <1>1, Invariance, PTL

\* Between the Store containActive reads and the failure it records over it no
\* checkpoint lands.
THEOREM ReadHolds == Spec => []NoCheckpointPastRead
<1>1. IInv => NoCheckpointPastRead
  BY DEF IInv, EpochAt, NoCheckpointPastRead
<1> QED BY <1>1, Invariance, PTL

\* A root thread works only for an Epoch that the Store has bound to it.
THEOREM WorkBound == Spec => []WorkIsBound
<1>1. IInv => WorkIsBound
  BY DEF IInv
<1> QED BY <1>1, Invariance, PTL

\* A bound Epoch is recorded failed only with its Goal contained and no
\* checkpoint call with its owner.
THEOREM FailsContained == Spec => FailureAfterContainment
<1> DEFINE Step == \A n \in DOMAIN epochs :
                      epochs[n].state = "bound" /\ epochs'[n].state = "failed" =>
                          run = "terminal" /\ tool # "asked"
<1>1. ASSUME IInv, Next PROVE Step
  <2> USE DEF durable, lanes, inputs
  <2>1. epochs \in Seq(EpochRecords) /\ LanesAt /\ Chain
    BY <1>1, InHand
  <2>2. SUFFICES ASSUME NEW n \in DOMAIN epochs,
                        epochs[n].state = "bound", epochs'[n].state = "failed"
                 PROVE  run = "terminal" /\ tool # "asked"
    OBVIOUS
  <2>3. ASSUME NEW state \in EpochStates, NEW thread \in Workspaces \cup {None},
               SetCurrent(state, thread)
        PROVE  state = "failed" /\ Current.state = "bound"
    <3>1. Len(epochs) # 0
      BY <2>1, <2>2, CurrentIs
    <3>2. /\ n # Len(epochs) => epochs'[n] = epochs[n]
          /\ epochs'[Len(epochs)].state = state /\ Current = epochs[Len(epochs)]
      BY <2>1, <2>3, <3>1, SetCurrentIs, CurrentIs
    <3> QED BY <2>2, <3>2
  <2>4. epochs' # Append(epochs, [state |-> "authorized", thread |-> None])
    BY <2>1, <2>2, AuthorizedIs
  <2>5. /\ {"bound", "checkpointed", "failed"} \subseteq EpochStates
        /\ active.thread \in Workspaces \cup {None} /\ Current.thread \in Workspaces \cup {None}
    BY <1>1, <2>1, InHand, GoalIs, CurrentIs DEF EpochStates
  <2>6. CASE ContainFail
    BY <1>1, <2>1, <2>6 DEF ContainFail, LanesAt
  <2>7. CASE Settle
    BY <2>2, <2>3, <2>5, <2>7 DEF Settle
  <2>8. CASE Authorize \/ AuthorizeLost
    BY <2>2, <2>4, <2>8 DEF Authorize, AuthorizeLost
  <2>9. CASE Bind \/ BindLost
    BY <2>2, <2>3, <2>5, <2>9 DEF Bind, BindLost
  <2>10. CASE UnbornFail
    BY <1>1, <2>3, <2>5, <2>10, InHand DEF UnbornFail, EpochAt
  <2>11. CASE CommitCheckpoint \/ Crash
    BY <2>2, <2>3, <2>5, <2>11 DEF CommitCheckpoint, Crash
  <2> QED BY <1>1, <2>2, <2>6, <2>7, <2>8, <2>9, <2>10, <2>11, EpochWriters
<1>2. ASSUME UNCHANGED vars PROVE Step
  BY <1>2 DEF vars, durable
<1> QED BY <1>1, <1>2, Invariance, PTL DEF Spec, FailureAfterContainment

-----------------------------------------------------------------------------
(* The promise.  Who works, at each step, and over which Epoch.              *)

\* A suspended Goal is reopened only over its own bound Epoch: the Store that
\* Resume has read is still so when the thread is set to work.
Reopens ==
    pc = "reactivate" => Current.state = "bound" /\ Current.thread = active.thread

LEMMA RunWriters ==
    ASSUME Next, run' = "running"
    PROVE  run = "running" \/ StartThread \/ Reactivate
BY DEF Next, HostStep, ToolStep, Environment, Start, Exit, Boot, BootCancelled, Cancel, Find,
   FindCancelled, Classify, Settle, Stop, Plan, Discard, Authorize, AuthorizeLost, Adopt,
   Allocate, Bind, BindLost, Activate, Register, StartFails, StartFailed, Monitor,
   MonitorFails, Operator, Suspend, SuspendNote, SuspendGoal, SuspendRead, Contain,
   ContainNote, ContainPause, ContainArchive, ContainRead, ContainFail, Close, CloseFails,
   Release, Forget, UnbornClaims, UnbornReleases, UnbornFail, Resume, ResumeStale,
   Reopen, ResumeFails, CommitCheckpoint, AnswerCheckpoint, SaveCheckpoint, Crash,
   CrashUnsaved, OperatorStop, AskCheckpoint, GoalEnds, RecoverActiveGoal, durable, lanes,
   inputs, Save, Fault, Throw, Refuse, Call

LEMMA Reopening ==
    ASSUME IInv, Next, pc' = "reactivate"
    PROVE  Resume \/ pc = "reactivate"
<1>1. job.then # "reactivate"
  BY DEF IInv, TypeOK
<1>2. Bound # "reactivate"
  BY DEF Bound
<1> QED
  BY <1>1, <1>2 DEF Next, HostStep, ToolStep, Environment, Start, Exit, Boot, BootCancelled, Cancel, Find,
     FindCancelled, Classify, Settle, Stop, Plan, Discard, Authorize, AuthorizeLost, Adopt,
     Allocate, StartThread, Bind, BindLost, Activate, Register, StartFails, StartFailed, Monitor,
     MonitorFails, Operator, Suspend, SuspendNote, SuspendGoal, SuspendRead, Contain,
     ContainNote, ContainPause, ContainArchive, ContainRead, ContainFail, Close, CloseFails,
     Release, Forget, UnbornClaims, UnbornReleases, UnbornFail, ResumeStale,
     Reactivate, Reopen, ResumeFails, CommitCheckpoint, AnswerCheckpoint, SaveCheckpoint, Crash,
     CrashUnsaved, OperatorStop, AskCheckpoint, GoalEnds, RecoverActiveGoal, durable, lanes,
     inputs, Save, Fault, Throw, Refuse, Call

\* A running Goal, or one that is reopened, keeps its root thread.
LEMMA ThreadStays ==
    ASSUME IInv, Next, pc # "down", pc' # "down",
           \/ run = "running"
           \/ pc \in {"resume", "reactivate"}
    PROVE  active'.thread = active.thread
<1> USE DEF durable, lanes, inputs
<1>1. LanesAt /\ active \in ActiveGoals \cup {NoGoal}
  BY InHand
<1>2. CASE UNCHANGED active
  BY <1>2
<1>3. CASE Start \/ Find \/ Classify \/ Plan \/ Discard \/ Adopt \/ StartThread
  BY <1>1, <1>3 DEF Start, Find, Classify, Plan, Discard, Adopt, StartThread, LanesAt
<1>4. CASE Register \/ Monitor \/ Resume \/ Reopen
  <2>1. \/ UNCHANGED active
        \/ active' = [active EXCEPT !.phase = "registered"]
        \/ active' = [active EXCEPT !.why = "usage_limited"]
        \/ active' = [active EXCEPT !.why = None]
    BY <1>4 DEF Register, Monitor, Resume, Reopen, Save
  <2> QED BY <1>1, <2>1 DEF ActiveGoals, NoGoal
<1>5. CASE SuspendNote \/ SuspendRead \/ ContainNote \/ Forget \/ UnbornClaims
  BY <1>1, <1>5 DEF SuspendNote, SuspendRead, ContainNote, Forget, UnbornClaims, LanesAt
<1>6. CASE AnswerCheckpoint \/ SaveCheckpoint
  <2>1. \/ UNCHANGED active
        \/ active' = [active EXCEPT !.phase = "checkpointed", !.why = None]
    BY <1>6 DEF AnswerCheckpoint, SaveCheckpoint
  <2> QED BY <1>1, <2>1 DEF ActiveGoals, NoGoal
<1> QED BY <1>2, <1>3, <1>4, <1>5, <1>6, RecordWriters

LEMMA NextReopens ==
    ASSUME IInv, Reopens, Next
    PROVE  Reopens'
<1> USE DEF durable, lanes, inputs
<1>1. SUFFICES ASSUME pc' = "reactivate"
               PROVE  Current'.state = "bound" /\ Current'.thread = active'.thread
  BY DEF Reopens
<1>2. CASE Resume
  <2>1. UNCHANGED epochs /\ Exactly({"bound"}) /\ pc = "resume"
    BY <1>1, <1>2 DEF Resume
  <2>2. active'.thread = active.thread
    BY <1>1, <2>1, ThreadStays
  <2> QED BY <2>1, <2>2, EpochsKept DEF Exactly
<1>3. CASE pc = "reactivate"
  <2>1. active'.thread = active.thread
    BY <1>1, <1>3, ThreadStays
  <2>2. tool # "asked"
    BY <1>3, InHand DEF LanesAt
  <2>3. UNCHANGED epochs
    BY <1>1, <1>3, <2>2, EpochWriters DEF Settle, Authorize, AuthorizeLost, Bind, BindLost,
       ContainFail, UnbornFail, CommitCheckpoint, Crash
  <2> QED BY <1>3, <2>1, <2>3, EpochsKept DEF Reopens
<1> QED BY <1>1, <1>2, <1>3, Reopening

\* Where a thread that is bound to no Epoch cannot be at work.
LEMMA NobodyWorks ==
    ASSUME IInv,
           \/ pc \in {"down", "settle", "authorize", "thread", "find", "resume", "reactivate",
                      "contain_pause", "contain_fail", "unborn_fail"}
           \/ pc = "bind" /\ Current.state = "authorized"
    PROVE  Worker = None
<1>1. LanesAt /\ PhaseAt /\ Chain /\ WorkIsBound /\ (pc # "down" => Agrees(active))
      /\ epochs \in Seq(EpochRecords)
  BY InHand
<1>2. CASE pc # "bind"
  BY <1>1, <1>2 DEF LanesAt, Worker
<1>3. CASE pc = "bind"
  <2>1. active.phase = "pending" /\ active.ws \in Workspaces
    BY <1>1, <1>3, InHand DEF PhaseAt
  <2>2. Current.state = "authorized" /\ Current.thread = None
    BY <1>1, <1>3, CurrentIs DEF Chain
  <2>3. active.thread = active.ws /\ active.ws \notin Used
    BY <1>1, <1>3, <2>1, <2>2 DEF Agrees, Fits, Roots
  <2>4. goal[active.thread] # "active"
    BY <1>1, <2>1, <2>3 DEF WorkIsBound, Used
  <2> QED BY <2>4 DEF Worker
<1> QED BY <1>2, <1>3

\* Beside the Store a step leaves the worker, lets it rest, or sets it to work
\* for a bound Epoch.
LEMMA WorkerStep ==
    ASSUME IInv, Reopens, Next, UNCHANGED epochs
    PROVE  \/ Worker' = Worker
           \/ Worker' = None
           \/ Worker = None /\ Current.state = "bound" /\ Worker' = Current.thread
<1> USE DEF durable, lanes, inputs
<1>1. SUFFICES ASSUME Worker' # None PROVE
        \/ Worker' = Worker
        \/ Worker = None /\ Current.state = "bound" /\ Worker' = Current.thread
  OBVIOUS
<1>2. /\ pc' # "down" /\ run' = "running" /\ active'.thread # None
      /\ goal'[active'.thread] = "active" /\ Worker' = active'.thread
  BY <1>1 DEF Worker
<1>3. /\ LanesAt /\ PhaseAt /\ EpochAt /\ goal \in [Workspaces -> GoalStates]
      /\ active \in ActiveGoals \cup {NoGoal} /\ active.thread \in Workspaces \cup {None}
      /\ active.phase # "none" => active \in ActiveGoals /\ active.ws \in Workspaces
  BY InHand, GoalIs
<1>4. ~Start
  BY <1>2 DEF Start
<1>5. pc # "down"
  BY <1>2, <1>4, LeavesDown
<1>6. ~StartThread
  <2> SUFFICES ASSUME StartThread PROVE FALSE
    OBVIOUS
  <2>1. pc = "thread" /\ run # "running" /\ active.phase = "authorized"
    BY <1>3 DEF StartThread, LanesAt, PhaseAt
  <2>2. goal' = [goal EXCEPT ![active.ws] = "none"]
        /\ active' = [active EXCEPT !.thread = active.ws, !.phase = "pending"]
    BY <1>2, <2>1 DEF StartThread, Save
  <2>3. active'.thread = active.ws /\ active.ws \in Workspaces
    BY <1>3, <2>1, <2>2 DEF ActiveGoals
  <2> QED BY <1>2, <1>3, <2>2, <2>3
<1>7. CASE Reactivate
  <2>1. active' = active /\ pc = "reactivate"
    BY <1>7 DEF Reactivate
  <2>2. Worker = None
    BY <2>1, NobodyWorks
  <2> QED BY <1>2, <2>1, <2>2 DEF Reopens
<1>8. CASE ~Reactivate
  <2>1. run = "running"
    BY <1>2, <1>6, <1>8, RunWriters
  <2>2. active'.thread = active.thread
    BY <1>2, <1>5, <2>1, ThreadStays
  <2>3. CASE UNCHANGED goal
    BY <1>2, <1>5, <2>1, <2>2, <2>3 DEF Worker
  <2>4. CASE Activate
    <3>1. pc = "activate" /\ Current.state = "bound" /\ Current.thread = active.thread
      BY <1>3, <2>4 DEF Activate, EpochAt
    <3>2. Worker \in {None, active.thread}
      BY DEF Worker
    <3> QED BY <1>2, <2>2, <3>1, <3>2
  <2>5. CASE StartFailed \/ Monitor \/ SuspendGoal \/ ContainArchive \/ ResumeFails
    <3>1. UNCHANGED goal
      BY <1>2, <2>5 DEF StartFailed, Monitor, SuspendGoal, ContainArchive, ResumeFails
    <3> QED BY <2>3, <3>1
  <2>6. CASE ContainPause \/ CrashUnsaved
    BY <1>2, <1>3, <2>1, <2>6 DEF ContainPause, CrashUnsaved, LanesAt
  <2>7. CASE GoalEnds
    <3>1. active' = active /\ \E end \in {"complete", "usageLimited"} :
             goal' = [goal EXCEPT ![active.thread] = end]
      BY <2>7 DEF GoalEnds
    <3>2. active.thread \in Workspaces
      BY <1>2, <1>3, <2>2
    <3> QED BY <1>2, <1>3, <3>1, <3>2
  <2> QED BY <1>6, <1>8, <2>3, <2>4, <2>5, <2>6, <2>7, GoalWriters
<1> QED BY <1>7, <1>8

\* What the promise says of the chain is what the Host reads of the Store.
LEMMA PromiseLast ==
    /\ Promise!Last = Current
    /\ \A state, thread : SetCurrent(state, thread) <=> Promise!EndLast(state, thread)
BY DEF Promise!Last, Current, SetCurrent, Promise!EndLast

\* An event over the Store, with what works beside it.
LEMMA EventPromised ==
    ASSUME IInv, Next, ~UNCHANGED epochs
    PROVE  Promise!PromiseNext
<1> USE DEF durable, lanes, inputs
<1>1. /\ LanesAt /\ PhaseAt /\ Chain /\ (pc # "down" => Agrees(active))
      /\ epochs \in Seq(EpochRecords)
  BY InHand
<1>2. Current.state = "authorized" => Current.thread = None
  BY <1>1, CurrentIs DEF Chain
<1>3. CASE Settle
  <2>1. pc = "settle" /\ Current.state = "authorized" /\ SetCurrent("failed", Current.thread)
    BY <1>2, <1>3 DEF Settle
  <2>2. Worker = None /\ Worker' = None
    <3>1. Worker = None
      BY <2>1, NobodyWorks
    <3> QED BY <1>1, <1>3, <2>1, <3>1 DEF Settle, LanesAt, Worker
  <2> QED BY <2>1, <2>2, PromiseLast DEF Promise!FailIt, Promise!PromiseNext
<1>4. CASE Authorize \/ AuthorizeLost
  <2>1. /\ pc = "authorize" /\ ~Live /\ UNCHANGED run
        /\ epochs' = Append(epochs, [state |-> "authorized", thread |-> None])
    BY <1>4 DEF Authorize, AuthorizeLost
  <2>2. Worker = None /\ Worker' = None
    <3>1. run # "running" /\ run' # "running"
      BY <1>1, <2>1 DEF LanesAt
    <3> QED BY <3>1 DEF Worker
  <2>3. Promise!AuthorizeNext
    BY <2>1, <2>2, PromiseLast DEF Promise!AuthorizeNext, Live
  <2> QED BY <2>3 DEF Promise!PromiseNext
<1>5. CASE Bind \/ BindLost
  <2>1. /\ pc = "bind" /\ Current.state = "authorized" /\ SetCurrent("bound", active.thread)
        /\ UNCHANGED <<active, goal>>
    BY <1>5 DEF Bind, BindLost
  <2>2. active.phase = "pending" /\ active.ws \in Workspaces
    BY <1>1, <2>1, InHand DEF PhaseAt
  <2>3. active.thread = active.ws /\ active.ws \notin Used
    BY <1>1, <1>2, <2>1, <2>2 DEF Agrees, Fits, Roots
  <2>4. goal[active.thread] # "active"
    BY <2>2, <2>3, InHand DEF WorkIsBound, Used
  <2>5. Worker = None /\ Worker' = None
    BY <2>1, <2>4 DEF Worker
  <2>6. Promise!BindTo(active.ws)
    BY <2>1, <2>3, <2>5, PromiseLast DEF Promise!BindTo, Used
  <2> QED BY <2>2, <2>6 DEF Promise!PromiseNext
<1>6. CASE ContainFail \/ UnbornFail
  <2>1. Live /\ SetCurrent("failed", Current.thread) /\ run' = run /\ run # "running"
    BY <1>1, <1>2, <1>6, InHand DEF ContainFail, UnbornFail, LanesAt, EpochAt, Live
  <2>2. Worker = None /\ Worker' = None
    BY <2>1 DEF Worker
  <2> QED BY <2>1, <2>2, PromiseLast DEF Promise!FailIt, Promise!PromiseNext, Live
<1>7. CASE CommitCheckpoint \/ Crash
  <2>1. Exactly({"bound"}) /\ SetCurrent("checkpointed", active.thread)
    BY <1>7 DEF CommitCheckpoint, Crash
  <2>2. Worker' \in {Worker, None}
    BY <1>7 DEF CommitCheckpoint, Crash, Worker
  <2>3. Worker \in {None, Current.thread}
    BY <2>1 DEF Worker, Exactly
  <2>4. Promise!CheckpointIt
    BY <2>1, <2>2, <2>3, PromiseLast DEF Promise!CheckpointIt, Exactly
  <2> QED BY <2>4 DEF Promise!PromiseNext
<1> QED BY <1>3, <1>4, <1>5, <1>6, <1>7, EpochWriters

\* For any number of workspaces, Epochs, faults and stops each step of the Host,
\* the Store or Codex is a step of the promise or leaves it alone.
THEOREM EpochsPromised == Spec => KeepsEpochPromise
<1>1. ASSUME Init PROVE Promise!PromiseInit /\ Reopens
  BY <1>1 DEF Init, Promise!PromiseInit, Worker, Reopens
<1>2. ASSUME IInv, Reopens, [Next]_vars PROVE [Promise!PromiseNext]_(Promise!promiseVars)
  <2>1. CASE Next /\ UNCHANGED epochs
    BY <1>2, <2>1, WorkerStep, PromiseLast
       DEF Promise!PromiseNext, Promise!Work, Promise!Rest, Promise!promiseVars
  <2>2. CASE Next /\ ~UNCHANGED epochs
    BY <1>2, <2>2, EventPromised
  <2>3. CASE UNCHANGED vars
    BY <2>3 DEF vars, durable, lanes, Worker, Promise!promiseVars
  <2> QED BY <1>2, <2>1, <2>2, <2>3
<1>3. ASSUME IInv, Reopens, [Next]_vars PROVE Reopens'
  <2>1. CASE UNCHANGED vars
    BY <1>3, <2>1 DEF vars, durable, lanes, Reopens, Current
  <2> QED BY <1>3, <2>1, NextReopens
<1> QED BY <1>1, <1>2, <1>3, Invariance, PTL DEF Spec, KeepsEpochPromise, Promise!PromiseSpec
=============================================================================
