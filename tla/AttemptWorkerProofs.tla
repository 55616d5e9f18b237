------------------------ MODULE AttemptWorkerProofs ------------------------
(***************************************************************************)
(* What holds of the Attempt worker in every order of its threads, its App *)
(* Server and its provider: types, that the terminal record comes last,    *)
(* that it answers a request, and that a success is earned; and of the     *)
(* custody it keeps of delegated threads, that no final message is lost    *)
(* and that its verdict does not depend on the order of what it is told.   *)
(***************************************************************************)
EXTENDS AttemptWorker, DelegationParentage, FiniteSetTheorems, WellFoundedInduction,
        TLAPS

\* Where the main thread waits and joins, the App Server is gone; past the
\* join, so is the control thread.
Closed ==
    /\ main \in {"join", "observe", "abort_join", "done"} => ~alive
    /\ main \in {"observe", "done"} => monitor = "done"

\* A record is the last step, and nothing it was made of changes after it.
RecordLast == completion # "none" => main = "done"

\* The status is that of the turn, which has ended.
StatusOfTurn == status # "none" => turn = status

\* The control thread acts on a request alone.
Requested ==
    /\ cancel \/ monitor = "send" => "cancel" \in files
    /\ force => files # {}

IInv ==
    /\ TypeOK /\ Closed /\ RecordLast /\ StatusOfTurn /\ Requested
    /\ RecordAnswersRequests /\ SuccessIsEarned

LEMMA InitIInv == Init => IInv
BY DEF Init, IInv, TypeOK, Closed, RecordLast, StatusOfTurn, Requested,
       RecordAnswersRequests, SuccessIsEarned, TurnStatuses, MainSteps

\* The provider and the App Server do not touch the worker.
LEMMA ServerKeepsIInv ==
    ASSUME IInv,
           \/ \E action \in {"cancel", "force_stop"} : RequestFile(action)
           \/ \E next \in TurnStatuses \cup {"running"} : TurnMoves(next)
           \/ ServerExits
    PROVE  IInv'
<1> USE DEF IInv, TypeOK, Closed, RecordLast, StatusOfTurn, Requested,
            RecordAnswersRequests, SuccessIsEarned, TurnStatuses, MainSteps,
            server, facts, events
<1>1. ASSUME NEW action \in {"cancel", "force_stop"}, RequestFile(action)
      PROVE  IInv'
  BY <1>1 DEF RequestFile
<1>2. ASSUME NEW next \in TurnStatuses \cup {"running"}, TurnMoves(next)
      PROVE  IInv'
  BY <1>2 DEF TurnMoves
<1>3. CASE ServerExits
  <2>1. alive' = FALSE /\ UNCHANGED <<files, turn, interrupted, term, stdin, ids, status,
           flawed, force, cancel, stop, sent, main, monitor, completion>>
    BY <1>3 DEF ServerExits
  <2>2. TypeOK'
    BY <2>1
  <2>3. (Closed /\ RecordLast /\ StatusOfTurn /\ Requested)'
    BY <2>1
  <2>4. (RecordAnswersRequests /\ SuccessIsEarned)'
    BY <2>1
  <2> QED BY <2>2, <2>3, <2>4
<1> QED BY <1>1, <1>2, <1>3

\* Nor does what the main thread receives decide anything yet.
LEMMA ReceiveKeepsIInv == IInv /\ Receive => IInv'
<1> SUFFICES ASSUME IInv, Receive PROVE IInv'
  OBVIOUS
<1> USE DEF IInv, TypeOK, Closed, RecordLast, StatusOfTurn, Requested,
            RecordAnswersRequests, SuccessIsEarned, TurnStatuses, MainSteps,
            server, facts, events, MainGoes
<1>1. CASE LearnIds
  BY <1>1 DEF LearnIds
<1>2. CASE HandshakeDone
  BY <1>2 DEF HandshakeDone
<1>3. CASE BadReply
  BY <1>3 DEF BadReply
<1>4. CASE FlawNoticed
  BY <1>4 DEF FlawNoticed
<1> QED BY <1>1, <1>2, <1>3, <1>4 DEF Receive

\* The main thread goes on: each wait has given what Closed says.
LEMMA ProceedKeepsIInv == IInv /\ Proceed => IInv'
<1> SUFFICES ASSUME IInv, Proceed PROVE IInv'
  OBVIOUS
<1> USE DEF IInv, TypeOK, Closed, RecordLast, StatusOfTurn, Requested,
            RecordAnswersRequests, SuccessIsEarned, TurnStatuses, MainSteps,
            server, facts, events, MainGoes
<1>1. CASE ServerLost
  BY <1>1 DEF ServerLost
<1>2. CASE WaitForTerminal
  BY <1>2 DEF WaitForTerminal
<1>3. CASE CloseBegins
  BY <1>3 DEF CloseBegins
<1>4. CASE CloseStdin
  BY <1>4 DEF CloseStdin
<1>5. CASE Terminate
  BY <1>5 DEF Terminate
<1>6. CASE Reap
  BY <1>6 DEF Reap
<1>7. CASE Join
  BY <1>7 DEF Join
<1>8. CASE WriteRecord
  <2>1. PICK flaw \in {flawed, TRUE} : flawed' = flaw /\ completion' = Outcome(flaw)
    BY <1>8 DEF WriteRecord
  <2>2. completion' \in {"SUCCEEDED", "FAILED", "CANCELLED", "FORCE_STOPPED"}
    BY <2>1 DEF Outcome
  <2>3. /\ completion' = "CANCELLED" => cancel
        /\ completion' = "FORCE_STOPPED" => force
        /\ completion' = "SUCCEEDED" => ~force /\ ~flaw /\ status = "completed"
    BY <2>1 DEF Outcome
  <2>4. TypeOK'
    BY <1>8, <2>1, <2>2 DEF WriteRecord
  <2>5. (Closed /\ RecordLast /\ StatusOfTurn /\ Requested)'
    BY <1>8 DEF WriteRecord
  <2>6. (RecordAnswersRequests /\ SuccessIsEarned)'
    BY <1>8, <2>1, <2>3 DEF WriteRecord
  <2> QED BY <2>4, <2>5, <2>6
<1>9. CASE ObserveFails
  BY <1>9 DEF ObserveFails
<1>10. CASE Abort
  BY <1>10 DEF Abort
<1>11. CASE AbortRecord
  BY <1>11 DEF AbortRecord
<1> QED
  BY <1>1, <1>2, <1>3, <1>4, <1>5, <1>6, <1>7, <1>8, <1>9, <1>10, <1>11
  DEF Proceed

\* The control thread acts only while the main thread has not joined it.
LEMMA MonitorKeepsIInv == IInv /\ Monitor => IInv'
<1> SUFFICES ASSUME IInv, Monitor PROVE IInv'
  OBVIOUS
<1> USE DEF IInv, TypeOK, Closed, RecordLast, StatusOfTurn, Requested,
            RecordAnswersRequests, SuccessIsEarned, TurnStatuses, MainSteps,
            server, facts, events
<1>1. CASE Sleep
  BY <1>1 DEF Sleep
<1>2. CASE LookForce
  BY <1>2 DEF LookForce
<1>3. CASE LookNoForce
  BY <1>3 DEF LookNoForce
<1>4. CASE LookCancel
  BY <1>4 DEF LookCancel
<1>5. CASE LookNone
  BY <1>5 DEF LookNone
<1>6. CASE SendInterrupt
  BY <1>6 DEF SendInterrupt
<1>7. CASE SendFails
  BY <1>7 DEF SendFails
<1> QED BY <1>1, <1>2, <1>3, <1>4, <1>5, <1>6, <1>7 DEF Monitor

\* The invariant from which all that follows is read off.
THEOREM IInvHolds == Spec => []IInv
<1>1. Init => IInv
  BY InitIInv
<1>2. IInv /\ [Next]_vars => IInv'
  <2> SUFFICES ASSUME IInv, [Next]_vars PROVE IInv'
    OBVIOUS
  <2>1. CASE Next
    BY <2>1, ServerKeepsIInv, ReceiveKeepsIInv, ProceedKeepsIInv, MonitorKeepsIInv
    DEF Next
  <2>2. CASE UNCHANGED vars
    BY <2>2 DEF vars, IInv, TypeOK, Closed, RecordLast, StatusOfTurn, Requested,
       RecordAnswersRequests, SuccessIsEarned, server, facts, events
  <2> QED BY <2>1, <2>2
<1> QED BY <1>1, <1>2, PTL DEF Spec

\* Every variable of the worker keeps its type.
THEOREM TypesHold == Spec => []TypeOK
<1>1. IInv => TypeOK
  BY DEF IInv
<1> QED BY <1>1, IInvHolds, PTL

\* The terminal record is written last, over a server that is gone and a
\* control thread that is done (close_after_terminal joins it).
THEOREM RecordIsLast == Spec => []RecordAfterExit
<1>1. IInv => RecordAfterExit
  BY DEF IInv, RecordLast, Closed, RecordAfterExit
<1> QED BY <1>1, IInvHolds, PTL

\* CANCELLED and FORCE_STOPPED answer a request that was made, in every order
\* of request, poll and end (_terminal_observation).
THEOREM RecordIsAnswer == Spec => []RecordAnswersRequests
<1>1. IInv => RecordAnswersRequests
  BY DEF IInv
<1> QED BY <1>1, IInvHolds, PTL

\* SUCCEEDED is recorded only of a completed turn of a server nobody killed.
THEOREM SuccessIsTrue == Spec => []SuccessIsEarned
<1>1. IInv => SuccessIsEarned
  BY DEF IInv
<1> QED BY <1>1, IInvHolds, PTL
-----------------------------------------------------------------------------
(* The custody of the delegated threads, which the main thread keeps beside. *)

\* The threads of which one of the notifications ts brings a message.
Speakers(ts) == {m.child : m \in {n \in ts : n.kind \in {"final", "wait"}}}

\* Those that one of them introduces, with their parents.
Introduced(ts) == {m.child : m \in {n \in ts : n.kind = "spawn"}}

\* A custody that has not failed, with par registered, pend pending, wait queued and
\* fin recorded, has lost nothing of the notifications ts: every thread introduced
\* is registered or pending under the parent it was introduced with, the messages
\* of those registered are recorded, and those of the others are queued.
Fits(par, pend, wait, fin, ts) ==
    /\ DOMAIN par \cap DOMAIN pend = {}
    /\ \A s \in ts : s.kind = "spawn" =>
          /\ s.child # Root
          /\ \/ s.child \in DOMAIN par /\ par[s.child] = s.parent
             \/ s.child \in DOMAIN pend /\ pend[s.child] = s.parent
    /\ DOMAIN par \cup DOMAIN pend \subseteq Introduced(ts)
    /\ \A c \in DOMAIN par \cap Speakers(ts) : <<c, par[c]>> \in fin
    /\ \A f \in fin : \E c \in DOMAIN par \cap Speakers(ts) : f = <<c, par[c]>>
    /\ \A f \in wait : f.child \in Speakers(ts) \ DOMAIN par
    /\ \A c \in Speakers(ts) \ (DOMAIN par \cup {Root}) : \E f \in wait : f.child = c

\* The custody fits what was told until it fails, and nothing is left at the end.
CustodyInv ==
    ~failed =>
      /\ Fits(parent, pending, waiting, finals, told)
      /\ over => DOMAIN pending = {} /\ waiting = {}

\* What resolving takes is pending.
LEMMA ResolvableIsPending ==
    ASSUME NEW pend
    PROVE  Resolvable(pend) \subseteq DOMAIN pend
BY DEF Resolvable

\* Resolving what fits, without a failure, leaves what fits.
LEMMA ResolvedFits ==
    ASSUME NEW pend, NEW ts, Fits(parent, pend, waiting, finals, ts), Resolved(pend),
           ~ResolvingFails(pend)
    PROVE  Fits(parent', pending', waiting', finals', ts)
<1> DEFINE done == Resolvable(pend)
<1>1. done \subseteq DOMAIN pend
  BY ResolvableIsPending
<1>2. TooDeep(pend) = {} /\ Misplaced(pend) = {}
  BY DEF ResolvingFails
<1>3. parent' = [c \in DOMAIN parent \cup done |-> ParentIn(pend, c)]
  BY DEF Resolved
<1>4. pending' = [c \in DOMAIN pend \ done |-> pend[c]]
  BY <1>2 DEF Resolved, Restrict
<1>5. waiting' = {f \in waiting : f.child \notin done}
  BY DEF Resolved, Drained
<1>6. finals' = finals \cup
                   {<<f.child, pend[f.child]>> : f \in {g \in waiting : g.child \in done}}
  BY <1>2 DEF Resolved, Drained
<1> HIDE DEF done
<1>7. DOMAIN parent \cap DOMAIN pend = {}
  BY DEF Fits
<1>8. /\ DOMAIN parent' = DOMAIN parent \cup done
      /\ \A c \in DOMAIN parent : parent'[c] = parent[c]
      /\ \A c \in done : parent'[c] = pend[c]
  BY <1>1, <1>3, <1>7 DEF ParentIn, Known
<1>9. /\ DOMAIN pending' = DOMAIN pend \ done
      /\ \A c \in DOMAIN pend \ done : pending'[c] = pend[c]
  BY <1>4
<1>10. DOMAIN parent' \cap DOMAIN pending' = {}
  BY <1>1, <1>7, <1>8, <1>9
<1>11. ASSUME NEW s \in ts, s.kind = "spawn"
       PROVE  /\ s.child # Root
              /\ \/ s.child \in DOMAIN parent' /\ parent'[s.child] = s.parent
                 \/ s.child \in DOMAIN pending' /\ pending'[s.child] = s.parent
  BY <1>8, <1>9, <1>11 DEF Fits
<1>12. \A c \in DOMAIN parent' \cup DOMAIN pending' : c \in Introduced(ts)
  BY <1>1, <1>8, <1>9 DEF Fits
<1>13. ASSUME NEW c \in DOMAIN parent', c \in Speakers(ts)
       PROVE  <<c, parent'[c]>> \in finals'
  <2>1. CASE c \in DOMAIN parent
    BY <1>6, <1>8, <1>13, <2>1 DEF Fits
  <2>2. CASE c \in done
    <3>1. c \in DOMAIN pend /\ c \notin DOMAIN parent /\ c # Root
      BY <1>1, <1>7, <2>2 DEF Fits, Introduced
    <3>2. PICK f \in waiting : f.child = c
      BY <1>13, <3>1 DEF Fits
    <3>3. <<c, pend[c]>> \in finals'
      BY <1>6, <2>2, <3>2
    <3> QED BY <1>8, <2>2, <3>3
  <2> QED BY <1>8, <1>13, <2>1, <2>2
<1>14. ASSUME NEW f \in finals'
       PROVE  \E c \in DOMAIN parent' : f = <<c, parent'[c]>> /\ c \in Speakers(ts)
  <2>1. CASE f \in finals
    BY <1>8, <2>1 DEF Fits
  <2>2. CASE f \notin finals
    <3>1. PICK g \in waiting : g.child \in done /\ f = <<g.child, pend[g.child]>>
      BY <1>6, <2>2
    <3>2. g.child \in Speakers(ts)
      BY DEF Fits
    <3> QED BY <1>8, <3>1, <3>2
  <2> QED BY <2>1, <2>2
<1>15. \A f \in waiting' : f.child \notin DOMAIN parent' /\ f.child \in Speakers(ts)
  BY <1>5, <1>8 DEF Fits
<1>16. ASSUME NEW c, c \in Speakers(ts), c # Root, c \notin DOMAIN parent'
       PROVE  \E f \in waiting' : f.child = c
  BY <1>5, <1>8, <1>16 DEF Fits
<1> QED BY <1>10, <1>11, <1>12, <1>13, <1>14, <1>15, <1>16 DEF Fits

\* What was told, with one notification more.
With(ts, kind, c, p) == ts \cup {[kind |-> kind, child |-> c, parent |-> p]}

\* Only a spawn introduces, and only a final answer or a wait call speaks.
LEMMA WithAdds ==
    ASSUME NEW ts, NEW kind, NEW c, NEW p
    PROVE  /\ \A d : d \in Speakers(With(ts, kind, c, p))
                 <=> d \in Speakers(ts) \/ (kind \in {"final", "wait"} /\ d = c)
           /\ \A d : d \in Introduced(With(ts, kind, c, p))
                 <=> d \in Introduced(ts) \/ (kind = "spawn" /\ d = c)
           /\ \A s \in With(ts, kind, c, p) :
                 s \in ts \/ (s.kind = kind /\ s.child = c /\ s.parent = p)
<1> DEFINE m == [kind |-> kind, child |-> c, parent |-> p]
           us == With(ts, kind, c, p)
<1>1. us = ts \cup {m} /\ m.kind = kind /\ m.child = c /\ m.parent = p
  BY DEF With
<1> HIDE DEF m, us
<1>2. \A d : d \in Speakers(us) <=> d \in Speakers(ts) \/ (kind \in {"final", "wait"} /\ d = c)
  BY <1>1 DEF Speakers
<1>3. \A d : d \in Introduced(us) <=> d \in Introduced(ts) \/ (kind = "spawn" /\ d = c)
  BY <1>1 DEF Introduced
<1>4. \A s \in us : s \in ts \/ (s.kind = kind /\ s.child = c /\ s.parent = p)
  BY <1>1
<1> QED BY <1>2, <1>3, <1>4 DEF us

\* Telling what says nothing new of spawns and messages changes nothing.
LEMMA MoreTold ==
    ASSUME NEW par, NEW pend, NEW wait, NEW fin, NEW ts, Fits(par, pend, wait, fin, ts),
           NEW kind \in {"send", "root"}, NEW c, NEW p
    PROVE  Fits(par, pend, wait, fin, With(ts, kind, c, p))
<1> DEFINE us == With(ts, kind, c, p)
<1> HIDE DEF us
<1>1. /\ \A d : d \in Speakers(us) <=> d \in Speakers(ts)
      /\ \A d : d \in Introduced(us) <=> d \in Introduced(ts)
      /\ \A s \in us : s.kind = "spawn" => s \in ts
  <2>1. /\ \A d : d \in Speakers(us)
              <=> d \in Speakers(ts) \/ (kind \in {"final", "wait"} /\ d = c)
        /\ \A d : d \in Introduced(us) <=> d \in Introduced(ts) \/ (kind = "spawn" /\ d = c)
        /\ \A s \in us : s \in ts \/ (s.kind = kind /\ s.child = c /\ s.parent = p)
    BY WithAdds DEF us
  <2> QED BY <2>1
<1> QED BY <1>1 DEF Fits, us

\* _register_descendant.
LEMMA SpawnKeeps ==
    ASSUME CustodyInv, NEW c, NEW p, Spawn(c, p)
    PROVE  CustodyInv'
<1> SUFFICES ASSUME ~failed' PROVE Fits(parent', pending', waiting', finals', told') /\ ~over'
  BY DEF CustodyInv
<1> DEFINE us == With(told, "spawn", c, p)
           pend == [d \in DOMAIN pending \cup {c} |-> IF d = c THEN p ELSE pending[d]]
<1> HIDE DEF us
<1>0. /\ \A d : d \in Speakers(us) <=> d \in Speakers(told)
      /\ \A d : d \in Introduced(us) <=> (d \in Introduced(told) \/ d = c)
      /\ \A s \in us : s \in told \/ (s.child = c /\ s.parent = p)
  <2>1. /\ \A d : d \in Speakers(us)
              <=> d \in Speakers(told) \/ ("spawn" \in {"final", "wait"} /\ d = c)
        /\ \A d : d \in Introduced(us)
              <=> d \in Introduced(told) \/ ("spawn" = "spawn" /\ d = c)
        /\ \A s \in us : s \in told \/ (s.kind = "spawn" /\ s.child = c /\ s.parent = p)
    BY WithAdds DEF us
  <2> QED BY <2>1
<1>1. ~over /\ ~over' /\ told' = us
  BY DEF Spawn, Observed, With, us
<1>2. CASE Contradicts(c, p)
  BY <1>2 DEF Spawn
<1>3. CASE ~Contradicts(c, p) /\ Known(c)
  <2>1. UNCHANGED <<parent, pending, waiting, finals, failed>>
    BY <1>3 DEF Spawn, custody
  <2>2. Fits(parent, pending, waiting, finals, told)
    BY <2>1 DEF CustodyInv
  <2>3. c # Root /\ c \in DOMAIN parent /\ parent[c] = p
    BY <1>3 DEF Contradicts, Known
  <2>4. Fits(parent, pending, waiting, finals, us)
    BY <1>0, <2>2, <2>3 DEF Fits
  <2> QED BY <1>1, <2>1, <2>4
<1>4. CASE ~Contradicts(c, p) /\ ~Known(c) /\ Loops(c, p)
  BY <1>4 DEF Spawn
<1>5. CASE ~Contradicts(c, p) /\ ~Known(c) /\ ~Loops(c, p)
  <2>1. Resolved(pend) /\ failed' = (failed \/ ResolvingFails(pend))
    BY <1>5 DEF Spawn
  <2>2. ~ResolvingFails(pend) /\ Fits(parent, pending, waiting, finals, told)
    BY <2>1 DEF CustodyInv
  <2>3. c # Root /\ c \notin DOMAIN parent /\ (c \in DOMAIN pending => pending[c] = p)
    BY <1>5 DEF Contradicts, Known, Pending
  <2>4. /\ DOMAIN pend = DOMAIN pending \cup {c} /\ pend[c] = p
        /\ \A d \in DOMAIN pending : pend[d] = pending[d]
    BY <2>3
  <2> HIDE DEF pend
  <2>5. Fits(parent, pend, waiting, finals, us)
    BY <1>0, <2>2, <2>3, <2>4 DEF Fits
  <2>6. Fits(parent', pending', waiting', finals', us)
    BY <2>1, <2>2, <2>5, ResolvedFits
  <2> QED BY <1>1, <2>6
<1> QED BY <1>2, <1>3, <1>4, <1>5

\* _queue_or_record_descendant_final: a message of a registered thread is
\* recorded, one of a thread that is not is kept for later.
LEMMA QueueFits ==
    ASSUME NEW c, NEW expected, NEW kind \in {"final", "wait"},
           Fits(parent, pending, waiting, finals, told),
           Queue(c, expected),
           Known(c) => expected \in {Nobody, parent[c]}
    PROVE  Fits(parent, pending, waiting', finals', With(told, kind, c, expected))
<1> DEFINE us == With(told, kind, c, expected)
<1>1. /\ \A d : d \in Speakers(us) <=> (d \in Speakers(told) \/ d = c)
      /\ \A d : d \in Introduced(us) <=> d \in Introduced(told)
      /\ \A s \in us : s.kind = "spawn" => s \in told
  BY WithAdds
<1>2. CASE Known(c)
  <2>1. waiting' = waiting /\ finals' = finals \cup {<<c, parent[c]>>} /\ c \in DOMAIN parent
    BY <1>2 DEF Queue, Known
  <2> HIDE DEF us
  <2> QED BY <1>1, <2>1 DEF Fits, us
<1>3. CASE ~Known(c) /\ c = Root
  <2>1. waiting' = waiting /\ finals' = finals /\ c \notin DOMAIN parent /\ c = Root
    BY <1>3 DEF Queue, Known
  <2> HIDE DEF us
  <2> QED BY <1>1, <2>1 DEF Fits, us
<1>4. CASE ~Known(c) /\ c # Root
  <2> DEFINE f == [child |-> c, parent |-> expected]
  <2>1. /\ waiting' = waiting \cup {f} /\ finals' = finals
        /\ c \notin DOMAIN parent /\ f.child = c
    BY <1>4 DEF Queue, Known
  <2> HIDE DEF us, f
  <2> QED BY <1>1, <2>1 DEF Fits, us
<1> QED BY <1>2, <1>3, <1>4

\* Every notification and the end keep the custody.
LEMMA NextKeepsCustody == CustodyInv /\ [CustodyNext]_custodyVars => CustodyInv'
<1> SUFFICES ASSUME CustodyInv, [CustodyNext]_custodyVars PROVE CustodyInv'
  OBVIOUS
<1>1. CASE UNCHANGED custodyVars
  BY <1>1 DEF custodyVars, CustodyInv
<1>2. ASSUME NEW c, NEW p, Spawn(c, p) PROVE CustodyInv'
  BY <1>2, SpawnKeeps
<1>3. ASSUME NEW c, NEW p, Send(c, p) PROVE CustodyInv'
  <2>1. /\ ~over' /\ told' = With(told, "send", c, p) /\ (~failed' => ~failed)
        /\ UNCHANGED <<parent, pending, waiting, finals>>
    BY <1>3 DEF Send, Observed, With
  <2> QED BY <2>1, MoreTold DEF CustodyInv
<1>4. ASSUME NEW c, NEW p, Wait(c, p) PROVE CustodyInv'
  <2>1. /\ ~over' /\ told' = With(told, "wait", c, p) /\ (~failed' => ~failed)
        /\ UNCHANGED <<parent, pending>> /\ Queue(c, p)
        /\ (~failed' => ~Contradicts(c, p))
    BY <1>4 DEF Wait, Observed, With, AssertFails
  <2>2. ~failed' /\ Known(c) => p \in {Nobody, parent[c]}
    BY <2>1 DEF Contradicts
  <2> QED BY <2>1, <2>2, QueueFits DEF CustodyInv
<1>5. ASSUME NEW c, Final(c) PROVE CustodyInv'
  <2>1. /\ ~over' /\ told' = With(told, "final", c, Nobody) /\ failed' = failed
        /\ UNCHANGED <<parent, pending>> /\ Queue(c, Nobody)
    BY <1>5 DEF Final, Observed, With
  <2> QED BY <2>1, QueueFits DEF CustodyInv
<1>6. ASSUME NEW c, RootStarted(c) PROVE CustodyInv'
  <2>1. /\ ~over' /\ told' = With(told, "root", c, Nobody) /\ (~failed' => ~failed)
        /\ UNCHANGED <<parent, pending, waiting, finals>>
    BY <1>6 DEF RootStarted, Observed, With, custody
  <2> QED BY <2>1, MoreTold DEF CustodyInv
<1>7. CASE Finalize
  <2> SUFFICES ASSUME ~failed'
               PROVE  /\ Fits(parent', pending', waiting', finals', told')
                      /\ DOMAIN pending' = {} /\ waiting' = {}
    BY DEF CustodyInv
  <2>1. /\ ~failed /\ ~ResolvingFails(pending)
        /\ Resolved(pending) /\ told' = told
        /\ DOMAIN pending' = {} /\ waiting' = {}
    BY <1>7 DEF Finalize
  <2>2. Fits(parent, pending, waiting, finals, told)
    BY <2>1 DEF CustodyInv
  <2> QED BY <2>1, <2>2, ResolvedFits
<1> QED BY <1>1, <1>2, <1>3, <1>4, <1>5, <1>6, <1>7 DEF CustodyNext

\* At the start nothing was told.
LEMMA InitCustody == CustodyInit => CustodyInv
BY DEF CustodyInit, CustodyInv, Fits, Speakers, Introduced

\* Of delegated threads whose notifications come in any order, more than once and
\* with any parents, a custody that ends without a failure has recorded the final
\* messages of exactly the threads that spoke, under the parents the server named:
\* none is lost when a thread is registered after it spoke (_TopLevelFacts).
THEOREM FinalsAreKept == CustodySpec => []FinalsKept
<1>1. CustodyInv => FinalsKept
  <2> SUFFICES ASSUME CustodyInv, over, ~failed
               PROVE  finals = {<<s.child, s.parent>> : s \in
                         {t \in Spawned : \E m \in told :
                             m.kind \in {"final", "wait"} /\ m.child = t.child}}
    BY DEF FinalsKept
  <2>1. Fits(parent, pending, waiting, finals, told) /\ DOMAIN pending = {}
    BY DEF CustodyInv
  <2> DEFINE spoken == {t \in Spawned : t.child \in Speakers(told)}
  <2>2. ASSUME NEW f \in finals PROVE \E s \in spoken : f = <<s.child, s.parent>>
    <3>1. PICK c \in DOMAIN parent : f = <<c, parent[c]>> /\ c \in Speakers(told)
      BY <2>1 DEF Fits
    <3>2. PICK s \in told : s.kind = "spawn" /\ s.child = c
      BY <2>1 DEF Fits, Introduced
    <3>3. parent[c] = s.parent
      BY <2>1, <3>2 DEF Fits
    <3> QED BY <3>1, <3>2, <3>3 DEF Spawned
  <2>3. ASSUME NEW s \in spoken PROVE <<s.child, s.parent>> \in finals
    <3>1. s.child \in DOMAIN parent /\ parent[s.child] = s.parent
      BY <2>1 DEF Fits, Spawned
    <3> QED BY <2>1, <3>1 DEF Fits
  <2>4. finals = {<<s.child, s.parent>> : s \in spoken}
    <3> HIDE DEF spoken
    <3> QED BY <2>2, <2>3
  <2> QED BY <2>4 DEF Speakers
<1> QED BY <1>1, InitCustody, NextKeepsCustody, PTL DEF CustodySpec
-----------------------------------------------------------------------------
(* Induction.  Where a predicate cannot be a parameter a set can: a set of *)
(* naturals that has no least element is empty.                            *)

\* A set of naturals has a least element.
LEMMA Least ==
    ASSUME NEW T, T \subseteq Nat, T # {}
    PROVE  \E n \in T : \A m \in T : ~(m < n)
<1> DEFINE R == {ss \in Nat \X Nat : ss[1] < ss[2]}
<1>1. IsWellFoundedOn(R, Nat)
  BY NatLessThanWellFounded DEF OpToRel
<1>2. PICK n \in T : \A m \in T : ~(<<m, n>> \in R)
  <2> HIDE DEF R
  <2> QED BY <1>1, WFMin
<1> QED BY <1>2

\* Induction, of a set instead of a predicate.
LEMMA Induction ==
    ASSUME NEW S, 0 \in S, \A n \in Nat : n \in S => n + 1 \in S
    PROVE  \A n \in Nat : n \in S
<1> SUFFICES ASSUME Nat \ S # {} PROVE FALSE
  OBVIOUS
<1>1. PICK n \in Nat \ S : \A m \in Nat \ S : ~(m < n)
  BY Least
<1>2. n # 0 /\ n - 1 \in Nat /\ n - 1 < n
  OBVIOUS
<1>3. n - 1 \in S /\ (n - 1) + 1 = n
  BY <1>1, <1>2
<1> QED BY <1>2, <1>3

\* Some g iterates F on V, n times from x.
Iterable(V, F, x, n) ==
    \E g \in [0 .. n -> V] : g[0] = x /\ \A k \in 1 .. n : g[k] = F[g[k - 1]]

\* A function on V can be iterated any number of times.
LEMMA Iterated ==
    ASSUME NEW V, NEW F \in [V -> V], NEW x \in V, NEW m \in Nat
    PROVE  Iterable(V, F, x, m)
<1> DEFINE Of(g, n) == g[0] = x /\ \A k \in 1 .. n : g[k] = F[g[k - 1]]
           S == {n \in Nat : \E g \in [0 .. n -> V] : Of(g, n)}
<1>1. 0 \in S
  <2> DEFINE g == [k \in 0 .. 0 |-> x]
  <2>1. g \in [0 .. 0 -> V] /\ Of(g, 0)
    OBVIOUS
  <2> QED BY <2>1
<1>2. ASSUME NEW n \in Nat, n \in S PROVE n + 1 \in S
  <2>1. PICK g \in [0 .. n -> V] : Of(g, n)
    BY <1>2
  <2> DEFINE h == [k \in 0 .. n + 1 |-> IF k = n + 1 THEN F[g[n]] ELSE g[k]]
  <2>2. h \in [0 .. n + 1 -> V]
    OBVIOUS
  <2>3. /\ h[n + 1] = F[g[n]]
        /\ \A k \in 0 .. n : h[k] = g[k]
    OBVIOUS
  <2> HIDE DEF h
  <2>4. Of(h, n + 1)
    <3>1. h[0] = x
      BY <2>1, <2>3
    <3>2. ASSUME NEW k \in 1 .. n + 1 PROVE h[k] = F[h[k - 1]]
      <4>1. CASE k = n + 1
        BY <2>3, <4>1
      <4>2. CASE k \in 1 .. n
        BY <2>1, <2>3, <4>2
      <4> QED BY <4>1, <4>2
    <3> QED BY <3>1, <3>2
  <2> QED BY <2>2, <2>4
<1> HIDE DEF S
<1>3. \A n \in Nat : n \in S
  BY <1>1, <1>2, Induction
<1> QED BY <1>3 DEF S, Iterable

-----------------------------------------------------------------------------
(* The verdict on a delegation and the order of its notifications. *)

\* One of the notifications ts names q as the parent of d; it is a spawn that does.
Claimed(ts, d, q) ==
    \E m \in ts : m.kind \in {"spawn", "send", "wait"} /\ m.child = d /\ m.parent = q
Hatched(ts, d, q) == \E m \in ts : m.kind = "spawn" /\ m.child = d /\ m.parent = q

\* All the custody holds of parents, it was told.
Heard(par, pend, ass, wait, ts) ==
    /\ ts \subseteq Notification
    /\ ass \in [Thread -> SUBSET AnyThread]
    /\ DOMAIN par \cap DOMAIN pend = {}
    /\ \A d \in DOMAIN par : d # Root /\ Hatched(ts, d, par[d]) /\ ass[d] = {}
    /\ \A d \in DOMAIN pend : d # Root /\ Hatched(ts, d, pend[d])
    /\ \A d \in Thread : \A q \in ass[d] : Claimed(ts, d, q)
    /\ \A f \in wait : /\ f.child # Root
                       /\ f.parent # Nobody => Claimed(ts, f.child, f.parent)

\* What was told may still become one tree, whatever is told next.
Possible(ts) ==
    /\ \A m \in ts : m.kind = "root" => m.child = Root
    /\ \A d, q \in AnyThread : Claimed(ts, d, q) => d # Root /\ d # q
    /\ \A d, q, r \in AnyThread : Claimed(ts, d, q) /\ Claimed(ts, d, r) => q = r
    /\ \E depth \in [AnyThread -> 0 .. MaxDepth] :
          /\ depth[Root] = 0
          /\ \A d, q \in AnyThread : Hatched(ts, d, q) => depth[d] = depth[q] + 1

\* The registered threads hang on the root, and no claim contradicts what is kept.
Agrees(par, pend, ass, ts) ==
    /\ \A m \in ts : m.kind = "root" => m.child = Root
    /\ \A d, q \in AnyThread : Claimed(ts, d, q) =>
          /\ d # Root
          /\ d \in DOMAIN par => par[d] = q
          /\ d \notin DOMAIN par =>
                q \in ass[d] \/ (d \in DOMAIN pend /\ pend[d] = q)
    /\ \E depth \in [AnyThread -> 0 .. MaxDepth] :
          /\ depth[Root] = 0
          /\ \A d \in DOMAIN par :
                /\ depth[d] = depth[par[d]] + 1
                /\ par[d] = Root \/ par[d] \in DOMAIN par

VerdictInv ==
    /\ Heard(parent, pending, asserted, waiting, told)
    /\ ~failed => Agrees(parent, pending, asserted, told)
    /\ failed /\ ~over => ~Possible(told)
    /\ VerdictHasNoOrder

\* The levels are what LevelsOf says they are.
LEMMA LevelsOfDef ==
    ASSUME NEW pend
    PROVE  /\ LevelsOf(pend)[0] = {Root}
           /\ \A k \in 1 .. MaxDepth :
                LevelsOf(pend)[k] = {c \in DOMAIN parent \cup DOMAIN pend :
                                       ParentIn(pend, c) \in LevelsOf(pend)[k - 1]}
<1> USE DepthAssumption
<1> DEFINE D == DOMAIN parent \cup DOMAIN pend
           V == SUBSET (D \cup {Root})
           F == [L \in V |-> {c \in D : ParentIn(pend, c) \in L}]
           top == {Root}
           Is(g) == g = [k \in 0 .. MaxDepth |->
                           IF k = 0 THEN {Root}
                           ELSE {c \in D : ParentIn(pend, c) \in g[k - 1]}]
<1>1. PICK g \in [0 .. MaxDepth -> V] :
         g[0] = {Root} /\ \A k \in 1 .. MaxDepth : g[k] = F[g[k - 1]]
  <2>1. F \in [V -> V] /\ top \in V /\ MaxDepth \in Nat
    OBVIOUS
  <2> HIDE DEF F, V, top
  <2>2. Iterable(V, F, top, MaxDepth)
    BY <2>1, Iterated
  <2> QED BY <2>2 DEF Iterable, top
<1>2. Is(g)
  <2>1. ASSUME NEW k \in 1 .. MaxDepth
        PROVE  g[k] = {c \in D : ParentIn(pend, c) \in g[k - 1]}
    <3>1. k - 1 \in 0 .. MaxDepth
      OBVIOUS
    <3>2. g[k - 1] \in V /\ g[k] = F[g[k - 1]]
      <4> HIDE DEF F, V
      <4> QED BY <1>1, <3>1
    <3> QED BY <3>2
  <2>2. g = [k \in 0 .. MaxDepth |-> g[k]]
    BY <1>1
  <2>3. \A k \in 0 .. MaxDepth : k # 0 => k \in 1 .. MaxDepth
    OBVIOUS
  <2> HIDE DEF D, V, F
  <2>4. \A k \in 0 .. MaxDepth :
           g[k] = IF k = 0 THEN {Root} ELSE {c \in D : ParentIn(pend, c) \in g[k - 1]}
    BY <1>1, <2>1, <2>3
  <2> QED BY <2>2, <2>4
<1>3. LevelsOf(pend) = CHOOSE f : Is(f)
  BY DEF LevelsOf
<1>4. Is(LevelsOf(pend))
  <2> HIDE DEF Is
  <2> QED BY <1>2, <1>3
<1> DEFINE L == LevelsOf(pend)
<1> HIDE DEF L
<1>5. L = [k \in 0 .. MaxDepth |->
             IF k = 0 THEN {Root} ELSE {c \in D : ParentIn(pend, c) \in L[k - 1]}]
  BY <1>4 DEF L
<1>6. L[0] = {Root}
  BY <1>5
<1>7. ASSUME NEW k \in 1 .. MaxDepth
      PROVE  L[k] = {c \in D : ParentIn(pend, c) \in L[k - 1]}
  <2> HIDE DEF D
  <2>1. k \in 0 .. MaxDepth /\ k # 0
    OBVIOUS
  <2> QED BY <1>5, <2>1
<1> QED BY <1>6, <1>7 DEF L

\* Where every thread is one deeper than its parent, a level is a depth.
LEMMA LevelIsDepth ==
    ASSUME NEW pend, NEW depth, depth[Root] = 0,
           \A c \in DOMAIN parent \cup DOMAIN pend :
              depth[c] = depth[ParentIn(pend, c)] + 1
    PROVE  \A k \in 0 .. MaxDepth : \A c \in LevelsOf(pend)[k] : depth[c] = k
<1> USE DepthAssumption
<1> DEFINE L == LevelsOf(pend)
           D == DOMAIN parent \cup DOMAIN pend
           S == {k \in Nat : k \leq MaxDepth => \A c \in L[k] : depth[c] = k}
<1>1. /\ L[0] = {Root}
      /\ \A k \in 1 .. MaxDepth : L[k] = {c \in D : ParentIn(pend, c) \in L[k - 1]}
  BY LevelsOfDef
<1> HIDE DEF L, D
<1>2. 0 \in S
  BY <1>1
<1>3. ASSUME NEW n \in Nat, n \in S PROVE n + 1 \in S
  <2> SUFFICES ASSUME n + 1 \leq MaxDepth, NEW c \in L[n + 1] PROVE depth[c] = n + 1
    OBVIOUS
  <2>1. n + 1 \in 1 .. MaxDepth /\ (n + 1) - 1 = n
    OBVIOUS
  <2>2. c \in D /\ ParentIn(pend, c) \in L[n]
    BY <1>1, <2>1
  <2>3. depth[ParentIn(pend, c)] = n
    BY <1>3, <2>2
  <2> QED BY <2>2, <2>3 DEF D
<1> HIDE DEF S
<1>4. \A n \in Nat : n \in S
  BY <1>2, <1>3, Induction
<1> QED BY <1>4 DEF S, L

\* Threads that hang on the root, one deeper than their parents, are in the level
\* of their depth.
LEMMA DepthIsLevel ==
    ASSUME NEW pend, NEW T, T \subseteq AnyThread,
           T \subseteq DOMAIN parent \cup DOMAIN pend,
           NEW depth \in [AnyThread -> 0 .. MaxDepth], depth[Root] = 0,
           \A c \in T : /\ depth[c] = depth[ParentIn(pend, c)] + 1
                        /\ ParentIn(pend, c) \in T \cup {Root}
    PROVE  \A c \in T : depth[c] \in 1 .. MaxDepth /\ c \in LevelsOf(pend)[depth[c]]
<1> USE DepthAssumption
<1> DEFINE L == LevelsOf(pend)
           D == DOMAIN parent \cup DOMAIN pend
           S == {k \in Nat : \A c \in T \cup {Root} : depth[c] = k => c \in L[k]}
<1>1. /\ L[0] = {Root}
      /\ \A k \in 1 .. MaxDepth : L[k] = {c \in D : ParentIn(pend, c) \in L[k - 1]}
  BY LevelsOfDef
<1>2. T \subseteq D
  OBVIOUS
<1> HIDE DEF L, D
<1>3. \A c \in T \cup {Root} : c \in AnyThread /\ depth[c] \in 0 .. MaxDepth
  BY DEF AnyThread
<1>4. \A c \in T : depth[c] \in 1 .. MaxDepth
  <2> SUFFICES ASSUME NEW c \in T PROVE depth[c] \in 1 .. MaxDepth
    OBVIOUS
  <2>1. depth[ParentIn(pend, c)] \in 0 .. MaxDepth
    BY <1>3
  <2> QED BY <1>3, <2>1
<1>5. 0 \in S
  BY <1>1, <1>4
<1>6. ASSUME NEW n \in Nat, n \in S PROVE n + 1 \in S
  <2> SUFFICES ASSUME NEW c \in T \cup {Root}, depth[c] = n + 1 PROVE c \in L[n + 1]
    OBVIOUS
  <2>1. c \in T /\ n + 1 \in 1 .. MaxDepth /\ (n + 1) - 1 = n
    BY <1>4
  <2>2. ParentIn(pend, c) \in T \cup {Root} /\ depth[c] = depth[ParentIn(pend, c)] + 1
    BY <2>1
  <2>3. depth[ParentIn(pend, c)] = n
    BY <1>3, <2>2
  <2>4. ParentIn(pend, c) \in L[n]
    BY <1>6, <2>2, <2>3
  <2> QED BY <1>1, <1>2, <2>1, <2>4
<1> HIDE DEF S
<1>7. \A n \in Nat : n \in S
  BY <1>5, <1>6, Induction
<1>8. ASSUME NEW c \in T PROVE c \in L[depth[c]]
  <2>1. depth[c] \in Nat
    BY <1>4
  <2> QED BY <1>7, <2>1 DEF S
<1> QED BY <1>4, <1>8 DEF L

\* The root having no parent, a thread is in one level only.
LEMMA OneLevel ==
    ASSUME NEW pend, Root \notin DOMAIN parent \cup DOMAIN pend
    PROVE  \A j, k \in 0 .. MaxDepth : \A c :
              c \in LevelsOf(pend)[j] /\ c \in LevelsOf(pend)[k] => j = k
<1> USE DepthAssumption
<1> DEFINE L == LevelsOf(pend)
           D == DOMAIN parent \cup DOMAIN pend
           S == {j \in Nat : j \leq MaxDepth =>
                   \A k \in 0 .. MaxDepth : \A c : c \in L[j] /\ c \in L[k] => j = k}
<1>1. /\ L[0] = {Root}
      /\ \A k \in 1 .. MaxDepth : L[k] = {c \in D : ParentIn(pend, c) \in L[k - 1]}
  BY LevelsOfDef
<1>2. Root \notin D
  OBVIOUS
<1> HIDE DEF L, D
<1>3. \A k \in 0 .. MaxDepth : Root \in L[k] => k = 0
  <2> SUFFICES ASSUME NEW k \in 1 .. MaxDepth, Root \in L[k] PROVE FALSE
    OBVIOUS
  <2> QED BY <1>1, <1>2
<1>4. 0 \in S
  BY <1>1, <1>3
<1>5. ASSUME NEW n \in Nat, n \in S PROVE n + 1 \in S
  <2> SUFFICES ASSUME n + 1 \leq MaxDepth, NEW k \in 0 .. MaxDepth, NEW c,
                      c \in L[n + 1], c \in L[k]
               PROVE  n + 1 = k
    OBVIOUS
  <2>1. n + 1 \in 1 .. MaxDepth /\ (n + 1) - 1 = n
    OBVIOUS
  <2>2. c \in D /\ ParentIn(pend, c) \in L[n]
    BY <1>1, <2>1
  <2>3. k \in 1 .. MaxDepth /\ k - 1 \in 0 .. MaxDepth
    <3>1. k # 0
      BY <1>1, <1>2, <2>2
    <3> QED BY <3>1
  <2>4. ParentIn(pend, c) \in L[k - 1]
    BY <1>1, <2>3
  <2>5. n = k - 1
    BY <1>5, <2>2, <2>3, <2>4
  <2> QED BY <2>3, <2>5
<1> HIDE DEF S
<1>6. \A n \in Nat : n \in S
  BY <1>4, <1>5, Induction
<1>7. ASSUME NEW j \in 0 .. MaxDepth, NEW k \in 0 .. MaxDepth, NEW c, c \in L[j], c \in L[k]
      PROVE  j = k
  <2>1. j \in Nat /\ j \leq MaxDepth
    OBVIOUS
  <2> QED BY <1>6, <1>7, <2>1 DEF S
<1> QED BY <1>7 DEF L

\* A loop climbs: no thread it passes is deeper than the one it starts from.
LEMMA LoopClimbs ==
    ASSUME NEW c, NEW p \in AnyThread, NEW depth \in [AnyThread -> 0 .. MaxDepth],
           \A d \in DOMAIN parent : parent[d] \in AnyThread /\ depth[d] = depth[parent[d]] + 1,
           \A d \in DOMAIN pending : pending[d] \in AnyThread /\ depth[d] = depth[pending[d]] + 1,
           Loops(c, p)
    PROVE  depth[c] \leq depth[p]
<1> USE DepthAssumption
<1> DEFINE N == Cardinality(Thread)
           F == [t \in AnyThread |-> IF Known(t) THEN parent[t]
                                     ELSE IF Pending(t) THEN pending[t] ELSE t]
           Is(g) == g = [k \in 0 .. N |->
                           IF k = 0 THEN p
                           ELSE IF Known(g[k - 1]) THEN parent[g[k - 1]]
                           ELSE IF Pending(g[k - 1]) THEN pending[g[k - 1]]
                           ELSE g[k - 1]]
           U == CHOOSE f : Is(f)
<1>1. N \in Nat
  BY ThreadAssumption, FS_CardinalityType
<1> HIDE DEF N
<1>2. F \in [AnyThread -> AnyThread]
  BY DEF Known, Pending
<1>3. PICK g \in [0 .. N -> AnyThread] : g[0] = p /\ \A k \in 1 .. N : g[k] = F[g[k - 1]]
  <2> HIDE DEF F
  <2>1. Iterable(AnyThread, F, p, N)
    BY <1>1, <1>2, Iterated
  <2> QED BY <2>1 DEF Iterable
<1>4. \A k \in 1 .. N : k - 1 \in 0 .. N /\ g[k - 1] \in AnyThread
  BY <1>1
<1>5. Is(g)
  <2>1. ASSUME NEW k \in 1 .. N
        PROVE  g[k] = IF Known(g[k - 1]) THEN parent[g[k - 1]]
                      ELSE IF Pending(g[k - 1]) THEN pending[g[k - 1]] ELSE g[k - 1]
    BY <1>3, <1>4
  <2>2. g = [k \in 0 .. N |-> g[k]]
    BY <1>3
  <2>3. \A k \in 0 .. N : k # 0 => k \in 1 .. N
    BY <1>1
  <2> HIDE DEF F
  <2> QED BY <1>3, <2>1, <2>2, <2>3
<1>6. Is(U)
  <2> HIDE DEF Is
  <2> QED BY <1>5
<1>7. \E k \in DOMAIN U : U[k] = c
  BY DEF Loops, N
<1> HIDE DEF U
<1>8. /\ DOMAIN U = 0 .. N /\ U[0] = p
      /\ \A k \in 1 .. N : U[k] = IF Known(U[k - 1]) THEN parent[U[k - 1]]
                                  ELSE IF Pending(U[k - 1]) THEN pending[U[k - 1]]
                                  ELSE U[k - 1]
  <2>1. DOMAIN U = 0 .. N /\ 0 \in 0 .. N
    BY <1>1, <1>6
  <2>2. \A k \in 0 .. N : U[k] = IF k = 0 THEN p
                                 ELSE IF Known(U[k - 1]) THEN parent[U[k - 1]]
                                 ELSE IF Pending(U[k - 1]) THEN pending[U[k - 1]]
                                 ELSE U[k - 1]
    BY <1>6
  <2>3. \A k \in 1 .. N : k \in 0 .. N /\ k # 0
    BY <1>1
  <2> HIDE DEF Is
  <2> QED BY <2>1, <2>2, <2>3
<1> DEFINE S == {k \in Nat : k \leq N => U[k] \in AnyThread /\ depth[U[k]] \leq depth[p]}
<1>9. 0 \in S
  BY <1>8
<1>10. ASSUME NEW n \in Nat, n \in S PROVE n + 1 \in S
  <2> SUFFICES ASSUME n + 1 \leq N
               PROVE  U[n + 1] \in AnyThread /\ depth[U[n + 1]] \leq depth[p]
    OBVIOUS
  <2>1. n + 1 \in 1 .. N /\ (n + 1) - 1 = n
    BY <1>1
  <2>2. U[n] \in AnyThread /\ depth[U[n]] \leq depth[p]
    BY <1>1, <1>10
  <2>3. U[n + 1] = IF Known(U[n]) THEN parent[U[n]]
                   ELSE IF Pending(U[n]) THEN pending[U[n]] ELSE U[n]
    BY <1>8, <2>1
  <2>4. U[n + 1] = U[n] \/ (U[n + 1] \in AnyThread /\ depth[U[n]] = depth[U[n + 1]] + 1)
    BY <2>3 DEF Known, Pending
  <2>5. \A t \in AnyThread : depth[t] \in Nat
    OBVIOUS
  <2> QED BY <2>2, <2>4, <2>5
<1> HIDE DEF S
<1>11. \A n \in Nat : n \in S
  BY <1>9, <1>10, Induction
<1>12. PICK k \in 0 .. N : U[k] = c
  BY <1>7, <1>8
<1>13. k \in Nat /\ k \leq N
  BY <1>1
<1> QED BY <1>11, <1>12, <1>13 DEF S

\* Who a notification may name.
LEMMA ClaimTypes ==
    ASSUME NEW ts, ts \subseteq Notification
    PROVE  /\ \A d, q : Claimed(ts, d, q) => d \in AnyThread /\ q \in AnyThread
           /\ \A d, q : Hatched(ts, d, q) => Claimed(ts, d, q)
<1>1. ASSUME NEW m \in Notification, m.kind \in {"spawn", "send", "wait"}
      PROVE  m.child \in AnyThread /\ m.parent \in AnyThread
  BY <1>1 DEF Notification
<1>2. \A d, q : Claimed(ts, d, q) => d \in AnyThread /\ q \in AnyThread
  BY <1>1 DEF Claimed
<1>3. \A d, q : Hatched(ts, d, q) => Claimed(ts, d, q)
  BY DEF Claimed, Hatched
<1> QED BY <1>2, <1>3

\* What one notification more claims.
LEMMA WithClaims ==
    ASSUME NEW ts, NEW kind, NEW c, NEW p
    PROVE  /\ \A d, q : Claimed(With(ts, kind, c, p), d, q)
                 <=> \/ Claimed(ts, d, q)
                     \/ kind \in {"spawn", "send", "wait"} /\ d = c /\ q = p
           /\ \A d, q : Hatched(With(ts, kind, c, p), d, q)
                 <=> Hatched(ts, d, q) \/ (kind = "spawn" /\ d = c /\ q = p)
           /\ \A m : m \in ts => m \in With(ts, kind, c, p)
           /\ \A m \in With(ts, kind, c, p) :
                 m \in ts \/ (m.kind = kind /\ m.child = c /\ m.parent = p)
<1> DEFINE n == [kind |-> kind, child |-> c, parent |-> p]
           us == With(ts, kind, c, p)
<1>1. us = ts \cup {n} /\ n.kind = kind /\ n.child = c /\ n.parent = p
  BY DEF With
<1> HIDE DEF n, us
<1>2. \A d, q : Claimed(us, d, q)
         <=> Claimed(ts, d, q) \/ (kind \in {"spawn", "send", "wait"} /\ d = c /\ q = p)
  BY <1>1 DEF Claimed
<1>3. \A d, q : Hatched(us, d, q)
         <=> Hatched(ts, d, q) \/ (kind = "spawn" /\ d = c /\ q = p)
  BY <1>1 DEF Hatched
<1>4. /\ \A m : m \in ts => m \in us
      /\ \A m \in us : m \in ts \/ (m.kind = kind /\ m.child = c /\ m.parent = p)
  BY <1>1
<1> QED BY <1>2, <1>3, <1>4 DEF us

\* What cannot become one tree never can.
LEMMA NeverPossible ==
    ASSUME NEW ts, NEW kind, NEW c, NEW p, Possible(With(ts, kind, c, p))
    PROVE  Possible(ts)
<1> DEFINE us == With(ts, kind, c, p)
<1>1. Possible(us)
  OBVIOUS
<1>2. /\ \A d, q : Claimed(ts, d, q) => Claimed(us, d, q)
      /\ \A d, q : Hatched(ts, d, q) => Hatched(us, d, q)
      /\ \A m : m \in ts => m \in us
  BY WithClaims
<1> HIDE DEF us
<1>3. PICK depth \in [AnyThread -> 0 .. MaxDepth] :
         /\ depth[Root] = 0
         /\ \A d, q \in AnyThread : Hatched(us, d, q) => depth[d] = depth[q] + 1
  BY <1>1 DEF Possible
<1>4. \A d, q \in AnyThread : Hatched(ts, d, q) => depth[d] = depth[q] + 1
  BY <1>2, <1>3
<1>5. /\ \A m \in ts : m.kind = "root" => m.child = Root
      /\ \A d, q \in AnyThread : Claimed(ts, d, q) => d # Root /\ d # q
      /\ \A d, q, r \in AnyThread : Claimed(ts, d, q) /\ Claimed(ts, d, r) => q = r
  BY <1>1, <1>2 DEF Possible
<1> QED BY <1>3, <1>4, <1>5 DEF Possible

\* One tree is possible.
LEMMA TreeIsPossible == OneTree => Possible(told)
<1> SUFFICES ASSUME OneTree PROVE Possible(told)
  OBVIOUS
<1> USE DepthAssumption
<1>1. PICK depth \in [AnyThread -> 0 .. MaxDepth] :
         depth[Root] = 0 /\ \A s \in Spawned : depth[s.child] = depth[s.parent] + 1
  BY DEF OneTree
<1>2. \A d, q \in AnyThread : Hatched(told, d, q) => depth[d] = depth[q] + 1
  BY <1>1 DEF Hatched, Spawned
<1>3. \A m \in told : m.kind = "root" => m.child = Root
  BY DEF OneTree
<1>4. \A d, q, r : Claimed(told, d, q) /\ Claimed(told, d, r) => q = r
  BY DEF OneTree, Claimed, Claims
<1>5. ASSUME NEW d \in AnyThread, NEW q \in AnyThread, Claimed(told, d, q)
      PROVE  d # Root /\ d # q
  <2>1. d # Root
    BY <1>5 DEF OneTree, Claimed, Claims
  <2>2. PICK s \in Spawned : s.child = d
    BY <1>5, <2>1 DEF OneTree, Claimed
  <2>3. Hatched(told, d, s.parent) /\ Claimed(told, d, s.parent)
    BY <2>2 DEF Spawned, Hatched, Claimed
  <2>4. s.parent = q
    BY <1>4, <1>5, <2>3
  <2>5. depth[d] = depth[q] + 1 /\ depth[d] \in Nat /\ depth[q] \in Nat
    BY <1>2, <2>3, <2>4
  <2>6. d # q
    BY <2>5
  <2> QED BY <2>1, <2>6
<1> QED BY <1>1, <1>2, <1>3, <1>4, <1>5 DEF Possible

\* Resolving fails for what no tree allows: a thread too deep, or two parents.
LEMMA FailureIsReal ==
    ASSUME NEW pend, NEW ts, Heard(parent, pend, asserted, waiting, ts),
           ResolvingFails(pend)
    PROVE  ~Possible(ts)
<1> SUFFICES ASSUME Possible(ts) PROVE FALSE
  OBVIOUS
<1> USE DepthAssumption
<1>1. PICK depth \in [AnyThread -> 0 .. MaxDepth] :
         /\ depth[Root] = 0
         /\ \A d, q \in AnyThread : Hatched(ts, d, q) => depth[d] = depth[q] + 1
  BY DEF Possible
<1>2. /\ \A d, q : Claimed(ts, d, q) => d \in AnyThread /\ q \in AnyThread
      /\ \A d, q : Hatched(ts, d, q) => Claimed(ts, d, q)
  BY ClaimTypes DEF Heard
<1>3. \A d, q, r : Claimed(ts, d, q) /\ Claimed(ts, d, r) => q = r
  BY <1>2 DEF Possible
<1>4. /\ \A d \in DOMAIN parent : Hatched(ts, d, parent[d])
      /\ \A d \in DOMAIN pend : Hatched(ts, d, pend[d]) /\ d \in Thread
  BY <1>2 DEF Heard, AnyThread
<1>5. ASSUME NEW d \in DOMAIN parent \cup DOMAIN pend
      PROVE  Hatched(ts, d, ParentIn(pend, d))
  BY <1>4 DEF ParentIn, Known
<1>6. \A d \in DOMAIN parent \cup DOMAIN pend : depth[d] = depth[ParentIn(pend, d)] + 1
  BY <1>1, <1>2, <1>5
<1>7. \A k \in 0 .. MaxDepth : \A d \in LevelsOf(pend)[k] : depth[d] = k
  BY <1>1, <1>6, LevelIsDepth
<1>8. CASE TooDeep(pend) # {}
  <2>1. PICK d \in DOMAIN pend : pend[d] \in LevelsOf(pend)[MaxDepth]
    BY <1>8 DEF TooDeep
  <2>2. MaxDepth \in 0 .. MaxDepth
    OBVIOUS
  <2>3. depth[pend[d]] = MaxDepth
    BY <1>7, <2>1, <2>2
  <2>4. depth[d] = depth[pend[d]] + 1 /\ depth[d] \in 0 .. MaxDepth
    BY <1>1, <1>2, <1>4
  <2> QED BY <2>3, <2>4
<1>9. CASE Misplaced(pend) # {}
  <2>1. PICK f \in waiting : /\ f.child \in DOMAIN pend
                             /\ f.parent # Nobody /\ f.parent # pend[f.child]
    BY <1>9, ResolvableIsPending DEF Misplaced, Drained
  <2>2. Claimed(ts, f.child, f.parent) /\ Claimed(ts, f.child, pend[f.child])
    BY <1>2, <1>4, <2>1 DEF Heard
  <2> QED BY <1>3, <2>1, <2>2
<1>10. CASE \E c \in Resolvable(pend) : \E p \in asserted[c] : p # pend[c]
  <2>1. PICK c \in DOMAIN pend : \E p \in asserted[c] : p # pend[c]
    BY <1>10, ResolvableIsPending
  <2>2. PICK p \in asserted[c] : p # pend[c]
    BY <2>1
  <2>3. Claimed(ts, c, p) /\ Claimed(ts, c, pend[c])
    BY <1>2, <1>4, <2>2 DEF Heard
  <2> QED BY <1>3, <2>2, <2>3
<1> QED BY <1>8, <1>9, <1>10 DEF ResolvingFails

\* What resolving leaves, in the parts that are told of.
LEMMA ResolvedParts ==
    ASSUME NEW pend, Resolved(pend), DOMAIN parent \cap DOMAIN pend = {}
    PROVE  /\ Resolvable(pend) \subseteq DOMAIN pend
           /\ DOMAIN parent' = DOMAIN parent \cup Resolvable(pend)
           /\ \A d \in DOMAIN parent : parent'[d] = parent[d]
           /\ \A d \in Resolvable(pend) : parent'[d] = pend[d]
           /\ DOMAIN pending' = DOMAIN pend \ (Resolvable(pend) \cup TooDeep(pend))
           /\ \A d \in DOMAIN pending' : pending'[d] = pend[d]
           /\ asserted' = [d \in Thread |-> IF d \in Resolvable(pend) THEN {}
                                            ELSE asserted[d]]
           /\ waiting' \subseteq waiting
<1>1. Resolvable(pend) \subseteq DOMAIN pend
  BY ResolvableIsPending
<1>2. parent' = [d \in DOMAIN parent \cup Resolvable(pend) |-> ParentIn(pend, d)]
  BY DEF Resolved
<1>3. pending' = [d \in DOMAIN pend \ (Resolvable(pend) \cup TooDeep(pend)) |-> pend[d]]
  BY DEF Resolved, Restrict
<1>4. /\ waiting' \subseteq waiting
      /\ asserted' = [d \in Thread |-> IF d \in Resolvable(pend) THEN {} ELSE asserted[d]]
  BY DEF Resolved
<1>5. \A d \in DOMAIN parent : ParentIn(pend, d) = parent[d]
  BY DEF ParentIn, Known
<1>6. \A d \in Resolvable(pend) : ParentIn(pend, d) = pend[d]
  BY <1>1 DEF ParentIn, Known
<1> QED BY <1>1, <1>2, <1>3, <1>4, <1>5, <1>6

\* Resolving holds nothing that was not told.
LEMMA ResolvedHeard ==
    ASSUME NEW pend, NEW ts, Heard(parent, pend, asserted, waiting, ts), Resolved(pend)
    PROVE  Heard(parent', pending', asserted', waiting', ts)
<1> DEFINE done == Resolvable(pend)
<1>1. /\ done \subseteq DOMAIN pend
      /\ DOMAIN parent' = DOMAIN parent \cup done
      /\ \A d \in DOMAIN parent : parent'[d] = parent[d]
      /\ \A d \in done : parent'[d] = pend[d]
      /\ DOMAIN pending' \subseteq DOMAIN pend \ done
      /\ \A d \in DOMAIN pending' : pending'[d] = pend[d]
      /\ asserted' = [d \in Thread |-> IF d \in done THEN {} ELSE asserted[d]]
      /\ waiting' \subseteq waiting
  BY ResolvedParts DEF Heard
<1> HIDE DEF done
<1>2. ts \subseteq Notification /\ DOMAIN parent \cap DOMAIN pend = {}
  BY DEF Heard
<1>3. asserted \in [Thread -> SUBSET AnyThread]
  BY DEF Heard
<1>4. \A d \in DOMAIN parent \cup DOMAIN pend : d \in Thread
  <2>1. \A d \in DOMAIN parent \cup DOMAIN pend : d # Root /\ d \in AnyThread
    BY <1>2, ClaimTypes DEF Heard
  <2> QED BY <2>1 DEF AnyThread
<1>5. asserted' \in [Thread -> SUBSET AnyThread]
  BY <1>1, <1>3
<1>6. DOMAIN parent' \cap DOMAIN pending' = {}
  BY <1>1, <1>2
<1>7. ASSUME NEW d \in DOMAIN parent'
      PROVE  d # Root /\ Hatched(ts, d, parent'[d]) /\ asserted'[d] = {}
  <2>1. CASE d \in DOMAIN parent
    <3>1. d # Root /\ Hatched(ts, d, parent[d]) /\ asserted[d] = {}
      BY <2>1 DEF Heard
    <3> QED BY <1>1, <1>4, <2>1, <3>1
  <2>2. CASE d \in done
    <3>1. d # Root /\ Hatched(ts, d, pend[d])
      BY <1>1, <2>2 DEF Heard
    <3> QED BY <1>1, <1>4, <2>2, <3>1
  <2> QED BY <1>1, <2>1, <2>2
<1>8. \A d \in DOMAIN pending' : d # Root /\ Hatched(ts, d, pending'[d])
  BY <1>1 DEF Heard
<1>9. \A d \in Thread : \A q \in asserted'[d] : Claimed(ts, d, q)
  BY <1>1 DEF Heard
<1>10. \A f \in waiting' : /\ f.child # Root
                           /\ f.parent # Nobody => Claimed(ts, f.child, f.parent)
  BY <1>1 DEF Heard
<1> QED BY <1>2, <1>5, <1>6, <1>7, <1>8, <1>9, <1>10 DEF Heard

\* Resolving without a failure keeps what agrees, and what is registered then
\* hangs on the root at the depth of its level.
LEMMA ResolvedAgrees ==
    ASSUME NEW pend, NEW ts, Heard(parent, pend, asserted, waiting, ts), Resolved(pend),
           Agrees(parent, pend, asserted, ts), ~ResolvingFails(pend)
    PROVE  Agrees(parent', pending', asserted', ts)
<1> USE DepthAssumption
<1> DEFINE done == Resolvable(pend)
           L == LevelsOf(pend)
           D == DOMAIN parent \cup DOMAIN pend
<1>1. /\ done \subseteq DOMAIN pend
      /\ DOMAIN parent' = DOMAIN parent \cup done
      /\ \A d \in DOMAIN parent : parent'[d] = parent[d]
      /\ \A d \in done : parent'[d] = pend[d]
      /\ DOMAIN pending' = DOMAIN pend \ done
      /\ \A d \in DOMAIN pending' : pending'[d] = pend[d]
      /\ asserted' = [d \in Thread |-> IF d \in done THEN {} ELSE asserted[d]]
  <2>1. TooDeep(pend) = {}
    BY DEF ResolvingFails
  <2> QED BY <2>1, ResolvedParts DEF Heard
<1>2. /\ L[0] = {Root}
      /\ \A k \in 1 .. MaxDepth : L[k] = {c \in D : ParentIn(pend, c) \in L[k - 1]}
  BY LevelsOfDef
<1>3. \A d \in DOMAIN pend : (\E k \in 1 .. MaxDepth : d \in L[k]) <=> d \in done
  BY DEF Resolvable
<1>4. \A d \in done : \A q \in asserted[d] : q = pend[d]
  BY DEF ResolvingFails
<1> HIDE DEF done
<1>5. D \subseteq Thread
  <2>1. \A d \in D : d # Root /\ d \in AnyThread
    BY ClaimTypes DEF Heard
  <2> QED BY <2>1 DEF AnyThread
<1>6. /\ \A c \in DOMAIN parent : ParentIn(pend, c) = parent[c]
      /\ \A c \in DOMAIN pend : ParentIn(pend, c) = pend[c]
  BY DEF ParentIn, Known, Heard
<1>7. \A j, k \in 0 .. MaxDepth : \A c : c \in L[j] /\ c \in L[k] => j = k
  <2>1. Root \notin D
    BY <1>5, RootAssumption
  <2> QED BY <2>1, OneLevel
<1>8. \A c \in DOMAIN parent' : \E k \in 1 .. MaxDepth : c \in L[k]
  <2>1. PICK depth \in [AnyThread -> 0 .. MaxDepth] :
           /\ depth[Root] = 0
           /\ \A d \in DOMAIN parent :
                 /\ depth[d] = depth[parent[d]] + 1
                 /\ parent[d] = Root \/ parent[d] \in DOMAIN parent
    BY DEF Agrees
  <2>2. \A d \in DOMAIN parent :
           /\ depth[d] = depth[ParentIn(pend, d)] + 1
           /\ ParentIn(pend, d) \in DOMAIN parent \cup {Root}
    BY <1>6, <2>1
  <2>3. DOMAIN parent \subseteq AnyThread /\ DOMAIN parent \subseteq D
    BY <1>5 DEF AnyThread
  <2>4. \A d \in DOMAIN parent : depth[d] \in 1 .. MaxDepth /\ d \in L[depth[d]]
    <3> HIDE DEF L
    <3> QED BY <2>1, <2>2, <2>3, DepthIsLevel DEF L
  <2> HIDE DEF L
  <2> QED BY <1>1, <1>3, <2>4
<1> DEFINE lev(c) == CHOOSE k \in 1 .. MaxDepth : c \in L[k]
           e == [c \in AnyThread |-> IF c \in DOMAIN parent' THEN lev(c) ELSE 0]
<1> HIDE DEF L
<1>9. \A c \in DOMAIN parent' : lev(c) \in 1 .. MaxDepth /\ c \in L[lev(c)]
  BY <1>8
<1>10. ASSUME NEW c \in DOMAIN parent', NEW k \in 1 .. MaxDepth, c \in L[k]
       PROVE  lev(c) = k
  <2> HIDE DEF lev
  <2>1. \A j \in 1 .. MaxDepth : j \in 0 .. MaxDepth
    OBVIOUS
  <2> QED BY <1>7, <1>9, <1>10, <2>1
<1>11. DOMAIN parent' \subseteq Thread /\ Root \in AnyThread /\ Root \notin DOMAIN parent'
  BY <1>1, <1>5, RootAssumption DEF AnyThread
<1> HIDE DEF lev
<1>12. e \in [AnyThread -> 0 .. MaxDepth] /\ e[Root] = 0
  BY <1>9, <1>11
<1>13. \A c \in DOMAIN parent' : e[c] = lev(c)
  BY <1>11 DEF AnyThread
<1> HIDE DEF e
<1>14. ASSUME NEW c \in DOMAIN parent'
       PROVE  /\ e[c] = e[parent'[c]] + 1
              /\ parent'[c] = Root \/ parent'[c] \in DOMAIN parent'
  <2> DEFINE k == lev(c)
             q == parent'[c]
  <2>1. k \in 1 .. MaxDepth /\ c \in L[k]
    BY <1>9
  <2>2. q = ParentIn(pend, c)
    BY <1>1, <1>6
  <2>3. q \in L[k - 1]
    BY <1>2, <2>1, <2>2
  <2>4. CASE k = 1
    <3>1. q = Root
      BY <1>2, <2>3, <2>4
    <3> QED BY <1>12, <1>13, <2>4, <3>1
  <2>5. CASE k # 1
    <3>1. k - 1 \in 1 .. MaxDepth
      BY <2>1, <2>5
    <3>2. q \in D
      BY <1>2, <2>3, <3>1
    <3>3. q \in DOMAIN parent'
      BY <1>1, <1>3, <2>3, <3>1, <3>2
    <3>4. lev(q) = k - 1
      BY <1>10, <2>3, <3>1, <3>3
    <3> QED BY <1>13, <2>1, <3>3, <3>4
  <2> QED BY <2>4, <2>5
<1>15. ASSUME NEW d \in AnyThread, NEW q \in AnyThread, Claimed(ts, d, q)
       PROVE  /\ d # Root
              /\ d \in DOMAIN parent' => parent'[d] = q
              /\ d \notin DOMAIN parent' =>
                    q \in asserted'[d] \/ (d \in DOMAIN pending' /\ pending'[d] = q)
  <2>1. /\ d # Root
        /\ d \in DOMAIN parent => parent[d] = q
        /\ d \notin DOMAIN parent => q \in asserted[d] \/ (d \in DOMAIN pend /\ pend[d] = q)
    BY <1>15 DEF Agrees
  <2>2. d \in Thread
    BY <2>1 DEF AnyThread
  <2>3. CASE d \in DOMAIN parent
    BY <1>1, <2>1, <2>3
  <2>4. CASE d \in done /\ d \notin DOMAIN parent
    BY <1>1, <1>4, <2>1, <2>4
  <2>5. CASE d \notin done /\ d \notin DOMAIN parent
    BY <1>1, <2>1, <2>2, <2>5
  <2> QED BY <2>3, <2>4, <2>5
<1>16. \A m \in ts : m.kind = "root" => m.child = Root
  BY DEF Agrees
<1> QED BY <1>12, <1>14, <1>15, <1>16 DEF Agrees

\* What was heard stays so when more is told.
LEMMA HeardMore ==
    ASSUME NEW par, NEW pend, NEW ass, NEW wait, NEW ts, Heard(par, pend, ass, wait, ts),
           NEW kind, NEW c, NEW p,
           [kind |-> kind, child |-> c, parent |-> p] \in Notification
    PROVE  Heard(par, pend, ass, wait, With(ts, kind, c, p))
<1> DEFINE us == With(ts, kind, c, p)
<1>1. /\ \A d, q : Claimed(ts, d, q) => Claimed(us, d, q)
      /\ \A d, q : Hatched(ts, d, q) => Hatched(us, d, q)
  BY WithClaims
<1>2. us \subseteq Notification
  BY DEF Heard, With
<1> HIDE DEF us
<1>3. Heard(par, pend, ass, wait, us)
  BY <1>1, <1>2 DEF Heard
<1> QED BY <1>3 DEF us

\* A contradiction is of two notifications, or of one with the root's place.
LEMMA ContradictionIsReal ==
    ASSUME NEW ts, Heard(parent, pending, asserted, waiting, ts), NEW c, NEW p,
           Claimed(ts, c, p), Contradicts(c, p)
    PROVE  ~Possible(ts)
<1> SUFFICES ASSUME Possible(ts) PROVE FALSE
  OBVIOUS
<1>1. /\ \A d, q : Claimed(ts, d, q) => d \in AnyThread /\ q \in AnyThread
      /\ \A d, q : Hatched(ts, d, q) => Claimed(ts, d, q)
  BY ClaimTypes DEF Heard
<1>2. /\ \A d, q, r : Claimed(ts, d, q) /\ Claimed(ts, d, r) => q = r
      /\ c # Root /\ c # p
  BY <1>1 DEF Possible
<1>3. /\ \A d \in DOMAIN parent : Claimed(ts, d, parent[d])
      /\ \A d \in DOMAIN pending : Claimed(ts, d, pending[d])
  BY <1>1 DEF Heard
<1> QED BY <1>2, <1>3 DEF Contradicts, Known, Pending

\* So is an assertion that one before it is against.
LEMMA AssertFailureIsReal ==
    ASSUME NEW ts, Heard(parent, pending, asserted, waiting, ts), NEW c, NEW p,
           Claimed(ts, c, p), AssertFails(c, p)
    PROVE  ~Possible(ts)
<1>1. CASE Contradicts(c, p)
  BY <1>1, ContradictionIsReal
<1>2. CASE ~Contradicts(c, p)
  <2> SUFFICES ASSUME Possible(ts) PROVE FALSE
    OBVIOUS
  <2>1. PICK q \in asserted[c] : q # p
    BY <1>2 DEF AssertFails
  <2>2. c \in AnyThread /\ p \in AnyThread
    BY ClaimTypes DEF Heard
  <2>3. c \in Thread
    BY <1>2, <2>2 DEF Contradicts, AnyThread
  <2>4. Claimed(ts, c, q) /\ q \in AnyThread
    BY <2>1, <2>3 DEF Heard
  <2> QED BY <2>1, <2>2, <2>4 DEF Possible
<1> QED BY <1>1, <1>2

\* _register_descendant fails only for what no tree allows.
LEMMA SpawnVerdict ==
    ASSUME VerdictInv, NEW c \in AnyThread, NEW p \in AnyThread, Spawn(c, p)
    PROVE  VerdictInv'
<1> DEFINE us == With(told, "spawn", c, p)
           pend == [d \in DOMAIN pending \cup {c} |-> IF d = c THEN p ELSE pending[d]]
<1>1. ~over /\ ~over' /\ told' = us
  BY DEF Spawn, Observed, With
<1>2. [kind |-> "spawn", child |-> c, parent |-> p] \in Notification
  BY DEF Notification
<1>3. Heard(parent, pending, asserted, waiting, us)
  BY <1>2, HeardMore DEF VerdictInv
<1>4. /\ \A d, q : Claimed(us, d, q) <=> Claimed(told, d, q) \/ (d = c /\ q = p)
      /\ Hatched(us, c, p)
      /\ \A m \in us : m \in told \/ m.kind = "spawn"
  BY WithClaims
<1>5. failed => ~Possible(us)
  BY <1>1, NeverPossible DEF VerdictInv
<1> HIDE DEF us
<1> SUFFICES /\ Heard(parent', pending', asserted', waiting', us)
             /\ ~failed' => Agrees(parent', pending', asserted', us)
             /\ failed' /\ ~failed => ~Possible(us)
  <2>1. VerdictHasNoOrder'
    BY <1>1 DEF VerdictHasNoOrder
  <2> QED BY <1>1, <1>5, <2>1 DEF VerdictInv
<1>6. /\ \A d, q : Claimed(us, d, q) => d \in AnyThread /\ q \in AnyThread
      /\ \A d, q : Hatched(us, d, q) => Claimed(us, d, q)
  BY <1>3, ClaimTypes DEF Heard
<1>7. CASE Contradicts(c, p)
  <2>1. UNCHANGED <<parent, pending, asserted, waiting>> /\ failed'
    BY <1>7 DEF Spawn, custody
  <2>2. ~Possible(us)
    BY <1>3, <1>4, <1>7, ContradictionIsReal
  <2> QED BY <1>3, <2>1, <2>2
<1>8. CASE ~Contradicts(c, p) /\ Known(c)
  <2>1. UNCHANGED <<parent, pending, asserted, waiting, failed>>
    BY <1>8 DEF Spawn, custody
  <2>2. c # Root /\ c \in DOMAIN parent /\ parent[c] = p
    BY <1>8 DEF Contradicts, Known
  <2>3. ~failed => Agrees(parent, pending, asserted, us)
    <3> SUFFICES ASSUME ~failed PROVE Agrees(parent, pending, asserted, us)
      OBVIOUS
    <3>1. Agrees(parent, pending, asserted, told)
      BY DEF VerdictInv
    <3>2. \A m \in us : m.kind = "root" => m.child = Root
      BY <1>4, <3>1 DEF Agrees
    <3>3. \A d, q \in AnyThread : Claimed(us, d, q) =>
             /\ d # Root
             /\ d \in DOMAIN parent => parent[d] = q
             /\ d \notin DOMAIN parent =>
                   q \in asserted[d] \/ (d \in DOMAIN pending /\ pending[d] = q)
      BY <1>4, <2>2, <3>1 DEF Agrees
    <3> QED BY <3>1, <3>2, <3>3 DEF Agrees
  <2> QED BY <1>3, <2>1, <2>3
<1>9. CASE ~Contradicts(c, p) /\ ~Known(c) /\ Loops(c, p)
  <2>1. /\ UNCHANGED <<parent, asserted, waiting>> /\ failed'
        /\ pending' = [d \in DOMAIN pending \ {c} |-> pending[d]]
    BY <1>9 DEF Spawn, Restrict
  <2>2. Heard(parent', pending', asserted', waiting', us)
    BY <1>3, <2>1 DEF Heard
  <2>3. ASSUME Possible(us) PROVE FALSE
    <3> USE DepthAssumption
    <3>1. PICK depth \in [AnyThread -> 0 .. MaxDepth] :
             /\ depth[Root] = 0
             /\ \A d, q \in AnyThread : Hatched(us, d, q) => depth[d] = depth[q] + 1
      BY <2>3 DEF Possible
    <3>2. \A d \in DOMAIN parent :
             parent[d] \in AnyThread /\ depth[d] = depth[parent[d]] + 1
      BY <1>3, <1>6, <3>1 DEF Heard
    <3>3. \A d \in DOMAIN pending :
             pending[d] \in AnyThread /\ depth[d] = depth[pending[d]] + 1
      BY <1>3, <1>6, <3>1 DEF Heard
    <3>4. depth[c] \leq depth[p]
      BY <1>9, <3>2, <3>3, LoopClimbs
    <3>5. depth[c] = depth[p] + 1 /\ depth[c] \in Nat /\ depth[p] \in Nat
      BY <1>4, <3>1
    <3> QED BY <3>4, <3>5
  <2> QED BY <2>1, <2>2, <2>3
<1>10. CASE ~Contradicts(c, p) /\ ~Known(c) /\ ~Loops(c, p)
  <2>1. Resolved(pend) /\ failed' = (failed \/ ResolvingFails(pend))
    BY <1>10 DEF Spawn
  <2>2. c # Root /\ c \notin DOMAIN parent /\ (c \in DOMAIN pending => pending[c] = p)
    BY <1>10 DEF Contradicts, Known, Pending
  <2>3. /\ DOMAIN pend = DOMAIN pending \cup {c} /\ pend[c] = p
        /\ \A d \in DOMAIN pending : pend[d] = pending[d]
    BY <2>2
  <2> HIDE DEF pend
  <2>4. Heard(parent, pend, asserted, waiting, us)
    <3>1. \A d \in DOMAIN pend : d # Root /\ Hatched(us, d, pend[d])
      BY <1>3, <1>4, <2>2, <2>3 DEF Heard
    <3>2. DOMAIN parent \cap DOMAIN pend = {}
      BY <1>3, <2>2, <2>3 DEF Heard
    <3> QED BY <1>3, <3>1, <3>2 DEF Heard
  <2>5. ASSUME ~failed PROVE Agrees(parent, pend, asserted, us)
    <3>1. Agrees(parent, pending, asserted, told)
      BY <2>5 DEF VerdictInv
    <3>2. \A m \in us : m.kind = "root" => m.child = Root
      BY <1>4, <3>1 DEF Agrees
    <3>3. \A d, q \in AnyThread : Claimed(us, d, q) =>
             /\ d # Root
             /\ d \in DOMAIN parent => parent[d] = q
             /\ d \notin DOMAIN parent =>
                   q \in asserted[d] \/ (d \in DOMAIN pend /\ pend[d] = q)
      BY <1>4, <2>2, <2>3, <3>1 DEF Agrees
    <3> QED BY <3>1, <3>2, <3>3 DEF Agrees
  <2>6. Heard(parent', pending', asserted', waiting', us)
    BY <2>1, <2>4, ResolvedHeard
  <2>7. ~failed' => Agrees(parent', pending', asserted', us)
    BY <2>1, <2>4, <2>5, ResolvedAgrees
  <2>8. failed' /\ ~failed => ~Possible(us)
    BY <2>1, <2>4, FailureIsReal
  <2> QED BY <2>6, <2>7, <2>8
<1> QED BY <1>7, <1>8, <1>9, <1>10

\* _assert_direct_parent, of a sendInput or a wait call.
LEMMA AssertVerdict ==
    ASSUME VerdictInv, NEW kind \in {"send", "wait"}, NEW c \in AnyThread, NEW p \in AnyThread,
           ~over, ~over', told' = With(told, kind, c, p),
           asserted' = AssertedWith(c, p), failed' = (failed \/ AssertFails(c, p)),
           UNCHANGED <<parent, pending>>,
           \A f \in waiting' : \/ f \in waiting
                               \/ f.child = c /\ f.parent = p /\ c # Root
    PROVE  VerdictInv'
<1> DEFINE us == With(told, kind, c, p)
<1>1. [kind |-> kind, child |-> c, parent |-> p] \in Notification
  BY DEF Notification
<1>2. Heard(parent, pending, asserted, waiting, us)
  BY <1>1, HeardMore DEF VerdictInv
<1>3. /\ \A d, q : Claimed(us, d, q) <=> Claimed(told, d, q) \/ (d = c /\ q = p)
      /\ \A m \in us : m \in told \/ m.kind # "root"
  BY WithClaims
<1>4. failed => ~Possible(us)
  BY NeverPossible DEF VerdictInv
<1>5. told' = us
  OBVIOUS
<1> HIDE DEF us
<1>6. failed' => ~Possible(us)
  BY <1>2, <1>3, <1>4, AssertFailureIsReal
<1>7. /\ \A d \in Thread : asserted[d] \subseteq asserted'[d]
      /\ \A d \in Thread : \A q \in asserted'[d] : q \in asserted[d] \/ (d = c /\ q = p)
      /\ asserted' \in [Thread -> SUBSET AnyThread]
      /\ \A d \in DOMAIN parent : asserted'[d] = asserted[d]
      /\ ~Contradicts(c, p) /\ ~Known(c) => p \in asserted'[c]
  <2>1. asserted \in [Thread -> SUBSET AnyThread]
    BY <1>2 DEF Heard
  <2>2. CASE Contradicts(c, p) \/ Known(c)
    BY <2>1, <2>2 DEF AssertedWith
  <2>3. CASE ~Contradicts(c, p) /\ ~Known(c)
    <3>1. c \in Thread /\ c \notin DOMAIN parent
      BY <2>3 DEF Contradicts, Known, AnyThread
    <3>2. asserted' = [asserted EXCEPT ![c] = @ \cup {p}]
      BY <2>3 DEF AssertedWith
    <3> QED BY <2>1, <3>1, <3>2
  <2> QED BY <2>2, <2>3
<1>8. Heard(parent', pending', asserted', waiting', us)
  <2>1. \A d \in Thread : \A q \in asserted'[d] : Claimed(us, d, q)
    BY <1>2, <1>3, <1>7 DEF Heard
  <2>2. \A f \in waiting' : /\ f.child # Root
                            /\ f.parent # Nobody => Claimed(us, f.child, f.parent)
    BY <1>2, <1>3 DEF Heard
  <2>3. \A d \in DOMAIN parent : d # Root /\ Hatched(us, d, parent[d]) /\ asserted'[d] = {}
    BY <1>2, <1>7 DEF Heard
  <2> QED BY <1>2, <1>7, <2>1, <2>2, <2>3 DEF Heard
<1>9. ASSUME ~failed' PROVE Agrees(parent', pending', asserted', us)
  <2>1. Agrees(parent, pending, asserted, told)
    BY <1>9 DEF VerdictInv
  <2>2. \A m \in us : m.kind = "root" => m.child = Root
    BY <1>3, <2>1 DEF Agrees
  <2>3. ~Contradicts(c, p)
    BY <1>9 DEF AssertFails
  <2>4. c # Root /\ (c \in DOMAIN parent => parent[c] = p)
    BY <2>3 DEF Contradicts, Known
  <2>5. ASSUME NEW d \in AnyThread, NEW q \in AnyThread, Claimed(us, d, q)
        PROVE  /\ d # Root
               /\ d \in DOMAIN parent => parent[d] = q
               /\ d \notin DOMAIN parent =>
                     q \in asserted'[d] \/ (d \in DOMAIN pending /\ pending[d] = q)
    <3>1. CASE Claimed(told, d, q)
      <4>1. d # Root /\ d \in Thread
        BY <2>1, <3>1 DEF Agrees, AnyThread
      <4> QED BY <1>7, <2>1, <3>1, <4>1 DEF Agrees
    <3>2. CASE d = c /\ q = p
      BY <1>7, <2>3, <2>4, <3>2 DEF Known
    <3> QED BY <1>3, <2>5, <3>1, <3>2
  <2> QED BY <2>1, <2>2, <2>5 DEF Agrees
<1>10. VerdictHasNoOrder'
  BY DEF VerdictHasNoOrder
<1> QED BY <1>5, <1>6, <1>8, <1>9, <1>10 DEF VerdictInv

\* finalize_parentage: what hangs on the root is in the level of its depth, so one
\* tree leaves nothing pending; and what leaves nothing pending is one tree.
LEMMA FinalizeVerdict ==
    ASSUME VerdictInv, CustodyInv, CustodyInv', Finalize
    PROVE  VerdictInv'
<1> USE DepthAssumption
<1>1. /\ told' = told /\ over' /\ ~over
      /\ Resolved(pending)
      /\ failed' <=> \/ failed \/ ResolvingFails(pending)
                     \/ DOMAIN pending' # {} \/ waiting' # {}
                     \/ \E c \in Thread : asserted'[c] # {}
  BY DEF Finalize
<1>2. Heard(parent, pending, asserted, waiting, told)
  BY DEF VerdictInv
<1>3. Heard(parent', pending', asserted', waiting', told)
  BY <1>1, <1>2, ResolvedHeard
<1>4. ~failed' => Agrees(parent', pending', asserted', told)
  BY <1>1, <1>2, ResolvedAgrees DEF VerdictInv
<1>5. /\ \A d, q : Claimed(told, d, q) => d \in AnyThread /\ q \in AnyThread
      /\ \A d, q : Hatched(told, d, q) => Claimed(told, d, q)
  BY <1>2, ClaimTypes DEF Heard
<1>6. ASSUME ~failed' PROVE OneTree
  <2>1. Agrees(parent', pending', asserted', told)
    BY <1>4, <1>6
  <2>2. /\ Fits(parent', pending', waiting', finals', told)
        /\ DOMAIN pending' = {} /\ waiting' = {}
        /\ \A c \in Thread : asserted'[c] = {}
    BY <1>1, <1>6 DEF CustodyInv
  <2>3. ASSUME NEW d, NEW q, Claimed(told, d, q)
        PROVE  d # Root /\ d \in DOMAIN parent' /\ parent'[d] = q
    <3>1. d # Root /\ d \in AnyThread /\ q \in AnyThread
      BY <1>5, <2>1, <2>3 DEF Agrees
    <3>2. d \in Thread
      BY <3>1 DEF AnyThread
    <3> QED BY <2>1, <2>2, <2>3, <3>1, <3>2 DEF Agrees
  <2>4. ASSUME NEW d \in DOMAIN parent'
        PROVE  \E s \in Spawned : s.child = d /\ s.parent = parent'[d]
    BY <1>3 DEF Heard, Hatched, Spawned
  <2>5. \A m \in told : m.kind = "root" => m.child = Root
    BY <2>1 DEF Agrees
  <2>6. \A m \in Claims : Claimed(told, m.child, m.parent)
    BY DEF Claims, Claimed
  <2>7. ASSUME NEW m \in told, m.child # Root
        PROVE  \E s \in Spawned : s.child = m.child
    <3>1. m \in Notification
      BY <1>2 DEF Heard
    <3>2. CASE m \in Claims
      BY <2>3, <2>4, <2>6, <3>2
    <3>3. CASE m.kind = "final"
      <4>1. m.child \in Speakers(told)
        BY <3>3 DEF Speakers
      <4>2. m.child \in DOMAIN parent'
        BY <2>2, <2>7, <4>1 DEF Fits
      <4> QED BY <2>4, <4>2
    <3>4. CASE m.kind = "root"
      BY <2>5, <2>7, <3>4
    <3> QED BY <3>1, <3>2, <3>3, <3>4 DEF Notification, Claims
  <2>8. \E depth \in [AnyThread -> 0 .. MaxDepth] :
          /\ depth[Root] = 0
          /\ \A s \in Spawned :
                /\ depth[s.child] = depth[s.parent] + 1
                /\ s.parent = Root \/ \E t \in Spawned : t.child = s.parent
    <3>1. PICK depth \in [AnyThread -> 0 .. MaxDepth] :
             /\ depth[Root] = 0
             /\ \A d \in DOMAIN parent' :
                   /\ depth[d] = depth[parent'[d]] + 1
                   /\ parent'[d] = Root \/ parent'[d] \in DOMAIN parent'
      BY <2>1 DEF Agrees
    <3>2. ASSUME NEW s \in Spawned
          PROVE  /\ depth[s.child] = depth[s.parent] + 1
                 /\ s.parent = Root \/ \E t \in Spawned : t.child = s.parent
      <4>1. Claimed(told, s.child, s.parent)
        BY DEF Spawned, Claimed
      <4>2. s.child \in DOMAIN parent' /\ parent'[s.child] = s.parent
        BY <2>3, <4>1
      <4> QED BY <2>4, <3>1, <4>2
    <3> QED BY <3>1, <3>2
  <2>9. /\ \A m \in Claims : m.child # Root
        /\ \A m, n \in Claims : m.child = n.child => m.parent = n.parent
    BY <2>3, <2>6
  <2> QED BY <2>5, <2>7, <2>8, <2>9 DEF OneTree
<1>7. ASSUME failed', OneTree PROVE FALSE
  <2>1. Possible(told)
    BY <1>7, TreeIsPossible
  <2>2. ~failed /\ ~ResolvingFails(pending)
    BY <1>1, <1>2, <2>1, FailureIsReal DEF VerdictInv
  <2>3. Fits(parent, pending, waiting, finals, told)
    BY <2>2 DEF CustodyInv
  <2>4. Fits(parent', pending', waiting', finals', told)
    BY <1>1, <2>2, <2>3, ResolvedFits
  <2> DEFINE T == DOMAIN parent \cup DOMAIN pending
  <2>5. PICK depth \in [AnyThread -> 0 .. MaxDepth] :
          /\ depth[Root] = 0
          /\ \A s \in Spawned :
                /\ depth[s.child] = depth[s.parent] + 1
                /\ s.parent = Root \/ \E t \in Spawned : t.child = s.parent
    BY <1>7 DEF OneTree
  <2>6. \A s \in Spawned : s.child \in T
    BY <2>3 DEF Fits, Spawned
  <2>7. ASSUME NEW d \in T PROVE Hatched(told, d, ParentIn(pending, d))
    BY <1>2 DEF Heard, ParentIn, Known
  <2>8. ASSUME NEW d \in T
        PROVE  /\ d \in AnyThread
               /\ depth[d] = depth[ParentIn(pending, d)] + 1
               /\ ParentIn(pending, d) \in T \cup {Root}
    <3>1. PICK s \in Spawned : s.child = d /\ s.parent = ParentIn(pending, d)
      BY <2>7 DEF Hatched, Spawned
    <3> HIDE DEF T
    <3>2. d \in AnyThread
      BY <1>5, <2>7, <2>8
    <3> QED BY <2>5, <2>6, <3>1, <3>2
  <2>9. \A d \in T : depth[d] \in 1 .. MaxDepth /\ d \in LevelsOf(pending)[depth[d]]
    <3>1. T \subseteq AnyThread /\ T \subseteq DOMAIN parent \cup DOMAIN pending
      BY <2>8
    <3> HIDE DEF T
    <3> QED BY <2>5, <2>8, <3>1, DepthIsLevel
  <2>10. DOMAIN pending \subseteq Resolvable(pending)
    BY <2>9 DEF Resolvable
  <2>11. /\ DOMAIN pending' = {} /\ DOMAIN parent' = T
         /\ asserted' = [d \in Thread |-> IF d \in Resolvable(pending) THEN {}
                                          ELSE asserted[d]]
    BY <1>1, <1>2, <2>10, ResolvedParts DEF Heard
  <2>12. \A m \in told : m.child # Root => m.child \in DOMAIN parent'
    <3> HIDE DEF T
    <3> QED BY <1>7, <2>6, <2>11 DEF OneTree
  <2>13. ASSUME NEW f \in waiting' PROVE FALSE
    <3>1. f.child # Root /\ f.child \in Speakers(told) /\ f.child \notin DOMAIN parent'
      BY <1>3, <2>4 DEF Heard, Fits
    <3> QED BY <2>12, <3>1 DEF Speakers
  <2>14. ASSUME NEW c \in Thread, NEW q \in asserted'[c] PROVE FALSE
    <3>1. Claimed(told, c, q)
      BY <1>3 DEF Heard
    <3>2. c \in DOMAIN parent'
      BY <2>12, <3>1, RootAssumption DEF Claimed
    <3> QED BY <1>3, <3>2 DEF Heard
  <2> QED BY <1>1, <1>7, <2>2, <2>11, <2>13, <2>14
<1>8. OneTree' = OneTree
  BY <1>1 DEF OneTree, Spawned, Claims
<1>9. VerdictHasNoOrder'
  BY <1>6, <1>7, <1>8 DEF VerdictHasNoOrder
<1> QED BY <1>1, <1>3, <1>4, <1>9 DEF VerdictInv

\* Every notification and the end keep the verdict.
LEMMA NextKeepsVerdict ==
    VerdictInv /\ CustodyInv /\ CustodyInv' /\ [CustodyNext]_custodyVars => VerdictInv'
<1> SUFFICES ASSUME VerdictInv, CustodyInv, CustodyInv', [CustodyNext]_custodyVars
             PROVE  VerdictInv'
  OBVIOUS
<1>1. CASE UNCHANGED custodyVars
  BY <1>1 DEF custodyVars, VerdictInv, VerdictHasNoOrder, OneTree, Spawned, Claims
<1>2. ASSUME NEW c \in AnyThread, NEW p \in AnyThread, Spawn(c, p) PROVE VerdictInv'
  BY <1>2, SpawnVerdict
<1>3. ASSUME NEW c \in AnyThread, NEW p \in AnyThread, Send(c, p) PROVE VerdictInv'
  <2>1. /\ ~over /\ ~over' /\ told' = With(told, "send", c, p)
        /\ asserted' = AssertedWith(c, p) /\ failed' = (failed \/ AssertFails(c, p))
        /\ UNCHANGED <<parent, pending>> /\ waiting' = waiting
    BY <1>3 DEF Send, Observed, With
  <2> QED BY <2>1, AssertVerdict
<1>4. ASSUME NEW c \in AnyThread, NEW p \in AnyThread, Wait(c, p) PROVE VerdictInv'
  <2>1. /\ ~over /\ ~over' /\ told' = With(told, "wait", c, p)
        /\ asserted' = AssertedWith(c, p) /\ failed' = (failed \/ AssertFails(c, p))
        /\ UNCHANGED <<parent, pending>>
    BY <1>4 DEF Wait, Observed, With
  <2>2. \A f \in waiting' : f \in waiting \/ (f.child = c /\ f.parent = p /\ c # Root)
    BY <1>4 DEF Wait, Queue
  <2> QED BY <2>1, <2>2, AssertVerdict
<1>5. ASSUME NEW c \in AnyThread, NEW kind \in {"final", "root"},
             ~over, ~over', told' = With(told, kind, c, Nobody),
             failed' <=> failed \/ (kind = "root" /\ c # Root),
             UNCHANGED <<parent, pending, asserted>>,
             \A f \in waiting' : \/ f \in waiting
                                 \/ f.child = c /\ f.parent = Nobody /\ c # Root
      PROVE  VerdictInv'
  <2> DEFINE us == With(told, kind, c, Nobody)
  <2>1. [kind |-> kind, child |-> c, parent |-> Nobody] \in Notification
    BY DEF Notification
  <2>2. Heard(parent, pending, asserted, waiting, us)
    BY <2>1, HeardMore DEF VerdictInv
  <2>3. /\ \A d, q : Claimed(us, d, q) <=> Claimed(told, d, q)
        /\ \A m \in us : m \in told \/ (m.kind = kind /\ m.child = c)
    BY WithClaims
  <2>4. [kind |-> kind, child |-> c, parent |-> Nobody] \in us
    BY DEF With
  <2>5. failed => ~Possible(us)
    BY <1>5, NeverPossible DEF VerdictInv
  <2>6. told' = us
    BY <1>5
  <2> HIDE DEF us
  <2>7. Heard(parent', pending', asserted', waiting', us)
    BY <1>5, <2>2 DEF Heard
  <2>8. failed' => ~Possible(us)
    BY <1>5, <2>4, <2>5 DEF Possible
  <2>9. ASSUME ~failed' PROVE Agrees(parent', pending', asserted', us)
    <3>1. Agrees(parent, pending, asserted, told)
      BY <1>5, <2>9 DEF VerdictInv
    <3>2. \A m \in us : m.kind = "root" => m.child = Root
      BY <1>5, <2>3, <2>9, <3>1 DEF Agrees
    <3> QED BY <1>5, <2>3, <3>1, <3>2 DEF Agrees
  <2>10. VerdictHasNoOrder'
    BY <1>5 DEF VerdictHasNoOrder
  <2> QED BY <2>6, <2>7, <2>8, <2>9, <2>10 DEF VerdictInv
<1>6. ASSUME NEW c \in AnyThread, Final(c) PROVE VerdictInv'
  <2>1. /\ ~over /\ ~over' /\ told' = With(told, "final", c, Nobody) /\ failed' = failed
        /\ UNCHANGED <<parent, pending, asserted>>
    BY <1>6 DEF Final, Observed, With
  <2>2. \A f \in waiting' : f \in waiting \/ (f.child = c /\ f.parent = Nobody /\ c # Root)
    BY <1>6 DEF Final, Queue
  <2>3. failed' <=> failed \/ ("final" = "root" /\ c # Root)
    BY <1>6 DEF Final
  <2> QED BY <1>5, <2>1, <2>2, <2>3
<1>7. ASSUME NEW c \in AnyThread, RootStarted(c) PROVE VerdictInv'
  <2>1. /\ ~over /\ ~over' /\ told' = With(told, "root", c, Nobody)
        /\ (failed' <=> failed \/ ("root" = "root" /\ c # Root))
        /\ UNCHANGED <<parent, pending, asserted>> /\ waiting' = waiting
    BY <1>7 DEF RootStarted, Observed, With, custody
  <2> QED BY <1>5, <2>1
<1>8. CASE Finalize
  BY <1>8, FinalizeVerdict
<1> QED BY <1>1, <1>2, <1>3, <1>4, <1>6, <1>7, <1>8 DEF CustodyNext

\* At the start nothing was told, and nothing contradicts it.
LEMMA InitVerdict == CustodyInit => VerdictInv
<1> SUFFICES ASSUME CustodyInit PROVE VerdictInv
  OBVIOUS
<1>1. /\ DOMAIN parent = {} /\ DOMAIN pending = {} /\ waiting = {} /\ told = {}
      /\ asserted = [c \in Thread |-> {}] /\ ~failed /\ ~over
  BY DEF CustodyInit
<1>2. Heard(parent, pending, asserted, waiting, told)
  BY <1>1 DEF Heard
<1>3. Agrees(parent, pending, asserted, told)
  <2> DEFINE depth == [d \in AnyThread |-> 0]
  <2>1. depth \in [AnyThread -> 0 .. MaxDepth] /\ depth[Root] = 0
    BY DepthAssumption DEF AnyThread
  <2>2. \A d \in DOMAIN parent : /\ depth[d] = depth[parent[d]] + 1
                                 /\ parent[d] = Root \/ parent[d] \in DOMAIN parent
    BY <1>1
  <2> HIDE DEF depth
  <2>3. \A d, q : ~Claimed(told, d, q)
    BY <1>1 DEF Claimed
  <2> QED BY <1>1, <2>1, <2>2, <2>3 DEF Agrees
<1> QED BY <1>1, <1>2, <1>3 DEF VerdictInv, VerdictHasNoOrder

\* Whatever the order in which the notifications of the delegated threads come, a
\* delegation ends as failed exactly when what was told is not one tree under the
\* root in which every thread was introduced (_TopLevelFacts): no order of the same
\* notifications lets a wrong tree pass or a right one fail.
THEOREM VerdictIsOrderFree == CustodySpec => []VerdictHasNoOrder
<1>1. VerdictInv => VerdictHasNoOrder
  BY DEF VerdictInv
<1>2. VerdictInv /\ CustodyInv /\ [CustodyNext]_custodyVars => VerdictInv' /\ CustodyInv'
  BY NextKeepsCustody, NextKeepsVerdict
<1> QED BY <1>1, <1>2, InitVerdict, InitCustody, PTL DEF CustodySpec
-----------------------------------------------------------------------------
(* Types of the custody. *)

\* A partial function is one on its own domain.
LEMMA PartialOf ==
    ASSUME NEW S, NEW T
    PROVE  /\ \A f \in Partial(S, T) : DOMAIN f \subseteq S /\ f \in [DOMAIN f -> T]
           /\ \A D \in SUBSET S : \A f \in [D -> T] : f \in Partial(S, T)
BY DEF Partial

\* Resolving keeps the types.
LEMMA ResolvedTypes ==
    ASSUME NEW pend \in Partial(Thread, AnyThread), CustodyTypeOK, Resolved(pend)
    PROVE  /\ parent' \in Partial(Thread, AnyThread)
           /\ pending' \in Partial(Thread, AnyThread)
           /\ asserted' \in [Thread -> SUBSET AnyThread]
           /\ waiting' \subseteq [child : Thread, parent : AnyThread \cup {Nobody}]
           /\ finals' \subseteq Thread \X AnyThread
<1>1. /\ DOMAIN parent \subseteq Thread /\ parent \in [DOMAIN parent -> AnyThread]
      /\ DOMAIN pend \subseteq Thread /\ pend \in [DOMAIN pend -> AnyThread]
  BY PartialOf DEF CustodyTypeOK
<1>2. Resolvable(pend) \subseteq DOMAIN pend
  BY ResolvableIsPending
<1>3. parent' \in Partial(Thread, AnyThread)
  <2> DEFINE D == DOMAIN parent \cup Resolvable(pend)
  <2>1. parent' = [c \in D |-> ParentIn(pend, c)] /\ D \in SUBSET Thread
    BY <1>1, <1>2 DEF Resolved
  <2>2. \A c \in D : ParentIn(pend, c) \in AnyThread
    BY <1>1, <1>2 DEF ParentIn, Known
  <2> HIDE DEF D
  <2>3. parent' \in [D -> AnyThread]
    BY <2>1, <2>2
  <2> QED BY <2>1, <2>3, PartialOf
<1>4. pending' \in Partial(Thread, AnyThread)
  <2> DEFINE D == DOMAIN pend \ (Resolvable(pend) \cup TooDeep(pend))
  <2>1. pending' = [c \in D |-> pend[c]] /\ D \in SUBSET Thread
    BY <1>1 DEF Resolved, Restrict
  <2>2. \A c \in D : pend[c] \in AnyThread
    BY <1>1
  <2> HIDE DEF D
  <2>3. pending' \in [D -> AnyThread]
    BY <2>1, <2>2
  <2> QED BY <2>1, <2>3, PartialOf
<1>5. asserted' \in [Thread -> SUBSET AnyThread]
  BY DEF Resolved, CustodyTypeOK
<1>6. waiting' \subseteq [child : Thread, parent : AnyThread \cup {Nobody}]
  BY DEF Resolved, CustodyTypeOK
<1>7. ASSUME NEW g \in finals' PROVE g \in Thread \X AnyThread
  <2>1. CASE g \in finals
    BY <2>1 DEF CustodyTypeOK
  <2>2. CASE g \notin finals
    <3>1. PICK f \in Drained(pend) : g = <<f.child, pend[f.child]>>
      BY <2>2 DEF Resolved
    <3>2. f.child \in DOMAIN pend
      BY <1>2 DEF Drained
    <3> QED BY <1>1, <3>1, <3>2
  <2> QED BY <2>1, <2>2
<1> QED BY <1>3, <1>4, <1>5, <1>6, <1>7

\* Every notification and the end keep the types.
LEMMA NextKeepsCustodyTypes ==
    CustodyTypeOK /\ [CustodyNext]_custodyVars => CustodyTypeOK'
<1> SUFFICES ASSUME CustodyTypeOK, [CustodyNext]_custodyVars PROVE CustodyTypeOK'
  OBVIOUS
<1>1. CASE UNCHANGED custodyVars
  BY <1>1 DEF custodyVars, CustodyTypeOK
<1>2. ASSUME NEW kind, NEW c, NEW p, Observed(kind, c, p),
             [kind |-> kind, child |-> c, parent |-> p] \in Notification
      PROVE  told' \subseteq Notification /\ over' \in BOOLEAN
  BY <1>2 DEF Observed, CustodyTypeOK
<1>3. /\ \A c, p \in AnyThread : \A kind \in {"spawn", "send", "wait"} :
            [kind |-> kind, child |-> c, parent |-> p] \in Notification
      /\ \A c \in AnyThread : \A kind \in {"final", "root"} :
            [kind |-> kind, child |-> c, parent |-> Nobody] \in Notification
  BY DEF Notification
<1>4. /\ DOMAIN parent \subseteq Thread /\ parent \in [DOMAIN parent -> AnyThread]
      /\ DOMAIN pending \subseteq Thread /\ pending \in [DOMAIN pending -> AnyThread]
  BY PartialOf DEF CustodyTypeOK
<1>5. ASSUME NEW c \in AnyThread, NEW p \in AnyThread, Spawn(c, p) PROVE CustodyTypeOK'
  <2>1. told' \subseteq Notification /\ over' \in BOOLEAN
    BY <1>2, <1>3, <1>5 DEF Spawn
  <2>2. CASE Contradicts(c, p) \/ Known(c)
    <3>1. UNCHANGED custody /\ (failed' = TRUE \/ failed' = failed)
      BY <1>5, <2>2 DEF Spawn
    <3> QED BY <2>1, <3>1 DEF custody, CustodyTypeOK
  <2>3. CASE ~Contradicts(c, p) /\ ~Known(c) /\ Loops(c, p)
    <3> DEFINE D == DOMAIN pending \ {c}
    <3>1. /\ pending' = [d \in D |-> pending[d]] /\ failed' = TRUE
          /\ UNCHANGED <<parent, asserted, waiting, finals>>
      BY <1>5, <2>3 DEF Spawn, Restrict
    <3>2. D \in SUBSET Thread /\ \A d \in D : pending[d] \in AnyThread
      BY <1>4
    <3> HIDE DEF D
    <3>3. pending' \in [D -> AnyThread]
      BY <3>1, <3>2
    <3>4. pending' \in Partial(Thread, AnyThread)
      BY <3>2, <3>3, PartialOf
    <3> QED BY <2>1, <3>1, <3>4 DEF CustodyTypeOK
  <2>4. CASE ~Contradicts(c, p) /\ ~Known(c) /\ ~Loops(c, p)
    <3> DEFINE D == DOMAIN pending \cup {c}
               pend == [d \in D |-> IF d = c THEN p ELSE pending[d]]
    <3>1. Resolved(pend) /\ failed' = (failed \/ ResolvingFails(pend))
      BY <1>5, <2>4 DEF Spawn
    <3>2. D \in SUBSET Thread /\ pend \in [D -> AnyThread]
      BY <1>4, <2>4 DEF Contradicts, AnyThread
    <3> HIDE DEF D, pend
    <3>3. pend \in Partial(Thread, AnyThread)
      BY <3>2, PartialOf
    <3>4. failed' \in BOOLEAN
      BY <3>1
    <3> QED BY <2>1, <3>1, <3>3, <3>4, ResolvedTypes DEF CustodyTypeOK
  <2> QED BY <2>2, <2>3, <2>4
<1>6. ASSUME NEW c \in AnyThread, NEW p \in AnyThread, ~Contradicts(c, p)
      PROVE  c \in Thread
  BY <1>6 DEF Contradicts, AnyThread
<1>7. ASSUME NEW c \in AnyThread, NEW p \in AnyThread, asserted' = AssertedWith(c, p)
      PROVE  asserted' \in [Thread -> SUBSET AnyThread]
  BY <1>6, <1>7 DEF AssertedWith, CustodyTypeOK
<1>8. ASSUME NEW c \in AnyThread, NEW expected \in AnyThread \cup {Nobody}, Queue(c, expected)
      PROVE  /\ waiting' \subseteq [child : Thread, parent : AnyThread \cup {Nobody}]
             /\ finals' \subseteq Thread \X AnyThread
  <2>1. waiting' \subseteq [child : Thread, parent : AnyThread \cup {Nobody}]
    BY <1>8 DEF Queue, AnyThread, CustodyTypeOK
  <2>2. Known(c) => c \in Thread /\ parent[c] \in AnyThread
    BY <1>4 DEF Known
  <2>3. finals' \subseteq Thread \X AnyThread
    BY <1>8, <2>2 DEF Queue, CustodyTypeOK
  <2> QED BY <2>1, <2>3
<1>9. ASSUME NEW c \in AnyThread, NEW p \in AnyThread, Send(c, p) PROVE CustodyTypeOK'
  <2>1. told' \subseteq Notification /\ over' \in BOOLEAN
    BY <1>2, <1>3, <1>9 DEF Send
  <2>2. /\ asserted' = AssertedWith(c, p) /\ failed' \in BOOLEAN
        /\ UNCHANGED <<parent, pending, waiting, finals>>
    BY <1>9 DEF Send
  <2> QED BY <1>7, <2>1, <2>2 DEF CustodyTypeOK
<1>10. ASSUME NEW c \in AnyThread, NEW p \in AnyThread, Wait(c, p) PROVE CustodyTypeOK'
  <2>1. told' \subseteq Notification /\ over' \in BOOLEAN
    BY <1>2, <1>3, <1>10 DEF Wait
  <2>2. /\ asserted' = AssertedWith(c, p) /\ failed' \in BOOLEAN /\ Queue(c, p)
        /\ UNCHANGED <<parent, pending>>
    BY <1>10 DEF Wait
  <2> QED BY <1>7, <1>8, <2>1, <2>2 DEF CustodyTypeOK
<1>11. ASSUME NEW c \in AnyThread, Final(c) PROVE CustodyTypeOK'
  <2>1. told' \subseteq Notification /\ over' \in BOOLEAN
    BY <1>2, <1>3, <1>11 DEF Final
  <2>2. Queue(c, Nobody) /\ UNCHANGED <<parent, pending, asserted, failed>>
    BY <1>11 DEF Final
  <2> QED BY <1>8, <2>1, <2>2 DEF CustodyTypeOK
<1>12. ASSUME NEW c \in AnyThread, RootStarted(c) PROVE CustodyTypeOK'
  <2>1. told' \subseteq Notification /\ over' \in BOOLEAN
    BY <1>2, <1>3, <1>12 DEF RootStarted
  <2>2. failed' \in BOOLEAN /\ UNCHANGED custody
    BY <1>12 DEF RootStarted
  <2> QED BY <2>1, <2>2 DEF custody, CustodyTypeOK
<1>13. CASE Finalize
  <2>1. /\ Resolved(pending) /\ failed' \in BOOLEAN /\ over' \in BOOLEAN
        /\ told' = told
    BY <1>13 DEF Finalize
  <2> QED BY <2>1, ResolvedTypes DEF CustodyTypeOK
<1> QED BY <1>1, <1>5, <1>9, <1>10, <1>11, <1>12, <1>13 DEF CustodyNext

\* The custody's tables name delegated threads and no others: the root has no parent
\* and no final answer in them, whatever the notifications say of it.
THEOREM CustodyTypesHold == CustodySpec => []CustodyTypeOK
<1>1. CustodyInit => CustodyTypeOK
  <2> SUFFICES ASSUME CustodyInit PROVE CustodyTypeOK
    OBVIOUS
  <2>1. [c \in {} |-> Root] \in Partial(Thread, AnyThread)
    <3>1. {} \in SUBSET Thread /\ [c \in {} |-> Root] \in [{} -> AnyThread]
      OBVIOUS
    <3> QED BY <3>1, PartialOf
  <2> QED BY <2>1 DEF CustodyInit, CustodyTypeOK
<1> QED BY <1>1, NextKeepsCustodyTypes, PTL DEF CustodySpec
=============================================================================
