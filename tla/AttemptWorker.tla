--------------------------- MODULE AttemptWorker ---------------------------
(***************************************************************************)
(* One Attempt worker past its owner record: the threads of                *)
(* codex_attempt_worker.py, the App Server process they drive and the      *)
(* provider that leaves control request files.                             *)
(*                                                                         *)
(* The main thread runs run_worker: the handshake, wait_for_terminal, one  *)
(* of the two close_after_ methods and the terminal record.  The control   *)
(* thread runs _monitor_controls.  They share stdin_lock, the Events       *)
(* force_requested, cancel_requested and stop_controls, and the process.   *)
(* The stdout thread is the order of delivery: what the server wrote       *)
(* before it ended is read before end of file.                             *)
(***************************************************************************)
EXTENDS Naturals

VARIABLES
    files,       \* control request files present
    alive,       \* the App Server process exists
    turn,        \* the root turn at the server: "none", "running", or its end
    interrupted, \* the server was sent turn/interrupt
    term,        \* the server was sent SIGTERM
    stdin,       \* the server's stdin is open in the worker
    ids,         \* facts hold the root thread and turn identities
    status,      \* facts.turn_status, as far as the main thread has read
    flawed,      \* facts.failure_detail is set
    force,       \* the Event force_requested
    cancel,      \* the Event cancel_requested
    stop,        \* the Event stop_controls
    sent,        \* the control thread's cancel_sent
    main,        \* where the main thread is
    monitor,     \* where the control thread is
    completion   \* the terminal record, or "none"

server == <<alive, turn, interrupted, term>>
facts == <<ids, status, flawed>>
events == <<force, cancel>>
vars == <<files, server, stdin, facts, events, stop, sent, main, monitor, completion>>

TurnStatuses == {"completed", "failed", "interrupted"}

MainSteps ==
    {"handshake", "wait", "poll", "close", "terminate", "reap", "join",
     "observe", "abort", "abort_join", "done"}

TypeOK ==
    /\ files \subseteq {"cancel", "force_stop"}
    /\ {alive, interrupted, term, stdin, ids, flawed, force, cancel, stop, sent}
          \subseteq BOOLEAN
    /\ turn \in TurnStatuses \cup {"none", "running"}
    /\ status \in TurnStatuses \cup {"none"}
    /\ main \in MainSteps
    /\ monitor \in {"sleep", "look", "look_cancel", "send", "done"}
    /\ completion \in {"none", "SUCCEEDED", "FAILED", "CANCELLED", "FORCE_STOPPED"}

Init ==
    /\ files = {}
    /\ alive = TRUE /\ turn = "none" /\ interrupted = FALSE /\ term = FALSE
    /\ stdin = TRUE
    /\ ids = FALSE /\ status = "none" /\ flawed = FALSE
    /\ force = FALSE /\ cancel = FALSE /\ stop = FALSE /\ sent = FALSE
    /\ main = "handshake"
    /\ monitor = "sleep"
    /\ completion = "none"
-----------------------------------------------------------------------------
(* The provider and the App Server. *)

\* write_json_once of a control request, by a provider that saw no record.
RequestFile(action) ==
    /\ action \notin files
    /\ files' = files \cup {action}
    /\ UNCHANGED <<server, stdin, facts, events, stop, sent, main, monitor, completion>>

\* The server starts the root turn, and ends it, interrupted on request or not.
TurnMoves(next) ==
    /\ alive
    /\ \/ turn = "none" /\ next = "running"
       \/ turn = "running" /\ next \in TurnStatuses
    /\ turn' = next
    /\ UNCHANGED <<files, alive, interrupted, term, stdin, facts, events, stop, sent,
                   main, monitor, completion>>

\* The process ends, on SIGTERM or on its own.
ServerExits ==
    /\ alive
    /\ alive' = FALSE
    /\ UNCHANGED <<files, turn, interrupted, term, stdin, facts, events, stop, sent,
                   main, monitor, completion>>
-----------------------------------------------------------------------------
(* The main thread. *)

MainGoes(from, to) == main = from /\ main' = to

\* turn/started, or the reply to turn/start, names the root thread and turn.
LearnIds ==
    /\ main = "handshake" /\ turn # "none" /\ ~ids
    /\ ids' = TRUE
    /\ UNCHANGED <<files, server, stdin, status, flawed, events, stop, sent, main,
                   monitor, completion>>

HandshakeDone ==
    /\ ids
    /\ MainGoes("handshake", "wait")
    /\ UNCHANGED <<files, server, stdin, facts, events, stop, sent, monitor, completion>>

\* A top-level error or a malformed reply to a request of the handshake.
BadReply ==
    /\ alive
    /\ MainGoes("handshake", "abort")
    /\ UNCHANGED <<files, server, stdin, facts, events, stop, sent, monitor, completion>>

\* End of file before a reply, or a broken pipe while answering the server.
ServerLost ==
    /\ ~alive
    /\ main \in {"handshake", "wait"} /\ main' = "abort"
    /\ UNCHANGED <<files, server, stdin, facts, events, stop, sent, monitor, completion>>

\* A notification that fails the Attempt: an error, a reroute, bad parentage.
FlawNoticed ==
    /\ main \in {"handshake", "wait"} /\ ~flawed
    /\ flawed' = TRUE
    /\ UNCHANGED <<files, server, stdin, ids, status, events, stop, sent, main,
                   monitor, completion>>

\* wait_for_terminal: the turn's status, or end of file without one.
WaitForTerminal ==
    /\ MainGoes("wait", "poll")
    /\ turn \in TurnStatuses \/ ~alive
    /\ status' = IF turn \in TurnStatuses THEN turn ELSE "none"
    /\ UNCHANGED <<files, server, stdin, ids, flawed, events, stop, sent, monitor,
                   completion>>

\* Both ways of closing begin by telling the control thread to stop.
CloseBegins ==
    /\ main = "poll"
    /\ main' = IF alive THEN "close" ELSE "reap"
    /\ stop' = TRUE
    /\ UNCHANGED <<files, server, stdin, facts, events, sent, monitor, completion>>

CloseStdin ==
    /\ main = "close"
    /\ main' = IF alive THEN "terminate" ELSE "reap"
    /\ stdin' = IF alive THEN FALSE ELSE stdin
    /\ UNCHANGED <<files, server, facts, events, stop, sent, monitor, completion>>

\* A mutant: stdin is closed and the server left to notice.
TerminateNot ==
    /\ MainGoes("terminate", "reap")
    /\ UNCHANGED <<files, server, stdin, facts, events, stop, sent, monitor, completion>>

Terminate ==
    /\ MainGoes("terminate", "reap")
    /\ term' = TRUE
    /\ UNCHANGED <<files, alive, turn, interrupted, stdin, facts, events, stop, sent,
                   monitor, completion>>

Reap ==
    /\ ~alive
    /\ MainGoes("reap", "join")
    /\ UNCHANGED <<files, server, stdin, facts, events, stop, sent, monitor, completion>>

\* A mutant: the control thread is not joined.
JoinNot ==
    /\ MainGoes("join", "observe")
    /\ UNCHANGED <<files, server, stdin, facts, events, stop, sent, monitor, completion>>

Join ==
    /\ monitor = "done"
    /\ MainGoes("join", "observe")
    /\ UNCHANGED <<files, server, stdin, facts, events, stop, sent, monitor, completion>>

\* A mutant: any interrupted turn is taken for a cancellation.
OutcomeOfTurn(flaw) ==
    CASE force -> "FORCE_STOPPED"
      [] ~force /\ status = "interrupted" -> "CANCELLED"
      [] ~force /\ ~flaw /\ status = "completed" -> "SUCCEEDED"
      [] OTHER -> "FAILED"

\* The classification of _terminal_observation, in its order.
Outcome(flaw) ==
    LET cancelled == cancel /\ status \in {"none", "interrupted"}
    IN  CASE force -> "FORCE_STOPPED"
          [] ~force /\ cancelled -> "CANCELLED"
          [] ~force /\ ~cancelled /\ ~flaw /\ status = "completed" -> "SUCCEEDED"
          [] OTHER -> "FAILED"

\* finalize_parentage may still find a flaw; then completion.json.
WriteRecord ==
    /\ MainGoes("observe", "done")
    /\ \E flaw \in {flawed, TRUE} :
          /\ flawed' = flaw
          /\ completion' = Outcome(flaw)
    /\ UNCHANGED <<files, server, stdin, ids, status, events, stop, sent, monitor>>

\* The messages cannot be persisted or the inventory is unsafe.
ObserveFails ==
    /\ MainGoes("observe", "abort")
    /\ UNCHANGED <<files, server, stdin, facts, events, stop, sent, monitor, completion>>

\* The exception path: force_tree(), then close_after_exit().
Abort ==
    /\ MainGoes("abort", "abort_join")
    /\ alive' = FALSE
    /\ stop' = TRUE
    /\ UNCHANGED <<files, turn, interrupted, term, stdin, facts, events, sent, monitor,
                   completion>>

\* _write_failed_completion, or worker-error.json and no terminal record.
AbortRecord ==
    /\ monitor = "done"
    /\ MainGoes("abort_join", "done")
    /\ completion' \in {"FAILED", completion}
    /\ UNCHANGED <<files, server, stdin, facts, events, stop, sent, monitor>>

\* What the main thread does with what the server sends it.
Receive == LearnIds \/ HandshakeDone \/ BadReply \/ FlawNoticed

\* What it does by itself, once what it waits for is there.
Proceed ==
    \/ ServerLost \/ WaitForTerminal \/ CloseBegins \/ CloseStdin \/ Terminate \/ Reap
    \/ Join \/ WriteRecord \/ ObserveFails \/ Abort \/ AbortRecord
-----------------------------------------------------------------------------
(* The control thread. *)

\* stop_controls.wait(cadence): told to stop, or the cadence has passed.
Sleep ==
    /\ monitor = "sleep"
    /\ monitor' = IF stop THEN "done" ELSE "look"
    /\ UNCHANGED <<files, server, stdin, facts, events, stop, sent, main, completion>>

\* An explicit force stop: flag it, kill the process group, stop polling.
LookForce ==
    /\ monitor = "look" /\ "force_stop" \in files
    /\ force' = TRUE
    /\ alive' = FALSE
    /\ monitor' = "done"
    /\ UNCHANGED <<files, turn, interrupted, term, stdin, facts, cancel, stop, sent,
                   main, completion>>

\* No force stop yet: the cancel file is looked for in a second read.
LookNoForce ==
    /\ monitor = "look" /\ "force_stop" \notin files
    /\ monitor' = "look_cancel"
    /\ UNCHANGED <<files, server, stdin, facts, events, stop, sent, main, completion>>

\* A cancel: flag it, and go on to interrupt a turn that can be named.
LookCancel ==
    /\ monitor = "look_cancel" /\ "cancel" \in files
    /\ cancel' = TRUE
    /\ monitor' = IF ~sent /\ ids /\ alive THEN "send" ELSE "sleep"
    /\ UNCHANGED <<files, server, stdin, facts, force, stop, sent, main, completion>>

LookNone ==
    /\ monitor = "look_cancel" /\ "cancel" \notin files
    /\ monitor' = "sleep"
    /\ UNCHANGED <<files, server, stdin, facts, events, stop, sent, main, completion>>

\* turn/interrupt under stdin_lock, to a server that is there.
SendInterrupt ==
    /\ monitor = "send" /\ stdin /\ alive
    /\ interrupted' = TRUE
    /\ sent' = TRUE
    /\ monitor' = "sleep"
    /\ UNCHANGED <<files, alive, turn, term, stdin, facts, events, stop, main, completion>>

\* stdin closed or the reader gone: `except BaseException` flags a force stop.
SendFails ==
    /\ monitor = "send" /\ ~(stdin /\ alive)
    /\ force' = TRUE
    /\ alive' = FALSE
    /\ monitor' = "done"
    /\ UNCHANGED <<files, turn, interrupted, term, stdin, facts, cancel, stop, sent,
                   main, completion>>

Monitor ==
    \/ Sleep \/ LookForce \/ LookNoForce \/ LookCancel \/ LookNone
    \/ SendInterrupt \/ SendFails
-----------------------------------------------------------------------------
Next ==
    \/ \E action \in {"cancel", "force_stop"} : RequestFile(action)
    \/ \E next \in TurnStatuses \cup {"running"} : TurnMoves(next)
    \/ ServerExits
    \/ Receive
    \/ Proceed
    \/ Monitor

Spec == Init /\ [][Next]_vars

\* The two threads are scheduled, and a server that was sent SIGTERM ends.
FairSpec ==
    /\ Spec
    /\ WF_vars(Proceed)
    /\ WF_vars(Monitor)
    /\ WF_vars(term /\ ServerExits)
-----------------------------------------------------------------------------
\* The record is written when the App Server is gone and no thread can change
\* what it says any more.
RecordAfterExit ==
    completion # "none" => ~alive /\ monitor = "done"

\* What the provider module assumes of the record: cancelled only if a cancel
\* was requested, force-stopped only if some control was.
RecordAnswersRequests ==
    /\ completion = "CANCELLED" => "cancel" \in files
    /\ completion = "FORCE_STOPPED" => files # {}

\* A killed App Server is never reported as a success, nor is a turn whose
\* outcome the server did not declare.
SuccessIsEarned ==
    completion = "SUCCEEDED" => ~force /\ turn = "completed" /\ ~flawed

\* The threads never wait on each other for ever: once the server is gone, a force
\* stop requested, or the turn over and its start answered, the worker ends.
WorkerEnds ==
    (~alive \/ "force_stop" \in files \/ (turn \in TurnStatuses /\ main # "handshake"))
        ~> (main = "done")
=============================================================================
