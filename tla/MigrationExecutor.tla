------------------------- MODULE MigrationExecutor -------------------------
(***************************************************************************)
(* execute_offline_migration of migration_executor.py: a copy of a backup  *)
(* is migrated in a directory of its own, the artifact, beside a state     *)
(* file and two receipts for each attempt.  The command is given again     *)
(* until it returns a result; it may die, fail or be interrupted at any    *)
(* step, also after the effect of the step.                                *)
(*                                                                         *)
(* One plan on one migration id: another plan is refused by what the state *)
(* file binds.  Executors exclude each other by a kernel lease, so only    *)
(* the one that holds it is here (`Entered` of RebackupProofs).  A commit  *)
(* of SQLite is atomic, with a death too.                                  *)
(***************************************************************************)
EXTENDS Naturals, FiniteSets

CONSTANTS
    MaxAttempts,  \* _MAX_ATTEMPT_NUMBER, 9999 in the code
    MaxFaults     \* bound: deaths, failures and doubtful readings in all

ASSUME BoundsAssumption == MaxAttempts \in Nat \ {0} /\ MaxFaults \in Nat

VARIABLES
    stage,    \* the staged artifact of this call or an earlier one
    db,       \* the attempt that committed the migration, 0 for the source
    sealed,   \* the database is one file, not in WAL mode
    status,   \* status of migration_state.json
    counted,  \* its attempt_count
    started,  \* attempts with a started receipt
    outcome,  \* outcome[n]: the outcome receipt of attempt n
    pending,  \* files of which an unpublished temporary is left
    modes,    \* how far the artifact is made read-only
    at,       \* where the command is
    number,   \* its attempt_number
    trying,   \* an exception goes to the handler of the attempt
    faults,
    torn      \* history: a handler died over a passed state, the database open

files == <<stage, db, sealed, status, counted, started, outcome, pending, modes>>
vars == <<files, at, number, trying, faults, torn>>

Attempt == 1 .. MaxAttempts
Undone == {"failed", "interrupted"}

Steps ==
    {"idle", "prepare", "mkdir", "fill", "publish", "read", "exhausted", "tidy", "open",
     "seal", "settle", "mark", "interrupted", "retryable", "start", "running", "connect",
     "commit", "check", "outcome", "passed", "reissue", "issue", "protect", "close",
     "recover", "classify", "failed", "giveup", "leave"}

TypeOK ==
    /\ stage \in {"none", "partial", "complete"}
    /\ db \in 0 .. MaxAttempts
    /\ sealed \in BOOLEAN
    /\ status \in {"absent", "ready", "running", "retryable", "reconcile", "passed"}
    /\ counted \in 0 .. MaxAttempts
    /\ started \subseteq Attempt
    /\ outcome \in [Attempt -> {"none", "passed"} \cup Undone]
    /\ pending \subseteq {"state", "started", "outcome"}
    /\ modes \in {"open", "partly", "closed"}
    /\ at \in Steps
    /\ number \in 0 .. MaxAttempts + 1
    /\ trying \in BOOLEAN
    /\ faults \in 0 .. MaxFaults
    /\ torn \in BOOLEAN

Init ==
    /\ stage = "none" /\ db = 0 /\ sealed = TRUE
    /\ status = "absent" /\ counted = 0
    /\ started = {} /\ outcome = [n \in Attempt |-> "none"]
    /\ pending = {} /\ modes = "open"
    /\ at = "idle" /\ number = 0 /\ trying = FALSE /\ faults = 0
    /\ torn = FALSE
-----------------------------------------------------------------------------
Goes(next) == at' = next /\ UNCHANGED <<trying, faults>>

Fault == faults < MaxFaults /\ faults' = faults + 1

\* An exception ends the command, or starts the handler.
Raises ==
    /\ at' = IF trying THEN "recover" ELSE "idle"
    /\ trying' = FALSE

\* The step is done; what follows it in the same call may still raise.
Then(next) == Goes(next) \/ (Fault /\ Raises)

\* Only some files change.
Only(rest) == UNCHANGED <<rest, number, torn>>

\* _write_exclusive and _replace_state open the temporary with O_EXCL.
Writes(kind, next) ==
    /\ kind \notin pending
    /\ Then(next)
    /\ Only(<<stage, db, sealed, pending, modes>>)

\* The command ends in the handler: a passed state it has reopened the database
\* of stays without a sealed one.
Tears == torn' = (torn \/ (status = "passed" /\ ~sealed /\ at \in {"classify", "leave"}))
-----------------------------------------------------------------------------
(* _prepare_artifact *)

\* The lease is acquired and the backup is the one of the plan.
Call ==
    /\ at = "idle"
    /\ Goes("prepare")
    /\ Only(files)

\* Stages of earlier calls are removed, when there is no artifact yet.
Prepare ==
    /\ at = "prepare"
    /\ stage' = IF status = "absent" THEN "none" ELSE stage
    /\ Goes(IF status = "absent" THEN "mkdir" ELSE "read")
    /\ Only(<<db, sealed, status, counted, started, outcome, pending, modes>>)

Mkdir ==
    /\ at = "mkdir" /\ stage = "none"
    /\ stage' = "partial"
    /\ Goes("fill")
    /\ Only(<<db, sealed, status, counted, started, outcome, pending, modes>>)

\* The database is copied and compared, and the initial state written.
Fill ==
    /\ at = "fill"
    /\ stage' = "complete"
    /\ Goes("publish")
    /\ Only(<<db, sealed, status, counted, started, outcome, pending, modes>>)

\* os.rename of the stage to the artifact.
Publish ==
    /\ at = "publish"
    /\ stage' = "none" /\ status' = "ready"
    /\ Then("read")
    /\ Only(<<db, sealed, counted, started, outcome, pending, modes>>)
-----------------------------------------------------------------------------
(* Receipts *)

\* _attempt_receipts: no gap, no outcome without a start.
Receipts ==
    /\ started = 1 .. Cardinality(started)
    /\ \A n \in Attempt : outcome[n] # "none" => n \in started
    /\ counted <= Cardinality(started)

\* _validated_exact_commit_receipt: the attempt in the marker is the last one,
\* and nothing but a rolled-back one came before.
ExactReceipt ==
    /\ db \in started /\ db = Cardinality(started)
    /\ \A n \in 1 .. db - 1 : outcome[n] \in Undone
    /\ outcome[db] \in {"none", "passed"}

\* _source_attempt_receipt_status
Missing == {n \in started : outcome[n] = "none"}
InvalidOutcome == \E n \in Attempt : outcome[n] = "passed"

\* What _issue_result_from_inspection asks of the artifact.
Whole ==
    /\ db # 0 /\ sealed /\ pending = {}
    /\ counted = db /\ ExactReceipt /\ outcome[db] = "passed"
-----------------------------------------------------------------------------
(* The command on an artifact *)

\* A mutant: a passed artifact is opened like any other.
ReadOpens ==
    IF ~Receipts THEN "idle"
    ELSE IF Cardinality(started) = MaxAttempts THEN "exhausted"
    ELSE "tidy"

AfterRead ==
    IF ~Receipts THEN "idle"
    ELSE IF status = "passed" THEN "reissue"
    ELSE IF Cardinality(started) = MaxAttempts THEN "exhausted"
    ELSE "tidy"

Read ==
    /\ at = "read"
    /\ number' = Cardinality(started) + 1
    /\ Goes(AfterRead)
    /\ UNCHANGED <<files, torn>>

\* A mutant: when no attempt is left, the command ends whatever was committed.
ExhaustedAnyhow ==
    /\ at = "exhausted"
    /\ Goes("idle")
    /\ Only(files)

\* No attempt is left: only a committed database goes on.
Exhausted ==
    /\ at = "exhausted"
    /\ Goes(IF db # 0 THEN "tidy" ELSE "idle")
    /\ Only(files)

\* _reconcile_atomic_write_temporaries
Tidy ==
    /\ at = "tidy"
    /\ pending' = {}
    /\ Then("open")
    /\ Only(<<stage, db, sealed, status, counted, started, outcome, modes>>)

AfterOpen ==
    IF db = 0 THEN "settle" ELSE IF ExactReceipt THEN "seal" ELSE "mark"

\* _connect_workspace and _inspect_database, which may find the image ambiguous
\* because a check of it failed.
Open ==
    /\ at = "open"
    /\ sealed' = FALSE
    /\ \/ at' = AfterOpen /\ UNCHANGED faults
       \/ at' = "mark" /\ Fault
    /\ number' = IF db # 0 THEN db ELSE number
    /\ UNCHANGED <<trying, torn, stage, db, status, counted, started, outcome, pending, modes>>

\* A mutant: the commit of an earlier call is finished without sealing.
SealNot ==
    /\ at = "seal"
    /\ Then(IF outcome[number] = "none" THEN "outcome" ELSE "passed")
    /\ Only(<<stage, db, sealed, status, counted, started, outcome, pending, modes>>)

\* The committed database of an earlier call.
Seal ==
    /\ at = "seal"
    /\ sealed' = TRUE
    /\ Then(IF outcome[number] = "none" THEN "outcome" ELSE "passed")
    /\ Only(<<stage, db, status, counted, started, outcome, pending, modes>>)

\* A mutant: an attempt that an earlier call left under way is passed over.
SettleStarts == IF InvalidOutcome THEN "mark" ELSE "start"

AfterSettle ==
    IF InvalidOutcome \/ ~(Missing \subseteq {Cardinality(started)}) THEN "mark"
    ELSE IF Missing # {} THEN "interrupted"
    ELSE "start"

\* The source: nothing was committed.
Settle ==
    /\ at = "settle"
    /\ sealed' = TRUE
    /\ Then(AfterSettle)
    /\ Only(<<stage, db, status, counted, started, outcome, pending, modes>>)

Mark ==
    /\ at = "mark"
    /\ status' = "reconcile"
    /\ Writes("state", "idle")
    /\ UNCHANGED <<counted, started, outcome>>

\* The attempt that was under way when an earlier call died gets its outcome.
Interrupted ==
    /\ at = "interrupted"
    /\ outcome' = [outcome EXCEPT ![number - 1] = "interrupted"]
    /\ Writes("outcome", "retryable")
    /\ UNCHANGED <<status, counted, started>>

Retryable ==
    /\ at = "retryable"
    /\ status' = "retryable" /\ counted' = number - 1
    /\ Writes("state", "start")
    /\ UNCHANGED <<started, outcome>>
-----------------------------------------------------------------------------
(* An attempt *)

Start ==
    /\ at = "start"
    /\ started' = started \cup {number}
    /\ Writes("started", "running")
    /\ UNCHANGED <<status, counted, outcome>>

\* From here on an exception is handled.
Running ==
    /\ at = "running" /\ "state" \notin pending
    /\ status' = "running" /\ counted' = number
    /\ \/ at' = "connect" /\ trying' = TRUE /\ UNCHANGED faults
       \/ Fault /\ Raises
    /\ Only(<<stage, db, sealed, started, outcome, pending, modes>>)

Connect ==
    /\ at = "connect"
    /\ sealed' = FALSE
    /\ Then("commit")
    /\ Only(<<stage, db, status, counted, started, outcome, pending, modes>>)

\* COMMIT of _apply_offline_migration_plan, with the marker of the attempt.
Commit ==
    /\ at = "commit"
    /\ db' = number
    /\ Then("check")
    /\ Only(<<stage, sealed, status, counted, started, outcome, pending, modes>>)

\* The commit is inspected and the database sealed.
Check ==
    /\ at = "check"
    /\ sealed' = TRUE
    /\ Then("outcome")
    /\ Only(<<stage, db, status, counted, started, outcome, pending, modes>>)

Outcome ==
    /\ at = "outcome"
    /\ outcome' = [outcome EXCEPT ![number] = "passed"]
    /\ Writes("outcome", "passed")
    /\ UNCHANGED <<status, counted, started>>

\* The handler is left behind once _replace_state has returned.
Passed ==
    /\ at = "passed" /\ "state" \notin pending
    /\ status' = "passed" /\ counted' = number
    /\ \/ at' = "issue" /\ trying' = FALSE /\ UNCHANGED faults
       \/ Fault /\ Raises
    /\ Only(<<stage, db, sealed, started, outcome, pending, modes>>)

\* The command finds the state passed.
Reissue ==
    /\ at = "reissue"
    /\ pending' = {}
    /\ Then("issue")
    /\ Only(<<stage, db, sealed, status, counted, started, outcome, modes>>)

Issue ==
    /\ at = "issue"
    /\ Goes(IF Whole THEN "protect" ELSE "idle")
    /\ Only(files)

\* _protect_artifact, file by file and the directory last.
Protect ==
    /\ at = "protect"
    /\ modes' = IF modes = "closed" THEN modes ELSE "partly"
    /\ Then("close")
    /\ Only(<<stage, db, sealed, status, counted, started, outcome, pending>>)

\* The result is returned, or its last check fails.
Close ==
    /\ at = "close"
    /\ modes' = "closed"
    /\ Then("idle")
    /\ Only(<<stage, db, sealed, status, counted, started, outcome, pending>>)
-----------------------------------------------------------------------------
(* The handler of an attempt *)

\* ROLLBACK, and a new connection.
Recover ==
    /\ at = "recover"
    /\ sealed' = FALSE
    /\ Goes("classify")
    /\ Only(<<stage, db, status, counted, started, outcome, pending, modes>>)

\* A mutant: an exception means that the migration was rolled back.
RolledBack == "failed"

AfterClassify == IF db = 0 THEN "failed" ELSE "leave"

\* The image is classified and sealed; either may fail, which the handler
\* survives.
Classify ==
    /\ at = "classify"
    /\ \/ sealed' = TRUE /\ Goes(AfterClassify)
       \/ UNCHANGED sealed /\ Fault /\ at' \in {AfterClassify, "leave"} /\ UNCHANGED trying
    /\ Only(<<stage, db, status, counted, started, outcome, pending, modes>>)

Failed ==
    /\ at = "failed"
    /\ outcome' = [outcome EXCEPT ![number] = IF @ = "none" THEN "failed" ELSE @]
    /\ Writes("outcome", "giveup")
    /\ UNCHANGED <<status, counted, started>>

GiveUp ==
    /\ at = "giveup"
    /\ status' = "retryable" /\ counted' = number
    /\ Writes("state", "idle")
    /\ UNCHANGED <<started, outcome>>

\* The next call is to find out, or to finish what was committed.
Leave ==
    /\ at = "leave"
    /\ status' = "reconcile" /\ counted' = number
    /\ Writes("state", "idle")
    /\ UNCHANGED <<started, outcome>>
-----------------------------------------------------------------------------
\* A step raises before its effect.  A stage is removed, which may fail too.
Fails ==
    /\ at \notin {"idle", "classify"}
    /\ Fault /\ Raises
    /\ stage' \in IF at \in {"fill", "publish"} THEN {stage, "none"} ELSE {stage}
    /\ Tears
    /\ UNCHANGED <<number, db, sealed, status, counted, started, outcome, pending, modes>>

\* The file whose temporary is there at some time in the step or the one before.
Half ==
    CASE at \in {"interrupted", "outcome", "failed"} -> {"outcome"}
      [] at \in {"retryable", "passed", "giveup"}    -> {"outcome", "state"}
      [] at = "start"                                -> {"started"}
      [] at = "running"                              -> {"started", "state"}
      [] at \in {"mark", "leave"}                    -> {"state"}
      [] OTHER                                       -> {}

\* The process ends; the kernel drops its lease.
Dies ==
    /\ at # "idle"
    /\ Fault
    /\ at' = "idle" /\ trying' = FALSE
    /\ pending' \in {pending} \cup {pending \cup {kind} : kind \in Half}
    /\ Tears
    /\ UNCHANGED <<number, stage, db, sealed, status, counted, started, outcome, modes>>

Step ==
    \/ Prepare \/ Mkdir \/ Fill \/ Publish \/ Read \/ Exhausted \/ Tidy
    \/ Open \/ Seal \/ Settle \/ Mark \/ Interrupted \/ Retryable
    \/ Start \/ Running \/ Connect \/ Commit \/ Check \/ Outcome \/ Passed
    \/ Reissue \/ Issue \/ Protect \/ Close
    \/ Recover \/ Classify \/ Failed \/ GiveUp \/ Leave

Next == Call \/ Step \/ Fails \/ Dies

\* The command goes on unless it dies, and is given again.
Spec == Init /\ [][Next]_vars /\ WF_vars(Call) /\ WF_vars(Step)
-----------------------------------------------------------------------------
\* A receipt says what the database says, whatever died in between: an attempt
\* that passed committed, one that failed or was interrupted did not.
OutcomesAreTrue ==
    \A n \in Attempt :
        /\ outcome[n] = "passed" => db = n
        /\ outcome[n] \in Undone => db # n

\* A state that says passed is over a sealed database and its receipts, which a
\* result is issued on, so no later call is refused: only the handler of an
\* exception that came late in _replace_state opens such a database again.
PassedIsWhole ==
    status = "passed" /\ ~torn =>
        /\ db # 0 /\ counted = db /\ ExactReceipt /\ outcome[db] = "passed"
        /\ sealed \/ at \in {"classify", "leave"}

\* Once the artifact is protected no call, death or failure changes it.
ProtectedForGood == [][modes = "closed" => UNCHANGED files]_vars

\* The owner sees the numbered receipts, the database and the protected artifact.
Promise == INSTANCE MigrationPromise WITH
    tried <- Cardinality(started),
    committed <- db,
    verdict <- outcome,
    returned <- (modes = "closed")

\* Whatever dies, fails or is tried again, the migration is committed once; no attempt
\* begins over a commit, or before what became of the last one is recorded; no
\* verdict is revised; a result is returned only of a committed attempt that passed.
KeepsMigrationPromise == Promise!PromiseSpec

\* When the faults are over, what was committed is finished and returned, with
\* no attempt left too; otherwise the attempts are used up.
EventuallyDone ==
    <>[](modes = "closed" \/ (db = 0 /\ started = Attempt) \/ torn)
=============================================================================
