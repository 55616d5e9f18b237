--------------------------- MODULE AttemptJournal ---------------------------
(***************************************************************************)
(* The append-only event journal of one formal research Attempt            *)
(* (research_attempt_adapter/journal.py).  A log is the sequence of the    *)
(* Attempt's event rows in SQLite sequence order.  Rows are never updated  *)
(* or deleted; every row carries a unique operation key, and appending a   *)
(* row under a key already present either replays the stored row or is a   *)
(* conflict that raises and changes nothing.                               *)
(***************************************************************************)
EXTENDS Naturals, Sequences

\* The states of an Attempt whose external effect is not over yet.
ActiveStates ==
    {"LAUNCH_REQUESTED", "RUNNING", "CANCEL_REQUESTED", "FORCE_STOP_REQUESTED"}

\* Known failures and stops: the only states a corrected retry may follow.
RetryableStates == {"FAILED", "CANCELLED", "FORCE_STOPPED"}

AttemptStates ==
    ActiveStates \cup RetryableStates \cup
        {"PREPARED", "SUCCEEDED", "UNKNOWN", "FENCED"}

Certainties == {"NONE", "KNOWN", "UNKNOWN"}

\* The operations that append rows, and what a row of each may record.  The
\* event type, provider state, detail code and exit code are functions of the
\* key and of the certainty, so a row keeps only the fields that can differ
\* between two rows with the same key.
Key(op, kind, detail) == [op |-> op, kind |-> kind, detail |-> detail]

Row(key, state, ref, evidence, certainty) ==
    [key |-> key, state |-> state, provider_ref |-> ref,
     evidence_only |-> evidence, certainty |-> certainty]

Rows(log) == {log[i] : i \in DOMAIN log}

\* The keys already used in the log.
HasKey(log, key) == \E i \in DOMAIN log : log[i].key = key

\* The key is present and the stored row differs: JournalConflictError.
Conflicts(log, row) ==
    \E i \in DOMAIN log : log[i].key = row.key /\ log[i] # row

\* Append one row; a row whose key is present is a replay.
Appended(log, row) == IF HasKey(log, row.key) THEN log ELSE Append(log, row)

Trusted(log) == {i \in DOMAIN log : ~log[i].evidence_only}

\* Position of the last row that is not evidence-only.
LastTrusted(log) ==
    CHOOSE i \in Trusted(log) : \A j \in Trusted(log) : j <= i

\* The trusted head: what get_attempt reports as the Attempt's state.
HeadState(log) == log[LastTrusted(log)].state

\* Some trusted row has named the provider's handle.
HasProviderRef(log) == \E i \in Trusted(log) : log[i].provider_ref
=============================================================================
