-------------------------- MODULE MigrationPromise --------------------------
(***************************************************************************)
(* What an offline migration promises the owner of the backup, with no     *)
(* files, lease, exception or crash: attempts follow each other, one of    *)
(* them at most commits, each has one verdict, which is true, and a result *)
(* is returned once the verdict on the committed one is there.             *)
(***************************************************************************)
EXTENDS Naturals

CONSTANT MaxAttempts

VARIABLES
    tried,      \* attempts begun
    committed,  \* the attempt that committed, 0 while there is none
    verdict,    \* verdict[n]: what is recorded of attempt n
    returned    \* a result was returned

promiseVars == <<tried, committed, verdict, returned>>

RolledBack == {"failed", "interrupted"}

PromiseInit ==
    /\ tried = 0 /\ committed = 0 /\ returned = FALSE
    /\ verdict = [n \in 1 .. MaxAttempts |-> "none"]

\* Only over a source, with every attempt before it known to be rolled back.
Begin ==
    /\ committed = 0 /\ tried < MaxAttempts
    /\ \A n \in 1 .. tried : verdict[n] \in RolledBack
    /\ tried' = tried + 1
    /\ UNCHANGED <<committed, verdict, returned>>

\* The attempt under way, if nothing is said of it yet.
CommitOnce ==
    /\ committed = 0 /\ tried # 0 /\ verdict[tried] = "none"
    /\ committed' = tried
    /\ UNCHANGED <<tried, verdict, returned>>

\* The attempt under way is judged once, by what the database holds.
Judge ==
    /\ tried # 0 /\ verdict[tried] = "none"
    /\ \E v \in IF committed = tried THEN {"passed"} ELSE RolledBack :
          verdict' = [verdict EXCEPT ![tried] = v]
    /\ UNCHANGED <<tried, committed, returned>>

\* Once, and for good: no other step is left after it.
Return ==
    /\ committed # 0 /\ verdict[committed] = "passed" /\ ~returned
    /\ returned' = TRUE
    /\ UNCHANGED <<tried, committed, verdict>>

PromiseNext == Begin \/ CommitOnce \/ Judge \/ Return

PromiseSpec == PromiseInit /\ [][PromiseNext]_promiseVars
=============================================================================
