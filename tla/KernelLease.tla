---------------------------- MODULE KernelLease ----------------------------
(***************************************************************************)
(* acquire_kernel_lease of workspace_operation_lease.py: a lock file whose *)
(* flock excludes other executors and whose text tells the next one how    *)
(* the last one left.                                                      *)
(*                                                                         *)
(* The text is one JSON object, written in place and then truncated to its *)
(* length, so what an executor that dies leaves depends on the lengths of  *)
(* the old text and the new.  An executor that found the file empty writes *)
(* a zero byte before it asks for the lock.  Executors die, and the kernel *)
(* drops their lock; the file system does not.  Lease ids are numbers in   *)
(* the order of their issue, 0 for null.                                   *)
(***************************************************************************)
EXTENDS Naturals

CONSTANTS
    Proc,       \* executors
    Scope,      \* the operations that share the lock path
    NoProc,     \* no holder
    NoScope,    \* no scope
    MaxLeases   \* bound: leases issued in all

ASSUME ProcAssumption == NoProc \notin Proc /\ NoScope \notin Scope
ASSUME LeasesAssumption == MaxLeases \in Nat

VARIABLES
    file,    \* the text in the lock file
    holder,  \* who holds the kernel lock
    issued,  \* leases issued so far
    exec     \* exec[p]: executor p inside acquire_kernel_lease

leaseVars == <<file, holder, issued, exec>>

Lease == 0 .. MaxLeases

\* Lengths of the texts, by what their fields add to the shortest: "released" and
\* a time for "held" and null, a lease id for null, "false" for "true".
Length(life, pred, abandoned) ==
    10 + (IF life = "released" THEN 29 ELSE 0)
       + (IF pred = 0 THEN 0 ELSE 36)
       + (IF abandoned THEN 0 ELSE 1)

\* life: lifecycle, or what there is instead of a text.  nulled: the first byte
\* is a zero byte.  tail: the end of a longer text follows.
Empty ==
    [life |-> "empty", lease |-> 0, scope |-> NoScope, pred |-> 0,
     abandoned |-> FALSE, nulled |-> FALSE, tail |-> FALSE, size |-> 0]

FileType ==
    [life : {"empty", "nul", "held", "released"}, lease : Lease,
     scope : Scope \cup {NoScope}, pred : Lease, abandoned : BOOLEAN,
     nulled : BOOLEAN, tail : BOOLEAN, size : 0 .. 75]

ExecSteps ==
    {"idle", "nul", "lock", "read", "write", "truncate", "body", "release", "unlock"}

Outside ==
    [pc |-> "idle", scope |-> NoScope, lease |-> 0, pred |-> 0, abandoned |-> FALSE]

LeaseTypeOK ==
    /\ file \in FileType
    /\ holder \in Proc \cup {NoProc}
    /\ issued \in Lease
    /\ exec \in [Proc -> [pc : ExecSteps, scope : Scope \cup {NoScope},
                          lease : Lease, pred : Lease, abandoned : BOOLEAN]]

LeaseInit ==
    /\ file = Empty
    /\ holder = NoProc
    /\ issued = 0
    /\ exec = [p \in Proc |-> Outside]

Step(p, from, to) == exec[p].pc = from /\ exec' = [exec EXCEPT ![p].pc = to]
-----------------------------------------------------------------------------
\* Open, creating the file, and fstat: an empty file is given a first byte.
Open(p, scope) ==
    /\ exec[p].pc = "idle"
    /\ exec' = [exec EXCEPT ![p] =
          [Outside EXCEPT !.pc = IF file.size = 0 THEN "nul" ELSE "lock",
                          !.scope = scope]]
    /\ UNCHANGED <<file, holder, issued>>

\* The byte is written at offset 0, whatever was written there meanwhile.
WriteNul(p) ==
    /\ Step(p, "nul", "lock")
    /\ file' = IF file.size = 0 THEN [file EXCEPT !.life = "nul", !.size = 1]
               ELSE [file EXCEPT !.nulled = file.life # "nul"]
    /\ UNCHANGED <<holder, issued>>

\* flock without waiting: kernel_lease_busy raises.
Lock(p) ==
    /\ Step(p, "lock", IF holder = NoProc THEN "read" ELSE "idle")
    /\ holder' = IF holder = NoProc THEN p ELSE holder
    /\ UNCHANGED <<file, issued>>

Readable == file.life \in {"held", "released"} /\ ~file.nulled /\ ~file.tail

\* The last executor did not release, or its text cannot be read.
Abandoned ==
    IF Readable THEN file.life = "held" ELSE file.life \notin {"empty", "nul"}

\* A mutant: the last executor is named, not the first of a line of them.
LastOwner(scope) ==
    IF Readable /\ file.life = "held" /\ file.scope = scope THEN file.lease ELSE 0

\* The predecessor of an executor of scope: the abandoned lease of the same
\* scope, or the one that lease had inherited.
Predecessor(scope) ==
    IF Readable /\ file.life = "held" /\ file.scope = scope
    THEN IF file.abandoned /\ file.pred # 0 THEN file.pred ELSE file.lease
    ELSE 0

Read(p) ==
    /\ exec[p].pc = "read"
    /\ issued < MaxLeases
    /\ issued' = issued + 1
    /\ exec' = [exec EXCEPT ![p] =
          [@ EXCEPT !.pc = "write", !.lease = issued + 1,
                    !.pred = Predecessor(exec[p].scope), !.abandoned = Abandoned]]
    /\ UNCHANGED <<file, holder>>

\* The text of p's lease over the old one, of which a longer one leaves a tail.
TextOf(p, life) ==
    LET size == Length(life, exec[p].pred, exec[p].abandoned) IN
    [life |-> life, lease |-> exec[p].lease, scope |-> exec[p].scope,
     pred |-> exec[p].pred, abandoned |-> exec[p].abandoned, nulled |-> FALSE,
     tail |-> file.size > size, size |-> IF file.size > size THEN file.size ELSE size]

Write(p) ==
    /\ Step(p, "write", "truncate")
    /\ file' = TextOf(p, "held")
    /\ UNCHANGED <<holder, issued>>

\* ftruncate to the length of the text; the lease is yielded.
Truncate(p) ==
    /\ Step(p, "truncate", "body")
    /\ file' = [file EXCEPT !.tail = FALSE,
                            !.size = Length("held", exec[p].pred, exec[p].abandoned)]
    /\ UNCHANGED <<holder, issued>>

\* The body returns or raises; either way the lease is released.
Leave(p) ==
    /\ Step(p, "body", "release")
    /\ UNCHANGED <<file, holder, issued>>

Release(p) ==
    /\ Step(p, "release", "unlock")
    /\ file' = TextOf(p, "released")
    /\ UNCHANGED <<holder, issued>>

Unlock(p) ==
    /\ Step(p, "unlock", "idle")
    /\ holder' = NoProc
    /\ UNCHANGED <<file, issued>>

\* The process ends; the kernel closes its descriptor.
Die(p) ==
    /\ exec[p].pc # "idle"
    /\ exec' = [exec EXCEPT ![p] = Outside]
    /\ holder' = IF holder = p THEN NoProc ELSE holder
    /\ UNCHANGED <<file, issued>>

\* What p does by itself outside the body of the lease.
Acquiring(p) ==
    \/ \E scope \in Scope : Open(p, scope)
    \/ WriteNul(p) \/ Lock(p) \/ Read(p) \/ Write(p) \/ Truncate(p)

Releasing(p) == Release(p) \/ Unlock(p)
=============================================================================
