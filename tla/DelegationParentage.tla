------------------------ MODULE DelegationParentage ------------------------
(***************************************************************************)
(* The parentage custody of one Attempt's delegated threads: class         *)
(* _TopLevelFacts of codex_attempt_worker.py.                              *)
(*                                                                         *)
(* The App Server's notifications name threads and their parents; those of *)
(* different threads come in no fixed order, may come more than once and   *)
(* may disagree.  run_worker has registered the root thread before it      *)
(* starts the turn in which others appear.  A thread's messages have one   *)
(* text here, and the first failure detail is kept as a flag.  What        *)
(* AttemptWorker has a name for too is called Custody here: the one worker *)
(* process does both.                                                      *)
(***************************************************************************)
EXTENDS Naturals, FiniteSets, Functions

CONSTANTS
    Thread,    \* delegated threads
    Root,      \* the Attempt's own thread
    MaxDepth,  \* delegation_max_depth
    Nobody     \* no expected parent

ASSUME RootAssumption == Root \notin Thread /\ Nobody \notin Thread \cup {Root}
ASSUME DepthAssumption == MaxDepth \in Nat \ {0}
ASSUME ThreadAssumption == IsFiniteSet(Thread)

VARIABLES
    parent,    \* _parent_thread_ids
    pending,   \* _pending_parent_thread_ids
    asserted,  \* _pending_parent_assertions
    waiting,   \* _pending_descendant_finals
    finals,    \* descendant_final_messages
    failed,    \* failure_detail is set
    over,      \* finalize_parentage has run
    told       \* the notifications observed so far

custody == <<parent, pending, asserted, waiting, finals>>
custodyVars == <<parent, pending, asserted, waiting, finals, failed, over, told>>

AnyThread == Thread \cup {Root}

\* A thread/started with a parent, or a spawnAgent call; a sendInput call; a
\* wait call with the child's message; a final answer of the child itself; a
\* thread/started without a parent.
Notification ==
    [kind : {"spawn", "send", "wait"}, child : AnyThread, parent : AnyThread]
        \cup [kind : {"final", "root"}, child : AnyThread, parent : {Nobody}]

Partial(S, T) == UNION {[D -> T] : D \in SUBSET S}

CustodyTypeOK ==
    /\ parent \in Partial(Thread, AnyThread)
    /\ pending \in Partial(Thread, AnyThread)
    /\ asserted \in [Thread -> SUBSET AnyThread]
    /\ waiting \subseteq [child : Thread, parent : AnyThread \cup {Nobody}]
    /\ finals \subseteq Thread \X AnyThread
    /\ failed \in BOOLEAN /\ over \in BOOLEAN
    /\ told \subseteq Notification

CustodyInit ==
    /\ parent = [c \in {} |-> Root]
    /\ pending = [c \in {} |-> Root]
    /\ asserted = [c \in Thread |-> {}]
    /\ waiting = {}
    /\ finals = {}
    /\ failed = FALSE
    /\ over = FALSE
    /\ told = {}
-----------------------------------------------------------------------------
(* Resolving pending parentage. *)

Known(c) == c \in DOMAIN parent
Pending(c) == c \in DOMAIN pending

\* The parent registered for c, or waiting to be.
ParentIn(pend, c) == IF Known(c) THEN parent[c] ELSE pend[c]

\* The threads at each depth once everything that can be resolved is.
LevelsOf(pend) ==
    LET level[k \in 0 .. MaxDepth] ==
            IF k = 0 THEN {Root}
            ELSE {c \in DOMAIN parent \cup DOMAIN pend :
                    ParentIn(pend, c) \in level[k - 1]}
    IN  level

\* The loop of _resolve_pending_parentage registers every pending child whose
\* parent hangs on the root, and drops those whose parent is at the last depth.
Resolvable(pend) ==
    {c \in DOMAIN pend : \E k \in 1 .. MaxDepth : c \in LevelsOf(pend)[k]}
TooDeep(pend) == {c \in DOMAIN pend : pend[c] \in LevelsOf(pend)[MaxDepth]}

\* Finals of threads just registered, and those that expected another parent.
Drained(pend) == {f \in waiting : f.child \in Resolvable(pend)}
Misplaced(pend) ==
    {f \in Drained(pend) : f.parent \notin {Nobody, pend[f.child]}}

\* A mutant: assertions that came before the registration are not compared.
ResolvingIgnores(pend) == TooDeep(pend) # {} \/ Misplaced(pend) # {}

ResolvingFails(pend) ==
    \/ TooDeep(pend) # {}
    \/ Misplaced(pend) # {}
    \/ \E c \in Resolvable(pend) : \E p \in asserted[c] : p # pend[c]

\* A mutant: finals that came before the registration are thrown away.
ResolvedUndrained(pend) ==
    /\ parent' = [c \in DOMAIN parent \cup Resolvable(pend) |-> ParentIn(pend, c)]
    /\ pending' = Restrict(pend, DOMAIN pend \ (Resolvable(pend) \cup TooDeep(pend)))
    /\ asserted' = [c \in Thread |-> IF c \in Resolvable(pend) THEN {} ELSE asserted[c]]
    /\ waiting' = waiting \ Drained(pend)
    /\ UNCHANGED finals

\* What the loop leaves: the resolved registered, and their finals recorded.
Resolved(pend) ==
    /\ parent' = [c \in DOMAIN parent \cup Resolvable(pend) |-> ParentIn(pend, c)]
    /\ pending' = Restrict(pend, DOMAIN pend \ (Resolvable(pend) \cup TooDeep(pend)))
    /\ asserted' = [c \in Thread |-> IF c \in Resolvable(pend) THEN {} ELSE asserted[c]]
    /\ waiting' = waiting \ Drained(pend)
    /\ finals' = finals \cup
          {<<f.child, pend[f.child]>> : f \in Drained(pend) \ Misplaced(pend)}
-----------------------------------------------------------------------------
(* observe(), by what the notification says. *)

Observed(kind, c, p) ==
    /\ ~over
    /\ told' = told \cup {[kind |-> kind, child |-> c, parent |-> p]}
    /\ UNCHANGED over

\* What is known or pending of c contradicts that p is its parent.
Contradicts(c, p) ==
    \/ c = p
    \/ c = Root
    \/ Known(c) /\ parent[c] # p
    \/ ~Known(c) /\ Pending(c) /\ pending[c] # p

\* _pending_parentage_cycles: c is an ancestor of p, known or pending.
Loops(c, p) ==
    LET up[k \in 0 .. Cardinality(Thread)] ==
            IF k = 0 THEN p
            ELSE IF Known(up[k - 1]) THEN parent[up[k - 1]]
            ELSE IF Pending(up[k - 1]) THEN pending[up[k - 1]]
            ELSE up[k - 1]
    IN  \E k \in DOMAIN up : up[k] = c

\* _register_descendant.
Spawn(c, p) ==
    LET pend == [d \in DOMAIN pending \cup {c} |-> IF d = c THEN p ELSE pending[d]]
    IN  /\ Observed("spawn", c, p)
        /\ CASE Contradicts(c, p) -> failed' = TRUE /\ UNCHANGED custody
             [] ~Contradicts(c, p) /\ Known(c) -> UNCHANGED <<custody, failed>>
             [] ~Contradicts(c, p) /\ ~Known(c) /\ Loops(c, p) ->
                  /\ failed' = TRUE
                  /\ pending' = Restrict(pending, DOMAIN pending \ {c})
                  /\ UNCHANGED <<parent, asserted, waiting, finals>>
             [] OTHER ->
                  /\ Resolved(pend)
                  /\ failed' = (failed \/ ResolvingFails(pend))

\* _assert_direct_parent: what is left to compare later, and whether it fails.
AssertedWith(c, p) ==
    IF Contradicts(c, p) \/ Known(c) THEN asserted
    ELSE [asserted EXCEPT ![c] = @ \cup {p}]

AssertFails(c, p) ==
    Contradicts(c, p) \/ (~Known(c) /\ asserted[c] \ {p} # {})

Send(c, p) ==
    /\ Observed("send", c, p)
    /\ asserted' = AssertedWith(c, p)
    /\ failed' = (failed \/ AssertFails(c, p))
    /\ UNCHANGED <<parent, pending, waiting, finals>>

\* _queue_or_record_descendant_final of a delegated thread.
Queue(c, expected) ==
    /\ waiting' = IF Known(c) \/ c = Root THEN waiting
                  ELSE waiting \cup {[child |-> c, parent |-> expected]}
    /\ finals' = IF Known(c) /\ expected \in {Nobody, parent[c]}
                 THEN finals \cup {<<c, parent[c]>>} ELSE finals

\* A wait call asserts the parent and brings the child's message.
Wait(c, p) ==
    /\ Observed("wait", c, p)
    /\ asserted' = AssertedWith(c, p)
    /\ Queue(c, p)
    /\ failed' = (failed \/ AssertFails(c, p))
    /\ UNCHANGED <<parent, pending>>

\* A final answer; the root's own is not in the descendants' custody.
Final(c) ==
    /\ Observed("final", c, Nobody)
    /\ Queue(c, Nobody)
    /\ UNCHANGED <<parent, pending, asserted, failed>>

\* register_root_thread, the root being known.
RootStarted(c) ==
    /\ Observed("root", c, Nobody)
    /\ failed' = (failed \/ c # Root)
    /\ UNCHANGED custody

\* finalize_parentage: what is still pending is a failure.
Finalize ==
    /\ ~over
    /\ over' = TRUE
    /\ Resolved(pending)
    /\ failed' = \/ failed
                 \/ ResolvingFails(pending)
                 \/ DOMAIN pending' # {}
                 \/ waiting' # {}
                 \/ \E c \in Thread : asserted'[c] # {}
    /\ UNCHANGED told
-----------------------------------------------------------------------------
CustodyNext ==
    \/ \E c, p \in AnyThread : Spawn(c, p) \/ Send(c, p) \/ Wait(c, p)
    \/ \E c \in AnyThread : Final(c) \/ RootStarted(c)
    \/ Finalize

CustodySpec == CustodyInit /\ [][CustodyNext]_custodyVars
-----------------------------------------------------------------------------
(* What the verdict should be, from the notifications alone and no order. *)

Spawned == {m \in told : m.kind = "spawn"}
Claims == {m \in told : m.kind \in {"spawn", "send", "wait"}}

\* Everything told is of one tree under Root, at most MaxDepth deep, in which
\* every thread that is mentioned was introduced.
OneTree ==
    /\ \A m \in told : m.kind = "root" => m.child = Root
    /\ \A m \in Claims : m.child # Root
    /\ \A m, n \in Claims : m.child = n.child => m.parent = n.parent
    /\ \A m \in told :
          m.child # Root => \E s \in Spawned : s.child = m.child
    /\ \E depth \in [AnyThread -> 0 .. MaxDepth] :
          /\ depth[Root] = 0
          /\ \A s \in Spawned :
                /\ depth[s.child] = depth[s.parent] + 1
                /\ s.parent = Root \/ \E t \in Spawned : t.child = s.parent

\* The Attempt fails for its delegation exactly when what the server told is
\* not one such tree, whatever the order it came in.
VerdictHasNoOrder == over => (failed <=> ~OneTree)

\* A delegation that does not fail has kept every final message, once, under
\* the parent the server named.
FinalsKept ==
    over /\ ~failed =>
        finals = {<<s.child, s.parent>> : s \in
            {t \in Spawned : \E m \in told :
                m.kind \in {"final", "wait"} /\ m.child = t.child}}
=============================================================================
