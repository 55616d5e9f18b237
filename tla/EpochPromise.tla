---------------------------- MODULE EpochPromise ----------------------------
(***************************************************************************)
(* What a Mission promises its owner about Executive Epochs, with no Host, *)
(* state file, crash, thread boundary or failed call: Epochs follow each   *)
(* other; each is given to one thread, which no other Epoch is given to,   *)
(* and ends once; and a thread works only for the last Epoch, from its     *)
(* binding to its end.                                                     *)
(***************************************************************************)
EXTENDS Naturals, Sequences

CONSTANTS
    Workspaces, \* root threads, named by their workspaces
    None        \* no thread

VARIABLES
    chain,  \* the Epochs in order, each with its last event and its thread
    worker  \* the thread that works, None when none does

promiseVars == <<chain, worker>>

Last == IF chain = <<>> THEN [state |-> "none", thread |-> None] ELSE chain[Len(chain)]
EndLast(state, thread) ==
    chain' = [chain EXCEPT ![Len(chain)] = [state |-> state, thread |-> thread]]

PromiseInit == chain = <<>> /\ worker = None

\* An Epoch begins when the one before has ended and nobody works for it.
AuthorizeNext ==
    /\ Last.state \notin {"authorized", "bound"} /\ worker = None
    /\ chain' = Append(chain, [state |-> "authorized", thread |-> None])
    /\ UNCHANGED worker

\* Once for an Epoch, once for a thread.
BindTo(w) ==
    /\ Last.state = "authorized" /\ worker = None
    /\ \A n \in DOMAIN chain : chain[n].thread # w
    /\ EndLast("bound", w)
    /\ UNCHANGED worker

\* The thread of the Epoch may end its work with it, or a little later.
CheckpointIt ==
    /\ Last.state = "bound" /\ worker \in {None, Last.thread}
    /\ EndLast("checkpointed", Last.thread)
    /\ worker' \in {worker, None}

\* Never under a thread that works.
FailIt ==
    /\ Last.state \in {"authorized", "bound"} /\ worker = None
    /\ EndLast("failed", Last.thread)
    /\ UNCHANGED worker

Work ==
    /\ Last.state = "bound" /\ worker = None
    /\ worker' = Last.thread
    /\ UNCHANGED chain

Rest ==
    /\ worker # None
    /\ worker' = None
    /\ UNCHANGED chain

PromiseNext ==
    \/ AuthorizeNext \/ CheckpointIt \/ FailIt \/ Work \/ Rest
    \/ \E w \in Workspaces : BindTo(w)

PromiseSpec == PromiseInit /\ [][PromiseNext]_promiseVars
=============================================================================
