--------------------------- MODULE SourcePromise ---------------------------
(***************************************************************************)
(* What a Store promises of its writers and of the sources it hands to     *)
(* backups, with no process, lease, transaction, lock, slot file or death: *)
(* a commit has the one writer there is; writers follow each other, and    *)
(* pause only after a checkpoint; and a source, offered in such a pause,   *)
(* is all there is by then, taken once and used once.                      *)
(***************************************************************************)
EXTENDS Naturals, Sequences

CONSTANTS Commands, None

VARIABLES
    past,    \* the commits, each with its command and writer
    open,    \* an Executive Epoch is authorized and has no checkpoint
    writer,  \* the writer, 0 while there is none
    epochs,  \* the writers there have been
    offered, \* the source that may be taken, None without one
    taken,   \* the source that is in use
    used     \* the checkpoints whose source has been used

promiseVars == <<past, open, writer, epochs, offered, taken, used>>

PromiseInit ==
    /\ past = <<>> /\ ~open /\ writer = 1 /\ epochs = 1
    /\ offered = None /\ taken = None /\ used = {}

\* The last commit is a checkpoint.
Ended == past # <<>> /\ past[Len(past)].cmd.kind = "checkpoint"
Begun == writer' = epochs + 1 /\ epochs' = epochs + 1

\* A command is committed once, in the order of Epochs, by the writer there is;
\* only an authorization brings its own.
Write(cmd) ==
    /\ \A i \in DOMAIN past : past[i].cmd # cmd
    /\ CASE cmd.kind = "authorize" -> ~open /\ open'
         [] cmd.kind = "checkpoint" -> open /\ ~open'
         [] OTHER -> open' = open
    /\ \/ writer # 0 /\ UNCHANGED <<writer, epochs>>
       \/ writer = 0 /\ cmd.kind = "authorize" /\ Begun
    /\ past' = Append(past, [cmd |-> cmd, epoch |-> writer'])
    /\ UNCHANGED <<offered, taken, used>>

Pause ==
    /\ writer # 0 /\ Ended
    /\ writer' = 0
    /\ UNCHANGED <<past, open, epochs, offered, taken, used>>

Succeed ==
    /\ writer = 0 /\ Ended /\ Begun
    /\ UNCHANGED <<past, open, offered, taken, used>>

\* Of a checkpoint no source was used of, nor is.
Offer ==
    /\ writer = 0 /\ Ended
    /\ Len(past) \notin used /\ (taken # None => taken.checkpoint # Len(past))
    /\ offered' = [cut |-> Len(past), prior |-> epochs, checkpoint |-> Len(past)]
    /\ UNCHANGED <<past, open, writer, epochs, taken, used>>

Take ==
    /\ offered # None /\ taken = None
    /\ taken' = offered /\ offered' = None
    /\ UNCHANGED <<past, open, writer, epochs, used>>

UseUp ==
    /\ taken # None
    /\ used' = used \cup {taken.checkpoint} /\ taken' = None
    /\ UNCHANGED <<past, open, writer, epochs, offered>>

PromiseNext ==
    Pause \/ Succeed \/ Offer \/ Take \/ UseUp \/ \E cmd \in Commands : Write(cmd)

PromiseSpec == PromiseInit /\ [][PromiseNext]_promiseVars
=============================================================================
