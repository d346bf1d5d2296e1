--------------------------- MODULE VersionedFiles ---------------------------
(***************************************************************************)
(* What the durable storage of a workspace promises to those who change    *)
(* it: the files have one history of versions, and whoever writes a        *)
(* version has read the one before it.  A reader writes once at most.      *)
(***************************************************************************)
EXTENDS Integers, Sequences

CONSTANTS
    Writers,
    Trees,          \* what the files of a workspace can be
    FirstTree

VARIABLES
    history,        \* the versions, oldest first
    reads           \* the number of the version a writer holds; 0 for none

promiseVars == <<history, reads>>

PromiseInit ==
    /\ history = <<FirstTree>>
    /\ reads = [w \in Writers |-> 0]

Read(w) ==
    /\ reads' = [reads EXCEPT ![w] = Len(history)]
    /\ UNCHANGED history

\* Only on top of the version read, and what is read is used up.
Write(w, tree) ==
    /\ reads[w] = Len(history)
    /\ history' = Append(history, tree)
    /\ reads' = [reads EXCEPT ![w] = 0]

Forget(w) ==
    /\ reads' = [reads EXCEPT ![w] = 0]
    /\ UNCHANGED history

PromiseNext ==
    \E w \in Writers : Read(w) \/ Forget(w) \/ \E tree \in Trees : Write(w, tree)

PromiseSpec == PromiseInit /\ [][PromiseNext]_promiseVars
=============================================================================
