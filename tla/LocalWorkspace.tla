---------------------------- MODULE LocalWorkspace ----------------------------
(***************************************************************************)
(* A workspace in a directory of the server                                *)
(* (LocalDurableWorkspaceStorage): commands of a remote sandbox, whose     *)
(* files a thread takes over, commands of the local or the Docker runner,  *)
(* which change the directory themselves, and file tools, which the event  *)
(* loop runs.  Threads, processes and the event loop interleave at every   *)
(* call of the file system; the sandbox, path checks and limits of size    *)
(* are left out, except that they may refuse.                              *)
(***************************************************************************)
EXTENDS Naturals, Sequences, FiniteSets, SequencesExt

CONSTANTS
    Names,
    Texts,
    Missing,        \* content of a path without a file
    Syncs,          \* commands of the remote sandbox
    Commands,       \* commands run on the server
    Unheld,         \* holds no lock
    MaxEdits        \* bound: uses of a file tool

ASSUME LocalAssumption ==
    /\ IsFiniteSet(Names)
    /\ Missing \notin Texts /\ Unheld \notin Syncs /\ MaxEdits \in Nat

Directories == [Names -> Texts \cup {Missing}]

VARIABLES
    runner,     \* NIE_ENGINEERING_RUNNER: "vercel_sandbox", "local" or "docker"
    root,       \* the files of the directory
    syncs,      \* what a capture and reconcile are doing
    rootLock,   \* _lock_for(root)
    edit,       \* the file tool at work: what it is about to change
    edits,      \* their number
    commands,   \* what became of each command
    os          \* the process of each command: its child may outlive it

localVars == <<runner, root, syncs, rootLock, edit, edits, commands, os>>

\* seen is what a capture has read so far; todo and done are the operations of an
\* apply, done the latest first; the others are trees.  disturbed is history: the
\* paths others wrote since the reconcile began.
NewSync == [step |-> "new", seen |-> <<>>, base |-> <<>>, before |-> <<>>,
            returned |-> <<>>, todo |-> <<>>, done |-> <<>>, disturbed |-> {}]

LocalInit ==
    /\ runner \in {"vercel_sandbox", "local", "docker"}
    /\ root \in Directories
    /\ syncs = [s \in Syncs |-> NewSync]
    /\ rootLock = Unheld
    /\ edit = <<>> /\ edits = 0
    /\ commands = [c \in Commands |-> "new"]
    /\ os = [c \in Commands |-> "none"]

Reconciling(s) == syncs[s].step \in {"checking", "staged", "undo"}

\* Somebody writes, while a reconcile may be at work.
WritesTo(changed, new) ==
    /\ root' = new
    /\ syncs' = [s \in Syncs |->
                    IF Reconciling(s) THEN [syncs[s] EXCEPT !.disturbed = @ \cup changed]
                    ELSE syncs[s]]

------------------------------------------------------------------------------
(* The remote sandbox's files                                               *)

\* os.walk reads one file after the other.
CaptureStarts(s) ==
    /\ runner = "vercel_sandbox"
    /\ \/ /\ syncs[s].step = "new"
          /\ syncs' = [syncs EXCEPT ![s].step = "capturing"]
          /\ UNCHANGED rootLock
       \/ /\ syncs[s].step = "returned" /\ rootLock = Unheld
          /\ syncs' = [syncs EXCEPT ![s].step = "checking"]
          /\ rootLock' = s
    /\ UNCHANGED <<runner, root, edit, edits, commands, os>>

Reading(s) == syncs[s].step \in {"capturing", "checking"}

ReadsFile(s, p) ==
    /\ Reading(s)
    /\ p \notin DOMAIN syncs[s].seen
    /\ syncs' = [syncs EXCEPT ![s].seen =
                    [q \in DOMAIN @ \cup {p} |-> IF q = p THEN root[p] ELSE @[q]]]
    /\ UNCHANGED <<runner, root, rootLock, edit, edits, commands, os>>

\* The sandbox's command has made of the copy what it likes.
SandboxReturns(s) ==
    /\ syncs[s].step = "capturing" /\ DOMAIN syncs[s].seen = Names
    /\ \E tree \in Directories :
          syncs' = [syncs EXCEPT ![s] = [NewSync EXCEPT !.step = "returned", !.base = syncs[s].seen,
                                                        !.returned = tree]]
    /\ UNCHANGED <<runner, root, rootLock, edit, edits, commands, os>>

\* updated, then created, then deleted.
Operations(before, after) ==
    LET updated == {p \in Names : {before[p], after[p]} \subseteq Texts /\ before[p] # after[p]}
        created == {p \in Names : before[p] = Missing /\ after[p] # Missing}
        deleted == {p \in Names : before[p] # Missing /\ after[p] = Missing}
    IN SetToSeq(updated) \o SetToSeq(created) \o SetToSeq(deleted)

ReleasesRoot(s, outcome) ==
    /\ syncs' = [syncs EXCEPT ![s] = [NewSync EXCEPT !.step = outcome]]
    /\ rootLock' = Unheld

\* A mutant: what was read at first is what there is.
ChecksNothing(s) ==
    LET seen == syncs[s].seen
    IN /\ syncs[s].step = "checking" /\ DOMAIN seen = Names
       /\ syncs' = [syncs EXCEPT ![s].step = "staged", ![s].before = seen,
                                 ![s].seen = <<>>,
                                 ![s].todo = Operations(seen, syncs[s].returned)]
       /\ UNCHANGED <<runner, root, rootLock, edit, edits, commands, os>>

\* The revision is a digest of the files.  What changed nothing is a success, and
\* staging the new files may fail.
Checks(s) ==
    LET seen == syncs[s].seen
    IN /\ syncs[s].step = "checking" /\ DOMAIN seen = Names
       /\ \/ seen # syncs[s].base /\ ReleasesRoot(s, "refused")
          \/ seen = syncs[s].base /\ ReleasesRoot(s, "refused")
          \/ /\ seen = syncs[s].base
             /\ syncs' = [syncs EXCEPT ![s].step = "staged", ![s].before = seen,
                                       ![s].seen = <<>>,
                                       ![s].todo = Operations(seen, syncs[s].returned)]
             /\ UNCHANGED rootLock
       /\ UNCHANGED <<runner, root, edit, edits, commands, os>>

\* One file is replaced or moved; none is half written.
Applies(s) ==
    LET p == Head(syncs[s].todo)
    IN /\ syncs[s].step = "staged" /\ syncs[s].todo # <<>>
       /\ root' = [root EXCEPT ![p] = syncs[s].returned[p]]
       /\ syncs' = [syncs EXCEPT ![s].todo = Tail(@), ![s].done = <<p>> \o @]
       /\ UNCHANGED <<runner, rootLock, edit, edits, commands, os>>

ApplyFails(s) ==
    /\ syncs[s].step = "staged"
    /\ syncs' = [syncs EXCEPT ![s].step = "undo"]
    /\ UNCHANGED <<runner, root, rootLock, edit, edits, commands, os>>

\* The latest first, each from its backup.  One that fails is passed over, and the
\* backup is removed all the same; such a path counts as disturbed.
Undoes(s) ==
    LET p == Head(syncs[s].done)
    IN /\ syncs[s].step = "undo" /\ syncs[s].done # <<>>
       /\ \/ /\ root' = [root EXCEPT ![p] = syncs[s].before[p]]
             /\ syncs' = [syncs EXCEPT ![s].done = Tail(@)]
          \/ /\ syncs' = [syncs EXCEPT ![s].done = Tail(@), ![s].disturbed = @ \cup {p}]
             /\ UNCHANGED root
       /\ UNCHANGED <<runner, rootLock, edit, edits, commands, os>>

\* The temporary directory is removed and the lock released.
ReconcileEnds(s) ==
    /\ \/ syncs[s].step = "staged" /\ syncs[s].todo = <<>> /\ ReleasesRoot(s, "succeeded")
       \/ syncs[s].step = "undo" /\ syncs[s].done = <<>> /\ ReleasesRoot(s, "failed")
    /\ UNCHANGED <<runner, root, edit, edits, commands, os>>

------------------------------------------------------------------------------
(* The file tools                                                           *)

\* What a tool found is what it changes next.
Edits(new) ==
    /\ edit = <<>> /\ edits < MaxEdits
    /\ edit' = new
    /\ edits' = edits + 1
    /\ UNCHANGED <<runner, root, syncs, rootLock, commands, os>>

create_file(p) ==
    \E overwrite \in BOOLEAN, content \in Texts :
       /\ root[p] = Missing \/ overwrite
       /\ Edits(<<"write", p, content>>)

\* The context the caller expects is in the file, with whatever beside it.
apply_patch(p) == root[p] # Missing /\ \E content \in Texts : Edits(<<"write", p, content>>)

delete_file(p) == root[p] # Missing /\ Edits(<<"remove", p>>)

rename(p, q) ==
    \E overwrite \in BOOLEAN :
       /\ root[p] # Missing /\ (root[q] = Missing \/ overwrite)
       /\ Edits(<<"move", p, q>>)

\* os.replace; without its source it fails.
EditApplies ==
    /\ edit # <<>>
    /\ LET p == edit[2]
       IN CASE edit[1] = "write" -> WritesTo({p}, [root EXCEPT ![p] = edit[3]])
            [] edit[1] = "remove" /\ root[p] # Missing -> WritesTo({p}, [root EXCEPT ![p] = Missing])
            [] edit[1] = "move" /\ root[p] # Missing ->
                  WritesTo({p, edit[3]}, [root EXCEPT ![p] = Missing, ![edit[3]] = root[p]])
            [] OTHER -> UNCHANGED <<root, syncs>>
    /\ edit' = <<>>
    /\ UNCHANGED <<runner, rootLock, edits, commands, os>>

------------------------------------------------------------------------------
(* The commands of the server itself                                        *)

CommandStarts(c) ==
    /\ runner \in {"local", "docker"} /\ commands[c] = "new"
    /\ \/ /\ commands' = [commands EXCEPT ![c] = "runs"]
          /\ os' = [os EXCEPT ![c] = "alive"]
       \/ /\ commands' = [commands EXCEPT ![c] = "failed"]
          /\ UNCHANGED os
    /\ UNCHANGED <<runner, root, syncs, rootLock, edit, edits>>

CommandWrites(c) ==
    /\ os[c] \in {"alive", "child"}
    /\ \E p \in Names, content \in Texts \cup {Missing} :
          WritesTo({p}, [root EXCEPT ![p] = content])
    /\ UNCHANGED <<runner, rootLock, edit, edits, commands, os>>

\* The process ends, and may leave a child, which a container is to the Docker client.
ProcessEnds(c) ==
    /\ \/ os[c] = "alive" /\ \E left \in {"child", "gone"} : os' = [os EXCEPT ![c] = left]
       \/ os[c] = "child" /\ os' = [os EXCEPT ![c] = "gone"]
    /\ UNCHANGED <<runner, root, syncs, rootLock, edit, edits, commands>>

\* process.kill after the time limit: it reaches the process alone.
TimesOut(c) ==
    /\ commands[c] = "runs" /\ os[c] = "alive"
    /\ \E left \in {"child", "gone"} : os' = [os EXCEPT ![c] = left]
    /\ UNCHANGED <<runner, root, syncs, rootLock, edit, edits, commands>>

\* Its output is read to the end.  A child that holds the pipes is waited for as well,
\* however long; one that does not, as a container does not, goes on after the report.
Reports(c) ==
    /\ commands[c] = "runs"
    /\ os[c] \in {"child", "gone"}
    /\ commands' = [commands EXCEPT ![c] = "reported"]
    /\ UNCHANGED <<runner, root, syncs, rootLock, edit, edits, os>>

\* The request is cancelled; nobody kills its process.
RunCancelled(c) ==
    /\ commands[c] = "runs"
    /\ commands' = [commands EXCEPT ![c] = "cancelled"]
    /\ UNCHANGED <<runner, root, syncs, rootLock, edit, edits, os>>

\* The server dies in the middle of what its threads do; nothing completes or
\* undoes it after a restart.
LocalCrash ==
    /\ \E s \in Syncs : syncs[s].step \notin {"new", "died"}
    /\ syncs' = [s \in Syncs |-> IF syncs[s].step = "new" THEN NewSync
                                 ELSE [NewSync EXCEPT !.step = "died"]]
    /\ rootLock' = Unheld /\ edit' = <<>>
    /\ UNCHANGED <<runner, root, edits, commands, os>>

LocalNext ==
    \/ LocalCrash \/ EditApplies
    \/ \E s \in Syncs :
          \/ CaptureStarts(s) \/ SandboxReturns(s) \/ Checks(s) \/ Applies(s)
          \/ ApplyFails(s) \/ Undoes(s) \/ ReconcileEnds(s)
          \/ \E p \in Names : ReadsFile(s, p)
    \/ \E p \in Names :
          \/ create_file(p) \/ apply_patch(p) \/ delete_file(p)
          \/ \E q \in Names \ {p} : rename(p, q)
    \/ \E c \in Commands :
          \/ CommandStarts(c) \/ CommandWrites(c) \/ ProcessEnds(c)
          \/ TimesOut(c) \/ Reports(c) \/ RunCancelled(c)

LocalSpec == LocalInit /\ [][LocalNext]_localVars

------------------------------------------------------------------------------
(* Properties                                                               *)

LocalTypeOK ==
    /\ root \in Directories
    /\ rootLock \in Syncs \cup {Unheld}
    /\ edits \in 0..MaxEdits
    /\ commands \in [Commands -> {"new", "runs", "failed", "reported", "cancelled"}]
    /\ os \in [Commands -> {"none", "alive", "child", "gone"}]

\* Whatever fails: when a reconcile is about to release the directory, it has made
\* all its changes, to the files its sandbox began with, or none is left of them,
\* but for files that others wrote meanwhile or whose backup could not be put back.
SyncsAreWhole ==
    \A s \in Syncs :
       LET sync == syncs[s]
           Left(tree) == \A p \in Names \ sync.disturbed : root[p] = tree[p]
       IN /\ sync.step = "staged" /\ sync.todo = <<>> => Left(sync.returned) /\ sync.before = sync.base
          /\ sync.step = "undo" /\ sync.done = <<>> => Left(sync.before)

\* The directory's state has its types, and its reconciles are whole.
LocalChangesWhole == LocalTypeOK /\ SyncsAreWhole
==============================================================================
