--------------------------- MODULE PreviewProcesses ---------------------------
(***************************************************************************)
(* The previews of a workspace (ProcessManager of                          *)
(* engineering_process_service.py): local processes that requests start,   *)
(* inspect and stop, what the server remembers of them, and their rows in  *)
(* the database.  All requests run on one event loop; a step is what is    *)
(* done between two awaits.  Their output is left out.                     *)
(***************************************************************************)
EXTENDS Naturals, FiniteSets

CONSTANTS
    Previews,       \* requests that start a process, and the process of each
    Inspections,    \* requests that inspect one
    Stops,          \* requests that stop one
    MaxPreviews,    \* NIE_ENGINEERING_MAX_PROCESSES
    NoRequest,      \* holds no lock
    NoRow           \* not stored

\* What a row may say of a process, by the constraints of the table.
Row == [status : {"STARTING", "RUNNING", "STOPPED", "FAILED", "CANCELLED"},
        health : {"UNKNOWN", "STARTING", "READY", "FAILED", "STOPPED"}]

ASSUME PreviewsAssumption ==
    /\ NoRow \notin Row
    /\ MaxPreviews \in Nat
    /\ NoRequest \notin Previews
    /\ Inspections \cap Stops = {}

VARIABLES
    child,      \* what the operating system knows of each process
    _active,    \* the processes the server knows
    startLock,  \* self._lock: the request that creates a process, or NoRequest
    starting,   \* how far each request to start is
    asking,     \* the requests that inspect or stop
    rows,       \* workspace_processes
    orphaned    \* processes that outlived a server that crashed

previewVars ==
    <<child, _active, startLock, starting, asking, rows, orphaned>>

Asking == Inspections \cup Stops

NewAsking == [step |-> "new", of |-> NoRequest, row |-> NoRow]

PreviewsInit ==
    /\ child = [p \in Previews |-> "none"]
    /\ _active = {} /\ startLock = NoRequest /\ orphaned = {}
    /\ starting = [p \in Previews |-> "new"]
    /\ asking = [a \in Asking |-> NewAsking]
    /\ rows = [p \in Previews |-> NoRow]

\* returncode is None; "told" has got its SIGTERM and may ignore it.
Lives(p) == child[p] \in {"alive", "told"}

ProcessExits(p) ==
    /\ Lives(p)
    /\ \E code \in {"zero", "nonzero"} : child' = [child EXCEPT ![p] = code]
    /\ UNCHANGED <<_active, startLock, starting, asking, rows, orphaned>>

\* process.terminate and process.kill.
Terminated(p) == [child EXCEPT ![p] = IF Lives(p) THEN "told" ELSE @]
Killed(p) == [child EXCEPT ![p] = IF Lives(p) THEN "nonzero" ELSE @]

\* Any live process may be the one that listens: a port is not asked whose it is.
PortAnswers == \E p \in Previews : Lives(p)

------------------------------------------------------------------------------
(* start                                                                    *)

\* A mutant: the limit is looked at before the lock is taken.
StartsUnlocked(p) ==
    /\ starting[p] = "new"
    /\ Cardinality({q \in _active : Lives(q)}) < MaxPreviews
    /\ starting' = [starting EXCEPT ![p] = "creating"]
    /\ UNCHANGED <<child, _active, startLock, asking, rows, orphaned>>

StartCreates(p) ==
    /\ starting[p] = "new" /\ startLock = NoRequest
    /\ IF Cardinality({q \in _active : Lives(q)}) >= MaxPreviews
       THEN starting' = [starting EXCEPT ![p] = "raised"] /\ UNCHANGED startLock
       ELSE starting' = [starting EXCEPT ![p] = "creating"] /\ startLock' = p
    /\ UNCHANGED <<child, _active, asking, rows, orphaned>>

\* The process is there and known when the lock is released, or neither.
Created(p) ==
    /\ starting[p] = "creating"
    /\ \/ /\ child' = [child EXCEPT ![p] = "alive"]
          /\ _active' = _active \cup {p}
          /\ starting' = [starting EXCEPT ![p] = "recording"]
       \/ /\ starting' = [starting EXCEPT ![p] = "raised"]
          /\ UNCHANGED <<child, _active>>
    /\ startLock' = NoRequest
    /\ UNCHANGED <<asking, rows, orphaned>>

\* repository.create_process; what raises may have been stored.
Recorded(p) ==
    /\ starting[p] = "recording"
    /\ \/ /\ rows' = [rows EXCEPT ![p] = [status |-> "RUNNING", health |-> "STARTING"]]
          /\ \/ /\ starting' = [starting EXCEPT ![p] = "waiting"]
                /\ UNCHANGED child
             \/ /\ starting' = [starting EXCEPT ![p] = "withdrawing"]
                /\ child' = Terminated(p)
       \/ /\ starting' = [starting EXCEPT ![p] = "withdrawing"]
          /\ child' = Terminated(p)
          /\ UNCHANGED rows
    /\ UNCHANGED <<_active, startLock, asking, orphaned>>

\* await process.wait(), without a limit.
Withdrawn(p) ==
    /\ starting[p] = "withdrawing" /\ ~Lives(p) /\ startLock = NoRequest
    /\ _active' = _active \ {p}
    /\ starting' = [starting EXCEPT ![p] = "raised"]
    /\ UNCHANGED <<child, startLock, asking, rows, orphaned>>

\* _wait_for_port has its answer; the commit is still to come.
Waited(p) ==
    /\ starting[p] = "waiting"
    /\ \E answer \in {"ready", "ended", "unknown"} :
          /\ answer = "ready" => PortAnswers
          /\ answer = "ended" => ~Lives(p)
          /\ starting' = [starting EXCEPT ![p] = answer]
    /\ UNCHANGED <<child, _active, startLock, asking, rows, orphaned>>

\* Of a row only what was changed is written; the commit may fail.
StartCommits(p) ==
    /\ starting[p] \in {"ready", "ended", "unknown"}
    /\ starting' = [starting EXCEPT ![p] = "returned"]
    /\ \/ rows' = [rows EXCEPT ![p] =
                CASE starting[p] = "ready" -> [@ EXCEPT !.health = "READY"]
                  [] starting[p] = "ended" -> [status |-> "FAILED", health |-> "FAILED"]
                  [] OTHER -> @]
       \/ UNCHANGED rows
    /\ UNCHANGED <<child, _active, startLock, asking, orphaned>>

\* A cancellation is no Exception: whatever was created stays, as far as it came.
\* The process of a creation that is cancelled is killed with it.
StartCancelled(p) ==
    /\ starting[p] \in {"creating", "recording", "withdrawing", "waiting"}
    /\ starting' = [starting EXCEPT ![p] = "raised"]
    /\ startLock' = IF starting[p] = "creating" THEN NoRequest ELSE startLock
    /\ \/ UNCHANGED rows
       \/ /\ starting[p] = "recording"
          /\ rows' = [rows EXCEPT ![p] = [status |-> "RUNNING", health |-> "STARTING"]]
    /\ UNCHANGED <<child, _active, asking, orphaned>>

------------------------------------------------------------------------------
(* inspect and stop                                                         *)

\* Nothing is changed by what the repository does not find.
AsksFor(a, p) ==
    /\ asking[a].step = "new" /\ rows[p] # NoRow
    /\ asking' = [asking EXCEPT ![a] = [step |-> "read", of |-> p, row |-> rows[p]]]
    /\ UNCHANGED <<child, _active, startLock, starting, rows, orphaned>>

Known(a) == asking[a].of \in _active

\* What inspect is to write, by the row it read and the process it found.
Inspects(a) ==
    LET p == asking[a].of
        row == asking[a].row
        Writes(new) == asking' = [asking EXCEPT ![a] = [@ EXCEPT !.step = "commits", !.row = new]]
    IN /\ a \in Inspections /\ asking[a].step = "read" /\ startLock = NoRequest
       /\ \/ /\ Known(a) /\ ~Lives(p) /\ row.status = "RUNNING"
             /\ Writes([status |-> IF child[p] = "zero" THEN "STOPPED" ELSE "FAILED",
                        health |-> "STOPPED"])
          \/ /\ Known(a) /\ Lives(p) /\ row.health # "READY" /\ PortAnswers
             /\ Writes([row EXCEPT !.health = "READY"])
          \/ asking' = [asking EXCEPT ![a].step = "done"]
       /\ UNCHANGED <<child, _active, startLock, starting, rows, orphaned>>

\* A status or health that is as it was read is not written.
InspectCommits(a) ==
    LET p == asking[a].of
        ended == asking[a].row.status # "RUNNING"
    IN /\ a \in Inspections /\ asking[a].step = "commits"
       /\ \/ rows' = [rows EXCEPT ![p] =
                [status |-> IF ended THEN asking[a].row.status ELSE @.status,
                 health |-> asking[a].row.health]]
          \/ UNCHANGED rows
       /\ asking' = [asking EXCEPT ![a].step = "done"]
       /\ UNCHANGED <<child, _active, startLock, starting, orphaned>>

Finishes(a) ==
    LET p == asking[a].of
    IN /\ a \in Stops /\ asking[a].step = "read" /\ startLock = NoRequest
       /\ IF Known(a) /\ Lives(p)
          THEN /\ child' = Terminated(p)
               /\ asking' = [asking EXCEPT ![a].step = "waiting"]
          ELSE /\ asking' = [asking EXCEPT ![a].step = "commits"]
               /\ UNCHANGED child
       /\ UNCHANGED <<_active, startLock, starting, rows, orphaned>>

\* It ends within five seconds, or is killed.
Ended(a) ==
    /\ asking[a].step = "waiting"
    /\ child' = Killed(asking[a].of)
    /\ asking' = [asking EXCEPT ![a].step = "commits"]
    /\ UNCHANGED <<_active, startLock, starting, rows, orphaned>>

StopCommits(a) ==
    LET p == asking[a].of
        Write(read, stored) == IF read = "STOPPED" THEN stored ELSE "STOPPED"
    IN /\ a \in Stops /\ asking[a].step = "commits"
       /\ \/ /\ rows' = [rows EXCEPT ![p] =
                    [status |-> Write(asking[a].row.status, @.status),
                     health |-> Write(asking[a].row.health, @.health)]]
             /\ asking' = [asking EXCEPT ![a].step = "forgets"]
          \/ /\ asking' = [asking EXCEPT ![a].step = "done"]
             /\ UNCHANGED rows
       /\ UNCHANGED <<child, _active, startLock, starting, orphaned>>

Forgets(a) ==
    LET p == asking[a].of
    IN /\ asking[a].step = "forgets" /\ startLock = NoRequest
       /\ _active' = _active \ {p}
       /\ asking' = [asking EXCEPT ![a].step = "done"]
       /\ UNCHANGED <<child, startLock, starting, rows, orphaned>>

AskingCancelled(a) ==
    /\ asking[a].step \in {"read", "waiting", "commits", "forgets"}
    /\ asking' = [asking EXCEPT ![a].step = "done"]
    /\ UNCHANGED <<child, _active, startLock, starting, rows, orphaned>>

------------------------------------------------------------------------------
(* The server                                                               *)

\* shutdown_active; the server asks for it when the requests have ended.
Shutdown ==
    /\ \A p \in Previews : starting[p] \in {"new", "raised", "returned"}
    /\ \A a \in Asking : asking[a].step \in {"new", "done"}
    /\ child' = [p \in Previews |-> IF p \in _active /\ Lives(p) THEN "nonzero" ELSE child[p]]
    /\ _active' = {}
    /\ UNCHANGED <<startLock, starting, asking, rows, orphaned>>

\* The server is killed, and its processes are not.
ServerDies ==
    /\ orphaned' = orphaned \cup {p \in Previews : Lives(p)}
    /\ starting' = [p \in Previews |-> IF starting[p] = "new" THEN "new" ELSE "raised"]
    /\ asking' = [a \in Asking |-> IF asking[a].step = "new" THEN NewAsking
                                   ELSE [asking[a] EXCEPT !.step = "done"]]
    /\ _active' = {} /\ startLock' = NoRequest
    /\ UNCHANGED <<child, rows>>

PreviewsNext ==
    \/ Shutdown \/ ServerDies
    \/ \E p \in Previews :
          \/ ProcessExits(p)
          \/ StartCreates(p) \/ Created(p) \/ Recorded(p) \/ Withdrawn(p)
          \/ Waited(p) \/ StartCommits(p) \/ StartCancelled(p)
    \/ \E a \in Asking :
          \/ \E p \in Previews : AsksFor(a, p)
          \/ Inspects(a) \/ InspectCommits(a)
          \/ Finishes(a) \/ Ended(a) \/ StopCommits(a) \/ Forgets(a)
          \/ AskingCancelled(a)

PreviewsSpec == PreviewsInit /\ [][PreviewsNext]_previewVars

------------------------------------------------------------------------------
(* Properties                                                               *)

PreviewsTypeOK ==
    /\ child \in [Previews -> {"none", "alive", "told", "zero", "nonzero"}]
    /\ _active \subseteq Previews /\ orphaned \subseteq Previews
    /\ startLock \in Previews \cup {NoRequest}
    /\ rows \in [Previews -> Row \cup {NoRow}]

\* Whatever requests do at once, fail or are cancelled: the server knows every
\* process that lives, so that a shutdown ends them all, and they are never more
\* than allowed; and a row says that a process ended only of one that did.  A
\* crash of the server is the exception.
PreviewsAccounted ==
    LET living == {p \in Previews : Lives(p)} \ orphaned
    IN /\ PreviewsTypeOK
       /\ living \subseteq _active
       /\ Cardinality(living) <= MaxPreviews
       /\ \A p \in living : rows[p] # NoRow => rows[p].status = "RUNNING"
==============================================================================
