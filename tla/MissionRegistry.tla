--------------------------- MODULE MissionRegistry ---------------------------
(***************************************************************************)
(* The registry every mission is kept in: one JSON file, a copy of it in   *)
(* the memory of each server process, a re-entrant lock around that copy   *)
(* and, on Windows, a named mutex around the file.  MissionEngine takes a  *)
(* `with mission_registry.locked()` section for one step; here it is what  *)
(* the code does: lock, load, change a mission, load again, put it in,     *)
(* write a temporary file and put that in the file's place.  Sections of   *)
(* several threads and processes interleave, the mutex is waited for only  *)
(* so long, the file may be unreadable at any reading, a section may fail  *)
(* before its save, a save may fail at any point, and a process may stop   *)
(* between any two steps.                                                  *)
(*                                                                         *)
(* A mission is the set of updates that made it what it is, named by the   *)
(* one that created it; no file, an empty one and one without missions     *)
(* are not told apart.                                                     *)
(***************************************************************************)
CONSTANTS
    Processes,
    Threads,
    process,        \* of every thread
    os_name,        \* "nt" is Windows
    Updates,
    NoOne

ASSUME RegistryAssumption ==
    /\ process \in [Threads -> Processes]
    /\ NoOne \notin Threads
    /\ NoOne \notin Updates

\* How the registry may be run: elsewhere than on Windows, in one process.
ASSUME Deployment ==
    os_name = "nt" \/ \A p, q \in Processes : p = q

VARIABLES
    mission_file,
    missions,       \* of every process
    _lock,          \* of every process, the thread that holds it
    mutex,          \* the thread that holds the named mutex
    sections,       \* what every thread is at
    updates         \* what became of every update

registryVars == <<mission_file, missions, _lock, mutex, sections, updates>>

Store == [Updates -> SUBSET Updates]

Nothing == [m \in Updates |-> {}]

\* At "waiting" a section has no lock yet, at "locked" the process's own.
Steps == {"idle", "waiting", "locked", "loaded", "changed", "saving"}

Section ==
    [step : Steps,
     mission : Updates \cup {NoOne},
     update : Updates \cup {NoOne},     \* NoOne: the section only reads
     value : SUBSET Updates,            \* the mission object in hand
     blind : BOOLEAN]                   \* save_mission took the file for empty

Outside ==
    [step |-> "idle", mission |-> NoOne, update |-> NoOne, value |-> {}, blind |-> FALSE]

Waiting(u, m) ==
    [step |-> "waiting", mission |-> m, update |-> u, value |-> {}, blind |-> FALSE]

RegistryInit ==
    /\ mission_file = Nothing
    /\ missions = [p \in Processes |-> Nothing]
    /\ _lock = [p \in Processes |-> NoOne]
    /\ mutex = NoOne
    /\ sections = [t \in Threads |-> Outside]
    /\ updates = [u \in Updates |-> "new"]

-----------------------------------------------------------------------------
(* The locks and the file.                                                 *)

At(t, step) == sections[t].step = step

\* Any error in reading or parsing is logged, and the file taken for empty.
_read_models_from_disk == {mission_file, Nothing}

\* A mutant: what POSIX does.
NoMutex(t) == mutex' = mutex

_cross_process_registry_lock(t) ==
    /\ os_name = "nt" => mutex = NoOne
    /\ mutex' = IF os_name = "nt" THEN t ELSE mutex

Releases(t) ==
    /\ _lock' = [_lock EXCEPT ![process[t]] = NoOne]
    /\ mutex' = IF mutex = t THEN NoOne ELSE mutex

\* The section ends, and its update, if it has one, is settled.
Leaves(t, outcome) ==
    /\ Releases(t)
    /\ sections' = [sections EXCEPT ![t] = Outside]
    /\ updates' = [u \in Updates |->
                      IF u = sections[t].update THEN outcome ELSE updates[u]]

-----------------------------------------------------------------------------
(* The sections.                                                           *)

Enters(t, section) ==
    /\ At(t, "idle")
    /\ sections' = [sections EXCEPT ![t] = section]
    /\ UNCHANGED <<mission_file, missions, _lock, mutex>>

\* Reading: get_mission, snapshot, get_mission_by_hint.
get_mission(t) ==
    /\ Enters(t, Waiting(NoOne, NoOne))
    /\ UNCHANGED updates

\* create_mission, when the update is of the mission it creates, and every section
\* that finds a mission in the registry, changes it and saves it.
update_mission_status(t, u, m) ==
    /\ updates[u] = "new"
    /\ Enters(t, Waiting(u, m))
    /\ updates' = [updates EXCEPT ![u] = "open"]

TakesLock(t) ==
    /\ At(t, "waiting")
    /\ _lock[process[t]] = NoOne
    /\ _lock' = [_lock EXCEPT ![process[t]] = t]
    /\ sections' = [sections EXCEPT ![t].step = "locked"]
    /\ UNCHANGED <<mission_file, missions, mutex, updates>>

\* A mutant: the memory is taken as the last section left it.
NoReload(t) ==
    /\ At(t, "locked")
    /\ _cross_process_registry_lock(t)
    /\ sections' = [sections EXCEPT ![t].step = "loaded"]
    /\ UNCHANGED <<mission_file, missions, _lock, updates>>

\* The mutex, and _load_state_unlocked.
locked(t) ==
    /\ At(t, "locked")
    /\ _cross_process_registry_lock(t)
    /\ \E loaded \in _read_models_from_disk :
          missions' = [missions EXCEPT ![process[t]] = loaded]
    /\ sections' = [sections EXCEPT ![t].step = "loaded"]
    /\ UNCHANGED <<mission_file, _lock, updates>>

\* After 30 seconds of another process's section.
LockTimeout(t) ==
    /\ At(t, "locked")
    /\ os_name = "nt"
    /\ mutex # NoOne
    /\ Leaves(t, "refused")
    /\ UNCHANGED <<mission_file, missions>>

Creates(t) == sections[t].update = sections[t].mission

\* A section that reads, and one whose mission is not there, are done.
Returns(t) ==
    /\ At(t, "loaded")
    /\ \/ sections[t].update = NoOne
       \/ ~Creates(t) /\ missions[process[t]][sections[t].mission] = {}
    /\ Leaves(t, "refused")
    /\ UNCHANGED <<mission_file, missions>>

\* The object in the registry's own memory is the one that is changed.
Changes(t) ==
    LET section == sections[t]
        held == missions[process[t]][section.mission]
        changed == held \cup {section.update}
    IN /\ At(t, "loaded")
       /\ section.update # NoOne
       /\ \/ Creates(t) /\ UNCHANGED missions
          \/ /\ ~Creates(t) /\ held # {}
             /\ missions' = [missions EXCEPT ![process[t]][section.mission] = changed]
       /\ sections' = [sections EXCEPT ![t].step = "changed", ![t].value = changed]
       /\ UNCHANGED <<mission_file, _lock, mutex, updates>>

\* The section fails after it has changed its mission and before the save, as when the
\* approval of a materialization cannot be stored: the memory keeps the change.
Raises(t) ==
    /\ At(t, "changed")
    /\ Leaves(t, "refused")
    /\ UNCHANGED <<mission_file, missions>>

\* It loads the file once more before it puts the mission in.
save_mission(t) ==
    /\ At(t, "changed")
    /\ \E loaded \in _read_models_from_disk :
          /\ missions' = [missions EXCEPT
                ![process[t]] = [loaded EXCEPT ![sections[t].mission] = sections[t].value]]
          /\ sections' = [sections EXCEPT ![t].step = "saving",
                                          ![t].blind = loaded # mission_file]
    /\ UNCHANGED <<mission_file, _lock, mutex, updates>>

\* os.replace: a reader finds the old file or the new one.
_save_state(t) ==
    /\ At(t, "saving")
    /\ mission_file' = missions[process[t]]
    /\ Leaves(t, "saved")
    /\ UNCHANGED missions

\* Writing or replacing fails: the temporary file is removed and the memory
\* read from the file again.
SaveFails(t) ==
    /\ At(t, "saving")
    /\ \E loaded \in _read_models_from_disk :
          missions' = [missions EXCEPT ![process[t]] = loaded]
    /\ Leaves(t, "refused")
    /\ UNCHANGED mission_file

\* A process stops and is started again; Windows hands its mutex on as abandoned.
\* What it loads when it starts is loaded again before anything reads it.
Restart(p) ==
    LET mine == {t \in Threads : process[t] = p}
    IN /\ missions' = [missions EXCEPT ![p] = Nothing]
       /\ _lock' = [_lock EXCEPT ![p] = NoOne]
       /\ mutex' = IF mutex \in mine THEN NoOne ELSE mutex
       /\ sections' = [t \in Threads |->
                          IF t \in mine THEN Outside ELSE sections[t]]
       /\ updates' = [u \in Updates |->
                          IF \E t \in mine : sections[t].update = u THEN "refused"
                          ELSE updates[u]]
       /\ UNCHANGED mission_file

Runs(t) ==
    \/ TakesLock(t)
    \/ locked(t)
    \/ LockTimeout(t)
    \/ Returns(t)
    \/ Changes(t)
    \/ Raises(t)
    \/ save_mission(t)
    \/ _save_state(t)
    \/ SaveFails(t)

RegistryNext ==
    \/ \E t \in Threads :
          \/ get_mission(t)
          \/ \E u, m \in Updates : update_mission_status(t, u, m)
          \/ Runs(t)
    \/ \E p \in Processes : Restart(p)

RegistrySpec == RegistryInit /\ [][RegistryNext]_registryVars
-----------------------------------------------------------------------------
(* What it should do.                                                      *)

\* Types.
RegistryTypeOK ==
    /\ mission_file \in Store
    /\ missions \in [Processes -> Store]
    /\ _lock \in [Processes -> Threads \cup {NoOne}]
    /\ mutex \in Threads \cup {NoOne}
    /\ sections \in [Threads -> Section]
    /\ updates \in [Updates -> {"new", "open", "saved", "refused"}]

\* A section works from what the file holds: not from what an earlier one of its
\* process changed and did not save, nor from what another process has replaced since.
\* What it is to save is the mission as it is in the file and the section's own update.
SectionsSeeOnlySaved ==
    \A t \in Threads :
        /\ At(t, "loaded") => missions[process[t]] \in {mission_file, Nothing}
        /\ sections[t].step \in {"changed", "saving"} =>
              sections[t].value = mission_file[sections[t].mission] \cup {sections[t].update}

\* The sections of all threads and processes together keep RegistryPromise: no
\* update undoes another, and none is half done.
Promise ==
    INSTANCE RegistryPromise WITH
        store <- mission_file,
        blind <- {u \in Updates :
                     \E t \in Threads : sections[t].update = u /\ sections[t].blind}

KeepsRegistryPromise == Promise!Spec
=============================================================================
