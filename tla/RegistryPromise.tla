--------------------------- MODULE RegistryPromise ---------------------------
(***************************************************************************)
(* What the registry promises to those who change missions: each update is *)
(* taken as a whole or refused, and one that was taken stays.  The other   *)
(* missions are lost only to an update that could not read the file.       *)
(***************************************************************************)
CONSTANT Updates

VARIABLES
    store,      \* of every mission, named by the update that created it, its updates
    updates,    \* what became of every update
    blind       \* the updates that took the file for empty

promiseVars == <<store, updates, blind>>

Init ==
    /\ store = [m \in Updates |-> {}]
    /\ updates = [u \in Updates |-> "new"]
    /\ blind = {}

Begin(u) ==
    /\ updates[u] = "new"
    /\ updates' = [updates EXCEPT ![u] = "open"]
    /\ UNCHANGED <<store, blind>>

Misread(u) ==
    /\ updates[u] = "open"
    /\ blind' = blind \cup {u}
    /\ UNCHANGED <<store, updates>>

\* Only an update of its own creates a mission.
Apply(u, m) ==
    /\ updates[u] = "open"
    /\ m = u \/ store[m] # {}
    /\ updates' = [updates EXCEPT ![u] = "saved"]
    /\ store' = [n \in Updates |->
                    IF n = m THEN store[m] \cup {u}
                    ELSE IF u \in blind THEN {} ELSE store[n]]
    /\ blind' = blind \ {u}

Refuse(u) ==
    /\ updates[u] = "open"
    /\ updates' = [updates EXCEPT ![u] = "refused"]
    /\ blind' = blind \ {u}
    /\ UNCHANGED store

\* A process that stops takes the updates it had not finished with it.
Stop(lost) ==
    /\ \A u \in lost : updates[u] = "open"
    /\ updates' = [u \in Updates |-> IF u \in lost THEN "refused" ELSE updates[u]]
    /\ blind' = blind \ lost
    /\ UNCHANGED store

Next ==
    \/ \E u \in Updates :
          \/ Begin(u)
          \/ Misread(u)
          \/ \E m \in Updates : Apply(u, m)
          \/ Refuse(u)
    \/ \E lost \in SUBSET Updates : Stop(lost)

Spec == Init /\ [][Next]_promiseVars
==============================================================================
