--------------------------- MODULE FailoverPromise ---------------------------
(***************************************************************************)
(* What failover promises to a request: it is answered by a provider that  *)
(* has not refused it, and fails only when every provider that could serve *)
(* it has given a reason: a cooldown, bad health or a failure.  A request  *)
(* may be asked Rounds times, and each time every provider is good again.  *)
(***************************************************************************)
EXTENDS Naturals

CONSTANTS Requests, eligible, Rounds

VARIABLES
    willing,    \* the providers that have not refused the request
    round,
    outcome

promiseVars == <<willing, round, outcome>>

Init ==
    /\ willing = [r \in Requests |-> {}]
    /\ round = [r \in Requests |-> 0]
    /\ outcome = [r \in Requests |-> "none"]

\* Providers refuse; the request that is left with none of them fails.
Loses(r, most, n) ==
    LET left == willing'[r]
    IN /\ left \subseteq most
       /\ willing' = [willing EXCEPT ![r] = left]
       /\ round' = [round EXCEPT ![r] = n]
       /\ outcome' = [outcome EXCEPT ![r] = IF left = {} THEN "failed" ELSE "open"]

\* A new request, or the second round of one that was not answered.
Ask(r) ==
    /\ outcome[r] # "open"
    /\ \/ Loses(r, eligible[r], 1)
       \/ /\ outcome[r] \in {"failed", "rejected"}
          /\ round[r] < Rounds
          /\ Loses(r, eligible[r], round[r] + 1)

Refuse(r) ==
    /\ outcome[r] = "open"
    /\ willing'[r] # willing[r]
    /\ Loses(r, willing[r], round[r])

Answer(r) ==
    /\ outcome[r] = "open"
    /\ outcome' = [outcome EXCEPT ![r] = "answered"]
    /\ UNCHANGED <<willing, round>>

\* The answer is of no use to the caller.
Reject(r) ==
    /\ outcome[r] = "open"
    /\ outcome' = [outcome EXCEPT ![r] = "rejected"]
    /\ UNCHANGED <<willing, round>>

Withdraw(r) ==
    /\ outcome[r] = "open"
    /\ outcome' = [outcome EXCEPT ![r] = "withdrawn"]
    /\ UNCHANGED <<willing, round>>

Next ==
    \E r \in Requests :
        \/ Ask(r)
        \/ Refuse(r)
        \/ Answer(r)
        \/ Reject(r)
        \/ Withdraw(r)

Spec == Init /\ [][Next]_promiseVars
==============================================================================
