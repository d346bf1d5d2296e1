-------------------------- MODULE MissionInvariant --------------------------
(***************************************************************************)
(* The inductive invariant of MissionEngine: why its safety properties     *)
(* hold.  It is checked by TLC and proved in MissionEngineProofs.          *)
(***************************************************************************)
EXTENDS MissionEngine

Closed(d) == ~ActiveDelegation(d)

\* References lead somewhere.
Referenced ==
    /\ Len(mats) = Len(milestones)
    /\ \A r \in DOMAIN requests : requests[r].milestone \in DOMAIN mats
    /\ \A d \in DOMAIN delegations : delegations[d].request \in DOMAIN requests
    /\ \A k \in DOMAIN claims : claims[k].delegation \in DOMAIN delegations

\* A request needs a materialization that is ready; a completed milestone too.
Materialized ==
    /\ \A r \in DOMAIN requests :
          mats[requests[r].milestone] \in {"EXECUTION_READY", "REVOKED"}
    /\ \A m \in DOMAIN milestones :
          milestones[m].status = "Completed"
              => mats[m] \in {"EXECUTION_READY", "REVOKED"}

\* A milestone is decided only when those before it are completed, and only
\* milestones of the active plan are open.
PlanOrder ==
    /\ \A m, n \in DOMAIN milestones :
          m < n /\ mats[n] # "NONE" => milestones[m].status = "Completed"
    /\ \A m \in DOMAIN milestones :
          milestones[m].status = "Completed" \/ milestones[m].plan = plan.version

\* Attempts of a milestone grow with the position of their requests, and only
\* the last one can be live.
AttemptOrder ==
    \A q, r \in DOMAIN requests :
        q < r /\ requests[q].milestone = requests[r].milestone
            => requests[q].attempt < requests[r].attempt /\ ~LiveRequest(q)

OneDelegation ==
    \A c, d \in DOMAIN delegations :
        delegations[c].request = delegations[d].request => c = d

\* An active claim is the one its delegation names, and that is active.
ClaimsMatch ==
    \A k \in DOMAIN claims :
        claims[k].status = "ACTIVE" =>
            /\ ActiveDelegation(claims[k].delegation)
            /\ delegations[claims[k].delegation].status # "Pending"
            /\ delegations[claims[k].delegation].claim = k

\* Live work belongs to an open milestone.
LiveIsOpen ==
    \A r \in DOMAIN requests :
        LiveRequest(r) => milestones[requests[r].milestone].status # "Completed"

\* A request that was delegated can no longer be claimed or revoked, and a
\* revoked approval has no work left.
DelegatedPast ==
    \A d \in DOMAIN delegations : ~Revocable(delegations[d].request)

RevokedIdle ==
    \A r \in DOMAIN requests :
        mats[requests[r].milestone] = "REVOKED" => ~LiveRequest(r)

LineageClosed ==
    \A e \in lineage :
        /\ e.delegation \in DOMAIN delegations
        /\ Closed(e.delegation)
        /\ delegations[e.delegation].claim \in DOMAIN claims

RunningHasWork ==
    progression = "RUNNING" /\ status \notin TERMINAL_MISSION_STATES =>
        \E d \in DOMAIN delegations :
            ActiveDelegation(d) /\ ActiveRequest(delegations[d].request)

WithinLimits ==
    /\ plan.replans <= MAX_PLAN_LOOPS
    /\ plan.version = plan.replans + 1
    /\ plan.batches <= MAX_OUTREACH_BATCHES

CompletionHolds ==
    status = "COMPLETED" =>
        /\ achieved /\ progression # "RUNNING"
        /\ EvaluateCompletion
        /\ \A r \in DOMAIN requests : ~LiveRequest(r)

\* What the mission stores about its work, and what its status says of it.
Structure ==
    /\ Referenced /\ Materialized /\ PlanOrder /\ AttemptOrder
    /\ OneDelegation /\ ClaimsMatch /\ LiveIsOpen /\ LineageClosed

\* What a worker holds is its own: nobody else closes it.
WorkersOwn ==
    /\ \A d \in claimedBy : delegations[d].status = "Claimed"
    /\ \A d \in executing : delegations[d].status = "Running"

Approval == DelegatedPast /\ RevokedIdle

Standing == RunningHasWork /\ WithinLimits /\ CompletionHolds /\ WorkersOwn

IInv == TypeOK /\ Structure /\ Approval /\ Standing
==============================================================================
