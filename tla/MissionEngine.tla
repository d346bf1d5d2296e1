---------------------------- MODULE MissionEngine ----------------------------
(***************************************************************************)
(* One persistent mission and everyone who changes it: the mission engine  *)
(* itself (bootstrap, completion, failure, outcome evidence), the          *)
(* dispatcher, the autonomous workers, the Director, the owner and the     *)
(* approval decisions.  Every `with mission_registry.locked()` section of  *)
(* app/engine/mission_engine.py is one step; a caller that goes on after   *)
(* its section is remembered in one of the volatile variables, which a     *)
(* crash empties.                                                          *)
(*                                                                         *)
(* Lists of the stored mission are sequences and an entry's generated id   *)
(* is its position.  Delegations are never deleted: active_delegations is  *)
(* the part of `delegations` whose status is active, delegation_history    *)
(* the rest.  A decision is made once for a milestone, so its              *)
(* materialization is stored by milestone number.                          *)
(***************************************************************************)
EXTENDS Naturals, Sequences, FiniteSets, MissionEvidence

CONSTANTS
    MissionType,        \* "ARTIFACT_PRODUCTION" or "CLIENT_ACQUISITION"
    VerificationMode,
    Required,           \* success_criteria["required"]
    PlanSize,           \* milestones of plan v1; a later one is an outreach batch
    LeadMilestones,     \* milestones whose expected artifact is a LeadArtifact
    MAX_PLAN_LOOPS, MAX_EXECUTION_RETRIES, MAX_REPEATED_STRATEGIES,
    MAX_OUTREACH_BATCHES, MAX_ZERO_PROGRESS_PLANS,
    Artifacts,          \* artifact ids a specialist may return
    Evidence,           \* what the artifacts a specialist returns may look like
    Clients,            \* client or lead ids named by outcome events
    OutcomeSources,     \* evidence sources outcome evidence may carry
    MaxInterventions,   \* pause, resume and cancel commands in a behaviour
    MaxFaults           \* crashes, failed saves and raising specialists

ASSUME MissionAssumption ==
    /\ MissionType \in {"ARTIFACT_PRODUCTION", "CLIENT_ACQUISITION"}
    /\ VerificationMode \in VerificationModes
    /\ Required \in Nat \ {0}
    /\ PlanSize \in Nat \ {0}
    /\ LeadMilestones \subseteq Nat
    /\ MAX_PLAN_LOOPS \in Nat
    /\ MAX_EXECUTION_RETRIES \in Nat \ {0}
    /\ MAX_REPEATED_STRATEGIES \in Nat
    /\ MAX_OUTREACH_BATCHES \in Nat
    /\ MAX_ZERO_PROGRESS_PLANS \in Nat
    /\ Evidence \subseteq ArtifactEvidence
    /\ IsFiniteSet(Clients)
    /\ OutcomeSources \subseteq EvidenceSource
    /\ MaxInterventions \in Nat
    /\ MaxFaults \in Nat

VARIABLES
    status, progression, autoContinue, achieved,
    plan,           \* plan version and the counters that bound replanning
    milestones, mats, requests, delegations, claims, lineage, outcomes,
    claimedBy,      \* volatile: delegations a worker claimed and has not started
    executing,      \* volatile: delegations whose specialist is running
    finishing,      \* volatile: completed delegations whose worker must bootstrap
    booting,        \* volatile: other callers about to run _bootstrap_mission
    chain,          \* volatile: the canary chain of the creating call is running
    dispatching,    \* volatile: requests a dispatcher claimed and must delegate
    interventions, faults

lifecycle == <<status, progression, autoContinue, achieved>>
work == <<requests, delegations, claims>>
volatile == <<claimedBy, executing, finishing, booting, chain, dispatching>>
budget == <<interventions, faults>>
vars == <<lifecycle, plan, milestones, mats, work, lineage, outcomes,
          volatile, budget>>

ACTIVE_REQUEST_STATES == {"READY", "CLAIMED", "DISPATCHED", "RUNNING"}
ACTIVE_DELEGATION_STATES == {"Pending", "Claimed", "Running"}
TERMINAL_MISSION_STATES == {"COMPLETED", "CANCELLED", "FAILED", "WAITING_DIRECTOR"}
MissionStates == {"ACTIVE", "PAUSED"} \cup TERMINAL_MISSION_STATES
ProgressionStates ==
    {"READY", "DISPATCHING", "QUEUED", "RUNNING", "WAITING", "PAUSED",
     "BLOCKED", "ESCALATION_REQUIRED", "COMPLETED"}
MatStates ==
    {"NONE", "APPROVAL_REQUIRED", "EXECUTION_READY", "REJECTED", "REVOKED"}

Outcome == [seen : BOOLEAN, verified : BOOLEAN, source : EvidenceSource]

ActiveRequest(r) == requests[r].status \in ACTIVE_REQUEST_STATES
ActiveDelegation(d) == delegations[d].status \in ACTIVE_DELEGATION_STATES
MilestoneOf(d) == requests[delegations[d].request].milestone

\* communication_intelligence is the only target that needs an approval, and
\* only the outreach milestones added by replanning go to it.
Outreach(m) == m > PlanSize

ActivePlan == {m \in DOMAIN milestones : milestones[m].plan = plan.version}

\* Mutant: a milestone that is being worked on is not pending.
PendingOnly == {m \in ActivePlan : milestones[m].status = "Pending"}

PendingMilestones ==
    {m \in ActivePlan : milestones[m].status \in {"Pending", "READY"}}

\* MissionCompletionGuard.verified_success_evidence_ids
VerifiedArtifacts ==
    {e \in lineage : CountsArtifact(VerificationMode, e.lead, e.evidence)}
WonClients ==
    {c \in Clients : /\ outcomes[c].seen
                     /\ outcomes[c].verified
                     /\ qualifies_for_production_success(outcomes[c].source)}
VerifiedCount ==
    IF MissionType = "ARTIFACT_PRODUCTION" THEN Cardinality(VerifiedArtifacts)
                                           ELSE Cardinality(WonClients)

\* MissionCompletionGuard.evaluate_completion
EvaluateCompletion == VerifiedCount >= Required

------------------------------------------------------------------------------
(* MissionInvariantValidator: the CRITICAL and HIGH findings.              *)

UnverifiedCompletion == status = "COMPLETED" /\ (~achieved \/ ~EvaluateCompletion)

TerminalMissionHasWork ==
    /\ status \in TERMINAL_MISSION_STATES
    /\ \/ \E r \in DOMAIN requests : ActiveRequest(r)
       \/ \E d \in DOMAIN delegations : ActiveDelegation(d)

UnsafeRequest ==
    \/ \E r \in DOMAIN requests : mats[requests[r].milestone] = "NONE"
    \/ \E q, r \in DOMAIN requests :
          /\ q # r
          /\ requests[q].milestone = requests[r].milestone
          /\ requests[q].attempt = requests[r].attempt

UnsafeDelegation ==
    \/ \E d \in DOMAIN delegations : delegations[d].request \notin DOMAIN requests
    \/ \E c, d \in DOMAIN delegations :
          c # d /\ delegations[c].request = delegations[d].request

UnsafeClaim ==
    \/ \E k \in DOMAIN claims : claims[k].delegation \notin DOMAIN delegations
    \/ \E k \in DOMAIN claims :
          /\ claims[k].status = "ACTIVE"
          /\ claims[k].delegation \in DOMAIN delegations
          /\ ~ActiveDelegation(claims[k].delegation)
    \/ \E j, k \in DOMAIN claims :
          /\ j # k
          /\ claims[j].status = "ACTIVE" /\ claims[k].status = "ACTIVE"
          /\ claims[j].delegation = claims[k].delegation

BrokenArtifactLineage ==
    \E e \in lineage : \/ e.delegation \notin DOMAIN delegations
                       \/ delegations[e.delegation].request \notin DOMAIN requests
                       \/ delegations[e.delegation].claim \notin DOMAIN claims

GhostRunning ==
    /\ progression = "RUNNING"
    /\ ~ /\ \E r \in DOMAIN requests : ActiveRequest(r)
         /\ \E d \in DOMAIN delegations : ActiveDelegation(d)

LimitsExceeded ==
    \/ plan.replans > MAX_PLAN_LOOPS
    \/ plan.version > MAX_PLAN_LOOPS + 1
    \/ plan.batches > MAX_OUTREACH_BATCHES

Unsafe ==
    \/ UnverifiedCompletion \/ TerminalMissionHasWork
    \/ UnsafeRequest \/ UnsafeDelegation \/ UnsafeClaim
    \/ BrokenArtifactLineage \/ GhostRunning \/ LimitsExceeded

------------------------------------------------------------------------------
(* Shared parts of the handlers.                                           *)

\* Mutant: the mission stays ACTIVE.
EscalateProgressionOnly ==
    /\ progression' = "ESCALATION_REQUIRED"
    /\ autoContinue' = "STOPPED"
    /\ UNCHANGED <<status, achieved>>

\* MissionEngine._escalate
Escalate ==
    /\ status' = "WAITING_DIRECTOR"
    /\ progression' = "ESCALATION_REQUIRED"
    /\ autoContinue' = "STOPPED"
    /\ UNCHANGED achieved

\* MissionExecutionStateReconciler.block: a no-op on a terminal mission.
Block ==
    IF status \in TERMINAL_MISSION_STATES
    THEN UNCHANGED <<progression, autoContinue>>
    ELSE progression' = "BLOCKED" /\ autoContinue' = "STOPPED"

\* MissionExecutionStateReconciler.has_runnable_work
HasRunnableWork ==
    \/ \E r \in DOMAIN requests : requests[r].status = "READY"
    \/ \E d \in DOMAIN delegations : ActiveDelegation(d)

\* Mutant: a retry keeps the idempotency key of the first attempt.
NewRequestSameKey(m, n) == [milestone |-> m, attempt |-> 1, status |-> "READY"]

NewRequest(m, n) == [milestone |-> m, attempt |-> n, status |-> "READY"]

SetRequest(r, s) == [requests EXCEPT ![r].status = s]

\* Mutant: the claim of a closed delegation is left as it is.
ClaimLeftOpen(k, s) == claims

SetClaim(k, s) ==
    IF k \in DOMAIN claims THEN [claims EXCEPT ![k].status = s] ELSE claims

------------------------------------------------------------------------------
(* MissionEngine._bootstrap_mission, one pass.                             *)

BootstrapInactive ==
    /\ status # "ACTIVE"
    /\ UNCHANGED <<lifecycle, plan, milestones, mats, requests>>

\* The limits are exceeded before planning starts, or the plan is empty.
BootstrapUnplannable ==
    /\ status = "ACTIVE"
    /\ \/ plan.version > MAX_PLAN_LOOPS + 1
       \/ plan.replans > MAX_PLAN_LOOPS
       \/ ActivePlan = {}
    /\ Escalate
    /\ UNCHANGED <<plan, milestones, mats, requests>>

PlanWithinLimits ==
    /\ status = "ACTIVE"
    /\ plan.version <= MAX_PLAN_LOOPS + 1
    /\ plan.replans <= MAX_PLAN_LOOPS
    /\ ActivePlan # {}

BootstrapComplete ==
    /\ PlanWithinLimits
    /\ PendingMilestones = {}
    /\ EvaluateCompletion
    /\ status' = "COMPLETED"
    /\ achieved' = TRUE
    /\ progression' = "COMPLETED"
    /\ autoContinue' = "STOPPED"
    /\ UNCHANGED <<plan, milestones, mats, requests>>

PlanCompletedObjectiveUnmet ==
    /\ PlanWithinLimits
    /\ PendingMilestones = {}
    /\ ~EvaluateCompletion

BootstrapArtifactUnmet ==
    /\ PlanCompletedObjectiveUnmet
    /\ MissionType = "ARTIFACT_PRODUCTION"
    /\ Escalate
    /\ UNCHANGED <<plan, milestones, mats, requests>>

ZeroProgressCount ==
    IF VerifiedCount <= plan.lastVerified THEN plan.zeroProgress + 1 ELSE 0

ReplanLimitReached ==
    \/ plan.replans >= MAX_PLAN_LOOPS
    \/ ZeroProgressCount >= MAX_ZERO_PROGRESS_PLANS
    \/ plan.strategies >= MAX_REPEATED_STRATEGIES
    \/ plan.batches >= MAX_OUTREACH_BATCHES

BootstrapLimitReached ==
    /\ PlanCompletedObjectiveUnmet
    /\ MissionType = "CLIENT_ACQUISITION"
    /\ ReplanLimitReached
    /\ plan' = [plan EXCEPT !.zeroProgress = ZeroProgressCount,
                            !.lastVerified = VerifiedCount]
    /\ Escalate
    /\ UNCHANGED <<milestones, mats, requests>>

\* MissionPlanActivationService.activate_new_plan with one outreach milestone.
\* The caller then bootstraps again.
BootstrapReplan ==
    /\ PlanCompletedObjectiveUnmet
    /\ MissionType = "CLIENT_ACQUISITION"
    /\ ~ReplanLimitReached
    /\ plan' = [version |-> plan.version + 1,
                replans |-> plan.replans + 1,
                batches |-> plan.batches + 1,
                strategies |-> plan.strategies + 1,
                zeroProgress |-> ZeroProgressCount,
                lastVerified |-> VerifiedCount]
    /\ milestones' = Append(milestones,
                            [plan |-> plan.version + 1, status |-> "Pending"])
    /\ mats' = Append(mats, "NONE")
    /\ progression' = "READY"
    /\ autoContinue' = "RUNNING"
    /\ UNCHANGED <<status, achieved, requests>>

Current(m) == m \in PendingMilestones /\ \A n \in PendingMilestones : m <= n

MilestoneBusy(m) ==
    \/ \E d \in DOMAIN delegations : ActiveDelegation(d) /\ MilestoneOf(d) = m
    \/ \E r \in DOMAIN requests : ActiveRequest(r) /\ requests[r].milestone = m

\* Work is under way for the current milestone, or its decision exists and
\* materialize returns the record made earlier, whatever became of it.
BootstrapNothingNew ==
    /\ PlanWithinLimits
    /\ \E m \in PendingMilestones :
          Current(m) /\ (MilestoneBusy(m) \/ mats[m] # "NONE")
    /\ UNCHANGED <<lifecycle, plan, milestones, mats, requests>>

\* A new decision and MissionProgressionMaterializer.materialize.
BootstrapMaterialize ==
    /\ PlanWithinLimits
    /\ \E m \in PendingMilestones :
          /\ Current(m) /\ ~MilestoneBusy(m) /\ mats[m] = "NONE"
          /\ milestones' = [milestones EXCEPT ![m].status = "READY"]
          /\ IF Outreach(m)
             THEN /\ mats' = [mats EXCEPT ![m] = "APPROVAL_REQUIRED"]
                  /\ progression' = "WAITING"
                  /\ autoContinue' = "WAITING_APPROVAL"
                  /\ UNCHANGED requests
             ELSE /\ mats' = [mats EXCEPT ![m] = "EXECUTION_READY"]
                  /\ progression' = "READY"
                  /\ autoContinue' = "RUNNING"
                  /\ requests' = Append(requests, NewRequest(m, 1))
    /\ UNCHANGED <<status, achieved, plan>>

BootstrapReturns ==
    \/ BootstrapInactive \/ BootstrapUnplannable
    \/ BootstrapComplete \/ BootstrapArtifactUnmet \/ BootstrapLimitReached
    \/ BootstrapNothingNew \/ BootstrapMaterialize

BootstrapMission ==
    /\ \/ /\ BootstrapReturns
          /\ \/ /\ \E caller \in booting : booting' = booting \ {caller}
                /\ UNCHANGED finishing
             \/ /\ \E d \in finishing : finishing' = finishing \ {d}
                /\ UNCHANGED booting
       \/ /\ BootstrapReplan
          /\ booting # {} \/ finishing # {}
          /\ UNCHANGED <<booting, finishing>>
    /\ UNCHANGED <<delegations, claims, lineage, outcomes, claimedBy, executing,
                   chain, dispatching, budget>>

------------------------------------------------------------------------------
(* The dispatcher: MissionExecutionDispatcher.process_ready_requests.      *)

\* MissionSafetyReconciler.quarantine_unsafe_missions, run first by every
\* dispatcher and worker pass.
QuarantineUnsafeMission ==
    /\ status = "ACTIVE"
    /\ Unsafe
    /\ requests' = [r \in DOMAIN requests |->
                       IF ActiveRequest(r) THEN [requests[r] EXCEPT !.status = "BLOCKED"]
                                           ELSE requests[r]]
    /\ claims' = [k \in DOMAIN claims |->
                       IF claims[k].status = "ACTIVE"
                       THEN [claims[k] EXCEPT !.status = "INVALIDATED"] ELSE claims[k]]
    /\ delegations' = [d \in DOMAIN delegations |->
                       IF ActiveDelegation(d)
                       THEN [delegations[d] EXCEPT !.status = "INVALIDATED"]
                       ELSE delegations[d]]
    /\ Escalate
    /\ UNCHANGED <<plan, milestones, mats, lineage, outcomes, volatile, budget>>

\* MissionWorkCoordinator.claim_ready_request.  The dispatcher's pass begins
\* with the quarantine, but a later claim of the pass follows an await.
ClaimReadyRequest ==
    /\ status = "ACTIVE"
    /\ \E r \in DOMAIN requests :
          /\ requests[r].status = "READY"
          /\ \A q \in DOMAIN requests : requests[q].status = "READY" => r <= q
          /\ requests' = SetRequest(r, "CLAIMED")
          /\ dispatching' = dispatching \cup {r}
    /\ progression' = "DISPATCHING"
    /\ UNCHANGED <<status, autoContinue, achieved, plan, milestones, mats,
                   delegations, claims, lineage, outcomes, claimedBy, executing,
                   finishing, booting, chain, budget>>

Delegated(r) == \E d \in DOMAIN delegations : delegations[d].request = r

\* MissionWorkCoordinator.create_delegation when it creates a delegation.
CreateDelegation(r) ==
    /\ status = "ACTIVE"
    /\ ~Delegated(r)
    /\ requests[r].status = "CLAIMED"
    /\ delegations' = Append(delegations,
                             [request |-> r, status |-> "Pending", claim |-> 0])
    /\ requests' = SetRequest(r, "DISPATCHED")
    /\ progression' = "QUEUED"
    /\ autoContinue' = "RUNNING"
    /\ UNCHANGED <<status, achieved, claims>>

\* create_delegation refuses, or its save fails: the dispatcher marks the
\* request FAILED and blocks the mission.
Fault == faults < MaxFaults /\ faults' = faults + 1

DelegationFails(r) ==
    \/ /\ status # "ACTIVE" \/ (~Delegated(r) /\ requests[r].status # "CLAIMED")
       /\ UNCHANGED faults
    \/ /\ status = "ACTIVE" /\ ~Delegated(r) /\ requests[r].status = "CLAIMED"
       /\ Fault

DispatchRequest(r) ==
    /\ \/ CreateDelegation(r) /\ UNCHANGED faults
       \/ /\ status = "ACTIVE" /\ Delegated(r)
          /\ UNCHANGED <<lifecycle, work, faults>>
       \/ /\ DelegationFails(r)
          /\ requests' = SetRequest(r, "FAILED")
          /\ Block
          /\ UNCHANGED <<status, achieved, delegations, claims>>
    /\ dispatching' = dispatching \ {r}
    /\ UNCHANGED <<plan, milestones, mats, lineage, outcomes, claimedBy,
                   executing, finishing, booting, chain, interventions>>

\* DirectorEngine, DISPATCH_REQUEST: delegates a request some dispatcher
\* claimed, without claiming it.
DirectorDispatch(r) ==
    /\ CreateDelegation(r)
    /\ UNCHANGED <<plan, milestones, mats, lineage, outcomes, volatile, budget>>

------------------------------------------------------------------------------
(* The worker: AutonomousMissionWorker.process_mission_once.               *)

\* process_mission_once quarantines and claims with no await between the two,
\* so the mission it claims from is active and has passed the validator.
MayExecute == status = "ACTIVE" /\ ~Unsafe

\* MissionWorkCoordinator.claim_pending_delegation
ClaimPendingDelegation ==
    /\ MayExecute
    /\ \E d \in DOMAIN delegations :
          /\ delegations[d].status = "Pending"
          /\ \A c \in DOMAIN delegations : delegations[c].status = "Pending" => d <= c
          /\ \A k \in DOMAIN claims :
                ~(claims[k].delegation = d /\ claims[k].status = "ACTIVE")
          /\ delegations' = [delegations EXCEPT
                                ![d] = [@ EXCEPT !.status = "Claimed",
                                                 !.claim = Len(claims) + 1]]
          /\ claims' = Append(claims, [delegation |-> d, status |-> "ACTIVE"])
          /\ requests' = SetRequest(delegations[d].request, "RUNNING")
          /\ claimedBy' = claimedBy \cup {d}
    /\ progression' = "RUNNING"
    /\ UNCHANGED <<status, autoContinue, achieved, plan, milestones, mats, lineage,
                   outcomes, executing, finishing, booting, chain, dispatching,
                   budget>>

\* Mutant: only a delegation that is running already may start.
StartableRunning(d) == delegations[d].status = "Running"

Startable(d) == delegations[d].status \in {"Claimed", "Running"}

\* MissionWorkCoordinator.mark_delegation_running: no look at the mission's
\* status.  Refused for a delegation that is no longer active.
MarkDelegationRunning(d) ==
    /\ claimedBy' = claimedBy \ {d}
    /\ IF Startable(d)
       THEN /\ delegations' = [delegations EXCEPT ![d].status = "Running"]
            /\ executing' = executing \cup {d}
       ELSE UNCHANGED <<delegations, executing>>
    /\ UNCHANGED <<lifecycle, plan, milestones, mats, requests, claims, lineage,
                   outcomes, finishing, booting, chain, dispatching, budget>>

LineageValid(d) ==
    /\ delegations[d].claim \in DOMAIN claims
    /\ claims[delegations[d].claim].status = "ACTIVE"

\* process_delegation_completion, evidence accepted.  No look at the mission's
\* status.
CompleteDelegation(d, a, ev) ==
    LET m == MilestoneOf(d)
        lead == m \in LeadMilestones
    IN  /\ ActiveDelegation(d)
        /\ AcceptsArtifact(VerificationMode, lead, ev)
        /\ LineageValid(d)
        /\ requests' = SetRequest(delegations[d].request, "COMPLETED")
        /\ claims' = SetClaim(delegations[d].claim, "COMPLETED")
        /\ delegations' = [delegations EXCEPT ![d].status = "Completed"]
        /\ lineage' = IF \E e \in lineage : e.artifact = a THEN lineage
                      ELSE lineage \cup {[artifact |-> a, delegation |-> d,
                                          lead |-> lead, evidence |-> ev]}
        /\ milestones' = [milestones EXCEPT ![m].status = "Completed"]
        /\ progression' = "READY"
        /\ autoContinue' = "RUNNING"
        /\ executing' = executing \ {d}
        /\ finishing' = finishing \cup {d}
        /\ UNCHANGED <<status, achieved, plan, mats, outcomes, claimedBy, booting,
                       chain, dispatching, budget>>

Retryable(d, transient) ==
    /\ transient
    /\ VerificationMode # "QUALIFIED_LEAD_CANARY"
    /\ requests[delegations[d].request].attempt < MAX_EXECUTION_RETRIES

\* process_execution_failure.  No look at the mission's status, and a
\* delegation that is no longer active only escalates.
ExecutionFailure(d, transient) ==
    /\ IF ActiveDelegation(d)
       THEN LET r == delegations[d].request
            IN  /\ delegations' = [delegations EXCEPT ![d].status = "FAILED"]
                /\ claims' = SetClaim(delegations[d].claim, "FAILED")
                /\ IF Retryable(d, transient)
                   THEN /\ requests' = Append(SetRequest(r, "FAILED"),
                                  NewRequest(requests[r].milestone,
                                             requests[r].attempt + 1))
                        /\ progression' = "READY"
                        /\ autoContinue' = "RUNNING"
                        /\ UNCHANGED <<status, achieved>>
                   ELSE requests' = SetRequest(r, "FAILED") /\ Escalate
       ELSE Escalate /\ UNCHANGED work
    /\ UNCHANGED <<plan, milestones, mats, lineage, outcomes, booting, chain,
                   dispatching, interventions>>

\* The specialist reports a failure, or no evidence at all.
SpecialistFails(d) ==
    /\ \E transient \in BOOLEAN : ExecutionFailure(d, transient)
    /\ executing' = executing \ {d}
    /\ UNCHANGED <<claimedBy, finishing, faults>>

\* process_delegation_completion, evidence or claim refused.
RejectEvidence(d, ev) ==
    /\ ActiveDelegation(d)
    /\ \/ ~AcceptsArtifact(VerificationMode, MilestoneOf(d) \in LeadMilestones, ev)
       \/ ~LineageValid(d)
    /\ ExecutionFailure(d, FALSE)
    /\ executing' = executing \ {d}
    /\ UNCHANGED <<claimedBy, finishing, faults>>

SpecialistSucceeds(d) == \E a \in Artifacts, ev \in Evidence : CompleteDelegation(d, a, ev)

\* An answer for a delegation that was closed meanwhile is dropped.
LateAnswer(d) ==
    /\ ~ActiveDelegation(d)
    /\ executing' = executing \ {d}
    /\ UNCHANGED <<lifecycle, plan, milestones, mats, work, lineage, outcomes,
                   claimedBy, finishing, booting, chain, dispatching, budget>>

\* Mutant: the bootstrap after a completion saves a mission that is not ACTIVE.
RaisesWhenInactive(d) == d \in claimedBy \cup executing \cup finishing

\* Where the worker saves: the bootstrap after a completion does so only while
\* the mission is ACTIVE.  That it may wait in vain for the registry's lock on
\* Windows, whatever the status, is left out.
WorkerSaves(d) ==
    d \in claimedBy \cup executing \/ (d \in finishing /\ status = "ACTIVE")

\* A save inside _dispatch_to_specialist raises: its handler reports the
\* delegation as failed, completed or not.
WorkerRaises(d) ==
    /\ WorkerSaves(d)
    /\ Fault
    /\ ExecutionFailure(d, FALSE)
    /\ claimedBy' = claimedBy \ {d}
    /\ executing' = executing \ {d}
    /\ finishing' = finishing \ {d}

------------------------------------------------------------------------------
(* Approval decisions on a materialization, as the engine applies them.    *)

ApproveMaterialization(m) ==
    /\ status = "ACTIVE"
    /\ mats[m] = "APPROVAL_REQUIRED"
    /\ mats' = [mats EXCEPT ![m] = "EXECUTION_READY"]
    /\ requests' = IF \E r \in DOMAIN requests : requests[r].milestone = m THEN requests
                   ELSE Append(requests, NewRequest(m, 1))
    /\ progression' = "READY"
    /\ autoContinue' = "RUNNING"
    /\ UNCHANGED <<status, achieved, plan, milestones, delegations, claims, lineage,
                   outcomes, volatile, budget>>

RejectMaterialization(m) ==
    /\ status = "ACTIVE"
    /\ mats[m] = "APPROVAL_REQUIRED"
    /\ mats' = [mats EXCEPT ![m] = "REJECTED"]
    /\ Block
    /\ status' = "WAITING_DIRECTOR"
    /\ UNCHANGED <<achieved, plan, milestones, work, lineage, outcomes, volatile,
                   budget>>

\* Only the first request of the materialization is looked at.
FirstRequest(m, r) ==
    /\ requests[r].milestone = m
    /\ \A q \in DOMAIN requests : requests[q].milestone = m => r <= q

\* Mutant: an approval is revoked whatever was made of its request.
RevocableAnytime(r) == ActiveRequest(r)

Revocable(r) == requests[r].status \in {"READY", "CLAIMED"}

RevokeMaterialization(m) ==
    /\ status = "ACTIVE"
    /\ mats[m] = "EXECUTION_READY"
    /\ \E r \in DOMAIN requests :
          /\ FirstRequest(m, r)
          /\ Revocable(r)
          /\ requests' = SetRequest(r, "BLOCKED")
    /\ mats' = [mats EXCEPT ![m] = "REVOKED"]
    /\ Block
    /\ status' = "WAITING_DIRECTOR"
    /\ UNCHANGED <<achieved, plan, milestones, delegations, claims, lineage,
                   outcomes, volatile, budget>>

------------------------------------------------------------------------------
(* Outcome events: mission_outcome_reaction, record_success_evidence.      *)

RecordSuccessEvidence(c, verified, source) ==
    /\ "reactor" \notin booting
    /\ ~outcomes[c].seen \/ (~outcomes[c].verified /\ verified)
    /\ outcomes' = [outcomes EXCEPT
                      ![c] = [seen |-> TRUE, verified |-> verified, source |-> source]]
    /\ booting' = IF \A m \in ActivePlan : milestones[m].status = "Completed"
                  THEN booting \cup {"reactor"} ELSE booting
    /\ UNCHANGED <<lifecycle, plan, milestones, mats, work, lineage, claimedBy,
                   executing, finishing, chain, dispatching, budget>>

------------------------------------------------------------------------------
(* Commands: MissionRegistry.update_mission_status and its callers.        *)

UpdateMissionStatus(s) ==
    /\ interventions < MaxInterventions
    /\ interventions' = interventions + 1
    /\ status' = s
    /\ progression' = CASE s = "PAUSED" -> "PAUSED"
                        [] s = "ACTIVE" -> "READY"
                        [] OTHER -> progression
    /\ autoContinue' = CASE s = "PAUSED" -> "STOPPED"
                         [] s = "ACTIVE" -> "RUNNING"
                         [] OTHER -> autoContinue
    /\ UNCHANGED <<achieved, plan, milestones, mats, work, lineage, outcomes,
                   claimedBy, executing, finishing, chain, dispatching, faults>>

OwnerPause ==
    /\ status \notin {"COMPLETED", "CANCELLED", "FAILED"}
    /\ UpdateMissionStatus("PAUSED")
    /\ UNCHANGED booting

\* The owner's resume sets the status and nothing else.
OwnerResume ==
    /\ status = "PAUSED"
    /\ UpdateMissionStatus("ACTIVE")
    /\ UNCHANGED booting

OwnerCancel ==
    /\ status \notin {"COMPLETED", "CANCELLED", "FAILED"}
    /\ UpdateMissionStatus("CANCELLED")
    /\ UNCHANGED booting

\* The Director's commands look at no status; resume also bootstraps.
DirectorPause ==
    /\ "director" \notin booting
    /\ UpdateMissionStatus("PAUSED")
    /\ UNCHANGED booting

DirectorResume ==
    /\ "director" \notin booting
    /\ UpdateMissionStatus("ACTIVE")
    /\ booting' = booting \cup {"director"}

(***************************************************************************)
(* The end of _advance_structural_canary_chain.  The chain's rounds are    *)
(* dispatcher and worker passes; when a round makes no progress it blocks  *)
(* the mission if a claimed request has no delegation or a delegation no   *)
(* worker, and otherwise makes auto-continue truthful.                     *)
(***************************************************************************)
CanaryChainEnds ==
    /\ chain /\ "director" \notin booting
    /\ chain' = FALSE
    /\ \/ /\ status = "ACTIVE"
          /\ \/ \E r \in DOMAIN requests : requests[r].status = "CLAIMED" /\ ~Delegated(r)
             \/ \E d \in DOMAIN delegations : delegations[d].status = "Pending"
             \/ autoContinue = "RUNNING" /\ ~HasRunnableWork
          /\ Block
       \/ /\ ~(status = "ACTIVE" /\ autoContinue = "RUNNING" /\ ~HasRunnableWork)
          /\ UNCHANGED <<progression, autoContinue>>
    /\ UNCHANGED <<status, achieved, plan, milestones, mats, work, lineage,
                   outcomes, claimedBy, executing, finishing, booting, dispatching,
                   budget>>

\* The process stops; the stored mission survives and the poll loop comes back.
Crash ==
    /\ Fault
    /\ claimedBy' = {} /\ executing' = {} /\ finishing' = {}
    /\ booting' = {} /\ chain' = FALSE /\ dispatching' = {}
    /\ UNCHANGED <<lifecycle, plan, milestones, mats, work, lineage, outcomes,
                   interventions>>

------------------------------------------------------------------------------
\* create_mission, and the bootstrap its caller is about to run.
Init ==
    /\ status = "ACTIVE"
    /\ progression = "READY"
    /\ autoContinue = "STOPPED"
    /\ achieved = FALSE
    /\ plan = [version |-> 1, replans |-> 0, batches |-> 0, strategies |-> 0,
               zeroProgress |-> 0, lastVerified |-> 0]
    /\ milestones = [m \in 1..PlanSize |-> [plan |-> 1, status |-> "Pending"]]
    /\ mats = [m \in 1..PlanSize |-> "NONE"]
    /\ requests = <<>> /\ delegations = <<>> /\ claims = <<>>
    /\ lineage = {}
    /\ outcomes = [c \in Clients |->
                     [seen |-> FALSE, verified |-> FALSE, source |-> "UNKNOWN"]]
    /\ claimedBy = {} /\ executing = {} /\ finishing = {} /\ dispatching = {}
    /\ booting = {"director"}
    /\ chain = (/\ MissionType = "ARTIFACT_PRODUCTION"
                /\ VerificationMode # "PRODUCTION_BUSINESS_SUCCESS")
    /\ interventions = 0 /\ faults = 0

Dispatcher ==
    \/ QuarantineUnsafeMission
    \/ ClaimReadyRequest
    \/ \E r \in dispatching : DispatchRequest(r)

Worker ==
    \/ ClaimPendingDelegation
    \/ \E d \in claimedBy : MarkDelegationRunning(d)
    \/ \E d \in executing :
          \/ SpecialistSucceeds(d) \/ SpecialistFails(d) \/ LateAnswer(d)
          \/ \E ev \in Evidence : RejectEvidence(d, ev)

Director ==
    \/ DirectorPause \/ DirectorResume
    \/ \E r \in DOMAIN requests : DirectorDispatch(r)
    \/ \E m \in DOMAIN mats :
          \/ ApproveMaterialization(m)
          \/ RejectMaterialization(m)
          \/ RevokeMaterialization(m)

Owner == OwnerPause \/ OwnerResume \/ OwnerCancel

Environment ==
    \/ \E c \in Clients, v \in BOOLEAN, s \in OutcomeSources : RecordSuccessEvidence(c, v, s)
    \/ \E d \in claimedBy \cup executing \cup finishing : WorkerRaises(d)
    \/ Crash

Next ==
    \/ BootstrapMission \/ CanaryChainEnds
    \/ Dispatcher \/ Worker \/ Director \/ Owner \/ Environment

Spec == Init /\ [][Next]_vars

\* The poll loop and every started call go on; nobody has to pause, approve,
\* report an outcome or crash.
FairSpec ==
    /\ Spec
    /\ WF_vars(BootstrapMission)
    /\ WF_vars(CanaryChainEnds)
    /\ WF_vars(Dispatcher)
    /\ WF_vars(Worker)

(***************************************************************************)
(* A mission file the engine did not write: ids that lead nowhere,         *)
(* duplicated entries, a plan past its limits, RUNNING without work, as    *)
(* earlier versions left them behind.  A worker of a process that is about *)
(* to be replaced may still be running a specialist.                       *)
(***************************************************************************)
LegacyInit ==
    /\ status = "ACTIVE"
    /\ progression \in {"READY", "RUNNING"}
    /\ autoContinue = "RUNNING"
    /\ achieved = FALSE
    /\ \E version \in {1, MAX_PLAN_LOOPS + 2} :
          plan = [version |-> version, replans |-> 0, batches |-> 0, strategies |-> 0,
                  zeroProgress |-> 0, lastVerified |-> 0]
    /\ milestones = [m \in 1..PlanSize |-> [plan |-> 1, status |-> "Pending"]]
    /\ \E first \in {"NONE", "EXECUTION_READY"} :
          mats = [m \in 1..PlanSize |-> IF m = 1 THEN first ELSE "NONE"]
    /\ \E r, s \in {"READY", "RUNNING"} :
          requests \in {<<[NewRequest(1, 1) EXCEPT !.status = r]>>,
                        <<[NewRequest(1, 1) EXCEPT !.status = r],
                          [NewRequest(1, 1) EXCEPT !.status = s]>>}
    /\ \E s \in {"Pending", "Running"}, q \in {1, Len(requests)} :
          delegations \in {<<>>, <<[request |-> 1, status |-> s, claim |-> 0]>>,
                           <<[request |-> 1, status |-> s, claim |-> 1],
                             [request |-> q, status |-> s, claim |-> 0]>>}
    /\ \E d \in 0..1, s \in {"ACTIVE", "FAILED"} :
          claims \in {<<>>, <<[delegation |-> d, status |-> "ACTIVE"],
                             [delegation |-> d, status |-> s]>>}
    /\ lineage = {}
    /\ outcomes = [c \in Clients |->
                     [seen |-> FALSE, verified |-> FALSE, source |-> "UNKNOWN"]]
    /\ Unsafe
    /\ claimedBy = {} /\ finishing = {} /\ dispatching = {} /\ booting = {}
    /\ executing \in SUBSET {d \in DOMAIN delegations : delegations[d].status = "Running"}
    /\ chain = FALSE
    /\ interventions = 0 /\ faults = 0

\* The engine starts on such a file, or on a new mission.
LegacySpec == (Init \/ LegacyInit) /\ [][Next]_vars /\ WF_vars(Dispatcher)

------------------------------------------------------------------------------
(* Properties                                                              *)

RequestStates == ACTIVE_REQUEST_STATES \cup {"COMPLETED", "FAILED", "BLOCKED"}
DelegationStates ==
    ACTIVE_DELEGATION_STATES \cup {"Completed", "FAILED", "INVALIDATED"}
ClaimStates == {"ACTIVE", "COMPLETED", "FAILED", "INVALIDATED"}

Milestone == [plan : Nat, status : {"Pending", "READY", "Completed"}]
Request == [milestone : Nat, attempt : Nat, status : RequestStates]
Delegation == [request : Nat, status : DelegationStates, claim : Nat]
Claim == [delegation : Nat, status : ClaimStates]

LifecycleOK ==
    /\ status \in MissionStates
    /\ progression \in ProgressionStates
    /\ autoContinue \in {"RUNNING", "STOPPED", "WAITING_APPROVAL"}
    /\ achieved \in BOOLEAN

PlanOK ==
    /\ plan \in [version : Nat, replans : Nat, batches : Nat, strategies : Nat,
                 zeroProgress : Nat, lastVerified : Nat]
    /\ milestones \in Seq(Milestone)
    /\ mats \in Seq(MatStates)

WorkOK ==
    /\ requests \in Seq(Request)
    /\ delegations \in Seq(Delegation)
    /\ claims \in Seq(Claim)

EvidenceOK ==
    /\ lineage \subseteq [artifact : Artifacts, delegation : Nat,
                          lead : BOOLEAN, evidence : Evidence]
    /\ IsFiniteSet(lineage)
    /\ outcomes \in [Clients -> Outcome]

CallersOK ==
    /\ claimedBy \subseteq DOMAIN delegations
    /\ executing \subseteq DOMAIN delegations
    /\ finishing \subseteq DOMAIN delegations
    /\ dispatching \subseteq DOMAIN requests
    /\ booting \subseteq {"director", "reactor"}
    /\ chain \in BOOLEAN

BudgetOK == interventions \in 0..MaxInterventions /\ faults \in 0..MaxFaults

\* Every stored field has its type, and a caller remembers only work that was
\* stored.
TypeOK ==
    LifecycleOK /\ PlanOK /\ WorkOK /\ EvidenceOK /\ CallersOK /\ BudgetOK

LiveRequest(r) ==
    \/ ActiveRequest(r)
    \/ \E d \in DOMAIN delegations : ActiveDelegation(d) /\ delegations[d].request = r

\* However dispatchers, workers, retries, resumes and late bootstraps
\* interleave, a mission never has two pieces of executable work at once.
SingleLiveWork ==
    \A q, r \in DOMAIN requests : LiveRequest(q) /\ LiveRequest(r) => q = r

\* The validator finds nothing against a mission the engine itself brought
\* to this state, unless it was cancelled or handed to the Director: the
\* quarantine is only for state the engine did not write.
ValidatorClean == status \in {"ACTIVE", "PAUSED", "COMPLETED"} => ~Unsafe

\* Executable work belongs to a decision that needs no approval or has it: none
\* exists before the approval, after a rejection, or once an approval was
\* revoked, whatever a dispatcher still held at that moment.
ApprovedWork ==
    \A r \in DOMAIN requests :
        LiveRequest(r) => mats[requests[r].milestone] = "EXECUTION_READY"

\* A mission that is to produce one artifact is complete for its guard once its plan
\* is done: it never finishes its milestones on evidence that the guard, which judges
\* the artifact a second time, ignores.  A qualified-lead canary is for a lead; a
\* structural canary is left out, since it accepts evidence of unknown source.
FinishedPlanCounts ==
    /\ MissionType = "ARTIFACT_PRODUCTION" /\ Required = 1
    /\ VerificationMode # "STRUCTURAL_CANARY"
    /\ VerificationMode = "QUALIFIED_LEAD_CANARY" => DOMAIN milestones \subseteq LeadMilestones
    /\ ActivePlan # {} /\ PendingMilestones = {}
    => EvaluateCompletion

\* An autonomous mission with no outside command and no crash ends or comes to
\* wait for an approval: retries and replans are bounded.
MissionSettles ==
    status = "ACTIVE" ~> \/ status # "ACTIVE"
                         \/ \E m \in DOMAIN mats : mats[m] = "APPROVAL_REQUIRED"

\* Every unsafe mission is taken out of execution.
QuarantineHappens == status = "ACTIVE" /\ Unsafe ~> status # "ACTIVE" \/ ~Unsafe

\* A completed mission is reopened by a pause or resume command only: no late
\* answer, retry or failed save of a worker undoes a verified completion.
CompletionIsFinal ==
    [][status = "COMPLETED" /\ status' # "COMPLETED"
           => interventions' = interventions + 1]_vars
==============================================================================
