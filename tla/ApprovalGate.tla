----------------------------- MODULE ApprovalGate -----------------------------
(***************************************************************************)
(* A mission together with the approval records of its protected work, the *)
(* two services that decide them and the gate in front of protected tools. *)
(* The mission is MissionEngine's; the decision actions replace its        *)
(* nondeterministic approve, reject and revoke, and every other step of    *)
(* the mission is taken over as it is.                                     *)
(*                                                                         *)
(* The approval repository re-reads its file under its lock and replaces   *)
(* it atomically, so each of its operations is one step.  An id is a       *)
(* position; a record's materialization is its milestone number, or 0 if   *)
(* the mission that should hold it was never saved.                        *)
(***************************************************************************)
EXTENDS MissionInvariant

CONSTANT MaxCalls       \* protected operations performed in a behaviour

ASSUME CallsAssumption == MaxCalls \in Nat

VARIABLES
    approvals,  \* the approval repository
    calls,      \* volatile: delegations whose protected tool is executing
    effects,    \* milestones whose protected operation was performed, in order
    succeeded   \* milestones of operations that returned successfully

gateVars == <<vars, approvals, calls, effects, succeeded>>

ApprovalStatus == {"PENDING", "APPROVED", "REJECTED", "CANCELLED", "CONSUMED"}

ApprovalRecord == [mat : Nat, status : ApprovalStatus]

NewApproval(m) == [mat |-> m, status |-> "PENDING"]

\* Mutant: an approved record is resolved again.
AcceptsApproved(a) == approvals[a].status \in {"PENDING", "APPROVED"}

\* ApprovalRepository.resolve_approval raises unless the record is pending.
Accepts(a) == approvals[a].status = "PENDING"

Resolved(a, s) == [approvals EXCEPT ![a].status = s]

\* The record the gate looks at: the first of the materialization.
RecordOf(m, a) ==
    /\ approvals[a].mat = m
    /\ \A b \in DOMAIN approvals : approvals[b].mat = m => a <= b

------------------------------------------------------------------------------
(* Steps of the mission that concern approvals.                            *)

\* materialize stores a record for the outreach it asks an approval for.
BootstrapAsks ==
    /\ BootstrapMission
    /\ \/ /\ ~ \E m \in DOMAIN mats : mats[m] = "NONE" /\ mats'[m] = "APPROVAL_REQUIRED"
          /\ UNCHANGED approvals
       \/ \E m \in DOMAIN mats :
             /\ mats[m] = "NONE" /\ mats'[m] = "APPROVAL_REQUIRED"
             /\ approvals' = Append(approvals, NewApproval(m))
    /\ UNCHANGED <<calls, effects, succeeded>>

WouldAsk ==
    /\ PlanWithinLimits
    /\ \E m \in PendingMilestones :
          Current(m) /\ ~MilestoneBusy(m) /\ mats[m] = "NONE" /\ Outreach(m)

\* A crash or a failed save.  The record is stored before the mission: one
\* that comes between leaves a record no mission knows.
MissionFault ==
    /\ \/ Crash /\ calls' = {}
       \/ /\ \E d \in claimedBy \cup executing \cup finishing : WorkerRaises(d)
          /\ calls \subseteq executing' /\ UNCHANGED calls
    /\ \/ UNCHANGED approvals
       \/ /\ WouldAsk /\ (finishing' # finishing \/ booting' # booting)
          /\ approvals' = Append(approvals, NewApproval(0))
    /\ UNCHANGED <<effects, succeeded>>

\* Everyone else.  A specialist waits for its tool before it reports.
MissionStep ==
    /\ \/ CanaryChainEnds \/ Dispatcher \/ Worker \/ Owner
       \/ DirectorPause \/ DirectorResume
       \/ \E r \in DOMAIN requests : DirectorDispatch(r)
       \/ \E c \in Clients, v \in BOOLEAN, s \in OutcomeSources :
             RecordSuccessEvidence(c, v, s)
    /\ calls \subseteq executing'
    /\ UNCHANGED <<approvals, calls, effects, succeeded>>

------------------------------------------------------------------------------
(* ApprovalDecisionService.execute_decision: the record first, the mission *)
(* next, with no await between; a crash may come between.                  *)

\* Mutant: the work of a mission that is not ACTIVE is released as well.
ReleaseAnyStatus(m) ==
    /\ mats[m] = "APPROVAL_REQUIRED"
    /\ mats' = [mats EXCEPT ![m] = "EXECUTION_READY"]
    /\ requests' = Append(requests, NewRequest(m, 1))
    /\ progression' = "READY"
    /\ autoContinue' = "RUNNING"
    /\ UNCHANGED <<status, achieved, plan, milestones, delegations, claims, lineage,
                   outcomes, volatile, budget>>

Release(m) == ApproveMaterialization(m)

\* The engine refuses what is not in the mission or not in the right state, or
\* its save fails; the service raises, and the record stays as it was resolved.
SavesFail == MaxFaults > 0

Applies(m, s) ==
    /\ status = "ACTIVE"
    /\ m \in DOMAIN mats
    /\ mats[m] = s

ApproveDecision(a) ==
    LET m == approvals[a].mat
    IN  /\ Accepts(a)
        /\ approvals' = Resolved(a, "APPROVED")
        /\ \/ m \in DOMAIN mats /\ Release(m) /\ UNCHANGED calls
           \/ /\ ~Applies(m, "APPROVAL_REQUIRED") \/ SavesFail
              /\ UNCHANGED <<vars, calls>>
           \/ Crash /\ calls' = {}
        /\ UNCHANGED <<effects, succeeded>>

RejectDecision(a) ==
    LET m == approvals[a].mat
    IN  /\ Accepts(a)
        /\ approvals' = Resolved(a, "REJECTED")
        /\ \/ m \in DOMAIN mats /\ RejectMaterialization(m) /\ UNCHANGED calls
           \/ /\ ~Applies(m, "APPROVAL_REQUIRED") \/ SavesFail
              /\ UNCHANGED <<vars, calls>>
           \/ Crash /\ calls' = {}
        /\ UNCHANGED <<effects, succeeded>>

\* revoke_approval looks at the record alone; work that is under way goes on.
RevokeDecision(a) ==
    LET m == approvals[a].mat
    IN  /\ approvals[a].status = "APPROVED"
        /\ approvals' = Resolved(a, "CANCELLED")
        /\ \/ m \in DOMAIN mats /\ RevokeMaterialization(m) /\ UNCHANGED calls
           \/ /\ \/ ~Applies(m, "EXECUTION_READY")
                 \/ ~ \E r \in DOMAIN requests : FirstRequest(m, r) /\ Revocable(r)
                 \/ SavesFail
              /\ UNCHANGED <<vars, calls>>
           \/ Crash /\ calls' = {}
        /\ UNCHANGED <<effects, succeeded>>

OwnerVerdicts == {"APPROVED", "REJECTED"}

\* OwnerControlService.resolve_approval: the record alone.
OwnerDecision(a) ==
    /\ Accepts(a)
    /\ \E s \in OwnerVerdicts : approvals' = Resolved(a, s)
    /\ UNCHANGED <<vars, calls, effects, succeeded>>

------------------------------------------------------------------------------
(* ToolExecutor.execute_tool for a protected tool.                         *)

\* Mutant: whatever was decided and not rejected is authorized.
AuthorizesDecided(s) == s \notin {"PENDING", "REJECTED"}

\* AuthorizationGate.evaluate_execution, the approval's status.
Authorizes(s) == s = "APPROVED"

\* The gate authorizes the call and the executor makes it; a call counts as
\* performed from here on, since a timeout does not tell.
ToolStarts(d) ==
    LET m == MilestoneOf(d)
    IN  /\ d \in executing \ calls
        /\ Len(effects) < MaxCalls
        /\ \E a \in DOMAIN approvals : RecordOf(m, a) /\ Authorizes(approvals[a].status)
        /\ calls' = calls \cup {d}
        /\ effects' = Append(effects, m)
        /\ UNCHANGED <<vars, approvals, succeeded>>

\* AuthorizationGate.consume_approval: an approved record is resolved to
\* CONSUMED, if the repository accepts that.
Consumed(m) ==
    IF \E a \in DOMAIN approvals :
          RecordOf(m, a) /\ approvals[a].status = "APPROVED" /\ Accepts(a)
    THEN Resolved(CHOOSE a \in DOMAIN approvals : RecordOf(m, a), "CONSUMED")
    ELSE approvals

ToolSucceeds(d) ==
    /\ d \in calls
    /\ approvals' = Consumed(MilestoneOf(d))
    /\ succeeded' = succeeded \cup {MilestoneOf(d)}
    /\ calls' = calls \ {d}
    /\ UNCHANGED <<vars, effects>>

\* The tool fails or times out, perhaps after its effect; its executor, its
\* specialist or the mission may try again.
ToolFails(d) ==
    /\ d \in calls
    /\ calls' = calls \ {d}
    /\ UNCHANGED <<vars, approvals, effects, succeeded>>

------------------------------------------------------------------------------
GateInit ==
    /\ Init
    /\ approvals = <<>> /\ calls = {} /\ effects = <<>> /\ succeeded = {}

GateNext ==
    \/ BootstrapAsks \/ MissionFault \/ MissionStep
    \/ \E a \in DOMAIN approvals :
          \/ ApproveDecision(a) \/ RejectDecision(a) \/ RevokeDecision(a)
          \/ OwnerDecision(a)
    \/ \E d \in executing : ToolStarts(d) \/ ToolSucceeds(d) \/ ToolFails(d)

GateSpec == GateInit /\ [][GateNext]_gateVars

------------------------------------------------------------------------------
(* Properties                                                              *)

Works == 1 .. (PlanSize + MAX_PLAN_LOOPS)

\* Records and calls have their types, a call belongs to a specialist that is
\* running, and every replan added one milestone.
GateTypeOK ==
    /\ Len(mats) = PlanSize + plan.replans
    /\ approvals \in Seq(ApprovalRecord)
    /\ calls \subseteq executing
    /\ effects \in Seq(Works)
    /\ succeeded \subseteq Works

\* What a record and its materialization may say together.
Agreement ==
    [PENDING   |-> {"APPROVAL_REQUIRED"},
     APPROVED  |-> {"APPROVAL_REQUIRED", "EXECUTION_READY"},
     REJECTED  |-> {"APPROVAL_REQUIRED", "REJECTED"},
     CANCELLED |-> {"APPROVAL_REQUIRED", "EXECUTION_READY", "REVOKED"},
     CONSUMED  |-> {"EXECUTION_READY"}]

\* The approval file and the mission file never contradict each other, whoever
\* decides and whatever crash comes between the two: a mission releases only
\* what was approved, a rejected record has no released work, and a record
\* speaks for one materialization, one that is outreach.
DecisionsAgree ==
    /\ \A a \in DOMAIN approvals :
          LET m == approvals[a].mat
          IN  m # 0 => /\ m \in DOMAIN mats /\ Outreach(m)
                       /\ mats[m] \in Agreement[approvals[a].status]
                       /\ \A b \in DOMAIN approvals : approvals[b].mat = m => a = b
    /\ \A m \in DOMAIN mats :
          Outreach(m) /\ mats[m] # "NONE" =>
              \E a \in DOMAIN approvals : approvals[a].mat = m

WorkWith(s) ==
    {approvals[a].mat : a \in {b \in DOMAIN approvals :
                                  approvals[b].mat # 0 /\ approvals[b].status = s}}

Promise == INSTANCE ApprovalPromise WITH
    asked <- WorkWith("PENDING"), granted <- WorkWith("APPROVED"),
    refused <- WorkWith("REJECTED"), withdrawn <- WorkWith("CANCELLED"),
    performed <- effects

\* Each piece of protected work is decided once, and its operation is performed
\* only while it is granted, also across revocations, retries and crashes.
KeepsPromise == Promise!PromiseSpec

\* With its approvals the mission is still the mission of MissionEngine.
RefinesMission == Spec
==============================================================================
