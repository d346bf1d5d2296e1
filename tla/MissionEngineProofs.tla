------------------------- MODULE MissionEngineProofs -------------------------
(***************************************************************************)
(* The type invariant, the inductive invariant and the safety theorems of  *)
(* MissionEngine: first what each step does to the stored lists, entry by  *)
(* entry, then what it keeps.  And, of the mission with its approvals in   *)
(* ApprovalGate: it implements MissionEngine, its two files never          *)
(* contradict each other, and it keeps ApprovalPromise.                    *)
(***************************************************************************)
EXTENDS ApprovalGate, TLAPS, SequenceTheorems, FiniteSetTheorems

------------------------------------------------------------------------------
(* What an update of a stored list does, entry by entry.                   *)

Same(t, list) == DOMAIN t = DOMAIN list /\ Len(t) = Len(list)

SetAt(t, list, i, e) ==
    Same(t, list) /\ \A j \in DOMAIN list : t[j] = IF j = i THEN e ELSE list[j]

Appended(t, list, e) ==
    /\ Len(t) = Len(list) + 1
    /\ DOMAIN t = DOMAIN list \cup {Len(t)}
    /\ Len(t) \notin DOMAIN list
    /\ t[Len(t)] = e
    /\ \A j \in DOMAIN list : t[j] = list[j] /\ j \in Nat /\ j < Len(t)

RequestSetTo(t, list, r, s) ==
    /\ Same(t, list)
    /\ \A q \in DOMAIN list :
          /\ t[q].milestone = list[q].milestone
          /\ t[q].attempt = list[q].attempt
          /\ t[q].status = IF q = r THEN s ELSE list[q].status

DelegationSetTo(t, list, d, s) ==
    /\ Same(t, list)
    /\ \A c \in DOMAIN list :
          /\ t[c].request = list[c].request
          /\ t[c].claim = list[c].claim
          /\ t[c].status = IF c = d THEN s ELSE list[c].status

DelegationClaimed(t, list, d, k) ==
    /\ Same(t, list)
    /\ \A c \in DOMAIN list :
          /\ t[c].request = list[c].request
          /\ t[c].claim = IF c = d THEN k ELSE list[c].claim
          /\ t[c].status = IF c = d THEN "Claimed" ELSE list[c].status

ClaimSetTo(t, list, k, s) ==
    /\ Same(t, list)
    /\ \A j \in DOMAIN list :
          /\ t[j].delegation = list[j].delegation
          /\ t[j].status = IF j = k THEN s ELSE list[j].status

MilestoneSetTo(t, list, m, s) ==
    /\ Same(t, list)
    /\ \A n \in DOMAIN list :
          /\ t[n].plan = list[n].plan
          /\ t[n].status = IF n = m THEN s ELSE list[n].status

LEMMA SeqUpdate ==
  ASSUME NEW S, NEW list \in Seq(S), NEW i \in DOMAIN list, NEW e \in S,
         NEW t, t = [list EXCEPT ![i] = e]
  PROVE  t \in Seq(S) /\ SetAt(t, list, i, e)
  BY ExceptSeq DEF SetAt, Same

LEMMA SeqAppend ==
  ASSUME NEW S, NEW list \in Seq(S), NEW e \in S, NEW t, t = Append(list, e)
  PROVE  t \in Seq(S) /\ Appended(t, list, e)
  BY AppendProperties DEF Appended

LEMMA RequestSet ==
  ASSUME NEW list \in Seq(Request), NEW r \in DOMAIN list, NEW s \in RequestStates,
         NEW t, t = [list EXCEPT ![r].status = s]
  PROVE  t \in Seq(Request) /\ RequestSetTo(t, list, r, s)
<1> DEFINE e == [list[r] EXCEPT !.status = s]
<1>1. list[r] \in Request
  OBVIOUS
<1>2. /\ e \in Request
      /\ e.milestone = list[r].milestone
      /\ e.attempt = list[r].attempt
      /\ e.status = s
  BY <1>1 DEF Request
<1>3. t = [list EXCEPT ![r] = e]
  OBVIOUS
<1> HIDE DEF e
<1>4. t \in Seq(Request) /\ SetAt(t, list, r, e)
  BY <1>2, <1>3, SeqUpdate
<1>5. QED
  BY <1>2, <1>4 DEF SetAt, RequestSetTo

LEMMA DelegationSet ==
  ASSUME NEW list \in Seq(Delegation), NEW d \in DOMAIN list,
         NEW s \in DelegationStates, NEW t, t = [list EXCEPT ![d].status = s]
  PROVE  t \in Seq(Delegation) /\ DelegationSetTo(t, list, d, s)
<1> DEFINE e == [list[d] EXCEPT !.status = s]
<1>1. list[d] \in Delegation
  OBVIOUS
<1>2. /\ e \in Delegation
      /\ e.request = list[d].request
      /\ e.claim = list[d].claim
      /\ e.status = s
  BY <1>1 DEF Delegation
<1>3. t = [list EXCEPT ![d] = e]
  OBVIOUS
<1> HIDE DEF e
<1>4. t \in Seq(Delegation) /\ SetAt(t, list, d, e)
  BY <1>2, <1>3, SeqUpdate
<1>5. QED
  BY <1>2, <1>4 DEF SetAt, DelegationSetTo

LEMMA DelegationClaim ==
  ASSUME NEW list \in Seq(Delegation), NEW d \in DOMAIN list, NEW k \in Nat,
         NEW t, t = [list EXCEPT ![d] = [@ EXCEPT !.status = "Claimed", !.claim = k]]
  PROVE  t \in Seq(Delegation) /\ DelegationClaimed(t, list, d, k)
<1> DEFINE e == [list[d] EXCEPT !.status = "Claimed", !.claim = k]
<1>1. list[d] \in Delegation
  OBVIOUS
<1>2. /\ e \in Delegation
      /\ e.request = list[d].request
      /\ e.claim = k
      /\ e.status = "Claimed"
  BY <1>1 DEF Delegation, DelegationStates, ACTIVE_DELEGATION_STATES
<1>3. t = [list EXCEPT ![d] = e]
  OBVIOUS
<1> HIDE DEF e
<1>4. t \in Seq(Delegation) /\ SetAt(t, list, d, e)
  BY <1>2, <1>3, SeqUpdate
<1>5. QED
  BY <1>2, <1>4 DEF SetAt, DelegationClaimed

LEMMA MilestoneSet ==
  ASSUME NEW list \in Seq(Milestone), NEW m \in DOMAIN list,
         NEW s \in {"Pending", "READY", "Completed"},
         NEW t, t = [list EXCEPT ![m].status = s]
  PROVE  t \in Seq(Milestone) /\ MilestoneSetTo(t, list, m, s)
<1> DEFINE e == [list[m] EXCEPT !.status = s]
<1>1. list[m] \in Milestone
  OBVIOUS
<1>2. /\ e \in Milestone
      /\ e.plan = list[m].plan
      /\ e.status = s
  BY <1>1 DEF Milestone
<1>3. t = [list EXCEPT ![m] = e]
  OBVIOUS
<1> HIDE DEF e
<1>4. t \in Seq(Milestone) /\ SetAt(t, list, m, e)
  BY <1>2, <1>3, SeqUpdate
<1>5. QED
  BY <1>2, <1>4 DEF SetAt, MilestoneSetTo

LEMMA ClaimSet ==
  ASSUME claims \in Seq(Claim), NEW k, NEW s \in ClaimStates, NEW t, t = SetClaim(k, s)
  PROVE  t \in Seq(Claim) /\ ClaimSetTo(t, claims, k, s)
<1> DEFINE e == [claims[k] EXCEPT !.status = s]
<1>1. CASE k \notin DOMAIN claims
  BY <1>1 DEF SetClaim, ClaimSetTo, Same
<1>2. CASE k \in DOMAIN claims
  <2>1. claims[k] \in Claim
    BY <1>2
  <2>2. e \in Claim /\ e.delegation = claims[k].delegation /\ e.status = s
    BY <2>1 DEF Claim
  <2>3. t = [claims EXCEPT ![k] = e]
    BY <1>2 DEF SetClaim
  <2> HIDE DEF e
  <2>4. t \in Seq(Claim) /\ SetAt(t, claims, k, e)
    BY <1>2, <2>2, <2>3, SeqUpdate
  <2>5. QED
    BY <2>2, <2>4 DEF SetAt, ClaimSetTo
<1>3. QED
  BY <1>1, <1>2

LEMMA SeqBuild ==
  ASSUME NEW S, NEW n \in Nat, NEW t, t \in [1..n -> S]
  PROVE  t \in Seq(S) /\ Len(t) = n /\ DOMAIN t = 1..n
  BY SeqDef

------------------------------------------------------------------------------
(* The type invariant.                                                     *)

LEMMA Lists ==
  ASSUME TypeOK
  PROVE  /\ requests \in Seq(Request)
         /\ delegations \in Seq(Delegation)
         /\ claims \in Seq(Claim)
         /\ milestones \in Seq(Milestone)
         /\ mats \in Seq(MatStates)
  BY DEF TypeOK, WorkOK, PlanOK

LEMMA InitType == Init => TypeOK /\ Referenced
<1> SUFFICES ASSUME Init PROVE TypeOK /\ Referenced
  OBVIOUS
<1>1. PlanSize \in Nat
  BY MissionAssumption
<1>2. milestones \in [1..PlanSize -> Milestone] /\ mats \in [1..PlanSize -> MatStates]
  BY DEF Init, MatStates, Milestone
<1>3. /\ milestones \in Seq(Milestone) /\ mats \in Seq(MatStates)
      /\ Len(mats) = Len(milestones)
  BY <1>1, <1>2, SeqBuild
<1>4. PlanOK
  BY <1>3 DEF Init, PlanOK
<1>5. WorkOK
  BY DEF Init, WorkOK
<1>6. EvidenceOK
  BY FS_EmptySet DEF Init, EvidenceOK, Outcome, EvidenceSource
<1>7. BudgetOK
  BY MissionAssumption DEF Init, BudgetOK
<1>8. LifecycleOK /\ CallersOK
  BY DEF Init, LifecycleOK, CallersOK, MissionStates, ProgressionStates
<1>9. Referenced
  <2>1. requests = <<>> /\ delegations = <<>> /\ claims = <<>>
    BY DEF Init
  <2>2. QED
    BY <1>3, <2>1 DEF Referenced
<1>10. QED
  BY <1>4, <1>5, <1>6, <1>7, <1>8, <1>9 DEF TypeOK

------------------------------------------------------------------------------
(* The effect of each step that changes a list.                            *)

LEMMA MaterializeEffect ==
  ASSUME TypeOK, Referenced, BootstrapMaterialize
  PROVE  \E m \in PendingMilestones :
            /\ m \in DOMAIN milestones /\ m \in DOMAIN mats
            /\ Current(m) /\ ~MilestoneBusy(m) /\ mats[m] = "NONE"
            /\ milestones' \in Seq(Milestone)
            /\ MilestoneSetTo(milestones', milestones, m, "READY")
            /\ mats' \in Seq(MatStates)
            /\ requests' \in Seq(Request)
            /\ \/ /\ Outreach(m)
                  /\ SetAt(mats', mats, m, "APPROVAL_REQUIRED")
                  /\ UNCHANGED requests
               \/ /\ ~Outreach(m)
                  /\ SetAt(mats', mats, m, "EXECUTION_READY")
                  /\ Appended(requests', requests, NewRequest(m, 1))
<1>1. PICK m \in PendingMilestones :
         /\ Current(m) /\ ~MilestoneBusy(m) /\ mats[m] = "NONE"
         /\ milestones' = [milestones EXCEPT ![m].status = "READY"]
         /\ \/ /\ Outreach(m)
               /\ mats' = [mats EXCEPT ![m] = "APPROVAL_REQUIRED"]
               /\ UNCHANGED requests
            \/ /\ ~Outreach(m)
               /\ mats' = [mats EXCEPT ![m] = "EXECUTION_READY"]
               /\ requests' = Append(requests, NewRequest(m, 1))
  BY DEF BootstrapMaterialize
<1>2. m \in DOMAIN milestones
  BY DEF PendingMilestones, ActivePlan
<1>3. m \in Nat /\ m \in DOMAIN mats
  BY <1>2, Lists DEF Referenced
<1>4. milestones' \in Seq(Milestone) /\ MilestoneSetTo(milestones', milestones, m, "READY")
  BY <1>1, <1>2, Lists, MilestoneSet
<1>5. NewRequest(m, 1) \in Request
  BY <1>3 DEF NewRequest, Request, RequestStates, ACTIVE_REQUEST_STATES
<1>6. "APPROVAL_REQUIRED" \in MatStates /\ "EXECUTION_READY" \in MatStates
  BY DEF MatStates
<1>7. CASE Outreach(m)
  <2>1. mats' \in Seq(MatStates) /\ SetAt(mats', mats, m, "APPROVAL_REQUIRED")
    BY <1>1, <1>3, <1>6, <1>7, Lists, SeqUpdate
  <2>2. QED
    BY <1>1, <1>2, <1>3, <1>4, <1>7, <2>1, Lists
<1>8. CASE ~Outreach(m)
  <2>1. mats' \in Seq(MatStates) /\ SetAt(mats', mats, m, "EXECUTION_READY")
    BY <1>1, <1>3, <1>6, <1>8, Lists, SeqUpdate
  <2>2. requests' \in Seq(Request) /\ Appended(requests', requests, NewRequest(m, 1))
    BY <1>1, <1>5, <1>8, Lists, SeqAppend
  <2>3. QED
    BY <1>1, <1>2, <1>3, <1>4, <1>8, <2>1, <2>2
<1>9. QED
  BY <1>7, <1>8

LEMMA ReplanEffect ==
  ASSUME TypeOK, Referenced, BootstrapReplan
  PROVE  /\ milestones' \in Seq(Milestone)
         /\ Appended(milestones', milestones, [plan |-> plan.version + 1, status |-> "Pending"])
         /\ mats' \in Seq(MatStates)
         /\ Appended(mats', mats, "NONE")
         /\ UNCHANGED requests
<1>1. [plan |-> plan.version + 1, status |-> "Pending"] \in Milestone
  BY DEF TypeOK, PlanOK, Milestone
<1>2. "NONE" \in MatStates
  BY DEF MatStates
<1>3. /\ milestones' = Append(milestones, [plan |-> plan.version + 1, status |-> "Pending"])
      /\ mats' = Append(mats, "NONE")
      /\ UNCHANGED requests
  BY DEF BootstrapReplan
<1>4. QED
  BY <1>1, <1>2, <1>3, Lists, SeqAppend

LEMMA QuarantineEffect ==
  ASSUME TypeOK, QuarantineUnsafeMission
  PROVE  /\ requests' \in Seq(Request) /\ Same(requests', requests)
         /\ \A r \in DOMAIN requests :
               /\ requests'[r].milestone = requests[r].milestone
               /\ requests'[r].attempt = requests[r].attempt
         /\ delegations' \in Seq(Delegation) /\ Same(delegations', delegations)
         /\ \A d \in DOMAIN delegations :
               delegations'[d].request = delegations[d].request
         /\ claims' \in Seq(Claim) /\ Same(claims', claims)
         /\ \A k \in DOMAIN claims : claims'[k].delegation = claims[k].delegation
<1>1. /\ Len(requests) \in Nat /\ DOMAIN requests = 1..Len(requests)
      /\ Len(delegations) \in Nat /\ DOMAIN delegations = 1..Len(delegations)
      /\ Len(claims) \in Nat /\ DOMAIN claims = 1..Len(claims)
  BY Lists
<1>2. /\ requests' \in [1..Len(requests) -> Request]
      /\ \A r \in DOMAIN requests :
               /\ requests'[r].milestone = requests[r].milestone
               /\ requests'[r].attempt = requests[r].attempt
  <2>1. \A r \in DOMAIN requests : requests[r] \in Request
    BY Lists
  <2>2. QED
    BY <1>1, <2>1 DEF QuarantineUnsafeMission, Request, RequestStates
<1>3. /\ delegations' \in [1..Len(delegations) -> Delegation]
      /\ \A d \in DOMAIN delegations : delegations'[d].request = delegations[d].request
  <2>1. \A d \in DOMAIN delegations : delegations[d] \in Delegation
    BY Lists
  <2>2. QED
    BY <1>1, <2>1 DEF QuarantineUnsafeMission, Delegation, DelegationStates
<1>4. /\ claims' \in [1..Len(claims) -> Claim]
      /\ \A k \in DOMAIN claims : claims'[k].delegation = claims[k].delegation
  <2>1. \A k \in DOMAIN claims : claims[k] \in Claim
    BY Lists
  <2>2. QED
    BY <1>1, <2>1 DEF QuarantineUnsafeMission, Claim, ClaimStates
<1>5. QED
  BY <1>1, <1>2, <1>3, <1>4, SeqBuild DEF Same

LEMMA RequestEffect ==
  ASSUME TypeOK, NEW r \in DOMAIN requests, NEW s \in RequestStates,
         NEW t, t = SetRequest(r, s)
  PROVE  t \in Seq(Request) /\ RequestSetTo(t, requests, r, s)
  BY RequestSet, Lists DEF SetRequest

LEMMA CreateDelegationEffect ==
  ASSUME TypeOK, NEW r \in DOMAIN requests, CreateDelegation(r)
  PROVE  /\ delegations' \in Seq(Delegation)
         /\ Appended(delegations', delegations,
                     [request |-> r, status |-> "Pending", claim |-> 0])
         /\ requests' \in Seq(Request)
         /\ RequestSetTo(requests', requests, r, "DISPATCHED")
<1>1. r \in Nat
  BY Lists
<1>2. [request |-> r, status |-> "Pending", claim |-> 0] \in Delegation
  BY <1>1 DEF Delegation, DelegationStates, ACTIVE_DELEGATION_STATES
<1>3. "DISPATCHED" \in RequestStates
  BY DEF RequestStates, ACTIVE_REQUEST_STATES
<1>4. delegations' = Append(delegations, [request |-> r, status |-> "Pending", claim |-> 0])
  BY DEF CreateDelegation
<1>5. requests' = SetRequest(r, "DISPATCHED")
  BY DEF CreateDelegation
<1>6. delegations' \in Seq(Delegation) /\ Appended(delegations', delegations,
                     [request |-> r, status |-> "Pending", claim |-> 0])
  BY <1>2, <1>4, Lists, SeqAppend
<1>7. requests' \in Seq(Request) /\ RequestSetTo(requests', requests, r, "DISPATCHED")
  BY <1>3, <1>5, RequestEffect
<1>8. QED
  BY <1>6, <1>7

LEMMA ClaimPendingEffect ==
  ASSUME TypeOK, Referenced, ClaimPendingDelegation
  PROVE  \E d \in DOMAIN delegations :
            /\ delegations[d].status = "Pending"
            /\ \A k \in DOMAIN claims :
                  ~(claims[k].delegation = d /\ claims[k].status = "ACTIVE")
            /\ delegations' \in Seq(Delegation)
            /\ DelegationClaimed(delegations', delegations, d, Len(claims'))
            /\ claims' \in Seq(Claim)
            /\ Appended(claims', claims, [delegation |-> d, status |-> "ACTIVE"])
            /\ requests' \in Seq(Request)
            /\ RequestSetTo(requests', requests, delegations[d].request, "RUNNING")
            /\ claimedBy' = claimedBy \cup {d}
<1>1. PICK d \in DOMAIN delegations :
         /\ delegations[d].status = "Pending"
         /\ \A k \in DOMAIN claims :
               ~(claims[k].delegation = d /\ claims[k].status = "ACTIVE")
         /\ delegations' = [delegations EXCEPT
                               ![d] = [@ EXCEPT !.status = "Claimed",
                                                !.claim = Len(claims) + 1]]
         /\ claims' = Append(claims, [delegation |-> d, status |-> "ACTIVE"])
         /\ requests' = SetRequest(delegations[d].request, "RUNNING")
         /\ claimedBy' = claimedBy \cup {d}
  BY DEF ClaimPendingDelegation
<1>2. d \in Nat /\ Len(claims) + 1 \in Nat
  BY Lists
<1>3. [delegation |-> d, status |-> "ACTIVE"] \in Claim
  BY <1>2 DEF Claim, ClaimStates
<1>4. claims' \in Seq(Claim) /\ Appended(claims', claims, [delegation |-> d, status |-> "ACTIVE"])
  BY <1>1, <1>3, Lists, SeqAppend
<1>5. delegations' \in Seq(Delegation)
      /\ DelegationClaimed(delegations', delegations, d, Len(claims) + 1)
  BY <1>1, <1>2, Lists, DelegationClaim
<1>6. "RUNNING" \in RequestStates
  BY DEF RequestStates, ACTIVE_REQUEST_STATES
<1>7. /\ requests' \in Seq(Request)
      /\ RequestSetTo(requests', requests, delegations[d].request, "RUNNING")
  BY <1>1, <1>6, RequestEffect DEF Referenced
<1>8. Len(claims') = Len(claims) + 1
  BY <1>4 DEF Appended
<1>9. QED
  BY <1>1, <1>4, <1>5, <1>7, <1>8

LEMMA MarkRunningEffect ==
  ASSUME TypeOK, NEW d \in DOMAIN delegations, MarkDelegationRunning(d)
  PROVE  \/ /\ delegations[d].status \in {"Claimed", "Running"}
            /\ delegations' \in Seq(Delegation)
            /\ DelegationSetTo(delegations', delegations, d, "Running")
            /\ executing' = executing \cup {d}
         \/ UNCHANGED <<delegations, executing>>
<1>1. "Running" \in DelegationStates
  BY DEF DelegationStates, ACTIVE_DELEGATION_STATES
<1>2. CASE delegations[d].status \in {"Claimed", "Running"}
  <2>1. /\ delegations' = [delegations EXCEPT ![d].status = "Running"]
        /\ executing' = executing \cup {d}
    BY <1>2 DEF MarkDelegationRunning, Startable
  <2>2. /\ delegations' \in Seq(Delegation)
        /\ DelegationSetTo(delegations', delegations, d, "Running")
    BY <1>1, <2>1, Lists, DelegationSet
  <2>3. QED
    BY <1>2, <2>1, <2>2
<1>3. CASE delegations[d].status \notin {"Claimed", "Running"}
  BY <1>3 DEF MarkDelegationRunning, Startable
<1>4. QED
  BY <1>2, <1>3

LEMMA CompleteEffect ==
  ASSUME TypeOK, Referenced, NEW d \in DOMAIN delegations, NEW a \in Artifacts,
         NEW ev \in Evidence, CompleteDelegation(d, a, ev)
  PROVE  /\ ActiveDelegation(d) /\ LineageValid(d)
         /\ requests' \in Seq(Request)
         /\ RequestSetTo(requests', requests, delegations[d].request, "COMPLETED")
         /\ delegations' \in Seq(Delegation)
         /\ DelegationSetTo(delegations', delegations, d, "Completed")
         /\ claims' \in Seq(Claim)
         /\ ClaimSetTo(claims', claims, delegations[d].claim, "COMPLETED")
         /\ milestones' \in Seq(Milestone)
         /\ MilestoneSetTo(milestones', milestones, MilestoneOf(d), "Completed")
         /\ \/ UNCHANGED lineage
            \/ lineage' = lineage \cup {[artifact |-> a, delegation |-> d,
                                         lead |-> MilestoneOf(d) \in LeadMilestones,
                                         evidence |-> ev]}
         /\ executing' = executing \ {d}
         /\ finishing' = finishing \cup {d}
<1>1. /\ requests' = SetRequest(delegations[d].request, "COMPLETED")
      /\ claims' = SetClaim(delegations[d].claim, "COMPLETED")
      /\ delegations' = [delegations EXCEPT ![d].status = "Completed"]
      /\ milestones' = [milestones EXCEPT ![MilestoneOf(d)].status = "Completed"]
      /\ ActiveDelegation(d) /\ LineageValid(d)
      /\ executing' = executing \ {d}
      /\ finishing' = finishing \cup {d}
  BY DEF CompleteDelegation
<1>2. /\ "COMPLETED" \in RequestStates /\ "COMPLETED" \in ClaimStates
      /\ "Completed" \in DelegationStates
  BY DEF RequestStates, ClaimStates, DelegationStates
<1>3. requests' \in Seq(Request)
      /\ RequestSetTo(requests', requests, delegations[d].request, "COMPLETED")
  BY <1>1, <1>2, RequestEffect DEF Referenced
<1>4. claims' \in Seq(Claim) /\ ClaimSetTo(claims', claims, delegations[d].claim, "COMPLETED")
  BY <1>1, <1>2, Lists, ClaimSet
<1>5. delegations' \in Seq(Delegation)
      /\ DelegationSetTo(delegations', delegations, d, "Completed")
  BY <1>1, <1>2, Lists, DelegationSet
<1>6. MilestoneOf(d) \in DOMAIN milestones
  <2>1. MilestoneOf(d) \in DOMAIN mats
    BY DEF MilestoneOf, Referenced
  <2>2. QED
    BY <2>1, Lists DEF Referenced
<1>7. milestones' \in Seq(Milestone)
      /\ MilestoneSetTo(milestones', milestones, MilestoneOf(d), "Completed")
  BY <1>1, <1>6, Lists, MilestoneSet
<1>8. \/ UNCHANGED lineage
      \/ lineage' = lineage \cup {[artifact |-> a, delegation |-> d,
                                   lead |-> MilestoneOf(d) \in LeadMilestones,
                                   evidence |-> ev]}
  BY DEF CompleteDelegation
<1>9. QED
  BY <1>1, <1>3, <1>4, <1>5, <1>7, <1>8

LEMMA FailureEffect ==
  ASSUME TypeOK, Referenced, NEW d \in DOMAIN delegations, NEW transient \in BOOLEAN,
         ExecutionFailure(d, transient)
  PROVE  \/ ~ActiveDelegation(d) /\ Escalate /\ UNCHANGED work
         \/ /\ ActiveDelegation(d)
            /\ delegations' \in Seq(Delegation)
            /\ DelegationSetTo(delegations', delegations, d, "FAILED")
            /\ claims' \in Seq(Claim)
            /\ ClaimSetTo(claims', claims, delegations[d].claim, "FAILED")
            /\ requests' \in Seq(Request)
            /\ \/ /\ RequestSetTo(requests', requests, delegations[d].request, "FAILED")
                  /\ Escalate
               \/ /\ progression' = "READY" /\ autoContinue' = "RUNNING"
                  /\ UNCHANGED <<status, achieved>>
                  /\ \E failed \in Seq(Request) :
                        /\ RequestSetTo(failed, requests, delegations[d].request, "FAILED")
                        /\ Appended(requests', failed,
                             NewRequest(requests[delegations[d].request].milestone,
                                        requests[delegations[d].request].attempt + 1))
<1> DEFINE r == delegations[d].request
           next == NewRequest(requests[r].milestone, requests[r].attempt + 1)
<1>1. CASE ~ActiveDelegation(d)
  BY <1>1 DEF ExecutionFailure
<1>2. CASE ActiveDelegation(d)
  <2>1. /\ delegations' = [delegations EXCEPT ![d].status = "FAILED"]
        /\ claims' = SetClaim(delegations[d].claim, "FAILED")
    BY <1>2 DEF ExecutionFailure
  <2>2. /\ "FAILED" \in RequestStates /\ "FAILED" \in ClaimStates
        /\ "FAILED" \in DelegationStates
    BY DEF RequestStates, ClaimStates, DelegationStates
  <2>3. delegations' \in Seq(Delegation)
        /\ DelegationSetTo(delegations', delegations, d, "FAILED")
    BY <2>1, <2>2, Lists, DelegationSet
  <2>4. claims' \in Seq(Claim) /\ ClaimSetTo(claims', claims, delegations[d].claim, "FAILED")
    BY <2>1, <2>2, Lists, ClaimSet
  <2>5. r \in DOMAIN requests
    BY DEF Referenced
  <2>6. SetRequest(r, "FAILED") \in Seq(Request)
        /\ RequestSetTo(SetRequest(r, "FAILED"), requests, r, "FAILED")
    BY <2>2, <2>5, RequestEffect
  <2>7. CASE ~Retryable(d, transient)
    <3>1. requests' = SetRequest(r, "FAILED") /\ Escalate
      BY <1>2, <2>7 DEF ExecutionFailure
    <3>2. QED
      BY <1>2, <2>3, <2>4, <2>6, <3>1
  <2>8. CASE Retryable(d, transient)
    <3>1. requests' = Append(SetRequest(r, "FAILED"), next)
      BY <1>2, <2>8 DEF ExecutionFailure
    <3>2. requests[r] \in Request
      BY <2>5, Lists
    <3>3. next \in Request
      BY <3>2 DEF NewRequest, Request, RequestStates, ACTIVE_REQUEST_STATES
    <3> HIDE DEF next, r
    <3>4. requests' \in Seq(Request) /\ Appended(requests', SetRequest(r, "FAILED"), next)
      BY <2>6, <3>1, <3>3, SeqAppend
    <3>5. progression' = "READY" /\ autoContinue' = "RUNNING" /\ UNCHANGED <<status, achieved>>
      BY <1>2, <2>8 DEF ExecutionFailure
    <3>6. QED
      BY <1>2, <2>3, <2>4, <2>6, <3>4, <3>5 DEF next, r
  <2>9. QED
    BY <2>7, <2>8
<1>3. QED
  BY <1>1, <1>2

LEMMA MatEffect ==
  ASSUME TypeOK, NEW m \in DOMAIN mats, NEW s \in MatStates,
         mats' = [mats EXCEPT ![m] = s]
  PROVE  mats' \in Seq(MatStates) /\ SetAt(mats', mats, m, s)
  BY Lists, SeqUpdate

LEMMA ApproveEffect ==
  ASSUME TypeOK, Referenced, NEW m \in DOMAIN mats, ApproveMaterialization(m)
  PROVE  /\ mats' \in Seq(MatStates)
         /\ SetAt(mats', mats, m, "EXECUTION_READY")
         /\ requests' \in Seq(Request)
         /\ \/ UNCHANGED requests
            \/ /\ \A r \in DOMAIN requests : requests[r].milestone # m
               /\ Appended(requests', requests, NewRequest(m, 1))
<1>1. "EXECUTION_READY" \in MatStates
  BY DEF MatStates
<1>2. mats' \in Seq(MatStates) /\ SetAt(mats', mats, m, "EXECUTION_READY")
  BY <1>1, MatEffect DEF ApproveMaterialization
<1>3. m \in Nat
  BY Lists
<1>4. NewRequest(m, 1) \in Request
  BY <1>3 DEF NewRequest, Request, RequestStates, ACTIVE_REQUEST_STATES
<1>5. CASE \E r \in DOMAIN requests : requests[r].milestone = m
  <2>1. UNCHANGED requests
    BY <1>5 DEF ApproveMaterialization
  <2>2. QED
    BY <1>2, <2>1, Lists
<1>6. CASE \A r \in DOMAIN requests : requests[r].milestone # m
  <2>1. requests' = Append(requests, NewRequest(m, 1))
    BY <1>6 DEF ApproveMaterialization
  <2>2. requests' \in Seq(Request) /\ Appended(requests', requests, NewRequest(m, 1))
    BY <1>4, <2>1, Lists, SeqAppend
  <2>3. QED
    BY <1>2, <1>6, <2>2
<1>7. QED
  BY <1>5, <1>6

LEMMA RevokeEffect ==
  ASSUME TypeOK, NEW m \in DOMAIN mats, RevokeMaterialization(m)
  PROVE  /\ mats' \in Seq(MatStates)
         /\ SetAt(mats', mats, m, "REVOKED")
         /\ requests' \in Seq(Request)
         /\ \E r \in DOMAIN requests : RequestSetTo(requests', requests, r, "BLOCKED")
<1>1. "REVOKED" \in MatStates /\ "BLOCKED" \in RequestStates
  BY DEF MatStates, RequestStates
<1>2. mats' \in Seq(MatStates) /\ SetAt(mats', mats, m, "REVOKED")
  BY <1>1, MatEffect DEF RevokeMaterialization
<1>3. PICK r \in DOMAIN requests : requests' = SetRequest(r, "BLOCKED")
  BY DEF RevokeMaterialization
<1>4. requests' \in Seq(Request) /\ RequestSetTo(requests', requests, r, "BLOCKED")
  BY <1>1, <1>3, RequestEffect
<1>5. QED
  BY <1>2, <1>4

------------------------------------------------------------------------------
(* Each step preserves the types and the references.                       *)

Typed == TypeOK /\ Referenced

LEMMA Counted == ASSUME TypeOK PROVE VerifiedCount \in Nat /\ ZeroProgressCount \in Nat
<1>1. VerifiedArtifacts \subseteq lineage /\ IsFiniteSet(lineage)
  BY DEF VerifiedArtifacts, TypeOK, EvidenceOK
<1>2. WonClients \subseteq Clients /\ IsFiniteSet(Clients)
  BY MissionAssumption DEF WonClients
<1>3. Cardinality(VerifiedArtifacts) \in Nat /\ Cardinality(WonClients) \in Nat
  BY <1>1, <1>2, FS_Subset, FS_CardinalityType
<1>4. VerifiedCount \in Nat
  BY <1>3 DEF VerifiedCount
<1>5. QED
  BY <1>4 DEF ZeroProgressCount, TypeOK, PlanOK

LEMMA BlockType == ASSUME LifecycleOK, Block
                   PROVE  /\ progression' \in ProgressionStates
                          /\ autoContinue' \in {"RUNNING", "STOPPED", "WAITING_APPROVAL"}
  BY DEF LifecycleOK, Block, ProgressionStates

LEMMA EscalateType == ASSUME LifecycleOK, Escalate PROVE LifecycleOK'
  BY DEF LifecycleOK, Escalate, ProgressionStates, MissionStates, TERMINAL_MISSION_STATES

LEMMA LifecycleStep == ASSUME LifecycleOK, [Next]_vars PROVE LifecycleOK'
<1> USE DEF LifecycleOK, MissionStates, ProgressionStates, TERMINAL_MISSION_STATES,
            lifecycle, volatile, budget
<1>1. CASE UNCHANGED vars
  BY <1>1 DEF vars
<1>2. CASE BootstrapMission
  BY <1>2 DEF BootstrapMission, BootstrapReturns, BootstrapInactive, BootstrapUnplannable,
     BootstrapComplete, BootstrapArtifactUnmet, BootstrapLimitReached, BootstrapNothingNew,
     BootstrapMaterialize, BootstrapReplan, Escalate
<1>3. CASE CanaryChainEnds
  BY <1>3, BlockType DEF CanaryChainEnds
<1>4. CASE Dispatcher
  BY <1>4, BlockType, EscalateType DEF Dispatcher, QuarantineUnsafeMission, ClaimReadyRequest,
     DispatchRequest, CreateDelegation
<1>5. ASSUME NEW d, NEW transient, ExecutionFailure(d, transient) PROVE LifecycleOK'
  BY <1>5, EscalateType DEF ExecutionFailure
<1>6. CASE Worker
  <2>1. CASE ClaimPendingDelegation
    BY <2>1 DEF ClaimPendingDelegation
  <2>2. ASSUME NEW d \in claimedBy, MarkDelegationRunning(d) PROVE LifecycleOK'
    BY <2>2 DEF MarkDelegationRunning
  <2>3. ASSUME NEW d \in executing, SpecialistSucceeds(d) PROVE LifecycleOK'
    BY <2>3 DEF SpecialistSucceeds, CompleteDelegation
  <2>4. ASSUME NEW d \in executing,
               SpecialistFails(d) \/ \E ev \in Evidence : RejectEvidence(d, ev)
        PROVE  LifecycleOK'
    BY <1>5, <2>4 DEF SpecialistFails, RejectEvidence
  <2>5. ASSUME NEW d \in executing, LateAnswer(d) PROVE LifecycleOK'
    BY <2>5 DEF LateAnswer
  <2>6. QED
    BY <1>6, <2>1, <2>2, <2>3, <2>4, <2>5 DEF Worker
<1>7. CASE Director
  BY <1>7, BlockType DEF Director, DirectorPause, DirectorResume, UpdateMissionStatus,
     DirectorDispatch, CreateDelegation, ApproveMaterialization, RejectMaterialization,
     RevokeMaterialization
<1>8. CASE Owner
  BY <1>8 DEF Owner, OwnerPause, OwnerResume, OwnerCancel, UpdateMissionStatus
<1>9. CASE Environment
  BY <1>5, <1>9 DEF Environment, RecordSuccessEvidence, WorkerRaises, Crash
<1>10. QED
  BY <1>1, <1>2, <1>3, <1>4, <1>6, <1>7, <1>8, <1>9 DEF Next

LEMMA BudgetStep == ASSUME BudgetOK, [Next]_vars PROVE BudgetOK'
<1> DEFINE Free == UNCHANGED budget
           Charged == \/ Fault /\ UNCHANGED interventions
                      \/ /\ interventions < MaxInterventions
                         /\ interventions' = interventions + 1
                         /\ UNCHANGED faults
<1> SUFFICES Free \/ Charged
  <2>1. MaxInterventions \in Nat /\ MaxFaults \in Nat
    BY MissionAssumption
  <2>2. QED
    BY <2>1 DEF BudgetOK, Fault, budget
<1> USE DEF budget
<1>1. CASE UNCHANGED vars
  BY <1>1 DEF vars
<1>2. CASE BootstrapMission \/ CanaryChainEnds
  BY <1>2 DEF BootstrapMission, CanaryChainEnds
<1>3. CASE Dispatcher
  <2>1. CASE QuarantineUnsafeMission \/ ClaimReadyRequest
    BY <2>1 DEF QuarantineUnsafeMission, ClaimReadyRequest
  <2>2. ASSUME NEW r \in dispatching, DispatchRequest(r) PROVE Free \/ Charged
    BY <2>2 DEF DispatchRequest, DelegationFails
  <2>3. QED
    BY <1>3, <2>1, <2>2 DEF Dispatcher
<1>4. CASE Worker
  <2>1. CASE ClaimPendingDelegation
    BY <2>1 DEF ClaimPendingDelegation
  <2>2. ASSUME NEW d \in claimedBy, MarkDelegationRunning(d) PROVE Free
    BY <2>2 DEF MarkDelegationRunning
  <2>3. ASSUME NEW d \in executing, SpecialistSucceeds(d) PROVE Free
    BY <2>3 DEF SpecialistSucceeds, CompleteDelegation
  <2>4. ASSUME NEW d \in executing,
               SpecialistFails(d) \/ \E ev \in Evidence : RejectEvidence(d, ev)
        PROVE  Free
    BY <2>4 DEF SpecialistFails, RejectEvidence, ExecutionFailure
  <2>5. ASSUME NEW d \in executing, LateAnswer(d) PROVE Free
    BY <2>5 DEF LateAnswer
  <2>6. QED
    BY <1>4, <2>1, <2>2, <2>3, <2>4, <2>5 DEF Worker
<1>5. CASE Director
  <2>1. CASE DirectorPause \/ DirectorResume
    BY <2>1 DEF DirectorPause, DirectorResume, UpdateMissionStatus
  <2>2. ASSUME NEW r \in DOMAIN requests, DirectorDispatch(r) PROVE Free
    BY <2>2 DEF DirectorDispatch
  <2>3. ASSUME NEW m \in DOMAIN mats, ApproveMaterialization(m) \/ RejectMaterialization(m)
                                      \/ RevokeMaterialization(m)
        PROVE  Free
    BY <2>3 DEF ApproveMaterialization, RejectMaterialization, RevokeMaterialization
  <2>4. QED
    BY <1>5, <2>1, <2>2, <2>3 DEF Director
<1>6. CASE Owner
  BY <1>6 DEF Owner, OwnerPause, OwnerResume, OwnerCancel, UpdateMissionStatus
<1>7. CASE Environment
  <2>1. ASSUME NEW c, NEW v, NEW s, RecordSuccessEvidence(c, v, s) PROVE Free
    BY <2>1 DEF RecordSuccessEvidence
  <2>2. ASSUME NEW d, WorkerRaises(d) PROVE Charged
    BY <2>2 DEF WorkerRaises, ExecutionFailure
  <2>3. CASE Crash
    BY <2>3 DEF Crash
  <2>4. QED
    BY <1>7, <2>1, <2>2, <2>3 DEF Environment
<1>8. QED
  BY <1>1, <1>2, <1>3, <1>4, <1>5, <1>6, <1>7 DEF Next

Stored == PlanOK /\ WorkOK /\ EvidenceOK /\ CallersOK /\ Referenced

\* A step that leaves the stored lists alone and lets callers go.
LEMMA FrameStored ==
  ASSUME Typed, plan' \in [version : Nat, replans : Nat, batches : Nat, strategies : Nat,
                           zeroProgress : Nat, lastVerified : Nat],
         UNCHANGED <<milestones, mats, work, lineage>>,
         outcomes' \in [Clients -> Outcome],
         claimedBy' \subseteq claimedBy, executing' \subseteq executing,
         finishing' \subseteq finishing, dispatching' \subseteq dispatching,
         booting' \subseteq {"director", "reactor"}, chain' \in BOOLEAN
  PROVE  Stored'
<1>1. PlanOK' /\ WorkOK' /\ EvidenceOK' /\ Referenced'
  BY DEF Typed, TypeOK, PlanOK, WorkOK, EvidenceOK, Referenced, work
<1>2. CallersOK'
  BY DEF Typed, TypeOK, CallersOK, work
<1>3. QED
  BY <1>1, <1>2 DEF Stored

LEMMA StoredBootstrap == ASSUME Typed, BootstrapMission PROVE Stored'
<1>0. TypeOK /\ Referenced
  BY DEF Typed
<1>1. /\ UNCHANGED <<delegations, claims, lineage, outcomes, claimedBy, executing,
                     chain, dispatching>>
      /\ booting' \subseteq booting /\ finishing' \subseteq finishing
  BY DEF BootstrapMission
<1>2. EvidenceOK'
  BY <1>0, <1>1 DEF TypeOK, EvidenceOK
<1>3. CASE BootstrapReplan
  <2>1. /\ milestones' \in Seq(Milestone) /\ mats' \in Seq(MatStates)
        /\ Len(milestones') = Len(milestones) + 1 /\ Len(mats') = Len(mats) + 1
        /\ DOMAIN mats \subseteq DOMAIN mats'
        /\ UNCHANGED requests
    BY <1>0, <1>3, ReplanEffect DEF Appended
  <2>2. plan' \in [version : Nat, replans : Nat, batches : Nat, strategies : Nat,
                   zeroProgress : Nat, lastVerified : Nat]
    BY <1>0, <1>3, Counted DEF BootstrapReplan, TypeOK, PlanOK
  <2>3. PlanOK' /\ WorkOK'
    BY <1>0, <1>1, <2>1, <2>2 DEF PlanOK, WorkOK, TypeOK
  <2>4. CallersOK'
    BY <1>0, <1>1, <2>1 DEF CallersOK, TypeOK
  <2>5. Referenced'
    BY <1>0, <1>1, <2>1 DEF Referenced
  <2>6. QED
    BY <1>2, <2>3, <2>4, <2>5 DEF Stored
<1>4. CASE BootstrapMaterialize
  <2>1. PICK m \in PendingMilestones :
            /\ m \in DOMAIN milestones /\ m \in DOMAIN mats
            /\ milestones' \in Seq(Milestone)
            /\ MilestoneSetTo(milestones', milestones, m, "READY")
            /\ mats' \in Seq(MatStates)
            /\ requests' \in Seq(Request)
            /\ \/ /\ SetAt(mats', mats, m, "APPROVAL_REQUIRED")
                  /\ UNCHANGED requests
               \/ /\ SetAt(mats', mats, m, "EXECUTION_READY")
                  /\ Appended(requests', requests, NewRequest(m, 1))
    BY <1>0, <1>4, MaterializeEffect
  <2>2. Len(milestones') = Len(milestones) /\ Same(mats', mats)
    BY <2>1 DEF MilestoneSetTo, SetAt, Same
  <2>3. PlanOK' /\ WorkOK'
    BY <1>0, <1>1, <1>4, <2>1 DEF PlanOK, WorkOK, TypeOK, BootstrapMaterialize
  <2>4. DOMAIN requests \subseteq DOMAIN requests'
    BY <2>1 DEF Appended
  <2>5. CallersOK'
    BY <1>0, <1>1, <2>4 DEF CallersOK, TypeOK
  <2>6. \A r \in DOMAIN requests' : requests'[r].milestone \in DOMAIN mats
    BY <1>0, <2>1 DEF Appended, NewRequest, Referenced
  <2>7. Referenced'
    BY <1>0, <1>1, <2>2, <2>4, <2>6 DEF Referenced, Same
  <2>8. QED
    BY <1>2, <2>3, <2>5, <2>7 DEF Stored
<1>5. CASE UNCHANGED <<milestones, mats, requests>> /\ BootstrapReturns
  <2>1. plan' \in [version : Nat, replans : Nat, batches : Nat, strategies : Nat,
                   zeroProgress : Nat, lastVerified : Nat]
    <3>1. plan' = plan \/ plan' = [plan EXCEPT !.zeroProgress = ZeroProgressCount,
                                               !.lastVerified = VerifiedCount]
      BY <1>5 DEF BootstrapReturns, BootstrapInactive, BootstrapUnplannable, BootstrapComplete,
         BootstrapArtifactUnmet, BootstrapLimitReached, BootstrapNothingNew, BootstrapMaterialize
    <3>2. QED
      BY <1>0, <3>1, Counted DEF TypeOK, PlanOK
  <2>2. booting \subseteq {"director", "reactor"} /\ chain \in BOOLEAN
        /\ outcomes \in [Clients -> Outcome]
    BY <1>0 DEF TypeOK, CallersOK, EvidenceOK
  <2>3. QED
    BY <1>1, <1>5, <2>1, <2>2, FrameStored DEF work
<1>6. QED
  <2>1. CASE BootstrapReplan
    BY <1>3, <2>1
  <2>2. CASE BootstrapReturns
    <3>1. BootstrapMaterialize \/ UNCHANGED <<milestones, mats, requests>>
      BY <2>2 DEF BootstrapReturns, BootstrapInactive, BootstrapUnplannable, BootstrapComplete,
         BootstrapArtifactUnmet, BootstrapLimitReached, BootstrapNothingNew
    <3>2. QED
      BY <1>4, <1>5, <2>2, <3>1
  <2>3. QED
    BY <2>1, <2>2 DEF BootstrapMission

LEMMA StoredFrames ==
  ASSUME Typed,
         \/ CanaryChainEnds \/ Crash \/ Owner \/ DirectorPause \/ DirectorResume
         \/ \E d \in executing : LateAnswer(d)
         \/ \E c \in Clients, v \in BOOLEAN, s \in OutcomeSources : RecordSuccessEvidence(c, v, s)
  PROVE  Stored'
<1> DEFINE Frame == /\ UNCHANGED <<plan, milestones, mats, work, lineage>>
                    /\ outcomes' \in [Clients -> Outcome]
                    /\ claimedBy' \subseteq claimedBy /\ executing' \subseteq executing
                    /\ finishing' \subseteq finishing /\ dispatching' \subseteq dispatching
                    /\ booting' \subseteq {"director", "reactor"} /\ chain' \in BOOLEAN
<1>0. /\ outcomes \in [Clients -> Outcome]
      /\ booting \subseteq {"director", "reactor"} /\ chain \in BOOLEAN
  BY DEF Typed, TypeOK, EvidenceOK, CallersOK
<1> SUFFICES Frame
  <2>1. plan \in [version : Nat, replans : Nat, batches : Nat, strategies : Nat,
                  zeroProgress : Nat, lastVerified : Nat]
    BY DEF Typed, TypeOK, PlanOK
  <2>2. QED
    BY <2>1, FrameStored
<1> USE <1>0 DEF volatile, budget
<1>1. CASE CanaryChainEnds
  BY <1>1 DEF CanaryChainEnds
<1>2. CASE Crash
  BY <1>2 DEF Crash
<1>3. CASE Owner
  BY <1>3 DEF Owner, OwnerPause, OwnerResume, OwnerCancel, UpdateMissionStatus
<1>4. CASE DirectorPause \/ DirectorResume
  BY <1>4 DEF DirectorPause, DirectorResume, UpdateMissionStatus
<1>5. ASSUME NEW d \in executing, LateAnswer(d) PROVE Frame
  BY <1>5 DEF LateAnswer
<1>6. ASSUME NEW c \in Clients, NEW v \in BOOLEAN, NEW s \in OutcomeSources,
             RecordSuccessEvidence(c, v, s)
      PROVE  Frame
  <2>1. [seen |-> TRUE, verified |-> v, source |-> s] \in Outcome
    BY MissionAssumption DEF Outcome
  <2>2. QED
    BY <1>6, <2>1 DEF RecordSuccessEvidence
<1>7. QED
  BY <1>1, <1>2, <1>3, <1>4, <1>5, <1>6

\* A step on the work lists: the plan stays, and what is new leads somewhere.
LEMMA WorkStored ==
  ASSUME Typed, UNCHANGED plan, EvidenceOK',
         milestones' \in Seq(Milestone), Same(milestones', milestones),
         mats' \in Seq(MatStates), Same(mats', mats),
         requests' \in Seq(Request), DOMAIN requests \subseteq DOMAIN requests',
         \A r \in DOMAIN requests' : requests'[r].milestone \in DOMAIN mats,
         delegations' \in Seq(Delegation), DOMAIN delegations \subseteq DOMAIN delegations',
         \A d \in DOMAIN delegations' : delegations'[d].request \in DOMAIN requests',
         claims' \in Seq(Claim),
         \A k \in DOMAIN claims' : claims'[k].delegation \in DOMAIN delegations',
         claimedBy' \subseteq claimedBy \cup DOMAIN delegations,
         executing' \subseteq executing \cup DOMAIN delegations,
         finishing' \subseteq finishing \cup DOMAIN delegations,
         dispatching' \subseteq dispatching \cup DOMAIN requests,
         booting' = booting, chain' = chain
  PROVE  Stored'
<1>1. PlanOK' /\ WorkOK'
  BY DEF Typed, TypeOK, PlanOK, WorkOK
<1>2. Referenced'
  BY DEF Typed, Referenced, Same
<1>3. CallersOK'
  BY DEF Typed, TypeOK, CallersOK
<1>4. QED
  BY <1>1, <1>2, <1>3 DEF Stored

\* What each action leaves alone, as far as the stored lists are concerned.
LEMMA Kept ==
  ASSUME Typed
  PROVE  /\ TypeOK /\ Referenced
         /\ Same(milestones, milestones) /\ Same(mats, mats)
         /\ (UNCHANGED <<lineage, outcomes>> => EvidenceOK')
         /\ \A r \in DOMAIN requests : requests[r].milestone \in DOMAIN mats
         /\ \A d \in DOMAIN delegations : delegations[d].request \in DOMAIN requests
         /\ \A k \in DOMAIN claims : claims[k].delegation \in DOMAIN delegations
         /\ dispatching \subseteq DOMAIN requests
         /\ claimedBy \subseteq DOMAIN delegations
         /\ executing \subseteq DOMAIN delegations
         /\ finishing \subseteq DOMAIN delegations
  BY DEF Typed, TypeOK, CallersOK, EvidenceOK, Referenced, Same

LEMMA StoredQuarantine == ASSUME Typed, QuarantineUnsafeMission PROVE Stored'
<1>1. UNCHANGED <<plan, milestones, mats, lineage, outcomes, volatile>>
  BY DEF QuarantineUnsafeMission
<1>2. TypeOK /\ Referenced
  BY DEF Typed
<1>3. QED
  BY <1>1, <1>2, Lists, Kept, QuarantineEffect, WorkStored DEF volatile, Same

LEMMA StoredClaimReady == ASSUME Typed, ClaimReadyRequest PROVE Stored'
<1>1. PICK r \in DOMAIN requests : /\ requests' = SetRequest(r, "CLAIMED")
                                   /\ dispatching' = dispatching \cup {r}
  BY DEF ClaimReadyRequest
<1>2. UNCHANGED <<plan, milestones, mats, delegations, claims, lineage, outcomes, claimedBy,
                  executing, finishing, booting, chain>>
  BY DEF ClaimReadyRequest
<1>3. "CLAIMED" \in RequestStates
  BY DEF RequestStates, ACTIVE_REQUEST_STATES
<1>4. requests' \in Seq(Request) /\ RequestSetTo(requests', requests, r, "CLAIMED")
  BY <1>1, <1>3, RequestEffect DEF Typed
<1>5. /\ DOMAIN requests' = DOMAIN requests
      /\ \A q \in DOMAIN requests : requests'[q].milestone = requests[q].milestone
  BY <1>4 DEF RequestSetTo, Same
<1>6. QED
  BY <1>1, <1>2, <1>4, <1>5, Lists, Kept, WorkStored

LEMMA StoredDelegation ==
  ASSUME Typed, NEW r \in DOMAIN requests, CreateDelegation(r),
         UNCHANGED <<plan, milestones, mats, lineage, outcomes, claimedBy, executing,
                     finishing, booting, chain>>,
         dispatching' \subseteq dispatching
  PROVE  Stored'
<1>1. /\ delegations' \in Seq(Delegation)
      /\ Appended(delegations', delegations,
                     [request |-> r, status |-> "Pending", claim |-> 0])
      /\ requests' \in Seq(Request)
      /\ RequestSetTo(requests', requests, r, "DISPATCHED")
  BY CreateDelegationEffect DEF Typed
<1>2. /\ DOMAIN requests' = DOMAIN requests
      /\ \A q \in DOMAIN requests : requests'[q].milestone = requests[q].milestone
  BY <1>1 DEF RequestSetTo, Same
<1>3. /\ DOMAIN delegations \subseteq DOMAIN delegations'
      /\ \A d \in DOMAIN delegations' : delegations'[d].request \in DOMAIN requests
  BY <1>1, Kept DEF Appended
<1>4. UNCHANGED claims
  BY DEF CreateDelegation
<1>5. QED
  BY <1>1, <1>2, <1>3, <1>4, Lists, Kept, WorkStored

LEMMA StoredDispatch ==
  ASSUME Typed, NEW r \in dispatching, DispatchRequest(r) PROVE Stored'
<1>1. /\ UNCHANGED <<plan, milestones, mats, lineage, outcomes, claimedBy, executing,
                     finishing, booting, chain>>
      /\ dispatching' \subseteq dispatching
      /\ r \in DOMAIN requests
  BY Kept DEF DispatchRequest
<1>2. CASE CreateDelegation(r)
  BY <1>1, <1>2, StoredDelegation
<1>3. CASE UNCHANGED work
  <2>1. UNCHANGED requests /\ UNCHANGED delegations /\ UNCHANGED claims
    BY <1>3 DEF work
  <2>2. QED
    BY <1>1, <2>1, Lists, Kept, WorkStored
<1>4. CASE requests' = SetRequest(r, "FAILED") /\ UNCHANGED <<delegations, claims>>
  <2>1. "FAILED" \in RequestStates
    BY DEF RequestStates
  <2>2. requests' \in Seq(Request) /\ RequestSetTo(requests', requests, r, "FAILED")
    BY <1>1, <1>4, <2>1, RequestEffect DEF Typed
  <2>3. /\ DOMAIN requests' = DOMAIN requests
        /\ \A q \in DOMAIN requests : requests'[q].milestone = requests[q].milestone
    BY <2>2 DEF RequestSetTo, Same
  <2>4. QED
    BY <1>1, <1>4, <2>2, <2>3, Lists, Kept, WorkStored
<1>5. QED
  BY <1>2, <1>3, <1>4 DEF DispatchRequest

LEMMA StoredClaimPending == ASSUME Typed, ClaimPendingDelegation PROVE Stored'
<1>1. UNCHANGED <<plan, milestones, mats, lineage, outcomes, executing, finishing, booting,
                  chain, dispatching>>
  BY DEF ClaimPendingDelegation
<1>2. PICK d \in DOMAIN delegations :
         /\ delegations' \in Seq(Delegation)
         /\ DelegationClaimed(delegations', delegations, d, Len(claims'))
         /\ claims' \in Seq(Claim)
         /\ Appended(claims', claims, [delegation |-> d, status |-> "ACTIVE"])
         /\ requests' \in Seq(Request)
         /\ RequestSetTo(requests', requests, delegations[d].request, "RUNNING")
         /\ claimedBy' = claimedBy \cup {d}
  BY ClaimPendingEffect DEF Typed
<1>3. /\ DOMAIN requests' = DOMAIN requests
      /\ \A q \in DOMAIN requests : requests'[q].milestone = requests[q].milestone
  BY <1>2 DEF RequestSetTo, Same
<1>4. /\ DOMAIN delegations' = DOMAIN delegations
      /\ \A c \in DOMAIN delegations : delegations'[c].request = delegations[c].request
  BY <1>2 DEF DelegationClaimed, Same
<1>5. \A k \in DOMAIN claims' : claims'[k].delegation \in DOMAIN delegations
  BY <1>2, Kept DEF Appended
<1>6. QED
  BY <1>1, <1>2, <1>3, <1>4, <1>5, Lists, Kept, WorkStored

LEMMA StoredMarkRunning ==
  ASSUME Typed, NEW d \in claimedBy, MarkDelegationRunning(d) PROVE Stored'
<1>1. /\ UNCHANGED <<plan, milestones, mats, requests, claims, lineage, outcomes, finishing,
                     booting, chain, dispatching>>
      /\ claimedBy' \subseteq claimedBy
      /\ d \in DOMAIN delegations
  BY Kept DEF MarkDelegationRunning
<1>2. CASE UNCHANGED <<delegations, executing>>
  BY <1>1, <1>2, Lists, Kept, WorkStored
<1>3. CASE /\ delegations' \in Seq(Delegation)
           /\ DelegationSetTo(delegations', delegations, d, "Running")
           /\ executing' = executing \cup {d}
  <2>1. /\ DOMAIN delegations' = DOMAIN delegations
        /\ \A c \in DOMAIN delegations : delegations'[c].request = delegations[c].request
    BY <1>3 DEF DelegationSetTo, Same
  <2>2. QED
    BY <1>1, <1>3, <2>1, Lists, Kept, WorkStored
<1>4. QED
  BY <1>1, <1>2, <1>3, MarkRunningEffect DEF Typed

LEMMA StoredComplete ==
  ASSUME Typed, NEW d \in executing, NEW a \in Artifacts, NEW ev \in Evidence,
         CompleteDelegation(d, a, ev)
  PROVE  Stored'
<1>1. /\ UNCHANGED <<plan, mats, outcomes, claimedBy, booting, chain, dispatching>>
      /\ d \in DOMAIN delegations /\ TypeOK /\ Referenced
  BY Kept DEF CompleteDelegation
<1>2. /\ requests' \in Seq(Request)
      /\ RequestSetTo(requests', requests, delegations[d].request, "COMPLETED")
      /\ delegations' \in Seq(Delegation)
      /\ DelegationSetTo(delegations', delegations, d, "Completed")
      /\ claims' \in Seq(Claim)
      /\ ClaimSetTo(claims', claims, delegations[d].claim, "COMPLETED")
      /\ milestones' \in Seq(Milestone)
      /\ MilestoneSetTo(milestones', milestones, MilestoneOf(d), "Completed")
      /\ \/ UNCHANGED lineage
         \/ lineage' = lineage \cup {[artifact |-> a, delegation |-> d,
                                      lead |-> MilestoneOf(d) \in LeadMilestones,
                                      evidence |-> ev]}
      /\ executing' = executing \ {d}
      /\ finishing' = finishing \cup {d}
  BY <1>1, CompleteEffect
<1>3. /\ DOMAIN requests' = DOMAIN requests
      /\ \A q \in DOMAIN requests : requests'[q].milestone = requests[q].milestone
  BY <1>2 DEF RequestSetTo, Same
<1>4. /\ DOMAIN delegations' = DOMAIN delegations
      /\ \A c \in DOMAIN delegations : delegations'[c].request = delegations[c].request
  BY <1>2 DEF DelegationSetTo, Same
<1>5. /\ DOMAIN claims' = DOMAIN claims
      /\ \A k \in DOMAIN claims : claims'[k].delegation = claims[k].delegation
  BY <1>2 DEF ClaimSetTo, Same
<1>6. Same(milestones', milestones)
  BY <1>2 DEF MilestoneSetTo
<1>7. EvidenceOK'
  <2> DEFINE e == [artifact |-> a, delegation |-> d,
                   lead |-> MilestoneOf(d) \in LeadMilestones, evidence |-> ev]
             L == [artifact : Artifacts, delegation : Nat, lead : BOOLEAN, evidence : Evidence]
  <2>1. d \in Nat
    BY <1>1, Lists
  <2>2. e \in L
    BY <2>1
  <2>3. lineage \subseteq L /\ IsFiniteSet(lineage) /\ outcomes \in [Clients -> Outcome]
    BY <1>1 DEF TypeOK, EvidenceOK
  <2>4. IsFiniteSet(lineage \cup {e})
    BY <2>3, FS_AddElement
  <2> HIDE DEF e
  <2>5. lineage' \subseteq L /\ IsFiniteSet(lineage')
    BY <1>2, <2>2, <2>3, <2>4 DEF e
  <2>6. QED
    BY <1>1, <2>3, <2>5 DEF EvidenceOK
<1>8. QED
  BY <1>1, <1>2, <1>3, <1>4, <1>5, <1>6, <1>7, Lists, Kept, WorkStored

LEMMA StoredFailure ==
  ASSUME Typed, NEW d \in DOMAIN delegations, NEW transient \in BOOLEAN,
         ExecutionFailure(d, transient), claimedBy' \subseteq claimedBy,
         executing' \subseteq executing, finishing' \subseteq finishing
  PROVE  Stored'
<1> DEFINE r == delegations[d].request
           next == NewRequest(requests[r].milestone, requests[r].attempt + 1)
<1>1. UNCHANGED <<plan, milestones, mats, lineage, outcomes, booting, chain, dispatching>>
  BY DEF ExecutionFailure
<1>2. CASE UNCHANGED work
  <2>1. UNCHANGED requests /\ UNCHANGED delegations /\ UNCHANGED claims
    BY <1>2 DEF work
  <2>2. QED
    BY <1>1, <2>1, Lists, Kept, WorkStored
<1>3. ASSUME delegations' \in Seq(Delegation),
             DelegationSetTo(delegations', delegations, d, "FAILED"),
             claims' \in Seq(Claim),
             ClaimSetTo(claims', claims, delegations[d].claim, "FAILED"),
             requests' \in Seq(Request),
             \/ RequestSetTo(requests', requests, r, "FAILED")
             \/ \E failed \in Seq(Request) :
                   /\ RequestSetTo(failed, requests, r, "FAILED")
                   /\ Appended(requests', failed, next)
      PROVE  Stored'
  <2>1. /\ DOMAIN delegations' = DOMAIN delegations
        /\ \A c \in DOMAIN delegations : delegations'[c].request = delegations[c].request
    BY <1>3 DEF DelegationSetTo, Same
  <2>2. /\ DOMAIN claims' = DOMAIN claims
        /\ \A k \in DOMAIN claims : claims'[k].delegation = claims[k].delegation
    BY <1>3 DEF ClaimSetTo, Same
  <2>3. r \in DOMAIN requests /\ next.milestone = requests[r].milestone
    BY Kept DEF NewRequest
  <2> HIDE DEF r, next
  <2>4. CASE RequestSetTo(requests', requests, r, "FAILED")
    <3>1. /\ DOMAIN requests' = DOMAIN requests
          /\ \A q \in DOMAIN requests : requests'[q].milestone = requests[q].milestone
      BY <2>4 DEF RequestSetTo, Same
    <3>2. QED
      BY <1>1, <1>3, <2>1, <2>2, <3>1, Lists, Kept, WorkStored
  <2>5. ASSUME NEW failed \in Seq(Request), RequestSetTo(failed, requests, r, "FAILED"),
               Appended(requests', failed, next)
        PROVE  Stored'
    <3>1. /\ DOMAIN failed = DOMAIN requests
          /\ \A q \in DOMAIN requests : failed[q].milestone = requests[q].milestone
      BY <2>5 DEF RequestSetTo, Same
    <3>2. /\ DOMAIN requests \subseteq DOMAIN requests'
          /\ \A q \in DOMAIN requests' : requests'[q].milestone \in DOMAIN mats
      BY <2>3, <2>5, <3>1, Kept DEF Appended
    <3>3. QED
      BY <1>1, <1>3, <2>1, <2>2, <3>2, Lists, Kept, WorkStored
  <2>6. QED
    BY <1>3, <2>4, <2>5
<1>4. QED
  BY <1>2, <1>3, FailureEffect DEF Typed

LEMMA StoredApproval ==
  ASSUME Typed, NEW m \in DOMAIN mats,
         ApproveMaterialization(m) \/ RejectMaterialization(m) \/ RevokeMaterialization(m)
  PROVE  Stored'
<1>1. CASE ApproveMaterialization(m)
  <2>1. UNCHANGED <<plan, milestones, delegations, claims, lineage, outcomes, volatile>>
    BY <1>1 DEF ApproveMaterialization
  <2>2. /\ mats' \in Seq(MatStates) /\ Same(mats', mats)
        /\ requests' \in Seq(Request)
        /\ UNCHANGED requests \/ Appended(requests', requests, NewRequest(m, 1))
    BY <1>1, ApproveEffect DEF Typed, SetAt
  <2>3. /\ DOMAIN requests \subseteq DOMAIN requests'
        /\ \A q \in DOMAIN requests' : requests'[q].milestone \in DOMAIN mats
    BY <2>2, Kept DEF Appended, NewRequest
  <2>4. QED
    BY <2>1, <2>2, <2>3, Lists, Kept, WorkStored DEF volatile
<1>2. CASE RejectMaterialization(m)
  <2>1. UNCHANGED <<plan, milestones, requests, delegations, claims, lineage, outcomes, volatile>>
    BY <1>2 DEF RejectMaterialization, work
  <2>2. "REJECTED" \in MatStates
    BY DEF MatStates
  <2>3. mats' \in Seq(MatStates) /\ Same(mats', mats)
    BY <1>2, <2>2, MatEffect DEF Typed, RejectMaterialization, SetAt
  <2>4. QED
    BY <2>1, <2>3, Lists, Kept, WorkStored DEF volatile
<1>3. CASE RevokeMaterialization(m)
  <2>1. UNCHANGED <<plan, milestones, delegations, claims, lineage, outcomes, volatile>>
    BY <1>3 DEF RevokeMaterialization
  <2>2. /\ mats' \in Seq(MatStates) /\ Same(mats', mats)
        /\ requests' \in Seq(Request)
        /\ DOMAIN requests' = DOMAIN requests
        /\ \A q \in DOMAIN requests : requests'[q].milestone = requests[q].milestone
    BY <1>3, RevokeEffect DEF Typed, SetAt, RequestSetTo, Same
  <2>3. QED
    BY <2>1, <2>2, Lists, Kept, WorkStored DEF volatile
<1>4. QED
  BY <1>1, <1>2, <1>3

LEMMA TypedStep == Typed /\ [Next]_vars => Typed'
<1> SUFFICES ASSUME Typed, [Next]_vars PROVE Typed'
  OBVIOUS
<1>1. LifecycleOK' /\ BudgetOK'
  BY LifecycleStep, BudgetStep DEF Typed, TypeOK
<1> SUFFICES Stored'
  BY <1>1 DEF Typed, TypeOK, Stored
<1>2. CASE UNCHANGED vars
  <2>1. /\ UNCHANGED <<plan, milestones, mats, requests, delegations, claims, lineage, outcomes,
                       claimedBy, executing, finishing, booting, chain, dispatching>>
    BY <1>2 DEF vars, work, volatile
  <2>2. QED
    BY <2>1, Lists, Kept, WorkStored
<1>3. CASE BootstrapMission
  BY <1>3, StoredBootstrap
<1>4. CASE CanaryChainEnds \/ Owner
  BY <1>4, StoredFrames
<1>5. CASE Dispatcher
  BY <1>5, StoredQuarantine, StoredClaimReady, StoredDispatch DEF Dispatcher
<1>6. CASE Worker
  <2>1. ASSUME NEW d \in executing, SpecialistSucceeds(d) PROVE Stored'
    BY <2>1, StoredComplete DEF SpecialistSucceeds
  <2>2. ASSUME NEW d \in executing, SpecialistFails(d) PROVE Stored'
    BY <2>2, StoredFailure, Kept DEF SpecialistFails
  <2>3. ASSUME NEW d \in executing, NEW ev \in Evidence, RejectEvidence(d, ev) PROVE Stored'
    BY <2>3, StoredFailure, Kept DEF RejectEvidence
  <2>4. ASSUME NEW d \in executing, LateAnswer(d) PROVE Stored'
    BY <2>4, StoredFrames
  <2>5. QED
    BY <1>6, <2>1, <2>2, <2>3, <2>4, StoredClaimPending, StoredMarkRunning DEF Worker
<1>7. CASE Director
  <2>1. CASE DirectorPause \/ DirectorResume
    BY <2>1, StoredFrames
  <2>2. ASSUME NEW r \in DOMAIN requests, DirectorDispatch(r) PROVE Stored'
    BY <2>2, StoredDelegation DEF DirectorDispatch, volatile
  <2>3. QED
    BY <1>7, <2>1, <2>2, StoredApproval DEF Director
<1>8. CASE Environment
  <2>1. ASSUME NEW d \in claimedBy \cup executing \cup finishing, WorkerRaises(d) PROVE Stored'
    BY <2>1, StoredFailure, Kept DEF WorkerRaises
  <2>2. QED
    BY <1>8, <2>1, StoredFrames DEF Environment
<1>9. QED
  BY <1>2, <1>3, <1>4, <1>5, <1>6, <1>7, <1>8 DEF Next

\* Every field of the stored mission keeps its type, whatever the limits, the
\* plan size and the evidence, and callers remember only stored work.
THEOREM TypeCorrect == Spec => []TypeOK
<1>1. Init => Typed
  BY InitType DEF Typed
<1>2. Typed /\ [Next]_vars => Typed'
  BY TypedStep
<1>3. Typed => TypeOK
  BY DEF Typed
<1>4. QED
  BY <1>1, <1>2, <1>3, PTL DEF Spec

------------------------------------------------------------------------------
(* Structure is inductive.                                                 *)

LEMMA FrameParts ==
  ASSUME Typed, Structure, plan'.version = plan.version, UNCHANGED <<milestones, mats>>,
         DOMAIN requests' = DOMAIN requests,
         \A r \in DOMAIN requests :
            /\ requests'[r].milestone = requests[r].milestone
            /\ requests'[r].attempt = requests[r].attempt
            /\ LiveRequest(r)' => LiveRequest(r)
  PROVE  Materialized' /\ PlanOrder' /\ AttemptOrder' /\ LiveIsOpen'
<1>1. Materialized' /\ PlanOrder'
  BY DEF Structure, Materialized, PlanOrder
<1>2. AttemptOrder'
  BY DEF Structure, AttemptOrder
<1>3. LiveIsOpen'
  BY DEF Structure, LiveIsOpen
<1>4. QED
  BY <1>1, <1>2, <1>3

LEMMA FrameWorkers ==
  ASSUME Structure, UNCHANGED <<delegations, claims, lineage>>
  PROVE  OneDelegation' /\ ClaimsMatch' /\ LineageClosed'
  BY DEF Structure, OneDelegation, ClaimsMatch, LineageClosed, ActiveDelegation, Closed

LEMMA FrameStructure ==
  ASSUME Typed, Typed', Structure, plan'.version = plan.version,
         UNCHANGED <<milestones, mats, work, lineage>>
  PROVE  Structure'
<1>1. UNCHANGED requests /\ UNCHANGED delegations /\ UNCHANGED claims
  BY DEF work
<1>2. \A r \in DOMAIN requests : LiveRequest(r)' => LiveRequest(r)
  BY <1>1 DEF LiveRequest, ActiveRequest, ActiveDelegation
<1>3. QED
  BY <1>1, <1>2, FrameParts, FrameWorkers DEF Structure, Typed

\* A request whose status changes, with its delegation alone: what was not
\* live stays so.
LEMMA OneRequestChanges ==
  ASSUME NEW r \in DOMAIN requests, NEW s, RequestSetTo(requests', requests, r, s),
         s \in ACTIVE_REQUEST_STATES => LiveRequest(r),
         \A q \in DOMAIN requests :
            (\E d \in DOMAIN delegations' :
                ActiveDelegation(d)' /\ delegations'[d].request = q) => LiveRequest(q)
  PROVE  /\ DOMAIN requests' = DOMAIN requests
         /\ \A q \in DOMAIN requests :
               /\ requests'[q].milestone = requests[q].milestone
               /\ requests'[q].attempt = requests[q].attempt
               /\ LiveRequest(q)' => LiveRequest(q)
<1>1. \A q \in DOMAIN requests : ActiveRequest(q)' => LiveRequest(q)
  BY DEF RequestSetTo, ActiveRequest, LiveRequest
<1>2. QED
  BY <1>1 DEF RequestSetTo, Same, LiveRequest

LEMMA StructureReplan ==
  ASSUME IInv, Typed', BootstrapMission, BootstrapReplan PROVE Structure'
<1> DEFINE new == [plan |-> plan.version + 1, status |-> "Pending"]
<1>1. TypeOK /\ Referenced /\ Structure /\ Typed
  BY DEF IInv, Structure, Typed
<1>2. /\ Appended(milestones', milestones, new)
      /\ Appended(mats', mats, "NONE")
      /\ UNCHANGED <<requests, delegations, claims, lineage>>
      /\ plan'.version = plan.version + 1
  BY <1>1, ReplanEffect DEF BootstrapMission, BootstrapReplan
<1>3. new.plan = plan.version + 1 /\ new.status = "Pending"
  OBVIOUS
<1>4. Len(milestones) = Len(mats) /\ DOMAIN milestones = DOMAIN mats
  BY <1>1, Lists DEF Referenced
<1>5. \A m \in DOMAIN milestones : milestones[m].status = "Completed"
  <2>1. \A m \in DOMAIN milestones : milestones[m] \in Milestone
    BY <1>1, Lists
  <2>2. PendingMilestones = {}
    BY DEF BootstrapReplan, PlanCompletedObjectiveUnmet
  <2>3. QED
    BY <1>1, <2>1, <2>2 DEF Structure, PlanOrder, PendingMilestones, ActivePlan, Milestone
<1> HIDE DEF new
<1>6. /\ DOMAIN milestones' = DOMAIN milestones \cup {Len(milestones')}
      /\ Len(milestones') \notin DOMAIN milestones
      /\ milestones'[Len(milestones')] = new
      /\ Len(mats') = Len(milestones') /\ mats'[Len(milestones')] = "NONE"
      /\ \A m \in DOMAIN milestones : /\ milestones'[m] = milestones[m]
                                      /\ mats'[m] = mats[m]
                                      /\ m \in Nat /\ m < Len(milestones')
  BY <1>2, <1>4 DEF Appended
<1>7. Materialized'
  BY <1>1, <1>2, <1>3, <1>4, <1>6 DEF Structure, Materialized, Referenced
<1>8. PlanOrder'
  <2> DEFINE last == Len(milestones')
  <2>0. last \in Nat
    BY DEF Typed, TypeOK, PlanOK
  <2>1. \A m \in DOMAIN milestones' :
           \/ m = last
           \/ m \in DOMAIN milestones /\ m \in Nat /\ m < last
    BY <1>6
  <2> HIDE DEF last
  <2>2. \A m, n \in DOMAIN milestones' : m < n => m \in DOMAIN milestones
    BY <2>0, <2>1
  <2>3. \A m \in DOMAIN milestones : milestones'[m].status = "Completed"
    BY <1>5, <1>6
  <2>4. milestones'[last].plan = plan'.version
    BY <1>2, <1>3, <1>6 DEF last
  <2>5. QED
    BY <2>1, <2>2, <2>3, <2>4 DEF PlanOrder
<1>9. AttemptOrder' /\ OneDelegation' /\ ClaimsMatch' /\ LineageClosed'
  BY <1>1, <1>2 DEF Structure, AttemptOrder, OneDelegation, ClaimsMatch, LineageClosed,
     Closed, LiveRequest, ActiveRequest, ActiveDelegation
<1>10. LiveIsOpen'
  BY <1>1, <1>2, <1>4, <1>6 DEF Structure, LiveIsOpen, Referenced, LiveRequest, ActiveRequest,
     ActiveDelegation
<1>11. QED
  BY <1>7, <1>8, <1>9, <1>10 DEF Structure, Typed

\* A request added for a milestone that has none, or whose others are closed
\* and earlier in the count of attempts.
LEMMA NewRequestParts ==
  ASSUME Typed, Structure, NEW before \in Seq(Request), NEW e \in Request,
         DOMAIN before = DOMAIN requests,
         \A q \in DOMAIN requests :
            /\ before[q].milestone = requests[q].milestone
            /\ before[q].attempt = requests[q].attempt
            /\ (requests'[q] = before[q] /\ LiveRequest(q)') => LiveRequest(q),
         Appended(requests', before, e),
         \A q \in DOMAIN requests :
            requests[q].milestone = e.milestone
                => requests[q].attempt < e.attempt /\ ~LiveRequest(q)',
         milestones'[e.milestone].status # "Completed",
         \A m \in DOMAIN milestones :
            milestones'[m].status = "Completed" => milestones[m].status = "Completed"
  PROVE  AttemptOrder' /\ LiveIsOpen'
<1>1. /\ DOMAIN requests' = DOMAIN requests \cup {Len(requests')}
      /\ requests'[Len(requests')] = e
      /\ \A q \in DOMAIN requests : /\ requests'[q] = before[q]
                                    /\ q \in Nat /\ q < Len(requests')
      /\ Len(requests') \in Nat
  <2>1. Len(before) \in Nat
    OBVIOUS
  <2>2. QED
    BY <2>1 DEF Appended
<1>2. AttemptOrder'
  <2> SUFFICES ASSUME NEW q \in DOMAIN requests', NEW r \in DOMAIN requests', q < r,
                      requests'[q].milestone = requests'[r].milestone
               PROVE  requests'[q].attempt < requests'[r].attempt /\ ~LiveRequest(q)'
    BY DEF AttemptOrder
  <2>0. q # Len(requests')
    <3> DEFINE n == Len(requests')
    <3>1. n \in Nat /\ (r = n \/ (r \in Nat /\ r < n))
      BY <1>1
    <3> HIDE DEF n
    <3>2. q # n
      BY <3>1
    <3>3. QED
      BY <3>2 DEF n
  <2>1. q \in DOMAIN requests
    BY <1>1, <2>0
  <2>2. CASE r = Len(requests')
    BY <1>1, <2>1, <2>2
  <2>3. CASE r \in DOMAIN requests
    <3>1. requests[q].milestone = requests[r].milestone
      BY <1>1, <2>1, <2>3
    <3>2. requests[q].attempt < requests[r].attempt /\ ~LiveRequest(q)
      BY <2>1, <2>3, <3>1 DEF Structure, AttemptOrder
    <3>3. QED
      BY <1>1, <2>1, <2>3, <3>2
  <2>4. QED
    BY <1>1, <2>2, <2>3
<1>3. LiveIsOpen'
  <2> SUFFICES ASSUME NEW r \in DOMAIN requests', LiveRequest(r)'
               PROVE  milestones'[requests'[r].milestone].status # "Completed"
    BY DEF LiveIsOpen
  <2>1. CASE r = Len(requests')
    BY <1>1, <2>1
  <2>2. CASE r \in DOMAIN requests
    <3>1. requests[r].milestone \in DOMAIN milestones
      BY <2>2, Lists DEF Typed, Referenced
    <3>2. QED
      BY <1>1, <2>2, <3>1 DEF Structure, LiveIsOpen
  <2>3. QED
    BY <1>1, <2>1, <2>2
<1>4. QED
  BY <1>2, <1>3

LEMMA StructureMaterialize ==
  ASSUME IInv, Typed', BootstrapMission, BootstrapMaterialize PROVE Structure'
<1>1. TypeOK /\ Referenced /\ Structure /\ Typed
  BY DEF IInv, Structure, Typed
<1>2. PICK m \in PendingMilestones :
         /\ m \in DOMAIN milestones /\ m \in DOMAIN mats
         /\ Current(m) /\ ~MilestoneBusy(m) /\ mats[m] = "NONE"
         /\ MilestoneSetTo(milestones', milestones, m, "READY")
         /\ \/ /\ SetAt(mats', mats, m, "APPROVAL_REQUIRED")
               /\ UNCHANGED requests
            \/ /\ SetAt(mats', mats, m, "EXECUTION_READY")
               /\ Appended(requests', requests, NewRequest(m, 1))
  BY <1>1, MaterializeEffect
<1>3. UNCHANGED <<plan, delegations, claims, lineage>>
  BY DEF BootstrapMission, BootstrapMaterialize
<1>4. /\ DOMAIN milestones' = DOMAIN milestones /\ DOMAIN mats' = DOMAIN mats
      /\ DOMAIN mats = DOMAIN milestones
      /\ \A n \in DOMAIN milestones :
            /\ milestones'[n].plan = milestones[n].plan
            /\ milestones'[n].status = IF n = m THEN "READY" ELSE milestones[n].status
            /\ n # m => mats'[n] = mats[n]
      /\ mats'[m] # "NONE"
  BY <1>1, <1>2, Lists DEF MilestoneSetTo, SetAt, Same, Referenced
<1>5. milestones[m].status # "Completed" /\ milestones[m].plan = plan.version
  BY DEF PendingMilestones, ActivePlan
<1>6. \A r \in DOMAIN requests : requests[r].milestone # m
  BY <1>1, <1>2 DEF Structure, Materialized
<1>7. PlanOrder'
  <2>1. ASSUME NEW n \in DOMAIN milestones, n < m PROVE milestones[n].status = "Completed"
    <3>1. n \notin PendingMilestones
      BY <1>2, <2>1, Lists, <1>1 DEF Current
    <3>2. milestones[n] \in Milestone
      BY <1>1, Lists
    <3>3. QED
      BY <1>1, <3>1, <3>2 DEF Structure, PlanOrder, PendingMilestones, ActivePlan, Milestone
  <2>2. ASSUME NEW n \in DOMAIN milestones, m < n PROVE mats[n] = "NONE"
    BY <1>1, <1>2, <1>5, <2>2 DEF Structure, PlanOrder
  <2>3. ASSUME NEW n \in DOMAIN milestones, NEW k \in DOMAIN milestones, n < k, mats'[k] # "NONE"
        PROVE  milestones'[n].status = "Completed"
    <3>1. CASE k = m
      <4>1. n # m
        BY <2>3, <3>1, Lists, <1>1
      <4>2. QED
        BY <1>4, <2>1, <2>3, <3>1, <4>1
    <3>2. CASE k # m
      <4>1. mats[k] # "NONE"
        BY <1>4, <2>3, <3>2
      <4>2. n # m
        BY <2>2, <2>3, <4>1
      <4>3. QED
        BY <1>1, <1>4, <2>3, <4>1, <4>2 DEF Structure, PlanOrder
    <3>3. QED
      BY <3>1, <3>2
  <2>4. \A n \in DOMAIN milestones :
           milestones'[n].status = "Completed" \/ milestones'[n].plan = plan'.version
    BY <1>1, <1>3, <1>4, <1>5 DEF Structure, PlanOrder
  <2>5. QED
    BY <1>4, <2>3, <2>4 DEF PlanOrder
<1>8. OneDelegation' /\ ClaimsMatch' /\ LineageClosed'
  BY <1>1, <1>3, FrameWorkers
<1>9. CASE UNCHANGED requests
  <2>1. Materialized'
    BY <1>1, <1>4, <1>6, <1>9 DEF Structure, Materialized, Referenced
  <2>2. AttemptOrder' /\ LiveIsOpen'
    BY <1>1, <1>3, <1>4, <1>6, <1>9 DEF Structure, AttemptOrder, LiveIsOpen, LiveRequest,
       ActiveRequest, ActiveDelegation, Referenced
  <2>3. QED
    BY <1>7, <1>8, <2>1, <2>2 DEF Structure, Typed
<1>10. CASE /\ SetAt(mats', mats, m, "EXECUTION_READY")
            /\ Appended(requests', requests, NewRequest(m, 1))
  <2> DEFINE e == NewRequest(m, 1)
  <2>1. mats'[m] = "EXECUTION_READY" /\ e.milestone = m /\ e \in Request
    <3>1. m \in Nat
      BY <1>1, <1>2, Lists
    <3>2. QED
      BY <1>2, <1>10, <3>1 DEF SetAt, NewRequest, Request, RequestStates, ACTIVE_REQUEST_STATES
  <2> HIDE DEF e
  <2>2. Appended(requests', requests, e)
    BY <1>10 DEF e
  <2>3. Materialized'
    <3>1. \A r \in DOMAIN requests' :
             \/ r \in DOMAIN requests /\ requests'[r] = requests[r]
             \/ requests'[r] = e
      BY <2>2 DEF Appended
    <3>2. QED
      BY <1>1, <1>4, <1>6, <2>1, <3>1 DEF Structure, Materialized, Referenced
  <2>4. ASSUME NEW q \in DOMAIN requests, requests'[q] = requests[q], LiveRequest(q)'
        PROVE  LiveRequest(q)
    BY <1>3, <2>4 DEF LiveRequest, ActiveRequest, ActiveDelegation
  <2>5. AttemptOrder' /\ LiveIsOpen'
    <3>1. milestones'[e.milestone].status # "Completed"
      BY <1>2, <1>4, <2>1
    <3>2. \A n \in DOMAIN milestones :
             milestones'[n].status = "Completed" => milestones[n].status = "Completed"
      BY <1>4
    <3>3. QED
      BY <1>1, <1>6, <2>1, <2>2, <2>4, <3>1, <3>2, Lists, NewRequestParts
  <2>6. QED
    BY <1>7, <1>8, <2>3, <2>5 DEF Structure, Typed
<1>11. QED
  BY <1>2, <1>9, <1>10

LEMMA StructureClaimReady == ASSUME IInv, Typed', ClaimReadyRequest PROVE Structure'
<1>1. TypeOK /\ Referenced /\ Structure /\ Typed
  BY DEF IInv, Structure, Typed
<1>2. PICK r \in DOMAIN requests :
         requests[r].status = "READY" /\ requests' = SetRequest(r, "CLAIMED")
  BY DEF ClaimReadyRequest
<1>3. UNCHANGED <<plan, milestones, mats, delegations, claims, lineage>>
  BY DEF ClaimReadyRequest
<1>4. "CLAIMED" \in RequestStates
  BY DEF RequestStates, ACTIVE_REQUEST_STATES
<1>5. RequestSetTo(requests', requests, r, "CLAIMED")
  BY <1>1, <1>2, <1>4, RequestEffect
<1>6. LiveRequest(r)
  BY <1>2 DEF LiveRequest, ActiveRequest, ACTIVE_REQUEST_STATES
<1>7. \A q \in DOMAIN requests :
         (\E d \in DOMAIN delegations' :
             ActiveDelegation(d)' /\ delegations'[d].request = q) => LiveRequest(q)
  BY <1>3 DEF LiveRequest, ActiveDelegation
<1>8. QED
  BY <1>1, <1>3, <1>5, <1>6, <1>7, OneRequestChanges, FrameParts, FrameWorkers
  DEF Structure, Typed

LEMMA StructureDelegation ==
  ASSUME IInv, Typed', NEW r \in DOMAIN requests, CreateDelegation(r),
         UNCHANGED <<plan, milestones, mats, lineage>>
  PROVE  Structure'
<1> DEFINE e == [request |-> r, status |-> "Pending", claim |-> 0]
<1>1. TypeOK /\ Referenced /\ Structure /\ Typed
  BY DEF IInv, Structure, Typed
<1>2. /\ Appended(delegations', delegations, e)
      /\ RequestSetTo(requests', requests, r, "DISPATCHED")
      /\ e.request = r /\ e.status = "Pending"
  BY <1>1, CreateDelegationEffect
<1>3. requests[r].status = "CLAIMED" /\ ~Delegated(r) /\ UNCHANGED claims
  BY DEF CreateDelegation
<1>4. LiveRequest(r)
  BY <1>3 DEF LiveRequest, ActiveRequest, ACTIVE_REQUEST_STATES
<1> HIDE DEF e
<1>5. /\ \A d \in DOMAIN delegations' :
            \/ d \in DOMAIN delegations /\ delegations'[d] = delegations[d]
            \/ d = Len(delegations') /\ delegations'[d] = e
      /\ \A d \in DOMAIN delegations :
            d \in DOMAIN delegations' /\ delegations'[d] = delegations[d]
  BY <1>2 DEF Appended
<1>6. \A q \in DOMAIN requests :
         (\E d \in DOMAIN delegations' :
             ActiveDelegation(d)' /\ delegations'[d].request = q) => LiveRequest(q)
  BY <1>2, <1>4, <1>5 DEF LiveRequest, ActiveDelegation
<1>7. Materialized' /\ PlanOrder' /\ AttemptOrder' /\ LiveIsOpen'
  BY <1>1, <1>2, <1>4, <1>6, OneRequestChanges, FrameParts
<1>8. OneDelegation'
  BY <1>1, <1>2, <1>3, <1>5 DEF Structure, OneDelegation, Delegated
<1>9. ClaimsMatch'
  BY <1>1, <1>3, <1>5 DEF Structure, ClaimsMatch, Referenced, ActiveDelegation
<1>10. LineageClosed'
  BY <1>1, <1>3, <1>5 DEF Structure, LineageClosed, Closed, ActiveDelegation
<1>11. QED
  BY <1>7, <1>8, <1>9, <1>10 DEF Structure, Typed

LEMMA StructureDispatch ==
  ASSUME IInv, Typed', NEW r \in dispatching, DispatchRequest(r) PROVE Structure'
<1>1. TypeOK /\ Referenced /\ Structure /\ Typed
  BY DEF IInv, Structure, Typed
<1>2. r \in DOMAIN requests /\ UNCHANGED <<plan, milestones, mats, lineage>>
  BY <1>1, Kept DEF DispatchRequest
<1>3. CASE CreateDelegation(r)
  BY <1>2, <1>3, StructureDelegation
<1>4. CASE UNCHANGED work
  BY <1>1, <1>2, <1>4, FrameStructure
<1>5. CASE requests' = SetRequest(r, "FAILED") /\ UNCHANGED <<delegations, claims>>
  <2>1. "FAILED" \in RequestStates /\ "FAILED" \notin ACTIVE_REQUEST_STATES
    BY DEF RequestStates, ACTIVE_REQUEST_STATES
  <2>2. RequestSetTo(requests', requests, r, "FAILED")
    BY <1>1, <1>2, <1>5, <2>1, RequestEffect
  <2>3. \A q \in DOMAIN requests :
           (\E d \in DOMAIN delegations' :
               ActiveDelegation(d)' /\ delegations'[d].request = q) => LiveRequest(q)
    BY <1>5 DEF LiveRequest, ActiveDelegation
  <2>4. QED
    BY <1>1, <1>2, <1>5, <2>1, <2>2, <2>3, OneRequestChanges, FrameParts, FrameWorkers
    DEF Structure, Typed
<1>6. QED
  BY <1>3, <1>4, <1>5 DEF DispatchRequest

LEMMA StructureClaimPending == ASSUME IInv, Typed', ClaimPendingDelegation PROVE Structure'
<1>1. TypeOK /\ Referenced /\ Structure /\ Typed
  BY DEF IInv, Structure, Typed
<1>2. UNCHANGED <<plan, milestones, mats, lineage>>
  BY DEF ClaimPendingDelegation
<1>3. PICK d \in DOMAIN delegations :
         /\ delegations[d].status = "Pending"
         /\ DelegationClaimed(delegations', delegations, d, Len(claims'))
         /\ Appended(claims', claims, [delegation |-> d, status |-> "ACTIVE"])
         /\ RequestSetTo(requests', requests, delegations[d].request, "RUNNING")
  BY <1>1, ClaimPendingEffect
<1>4. ActiveDelegation(d) /\ "Claimed" \in ACTIVE_DELEGATION_STATES
  BY <1>3 DEF ActiveDelegation, ACTIVE_DELEGATION_STATES
<1>5. delegations[d].request \in DOMAIN requests /\ LiveRequest(delegations[d].request)
  BY <1>1, <1>4 DEF Referenced, LiveRequest
<1>6. /\ DOMAIN delegations' = DOMAIN delegations
      /\ \A c \in DOMAIN delegations :
            /\ delegations'[c].request = delegations[c].request
            /\ delegations'[c].claim = IF c = d THEN Len(claims') ELSE delegations[c].claim
            /\ delegations'[c].status = IF c = d THEN "Claimed" ELSE delegations[c].status
            /\ ActiveDelegation(c)' <=> ActiveDelegation(c)
  BY <1>3, <1>4 DEF DelegationClaimed, Same, ActiveDelegation
<1>7. \A q \in DOMAIN requests :
         (\E c \in DOMAIN delegations' :
             ActiveDelegation(c)' /\ delegations'[c].request = q) => LiveRequest(q)
  BY <1>6 DEF LiveRequest
<1>8. Materialized' /\ PlanOrder' /\ AttemptOrder' /\ LiveIsOpen'
  BY <1>1, <1>2, <1>3, <1>5, <1>7, OneRequestChanges, FrameParts
<1>9. OneDelegation'
  BY <1>1, <1>6 DEF Structure, OneDelegation
<1>10. /\ \A k \in DOMAIN claims' :
             \/ k \in DOMAIN claims /\ claims'[k] = claims[k]
             \/ /\ k = Len(claims') /\ claims'[k].delegation = d
       /\ \A k \in DOMAIN claims : k \in DOMAIN claims' /\ claims'[k] = claims[k]
       /\ Len(claims') \in DOMAIN claims'
  BY <1>3 DEF Appended
<1>11. ClaimsMatch'
  <2> SUFFICES ASSUME NEW k \in DOMAIN claims', claims'[k].status = "ACTIVE"
               PROVE  LET c == claims'[k].delegation
                      IN  /\ delegations'[c].status \in ACTIVE_DELEGATION_STATES
                          /\ delegations'[c].status # "Pending"
                          /\ delegations'[c].claim = k
    BY DEF ClaimsMatch, ActiveDelegation
  <2>1. CASE k = Len(claims') /\ claims'[k].delegation = d
    BY <1>4, <1>6, <2>1
  <2>2. CASE k \in DOMAIN claims /\ claims'[k] = claims[k]
    <3>1. /\ claims[k].delegation \in DOMAIN delegations
          /\ ActiveDelegation(claims[k].delegation)
          /\ delegations[claims[k].delegation].status # "Pending"
          /\ delegations[claims[k].delegation].claim = k
      BY <1>1, <2>2 DEF Structure, ClaimsMatch, Referenced
    <3>2. claims[k].delegation # d
      BY <1>3, <3>1
    <3>3. QED
      BY <1>6, <2>2, <3>1, <3>2 DEF ActiveDelegation
  <2>3. QED
    BY <1>10, <2>1, <2>2
<1>12. LineageClosed'
  <2> SUFFICES ASSUME NEW e \in lineage
               PROVE  /\ e.delegation \in DOMAIN delegations'
                      /\ ~ActiveDelegation(e.delegation)'
                      /\ delegations'[e.delegation].claim \in DOMAIN claims'
    BY <1>2 DEF LineageClosed, Closed
  <2>1. /\ e.delegation \in DOMAIN delegations /\ ~ActiveDelegation(e.delegation)
        /\ delegations[e.delegation].claim \in DOMAIN claims
    BY <1>1 DEF Structure, LineageClosed, Closed
  <2>2. QED
    BY <1>4, <1>6, <1>10, <2>1
<1>13. QED
  BY <1>8, <1>9, <1>11, <1>12 DEF Structure, Typed

LEMMA StructureMarkRunning ==
  ASSUME IInv, Typed', NEW d \in claimedBy, MarkDelegationRunning(d) PROVE Structure'
<1>1. TypeOK /\ Referenced /\ Structure /\ Typed
  BY DEF IInv, Structure, Typed
<1>2. UNCHANGED <<plan, milestones, mats, requests, claims, lineage>> /\ d \in DOMAIN delegations
  BY <1>1, Kept DEF MarkDelegationRunning
<1>3. CASE UNCHANGED <<delegations, executing>>
  BY <1>1, <1>2, <1>3, FrameStructure DEF work
<1>4. CASE /\ delegations[d].status \in {"Claimed", "Running"}
           /\ DelegationSetTo(delegations', delegations, d, "Running")
  <2>1. /\ DOMAIN delegations' = DOMAIN delegations
        /\ \A c \in DOMAIN delegations :
              /\ delegations'[c].request = delegations[c].request
              /\ delegations'[c].claim = delegations[c].claim
              /\ ActiveDelegation(c)' <=> ActiveDelegation(c)
              /\ delegations'[c].status = "Pending" <=> delegations[c].status = "Pending"
    BY <1>4 DEF DelegationSetTo, Same, ActiveDelegation, ACTIVE_DELEGATION_STATES
  <2>2. \A q \in DOMAIN requests : LiveRequest(q)' => LiveRequest(q)
    BY <1>2, <2>1 DEF LiveRequest, ActiveRequest
  <2>3. Materialized' /\ PlanOrder' /\ AttemptOrder' /\ LiveIsOpen'
    BY <1>1, <1>2, <2>2, FrameParts
  <2>4. OneDelegation' /\ LineageClosed'
    BY <1>1, <1>2, <2>1 DEF Structure, OneDelegation, LineageClosed, Closed
  <2>5. ClaimsMatch'
    BY <1>1, <1>2, <2>1 DEF Structure, ClaimsMatch, Referenced
  <2>6. QED
    BY <2>3, <2>4, <2>5 DEF Structure, Typed
<1>5. QED
  BY <1>1, <1>2, <1>3, <1>4, MarkRunningEffect

\* Closing a delegation and its claim leaves the workers' records consistent.
LEMMA ClosedWorkers ==
  ASSUME Typed, Structure, NEW d \in DOMAIN delegations, NEW s, NEW c,
         ActiveDelegation(d), s \notin ACTIVE_DELEGATION_STATES, c # "ACTIVE",
         DelegationSetTo(delegations', delegations, d, s),
         ClaimSetTo(claims', claims, delegations[d].claim, c),
         \A e \in lineage' : \/ e \in lineage
                             \/ e.delegation = d /\ delegations[d].claim \in DOMAIN claims
  PROVE  OneDelegation' /\ ClaimsMatch' /\ LineageClosed'
<1>1. /\ DOMAIN delegations' = DOMAIN delegations
      /\ \A b \in DOMAIN delegations :
            /\ delegations'[b].request = delegations[b].request
            /\ delegations'[b].claim = delegations[b].claim
            /\ delegations'[b].status = IF b = d THEN s ELSE delegations[b].status
  BY DEF DelegationSetTo, Same
<1>2. /\ DOMAIN claims' = DOMAIN claims
      /\ \A k \in DOMAIN claims :
            /\ claims'[k].delegation = claims[k].delegation
            /\ claims'[k].status = IF k = delegations[d].claim THEN c ELSE claims[k].status
  BY DEF ClaimSetTo, Same
<1>3. OneDelegation'
  BY <1>1 DEF Structure, OneDelegation
<1>4. ClaimsMatch'
  <2> SUFFICES ASSUME NEW k \in DOMAIN claims', claims'[k].status = "ACTIVE"
               PROVE  LET b == claims'[k].delegation
                      IN  /\ delegations'[b].status \in ACTIVE_DELEGATION_STATES
                          /\ delegations'[b].status # "Pending"
                          /\ delegations'[b].claim = k
    BY DEF ClaimsMatch, ActiveDelegation
  <2>1. k \in DOMAIN claims /\ k # delegations[d].claim /\ claims[k].status = "ACTIVE"
        /\ claims'[k].delegation = claims[k].delegation
    BY <1>2
  <2>2. /\ claims[k].delegation \in DOMAIN delegations
        /\ delegations[claims[k].delegation].status \in ACTIVE_DELEGATION_STATES
        /\ delegations[claims[k].delegation].status # "Pending"
        /\ delegations[claims[k].delegation].claim = k
    BY <2>1 DEF Structure, ClaimsMatch, Typed, Referenced, ActiveDelegation
  <2>3. QED
    BY <1>1, <2>1, <2>2
<1>5. LineageClosed'
  <2> SUFFICES ASSUME NEW e \in lineage'
               PROVE  /\ e.delegation \in DOMAIN delegations'
                      /\ delegations'[e.delegation].status \notin ACTIVE_DELEGATION_STATES
                      /\ delegations'[e.delegation].claim \in DOMAIN claims'
    BY DEF LineageClosed, Closed, ActiveDelegation
  <2>1. CASE e \in lineage
    BY <1>1, <1>2, <2>1 DEF Structure, LineageClosed, Closed, ActiveDelegation
  <2>2. CASE e.delegation = d /\ delegations[d].claim \in DOMAIN claims
    BY <1>1, <1>2, <2>2
  <2>3. QED
    BY <2>1, <2>2
<1>6. QED
  BY <1>3, <1>4, <1>5

\* With its request and its only delegation closed, a request is not live, and
\* no other request is touched.
LEMMA ClosedRequest ==
  ASSUME Typed, Structure, NEW d \in DOMAIN delegations, NEW s, NEW t, NEW after,
         ActiveDelegation(d), s \notin ACTIVE_DELEGATION_STATES,
         t \notin ACTIVE_REQUEST_STATES,
         DelegationSetTo(delegations', delegations, d, s),
         RequestSetTo(after, requests, delegations[d].request, t)
  PROVE  /\ LiveRequest(delegations[d].request)
         /\ \A q \in DOMAIN requests :
               requests'[q] = after[q] /\ LiveRequest(q)'
                  => LiveRequest(q) /\ q # delegations[d].request
<1>1. LiveRequest(delegations[d].request)
  BY DEF LiveRequest
<1>2. ASSUME NEW q \in DOMAIN requests, requests'[q] = after[q], LiveRequest(q)'
      PROVE  LiveRequest(q) /\ q # delegations[d].request
  <2>1. CASE ActiveRequest(q)'
    BY <1>2, <2>1 DEF ActiveRequest, LiveRequest, RequestSetTo
  <2>2. ASSUME NEW b \in DOMAIN delegations', ActiveDelegation(b)', delegations'[b].request = q
        PROVE  LiveRequest(q) /\ q # delegations[d].request
    <3>1. b \in DOMAIN delegations /\ b # d /\ ActiveDelegation(b) /\ delegations[b].request = q
      BY <2>2 DEF DelegationSetTo, Same, ActiveDelegation
    <3>2. q # delegations[d].request
      BY <3>1 DEF Structure, OneDelegation
    <3>3. QED
      BY <3>1, <3>2 DEF LiveRequest
  <2>3. QED
    BY <1>2, <2>1, <2>2 DEF LiveRequest
<1>3. QED
  BY <1>1, <1>2

LEMMA StructureComplete ==
  ASSUME IInv, Typed', NEW d \in executing, NEW a \in Artifacts, NEW ev \in Evidence,
         CompleteDelegation(d, a, ev)
  PROVE  Structure'
<1> DEFINE r == delegations[d].request
           m == MilestoneOf(d)
<1>1. TypeOK /\ Referenced /\ Structure /\ Typed /\ UNCHANGED <<plan, mats>>
      /\ d \in DOMAIN delegations
  BY Kept DEF IInv, Structure, Typed, CompleteDelegation
<1>2. /\ ActiveDelegation(d) /\ LineageValid(d)
      /\ RequestSetTo(requests', requests, r, "COMPLETED")
      /\ DelegationSetTo(delegations', delegations, d, "Completed")
      /\ ClaimSetTo(claims', claims, delegations[d].claim, "COMPLETED")
      /\ MilestoneSetTo(milestones', milestones, m, "Completed")
      /\ \A e \in lineage' : e \in lineage \/ e.delegation = d
  BY <1>1, CompleteEffect
<1>3. /\ "COMPLETED" \notin ACTIVE_REQUEST_STATES
      /\ "Completed" \notin ACTIVE_DELEGATION_STATES
  BY DEF ACTIVE_REQUEST_STATES, ACTIVE_DELEGATION_STATES
<1>4. OneDelegation' /\ ClaimsMatch' /\ LineageClosed'
  BY <1>1, <1>2, <1>3, ClosedWorkers DEF LineageValid
<1>5. /\ LiveRequest(r)
      /\ \A q \in DOMAIN requests : LiveRequest(q)' => LiveRequest(q) /\ q # r
  BY <1>1, <1>2, <1>3, ClosedRequest
<1>6. r \in DOMAIN requests /\ m = requests[r].milestone
  BY <1>1 DEF Referenced, MilestoneOf
<1> HIDE DEF r, m
<1>7. /\ DOMAIN requests' = DOMAIN requests
      /\ \A q \in DOMAIN requests :
            /\ requests'[q].milestone = requests[q].milestone
            /\ requests'[q].attempt = requests[q].attempt
  BY <1>2 DEF RequestSetTo, Same
<1>8. /\ DOMAIN milestones' = DOMAIN milestones
      /\ \A n \in DOMAIN milestones :
            /\ milestones'[n].plan = milestones[n].plan
            /\ milestones'[n].status = IF n = m THEN "Completed" ELSE milestones[n].status
  BY <1>2 DEF MilestoneSetTo, Same
<1>9. Materialized'
  BY <1>1, <1>6, <1>7, <1>8 DEF Structure, Materialized
<1>10. PlanOrder'
  BY <1>1, <1>8 DEF Structure, PlanOrder
<1>11. AttemptOrder'
  BY <1>1, <1>5, <1>7 DEF Structure, AttemptOrder
<1>12. LiveIsOpen'
  <2> SUFFICES ASSUME NEW q \in DOMAIN requests, LiveRequest(q)'
               PROVE  milestones'[requests[q].milestone].status # "Completed"
    BY <1>7 DEF LiveIsOpen
  <2>1. LiveRequest(q) /\ q # r
    BY <1>5
  <2>2. requests[q].milestone # m
    <3>1. q \in Nat /\ r \in Nat
      BY <1>1, <1>6, Lists
    <3>2. q < r \/ r < q
      BY <2>1, <3>1
    <3>3. QED
      BY <1>1, <1>5, <1>6, <2>1, <3>2 DEF Structure, AttemptOrder
  <2>3. requests[q].milestone \in DOMAIN milestones
    BY <1>1, Lists DEF Referenced
  <2>4. QED
    BY <1>1, <1>8, <2>1, <2>2, <2>3 DEF Structure, LiveIsOpen
<1>13. QED
  BY <1>4, <1>9, <1>10, <1>11, <1>12 DEF Structure, Typed

LEMMA StructureFailure ==
  ASSUME IInv, Typed', NEW d \in DOMAIN delegations, NEW transient \in BOOLEAN,
         ExecutionFailure(d, transient)
  PROVE  Structure'
<1> DEFINE r == delegations[d].request
           e == NewRequest(requests[r].milestone, requests[r].attempt + 1)
<1>1. /\ TypeOK /\ Referenced /\ Structure /\ Typed
      /\ UNCHANGED <<plan, milestones, mats, lineage>>
  BY DEF IInv, Structure, Typed, ExecutionFailure
<1>2. CASE UNCHANGED work
  BY <1>1, <1>2, FrameStructure
<1>3. ASSUME ActiveDelegation(d),
             DelegationSetTo(delegations', delegations, d, "FAILED"),
             ClaimSetTo(claims', claims, delegations[d].claim, "FAILED"),
             \/ RequestSetTo(requests', requests, r, "FAILED")
             \/ \E failed \in Seq(Request) :
                   /\ RequestSetTo(failed, requests, r, "FAILED")
                   /\ Appended(requests', failed, e)
      PROVE  Structure'
  <2>1. "FAILED" \notin ACTIVE_REQUEST_STATES /\ "FAILED" \notin ACTIVE_DELEGATION_STATES
    BY DEF ACTIVE_REQUEST_STATES, ACTIVE_DELEGATION_STATES
  <2>2. OneDelegation' /\ ClaimsMatch' /\ LineageClosed'
    BY <1>1, <1>3, <2>1, ClosedWorkers
  <2>3. r \in DOMAIN requests /\ LiveRequest(r)
    BY <1>1, <1>3 DEF Referenced, LiveRequest
  <2>4. /\ e.milestone = requests[r].milestone
        /\ e.attempt = requests[r].attempt + 1
        /\ e \in Request
    <3>1. requests[r] \in Request
      BY <1>1, <2>3, Lists
    <3>2. QED
      BY <3>1 DEF NewRequest, Request, RequestStates, ACTIVE_REQUEST_STATES
  <2>5. \A after :
           RequestSetTo(after, requests, r, "FAILED") =>
              \A q \in DOMAIN requests :
                 requests'[q] = after[q] /\ LiveRequest(q)' => LiveRequest(q) /\ q # r
    BY <1>1, <1>3, <2>1, ClosedRequest
  <2> HIDE DEF r, e
  <2>6. CASE RequestSetTo(requests', requests, r, "FAILED")
    BY <1>1, <2>2, <2>5, <2>6, FrameParts DEF RequestSetTo, Same, Structure, Typed
  <2>7. ASSUME NEW failed \in Seq(Request), RequestSetTo(failed, requests, r, "FAILED"),
               Appended(requests', failed, e)
        PROVE  Structure'
    <3>1. /\ DOMAIN failed = DOMAIN requests
          /\ \A q \in DOMAIN requests :
                /\ failed[q].milestone = requests[q].milestone
                /\ failed[q].attempt = requests[q].attempt
                /\ requests'[q] = failed[q]
      BY <2>7 DEF RequestSetTo, Same, Appended
    <3>2. \A q \in DOMAIN requests : LiveRequest(q)' => LiveRequest(q) /\ q # r
      BY <2>5, <2>7, <3>1
    <3>3. \A q \in DOMAIN requests :
             requests[q].milestone = requests[r].milestone /\ q # r
                => requests[q].attempt < requests[r].attempt /\ ~LiveRequest(q)
      <4>1. ASSUME NEW q \in DOMAIN requests, q # r,
                   requests[q].milestone = requests[r].milestone
            PROVE  requests[q].attempt < requests[r].attempt /\ ~LiveRequest(q)
        <5>1. q \in Nat /\ r \in Nat
          BY <1>1, <2>3, Lists
        <5>2. q < r \/ r < q
          BY <4>1, <5>1
        <5>3. QED
          BY <1>1, <2>3, <4>1, <5>2 DEF Structure, AttemptOrder
      <4>2. QED
        BY <4>1
    <3>4. ASSUME NEW q \in DOMAIN requests, requests[q].milestone = e.milestone
          PROVE  requests[q].attempt < e.attempt /\ ~LiveRequest(q)'
      <4>1. requests[q].attempt \in Nat /\ requests[r].attempt \in Nat
        <5>1. requests[q] \in Request /\ requests[r] \in Request
          BY <1>1, <2>3, Lists
        <5>2. QED
          BY <5>1 DEF Request
      <4>2. q = r \/ requests[q].attempt < requests[r].attempt
        BY <2>4, <3>3, <3>4
      <4>3. requests[q].attempt < e.attempt
        BY <2>4, <4>1, <4>2
      <4>4. ~LiveRequest(q)'
        BY <2>4, <3>2, <3>3, <3>4
      <4>5. QED
        BY <4>3, <4>4
    <3>5. milestones'[e.milestone].status # "Completed"
      BY <1>1, <2>3, <2>4 DEF Structure, LiveIsOpen
    <3>6. AttemptOrder' /\ LiveIsOpen'
      BY <1>1, <2>4, <2>7, <3>1, <3>2, <3>4, <3>5, NewRequestParts
    <3>7. PlanOrder'
      BY <1>1 DEF Structure, PlanOrder
    <3>8. Materialized'
      <4>1. \A q \in DOMAIN requests' :
               \/ q \in DOMAIN requests /\ requests'[q] = failed[q]
               \/ requests'[q] = e
        BY <2>7, <3>1 DEF Appended
      <4>2. QED
        BY <1>1, <2>3, <2>4, <3>1, <4>1 DEF Structure, Materialized
    <3>9. QED
      BY <2>2, <3>6, <3>7, <3>8 DEF Structure, Typed
  <2>8. QED
    BY <1>3, <2>6, <2>7
<1>4. QED
  BY <1>1, <1>2, <1>3, FailureEffect

LEMMA StructureApprove ==
  ASSUME IInv, Typed', NEW m \in DOMAIN mats, ApproveMaterialization(m) PROVE Structure'
<1> DEFINE e == NewRequest(m, 1)
<1>1. TypeOK /\ Referenced /\ Structure /\ Typed
  BY DEF IInv, Structure, Typed
<1>2. /\ UNCHANGED <<plan, milestones, delegations, claims, lineage>>
      /\ mats[m] = "APPROVAL_REQUIRED"
  BY DEF ApproveMaterialization
<1>3. /\ SetAt(mats', mats, m, "EXECUTION_READY")
      /\ UNCHANGED requests \/ Appended(requests', requests, e)
  BY <1>1, ApproveEffect
<1>4. /\ DOMAIN mats' = DOMAIN mats /\ mats'[m] = "EXECUTION_READY"
      /\ \A n \in DOMAIN mats : n # m => mats'[n] = mats[n]
      /\ DOMAIN milestones = DOMAIN mats
  BY <1>1, <1>3, Lists DEF SetAt, Same, Referenced
<1>5. /\ \A r \in DOMAIN requests : requests[r].milestone # m
      /\ milestones[m].status # "Completed"
  BY <1>1, <1>2, <1>4 DEF Structure, Materialized
<1>6. e.milestone = m /\ e \in Request
  <2>1. m \in Nat
    BY <1>1, Lists
  <2>2. QED
    BY <2>1 DEF NewRequest, Request, RequestStates, ACTIVE_REQUEST_STATES
<1> HIDE DEF e
<1>7. \A r \in DOMAIN requests' :
         \/ r \in DOMAIN requests /\ requests'[r] = requests[r]
         \/ requests'[r] = e
  BY <1>3 DEF Appended
<1>8. Materialized'
  BY <1>1, <1>2, <1>4, <1>6, <1>7 DEF Structure, Materialized, Referenced
<1>9. PlanOrder'
  BY <1>1, <1>2, <1>4 DEF Structure, PlanOrder
<1>10. ASSUME NEW q \in DOMAIN requests, requests'[q] = requests[q], LiveRequest(q)'
       PROVE  LiveRequest(q)
  BY <1>2, <1>10 DEF LiveRequest, ActiveRequest, ActiveDelegation
<1>11. AttemptOrder' /\ LiveIsOpen'
  <2>1. CASE UNCHANGED requests
    BY <1>1, <1>2, <1>10, <2>1 DEF Structure, AttemptOrder, LiveIsOpen
  <2>2. CASE Appended(requests', requests, e)
    BY <1>1, <1>2, <1>5, <1>6, <1>10, <2>2, Lists, NewRequestParts
  <2>3. QED
    BY <1>3, <2>1, <2>2
<1>12. QED
  BY <1>1, <1>2, <1>8, <1>9, <1>11, FrameWorkers DEF Structure, Typed

LEMMA StructureRefuse ==
  ASSUME IInv, Typed', NEW m \in DOMAIN mats,
         RejectMaterialization(m) \/ RevokeMaterialization(m)
  PROVE  Structure'
<1>1. TypeOK /\ Referenced /\ Structure /\ Typed
  BY DEF IInv, Structure, Typed
<1>2. DOMAIN milestones = DOMAIN mats
  BY <1>1, Lists DEF Referenced
<1>3. CASE RejectMaterialization(m)
  <2>1. /\ UNCHANGED <<plan, milestones, requests, delegations, claims, lineage>>
        /\ mats[m] = "APPROVAL_REQUIRED" /\ mats' = [mats EXCEPT ![m] = "REJECTED"]
    BY <1>3 DEF RejectMaterialization, work
  <2>2. /\ DOMAIN mats' = DOMAIN mats
        /\ mats'[m] = "REJECTED"
        /\ \A n \in DOMAIN mats : n # m => mats'[n] = mats[n]
    BY <2>1
  <2>3. Materialized' /\ PlanOrder'
    BY <1>1, <1>2, <2>1, <2>2 DEF Structure, Materialized, PlanOrder, Referenced
  <2>4. AttemptOrder' /\ LiveIsOpen'
    BY <1>1, <2>1 DEF Structure, AttemptOrder, LiveIsOpen, LiveRequest, ActiveRequest,
       ActiveDelegation
  <2>5. QED
    BY <1>1, <2>1, <2>3, <2>4, FrameWorkers DEF Structure, Typed
<1>4. CASE RevokeMaterialization(m)
  <2>1. /\ UNCHANGED <<plan, milestones, delegations, claims, lineage>>
        /\ mats[m] = "EXECUTION_READY"
    BY <1>4 DEF RevokeMaterialization
  <2>2. PICK r \in DOMAIN requests : RequestSetTo(requests', requests, r, "BLOCKED")
    BY <1>1, <1>4, RevokeEffect
  <2>3. /\ DOMAIN mats' = DOMAIN mats /\ mats'[m] = "REVOKED"
        /\ \A n \in DOMAIN mats : n # m => mats'[n] = mats[n]
    BY <1>1, <1>4, RevokeEffect DEF SetAt, Same
  <2>4. "BLOCKED" \notin ACTIVE_REQUEST_STATES
    BY DEF ACTIVE_REQUEST_STATES
  <2>5. \A q \in DOMAIN requests :
           (\E d \in DOMAIN delegations' :
               ActiveDelegation(d)' /\ delegations'[d].request = q) => LiveRequest(q)
    BY <2>1 DEF LiveRequest, ActiveDelegation
  <2>6. /\ DOMAIN requests' = DOMAIN requests
        /\ \A q \in DOMAIN requests :
              /\ requests'[q].milestone = requests[q].milestone
              /\ requests'[q].attempt = requests[q].attempt
              /\ LiveRequest(q)' => LiveRequest(q)
    BY <2>2, <2>4, <2>5, OneRequestChanges
  <2>7. Materialized' /\ PlanOrder'
    <3>1. PlanOrder'
      BY <1>1, <1>2, <2>1, <2>3 DEF Structure, PlanOrder
    <3>2. \A n \in DOMAIN mats : mats[n] \in {"EXECUTION_READY", "REVOKED"}
                                 => mats'[n] \in {"EXECUTION_READY", "REVOKED"}
      BY <2>3
    <3>3. Materialized'
      BY <1>1, <1>2, <2>1, <2>6, <3>2 DEF Structure, Materialized, Referenced
    <3>4. QED
      BY <3>1, <3>3
  <2>8. AttemptOrder' /\ LiveIsOpen'
    BY <1>1, <2>1, <2>6 DEF Structure, AttemptOrder, LiveIsOpen
  <2>9. QED
    BY <1>1, <2>1, <2>7, <2>8, FrameWorkers DEF Structure, Typed
<1>5. QED
  BY <1>3, <1>4

------------------------------------------------------------------------------
(* What the invariant excludes.                                            *)

LEMMA OneLive ==
  ASSUME Typed, Structure PROVE SingleLiveWork
<1> SUFFICES ASSUME NEW q \in DOMAIN requests, NEW r \in DOMAIN requests,
                    LiveRequest(q), LiveRequest(r), q # r
             PROVE  FALSE
  BY DEF SingleLiveWork
<1>1. q \in Nat /\ r \in Nat
  BY Lists DEF Typed
<1>2. requests[q].milestone # requests[r].milestone
  <2>1. q < r \/ r < q
    BY <1>1
  <2>2. QED
    BY <2>1 DEF Structure, AttemptOrder
<1> DEFINE m == requests[q].milestone
           n == requests[r].milestone
<1>3. m \in DOMAIN milestones /\ n \in DOMAIN milestones /\ m \in Nat /\ n \in Nat
  BY Lists DEF Typed, Referenced
<1>4. mats[m] # "NONE" /\ mats[n] # "NONE"
  BY DEF Structure, Materialized
<1>5. milestones[m].status # "Completed" /\ milestones[n].status # "Completed"
  BY DEF Structure, LiveIsOpen
<1> HIDE DEF m, n
<1>6. m < n \/ n < m
  BY <1>2, <1>3 DEF m, n
<1>7. QED
  BY <1>3, <1>4, <1>5, <1>6 DEF Structure, PlanOrder

LEMMA Clean == ASSUME IInv PROVE ValidatorClean
<1> SUFFICES ASSUME status \in {"ACTIVE", "PAUSED", "COMPLETED"} PROVE ~Unsafe
  BY DEF ValidatorClean
<1>1. TypeOK /\ Referenced /\ Structure /\ Typed /\ Standing
  BY DEF IInv, Structure, Typed
<1>2. ~UnverifiedCompletion
  BY <1>1 DEF Standing, CompletionHolds, UnverifiedCompletion
<1>3. ~TerminalMissionHasWork
  <2>1. CASE status = "COMPLETED"
    <3>1. \A r \in DOMAIN requests : ~LiveRequest(r)
      BY <1>1, <2>1 DEF Standing, CompletionHolds
    <3>2. \A d \in DOMAIN delegations : delegations[d].request \in DOMAIN requests
      BY <1>1 DEF Referenced
    <3>3. QED
      BY <3>1, <3>2 DEF LiveRequest, TerminalMissionHasWork
  <2>2. QED
    BY <2>1 DEF TerminalMissionHasWork, TERMINAL_MISSION_STATES
<1>4. ~UnsafeRequest
  <2>1. \A r \in DOMAIN requests : mats[requests[r].milestone] # "NONE"
    BY <1>1 DEF Structure, Materialized
  <2>2. ASSUME NEW q \in DOMAIN requests, NEW r \in DOMAIN requests, q # r,
               requests[q].milestone = requests[r].milestone,
               requests[q].attempt = requests[r].attempt
        PROVE  FALSE
    <3>1. q \in Nat /\ r \in Nat
      BY <1>1, Lists
    <3>2. requests[q].attempt \in Nat
      <4>1. requests[q] \in Request
        BY <1>1, Lists
      <4>2. QED
        BY <4>1 DEF Request
    <3>3. q < r \/ r < q
      BY <2>2, <3>1
    <3>4. requests[q].attempt < requests[q].attempt
      BY <1>1, <2>2, <3>3 DEF Structure, AttemptOrder
    <3>5. QED
      BY <3>2, <3>4
  <2>3. QED
    BY <2>1, <2>2 DEF UnsafeRequest
<1>5. ~UnsafeDelegation
  BY <1>1 DEF UnsafeDelegation, Structure, OneDelegation, Referenced
<1>6. ~UnsafeClaim
  BY <1>1 DEF UnsafeClaim, Structure, ClaimsMatch, Referenced
<1>7. ~BrokenArtifactLineage
  BY <1>1 DEF BrokenArtifactLineage, Structure, LineageClosed, Referenced
<1>8. ~GhostRunning
  <2>1. CASE status = "COMPLETED"
    BY <1>1, <2>1 DEF Standing, CompletionHolds, GhostRunning
  <2>2. CASE status \in {"ACTIVE", "PAUSED"}
    BY <1>1, <2>2 DEF Standing, RunningHasWork, GhostRunning, TERMINAL_MISSION_STATES, Referenced
  <2>3. QED
    BY <2>1, <2>2
<1>9. ~LimitsExceeded
  <2>1. /\ plan.replans \in Nat /\ plan.version = plan.replans + 1
        /\ plan.replans <= MAX_PLAN_LOOPS /\ plan.batches <= MAX_OUTREACH_BATCHES
        /\ plan.batches \in Nat
    BY <1>1 DEF Standing, WithinLimits, TypeOK, PlanOK
  <2>2. MAX_PLAN_LOOPS \in Nat /\ MAX_OUTREACH_BATCHES \in Nat
    BY MissionAssumption
  <2>3. QED
    BY <2>1, <2>2 DEF LimitsExceeded
<1>10. QED
  BY <1>2, <1>3, <1>4, <1>5, <1>6, <1>7, <1>8, <1>9 DEF Unsafe

LEMMA NoQuarantine == ASSUME IInv, QuarantineUnsafeMission PROVE FALSE
  BY Clean DEF ValidatorClean, QuarantineUnsafeMission

LEMMA StructureStep == ASSUME IInv, [Next]_vars, Typed' PROVE Structure'
<1>1. Typed /\ Structure /\ TypeOK /\ Referenced
  BY DEF IInv, Structure, Typed
<1>2. ASSUME plan'.version = plan.version, UNCHANGED <<milestones, mats, work, lineage>>
      PROVE  Structure'
  BY <1>1, <1>2, FrameStructure
<1>3. CASE UNCHANGED vars
  BY <1>2, <1>3 DEF vars, work
<1>4. CASE BootstrapMission
  <2>1. CASE BootstrapReplan
    BY <1>4, <2>1, StructureReplan
  <2>2. CASE BootstrapMaterialize
    BY <1>4, <2>2, StructureMaterialize
  <2>3. CASE BootstrapReturns /\ ~BootstrapMaterialize
    <3>1. /\ UNCHANGED <<milestones, mats, requests>>
          /\ plan' = plan \/ plan' = [plan EXCEPT !.zeroProgress = ZeroProgressCount,
                                                  !.lastVerified = VerifiedCount]
      BY <2>3 DEF BootstrapReturns, BootstrapInactive, BootstrapUnplannable, BootstrapComplete,
         BootstrapArtifactUnmet, BootstrapLimitReached, BootstrapNothingNew
    <3>2. plan'.version = plan.version
      <4>1. plan \in [version : Nat, replans : Nat, batches : Nat, strategies : Nat,
                      zeroProgress : Nat, lastVerified : Nat]
        BY <1>1 DEF TypeOK, PlanOK
      <4>2. QED
        BY <3>1, <4>1
    <3>3. UNCHANGED <<delegations, claims, lineage>>
      BY <1>4 DEF BootstrapMission
    <3>4. QED
      BY <1>2, <3>1, <3>2, <3>3 DEF work
  <2>4. QED
    BY <1>4, <2>1, <2>2, <2>3 DEF BootstrapMission
<1>5. CASE CanaryChainEnds \/ Owner \/ Crash \/ DirectorPause \/ DirectorResume
  <2>1. UNCHANGED <<plan, milestones, mats, work, lineage>>
    BY <1>5 DEF CanaryChainEnds, Owner, OwnerPause, OwnerResume, OwnerCancel, Crash,
       DirectorPause, DirectorResume, UpdateMissionStatus
  <2>2. QED
    BY <1>2, <2>1
<1>6. CASE Dispatcher
  BY <1>6, NoQuarantine, StructureClaimReady, StructureDispatch DEF Dispatcher
<1>7. ASSUME NEW d, LateAnswer(d) PROVE Structure'
  BY <1>2, <1>7 DEF LateAnswer
<1>8. CASE Worker
  <2>1. ASSUME NEW d \in executing, SpecialistSucceeds(d) PROVE Structure'
    BY <2>1, StructureComplete DEF SpecialistSucceeds
  <2>2. ASSUME NEW d \in executing, SpecialistFails(d) PROVE Structure'
    BY <1>1, <2>2, StructureFailure, Kept DEF SpecialistFails
  <2>3. ASSUME NEW d \in executing, NEW ev \in Evidence, RejectEvidence(d, ev) PROVE Structure'
    BY <1>1, <2>3, StructureFailure, Kept DEF RejectEvidence
  <2>4. QED
    BY <1>7, <1>8, <2>1, <2>2, <2>3, StructureClaimPending, StructureMarkRunning DEF Worker
<1>9. CASE Director
  <2>1. ASSUME NEW r \in DOMAIN requests, DirectorDispatch(r) PROVE Structure'
    BY <2>1, StructureDelegation DEF DirectorDispatch
  <2>2. QED
    BY <1>5, <1>9, <2>1, StructureApprove, StructureRefuse DEF Director
<1>10. CASE Environment
  <2>1. ASSUME NEW c, NEW v, NEW s, RecordSuccessEvidence(c, v, s) PROVE Structure'
    BY <1>2, <2>1 DEF RecordSuccessEvidence
  <2>2. ASSUME NEW d \in claimedBy \cup executing \cup finishing, WorkerRaises(d)
        PROVE  Structure'
    BY <1>1, <2>2, StructureFailure, Kept DEF WorkerRaises
  <2>3. QED
    BY <1>5, <1>10, <2>1, <2>2 DEF Environment
<1>11. QED
  BY <1>3, <1>4, <1>5, <1>6, <1>8, <1>9, <1>10 DEF Next

------------------------------------------------------------------------------
(* Approval is inductive.                                                  *)

\* A step that makes no delegated request revocable, no request of a revoked
\* decision live, and adds no request to one.
LEMMA ApprovalParts ==
  ASSUME Typed, Typed', Approval,
         \A m \in DOMAIN mats : mats'[m] = "REVOKED" => mats[m] = "REVOKED",
         \A r \in DOMAIN requests :
            /\ r \in DOMAIN requests'
            /\ requests'[r].milestone = requests[r].milestone
            /\ LiveRequest(r)' => LiveRequest(r)
            /\ Revocable(r)' => Revocable(r),
         \A r \in DOMAIN requests' :
            r \in DOMAIN requests \/ mats'[requests'[r].milestone] # "REVOKED",
         \A d \in DOMAIN delegations' :
            \/ /\ d \in DOMAIN delegations
               /\ delegations'[d].request = delegations[d].request
            \/ requests'[delegations'[d].request].status \notin {"READY", "CLAIMED"}
  PROVE  Approval'
<1>1. /\ \A d \in DOMAIN delegations : delegations[d].request \in DOMAIN requests
      /\ \A r \in DOMAIN requests : requests[r].milestone \in DOMAIN mats
  BY DEF Typed, Referenced
<1>2. DelegatedPast'
  BY <1>1 DEF Approval, DelegatedPast, Revocable
<1>3. RevokedIdle'
  BY <1>1 DEF Approval, RevokedIdle
<1>4. QED
  BY <1>2, <1>3 DEF Approval

LEMMA FrameApproval ==
  ASSUME Approval, UNCHANGED <<mats, requests, delegations>> PROVE Approval'
  BY DEF Approval, DelegatedPast, RevokedIdle, Revocable, LiveRequest, ActiveRequest,
     ActiveDelegation

\* One request changes its status and becomes neither live nor revocable.
LEMMA ApprovalOneRequest ==
  ASSUME Typed, Typed', Approval, UNCHANGED mats,
         NEW r \in DOMAIN requests, NEW s, RequestSetTo(requests', requests, r, s),
         s \in {"READY", "CLAIMED"} => Revocable(r),
         \A q \in DOMAIN requests : LiveRequest(q)' => LiveRequest(q),
         \A d \in DOMAIN delegations' :
            \/ /\ d \in DOMAIN delegations
               /\ delegations'[d].request = delegations[d].request
            \/ requests'[delegations'[d].request].status \notin {"READY", "CLAIMED"}
  PROVE  Approval'
  BY ApprovalParts DEF RequestSetTo, Same, Revocable

LEMMA ApprovalBootstrap == ASSUME IInv, Typed', BootstrapMission PROVE Approval'
<1>1. TypeOK /\ Referenced /\ Typed /\ Approval /\ UNCHANGED delegations
  BY DEF IInv, Structure, Typed, BootstrapMission
<1>2. CASE BootstrapReplan
  BY <1>1, <1>2, ReplanEffect, ApprovalParts
  DEF Appended, Revocable, LiveRequest, ActiveRequest, ActiveDelegation
<1>3. CASE BootstrapMaterialize
  <2>1. PICK m \in DOMAIN mats :
           \/ SetAt(mats', mats, m, "APPROVAL_REQUIRED") /\ UNCHANGED requests
           \/ /\ SetAt(mats', mats, m, "EXECUTION_READY")
              /\ Appended(requests', requests, NewRequest(m, 1))
    BY <1>1, <1>3, MaterializeEffect
  <2>2. NewRequest(m, 1).milestone = m
    BY DEF NewRequest
  <2>3. \A r \in DOMAIN requests :
           requests'[r] = requests[r] =>
              (LiveRequest(r)' => LiveRequest(r)) /\ (Revocable(r)' => Revocable(r))
    BY <1>1 DEF Revocable, LiveRequest, ActiveRequest, ActiveDelegation
  <2>4. \A n \in DOMAIN mats : mats'[n] = "REVOKED" => mats[n] = "REVOKED"
    BY <2>1 DEF SetAt
  <2>5. \A r \in DOMAIN requests : r \in DOMAIN requests' /\ requests'[r] = requests[r]
    BY <2>1 DEF Appended
  <2>6. \A r \in DOMAIN requests' :
           r \in DOMAIN requests \/ mats'[requests'[r].milestone] # "REVOKED"
    BY <2>1, <2>2 DEF Appended, SetAt
  <2>7. QED
    BY <1>1, <2>3, <2>4, <2>5, <2>6, ApprovalParts
<1>4. CASE BootstrapReturns /\ ~BootstrapMaterialize
  <2>1. UNCHANGED <<mats, requests>>
    BY <1>4 DEF BootstrapReturns, BootstrapInactive, BootstrapUnplannable, BootstrapComplete,
       BootstrapArtifactUnmet, BootstrapLimitReached, BootstrapNothingNew
  <2>2. QED
    BY <1>1, <2>1, FrameApproval
<1>5. QED
  BY <1>2, <1>3, <1>4 DEF BootstrapMission

LEMMA ApprovalDelegation ==
  ASSUME IInv, Typed', NEW r \in DOMAIN requests, CreateDelegation(r), UNCHANGED mats
  PROVE  Approval'
<1> DEFINE e == [request |-> r, status |-> "Pending", claim |-> 0]
<1>1. TypeOK /\ Referenced /\ Typed /\ Approval
  BY DEF IInv, Structure, Typed
<1>2. /\ Appended(delegations', delegations, e)
      /\ RequestSetTo(requests', requests, r, "DISPATCHED")
      /\ e.request = r
  BY <1>1, CreateDelegationEffect
<1>3. LiveRequest(r)
  BY DEF CreateDelegation, LiveRequest, ActiveRequest, ACTIVE_REQUEST_STATES
<1> HIDE DEF e
<1>4. \A d \in DOMAIN delegations' :
         \/ d \in DOMAIN delegations /\ delegations'[d] = delegations[d]
         \/ delegations'[d].request = r
  BY <1>2 DEF Appended
<1>5. \A q \in DOMAIN requests :
         (\E d \in DOMAIN delegations' :
             ActiveDelegation(d)' /\ delegations'[d].request = q) => LiveRequest(q)
  BY <1>3, <1>4 DEF LiveRequest, ActiveDelegation
<1>6. \A q \in DOMAIN requests : LiveRequest(q)' => LiveRequest(q)
  BY <1>2, <1>3, <1>5, OneRequestChanges
<1>7. requests'[r].status \notin {"READY", "CLAIMED"}
  BY <1>2 DEF RequestSetTo
<1>8. QED
  BY <1>1, <1>2, <1>4, <1>6, <1>7, ApprovalOneRequest

LEMMA ApprovalDispatcher == ASSUME IInv, Typed', Dispatcher PROVE Approval'
<1>1. TypeOK /\ Referenced /\ Typed /\ Approval
  BY DEF IInv, Structure, Typed
<1>2. ASSUME NEW r \in DOMAIN requests, NEW s \in RequestStates,
             requests' = SetRequest(r, s), UNCHANGED <<mats, delegations>>,
             s \in {"READY", "CLAIMED"} => Revocable(r),
             s \in ACTIVE_REQUEST_STATES => LiveRequest(r)
      PROVE  Approval'
  <2>1. RequestSetTo(requests', requests, r, s)
    BY <1>1, <1>2, RequestEffect
  <2>2. \A q \in DOMAIN requests :
           (\E d \in DOMAIN delegations' :
               ActiveDelegation(d)' /\ delegations'[d].request = q) => LiveRequest(q)
    BY <1>2 DEF LiveRequest, ActiveDelegation
  <2>3. \A q \in DOMAIN requests : LiveRequest(q)' => LiveRequest(q)
    BY <1>2, <2>1, <2>2, OneRequestChanges
  <2>4. QED
    BY <1>1, <1>2, <2>1, <2>3, ApprovalOneRequest
<1>3. "CLAIMED" \in RequestStates /\ "FAILED" \in RequestStates
      /\ "FAILED" \notin ACTIVE_REQUEST_STATES
  BY DEF RequestStates, ACTIVE_REQUEST_STATES
<1>4. CASE ClaimReadyRequest
  <2>1. PICK r \in DOMAIN requests :
           requests[r].status = "READY" /\ requests' = SetRequest(r, "CLAIMED")
    BY <1>4 DEF ClaimReadyRequest
  <2>2. LiveRequest(r) /\ Revocable(r)
    BY <2>1 DEF LiveRequest, ActiveRequest, ACTIVE_REQUEST_STATES, Revocable
  <2>3. QED
    BY <1>2, <1>3, <1>4, <2>1, <2>2 DEF ClaimReadyRequest
<1>5. ASSUME NEW r \in dispatching, DispatchRequest(r) PROVE Approval'
  <2>1. r \in DOMAIN requests /\ UNCHANGED mats
    BY <1>1, <1>5, Kept DEF DispatchRequest
  <2>2. CASE CreateDelegation(r)
    BY <2>1, <2>2, ApprovalDelegation
  <2>3. CASE UNCHANGED work
    BY <1>1, <2>1, <2>3, FrameApproval DEF work
  <2>4. CASE requests' = SetRequest(r, "FAILED") /\ UNCHANGED delegations
    BY <1>2, <1>3, <2>1, <2>4
  <2>5. QED
    BY <1>5, <2>2, <2>3, <2>4 DEF DispatchRequest
<1>6. QED
  BY <1>4, <1>5, NoQuarantine DEF Dispatcher

LEMMA ApprovalFailure ==
  ASSUME IInv, Typed', NEW d \in DOMAIN delegations, NEW transient \in BOOLEAN,
         ExecutionFailure(d, transient)
  PROVE  Approval'
<1> DEFINE r == delegations[d].request
           e == NewRequest(requests[r].milestone, requests[r].attempt + 1)
<1>1. TypeOK /\ Referenced /\ Structure /\ Typed /\ Approval /\ UNCHANGED mats
  BY DEF IInv, Structure, Typed, ExecutionFailure
<1>2. CASE UNCHANGED work
  BY <1>1, <1>2, FrameApproval DEF work
<1>3. ASSUME ActiveDelegation(d),
             DelegationSetTo(delegations', delegations, d, "FAILED"),
             \/ RequestSetTo(requests', requests, r, "FAILED")
             \/ \E failed \in Seq(Request) :
                   /\ RequestSetTo(failed, requests, r, "FAILED")
                   /\ Appended(requests', failed, e)
      PROVE  Approval'
  <2>1. "FAILED" \notin ACTIVE_REQUEST_STATES /\ "FAILED" \notin ACTIVE_DELEGATION_STATES
    BY DEF ACTIVE_REQUEST_STATES, ACTIVE_DELEGATION_STATES
  <2>2. r \in DOMAIN requests /\ LiveRequest(r)
    BY <1>1, <1>3 DEF Referenced, LiveRequest
  <2>3. mats[requests[r].milestone] # "REVOKED" /\ e.milestone = requests[r].milestone
    BY <1>1, <2>2 DEF Approval, RevokedIdle, NewRequest
  <2>4. \A c \in DOMAIN delegations' :
           c \in DOMAIN delegations /\ delegations'[c].request = delegations[c].request
    BY <1>3 DEF DelegationSetTo, Same
  <2>5. \A after :
           RequestSetTo(after, requests, r, "FAILED") =>
              \A q \in DOMAIN requests :
                 requests'[q] = after[q] /\ LiveRequest(q)' => LiveRequest(q) /\ q # r
    BY <1>1, <1>3, <2>1, ClosedRequest
  <2> HIDE DEF r, e
  <2>6. CASE RequestSetTo(requests', requests, r, "FAILED")
    BY <1>1, <2>2, <2>4, <2>5, <2>6, ApprovalOneRequest
  <2>7. ASSUME NEW failed \in Seq(Request), RequestSetTo(failed, requests, r, "FAILED"),
               Appended(requests', failed, e)
        PROVE  Approval'
    <3>1. \A q \in DOMAIN requests :
             /\ q \in DOMAIN requests'
             /\ requests'[q] = failed[q]
             /\ requests'[q].milestone = requests[q].milestone
             /\ Revocable(q)' => Revocable(q)
      BY <2>7 DEF RequestSetTo, Same, Appended, Revocable
    <3>2. \A q \in DOMAIN requests : LiveRequest(q)' => LiveRequest(q)
      BY <2>5, <2>7, <3>1
    <3>3. \A q \in DOMAIN requests' :
             q \in DOMAIN requests \/ mats'[requests'[q].milestone] # "REVOKED"
      BY <1>1, <2>3, <2>7 DEF RequestSetTo, Same, Appended
    <3>4. QED
      BY <1>1, <2>4, <3>1, <3>2, <3>3, ApprovalParts
  <2>8. QED
    BY <1>3, <2>6, <2>7
<1>4. QED
  BY <1>1, <1>2, <1>3, FailureEffect

LEMMA ApprovalWorker == ASSUME IInv, Typed', Worker PROVE Approval'
<1>1. TypeOK /\ Referenced /\ Structure /\ Typed /\ Approval
  BY DEF IInv, Structure, Typed
<1>2. CASE ClaimPendingDelegation
  <2>1. PICK d \in DOMAIN delegations :
           /\ delegations[d].status = "Pending"
           /\ DelegationClaimed(delegations', delegations, d, Len(claims'))
           /\ RequestSetTo(requests', requests, delegations[d].request, "RUNNING")
    BY <1>1, <1>2, ClaimPendingEffect
  <2>2. ActiveDelegation(d) /\ "Claimed" \in ACTIVE_DELEGATION_STATES
    BY <2>1 DEF ActiveDelegation, ACTIVE_DELEGATION_STATES
  <2>3. delegations[d].request \in DOMAIN requests /\ LiveRequest(delegations[d].request)
    BY <1>1, <2>2 DEF Referenced, LiveRequest
  <2>4. \A c \in DOMAIN delegations' :
           /\ c \in DOMAIN delegations /\ delegations'[c].request = delegations[c].request
           /\ ActiveDelegation(c)' => ActiveDelegation(c)
    BY <2>1, <2>2 DEF DelegationClaimed, Same, ActiveDelegation
  <2>5. \A q \in DOMAIN requests :
           (\E c \in DOMAIN delegations' :
               ActiveDelegation(c)' /\ delegations'[c].request = q) => LiveRequest(q)
    BY <2>4 DEF LiveRequest
  <2>6. \A q \in DOMAIN requests : LiveRequest(q)' => LiveRequest(q)
    BY <2>1, <2>3, <2>5, OneRequestChanges
  <2>7. QED
    BY <1>1, <1>2, <2>1, <2>3, <2>4, <2>6, ApprovalOneRequest DEF ClaimPendingDelegation
<1>3. ASSUME NEW d \in claimedBy, MarkDelegationRunning(d) PROVE Approval'
  <2>1. UNCHANGED <<mats, requests>> /\ d \in DOMAIN delegations
    BY <1>1, <1>3, Kept DEF MarkDelegationRunning
  <2>2. CASE UNCHANGED delegations
    BY <1>1, <2>1, <2>2, FrameApproval
  <2>3. CASE /\ delegations[d].status \in {"Claimed", "Running"}
             /\ DelegationSetTo(delegations', delegations, d, "Running")
    <3>1. \A c \in DOMAIN delegations' :
             /\ c \in DOMAIN delegations /\ delegations'[c].request = delegations[c].request
             /\ ActiveDelegation(c)' => ActiveDelegation(c)
      BY <2>3 DEF DelegationSetTo, Same, ActiveDelegation, ACTIVE_DELEGATION_STATES
    <3>2. \A q \in DOMAIN requests :
             /\ LiveRequest(q)' => LiveRequest(q)
             /\ Revocable(q)' => Revocable(q)
      BY <2>1, <3>1 DEF LiveRequest, ActiveRequest, Revocable
    <3>3. QED
      BY <1>1, <2>1, <3>1, <3>2, ApprovalParts
  <2>4. QED
    BY <1>1, <1>3, <2>1, <2>2, <2>3, MarkRunningEffect
<1>4. ASSUME NEW d \in executing, NEW a \in Artifacts, NEW ev \in Evidence,
             CompleteDelegation(d, a, ev)
      PROVE  Approval'
  <2>1. d \in DOMAIN delegations /\ UNCHANGED mats
    BY <1>1, <1>4, Kept DEF CompleteDelegation
  <2>2. /\ ActiveDelegation(d)
        /\ RequestSetTo(requests', requests, delegations[d].request, "COMPLETED")
        /\ DelegationSetTo(delegations', delegations, d, "Completed")
    BY <1>1, <1>4, <2>1, CompleteEffect
  <2>3. /\ "COMPLETED" \notin ACTIVE_REQUEST_STATES
        /\ "Completed" \notin ACTIVE_DELEGATION_STATES
    BY DEF ACTIVE_REQUEST_STATES, ACTIVE_DELEGATION_STATES
  <2>4. \A q \in DOMAIN requests : LiveRequest(q)' => LiveRequest(q)
    BY <1>1, <2>1, <2>2, <2>3, ClosedRequest
  <2>5. \A c \in DOMAIN delegations' :
           c \in DOMAIN delegations /\ delegations'[c].request = delegations[c].request
    BY <2>2 DEF DelegationSetTo, Same
  <2>6. delegations[d].request \in DOMAIN requests
    BY <1>1, <2>1 DEF Referenced
  <2>7. QED
    BY <1>1, <2>1, <2>2, <2>4, <2>5, <2>6, ApprovalOneRequest
<1>5. ASSUME NEW d \in executing, LateAnswer(d) PROVE Approval'
  BY <1>1, <1>5, FrameApproval DEF LateAnswer, work
<1>6. ASSUME NEW d \in executing, NEW ev \in Evidence, RejectEvidence(d, ev)
      PROVE  Approval'
  BY <1>1, <1>6, ApprovalFailure, Kept DEF RejectEvidence
<1>7. ASSUME NEW d \in executing, SpecialistFails(d) PROVE Approval'
  BY <1>1, <1>7, ApprovalFailure, Kept DEF SpecialistFails
<1>8. QED
  BY <1>2, <1>3, <1>4, <1>5, <1>6, <1>7 DEF Worker, SpecialistSucceeds

\* Revocation takes the only live request of its milestone, and that one has no
\* delegation.
LEMMA ApprovalRevoke ==
  ASSUME IInv, Typed', NEW m \in DOMAIN mats, RevokeMaterialization(m) PROVE Approval'
<1>1. TypeOK /\ Referenced /\ Structure /\ Typed /\ Approval /\ UNCHANGED delegations
  BY DEF IInv, Structure, Typed, RevokeMaterialization
<1>2. PICK r \in DOMAIN requests :
         FirstRequest(m, r) /\ Revocable(r) /\ requests' = SetRequest(r, "BLOCKED")
  BY DEF RevokeMaterialization
<1>3. RequestSetTo(requests', requests, r, "BLOCKED")
  <2>1. "BLOCKED" \in RequestStates
    BY DEF RequestStates
  <2>2. QED
    BY <1>1, <1>2, <2>1, RequestEffect
<1>4. /\ DOMAIN mats' = DOMAIN mats
      /\ \A n \in DOMAIN mats : n # m => mats'[n] = mats[n]
  BY <1>1, RevokeEffect DEF SetAt, Same
<1>5. \A q \in DOMAIN requests :
         (\E d \in DOMAIN delegations' :
             ActiveDelegation(d)' /\ delegations'[d].request = q) => LiveRequest(q) /\ q # r
  BY <1>1, <1>2 DEF LiveRequest, ActiveDelegation, Approval, DelegatedPast
<1>6. /\ DOMAIN requests' = DOMAIN requests
      /\ \A q \in DOMAIN requests :
            /\ requests'[q].milestone = requests[q].milestone
            /\ LiveRequest(q)' => LiveRequest(q) /\ q # r
            /\ Revocable(q)' => Revocable(q)
  BY <1>3, <1>5 DEF RequestSetTo, Same, LiveRequest, ActiveRequest, ACTIVE_REQUEST_STATES,
     Revocable
<1>7. DelegatedPast'
  <2>1. \A d \in DOMAIN delegations : delegations[d].request \in DOMAIN requests
    BY <1>1 DEF Referenced
  <2>2. \A d \in DOMAIN delegations : ~Revocable(delegations[d].request)
    BY <1>1 DEF Approval, DelegatedPast
  <2>3. \A d \in DOMAIN delegations :
           requests'[delegations[d].request].status \notin {"READY", "CLAIMED"}
    BY <1>3, <2>1, <2>2 DEF RequestSetTo, Revocable
  <2>4. QED
    BY <1>1, <2>3 DEF DelegatedPast, Revocable
<1>8. ASSUME NEW q \in DOMAIN requests, requests[q].milestone = m PROVE ~LiveRequest(q)'
  <2>1. CASE q = r
    BY <1>6, <2>1
  <2>2. CASE q # r
    <3>1. LiveRequest(r) /\ requests[r].milestone = m /\ r <= q
      BY <1>2, <1>8 DEF FirstRequest, Revocable, LiveRequest, ActiveRequest,
         ACTIVE_REQUEST_STATES
    <3>2. q \in Nat /\ r \in Nat
      BY <1>1, Lists
    <3>3. r < q
      BY <2>2, <3>1, <3>2
    <3>4. QED
      BY <1>1, <1>8, <3>1, <3>3 DEF Structure, AttemptOrder
  <2>3. QED
    BY <2>1, <2>2
<1>9. RevokedIdle'
  <2>1. \A q \in DOMAIN requests : requests[q].milestone \in DOMAIN mats
    BY <1>1 DEF Referenced
  <2>2. QED
    BY <1>1, <1>4, <1>6, <1>8, <2>1 DEF Approval, RevokedIdle
<1>10. QED
  BY <1>7, <1>9 DEF Approval

LEMMA ApprovalStep == ASSUME IInv, [Next]_vars, Typed' PROVE Approval'
<1>1. TypeOK /\ Referenced /\ Typed /\ Approval
  BY DEF IInv, Structure, Typed
<1>2. ASSUME UNCHANGED <<mats, work>> PROVE Approval'
  BY <1>1, <1>2, FrameApproval DEF work
<1>3. CASE UNCHANGED vars
  BY <1>2, <1>3 DEF vars
<1>4. CASE CanaryChainEnds \/ Owner \/ Crash \/ DirectorPause \/ DirectorResume
  BY <1>2, <1>4 DEF CanaryChainEnds, Owner, OwnerPause, OwnerResume, OwnerCancel, Crash,
     DirectorPause, DirectorResume, UpdateMissionStatus
<1>5. ASSUME NEW m \in DOMAIN mats, ApproveMaterialization(m) PROVE Approval'
  <2>1. /\ UNCHANGED delegations
        /\ SetAt(mats', mats, m, "EXECUTION_READY")
        /\ UNCHANGED requests \/ Appended(requests', requests, NewRequest(m, 1))
    BY <1>1, <1>5, ApproveEffect DEF ApproveMaterialization
  <2>2. NewRequest(m, 1).milestone = m
    BY DEF NewRequest
  <2>3. \A r \in DOMAIN requests :
           requests'[r] = requests[r] =>
              (LiveRequest(r)' => LiveRequest(r)) /\ (Revocable(r)' => Revocable(r))
    BY <2>1 DEF Revocable, LiveRequest, ActiveRequest, ActiveDelegation
  <2>4. \A n \in DOMAIN mats : mats'[n] = "REVOKED" => mats[n] = "REVOKED"
    BY <2>1 DEF SetAt
  <2>5. \A r \in DOMAIN requests : r \in DOMAIN requests' /\ requests'[r] = requests[r]
    BY <2>1 DEF Appended
  <2>6. \A r \in DOMAIN requests' :
           r \in DOMAIN requests \/ mats'[requests'[r].milestone] # "REVOKED"
    BY <2>1, <2>2 DEF Appended, SetAt
  <2>7. QED
    BY <1>1, <2>1, <2>3, <2>4, <2>5, <2>6, ApprovalParts
<1>6. ASSUME NEW m \in DOMAIN mats, RejectMaterialization(m) PROVE Approval'
  <2>1. /\ UNCHANGED <<requests, delegations>>
        /\ \A n \in DOMAIN mats : mats'[n] = "REVOKED" => mats[n] = "REVOKED"
    BY <1>6 DEF RejectMaterialization, work
  <2>2. QED
    BY <1>1, <2>1, ApprovalParts DEF Revocable, LiveRequest, ActiveRequest, ActiveDelegation
<1>7. CASE Director
  BY <1>4, <1>5, <1>6, <1>7, ApprovalDelegation, ApprovalRevoke DEF Director, DirectorDispatch
<1>8. CASE Environment
  <2>1. ASSUME NEW c, NEW v, NEW s, RecordSuccessEvidence(c, v, s) PROVE Approval'
    BY <1>2, <2>1 DEF RecordSuccessEvidence
  <2>2. ASSUME NEW d \in claimedBy \cup executing \cup finishing, WorkerRaises(d)
        PROVE  Approval'
    BY <1>1, <2>2, ApprovalFailure, Kept DEF WorkerRaises
  <2>3. QED
    BY <1>4, <1>8, <2>1, <2>2 DEF Environment
<1>9. QED
  BY <1>3, <1>4, <1>7, <1>8, ApprovalBootstrap, ApprovalDispatcher, ApprovalWorker DEF Next

------------------------------------------------------------------------------
(* Standing is inductive.                                                  *)

LEMMA NotRunning == ASSUME progression' # "RUNNING" PROVE RunningHasWork'
  BY DEF RunningHasWork

LEMMA EscalateStands == ASSUME Escalate PROVE progression' # "RUNNING" /\ status' # "COMPLETED"
  BY DEF Escalate

LEMMA BlockStands ==
  ASSUME Block, status' = status \/ status' = "WAITING_DIRECTOR" PROVE RunningHasWork'
  BY DEF Block, RunningHasWork, TERMINAL_MISSION_STATES

LEMMA RunningFrame ==
  ASSUME RunningHasWork, UNCHANGED <<status, progression, requests>>,
         DOMAIN delegations' = DOMAIN delegations,
         \A d \in DOMAIN delegations :
            /\ delegations'[d].request = delegations[d].request
            /\ ActiveDelegation(d) => ActiveDelegation(d)'
  PROVE  RunningHasWork'
  BY DEF RunningHasWork, ActiveRequest

LEMMA RunningKept ==
  ASSUME RunningHasWork, UNCHANGED <<status, progression, requests, delegations>>
  PROVE  RunningHasWork'
  BY RunningFrame DEF ActiveDelegation

LEMMA RunningStep == ASSUME IInv, [Next]_vars PROVE RunningHasWork'
<1>1. Typed /\ Structure /\ TypeOK /\ Referenced /\ RunningHasWork
  BY DEF IInv, Structure, Typed, Standing
<1>2. CASE UNCHANGED vars
  BY <1>1, <1>2, RunningKept DEF vars, lifecycle, work
<1>3. CASE BootstrapMission
  <2>1. CASE BootstrapInactive \/ BootstrapNothingNew
    BY <1>1, <1>3, <2>1, RunningKept
    DEF BootstrapMission, BootstrapInactive, BootstrapNothingNew, lifecycle
  <2>2. CASE BootstrapUnplannable \/ BootstrapArtifactUnmet \/ BootstrapLimitReached
    BY <2>2, EscalateStands, NotRunning
    DEF BootstrapUnplannable, BootstrapArtifactUnmet, BootstrapLimitReached
  <2>3. CASE BootstrapComplete
    BY <2>3, NotRunning DEF BootstrapComplete
  <2>4. CASE BootstrapReplan
    BY <2>4, NotRunning DEF BootstrapReplan
  <2>5. CASE BootstrapMaterialize
    <3>1. progression' \in {"WAITING", "READY"}
      BY <2>5 DEF BootstrapMaterialize
    <3>2. QED
      BY <3>1, NotRunning
  <2>6. QED
    BY <1>3, <2>1, <2>2, <2>3, <2>4, <2>5 DEF BootstrapMission, BootstrapReturns
<1>4. CASE CanaryChainEnds
  <2>1. CASE Block
    BY <1>4, <2>1, BlockStands DEF CanaryChainEnds
  <2>2. CASE UNCHANGED <<progression, autoContinue>>
    BY <1>1, <1>4, <2>2, RunningKept DEF CanaryChainEnds, work
  <2>3. QED
    BY <1>4, <2>1, <2>2 DEF CanaryChainEnds
<1>5. ASSUME NEW r, CreateDelegation(r) PROVE RunningHasWork'
  BY <1>5, NotRunning DEF CreateDelegation
<1>6. CASE Dispatcher
  <2>1. CASE ClaimReadyRequest
    BY <2>1, NotRunning DEF ClaimReadyRequest
  <2>2. ASSUME NEW r \in dispatching, DispatchRequest(r) PROVE RunningHasWork'
    <3>1. CASE CreateDelegation(r)
      BY <1>5, <3>1
    <3>2. CASE UNCHANGED <<lifecycle, work>>
      BY <1>1, <3>2, RunningKept DEF lifecycle, work
    <3>3. CASE Block /\ UNCHANGED status
      BY <3>3, BlockStands
    <3>4. QED
      BY <2>2, <3>1, <3>2, <3>3 DEF DispatchRequest
  <2>3. QED
    BY <1>6, <2>1, <2>2, NoQuarantine DEF Dispatcher
<1>7. ASSUME NEW d \in DOMAIN delegations, NEW transient \in BOOLEAN,
             ExecutionFailure(d, transient)
      PROVE  RunningHasWork'
  <2>1. progression' \in {"READY", "ESCALATION_REQUIRED"}
    BY <1>7 DEF ExecutionFailure, Escalate
  <2>2. QED
    BY <2>1, NotRunning
<1>8. CASE Worker
  <2>1. CASE ClaimPendingDelegation
    <3>1. PICK d \in DOMAIN delegations :
             /\ DelegationClaimed(delegations', delegations, d, Len(claims'))
             /\ RequestSetTo(requests', requests, delegations[d].request, "RUNNING")
      BY <1>1, <2>1, ClaimPendingEffect
    <3>2. d \in DOMAIN delegations' /\ ActiveDelegation(d)'
      BY <3>1 DEF DelegationClaimed, Same, ActiveDelegation, ACTIVE_DELEGATION_STATES
    <3>3. delegations'[d].request = delegations[d].request
          /\ delegations[d].request \in DOMAIN requests
      BY <1>1, <3>1 DEF DelegationClaimed, Referenced
    <3>4. requests'[delegations[d].request].status = "RUNNING"
      BY <3>1, <3>3 DEF RequestSetTo
    <3>5. requests'[delegations'[d].request].status \in ACTIVE_REQUEST_STATES
      BY <3>3, <3>4 DEF ACTIVE_REQUEST_STATES
    <3>6. QED
      BY <3>2, <3>5 DEF RunningHasWork, ActiveRequest
  <2>2. ASSUME NEW d \in claimedBy, MarkDelegationRunning(d) PROVE RunningHasWork'
    <3>1. d \in DOMAIN delegations /\ UNCHANGED <<status, progression, requests>>
      BY <1>1, <2>2, Kept DEF MarkDelegationRunning, lifecycle
    <3>2. CASE UNCHANGED delegations
      BY <1>1, <3>1, <3>2, RunningKept
    <3>3. CASE DelegationSetTo(delegations', delegations, d, "Running")
      BY <1>1, <3>1, <3>3, RunningFrame
      DEF DelegationSetTo, Same, ActiveDelegation, ACTIVE_DELEGATION_STATES
    <3>4. QED
      BY <1>1, <2>2, <3>1, <3>2, <3>3, MarkRunningEffect
  <2>3. ASSUME NEW d \in executing, SpecialistSucceeds(d) PROVE RunningHasWork'
    <3>1. progression' = "READY"
      BY <2>3 DEF SpecialistSucceeds, CompleteDelegation
    <3>2. QED
      BY <3>1, NotRunning
  <2>4. ASSUME NEW d \in executing,
               SpecialistFails(d) \/ \E ev \in Evidence : RejectEvidence(d, ev)
        PROVE  RunningHasWork'
    BY <1>1, <1>7, <2>4, Kept DEF SpecialistFails, RejectEvidence
  <2>5. ASSUME NEW d \in executing, LateAnswer(d) PROVE RunningHasWork'
    BY <1>1, <2>5, RunningKept DEF LateAnswer, lifecycle, work
  <2>6. QED
    BY <1>8, <2>1, <2>2, <2>3, <2>4, <2>5 DEF Worker
<1>9. ASSUME NEW s \in {"PAUSED", "ACTIVE", "CANCELLED"}, UpdateMissionStatus(s)
      PROVE  RunningHasWork'
  BY <1>9 DEF UpdateMissionStatus, RunningHasWork, TERMINAL_MISSION_STATES
<1>10. CASE Director
  <2>1. CASE DirectorPause \/ DirectorResume
    BY <1>9, <2>1 DEF DirectorPause, DirectorResume
  <2>2. ASSUME NEW r \in DOMAIN requests, DirectorDispatch(r) PROVE RunningHasWork'
    BY <1>5, <2>2 DEF DirectorDispatch
  <2>3. ASSUME NEW m \in DOMAIN mats, ApproveMaterialization(m) PROVE RunningHasWork'
    BY <2>3, NotRunning DEF ApproveMaterialization
  <2>4. ASSUME NEW m \in DOMAIN mats, RejectMaterialization(m) \/ RevokeMaterialization(m)
        PROVE  RunningHasWork'
    BY <2>4, BlockStands DEF RejectMaterialization, RevokeMaterialization
  <2>5. QED
    BY <1>10, <2>1, <2>2, <2>3, <2>4 DEF Director
<1>11. CASE Owner
  BY <1>9, <1>11 DEF Owner, OwnerPause, OwnerResume, OwnerCancel
<1>12. CASE Environment
  <2>1. ASSUME NEW c, NEW v, NEW s, RecordSuccessEvidence(c, v, s) PROVE RunningHasWork'
    BY <1>1, <2>1, RunningKept DEF RecordSuccessEvidence, lifecycle, work
  <2>2. ASSUME NEW d \in claimedBy \cup executing \cup finishing, WorkerRaises(d)
        PROVE  RunningHasWork'
    BY <1>1, <1>7, <2>2, Kept DEF WorkerRaises
  <2>3. CASE Crash
    BY <1>1, <2>3, RunningKept DEF Crash, lifecycle, work
  <2>4. QED
    BY <1>12, <2>1, <2>2, <2>3 DEF Environment
<1>13. QED
  BY <1>2, <1>3, <1>4, <1>6, <1>8, <1>10, <1>11, <1>12 DEF Next

LEMMA LimitsStep == ASSUME IInv, [Next]_vars PROVE WithinLimits'
<1>1. TypeOK /\ WithinLimits
  BY DEF IInv, Standing
<1>2. plan \in [version : Nat, replans : Nat, batches : Nat, strategies : Nat,
                zeroProgress : Nat, lastVerified : Nat]
  BY <1>1 DEF TypeOK, PlanOK
<1> DEFINE Keeps == /\ plan'.version = plan.version
                    /\ plan'.replans = plan.replans
                    /\ plan'.batches = plan.batches
<1>3. CASE Keeps
  BY <1>1, <1>3 DEF WithinLimits
<1>4. CASE BootstrapReplan
  <2>1. /\ plan'.version = plan.version + 1
        /\ plan'.replans = plan.replans + 1
        /\ plan'.batches = plan.batches + 1
        /\ ~(plan.replans >= MAX_PLAN_LOOPS) /\ ~(plan.batches >= MAX_OUTREACH_BATCHES)
    BY <1>4 DEF BootstrapReplan, ReplanLimitReached
  <2>2. MAX_PLAN_LOOPS \in Nat /\ MAX_OUTREACH_BATCHES \in Nat
    BY MissionAssumption
  <2>3. plan.replans \in Nat /\ plan.batches \in Nat /\ plan.version \in Nat
    BY <1>2
  <2>4. QED
    BY <1>1, <2>1, <2>2, <2>3 DEF WithinLimits
<1>5. CASE BootstrapLimitReached
  BY <1>2, <1>3, <1>5 DEF BootstrapLimitReached
<1>6. CASE UNCHANGED plan
  BY <1>3, <1>6
<1>7. CASE BootstrapMission
  BY <1>4, <1>5, <1>6, <1>7 DEF BootstrapMission, BootstrapReturns, BootstrapInactive,
     BootstrapUnplannable, BootstrapComplete, BootstrapArtifactUnmet, BootstrapNothingNew,
     BootstrapMaterialize
<1>8. CASE Dispatcher
  BY <1>6, <1>8 DEF Dispatcher, QuarantineUnsafeMission, ClaimReadyRequest, DispatchRequest
<1>9. ASSUME NEW d, NEW transient, ExecutionFailure(d, transient) PROVE UNCHANGED plan
  BY <1>9 DEF ExecutionFailure
<1>10. CASE Worker
  <2>1. CASE ClaimPendingDelegation
    BY <1>6, <2>1 DEF ClaimPendingDelegation
  <2>2. ASSUME NEW d \in claimedBy, MarkDelegationRunning(d) PROVE UNCHANGED plan
    BY <2>2 DEF MarkDelegationRunning
  <2>3. ASSUME NEW d \in executing, SpecialistSucceeds(d) PROVE UNCHANGED plan
    BY <2>3 DEF SpecialistSucceeds, CompleteDelegation
  <2>4. ASSUME NEW d \in executing,
               SpecialistFails(d) \/ \E ev \in Evidence : RejectEvidence(d, ev)
        PROVE  UNCHANGED plan
    BY <1>9, <2>4 DEF SpecialistFails, RejectEvidence
  <2>5. ASSUME NEW d \in executing, LateAnswer(d) PROVE UNCHANGED plan
    BY <2>5 DEF LateAnswer
  <2>6. QED
    BY <1>6, <1>10, <2>1, <2>2, <2>3, <2>4, <2>5 DEF Worker
<1>11. CASE Director
  <2>1. CASE DirectorPause \/ DirectorResume
    BY <1>6, <2>1 DEF DirectorPause, DirectorResume, UpdateMissionStatus
  <2>2. ASSUME NEW r \in DOMAIN requests, DirectorDispatch(r) PROVE UNCHANGED plan
    BY <2>2 DEF DirectorDispatch
  <2>3. ASSUME NEW m \in DOMAIN mats, ApproveMaterialization(m) \/ RejectMaterialization(m)
                                      \/ RevokeMaterialization(m)
        PROVE  UNCHANGED plan
    BY <2>3 DEF ApproveMaterialization, RejectMaterialization, RevokeMaterialization
  <2>4. QED
    BY <1>6, <1>11, <2>1, <2>2, <2>3 DEF Director
<1>12. CASE Owner
  BY <1>6, <1>12 DEF Owner, OwnerPause, OwnerResume, OwnerCancel, UpdateMissionStatus
<1>13. CASE Environment
  BY <1>6, <1>9, <1>13 DEF Environment, RecordSuccessEvidence, WorkerRaises, Crash
<1>14. CASE UNCHANGED vars \/ CanaryChainEnds
  BY <1>6, <1>14 DEF vars, CanaryChainEnds
<1>15. QED
  BY <1>7, <1>8, <1>10, <1>11, <1>12, <1>13, <1>14 DEF Next

LEMMA OwnFrame ==
  ASSUME Typed, WorkersOwn, claimedBy' \subseteq claimedBy, executing' \subseteq executing,
         \A d \in DOMAIN delegations : delegations'[d] = delegations[d]
  PROVE  WorkersOwn'
  BY Kept DEF WorkersOwn

LEMMA OwnFailure ==
  ASSUME Typed, WorkersOwn, NEW d \in DOMAIN delegations, NEW transient \in BOOLEAN,
         ExecutionFailure(d, transient),
         claimedBy' \subseteq claimedBy \ {d}, executing' \subseteq executing \ {d}
  PROVE  WorkersOwn'
<1>1. CASE UNCHANGED work
  BY <1>1, OwnFrame DEF work
<1>2. CASE DelegationSetTo(delegations', delegations, d, "FAILED")
  BY <1>2, Kept DEF DelegationSetTo, WorkersOwn
<1>3. QED
  BY <1>1, <1>2, FailureEffect DEF Typed

LEMMA OwnStep == ASSUME IInv, [Next]_vars PROVE WorkersOwn'
<1>1. Typed /\ TypeOK /\ Referenced /\ WorkersOwn
  BY DEF IInv, Structure, Typed, Standing
<1> DEFINE Frame == /\ claimedBy' \subseteq claimedBy /\ executing' \subseteq executing
                    /\ UNCHANGED delegations
<1>2. ASSUME Frame PROVE WorkersOwn'
  BY <1>1, <1>2, OwnFrame
<1>3. CASE UNCHANGED vars
  BY <1>2, <1>3 DEF vars, work, volatile
<1>4. CASE BootstrapMission \/ CanaryChainEnds
  BY <1>2, <1>4 DEF BootstrapMission, CanaryChainEnds, work
<1>5. ASSUME NEW r \in DOMAIN requests, CreateDelegation(r),
             claimedBy' \subseteq claimedBy, executing' \subseteq executing
      PROVE  WorkersOwn'
  <2>1. \A d \in DOMAIN delegations : delegations'[d] = delegations[d]
    BY <1>1, <1>5, CreateDelegationEffect DEF Appended
  <2>2. QED
    BY <1>1, <1>5, <2>1, OwnFrame
<1>6. CASE Dispatcher
  <2>1. CASE ClaimReadyRequest
    BY <1>2, <2>1 DEF ClaimReadyRequest
  <2>2. ASSUME NEW r \in dispatching, DispatchRequest(r) PROVE WorkersOwn'
    <3>1. r \in DOMAIN requests /\ claimedBy' \subseteq claimedBy /\ executing' \subseteq executing
      BY <1>1, <2>2, Kept DEF DispatchRequest
    <3>2. CreateDelegation(r) \/ UNCHANGED delegations
      BY <2>2 DEF DispatchRequest, work
    <3>3. QED
      BY <1>2, <1>5, <3>1, <3>2
  <2>3. QED
    BY <1>6, <2>1, <2>2, NoQuarantine DEF Dispatcher
<1>7. ASSUME NEW d \in executing, NEW transient \in BOOLEAN, ExecutionFailure(d, transient),
             claimedBy' = claimedBy, executing' = executing \ {d}
      PROVE  WorkersOwn'
  <2>1. d \in DOMAIN delegations /\ d \notin claimedBy
    BY <1>1, Kept DEF WorkersOwn
  <2>2. QED
    BY <1>1, <1>7, <2>1, OwnFailure
<1>8. CASE Worker
  <2>1. CASE ClaimPendingDelegation
    <3>1. PICK d \in DOMAIN delegations :
             /\ delegations[d].status = "Pending"
             /\ DelegationClaimed(delegations', delegations, d, Len(claims'))
             /\ claimedBy' = claimedBy \cup {d}
      BY <1>1, <2>1, ClaimPendingEffect
    <3>2. d \notin claimedBy /\ d \notin executing /\ executing' = executing
      BY <1>1, <2>1, <3>1 DEF WorkersOwn, ClaimPendingDelegation
    <3>3. QED
      BY <1>1, <3>1, <3>2, Kept DEF WorkersOwn, DelegationClaimed
  <2>2. ASSUME NEW d \in claimedBy, MarkDelegationRunning(d) PROVE WorkersOwn'
    <3>1. d \in DOMAIN delegations /\ claimedBy' = claimedBy \ {d}
      BY <1>1, <2>2, Kept DEF MarkDelegationRunning
    <3>2. CASE UNCHANGED <<delegations, executing>>
      BY <1>2, <3>1, <3>2
    <3>3. CASE DelegationSetTo(delegations', delegations, d, "Running")
               /\ executing' = executing \cup {d}
      BY <1>1, <3>1, <3>3, Kept DEF WorkersOwn, DelegationSetTo
    <3>4. QED
      BY <1>1, <2>2, <3>1, <3>2, <3>3, MarkRunningEffect
  <2>3. ASSUME NEW d \in executing, SpecialistSucceeds(d) PROVE WorkersOwn'
    <3>1. d \in DOMAIN delegations /\ d \notin claimedBy
      BY <1>1, Kept DEF WorkersOwn
    <3>2. /\ claimedBy' = claimedBy /\ executing' = executing \ {d}
          /\ DelegationSetTo(delegations', delegations, d, "Completed")
      BY <1>1, <2>3, <3>1, CompleteEffect DEF SpecialistSucceeds, CompleteDelegation
    <3>3. QED
      BY <1>1, <3>1, <3>2, Kept DEF WorkersOwn, DelegationSetTo
  <2>4. ASSUME NEW d \in executing,
               SpecialistFails(d) \/ \E ev \in Evidence : RejectEvidence(d, ev)
        PROVE  WorkersOwn'
    BY <1>7, <2>4 DEF SpecialistFails, RejectEvidence
  <2>5. ASSUME NEW d \in executing, LateAnswer(d) PROVE WorkersOwn'
    BY <1>2, <2>5 DEF LateAnswer, work
  <2>6. QED
    BY <1>8, <2>1, <2>2, <2>3, <2>4, <2>5 DEF Worker
<1>9. CASE Director
  <2>1. CASE DirectorPause \/ DirectorResume
    BY <1>2, <2>1 DEF DirectorPause, DirectorResume, UpdateMissionStatus, work
  <2>2. ASSUME NEW r \in DOMAIN requests, DirectorDispatch(r) PROVE WorkersOwn'
    BY <1>5, <2>2 DEF DirectorDispatch, volatile
  <2>3. ASSUME NEW m \in DOMAIN mats, ApproveMaterialization(m) \/ RejectMaterialization(m)
                                      \/ RevokeMaterialization(m)
        PROVE  WorkersOwn'
    BY <1>2, <2>3 DEF ApproveMaterialization, RejectMaterialization, RevokeMaterialization,
       volatile, work
  <2>4. QED
    BY <1>9, <2>1, <2>2, <2>3 DEF Director
<1>10. CASE Owner
  BY <1>2, <1>10 DEF Owner, OwnerPause, OwnerResume, OwnerCancel, UpdateMissionStatus, work
<1>11. CASE Environment
  <2>1. ASSUME NEW c, NEW v, NEW s, RecordSuccessEvidence(c, v, s) PROVE WorkersOwn'
    BY <1>2, <2>1 DEF RecordSuccessEvidence, work
  <2>2. ASSUME NEW d \in claimedBy \cup executing \cup finishing, WorkerRaises(d)
        PROVE  WorkersOwn'
    BY <1>1, <2>2, OwnFailure, Kept DEF WorkerRaises
  <2>3. CASE Crash
    BY <1>2, <2>3 DEF Crash, work
  <2>4. QED
    BY <1>11, <2>1, <2>2, <2>3 DEF Environment
<1>12. QED
  BY <1>3, <1>4, <1>6, <1>8, <1>9, <1>10, <1>11 DEF Next

\* Evidence is only added: once met, the criterion stays met.
LEMMA CountGrows ==
  ASSUME TypeOK, TypeOK', lineage \subseteq lineage', WonClients \subseteq WonClients',
         EvaluateCompletion
  PROVE  EvaluateCompletion'
<1>1. VerifiedArtifacts \subseteq VerifiedArtifacts'
  BY DEF VerifiedArtifacts
<1>2. IsFiniteSet(VerifiedArtifacts')
  <2>1. VerifiedArtifacts' \subseteq lineage' /\ IsFiniteSet(lineage')
    BY DEF VerifiedArtifacts, TypeOK, EvidenceOK
  <2>2. QED
    BY <2>1, FS_Subset
<1>3. IsFiniteSet(WonClients')
  <2>1. WonClients' \subseteq Clients /\ IsFiniteSet(Clients)
    BY MissionAssumption DEF WonClients
  <2>2. QED
    BY <2>1, FS_Subset
<1>4. /\ Cardinality(VerifiedArtifacts) <= Cardinality(VerifiedArtifacts')
      /\ Cardinality(WonClients) <= Cardinality(WonClients')
      /\ Cardinality(VerifiedArtifacts) \in Nat /\ Cardinality(VerifiedArtifacts') \in Nat
      /\ Cardinality(WonClients) \in Nat /\ Cardinality(WonClients') \in Nat
  BY <1>1, <1>2, <1>3, FS_Subset, FS_CardinalityType
<1>5. Required \in Nat
  BY MissionAssumption
<1>6. QED
  BY <1>4, <1>5 DEF EvaluateCompletion, VerifiedCount

Stays ==
    /\ UNCHANGED <<status, achieved, progression, delegations, lineage>>
    /\ WonClients \subseteq WonClients'
    /\ \A r \in DOMAIN requests' :
          r \in DOMAIN requests /\ (ActiveRequest(r)' => ActiveRequest(r))

Reopened == status' # "COMPLETED" /\ interventions' = interventions + 1

LEMMA CompletedIdle ==
  ASSUME IInv, status = "COMPLETED"
  PROVE  /\ claimedBy = {} /\ executing = {}
         /\ \A r \in DOMAIN requests : ~LiveRequest(r)
<1>1. Typed /\ Referenced /\ WorkersOwn
  BY DEF IInv, Structure, Typed, Standing
<1>2. \A r \in DOMAIN requests : ~LiveRequest(r)
  BY DEF IInv, Standing, CompletionHolds
<1>3. \A d \in DOMAIN delegations : ~ActiveDelegation(d)
  BY <1>1, <1>2 DEF Referenced, LiveRequest
<1>4. QED
  BY <1>1, <1>2, <1>3, Kept DEF WorkersOwn, ActiveDelegation, ACTIVE_DELEGATION_STATES

\* Only a command takes a mission out of COMPLETED.
LEMMA CompletedStep ==
  ASSUME IInv, [Next]_vars, status = "COMPLETED" PROVE Stays \/ Reopened
<1>1. Typed /\ TypeOK /\ claimedBy = {} /\ executing = {}
  BY CompletedIdle DEF IInv, Structure, Typed
<1> DEFINE Frame == UNCHANGED <<status, achieved, progression, delegations, lineage, requests>>
<1>2. ASSUME Frame, UNCHANGED outcomes PROVE Stays
  BY <1>2 DEF Stays, WonClients, ActiveRequest
<1>3. CASE UNCHANGED vars
  BY <1>2, <1>3 DEF vars, lifecycle, work
<1>4. CASE BootstrapMission
  <2>1. BootstrapInactive
    BY <1>4 DEF BootstrapMission, BootstrapReturns, BootstrapUnplannable, BootstrapComplete,
       BootstrapArtifactUnmet, BootstrapLimitReached, BootstrapNothingNew, BootstrapMaterialize,
       BootstrapReplan, PlanCompletedObjectiveUnmet, PlanWithinLimits
  <2>2. QED
    BY <1>2, <1>4, <2>1 DEF BootstrapMission, BootstrapInactive, lifecycle
<1>5. CASE CanaryChainEnds
  <2>1. UNCHANGED progression
    BY <1>5 DEF CanaryChainEnds
  <2>2. QED
    BY <1>2, <1>5, <2>1 DEF CanaryChainEnds, work
<1>6. CASE Dispatcher
  <2>1. ASSUME NEW r \in dispatching, DispatchRequest(r) PROVE Stays
    <3>1. /\ requests' = SetRequest(r, "FAILED") /\ Block
          /\ UNCHANGED <<status, achieved, delegations, lineage, outcomes>>
      BY <2>1 DEF DispatchRequest, CreateDelegation
    <3>2. "FAILED" \in RequestStates /\ "FAILED" \notin ACTIVE_REQUEST_STATES
          /\ r \in DOMAIN requests
      BY <1>1, Kept DEF RequestStates, ACTIVE_REQUEST_STATES
    <3>3. RequestSetTo(requests', requests, r, "FAILED")
      BY <1>1, <3>1, <3>2, RequestEffect
    <3>4. UNCHANGED progression
      BY <3>1 DEF Block, TERMINAL_MISSION_STATES
    <3>5. \A q \in DOMAIN requests' :
             q \in DOMAIN requests /\ (ActiveRequest(q)' => ActiveRequest(q))
      BY <3>2, <3>3 DEF RequestSetTo, Same, ActiveRequest
    <3>6. WonClients \subseteq WonClients'
      BY <3>1 DEF WonClients
    <3>7. QED
      BY <3>1, <3>4, <3>5, <3>6 DEF Stays
  <2>2. QED
    BY <1>6, <2>1 DEF Dispatcher, QuarantineUnsafeMission, ClaimReadyRequest
<1>7. CASE Worker
  BY <1>1, <1>7 DEF Worker, ClaimPendingDelegation, MayExecute
<1>8. CASE Owner
  BY <1>8 DEF Owner, OwnerPause, OwnerResume, OwnerCancel
<1>9. CASE Director
  <2>1. CASE DirectorPause \/ DirectorResume
    BY <2>1 DEF DirectorPause, DirectorResume, UpdateMissionStatus, Reopened
  <2>2. QED
    BY <1>9, <2>1 DEF Director, DirectorDispatch, CreateDelegation, ApproveMaterialization,
       RejectMaterialization, RevokeMaterialization
<1>10. CASE Environment
  <2>1. ASSUME NEW c \in Clients, NEW v \in BOOLEAN, NEW s \in OutcomeSources,
               RecordSuccessEvidence(c, v, s)
        PROVE  Stays
    <3>1. /\ ~outcomes[c].seen \/ (~outcomes[c].verified /\ v)
          /\ outcomes' = [outcomes EXCEPT ![c] = [seen |-> TRUE, verified |-> v, source |-> s]]
      BY <2>1 DEF RecordSuccessEvidence
    <3>2. outcomes \in [Clients -> Outcome]
      BY <1>1 DEF TypeOK, EvidenceOK
    <3>3. \A b \in Clients : b # c => outcomes'[b] = outcomes[b]
      BY <3>1, <3>2
    <3>4. c \notin WonClients
      BY <3>1 DEF WonClients
    <3>5. WonClients \subseteq WonClients'
      BY <3>3, <3>4 DEF WonClients
    <3>6. Frame
      BY <2>1 DEF RecordSuccessEvidence, lifecycle, work
    <3>7. QED
      BY <3>5, <3>6 DEF Stays, ActiveRequest
  <2>2. CASE Crash
    BY <1>2, <2>2 DEF Crash, lifecycle, work
  <2>3. QED
    BY <1>1, <1>10, <2>1, <2>2 DEF Environment, WorkerRaises, WorkerSaves
<1>11. QED
  BY <1>3, <1>4, <1>5, <1>6, <1>7, <1>8, <1>9, <1>10 DEF Next

LEMMA BecomesCompleted ==
  ASSUME IInv, [Next]_vars, status # "COMPLETED", status' = "COMPLETED"
  PROVE  BootstrapMission /\ BootstrapComplete
<1>1. ASSUME Escalate PROVE FALSE
  BY <1>1 DEF Escalate
<1>2. CASE UNCHANGED vars
  BY <1>2 DEF vars, lifecycle
<1>3. CASE BootstrapMission
  BY <1>1, <1>3 DEF BootstrapMission, BootstrapReturns, BootstrapInactive, BootstrapUnplannable,
     BootstrapArtifactUnmet, BootstrapLimitReached, BootstrapNothingNew, BootstrapMaterialize,
     BootstrapReplan, lifecycle
<1>4. CASE CanaryChainEnds
  BY <1>4 DEF CanaryChainEnds
<1>5. CASE Dispatcher
  BY <1>1, <1>5 DEF Dispatcher, QuarantineUnsafeMission, ClaimReadyRequest, DispatchRequest,
     CreateDelegation, lifecycle
<1>6. ASSUME NEW d, NEW transient, ExecutionFailure(d, transient) PROVE FALSE
  BY <1>1, <1>6 DEF ExecutionFailure
<1>7. CASE Worker
  <2>1. CASE ClaimPendingDelegation
    BY <2>1 DEF ClaimPendingDelegation
  <2>2. ASSUME NEW d \in claimedBy, MarkDelegationRunning(d) PROVE FALSE
    BY <2>2 DEF MarkDelegationRunning, lifecycle
  <2>3. ASSUME NEW d \in executing, SpecialistSucceeds(d) PROVE FALSE
    BY <2>3 DEF SpecialistSucceeds, CompleteDelegation
  <2>4. ASSUME NEW d \in executing,
               SpecialistFails(d) \/ \E ev \in Evidence : RejectEvidence(d, ev)
        PROVE  FALSE
    BY <1>6, <2>4 DEF SpecialistFails, RejectEvidence
  <2>5. ASSUME NEW d \in executing, LateAnswer(d) PROVE FALSE
    BY <2>5 DEF LateAnswer, lifecycle
  <2>6. QED
    BY <1>7, <2>1, <2>2, <2>3, <2>4, <2>5 DEF Worker
<1>8. CASE Owner
  BY <1>8 DEF Owner, OwnerPause, OwnerResume, OwnerCancel, UpdateMissionStatus
<1>9. CASE Director
  BY <1>9 DEF Director, DirectorPause, DirectorResume, UpdateMissionStatus, DirectorDispatch,
     CreateDelegation, ApproveMaterialization, RejectMaterialization, RevokeMaterialization
<1>10. CASE Environment
  BY <1>6, <1>10 DEF Environment, RecordSuccessEvidence, WorkerRaises, Crash, lifecycle
<1>11. QED
  BY <1>2, <1>3, <1>4, <1>5, <1>7, <1>8, <1>9, <1>10 DEF Next

LEMMA CompletionStep == ASSUME IInv, [Next]_vars, Typed' PROVE CompletionHolds'
<1>1. TypeOK /\ Referenced /\ Structure /\ Typed /\ TypeOK' /\ Referenced'
  BY DEF IInv, Structure, Typed
<1> SUFFICES ASSUME status' = "COMPLETED" PROVE CompletionHolds'
  BY DEF CompletionHolds
<1>2. CASE status = "COMPLETED"
  <2>1. Stays
    BY <1>2, CompletedStep DEF Reopened
  <2>2. achieved /\ progression # "RUNNING" /\ EvaluateCompletion
    BY <1>2 DEF IInv, Standing, CompletionHolds
  <2>3. EvaluateCompletion'
    BY <1>1, <2>1, <2>2, CountGrows DEF Stays
  <2>4. \A r \in DOMAIN requests' : ~LiveRequest(r)'
    BY <1>2, <2>1, CompletedIdle DEF Stays, LiveRequest, ActiveDelegation
  <2>5. QED
    BY <2>1, <2>2, <2>3, <2>4 DEF Stays, CompletionHolds
<1>3. CASE status # "COMPLETED"
  <2>1. BootstrapMission /\ BootstrapComplete
    BY <1>3, BecomesCompleted
  <2>2. /\ UNCHANGED <<milestones, mats, requests, delegations, claims, lineage, outcomes>>
        /\ achieved' = TRUE /\ progression' = "COMPLETED"
        /\ PendingMilestones = {} /\ EvaluateCompletion
    BY <2>1 DEF BootstrapMission, BootstrapComplete
  <2>3. \A m \in DOMAIN milestones : milestones[m].status = "Completed"
    <3>1. \A m \in DOMAIN milestones : milestones[m] \in Milestone
      BY <1>1, Lists
    <3>2. QED
      BY <1>1, <2>2, <3>1 DEF Structure, PlanOrder, PendingMilestones, ActivePlan, Milestone
  <2>4. \A r \in DOMAIN requests : ~LiveRequest(r)
    <3>1. \A r \in DOMAIN requests : requests[r].milestone \in DOMAIN milestones
      BY <1>1, Lists DEF Referenced
    <3>2. QED
      BY <1>1, <2>3, <3>1 DEF Structure, LiveIsOpen
  <2>5. \A r \in DOMAIN requests' : ~LiveRequest(r)'
    BY <2>2, <2>4 DEF LiveRequest, ActiveRequest, ActiveDelegation
  <2>6. EvaluateCompletion'
    <3>1. WonClients \subseteq WonClients'
      BY <2>2 DEF WonClients
    <3>2. QED
      BY <1>1, <2>2, <3>1, CountGrows
  <2>7. QED
    BY <2>2, <2>5, <2>6 DEF CompletionHolds
<1>4. QED
  BY <1>2, <1>3

------------------------------------------------------------------------------
(* The theorems.                                                           *)

LEMMA InitInvariant == Init => IInv
<1> SUFFICES ASSUME Init PROVE IInv
  OBVIOUS
<1>1. TypeOK /\ Referenced
  BY InitType
<1>2. /\ requests = <<>> /\ delegations = <<>> /\ claims = <<>> /\ lineage = {}
      /\ \A m \in DOMAIN milestones : /\ milestones[m].status = "Pending"
                                      /\ milestones[m].plan = 1
                                      /\ mats[m] = "NONE"
      /\ plan.version = 1 /\ plan.replans = 0 /\ plan.batches = 0
      /\ progression = "READY" /\ status = "ACTIVE"
      /\ claimedBy = {} /\ executing = {}
  BY DEF Init
<1>3. Structure
  <2>1. DOMAIN milestones = DOMAIN mats
    BY <1>1, Lists DEF Referenced
  <2>2. PlanOrder /\ Materialized
    BY <1>2, <2>1 DEF PlanOrder, Materialized
  <2>3. AttemptOrder /\ OneDelegation /\ ClaimsMatch /\ LiveIsOpen /\ LineageClosed
    BY <1>2 DEF AttemptOrder, OneDelegation, ClaimsMatch, LiveIsOpen, LineageClosed
  <2>4. QED
    BY <1>1, <2>2, <2>3 DEF Structure
<1>4. Standing
  <2>1. MAX_PLAN_LOOPS \in Nat /\ MAX_OUTREACH_BATCHES \in Nat
    BY MissionAssumption
  <2>2. QED
    BY <1>2, <2>1 DEF Standing, RunningHasWork, WithinLimits, CompletionHolds, WorkersOwn
<1>5. Approval
  BY <1>2 DEF Approval, DelegatedPast, RevokedIdle
<1>6. QED
  BY <1>1, <1>3, <1>4, <1>5 DEF IInv

LEMMA NextInvariant == IInv /\ [Next]_vars => IInv'
<1> SUFFICES ASSUME IInv, [Next]_vars PROVE IInv'
  OBVIOUS
<1>1. Typed'
  BY TypedStep DEF IInv, Structure, Typed
<1>2. QED
  BY <1>1, StructureStep, ApprovalStep, RunningStep, LimitsStep, CompletionStep, OwnStep
  DEF IInv, Standing, Typed

\* The inductive invariant: what the engine stores about its work is
\* consistent, and a status claims nothing that the work does not show.
THEOREM Invariant == Spec => []IInv
  BY InitInvariant, NextInvariant, PTL DEF Spec

\* However the dispatcher, workers, the Director, the owner and crashes
\* interleave, a mission never has two pieces of executable work.
THEOREM SingleLiveWorkHolds == Spec => []SingleLiveWork
<1>1. IInv => SingleLiveWork
  BY OneLive DEF IInv, Structure, Typed
<1>2. QED
  BY <1>1, Invariant, PTL

\* MissionInvariantValidator never finds anything against an active, paused or
\* completed mission that the engine brought there: it is never quarantined.
THEOREM ValidatorCleanHolds == Spec => []ValidatorClean
<1>1. IInv => ValidatorClean
  BY Clean
<1>2. QED
  BY <1>1, Invariant, PTL

\* Nothing is executable that needs an approval and does not have it, or had it
\* revoked.
THEOREM ApprovedWorkHolds == Spec => []ApprovedWork
<1>1. IInv => ApprovedWork
  BY DEF IInv, Structure, Materialized, Approval, RevokedIdle, ApprovedWork
<1>2. QED
  BY <1>1, Invariant, PTL

\* Nothing but a command takes a mission out of COMPLETED: no late answer,
\* retry or failed save undoes a verified completion.
THEOREM CompletionIsFinalHolds == Spec => CompletionIsFinal
<1>1. IInv /\ [Next]_vars =>
         [status = "COMPLETED" /\ status' # "COMPLETED"
             => interventions' = interventions + 1]_vars
  BY CompletedStep DEF Stays, Reopened
<1>2. QED
  BY <1>1, Invariant, PTL DEF Spec, CompletionIsFinal

------------------------------------------------------------------------------
(* The evidence behind a completed delegation.                             *)

\* Evidence was accepted, for a lead where every milestone is for one, and nothing
\* was completed without any.
Accepted ==
    /\ \A e \in lineage : /\ AcceptsArtifact(VerificationMode, e.lead, e.evidence)
                          /\ e.lead \/ ~(DOMAIN milestones \subseteq LeadMilestones)
    /\ (\E m \in DOMAIN milestones : milestones[m].status = "Completed") => lineage # {}

\* What one judgement accepts of a lead, or for a mode that is not for leads only, the
\* other counts: the two are written apart in the code.
LEMMA AcceptedIsCounted ==
  ASSUME NEW lead \in BOOLEAN, NEW ev \in ArtifactEvidence,
         VerificationMode # "STRUCTURAL_CANARY",
         lead \/ VerificationMode # "QUALIFIED_LEAD_CANARY",
         AcceptsArtifact(VerificationMode, lead, ev)
  PROVE  CountsArtifact(VerificationMode, lead, ev)
<1>1. VerificationMode \in VerificationModes
  BY MissionAssumption
<1>2. QED
  BY <1>1 DEF VerificationModes, LiveModes, AcceptsArtifact, CountsArtifact, LiveEvidence,
     qualifies_for_production_success, PRODUCTION_SUCCESS_SOURCES, ArtifactEvidence,
     EvidenceSource

\* A milestone is completed, and the lineage grows, with accepted evidence only.
LEMMA AcceptedComplete ==
  ASSUME TypeOK, Referenced, Accepted, NEW d \in DOMAIN delegations, NEW a \in Artifacts,
         NEW ev \in Evidence, CompleteDelegation(d, a, ev)
  PROVE  Accepted'
<1> DEFINE lead == MilestoneOf(d) \in LeadMilestones
           new == [artifact |-> a, delegation |-> d, lead |-> lead, evidence |-> ev]
<1>1. /\ AcceptsArtifact(VerificationMode, lead, ev)
      /\ lineage' = IF \E e \in lineage : e.artifact = a THEN lineage ELSE lineage \cup {new}
  BY DEF CompleteDelegation
<1>2. lineage' \subseteq lineage \cup {new} /\ lineage' # {}
  BY <1>1
<1>3. MilestoneOf(d) \in DOMAIN milestones
  <2>1. MilestoneOf(d) \in DOMAIN mats
    BY DEF MilestoneOf, Referenced
  <2>2. QED
    BY <2>1, Lists DEF Referenced
<1>4. DOMAIN milestones' = DOMAIN milestones
  BY CompleteEffect DEF MilestoneSetTo, Same
<1>5. lead \/ ~(DOMAIN milestones \subseteq LeadMilestones)
  BY <1>3
<1> HIDE DEF lead
<1>6. new.lead = lead /\ new.evidence = ev
  OBVIOUS
<1> HIDE DEF new
<1>7. QED
  BY <1>1, <1>2, <1>4, <1>5, <1>6 DEF Accepted

LEMMA AcceptedStep == ASSUME IInv, Accepted, [Next]_vars PROVE Accepted'
<1>1. TypeOK /\ Referenced
  BY DEF IInv, Structure, Typed
<1>2. CASE UNCHANGED <<milestones, lineage>>
  BY <1>2 DEF Accepted
<1>3. CASE BootstrapMaterialize /\ UNCHANGED lineage
  <2>1. PICK m \in PendingMilestones : MilestoneSetTo(milestones', milestones, m, "READY")
    BY <1>1, <1>3, MaterializeEffect
  <2>2. /\ DOMAIN milestones' = DOMAIN milestones
        /\ \A n \in DOMAIN milestones :
              milestones'[n].status = "Completed" => milestones[n].status = "Completed"
    BY <2>1 DEF MilestoneSetTo, Same
  <2>3. QED
    BY <1>3, <2>2 DEF Accepted
<1>4. CASE BootstrapReplan /\ UNCHANGED lineage
  <2>1. Appended(milestones', milestones, [plan |-> plan.version + 1, status |-> "Pending"])
    BY <1>1, <1>4, ReplanEffect
  <2>2. /\ DOMAIN milestones \subseteq DOMAIN milestones'
        /\ \A n \in DOMAIN milestones' :
              milestones'[n].status = "Completed"
                 => n \in DOMAIN milestones /\ milestones[n].status = "Completed"
    BY <2>1 DEF Appended
  <2>3. QED
    BY <1>4, <2>2 DEF Accepted
<1>5. ASSUME NEW d \in executing, SpecialistSucceeds(d) PROVE Accepted'
  <2>1. d \in DOMAIN delegations
    BY <1>1 DEF TypeOK, CallersOK
  <2>2. QED
    BY <1>1, <1>5, <2>1, AcceptedComplete DEF SpecialistSucceeds
<1>6. QED
  <2>1. ASSUME NEW d, NEW t, ExecutionFailure(d, t) PROVE UNCHANGED <<milestones, lineage>>
    BY <2>1 DEF ExecutionFailure
  <2>2. BootstrapReturns => UNCHANGED milestones \/ BootstrapMaterialize
    BY DEF BootstrapReturns, BootstrapInactive, BootstrapUnplannable, BootstrapComplete,
       BootstrapArtifactUnmet, BootstrapLimitReached, BootstrapNothingNew
  <2>3. BootstrapMission => Accepted'
    BY <1>2, <1>3, <1>4, <2>2 DEF BootstrapMission
  <2>4. CanaryChainEnds \/ UNCHANGED vars => UNCHANGED <<milestones, lineage>>
    BY DEF CanaryChainEnds, vars
  <2>5. Dispatcher \/ Owner => UNCHANGED <<milestones, lineage>>
    BY DEF Dispatcher, QuarantineUnsafeMission, ClaimReadyRequest, DispatchRequest,
       Owner, OwnerPause, OwnerResume, OwnerCancel, UpdateMissionStatus
  <2>6. Director => UNCHANGED <<milestones, lineage>>
    BY DEF Director, DirectorPause, DirectorResume, UpdateMissionStatus,
       DirectorDispatch, ApproveMaterialization, RejectMaterialization, RevokeMaterialization
  <2>7. Environment => UNCHANGED <<milestones, lineage>>
    BY <2>1 DEF Environment, RecordSuccessEvidence, WorkerRaises, Crash
  <2>8. Worker => Accepted'
    BY <1>2, <1>5, <2>1 DEF Worker, ClaimPendingDelegation, MarkDelegationRunning,
       SpecialistFails, RejectEvidence, LateAnswer
  <2>9. QED
    BY <1>2, <2>3, <2>4, <2>5, <2>6, <2>7, <2>8 DEF Next

\* Of evidence that the guard counts, one piece is enough for one artifact.
LEMMA AcceptedFinishes == ASSUME IInv, Accepted PROVE FinishedPlanCounts
<1>1. TypeOK
  BY DEF IInv, Structure, Typed
<1>2. SUFFICES ASSUME MissionType = "ARTIFACT_PRODUCTION", Required = 1,
                      VerificationMode # "STRUCTURAL_CANARY",
                      VerificationMode = "QUALIFIED_LEAD_CANARY"
                         => DOMAIN milestones \subseteq LeadMilestones,
                      ActivePlan # {}, PendingMilestones = {}
               PROVE  EvaluateCompletion
  BY DEF FinishedPlanCounts
<1>3. PICK e \in lineage : TRUE
  <2>1. PICK m \in DOMAIN milestones : milestones[m].status \notin {"Pending", "READY"}
    BY <1>2 DEF ActivePlan, PendingMilestones
  <2>2. milestones[m] \in Milestone
    BY <1>1, Lists, ElementOfSeq
  <2>3. milestones[m].status = "Completed"
    BY <2>1, <2>2 DEF Milestone
  <2>4. QED
    BY <2>3 DEF Accepted
<1>4. e.lead \in BOOLEAN /\ e.evidence \in ArtifactEvidence
  BY <1>1, <1>3, MissionAssumption DEF TypeOK, EvidenceOK
<1>5. e \in VerifiedArtifacts
  BY <1>2, <1>3, <1>4, AcceptedIsCounted DEF Accepted, VerifiedArtifacts
<1>6. IsFiniteSet(VerifiedArtifacts)
  BY <1>1, FS_Subset DEF VerifiedArtifacts, TypeOK, EvidenceOK
<1>7. Cardinality(VerifiedArtifacts) \in Nat /\ Cardinality(VerifiedArtifacts) # 0
  BY <1>5, <1>6, FS_CardinalityType, FS_EmptySet
<1>8. QED
  BY <1>2, <1>7 DEF EvaluateCompletion, VerifiedCount

\* A mission for one artifact never finishes its plan on evidence that its completion
\* guard ignores, in every mode but the structural canary's: when no milestone is
\* left the guard holds.
THEOREM FinishedPlanCountsHolds == Spec => []FinishedPlanCounts
<1>1. Init => Accepted
  BY DEF Init, Accepted
<1>2. QED
  BY <1>1, AcceptedFinishes, AcceptedStep, Invariant, PTL DEF Spec

------------------------------------------------------------------------------
(* The mission of the gate is MissionEngine's.                             *)

\* Each step of the gate is a step of the mission or leaves it alone.
LEMMA GateStep == ASSUME [GateNext]_gateVars PROVE [Next]_vars
<1>1. CASE BootstrapAsks
  BY <1>1 DEF BootstrapAsks, Next
<1>2. CASE MissionFault
  BY <1>2 DEF MissionFault, Next, Environment
<1>3. CASE MissionStep
  BY <1>3 DEF MissionStep, Next, Director, Environment
<1>4. ASSUME NEW a \in DOMAIN approvals, ApproveDecision(a) PROVE [Next]_vars
  <2>1. CASE Crash
    BY <2>1 DEF Next, Environment
  <2>2. CASE approvals[a].mat \in DOMAIN mats /\ Release(approvals[a].mat)
    BY <2>2 DEF Release, Next, Director
  <2>3. QED
    BY <1>4, <2>1, <2>2 DEF ApproveDecision
<1>5. ASSUME NEW a \in DOMAIN approvals, RejectDecision(a) PROVE [Next]_vars
  BY <1>5 DEF RejectDecision, Next, Director, Environment
<1>6. ASSUME NEW a \in DOMAIN approvals, RevokeDecision(a) PROVE [Next]_vars
  BY <1>6 DEF RevokeDecision, Next, Director, Environment
<1>7. ASSUME NEW a \in DOMAIN approvals, OwnerDecision(a) PROVE [Next]_vars
  BY <1>7 DEF OwnerDecision
<1>8. ASSUME NEW d, ToolStarts(d) \/ ToolSucceeds(d) \/ ToolFails(d) PROVE [Next]_vars
  BY <1>8 DEF ToolStarts, ToolSucceeds, ToolFails
<1>9. CASE UNCHANGED gateVars
  BY <1>9 DEF gateVars
<1>10. QED
  BY <1>1, <1>2, <1>3, <1>4, <1>5, <1>6, <1>7, <1>8, <1>9 DEF GateNext

\* The mission behind the gate is a mission of MissionEngine, so what is proved
\* of that holds here.
THEOREM GateRefinesMission == GateSpec => RefinesMission
<1>1. GateInit => Init
  BY DEF GateInit
<1>2. QED
  BY <1>1, GateStep, PTL DEF GateSpec, RefinesMission, Spec

------------------------------------------------------------------------------
(* What a step does to materializations and records.                       *)

\* Nothing is decided or asked, and no milestone is added.
Unmoved ==
    UNCHANGED <<mats, approvals>> /\ plan'.replans = plan.replans

\* The plan grows, or a milestone that needs no approval becomes ready.
Grown ==
    /\ UNCHANGED approvals
    /\ \/ mats' = Append(mats, "NONE") /\ plan'.replans = plan.replans + 1
       \/ /\ plan'.replans = plan.replans
          /\ \E m \in DOMAIN mats : ~Outreach(m) /\ mats' = [mats EXCEPT ![m] = "EXECUTION_READY"]

Asked(m) ==
    /\ m \in DOMAIN mats /\ Outreach(m) /\ mats[m] = "NONE"
    /\ mats' = [mats EXCEPT ![m] = "APPROVAL_REQUIRED"]
    /\ approvals' = Append(approvals, NewApproval(m))
    /\ plan'.replans = plan.replans

Orphaned ==
    /\ UNCHANGED mats /\ plan'.replans = plan.replans
    /\ approvals' = Append(approvals, NewApproval(0))

\* A record is decided, and its materialization too or not.
Verdict(a, s, from, to, before) ==
    /\ a \in DOMAIN approvals /\ approvals[a].status = before
    /\ approvals' = [approvals EXCEPT ![a].status = s]
    /\ plan'.replans = plan.replans
    /\ \/ UNCHANGED mats
       \/ /\ approvals[a].mat \in DOMAIN mats /\ mats[approvals[a].mat] = from
          /\ mats' = [mats EXCEPT ![approvals[a].mat] = to]

Decided(a) ==
    \/ Verdict(a, "APPROVED", "APPROVAL_REQUIRED", "EXECUTION_READY", "PENDING")
    \/ Verdict(a, "REJECTED", "APPROVAL_REQUIRED", "REJECTED", "PENDING")
    \/ Verdict(a, "CANCELLED", "EXECUTION_READY", "REVOKED", "APPROVED")

Step == Unmoved \/ Grown \/ (\E m : Asked(m)) \/ Orphaned \/ (\E a : Decided(a))

\* A bootstrap asks for one approval or for none.
LEMMA BootstrapStep == ASSUME TypeOK, BootstrapAsks PROVE Step
<1>1. BootstrapMission
  BY DEF BootstrapAsks
<1>2. CASE BootstrapReplan
  <2>1. mats' = Append(mats, "NONE") /\ plan'.replans = plan.replans + 1
    BY <1>2 DEF BootstrapReplan
  <2>2. \A m \in DOMAIN mats : mats'[m] = mats[m]
    BY <2>1 DEF TypeOK, PlanOK
  <2>3. UNCHANGED approvals
    BY <2>2 DEF BootstrapAsks
  <2>4. QED
    BY <2>1, <2>3 DEF Step, Grown
<1>3. CASE BootstrapMaterialize
  <2>1. PICK m \in PendingMilestones :
           /\ mats[m] = "NONE"
           /\ \/ Outreach(m) /\ mats' = [mats EXCEPT ![m] = "APPROVAL_REQUIRED"]
              \/ ~Outreach(m) /\ mats' = [mats EXCEPT ![m] = "EXECUTION_READY"]
    BY <1>3 DEF BootstrapMaterialize
  <2>2. plan' = plan
    BY <1>3 DEF BootstrapMaterialize
  <2>3. \A n \in DOMAIN mats : n # m => mats'[n] = mats[n]
    BY <2>1
  <2>4. CASE m \notin DOMAIN mats
    <3>1. mats' = mats
      BY <2>1, <2>4 DEF TypeOK, PlanOK
    <3>2. QED
      BY <2>2, <3>1 DEF BootstrapAsks, Step, Unmoved
  <2>5. CASE m \in DOMAIN mats /\ Outreach(m)
    <3>1. mats' = [mats EXCEPT ![m] = "APPROVAL_REQUIRED"] /\ mats'[m] = "APPROVAL_REQUIRED"
      BY <2>1, <2>5
    <3>2. approvals' = Append(approvals, NewApproval(m))
      BY <2>1, <2>3, <2>5, <3>1 DEF BootstrapAsks
    <3>3. QED
      BY <2>1, <2>2, <2>5, <3>1, <3>2 DEF Step, Asked
  <2>6. CASE m \in DOMAIN mats /\ ~Outreach(m)
    <3>1. mats' = [mats EXCEPT ![m] = "EXECUTION_READY"] /\ mats'[m] = "EXECUTION_READY"
      BY <2>1, <2>6
    <3>2. UNCHANGED approvals
      BY <2>3, <3>1 DEF BootstrapAsks
    <3>3. QED
      BY <2>2, <2>6, <3>1, <3>2 DEF Step, Grown
  <2>7. QED
    BY <2>4, <2>5, <2>6
<1>4. CASE BootstrapReturns /\ ~BootstrapMaterialize
  <2>1. UNCHANGED mats /\ plan'.replans = plan.replans
    BY <1>4 DEF BootstrapReturns, BootstrapInactive, BootstrapUnplannable, BootstrapComplete,
       BootstrapArtifactUnmet, BootstrapLimitReached, BootstrapNothingNew, TypeOK, PlanOK
  <2>2. QED
    BY <2>1 DEF BootstrapAsks, Step, Unmoved
<1>5. QED
  BY <1>1, <1>2, <1>3, <1>4 DEF BootstrapMission

\* A failure report touches neither plan nor materializations.
LEMMA FailureKeeps ==
  ASSUME NEW d, NEW t, ExecutionFailure(d, t) PROVE UNCHANGED <<mats, plan>>
BY DEF ExecutionFailure

LEMMA MissionStepKeeps == ASSUME MissionStep PROVE Unmoved
<1>1. UNCHANGED approvals
  BY DEF MissionStep
<1>2. CASE CanaryChainEnds
  BY <1>1, <1>2 DEF CanaryChainEnds, Unmoved
<1>3. CASE Dispatcher
  BY <1>1, <1>3 DEF Dispatcher, QuarantineUnsafeMission, ClaimReadyRequest, DispatchRequest, Unmoved
<1>4. CASE Worker
  <2>1. ASSUME NEW d, NEW a, NEW ev, CompleteDelegation(d, a, ev) PROVE UNCHANGED <<mats, plan>>
    BY <2>1 DEF CompleteDelegation
  <2>2. UNCHANGED <<mats, plan>>
    BY <1>4, <2>1, FailureKeeps DEF Worker, ClaimPendingDelegation, MarkDelegationRunning,
       SpecialistSucceeds, SpecialistFails, LateAnswer, RejectEvidence
  <2>3. QED
    BY <1>1, <2>2 DEF Unmoved
<1>5. CASE Owner
  BY <1>1, <1>5 DEF Owner, OwnerPause, OwnerResume, OwnerCancel, UpdateMissionStatus, Unmoved
<1>6. CASE DirectorPause \/ DirectorResume
  BY <1>1, <1>6 DEF DirectorPause, DirectorResume, UpdateMissionStatus, Unmoved
<1>7. CASE \E r \in DOMAIN requests : DirectorDispatch(r)
  BY <1>1, <1>7 DEF DirectorDispatch, Unmoved
<1>8. CASE \E c \in Clients, v \in BOOLEAN, s \in OutcomeSources : RecordSuccessEvidence(c, v, s)
  BY <1>1, <1>8 DEF RecordSuccessEvidence, Unmoved
<1>9. QED
  BY <1>2, <1>3, <1>4, <1>5, <1>6, <1>7, <1>8 DEF MissionStep

\* The consumption of an approval is refused by the repository.
LEMMA ConsumedNothing == ASSUME NEW m PROVE Consumed(m) = approvals
BY DEF Consumed, Accepts

LEMMA DecisionStep ==
  ASSUME TypeOK, NEW a \in DOMAIN approvals,
         ApproveDecision(a) \/ RejectDecision(a) \/ RevokeDecision(a) \/ OwnerDecision(a)
  PROVE  Step
<1>1. Crash => UNCHANGED <<mats, plan>>
  BY DEF Crash
<1>2. CASE ApproveDecision(a)
  <2>1. approvals[a].status = "PENDING" /\ approvals' = [approvals EXCEPT ![a].status = "APPROVED"]
    BY <1>2 DEF ApproveDecision, Accepts, Resolved
  <2>2. \/ UNCHANGED <<mats, plan>>
        \/ approvals[a].mat \in DOMAIN mats /\ ApproveMaterialization(approvals[a].mat)
    BY <1>1, <1>2 DEF ApproveDecision, Release, vars
  <2>3. QED
    BY <2>1, <2>2 DEF ApproveMaterialization, Step, Decided, Verdict
<1>3. CASE RejectDecision(a)
  <2>1. approvals[a].status = "PENDING" /\ approvals' = [approvals EXCEPT ![a].status = "REJECTED"]
    BY <1>3 DEF RejectDecision, Accepts, Resolved
  <2>2. \/ UNCHANGED <<mats, plan>>
        \/ approvals[a].mat \in DOMAIN mats /\ RejectMaterialization(approvals[a].mat)
    BY <1>1, <1>3 DEF RejectDecision, vars
  <2>3. QED
    BY <2>1, <2>2 DEF RejectMaterialization, Step, Decided, Verdict
<1>4. CASE RevokeDecision(a)
  <2>1. \/ UNCHANGED <<mats, plan>>
        \/ approvals[a].mat \in DOMAIN mats /\ RevokeMaterialization(approvals[a].mat)
    BY <1>1, <1>4 DEF RevokeDecision, vars
  <2>2. QED
    BY <1>4, <2>1 DEF RevokeDecision, RevokeMaterialization, Resolved, Step, Decided, Verdict
<1>5. CASE OwnerDecision(a)
  BY <1>5 DEF OwnerDecision, OwnerVerdicts, Accepts, Resolved, Step, Decided, Verdict, vars
<1>6. QED
  BY <1>2, <1>3, <1>4, <1>5

LEMMA EveryStep == ASSUME TypeOK, GateTypeOK, [GateNext]_gateVars PROVE Step
<1>1. CASE BootstrapAsks
  BY <1>1, BootstrapStep
<1>2. CASE MissionFault
  <2>1. UNCHANGED <<mats, plan>>
    BY <1>2, FailureKeeps DEF MissionFault, Crash, WorkerRaises
  <2>2. QED
    BY <1>2, <2>1 DEF MissionFault, Step, Unmoved, Orphaned
<1>3. CASE MissionStep
  BY <1>3, MissionStepKeeps DEF Step
<1>4. ASSUME NEW a \in DOMAIN approvals,
             ApproveDecision(a) \/ RejectDecision(a) \/ RevokeDecision(a) \/ OwnerDecision(a)
      PROVE  Step
  BY <1>4, DecisionStep
<1>5. ASSUME NEW d, ToolStarts(d) \/ ToolSucceeds(d) \/ ToolFails(d) PROVE Step
  <2>1. UNCHANGED <<mats, plan, approvals>>
    BY <1>5, ConsumedNothing DEF ToolStarts, ToolSucceeds, ToolFails, vars
  <2>2. QED
    BY <2>1 DEF Step, Unmoved
<1>6. CASE UNCHANGED gateVars
  BY <1>6 DEF gateVars, vars, Step, Unmoved
<1>7. QED
  BY <1>1, <1>2, <1>3, <1>4, <1>5, <1>6 DEF GateNext

------------------------------------------------------------------------------
(* Types, and the agreement of the two files.                              *)

LEMMA GateInitType == GateInit => GateTypeOK /\ DecisionsAgree
<1>1. SUFFICES ASSUME GateInit PROVE GateTypeOK /\ DecisionsAgree
  OBVIOUS
<1>2. Init /\ approvals = <<>> /\ calls = {} /\ effects = <<>> /\ succeeded = {}
  BY <1>1 DEF GateInit
<1>3. mats = [m \in 1..PlanSize |-> "NONE"] /\ plan.replans = 0
  BY <1>2 DEF Init
<1>4. mats \in Seq(MatStates) /\ Len(mats) = PlanSize
  BY <1>3, MissionAssumption DEF MatStates
<1>5. GateTypeOK
  BY <1>2, <1>3, <1>4, MissionAssumption DEF GateTypeOK
<1>6. \A m \in DOMAIN mats : mats[m] = "NONE"
  BY <1>3
<1>7. QED
  BY <1>2, <1>5, <1>6 DEF DecisionsAgree

LEMMA CallsStep == ASSUME GateTypeOK, [GateNext]_gateVars PROVE calls' \subseteq executing'
<1>1. calls \subseteq executing
  BY DEF GateTypeOK
<1>2. CASE BootstrapAsks
  BY <1>1, <1>2 DEF BootstrapAsks, BootstrapMission
<1>3. CASE MissionFault \/ MissionStep
  BY <1>3 DEF MissionFault, MissionStep
<1>4. ASSUME NEW a \in DOMAIN approvals,
             ApproveDecision(a) \/ RejectDecision(a) \/ RevokeDecision(a) \/ OwnerDecision(a)
      PROVE  calls' \subseteq executing'
  <2>1. calls' = {} \/ (calls' = calls /\ executing' = executing)
    BY <1>4 DEF ApproveDecision, RejectDecision, RevokeDecision, OwnerDecision, Release,
       ApproveMaterialization, RejectMaterialization, RevokeMaterialization, vars, volatile
  <2>2. QED
    BY <1>1, <2>1
<1>5. ASSUME NEW d, ToolStarts(d) \/ ToolSucceeds(d) \/ ToolFails(d)
      PROVE  calls' \subseteq executing'
  BY <1>1, <1>5 DEF ToolStarts, ToolSucceeds, ToolFails, vars, volatile
<1>6. CASE UNCHANGED gateVars
  BY <1>1, <1>6 DEF gateVars, vars, volatile
<1>7. QED
  BY <1>2, <1>3, <1>4, <1>5, <1>6 DEF GateNext

\* The milestone of a delegation is one of the plan's, and the plan is bounded.
LEMMA MilestoneInPlan ==
  ASSUME IInv, GateTypeOK, NEW d \in executing
  PROVE  MilestoneOf(d) \in DOMAIN mats /\ MilestoneOf(d) \in Works
<1>1. d \in DOMAIN delegations
  BY DEF IInv, TypeOK, CallersOK
<1>2. delegations[d].request \in DOMAIN requests
  BY <1>1 DEF IInv, Structure, Referenced
<1>3. MilestoneOf(d) \in DOMAIN mats
  BY <1>2 DEF IInv, Structure, Referenced, MilestoneOf
<1>4. plan.replans \in Nat /\ plan.replans <= MAX_PLAN_LOOPS /\ mats \in Seq(MatStates)
  BY DEF IInv, TypeOK, PlanOK, Standing, WithinLimits
<1>5. DOMAIN mats = 1..(PlanSize + plan.replans)
  BY <1>4 DEF GateTypeOK
<1>6. QED
  BY <1>3, <1>4, <1>5, MissionAssumption DEF Works

\* What a decision does to the repository, record by record.
RecordSetTo(t, list, a, s) ==
    /\ Same(t, list)
    /\ \A b \in DOMAIN list :
          /\ t[b].mat = list[b].mat
          /\ t[b].status = IF b = a THEN s ELSE list[b].status

LEMMA RecordSet ==
  ASSUME NEW list \in Seq(ApprovalRecord), NEW a \in DOMAIN list, NEW s \in ApprovalStatus,
         NEW t, t = [list EXCEPT ![a].status = s]
  PROVE  t \in Seq(ApprovalRecord) /\ RecordSetTo(t, list, a, s)
<1> DEFINE e == [list[a] EXCEPT !.status = s]
<1>1. list[a] \in ApprovalRecord
  OBVIOUS
<1>2. e \in ApprovalRecord /\ e.mat = list[a].mat /\ e.status = s
  BY <1>1 DEF ApprovalRecord
<1>3. t = [list EXCEPT ![a] = e]
  OBVIOUS
<1> HIDE DEF e
<1>4. t \in Seq(ApprovalRecord) /\ SetAt(t, list, a, e)
  BY <1>2, <1>3, SeqUpdate
<1>5. QED
  BY <1>2, <1>4 DEF SetAt, RecordSetTo

LEMMA GateTypeStep == ASSUME IInv, GateTypeOK, [GateNext]_gateVars PROVE GateTypeOK'
<1>1. Step
  BY EveryStep DEF IInv
<1>2. mats \in Seq(MatStates) /\ plan.replans \in Nat /\ PlanSize \in Nat
  BY MissionAssumption DEF IInv, TypeOK, PlanOK
<1>3. Len(mats') = PlanSize + plan'.replans
  BY <1>1, <1>2 DEF Step, Unmoved, Grown, Asked, Orphaned, Decided, Verdict, GateTypeOK
<1>4. approvals' \in Seq(ApprovalRecord)
  <2>1. approvals \in Seq(ApprovalRecord)
    BY DEF GateTypeOK
  <2>2. ASSUME NEW m \in Nat, approvals' = Append(approvals, NewApproval(m))
        PROVE  approvals' \in Seq(ApprovalRecord)
    <3>1. NewApproval(m) \in ApprovalRecord
      BY DEF NewApproval, ApprovalRecord, ApprovalStatus
    <3>2. QED
      BY <2>1, <2>2, <3>1, SeqAppend
  <2>3. ASSUME NEW a, Decided(a) PROVE approvals' \in Seq(ApprovalRecord)
    BY <2>1, <2>3, RecordSet DEF Decided, Verdict, ApprovalStatus
  <2>4. \A m \in DOMAIN mats : m \in Nat
    BY <1>2
  <2>5. CASE UNCHANGED approvals
    BY <2>1, <2>5
  <2>6. QED
    BY <1>1, <2>2, <2>3, <2>4, <2>5 DEF Step, Unmoved, Grown, Asked, Orphaned
<1>5. effects' \in Seq(Works) /\ succeeded' \subseteq Works
  <2>1. effects \in Seq(Works) /\ succeeded \subseteq Works /\ calls \subseteq executing
    BY DEF GateTypeOK
  <2>2. \/ effects' = effects
        \/ \E d \in executing : effects' = Append(effects, MilestoneOf(d))
    BY DEF GateNext, BootstrapAsks, MissionFault, MissionStep, ApproveDecision, RejectDecision,
       RevokeDecision, OwnerDecision, ToolStarts, ToolSucceeds, ToolFails, gateVars
  <2>3. \/ succeeded' = succeeded
        \/ \E d \in calls : succeeded' = succeeded \cup {MilestoneOf(d)}
    BY DEF GateNext, BootstrapAsks, MissionFault, MissionStep, ApproveDecision, RejectDecision,
       RevokeDecision, OwnerDecision, ToolStarts, ToolSucceeds, ToolFails, gateVars
  <2>4. QED
    BY <2>1, <2>2, <2>3, MilestoneInPlan
<1>6. QED
  BY <1>3, <1>4, <1>5, CallsStep DEF GateTypeOK

\* What DecisionsAgree says of a record's status.
LEMMA AgreementOf ==
  /\ Agreement["PENDING"] = {"APPROVAL_REQUIRED"}
  /\ Agreement["APPROVED"] = {"APPROVAL_REQUIRED", "EXECUTION_READY"}
  /\ Agreement["REJECTED"] = {"APPROVAL_REQUIRED", "REJECTED"}
  /\ Agreement["CANCELLED"] = {"APPROVAL_REQUIRED", "EXECUTION_READY", "REVOKED"}
  /\ \A s \in ApprovalStatus : "NONE" \notin Agreement[s]
BY DEF Agreement, ApprovalStatus

\* DecisionsAgree of any repository rs and any materializations ms.
Speaks(rs, ms, a) ==
    /\ rs[a].mat \in DOMAIN ms /\ Outreach(rs[a].mat)
    /\ ms[rs[a].mat] \in Agreement[rs[a].status]
    /\ \A b \in DOMAIN rs : rs[b].mat = rs[a].mat => a = b

Agree(rs, ms) ==
    /\ \A a \in DOMAIN rs : rs[a].mat # 0 => Speaks(rs, ms, a)
    /\ \A m \in DOMAIN ms : Outreach(m) /\ ms[m] # "NONE" =>
          \E a \in DOMAIN rs : rs[a].mat = m

LEMMA AgreeNow == DecisionsAgree <=> Agree(approvals, mats)
BY DEF DecisionsAgree, Agree, Speaks

LEMMA AgreeNext == DecisionsAgree' <=> Agree(approvals', mats')
BY DEF DecisionsAgree, Agree, Speaks, Outreach

\* A milestone that is added, or made ready without an approval, is nobody's.
LEMMA AgreeGrown ==
  ASSUME NEW rs, NEW ms \in Seq(MatStates), NEW t, Agree(rs, ms),
         \/ t = Append(ms, "NONE")
         \/ \E m \in DOMAIN ms : ~Outreach(m) /\ t = [ms EXCEPT ![m] = "EXECUTION_READY"]
  PROVE  Agree(rs, t)
<1>1. CASE t = Append(ms, "NONE")
  <2>1. Appended(t, ms, "NONE")
    BY <1>1, SeqAppend DEF MatStates
  <2>2. /\ DOMAIN t = DOMAIN ms \cup {Len(t)} /\ t[Len(t)] = "NONE"
        /\ \A n \in DOMAIN ms : t[n] = ms[n]
    BY <2>1 DEF Appended
  <2>3. \A a \in DOMAIN rs : Speaks(rs, ms, a) => Speaks(rs, t, a)
    BY <2>2 DEF Speaks
  <2>4. QED
    BY <2>2, <2>3 DEF Agree
<1>2. CASE \E m \in DOMAIN ms : ~Outreach(m) /\ t = [ms EXCEPT ![m] = "EXECUTION_READY"]
  <2>1. PICK m \in DOMAIN ms : ~Outreach(m) /\ t = [ms EXCEPT ![m] = "EXECUTION_READY"]
    BY <1>2
  <2>2. DOMAIN t = DOMAIN ms /\ \A n \in DOMAIN ms : Outreach(n) => t[n] = ms[n]
    BY <2>1
  <2>3. QED
    BY <2>2 DEF Agree, Speaks
<1>3. QED
  BY <1>1, <1>2

\* A new record for a milestone that had none, or for no milestone.
LEMMA AgreeAsked ==
  ASSUME NEW rs \in Seq(ApprovalRecord), NEW ms, NEW t, NEW u, NEW m \in Nat, Agree(rs, ms),
         u = Append(rs, NewApproval(m)), DOMAIN t = DOMAIN ms,
         \A n \in DOMAIN ms : n # m => t[n] = ms[n],
         m # 0 => m \in DOMAIN ms /\ Outreach(m) /\ ms[m] = "NONE" /\ t[m] = "APPROVAL_REQUIRED"
  PROVE  Agree(u, t)
<1>1. NewApproval(m) \in ApprovalRecord
  BY DEF NewApproval, ApprovalRecord, ApprovalStatus
<1>2. Appended(u, rs, NewApproval(m))
  BY <1>1, SeqAppend
<1>3. /\ DOMAIN u = DOMAIN rs \cup {Len(u)} /\ Len(u) \notin DOMAIN rs
      /\ u[Len(u)].mat = m /\ u[Len(u)].status = "PENDING"
      /\ \A a \in DOMAIN rs : u[a] = rs[a]
  BY <1>2 DEF Appended, NewApproval
<1>4. \A a \in DOMAIN rs : rs[a].status \in ApprovalStatus
  <2>1. \A a \in DOMAIN rs : rs[a] \in ApprovalRecord
    OBVIOUS
  <2>2. QED
    BY <2>1 DEF ApprovalRecord
<1>5. m # 0 => \A a \in DOMAIN rs : rs[a].mat # m
  BY <1>4, AgreementOf DEF Agree, Speaks
<1>6. ASSUME NEW a \in DOMAIN u, u[a].mat # 0 PROVE Speaks(u, t, a)
  <2>1. CASE a = Len(u)
    BY <1>3, <1>5, <1>6, <2>1, AgreementOf DEF Speaks
  <2>2. CASE a \in DOMAIN rs
    <3>1. Speaks(rs, ms, a) /\ rs[a].mat # m
      BY <1>3, <1>5, <1>6, <2>2 DEF Agree
    <3>2. QED
      BY <1>3, <2>2, <3>1 DEF Speaks
  <2>3. QED
    BY <1>3, <2>1, <2>2
<1>7. ASSUME NEW n \in DOMAIN t, Outreach(n), t[n] # "NONE"
      PROVE  \E a \in DOMAIN u : u[a].mat = n
  <2>1. CASE n = m
    BY <1>3, <2>1
  <2>2. CASE n # m
    BY <1>3, <1>7, <2>2 DEF Agree
  <2>3. QED
    BY <2>1, <2>2
<1>8. QED
  BY <1>6, <1>7 DEF Agree

\* A decision, with its materialization or without.
LEMMA AgreeDecided ==
  ASSUME NEW rs \in Seq(ApprovalRecord), NEW ms \in Seq(MatStates), NEW t, NEW u,
         Agree(rs, ms), NEW a \in DOMAIN rs, NEW s \in ApprovalStatus, NEW to \in MatStates,
         RecordSetTo(u, rs, a, s),
         t = ms \/ (rs[a].mat \in DOMAIN ms /\ t = [ms EXCEPT ![rs[a].mat] = to]),
         rs[a].mat # 0 /\ rs[a].mat \in DOMAIN ms => t[rs[a].mat] \in Agreement[s]
  PROVE  Agree(u, t)
<1>1. DOMAIN t = DOMAIN ms /\ \A n \in DOMAIN ms : n # rs[a].mat => t[n] = ms[n]
  OBVIOUS
<1>2. DOMAIN u = DOMAIN rs /\ \A b \in DOMAIN rs : u[b].mat = rs[b].mat
  BY DEF RecordSetTo, Same
<1>3. ASSUME NEW b \in DOMAIN rs, rs[b].mat # 0 PROVE Speaks(u, t, b)
  <2>1. Speaks(rs, ms, b)
    BY <1>3 DEF Agree
  <2>2. CASE b = a
    BY <1>1, <1>2, <1>3, <2>1, <2>2 DEF Speaks, RecordSetTo
  <2>3. CASE b # a
    <3>1. rs[b].mat # rs[a].mat /\ u[b].status = rs[b].status
      BY <2>1, <2>3 DEF Speaks, RecordSetTo
    <3>2. QED
      BY <1>1, <1>2, <2>1, <3>1 DEF Speaks
  <2>4. QED
    BY <2>2, <2>3
<1>4. ASSUME NEW n \in DOMAIN t, Outreach(n), t[n] # "NONE"
      PROVE  \E b \in DOMAIN u : u[b].mat = n
  BY <1>1, <1>2, <1>4 DEF Agree
<1>5. QED
  BY <1>2, <1>3, <1>4 DEF Agree

LEMMA AgreeStep ==
  ASSUME IInv, GateTypeOK, DecisionsAgree, [GateNext]_gateVars PROVE DecisionsAgree'
<1>1. Step
  BY EveryStep DEF IInv
<1>2. /\ approvals \in Seq(ApprovalRecord) /\ mats \in Seq(MatStates)
      /\ \A m \in DOMAIN mats : m \in Nat
      /\ PlanSize \in Nat
  BY MissionAssumption DEF GateTypeOK, IInv, TypeOK, PlanOK
<1>3. Agree(approvals, mats)
  BY AgreeNow
<1>4. SUFFICES Agree(approvals', mats')
  BY AgreeNext
<1>5. CASE Unmoved
  BY <1>3, <1>5 DEF Unmoved
<1>6. CASE Grown
  BY <1>2, <1>3, <1>6, AgreeGrown DEF Grown
<1>7. ASSUME NEW m, Asked(m) PROVE Agree(approvals', mats')
  BY <1>2, <1>3, <1>7, AgreeAsked DEF Asked
<1>8. CASE Orphaned
  BY <1>2, <1>3, <1>8, AgreeAsked DEF Orphaned
<1>9. ASSUME NEW a, Decided(a) PROVE Agree(approvals', mats')
  <2>1. ASSUME NEW s \in ApprovalStatus, NEW from \in MatStates, NEW to \in MatStates,
               NEW before \in ApprovalStatus, Verdict(a, s, from, to, before),
               to \in Agreement[s], Agreement[before] \subseteq Agreement[s]
        PROVE  Agree(approvals', mats')
    <3>1. a \in DOMAIN approvals /\ RecordSetTo(approvals', approvals, a, s)
      BY <1>2, <2>1, RecordSet DEF Verdict
    <3>2. \/ mats' = mats
          \/ /\ approvals[a].mat \in DOMAIN mats
             /\ mats' = [mats EXCEPT ![approvals[a].mat] = to]
      BY <2>1 DEF Verdict
    <3>3. approvals[a].mat # 0 /\ approvals[a].mat \in DOMAIN mats =>
             mats'[approvals[a].mat] \in Agreement[s]
      BY <1>3, <2>1, <3>1, <3>2 DEF Agree, Speaks, Verdict
    <3>4. QED
      BY <1>2, <1>3, <3>1, <3>2, <3>3, AgreeDecided
  <2>2. QED
    BY <1>9, <2>1, AgreementOf DEF Decided, ApprovalStatus, MatStates
<1>10. QED
  BY <1>1, <1>5, <1>6, <1>7, <1>8, <1>9 DEF Step

LEMMA GateInvariant == GateSpec => [](IInv /\ GateTypeOK /\ DecisionsAgree)
<1>1. GateSpec => []IInv
  BY GateRefinesMission, Invariant, PTL DEF RefinesMission
<1>2. IInv /\ GateTypeOK /\ DecisionsAgree /\ [GateNext]_gateVars
         => GateTypeOK' /\ DecisionsAgree'
  BY GateTypeStep, AgreeStep
<1>3. QED
  BY <1>1, <1>2, GateInitType, PTL DEF GateSpec

\* Records and calls have their types, and a protected tool runs only inside a
\* specialist that is running.
THEOREM GateTypeHolds == GateSpec => []GateTypeOK
BY GateInvariant, PTL

\* The approval file and the mission file never contradict each other, whoever
\* decides and whatever crash comes between their two writes.
THEOREM DecisionsAgreeHolds == GateSpec => []DecisionsAgree
BY GateInvariant, PTL

------------------------------------------------------------------------------
(* The refinement of ApprovalPromise.                                      *)

LEMMA InWork ==
  ASSUME NEW w, NEW s
  PROVE  w \in WorkWith(s) <=>
            /\ w # 0
            /\ \E a \in DOMAIN approvals : approvals[a].mat = w /\ approvals[a].status = s
BY DEF WorkWith

LEMMA InWorkNext ==
  ASSUME NEW w, NEW s
  PROVE  w \in WorkWith(s)' <=>
            /\ w # 0
            /\ \E a \in DOMAIN approvals' : approvals'[a].mat = w /\ approvals'[a].status = s
BY DEF WorkWith

\* Milestones with a record are among the plan's.
LEMMA RecordInWorks ==
  ASSUME IInv, GateTypeOK, NEW m \in DOMAIN mats PROVE m \in Works /\ m # 0
<1>1. plan.replans \in Nat /\ plan.replans <= MAX_PLAN_LOOPS /\ mats \in Seq(MatStates)
  BY DEF IInv, TypeOK, PlanOK, Standing, WithinLimits
<1>2. DOMAIN mats = 1..(PlanSize + plan.replans)
  BY <1>1 DEF GateTypeOK
<1>3. QED
  BY <1>1, <1>2, MissionAssumption DEF Works

\* Nothing is performed but by a tool that starts.
LEMMA EffectsStep ==
  ASSUME [GateNext]_gateVars
  PROVE  effects' = effects \/ \E d : ToolStarts(d)
BY DEF GateNext, BootstrapAsks, MissionFault, MissionStep, ApproveDecision, RejectDecision,
   RevokeDecision, OwnerDecision, ToolStarts, ToolSucceeds, ToolFails, gateVars

\* The work of every record but one stays where it is.
LEMMA WorkKept == ASSUME UNCHANGED approvals, NEW s PROVE WorkWith(s)' = WorkWith(s)
BY DEF WorkWith

LEMMA WorkAsked ==
  ASSUME GateTypeOK, NEW m \in Nat, approvals' = Append(approvals, NewApproval(m)), NEW s
  PROVE  WorkWith(s)' = IF s = "PENDING" /\ m # 0 THEN WorkWith(s) \cup {m} ELSE WorkWith(s)
<1>1. NewApproval(m) \in ApprovalRecord /\ approvals \in Seq(ApprovalRecord)
  BY DEF NewApproval, ApprovalRecord, ApprovalStatus, GateTypeOK
<1>2. Appended(approvals', approvals, NewApproval(m))
  BY <1>1, SeqAppend
<1>3. /\ DOMAIN approvals' = DOMAIN approvals \cup {Len(approvals')}
      /\ approvals'[Len(approvals')].mat = m /\ approvals'[Len(approvals')].status = "PENDING"
      /\ \A a \in DOMAIN approvals : approvals'[a] = approvals[a]
  BY <1>2 DEF Appended, NewApproval
<1>4. ASSUME NEW w
      PROVE  w \in WorkWith(s)' <=> w \in WorkWith(s) \/ (s = "PENDING" /\ m # 0 /\ w = m)
  <2>1. (\E a \in DOMAIN approvals' : approvals'[a].mat = w /\ approvals'[a].status = s)
           <=> \/ \E a \in DOMAIN approvals : approvals[a].mat = w /\ approvals[a].status = s
               \/ s = "PENDING" /\ w = m
    BY <1>3
  <2>2. QED
    BY <2>1, InWork, InWorkNext
<1>5. CASE s = "PENDING" /\ m # 0
  <2>1. WorkWith(s)' = WorkWith(s) \cup {m}
    BY <1>4, <1>5
  <2>2. QED
    BY <1>5, <2>1
<1>6. CASE ~(s = "PENDING" /\ m # 0)
  <2>1. WorkWith(s)' = WorkWith(s)
    BY <1>4, <1>6
  <2>2. QED
    BY <1>6, <2>1
<1>7. QED
  BY <1>5, <1>6

\* A decided record takes its work from one set to another.
LEMMA WorkDecided ==
  ASSUME GateTypeOK, DecisionsAgree, NEW a \in DOMAIN approvals,
         NEW before \in ApprovalStatus, NEW after \in ApprovalStatus, before # after,
         approvals[a].status = before,
         approvals' = [approvals EXCEPT ![a].status = after], NEW s
  PROVE  LET m == approvals[a].mat
         IN  /\ m = 0 => WorkWith(s)' = WorkWith(s)
             /\ m # 0 /\ s = before => m \in WorkWith(s) /\ WorkWith(s)' = WorkWith(s) \ {m}
             /\ m # 0 /\ s = after => WorkWith(s)' = WorkWith(s) \cup {m}
             /\ s \notin {before, after} => WorkWith(s)' = WorkWith(s)
<1> DEFINE m == approvals[a].mat
<1>1. RecordSetTo(approvals', approvals, a, after)
  BY RecordSet DEF GateTypeOK
<1>2. /\ DOMAIN approvals' = DOMAIN approvals
      /\ \A b \in DOMAIN approvals :
            /\ approvals'[b].mat = approvals[b].mat
            /\ approvals'[b].status = IF b = a THEN after ELSE approvals[b].status
  BY <1>1 DEF RecordSetTo, Same
<1>3. m # 0 => \A b \in DOMAIN approvals : approvals[b].mat = m => a = b
  BY DEF DecisionsAgree
<1>4. ASSUME m = 0 PROVE WorkWith(s)' = WorkWith(s)
  <2>1. \A w : w \in WorkWith(s)' <=> w \in WorkWith(s)
    BY <1>2, <1>4, InWork, InWorkNext
  <2>2. QED
    BY <2>1
<1>5. ASSUME m # 0, s = before PROVE m \in WorkWith(s) /\ WorkWith(s)' = WorkWith(s) \ {m}
  <2>1. \A w : w \in WorkWith(s)' <=> w \in WorkWith(s) /\ w # m
    BY <1>2, <1>3, <1>5, InWork, InWorkNext
  <2>2. m \in WorkWith(s)
    BY <1>5, InWork
  <2>3. QED
    BY <2>1, <2>2
<1>6. ASSUME m # 0, s = after PROVE WorkWith(s)' = WorkWith(s) \cup {m}
  <2>1. \A w : w \in WorkWith(s)' <=> w \in WorkWith(s) \/ w = m
    BY <1>2, <1>3, <1>6, InWork, InWorkNext
  <2>2. QED
    BY <2>1
<1>7. ASSUME s \notin {before, after} PROVE WorkWith(s)' = WorkWith(s)
  <2>1. \A w : w \in WorkWith(s)' <=> w \in WorkWith(s)
    BY <1>2, <1>7, InWork, InWorkNext
  <2>2. QED
    BY <2>1
<1>8. QED
  BY <1>4, <1>5, <1>6, <1>7

LEMMA PromiseInitial == GateInit => Promise!PromiseInit
<1>1. SUFFICES ASSUME GateInit PROVE Promise!PromiseInit
  OBVIOUS
<1>2. approvals = <<>> /\ effects = <<>>
  BY <1>1 DEF GateInit
<1>3. \A s : WorkWith(s) = {}
  BY <1>2 DEF WorkWith
<1>4. QED
  BY <1>2, <1>3 DEF Promise!PromiseInit

LEMMA PromiseStep ==
  ASSUME IInv, GateTypeOK, DecisionsAgree, [GateNext]_gateVars
  PROVE  [Promise!PromiseNext]_(Promise!promise)
<1>1. Step
  BY EveryStep DEF IInv
<1>2. ASSUME NEW d, ToolStarts(d) PROVE \E w \in Works : Promise!Perform(w)
  <2>1. UNCHANGED approvals /\ d \in executing /\ effects' = Append(effects, MilestoneOf(d))
    BY <1>2 DEF ToolStarts
  <2>2. PICK a \in DOMAIN approvals :
           approvals[a].mat = MilestoneOf(d) /\ approvals[a].status = "APPROVED"
    BY <1>2 DEF ToolStarts, RecordOf, Authorizes
  <2>3. MilestoneOf(d) \in Works /\ MilestoneOf(d) # 0
    BY <2>1, MilestoneInPlan, RecordInWorks
  <2>4. MilestoneOf(d) \in WorkWith("APPROVED")
    BY <2>2, <2>3, InWork
  <2>5. Promise!Perform(MilestoneOf(d))
    BY <2>1, <2>4, WorkKept DEF Promise!Perform
  <2>6. QED
    BY <2>3, <2>5
<1>3. CASE UNCHANGED effects
  <2>1. CASE UNCHANGED approvals
    BY <1>3, <2>1, WorkKept DEF Promise!promise
  <2>2. CASE Orphaned
    <3>1. \A s : WorkWith(s)' = WorkWith(s)
      BY <2>2, WorkAsked DEF Orphaned
    <3>2. QED
      BY <1>3, <3>1 DEF Promise!promise
  <2>3. ASSUME NEW m, Asked(m) PROVE \E w \in Works : Promise!Ask(w)
    <3>1. m \in DOMAIN mats /\ mats[m] = "NONE" /\ m \in Works /\ m # 0
      BY <2>3, RecordInWorks DEF Asked
    <3>2. m \in Nat /\ approvals' = Append(approvals, NewApproval(m))
      BY <2>3, <3>1 DEF Asked, IInv, TypeOK, PlanOK
    <3>3. ASSUME NEW a \in DOMAIN approvals PROVE approvals[a].mat # m
      <4>1. approvals[a] \in ApprovalRecord
        BY DEF GateTypeOK
      <4>2. approvals[a].status \in ApprovalStatus
        BY <4>1 DEF ApprovalRecord
      <4>3. QED
        BY <3>1, <4>2, AgreementOf DEF DecisionsAgree
    <3>4. \A s : m \notin WorkWith(s)
      BY <3>3, InWork
    <3>5. /\ WorkWith("PENDING")' = WorkWith("PENDING") \cup {m}
          /\ \A s : s # "PENDING" => WorkWith(s)' = WorkWith(s)
      BY <3>1, <3>2, WorkAsked
    <3>6. Promise!Ask(m)
      BY <1>3, <3>4, <3>5 DEF Promise!Ask
    <3>7. QED
      BY <3>1, <3>6
  <2>4. ASSUME NEW a, Decided(a)
        PROVE  [Promise!PromiseNext]_(Promise!promise)
    <3> DEFINE m == approvals[a].mat
    <3>1. a \in DOMAIN approvals
      BY <2>4 DEF Decided, Verdict
    <3>2. CASE m = 0
      <4>1. \A s : WorkWith(s)' = WorkWith(s)
        BY <2>4, <3>1, <3>2, WorkDecided DEF Decided, Verdict, ApprovalStatus
      <4>2. QED
        BY <1>3, <4>1 DEF Promise!promise
    <3>3. CASE m # 0
      <4>1. m \in Works
        BY <3>1, <3>3, RecordInWorks DEF DecisionsAgree
      <4>2. Promise!Grant(m) \/ Promise!Refuse(m) \/ Promise!Withdraw(m)
        BY <1>3, <2>4, <3>1, <3>3, WorkDecided
        DEF Decided, Verdict, ApprovalStatus, Promise!Grant, Promise!Refuse, Promise!Withdraw
      <4>3. QED
        BY <4>1, <4>2 DEF Promise!PromiseNext
    <3>4. QED
      BY <3>2, <3>3
  <2>5. QED
    BY <1>1, <2>1, <2>2, <2>3, <2>4 DEF Step, Unmoved, Grown, Promise!PromiseNext
<1>4. QED
  BY <1>2, <1>3, EffectsStep DEF Promise!PromiseNext

\* Protected work is decided once, and its operation is performed only while
\* it is granted, whatever is revoked, retried or lost in between.
THEOREM GateKeepsPromise == GateSpec => KeepsPromise
BY PromiseInitial, PromiseStep, GateInvariant, PTL
DEF GateSpec, KeepsPromise, Promise!PromiseSpec

==============================================================================
