------------------------ MODULE CompanyObjectiveProofs ------------------------
(***************************************************************************)
(* What CompanyObjective keeps for any missions, evidence and limits: its  *)
(* credits, the end a decision gives an objective, the validity of all it  *)
(* proposes, and EvaluationPromise.                                        *)
(***************************************************************************)
EXTENDS CompanyObjective, FiniteSetTheorems, TLAPS

USE ObjectiveAssumption

Progressed == {v \in evaluations : v.progress}

\* The verified successes of an objective, against its credits.
Counted(o) ==
    /\ Cardinality(o.credited_evidence_ids) <= o.verified_success_count
    /\ o.verified_success_count <=
          Cardinality(o.credited_evidence_ids) + Cardinality(Progressed)

CountsHold ==
    /\ IsFiniteSet(evaluations)
    /\ Counted(objective)
    /\ \A i \in 1..Len(work.updates) : Counted(work.updates[i])

\* An event has one decision, and the objective's are all among them.
OneDecision ==
    /\ \A d, e \in decisions : d.event = e.event => d = e
    /\ objective.evaluated_terminal_event_ids \subseteq {d.event : d \in decisions}

\* The update of a decision that the objective has not had.
Evaluating(d) ==
    /\ work.withdraws = {d}
    /\ ~is_terminal(objective)
    /\ d.event \notin objective.evaluated_terminal_event_ids
    /\ d.evidence_artifact_ids \cap objective.credited_evidence_ids = {}
    /\ Len(work.updates) = 1
    /\ LET o == work.updates[1]
       IN /\ o.evaluated_terminal_event_ids =
                objective.evaluated_terminal_event_ids \cup {d.event}
          /\ o.credited_evidence_ids =
                objective.credited_evidence_ids \cup d.evidence_artifact_ids
          /\ o.status \in EndsAs(d.decision_type)

\* Updates that no decision is behind leave credits and status alone.
SameCredits(o) ==
    /\ o.evaluated_terminal_event_ids = objective.evaluated_terminal_event_ids
    /\ o.credited_evidence_ids = objective.credited_evidence_ids
    /\ o.status = objective.status

Recording ==
    /\ work.withdraws = {}
    /\ \A i \in 1..Len(work.updates) : SameCredits(work.updates[i])

InHand == Recording \/ \E d \in decisions : Evaluating(d)

\* The credits are those of the applied decisions, each of one of them.
Credited ==
    /\ objective.credited_evidence_ids = UNION {d.evidence_artifact_ids : d \in Applied}
    /\ \A d, e \in Applied :
          d # e => d.evidence_artifact_ids \cap e.evidence_artifact_ids = {}

ObjectiveIInv ==
    /\ ProposalsAreValid
    /\ CountsHold
    /\ OneDecision
    /\ InHand
    /\ Credited
    /\ EndsStand

------------------------------------------------------------------------------
(* What a decision is and what it makes of the objective.                  *)

LEMMA EvidenceIsFinite ==
  ASSUME NEW S \in SUBSET Evidence
  PROVE  IsFiniteSet(S) /\ Cardinality(S) \in Nat
BY FS_Subset, FS_CardinalityType

\* New evidence is credited, and only that.
LEMMA CreditIsNew ==
  ASSUME ObjectiveTypeOK, NEW m \in Missions, NEW credited \in Credit(m)
  PROVE  /\ credited \in SUBSET Evidence
         /\ credited \cap objective.credited_evidence_ids = {}
BY DEF Credit, FirstOf, ObjectiveTypeOK

LEMMA VerdictIsSound ==
  ASSUME ObjectiveTypeOK, NEW event \in Event, NEW credited \in SUBSET Evidence,
         NEW v, v = _build_decision(event.state, credited)
  PROVE  /\ v.decision_type \in {"NO_ACTION", "OBJECTIVE_COMPLETE", "FOLLOW_UP_MISSION",
                                 "CHANGE_STRATEGY", "WAIT", "ESCALATE", "STOP"}
         /\ v.status \in Statuses
         /\ v.status \in EndsAs(v.decision_type)
         /\ v.decision_type = "CHANGE_STRATEGY" =>
               objective.strategy_change_count < max_strategy_changes
         /\ v.status = "COMPLETED" =>
               \/ is_terminal(objective)
               \/ objective.verified_success_count + Cardinality(credited) >= required
<1> DEFINE verified == objective.verified_success_count + Cardinality(credited)
           zero == ZeroProgress(credited)
<1> USE DEF Verdict, EndsAs
<1>1. /\ objective.status \in Statuses
      /\ objective.strategy_change_count \in Nat
      /\ objective.verified_success_count \in Nat
      /\ Cardinality(credited) \in Nat
      /\ event.state \in TERMINAL_MISSION_STATES
  BY EvidenceIsFinite DEF ObjectiveTypeOK, Objective, Event
<1>2. CASE is_terminal(objective)
  BY <1>1, <1>2 DEF _build_decision
<1>3. CASE ~is_terminal(objective) /\ v = Verdict("WAIT", objective.status)
  BY <1>1, <1>3 DEF is_terminal, Statuses, TERMINAL_OBJECTIVE_STATUSES
<1>4. CASE ~is_terminal(objective) /\ v = ProgressVerdict(verified)
  BY <1>1, <1>4 DEF ProgressVerdict, is_terminal, Statuses, TERMINAL_OBJECTIVE_STATUSES
<1>5. CASE ~is_terminal(objective) /\ v = FailureVerdict(zero)
  <2>1. CASE v = Verdict("ESCALATE", "ESCALATED")
    BY <2>1 DEF Statuses, TERMINAL_OBJECTIVE_STATUSES
  <2>2. CASE /\ v = Verdict("CHANGE_STRATEGY", objective.status)
             /\ ~(objective.strategy_change_count >= max_strategy_changes)
    BY <1>1, <1>5, <2>2 DEF is_terminal, Statuses, TERMINAL_OBJECTIVE_STATUSES
  <2>3. QED
    BY <1>5, <2>1, <2>2 DEF FailureVerdict
<1>6. CASE ~is_terminal(objective) /\ v = BlockedVerdict(zero)
  BY <1>6 DEF BlockedVerdict, Statuses, TERMINAL_OBJECTIVE_STATUSES
<1>7. CASE v \in {Verdict("ESCALATE", "EXHAUSTED"), Verdict("ESCALATE", "ESCALATED"),
                  Verdict("STOP", "CANCELLED")}
  BY <1>7 DEF Statuses, TERMINAL_OBJECTIVE_STATUSES
<1>8. QED
  <2> HIDE DEF verified, zero, Verdict, EndsAs
  <2>1. ~is_terminal(objective) =>
           \/ v = Verdict("WAIT", objective.status)
           \/ v = ProgressVerdict(verified)
           \/ v = FailureVerdict(zero)
           \/ v = BlockedVerdict(zero)
           \/ v \in {Verdict("ESCALATE", "EXHAUSTED"), Verdict("ESCALATE", "ESCALATED"),
                     Verdict("STOP", "CANCELLED")}
    BY <1>1 DEF _build_decision, TERMINAL_MISSION_STATES, verified, zero
  <2>2. QED
    BY <1>2, <1>3, <1>4, <1>5, <1>6, <1>7, <2>1

LEMMA ZeroProgressIsCapped ==
  ASSUME ObjectiveTypeOK, NEW credited
  PROVE  ZeroProgress(credited) \in Nat /\ ZeroProgress(credited) <= max_zero_progress_cycles
BY DEF ZeroProgress, Smaller, ObjectiveTypeOK, Objective

\* The update of a decision is valid and counts what it credits.
LEMMA EvaluatedIsValid ==
  ASSUME ObjectiveTypeOK, CountsHold, ~is_terminal(objective),
         NEW event \in Event, NEW credited \in Credit(event.mission),
         NEW v, v = _build_decision(event.state, credited),
         NEW o, o = Evaluated(event, credited, v)
  PROVE  /\ o \in Objective
         /\ enforce_objective_invariants(o)
         /\ Counted(o)
         /\ o.evaluated_terminal_event_ids =
               objective.evaluated_terminal_event_ids \cup {event}
         /\ o.credited_evidence_ids = objective.credited_evidence_ids \cup credited
         /\ o.status = v.status
<1> DEFINE old == objective.credited_evidence_ids
<1>1. /\ credited \in SUBSET Evidence
      /\ credited \cap old = {}
  BY CreditIsNew DEF Event
<1>2. /\ v.status \in Statuses
      /\ v.decision_type = "CHANGE_STRATEGY" =>
            objective.strategy_change_count < max_strategy_changes
      /\ v.status = "COMPLETED" =>
            objective.verified_success_count + Cardinality(credited) >= required
  BY <1>1, VerdictIsSound
<1>3. objective \in Objective /\ enforce_objective_invariants(objective)
  BY DEF ObjectiveTypeOK
<1>4. old \in SUBSET Evidence /\ IsFiniteSet(old) /\ Cardinality(old) \in Nat
  BY <1>3, EvidenceIsFinite DEF Objective
<1>5. IsFiniteSet(credited) /\ Cardinality(credited) \in Nat
  BY <1>1, EvidenceIsFinite
<1>6. Cardinality(old \cup credited) = Cardinality(old) + Cardinality(credited)
  <2>1. Cardinality(old \cup credited) =
           Cardinality(old) + Cardinality(credited) - Cardinality(old \cap credited)
    BY <1>4, <1>5, FS_Union
  <2>2. Cardinality(old \cap credited) = 0
    BY <1>1, FS_EmptySet
  <2>3. QED
    BY <1>4, <1>5, <2>1, <2>2
<1>7. Cardinality(Progressed) \in Nat
  BY FS_Subset, FS_CardinalityType DEF CountsHold, Progressed
<1>8. /\ o.evaluated_terminal_event_ids =
            objective.evaluated_terminal_event_ids \cup {event}
      /\ o.credited_evidence_ids = old \cup credited
      /\ o.status = v.status
      /\ o.verified_success_count =
            objective.verified_success_count + Cardinality(credited)
      /\ o.zero_progress_cycles = ZeroProgress(credited)
      /\ o.linked_mission_ids = objective.linked_mission_ids
      /\ o.strategy_change_count =
            IF v.decision_type = "CHANGE_STRATEGY"
            THEN objective.strategy_change_count + 1
            ELSE objective.strategy_change_count
  BY <1>3 DEF Evaluated, Objective
<1>9. o \in Objective
  <2> DEFINE changes == IF v.decision_type = "CHANGE_STRATEGY"
                        THEN objective.strategy_change_count + 1
                        ELSE objective.strategy_change_count
             verified == objective.verified_success_count + Cardinality(credited)
  <2>1. /\ old \cup credited \in SUBSET Evidence
        /\ objective.evaluated_terminal_event_ids \cup {event} \in SUBSET Event
    BY <1>1, <1>3 DEF Objective
  <2>2. changes \in Nat /\ verified \in Nat /\ objective.version + 1 \in Nat \ {0}
    BY <1>3, <1>5 DEF Objective
  <2>3. ZeroProgress(credited) \in Nat
    BY ZeroProgressIsCapped
  <2>4. o = [objective EXCEPT
                !.status = v.status,
                !.version = objective.version + 1,
                !.credited_evidence_ids = old \cup credited,
                !.evaluated_terminal_event_ids =
                    objective.evaluated_terminal_event_ids \cup {event},
                !.verified_success_count = verified,
                !.zero_progress_cycles = ZeroProgress(credited),
                !.strategy_change_count = changes]
    BY DEF Evaluated
  <2> HIDE DEF changes, verified
  <2>5. QED
    BY <1>2, <1>3, <2>1, <2>2, <2>3, <2>4 DEF Objective
<1>10. enforce_objective_invariants(o)
  BY <1>2, <1>3, <1>8, ZeroProgressIsCapped DEF enforce_objective_invariants, Objective
<1>11. Counted(o)
  BY <1>3, <1>4, <1>5, <1>6, <1>7, <1>8 DEF Counted, CountsHold, Objective
<1>12. QED
  BY <1>8, <1>9, <1>10, <1>11

------------------------------------------------------------------------------
(* The strategy cycle.                                                     *)

\* An objective that only its counts and its version are changed of.
Recounted(o, changes, cycles, executive, verified) ==
    [o EXCEPT !.strategy_change_count = changes,
              !.zero_progress_cycles = cycles,
              !.executive_cycle_count = executive,
              !.verified_success_count = verified,
              !.version = o.version + 1]

\* Recounted within the limits, an objective is valid and has its credits.
LEMMA RecountedIsValid ==
  ASSUME NEW o \in Objective, enforce_objective_invariants(o), SameCredits(o),
         NEW changes \in 0..max_strategy_changes, NEW cycles \in 0..max_zero_progress_cycles,
         NEW executive \in Nat, NEW verified \in Nat, o.verified_success_count <= verified
  PROVE  /\ Recounted(o, changes, cycles, executive, verified) \in Objective
         /\ enforce_objective_invariants(Recounted(o, changes, cycles, executive, verified))
         /\ SameCredits(Recounted(o, changes, cycles, executive, verified))
<1> DEFINE q == Recounted(o, changes, cycles, executive, verified)
<1>1. o.verified_success_count \in Nat /\ o.version + 1 \in Nat \ {0}
  BY DEF Objective
<1>2. changes \in Nat /\ cycles \in Nat
  OBVIOUS
<1>3. /\ q \in Objective
      /\ q.status = o.status
      /\ q.linked_mission_ids = o.linked_mission_ids
      /\ q.credited_evidence_ids = o.credited_evidence_ids
      /\ q.evaluated_terminal_event_ids = o.evaluated_terminal_event_ids
      /\ q.strategy_change_count = changes
      /\ q.zero_progress_cycles = cycles
      /\ q.verified_success_count = verified
  BY <1>1, <1>2 DEF Recounted, Objective
<1> HIDE DEF q
<1>4. enforce_objective_invariants(q)
  BY <1>1, <1>3 DEF enforce_objective_invariants
<1>5. SameCredits(q)
  BY <1>3 DEF SameCredits
<1>6. QED
  BY <1>3, <1>4, <1>5 DEF q

\* Its updates leave credits and status alone and stay within the limits;
\* one more success is counted only with an evaluation that saw progress.
LEMMA StrategyUpdatesAreValid ==
  ASSUME ObjectiveTypeOK, CountsHold, NEW m \in Missions,
         NEW n \in Nat, n = Cardinality(objective.credited_evidence_ids),
         NEW p \in Nat, Cardinality(Progressed) <= p,
         Progresses(m) => Cardinality(Progressed) + 1 <= p
  PROVE  /\ StrategyUpdates(m) \in Seq(Objective)
         /\ \A i \in 1..Len(StrategyUpdates(m)) :
               LET o == StrategyUpdates(m)[i]
               IN /\ enforce_objective_invariants(o)
                  /\ SameCredits(o)
                  /\ n <= o.verified_success_count
                  /\ o.verified_success_count <= n + p
<1> DEFINE Fits(o) == /\ o \in Objective
                      /\ enforce_objective_invariants(o)
                      /\ SameCredits(o)
                      /\ n <= o.verified_success_count
           replanned == IF Replans(m) THEN record_strategy_change(objective) ELSE objective
           recorded == RecordCycle(replanned, m)
           counted == set_verified_success_count(recorded)
<1>1. Cardinality(Progressed) \in Nat
  BY FS_Subset, FS_CardinalityType DEF CountsHold, Progressed
<1>2. /\ Fits(objective)
      /\ objective.verified_success_count <= n + Cardinality(Progressed)
  BY DEF ObjectiveTypeOK, CountsHold, Counted, SameCredits
<1>3. /\ Fits(replanned)
      /\ replanned.verified_success_count = objective.verified_success_count
  <2>1. CASE Replans(m)
    <3> DEFINE changes == objective.strategy_change_count + 1
    <3>1. record_strategy_change(objective) =
             Recounted(objective, changes,
                       objective.zero_progress_cycles, objective.executive_cycle_count,
                       objective.verified_success_count)
      BY <1>2 DEF record_strategy_change, Objective, Recounted
    <3>2. /\ changes \in 0..max_strategy_changes
          /\ objective.zero_progress_cycles \in 0..max_zero_progress_cycles
          /\ objective.executive_cycle_count \in Nat
          /\ objective.verified_success_count \in Nat
          /\ objective.verified_success_count <= objective.verified_success_count
      BY <1>2, <2>1 DEF Objective, Replans, enforce_objective_invariants
    <3>3. replanned = record_strategy_change(objective)
      BY <2>1
    <3> HIDE DEF replanned, changes
    <3>4. replanned.verified_success_count = objective.verified_success_count
      BY <1>2, <3>1, <3>3 DEF Recounted, Objective
    <3>5. /\ replanned \in Objective
          /\ enforce_objective_invariants(replanned)
          /\ SameCredits(replanned)
      BY <1>2, <3>1, <3>2, <3>3, RecountedIsValid
    <3>6. QED
      BY <1>2, <3>4, <3>5
  <2>2. QED
    BY <1>2, <2>1
<1>4. CyclesWithout(m) \in Nat /\ CyclesWithout(m) <= max_zero_progress_cycles
  BY <1>2 DEF CyclesWithout, Smaller, Objective
<1>5. /\ Fits(recorded)
      /\ recorded.verified_success_count = objective.verified_success_count
  <2> HIDE DEF replanned
  <2>1. recorded = Recounted(replanned, replanned.strategy_change_count,
                             CyclesWithout(m), replanned.executive_cycle_count + 1,
                             replanned.verified_success_count)
    BY <1>3 DEF RecordCycle, Objective, Recounted
  <2>2. /\ replanned.strategy_change_count \in 0..max_strategy_changes
        /\ CyclesWithout(m) \in 0..max_zero_progress_cycles
        /\ replanned.executive_cycle_count + 1 \in Nat
        /\ replanned.verified_success_count \in Nat
    BY <1>3, <1>4 DEF Objective, enforce_objective_invariants
  <2> HIDE DEF replanned, recorded
  <2>3. recorded.verified_success_count = replanned.verified_success_count
    BY <1>3, <2>1 DEF Recounted, Objective
  <2>4. /\ recorded \in Objective
        /\ enforce_objective_invariants(recorded)
        /\ SameCredits(recorded)
    BY <1>3, <2>1, <2>2, RecountedIsValid
  <2>5. QED
    BY <1>3, <2>3, <2>4
<1>6. Fits(counted) /\ counted.verified_success_count = objective.verified_success_count + 1
  <2> HIDE DEF recorded
  <2> DEFINE verified == recorded.verified_success_count + 1
  <2>1. counted = Recounted(recorded, recorded.strategy_change_count,
                            recorded.zero_progress_cycles, recorded.executive_cycle_count,
                            verified)
    BY <1>5 DEF set_verified_success_count, Objective, Recounted
  <2>2. /\ recorded.strategy_change_count \in 0..max_strategy_changes
        /\ recorded.zero_progress_cycles \in 0..max_zero_progress_cycles
        /\ recorded.executive_cycle_count \in Nat
        /\ recorded.verified_success_count \in Nat
        /\ verified \in Nat
        /\ recorded.verified_success_count <= verified
    BY <1>5 DEF Objective, enforce_objective_invariants
  <2>3. counted.verified_success_count = recorded.verified_success_count + 1
    BY <1>5, <2>1 DEF Recounted, Objective
  <2> HIDE DEF recorded, counted, verified
  <2>4. /\ counted \in Objective
        /\ enforce_objective_invariants(counted)
        /\ SameCredits(counted)
    BY <1>5, <2>1, <2>2, RecountedIsValid
  <2>5. QED
    BY <1>5, <2>2, <2>3, <2>4
<1> DEFINE earlier == IF Replans(m) THEN <<replanned>> ELSE <<>>
           later == IF Progresses(m) THEN <<counted>> ELSE <<>>
<1>7. StrategyUpdates(m) = earlier \o <<recorded>> \o later
  BY DEF StrategyUpdates
<1>8. /\ replanned.verified_success_count <= n + p
      /\ recorded.verified_success_count <= n + p
      /\ Progresses(m) => counted.verified_success_count <= n + p
  BY <1>1, <1>2, <1>3, <1>5, <1>6 DEF Objective
<1>9. later # <<>> => Progresses(m)
  OBVIOUS
<1> DEFINE Right(o) == Fits(o) /\ o.verified_success_count <= n + p
<1>11. /\ Right(recorded)
       /\ \A i \in 1..Len(earlier) : Right(earlier[i])
       /\ \A i \in 1..Len(later) : Right(later[i])
  <2> HIDE DEF replanned, recorded, counted, Fits
  <2>1. QED
    BY <1>3, <1>5, <1>6, <1>8
<1>12. earlier \in Seq(Objective) /\ later \in Seq(Objective) /\ Len(earlier) \in 0..1
  <2> HIDE DEF replanned, recorded, counted
  <2>1. QED
    BY <1>3, <1>6
<1> HIDE DEF replanned, recorded, counted, earlier, later, Right
<1>13. recorded \in Objective
  BY <1>5
<1>14. StrategyUpdates(m) \in Seq(Objective)
  BY <1>7, <1>12, <1>13
<1>15. \A i \in 1..Len(StrategyUpdates(m)) : Right(StrategyUpdates(m)[i])
  BY <1>7, <1>11, <1>12, <1>13
<1>16. QED
  BY <1>14, <1>15 DEF Right

------------------------------------------------------------------------------
(* The steps keep the invariant.                                           *)

LEMMA NothingIsTyped ==
  /\ Nothing \in [withdraws : SUBSET Decision, updates : Seq(Objective)]
  /\ Nothing.withdraws = {}
  /\ Len(Nothing.updates) = 0
BY DEF Nothing

LEMMA InitIsSound == ObjectiveInit => ObjectiveIInv
<1> SUFFICES ASSUME ObjectiveInit PROVE ObjectiveIInv
  OBVIOUS
<1>1. /\ objective \in Objective
      /\ enforce_objective_invariants(objective)
      /\ objective.credited_evidence_ids = {}
      /\ objective.evaluated_terminal_event_ids = {}
      /\ objective.verified_success_count = 0
  BY FS_EmptySet
  DEF ObjectiveInit, Objective, enforce_objective_invariants, Statuses
<1>2. Progressed = {}
  BY DEF Progressed, ObjectiveInit
<1>3. ProposalsAreValid
  BY <1>1, NothingIsTyped DEF ObjectiveInit, ProposalsAreValid, ObjectiveTypeOK
<1>4. CountsHold
  BY <1>1, <1>2, NothingIsTyped, FS_EmptySet DEF ObjectiveInit, CountsHold, Counted
<1>5. OneDecision /\ InHand
  BY <1>1, NothingIsTyped DEF ObjectiveInit, OneDecision, InHand, Recording
<1>6. Applied = {}
  BY <1>1 DEF Applied
<1>7. QED
  BY <1>1, <1>3, <1>4, <1>5, <1>6 DEF ObjectiveIInv, Credited, EndsStand

\* A step that leaves the objective, the decisions and the work alone, and
\* what is proposed of missions, events and plans typed.
LEMMA ElsewhereIsSound ==
  ASSUME ObjectiveIInv,
         UNCHANGED <<objective, decisions, work, evaluations>>,
         missions' \in [Missions -> [status : TERMINAL_MISSION_STATES \cup {"ACTIVE"},
                                     evidence : SUBSET Evidence]],
         events' \subseteq Event, plan' \in Nat, portfolio' \in Nat
  PROVE  ObjectiveIInv'
BY DEF ObjectiveIInv, ProposalsAreValid, ObjectiveTypeOK, CountsHold, Counted, Progressed,
       OneDecision, InHand, Recording, SameCredits, Evaluating, Credited, EndsStand, Applied

\* A step of an idle event loop that changes only an objective's status, version
\* or links, and does not end one or reopen one that a decision has ended.
LEMMA ControlIsSound ==
  ASSUME ObjectiveIInv, Idle,
         objective' \in Objective, enforce_objective_invariants(objective'),
         objective'.credited_evidence_ids = objective.credited_evidence_ids,
         objective'.evaluated_terminal_event_ids = objective.evaluated_terminal_event_ids,
         objective'.verified_success_count = objective.verified_success_count,
         ~is_terminal(objective),
         UNCHANGED <<missions, events, decisions, work, plan, portfolio, evaluations>>
  PROVE  ObjectiveIInv'
<1> USE DEF ObjectiveIInv
<1>1. work = Nothing
  BY DEF Idle
<1>2. ProposalsAreValid'
  BY <1>1, NothingIsTyped DEF ProposalsAreValid, ObjectiveTypeOK
<1>3. CountsHold'
  BY <1>1, NothingIsTyped DEF CountsHold, Counted, Progressed
<1>4. OneDecision'
  BY DEF OneDecision
<1>5. InHand'
  BY <1>1, NothingIsTyped DEF InHand, Recording
<1>6. Applied' = Applied
  BY DEF Applied
<1>7. Credited'
  BY <1>6 DEF Credited
<1>8. EndsStand'
  <2>1. \A d \in Applied : EndsAs(d.decision_type) = Statuses
    BY DEF EndsStand, EndsAs, is_terminal, TERMINAL_OBJECTIVE_STATUSES
  <2>2. QED
    BY <1>6, <2>1 DEF EndsStand, Objective
<1>9. QED
  BY <1>2, <1>3, <1>4, <1>5, <1>7, <1>8

LEMMA SaveMissionIsSound ==
  ASSUME ObjectiveIInv, NEW m \in Missions, NEW status \in MissionStates,
         NEW evidence \in SUBSET Evidence, save_mission(m, status, evidence)
  PROVE  ObjectiveIInv'
<1>1. events' \subseteq Event
  BY DEF ObjectiveIInv, ProposalsAreValid, ObjectiveTypeOK, save_mission, Published, Event
<1>2. missions' \in [Missions -> [status : TERMINAL_MISSION_STATES \cup {"ACTIVE"},
                                  evidence : SUBSET Evidence]]
  BY DEF ObjectiveIInv, ProposalsAreValid, ObjectiveTypeOK, save_mission
<1>3. plan \in Nat /\ portfolio \in Nat
  BY DEF ObjectiveIInv, ProposalsAreValid, ObjectiveTypeOK
<1>4. QED
  BY <1>1, <1>2, <1>3, ElsewhereIsSound DEF save_mission

\* The handler of an event saves its first decision, with the update to make.
LEMMA DecidesIsSound ==
  ASSUME ObjectiveIInv, NEW event \in Event, Idle, Decides(event), events' \subseteq Event,
         UNCHANGED <<missions, objective, plan, portfolio, evaluations>>
  PROVE  ObjectiveIInv'
<1> USE DEF ObjectiveIInv
<1>1. PICK credited, v, d, o :
         /\ credited \in Credit(event.mission)
         /\ v = _build_decision(event.state, credited)
         /\ d = [event |-> event,
                 decision_type |-> v.decision_type,
                 evidence_artifact_ids |-> credited]
         /\ o = Evaluated(event, credited, v)
         /\ Decided(event) = {}
         /\ decisions' = decisions \cup {d}
         /\ work' = IF is_terminal(objective) THEN Nothing
                    ELSE [withdraws |-> {d}, updates |-> <<o>>]
  BY DEF Decides
<1>2. /\ Decided(event) = {}
      /\ decisions' = decisions \cup {d}
      /\ work' = IF is_terminal(objective) THEN Nothing
                 ELSE [withdraws |-> {d}, updates |-> <<o>>]
  BY <1>1
<1>3. ObjectiveTypeOK
  BY DEF ProposalsAreValid
<1>4. /\ credited \in SUBSET Evidence
      /\ credited \cap objective.credited_evidence_ids = {}
  BY <1>1, <1>3, CreditIsNew DEF Event
<1>5. d \in Decision /\ v.status \in EndsAs(v.decision_type)
  BY <1>1, <1>3, <1>4, VerdictIsSound DEF Decision
<1>6. d.event = event /\ d.evidence_artifact_ids = credited
      /\ d.decision_type = v.decision_type
  BY <1>1
<1>7. event \notin objective.evaluated_terminal_event_ids
  BY <1>2 DEF OneDecision, Decided
<1>8. CASE is_terminal(objective)
  <2>1. work' = Nothing
    BY <1>2, <1>8
  <2>2. ProposalsAreValid' /\ CountsHold' /\ InHand'
    <3>1. decisions' \subseteq Decision
      BY <1>2, <1>3, <1>5 DEF ObjectiveTypeOK
    <3>2. /\ work' \in [withdraws : SUBSET Decision, updates : Seq(Objective)]
          /\ work'.withdraws = {}
          /\ Len(work'.updates) = 0
      BY <2>1, NothingIsTyped
    <3>3. ObjectiveTypeOK'
      BY <1>3, <3>1, <3>2 DEF ObjectiveTypeOK
    <3>4. QED
      BY <3>2, <3>3
      DEF ProposalsAreValid, CountsHold, Counted, Progressed, InHand, Recording
  <2>3. OneDecision'
    BY <1>2, <1>6 DEF OneDecision, Decided
  <2>4. Applied' = Applied
    BY <1>2, <1>6, <1>7 DEF Applied
  <2>5. QED
    BY <2>2, <2>3, <2>4 DEF Credited, EndsStand
<1>9. CASE ~is_terminal(objective)
  <2>1. /\ o \in Objective
        /\ enforce_objective_invariants(o)
        /\ Counted(o)
        /\ o.evaluated_terminal_event_ids =
              objective.evaluated_terminal_event_ids \cup {event}
        /\ o.credited_evidence_ids = objective.credited_evidence_ids \cup credited
        /\ o.status = v.status
    BY <1>1, <1>3, <1>9, EvaluatedIsValid
  <2>2. work' = [withdraws |-> {d}, updates |-> <<o>>]
    BY <1>2, <1>9
  <2>3. Len(work'.updates) = 1 /\ work'.updates[1] = o /\ work'.withdraws = {d}
    BY <2>2
  <2>4. ProposalsAreValid'
    <3>1. decisions' \subseteq Decision
      BY <1>2, <1>3, <1>5 DEF ObjectiveTypeOK
    <3>2. work' \in [withdraws : SUBSET Decision, updates : Seq(Objective)]
      BY <1>5, <2>1, <2>2
    <3>3. ObjectiveTypeOK'
      BY <1>3, <3>1, <3>2 DEF ObjectiveTypeOK
    <3>4. QED
      BY <2>1, <2>3, <3>3 DEF ProposalsAreValid
  <2>5. CountsHold'
    <3>1. Counted(o)' /\ Counted(objective)'
      BY <2>1 DEF CountsHold, Counted, Progressed
    <3>2. QED
      BY <2>3, <3>1 DEF CountsHold, Counted, Progressed
  <2>6. OneDecision'
    BY <1>2, <1>6 DEF OneDecision, Decided
  <2>7. InHand'
    <3>1. Evaluating(d)'
      BY <1>4, <1>5, <1>6, <1>7, <1>9, <2>1, <2>3 DEF Evaluating, is_terminal
    <3>2. QED
      BY <1>2, <3>1 DEF InHand
  <2>8. Applied' = Applied
    BY <1>2, <1>6, <1>7 DEF Applied
  <2>9. QED
    BY <2>4, <2>5, <2>6, <2>7, <2>8 DEF Credited, EndsStand
<1>10. QED
  BY <1>8, <1>9

LEMMA EvaluateIsSound ==
  ASSUME ObjectiveIInv, NEW event \in events, evaluate(event)
  PROVE  ObjectiveIInv'
<1>1. /\ event \in Event /\ events' \subseteq Event
      /\ missions \in [Missions -> [status : TERMINAL_MISSION_STATES \cup {"ACTIVE"},
                                    evidence : SUBSET Evidence]]
      /\ plan \in Nat /\ portfolio \in Nat
  BY DEF evaluate, ObjectiveIInv, ProposalsAreValid, ObjectiveTypeOK
<1>2. CASE Decides(event)
  BY <1>1, <1>2, DecidesIsSound DEF evaluate
<1>3. CASE Refuses
  BY <1>1, <1>3, ElsewhereIsSound DEF evaluate, Refuses
<1>4. QED
  BY <1>2, <1>3 DEF evaluate

\* What an update leaves of the work.
LEMMA UpdateLeaves ==
  ASSUME ObjectiveIInv, update
  PROVE  /\ objective' = work.updates[1]
         /\ objective' \in Objective
         /\ enforce_objective_invariants(objective')
         /\ Counted(objective')
         /\ work' \in [withdraws : SUBSET Decision, updates : Seq(Objective)]
         /\ work'.withdraws \in {{}, work.withdraws}
         /\ Len(work.updates) = 1 => work' = Nothing
         /\ \A i \in 1..Len(work'.updates) :
               \E j \in 1..Len(work.updates) : work'.updates[i] = work.updates[j]
<1>1. work \in [withdraws : SUBSET Decision, updates : Seq(Objective)]
  BY DEF ObjectiveIInv, ProposalsAreValid, ObjectiveTypeOK
<1>2. work.updates \in Seq(Objective) /\ work.updates # <<>> /\ work.withdraws \in SUBSET Decision
  BY <1>1 DEF update
<1>3. Len(work.updates) \in Nat \ {0} /\ Head(work.updates) = work.updates[1]
  BY <1>2
<1>4. objective' = work.updates[1] /\ objective' \in Objective
  BY <1>2, <1>3 DEF update
<1>5. enforce_objective_invariants(objective') /\ Counted(objective')
  <2>1. Counted(work.updates[1])
    BY <1>3 DEF ObjectiveIInv, CountsHold
  <2>2. QED
    BY <1>4, <2>1 DEF update
<1>6. CASE Len(work.updates) = 1
  <2>1. work' = Nothing
    BY <1>6 DEF update
  <2>2. QED
    BY <1>4, <1>5, <2>1, NothingIsTyped
<1>7. CASE Len(work.updates) # 1
  <2>1. work' = [work EXCEPT !.updates = Tail(work.updates)]
    BY <1>7 DEF update
  <2>2. work'.updates = Tail(work.updates) /\ work'.withdraws = work.withdraws
    BY <1>1, <2>1
  <2>3. /\ Tail(work.updates) \in Seq(Objective)
        /\ \A i \in 1..Len(Tail(work.updates)) :
              i + 1 \in 1..Len(work.updates) /\ Tail(work.updates)[i] = work.updates[i + 1]
    BY <1>2, <1>3
  <2>4. work' \in [withdraws : SUBSET Decision, updates : Seq(Objective)]
    BY <1>1, <2>1, <2>3
  <2>5. QED
    BY <1>4, <1>5, <1>7, <2>2, <2>3, <2>4
<1>8. QED
  BY <1>6, <1>7

LEMMA UpdateIsSound ==
  ASSUME ObjectiveIInv, update
  PROVE  ObjectiveIInv'
<1> USE DEF ObjectiveIInv
<1>1. /\ objective' = work.updates[1]
      /\ objective' \in Objective
      /\ enforce_objective_invariants(objective')
      /\ Counted(objective')
      /\ work' \in [withdraws : SUBSET Decision, updates : Seq(Objective)]
      /\ work'.withdraws \in {{}, work.withdraws}
      /\ Len(work.updates) = 1 => work' = Nothing
      /\ \A i \in 1..Len(work'.updates) :
            \E j \in 1..Len(work.updates) : work'.updates[i] = work.updates[j]
  BY UpdateLeaves
<1>2. UNCHANGED <<missions, events, decisions, plan, portfolio, evaluations>>
  BY DEF update
<1>3. ProposalsAreValid'
  BY <1>1, <1>2 DEF ProposalsAreValid, ObjectiveTypeOK
<1>4. CountsHold'
  BY <1>1, <1>2 DEF CountsHold, Counted, Progressed
<1>5. 1 \in 1..Len(work.updates)
  <2>1. work.updates \in Seq(Objective) /\ work.updates # <<>>
    BY DEF update, ProposalsAreValid, ObjectiveTypeOK
  <2>2. QED
    BY <2>1
<1>6. CASE Recording
  <2>1. SameCredits(work.updates[1])
    BY <1>5, <1>6 DEF Recording
  <2>2. OneDecision'
    BY <1>1, <1>2, <2>1 DEF OneDecision, SameCredits
  <2>3. InHand'
    BY <1>1, <1>6, <2>1 DEF InHand, Recording, SameCredits
  <2>4. Applied' = Applied
    BY <1>1, <1>2, <2>1 DEF Applied, SameCredits
  <2>5. QED
    BY <1>1, <1>3, <1>4, <2>1, <2>2, <2>3, <2>4 DEF Credited, EndsStand, SameCredits
<1>7. ASSUME NEW d \in decisions, Evaluating(d)
      PROVE  ObjectiveIInv'
  <2>1. work' = Nothing
    BY <1>1, <1>7 DEF Evaluating
  <2>2. /\ objective'.evaluated_terminal_event_ids =
              objective.evaluated_terminal_event_ids \cup {d.event}
        /\ objective'.credited_evidence_ids =
              objective.credited_evidence_ids \cup d.evidence_artifact_ids
        /\ objective'.status \in EndsAs(d.decision_type)
        /\ d.evidence_artifact_ids \cap objective.credited_evidence_ids = {}
        /\ ~is_terminal(objective)
    BY <1>1, <1>7 DEF Evaluating
  <2>3. OneDecision'
    BY <1>2, <1>7, <2>2 DEF OneDecision
  <2>4. InHand'
    BY <2>1, NothingIsTyped DEF InHand, Recording
  <2>5. Applied' = Applied \cup {d}
    BY <1>2, <1>7, <2>2 DEF Applied, OneDecision
  <2>6. Credited'
    BY <2>2, <2>5 DEF Credited
  <2>7. EndsStand'
    <3>1. \A e \in Applied : EndsAs(e.decision_type) = Statuses
      BY <2>2 DEF EndsStand, EndsAs, is_terminal, TERMINAL_OBJECTIVE_STATUSES
    <3>2. objective'.status \in Statuses
      BY <1>1 DEF Objective
    <3>3. QED
      BY <2>2, <2>5, <3>1, <3>2 DEF EndsStand
  <2>8. QED
    BY <1>3, <1>4, <2>3, <2>4, <2>6, <2>7
<1>8. QED
  BY <1>6, <1>7 DEF InHand

\* Work that is dropped takes at most a decision with it that is not applied.
LEMMA DroppedIsSound ==
  ASSUME ObjectiveIInv, work' = Nothing,
         \/ decisions' = decisions
         \/ work.updates # <<>> /\ decisions' = decisions \ work.withdraws,
         events' \subseteq Event,
         UNCHANGED <<missions, objective, plan, portfolio, evaluations>>
  PROVE  ObjectiveIInv'
<1> USE DEF ObjectiveIInv
<1>1. ProposalsAreValid' /\ CountsHold' /\ InHand'
  <2>1. ObjectiveTypeOK'
    BY NothingIsTyped DEF ProposalsAreValid, ObjectiveTypeOK
  <2>2. QED
    BY <2>1, NothingIsTyped
    DEF ProposalsAreValid, CountsHold, Counted, Progressed, InHand, Recording
<1>2. \A d \in decisions \ decisions' : d.event \notin objective.evaluated_terminal_event_ids
  BY DEF InHand, Recording, Evaluating
<1>3. OneDecision' /\ Applied' = Applied
  BY <1>2 DEF OneDecision, Applied
<1>4. QED
  BY <1>1, <1>3 DEF Credited, EndsStand

LEMMA EvaluatePortfolioIsSound ==
  ASSUME ObjectiveIInv, NEW m \in Missions, evaluate_portfolio_outcome(m)
  PROVE  ObjectiveIInv'
<1> USE DEF ObjectiveIInv
<1>0. PICK v : v = [portfolio |-> portfolio, mission |-> m, progress |-> Progresses(m)]
  OBVIOUS
<1>1. /\ v = [portfolio |-> portfolio, mission |-> m, progress |-> Progresses(m)]
      /\ v \notin evaluations
      /\ evaluations' = evaluations \cup {v}
      /\ work' = [withdraws |-> {}, updates |-> StrategyUpdates(m)]
      /\ UNCHANGED <<missions, objective, events, decisions, plan, portfolio>>
  BY <1>0 DEF evaluate_portfolio_outcome
<1>2. ObjectiveTypeOK /\ IsFiniteSet(evaluations)
  BY DEF ProposalsAreValid, CountsHold
<1>3. /\ IsFiniteSet(Progressed) /\ Cardinality(Progressed) \in Nat
      /\ v \notin Progressed
  BY <1>1, <1>2, FS_Subset, FS_CardinalityType DEF Progressed
<1>4. IsFiniteSet(evaluations')
  BY <1>1, <1>2, FS_AddElement
<1>5. IsFiniteSet(Progressed') /\ Cardinality(Progressed') \in Nat
  BY <1>4, FS_Subset, FS_CardinalityType DEF Progressed
<1>6. /\ Cardinality(Progressed) <= Cardinality(Progressed')
      /\ Progresses(m) => Cardinality(Progressed) + 1 <= Cardinality(Progressed')
  <2>1. CASE Progresses(m)
    <3>1. v.progress
      BY <1>1, <2>1
    <3>2. Progressed' = Progressed \cup {v}
      BY <1>1, <3>1 DEF Progressed
    <3>3. Cardinality(Progressed \cup {v}) = Cardinality(Progressed) + 1
      BY <1>3, FS_AddElement
    <3>4. QED
      BY <1>3, <3>2, <3>3
  <2>2. CASE ~Progresses(m)
    <3>1. ~v.progress
      BY <1>1, <2>2
    <3>2. Progressed' = Progressed
      BY <1>1, <3>1 DEF Progressed
    <3>3. QED
      BY <1>3, <2>2, <3>2
  <2>3. QED
    BY <2>1, <2>2
<1>7. PICK n \in Nat : n = Cardinality(objective.credited_evidence_ids)
  BY <1>2, EvidenceIsFinite DEF ObjectiveTypeOK, Objective
<1>8. PICK p \in Nat : p = Cardinality(Progressed')
  BY <1>5
<1>9. /\ StrategyUpdates(m) \in Seq(Objective)
      /\ \A i \in 1..Len(StrategyUpdates(m)) :
            LET o == StrategyUpdates(m)[i]
            IN /\ enforce_objective_invariants(o)
               /\ SameCredits(o)
               /\ n <= o.verified_success_count
               /\ o.verified_success_count <= n + p
  BY <1>2, <1>6, <1>7, <1>8, StrategyUpdatesAreValid
<1>10. PICK us : us = StrategyUpdates(m)
  OBVIOUS
<1>11. work'.withdraws = {} /\ work'.updates = us
  BY <1>1, <1>10
<1>12. ProposalsAreValid'
  <2>1. evaluations' \subseteq Evaluation
    <3>1. Progresses(m) \in BOOLEAN
      BY DEF Progresses
    <3>2. v \in Evaluation
      BY <1>1, <1>2, <3>1 DEF Evaluation, ObjectiveTypeOK
    <3>3. QED
      BY <1>1, <1>2, <3>2 DEF ObjectiveTypeOK
  <2>2. work' \in [withdraws : SUBSET Decision, updates : Seq(Objective)]
    BY <1>1, <1>9
  <2>3. ObjectiveTypeOK'
    BY <1>1, <1>2, <2>1, <2>2 DEF ObjectiveTypeOK
  <2>4. QED
    BY <1>9, <1>10, <1>11, <2>3 DEF ProposalsAreValid
<1>13. CountsHold'
  <2>1. Counted(objective)'
    <3>1. /\ objective.verified_success_count \in Nat
          /\ n <= objective.verified_success_count
          /\ objective.verified_success_count <= n + Cardinality(Progressed)
      BY <1>2, <1>7 DEF CountsHold, Counted, ObjectiveTypeOK, Objective
    <3>2. objective.verified_success_count <= n + p
      BY <1>3, <1>6, <1>8, <3>1
    <3>3. QED
      BY <1>1, <1>7, <1>8, <3>1, <3>2 DEF Counted
  <2>2. \A i \in 1..Len(us) :
           /\ Cardinality(us[i].credited_evidence_ids) <= us[i].verified_success_count
           /\ us[i].verified_success_count <=
                 Cardinality(us[i].credited_evidence_ids) + Cardinality(Progressed')
    BY <1>7, <1>8, <1>9, <1>10 DEF SameCredits
  <2>3. QED
    BY <1>4, <1>11, <2>1, <2>2 DEF CountsHold, Counted
<1>14. InHand'
  BY <1>1, <1>9, <1>10, <1>11 DEF InHand, Recording, SameCredits
<1>15. QED
  BY <1>1, <1>12, <1>13, <1>14 DEF OneDecision, Credited, EndsStand, Applied

LEMMA LinkIsSound ==
  ASSUME ObjectiveIInv, NEW m \in Missions, link_mission(m)
  PROVE  ObjectiveIInv'
<1> DEFINE linked == objective.linked_mission_ids
<1>1. objective \in Objective /\ enforce_objective_invariants(objective)
  BY DEF ObjectiveIInv, ProposalsAreValid, ObjectiveTypeOK
<1>2. linked \cup {m} \in SUBSET Missions /\ objective.version + 1 \in Nat \ {0}
  BY <1>1 DEF Objective
<1>3. objective' = [objective EXCEPT !.linked_mission_ids = linked \cup {m},
                                     !.version = objective.version + 1]
  BY DEF link_mission
<1>4. Cardinality(linked \cup {m}) <= max_missions
  <2>1. IsFiniteSet(linked) /\ Cardinality(linked) \in Nat
    BY <1>1, FS_Subset, FS_CardinalityType DEF Objective
  <2>2. Cardinality(linked) < max_missions
    BY DEF link_mission
  <2>3. Cardinality(linked \cup {m}) \in {Cardinality(linked), Cardinality(linked) + 1}
    BY <2>1, FS_AddElement
  <2>4. QED
    BY <2>1, <2>2, <2>3
<1> HIDE DEF linked
<1>5. objective' \in Objective
  BY <1>1, <1>2, <1>3 DEF Objective
<1>6. /\ objective'.linked_mission_ids = linked \cup {m}
      /\ objective'.status = objective.status
      /\ objective'.credited_evidence_ids = objective.credited_evidence_ids
      /\ objective'.evaluated_terminal_event_ids = objective.evaluated_terminal_event_ids
      /\ objective'.verified_success_count = objective.verified_success_count
      /\ objective'.strategy_change_count = objective.strategy_change_count
      /\ objective'.zero_progress_cycles = objective.zero_progress_cycles
  BY <1>1, <1>3 DEF Objective
<1>7. enforce_objective_invariants(objective')
  BY <1>1, <1>4, <1>6 DEF enforce_objective_invariants
<1>8. QED
  BY <1>5, <1>6, <1>7, ControlIsSound DEF link_mission

LEMMA ForcedSaveIsSound ==
  ASSUME ObjectiveIInv, NEW status \in {"PAUSED", "ACTIVE", "CANCELLED"},
         ~is_terminal(objective), _force_objective_save(status)
  PROVE  ObjectiveIInv'
<1>1. objective \in Objective /\ enforce_objective_invariants(objective)
  BY DEF ObjectiveIInv, ProposalsAreValid, ObjectiveTypeOK
<1>2. objective' = [objective EXCEPT !.status = status] /\ status \in Statuses
  BY DEF _force_objective_save, Statuses, TERMINAL_OBJECTIVE_STATUSES
<1>3. /\ objective' \in Objective
      /\ objective'.status = status
      /\ objective'.linked_mission_ids = objective.linked_mission_ids
      /\ objective'.credited_evidence_ids = objective.credited_evidence_ids
      /\ objective'.evaluated_terminal_event_ids = objective.evaluated_terminal_event_ids
      /\ objective'.verified_success_count = objective.verified_success_count
      /\ objective'.strategy_change_count = objective.strategy_change_count
      /\ objective'.zero_progress_cycles = objective.zero_progress_cycles
  BY <1>1, <1>2 DEF Objective
<1>4. enforce_objective_invariants(objective')
  BY <1>1, <1>3 DEF enforce_objective_invariants
<1>5. QED
  BY <1>3, <1>4, ControlIsSound DEF _force_objective_save

LEMMA NextIsSound == ObjectiveIInv /\ [ObjectiveNext]_objectiveVars => ObjectiveIInv'
<1> SUFFICES ASSUME ObjectiveIInv, [ObjectiveNext]_objectiveVars PROVE ObjectiveIInv'
  OBVIOUS
<1>1. /\ missions \in [Missions -> [status : TERMINAL_MISSION_STATES \cup {"ACTIVE"},
                                    evidence : SUBSET Evidence]]
      /\ events \subseteq Event /\ plan \in Nat /\ portfolio \in Nat
      /\ objective \in Objective
  BY DEF ObjectiveIInv, ProposalsAreValid, ObjectiveTypeOK
<1>2. CASE \E m \in Missions, status \in MissionStates, evidence \in SUBSET Evidence :
              save_mission(m, status, evidence)
  BY <1>2, SaveMissionIsSound
<1>3. CASE \E event \in events : evaluate(event)
  BY <1>3, EvaluateIsSound
<1>4. CASE update
  BY <1>4, UpdateIsSound
<1>5. CASE UpdateFails
  BY <1>1, <1>5, DroppedIsSound DEF UpdateFails
<1>6. CASE \E m \in Missions : link_mission(m) \/ evaluate_portfolio_outcome(m)
  BY <1>6, LinkIsSound, EvaluatePortfolioIsSound
<1>7. CASE develop_strategy
  BY <1>1, <1>7, ElsewhereIsSound DEF develop_strategy, Objective
<1>8. CASE materialize_portfolio
  BY <1>1, <1>8, ElsewhereIsSound DEF materialize_portfolio
<1>9. CASE pause_objective
  BY <1>9, ForcedSaveIsSound DEF pause_objective
<1>10. CASE resume_objective
  BY <1>10, ForcedSaveIsSound DEF resume_objective, is_terminal, TERMINAL_OBJECTIVE_STATUSES
<1>11. CASE cancel_objective
  BY <1>11, ForcedSaveIsSound DEF cancel_objective
<1>12. CASE Restart
  BY <1>12, DroppedIsSound DEF Restart
<1>13. CASE UNCHANGED objectiveVars
  BY <1>1, <1>13, ElsewhereIsSound DEF objectiveVars
<1>14. QED
  BY <1>2, <1>3, <1>4, <1>5, <1>6, <1>7, <1>8, <1>9, <1>10, <1>11, <1>12, <1>13
  DEF ObjectiveNext

LEMMA AlwaysSound == ObjectiveSpec => []ObjectiveIInv
BY InitIsSound, NextIsSound, PTL DEF ObjectiveSpec

------------------------------------------------------------------------------
(* The theorems.                                                           *)

\* What is stored of an objective and what a handler is about to write of it is
\* always what the schema accepts, whatever limits the objective was given.
THEOREM AlwaysProposesValid == ObjectiveSpec => []ProposalsAreValid
BY AlwaysSound, PTL DEF ObjectiveIInv

\* The credits of an objective are those of the decisions it has had the update
\* of, each piece of evidence once; what it counts as verified is at least that,
\* and no more than the strategy cycle saw besides.
THEOREM AlwaysCredited == ObjectiveSpec => []CreditIsDecided
<1>1. ObjectiveIInv => CreditIsDecided
  <2>1. Progressed = {v \in evaluations : v.progress}
    BY DEF Progressed
  <2>2. QED
    BY <2>1 DEF ObjectiveIInv, CountsHold, Counted, Credited, CreditIsDecided
<1>2. QED
  BY <1>1, AlwaysSound, PTL

\* No later event, cycle or control undoes the end a decision gave an objective.
THEOREM AlwaysEnded == ObjectiveSpec => []EndsStand
BY AlwaysSound, PTL DEF ObjectiveIInv

Pairs == {<<d.event, d.evidence_artifact_ids>> : d \in decisions}

\* Each step is one of EvaluationPromise or leaves what it speaks of alone.
LEMMA KeepsPromiseStep ==
  ASSUME ObjectiveIInv, [ObjectiveNext]_objectiveVars
  PROVE  [Promise!Next]_(Promise!promiseVars)
<1> USE DEF ObjectiveIInv
<1> DEFINE applied == objective.evaluated_terminal_event_ids
           credited == objective.credited_evidence_ids
<1>1. objective \in Objective /\ decisions \subseteq Decision /\ events \subseteq Event
  BY DEF ProposalsAreValid, ObjectiveTypeOK
<1>2. SUFFICES ASSUME \/ Pairs' # Pairs
                      \/ applied' # applied
                      \/ credited' # credited
               PROVE  Promise!Next
  BY DEF Promise!promiseVars, Pairs
<1>3. CASE \E event \in events : evaluate(event) /\ Decides(event)
  <2>1. PICK event \in events : evaluate(event) /\ Decides(event)
    BY <1>3
  <2>2. PICK credit, d :
           /\ credit \in Credit(event.mission)
           /\ d.event = event /\ d.evidence_artifact_ids = credit
           /\ Decided(event) = {}
           /\ decisions' = decisions \cup {d}
    BY <2>1 DEF Decides
  <2>3. event \in Event /\ credit \in SUBSET Evidence
    BY <1>1, <2>2, CreditIsNew DEF Event, ProposalsAreValid
  <2>4. Pairs' = Pairs \cup {<<event, credit>>}
    BY <2>2 DEF Pairs
  <2>5. event \notin {pair[1] : pair \in Pairs}
    BY <2>2 DEF Pairs, Decided
  <2>6. UNCHANGED objective
    BY <2>1 DEF evaluate
  <2>7. Promise!Decide(event, credit)
    BY <2>4, <2>5, <2>6 DEF Promise!Decide, Promise!DecidedEvents, Pairs
  <2>8. QED
    BY <2>3, <2>7 DEF Promise!Next
<1>4. CASE update
  <2>1. objective' = work.updates[1] /\ UNCHANGED decisions
    BY <1>4, UpdateLeaves DEF update
  <2>2. 1 \in 1..Len(work.updates)
    <3>1. work.updates \in Seq(Objective) /\ work.updates # <<>>
      BY <1>4 DEF update, ProposalsAreValid, ObjectiveTypeOK
    <3>2. QED
      BY <3>1
  <2>3. ~Recording
    BY <1>2, <2>1, <2>2 DEF Recording, SameCredits, Pairs
  <2>4. PICK d \in decisions : Evaluating(d)
    BY <2>3 DEF InHand
  <2>5. d.event \in Event /\ d.evidence_artifact_ids \in SUBSET Evidence
    BY <1>1 DEF Decision
  <2>6. <<d.event, d.evidence_artifact_ids>> \in Pairs /\ UNCHANGED Pairs
    BY <2>1 DEF Pairs
  <2>7. Promise!Apply(d.event, d.evidence_artifact_ids)
    BY <2>1, <2>4, <2>6 DEF Promise!Apply, Evaluating, Pairs
  <2>8. QED
    BY <2>5, <2>7 DEF Promise!Next
<1>5. CASE UpdateFails
  <2>1. UNCHANGED objective
    BY <1>5 DEF UpdateFails
  <2>2. ~Recording /\ decisions' = decisions \ work.withdraws
    BY <1>2, <1>5, <2>1 DEF UpdateFails, Recording, Pairs
  <2>3. PICK d \in decisions : Evaluating(d)
    BY <2>2 DEF InHand
  <2>4. d.event \in Event /\ d.evidence_artifact_ids \in SUBSET Evidence
    BY <1>1 DEF Decision
  <2>5. decisions' = decisions \ {d} /\ d.event \notin applied
    BY <2>2, <2>3 DEF Evaluating
  <2>6. <<d.event, d.evidence_artifact_ids>> \in Pairs
    BY DEF Pairs
  <2>7. Pairs' = Pairs \ {<<d.event, d.evidence_artifact_ids>>}
    BY <2>5 DEF Pairs, OneDecision
  <2>8. Promise!Withdraw(d.event, d.evidence_artifact_ids)
    BY <2>1, <2>5, <2>6, <2>7 DEF Promise!Withdraw, Pairs
  <2>9. QED
    BY <2>4, <2>8 DEF Promise!Next
<1>6. ASSUME UNCHANGED decisions, ~update
      PROVE  UNCHANGED <<Pairs, applied, credited>>
  <2>1. UNCHANGED Pairs
    BY <1>6 DEF Pairs
  <2>2. UNCHANGED <<applied, credited>>
    BY <1>1, <1>6
    DEF ObjectiveNext, objectiveVars, save_mission, evaluate, UpdateFails, link_mission,
        evaluate_portfolio_outcome, develop_strategy, materialize_portfolio,
        pause_objective, resume_objective, cancel_objective, _force_objective_save,
        Restart, Objective
  <2>3. QED
    BY <2>1, <2>2
<1>7. UNCHANGED decisions \/ UpdateFails \/ \E event \in events : evaluate(event) /\ Decides(event)
  BY DEF ObjectiveNext, objectiveVars, save_mission, evaluate, Refuses, update, link_mission,
         evaluate_portfolio_outcome, develop_strategy, materialize_portfolio,
         pause_objective, resume_objective, cancel_objective, _force_objective_save, Restart
<1>8. QED
  BY <1>2, <1>3, <1>4, <1>5, <1>6, <1>7

\* An event has at most one decision and one update of the objective, whatever
\* fails between the two files and wherever the process stops.
THEOREM AlwaysKeepsEvaluationPromise == ObjectiveSpec => KeepsEvaluationPromise
<1>1. ObjectiveInit => Promise!Init
  BY DEF ObjectiveInit, Promise!Init
<1>2. ObjectiveIInv /\ [ObjectiveNext]_objectiveVars =>
         [Promise!Next]_(Promise!promiseVars)
  BY KeepsPromiseStep
<1>3. QED
  BY <1>1, <1>2, AlwaysSound, PTL DEF ObjectiveSpec, KeepsEvaluationPromise, Promise!Spec
==============================================================================
