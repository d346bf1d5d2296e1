--------------------------- MODULE CompanyObjective ---------------------------
(***************************************************************************)
(* A company objective, its missions as far as they concern it, and all    *)
(* that changes it: the evaluation of a terminal mission (an event of the  *)
(* mission registry, a decision in one file, an update of the objective in *)
(* another), the executive strategy cycle over a mission portfolio, and    *)
(* the owner's controls.                                                   *)
(*                                                                         *)
(* The server is one process whose event loop runs each of these from end  *)
(* to end, since none of them awaits.  What can come between the writes of *)
(* one of them is that a write fails or that the process stops, which also *)
(* takes the events not yet delivered with it.                             *)
(*                                                                         *)
(* An event is named by its mission and that mission's terminal state: the *)
(* revision and the reason that its identifier also hashes make no event   *)
(* of their own for the repository of decisions.  An objective's strategy  *)
(* version is always one more than its count of strategy changes.          *)
(***************************************************************************)
EXTENDS Naturals, Sequences, FiniteSets

CONSTANTS
    Missions,
    Evidence,               \* identifiers of artifacts that count for the objective
    required,
    max_missions,
    max_strategy_changes,
    max_zero_progress_cycles,
    MAX_EXECUTIVE_CYCLES,
    Definitions,            \* mission definitions of a portfolio
    MissionStates,          \* the states missions are taken to
    PlannedVersions,        \* bound: objective versions a plan is made for
    MaxEvents               \* bound: events published and not yet delivered

TERMINAL_MISSION_STATES ==
    {"COMPLETED", "FAILED", "BLOCKED", "WAITING_DIRECTOR", "EXHAUSTED",
     "ESCALATED", "CANCELLED"}

ASSUME ObjectiveAssumption ==
    /\ IsFiniteSet(Missions)
    /\ IsFiniteSet(Evidence)
    /\ required \in Nat \ {0}
    /\ max_missions \in Nat \ {0}
    /\ max_strategy_changes \in Nat
    /\ max_zero_progress_cycles \in Nat
    /\ MAX_EXECUTIVE_CYCLES \in Nat
    /\ Definitions \in Nat
    /\ PlannedVersions \subseteq Nat
    /\ MaxEvents \in Nat
    /\ MissionStates \subseteq TERMINAL_MISSION_STATES \cup {"ACTIVE"}

VARIABLES
    missions,       \* status and objective-relevant verified evidence of each
    objective,      \* as the file has it
    events,         \* terminal events published and not yet delivered
    decisions,      \* as their file has them
    work,           \* the writes of the handler the event loop is in
    plan,           \* the version the latest strategic plan was made for
    portfolio,      \* the version the latest portfolio was made for
    evaluations     \* of portfolios, as their file has them

objectiveVars ==
    <<missions, objective, events, decisions, work, plan, portfolio, evaluations>>

TERMINAL_OBJECTIVE_STATUSES ==
    {"COMPLETED", "FAILED", "CANCELLED", "ESCALATED", "EXHAUSTED"}

Statuses ==
    TERMINAL_OBJECTIVE_STATUSES
        \cup {"ACTIVE", "PAUSED", "WAITING_APPROVAL", "WAITING_DIRECTOR"}

Event == [mission : Missions, state : TERMINAL_MISSION_STATES]

Decision ==
    [event : Event,
     decision_type : {"NO_ACTION", "OBJECTIVE_COMPLETE", "FOLLOW_UP_MISSION",
                      "CHANGE_STRATEGY", "WAIT", "ESCALATE", "STOP"},
     evidence_artifact_ids : SUBSET Evidence]

Objective ==
    [status : Statuses,
     version : Nat \ {0},
     linked_mission_ids : SUBSET Missions,
     credited_evidence_ids : SUBSET Evidence,
     evaluated_terminal_event_ids : SUBSET Event,
     verified_success_count : Nat,
     strategy_change_count : Nat,
     zero_progress_cycles : Nat,
     executive_cycle_count : Nat]

Evaluation == [portfolio : Nat, mission : Missions, progress : BOOLEAN]

is_terminal(o) == o.status \in TERMINAL_OBJECTIVE_STATUSES

\* What the schema lets an objective be; the identifiers are sets here.
enforce_objective_invariants(o) ==
    /\ Cardinality(o.linked_mission_ids) <= max_missions
    /\ o.strategy_change_count <= max_strategy_changes
    /\ o.zero_progress_cycles <= max_zero_progress_cycles
    /\ o.status = "COMPLETED" => o.verified_success_count >= required

\* An event loop that is in no handler has nothing to write or to withdraw.
Nothing == [withdraws |-> {}, updates |-> <<>>]

Idle == work = Nothing

ObjectiveInit ==
    /\ missions = [m \in Missions |-> [status |-> "ACTIVE", evidence |-> {}]]
    /\ objective \in
          [status : {"ACTIVE", "WAITING_APPROVAL"},
           version : {1},
           linked_mission_ids : {{}},
           credited_evidence_ids : {{}},
           evaluated_terminal_event_ids : {{}},
           verified_success_count : {0},
           strategy_change_count : {0},
           zero_progress_cycles : {0},
           executive_cycle_count : {0}]
    /\ events = {}
    /\ decisions = {}
    /\ work = Nothing
    /\ plan = 0
    /\ portfolio = 0
    /\ evaluations = {}

-----------------------------------------------------------------------------
(* The missions.  Each save of one in a terminal state publishes an event. *)

Published(m, status) ==
    {[mission |-> m, state |-> s] : s \in {status} \cap TERMINAL_MISSION_STATES}

Final(m) == missions[m].status \in {"COMPLETED", "FAILED", "CANCELLED"}

save_mission(m, status, evidence) ==
    /\ Idle
    /\ Final(m) => missions[m] = [status |-> status, evidence |-> evidence]
    /\ evidence # {} => status = "COMPLETED"
    /\ missions' = [missions EXCEPT ![m] = [status |-> status, evidence |-> evidence]]
    /\ events' = events \cup Published(m, status)
    /\ Cardinality(events') <= MaxEvents
    /\ UNCHANGED <<objective, decisions, work, plan, portfolio, evaluations>>

-----------------------------------------------------------------------------
(* The evaluation of a terminal mission.                                   *)

\* A mutant: decisions are looked for among those the objective knows of.
DecidedAndApplied(event) ==
    {d \in decisions : d.event = event /\ event \in objective.evaluated_terminal_event_ids}

\* Both lookups, by the event and by the mission and its state.
Decided(event) == {d \in decisions : d.event = event}

_validate_lineage(event) ==
    /\ event.mission \in objective.linked_mission_ids
    /\ missions[event.mission].status = event.state

Smaller(a, b) == IF a <= b THEN a ELSE b

Remaining ==
    IF objective.verified_success_count >= required THEN 0
    ELSE required - objective.verified_success_count

\* The first pieces of new evidence, as many as the objective still needs;
\* which of them come first is the order of the mission's artifacts.
FirstOf(new) ==
    {c \in SUBSET new : Cardinality(c) = Smaller(Cardinality(new), Remaining)}

\* A mutant: evidence that was credited before is credited again.
CreditAgain(m) == FirstOf(missions[m].evidence)

Credit(m) == FirstOf(missions[m].evidence \ objective.credited_evidence_ids)

\* A mutant: the cycles without progress are counted past their limit.
ZeroProgressUncapped(credited) ==
    IF credited # {} THEN 0 ELSE objective.zero_progress_cycles + 1

ZeroProgress(credited) ==
    IF credited # {} THEN 0
    ELSE Smaller(max_zero_progress_cycles, objective.zero_progress_cycles + 1)

Verdict(type, status) == [decision_type |-> type, status |-> status]

ProgressVerdict(verified) ==
    IF verified >= required THEN Verdict("OBJECTIVE_COMPLETE", "COMPLETED")
    ELSE IF Cardinality(objective.linked_mission_ids) >= max_missions
         THEN Verdict("ESCALATE", "EXHAUSTED")
    ELSE IF objective.status = "WAITING_APPROVAL"
         THEN Verdict("WAIT", objective.status)
    ELSE Verdict("FOLLOW_UP_MISSION", objective.status)

FailureVerdict(zero) ==
    IF \/ zero >= max_zero_progress_cycles
       \/ objective.strategy_change_count >= max_strategy_changes
    THEN Verdict("ESCALATE", "ESCALATED")
    ELSE Verdict("CHANGE_STRATEGY", objective.status)

BlockedVerdict(zero) ==
    IF zero >= max_zero_progress_cycles
    THEN Verdict("ESCALATE", "ESCALATED")
    ELSE Verdict("WAIT", "WAITING_DIRECTOR")

_build_decision(state, credited) ==
    LET zero == ZeroProgress(credited)
    IN CASE is_terminal(objective) -> Verdict("NO_ACTION", objective.status)
         [] ~is_terminal(objective) /\ state = "COMPLETED" /\ credited # {} ->
               ProgressVerdict(objective.verified_success_count + Cardinality(credited))
         [] objective.status = "WAITING_APPROVAL" /\ credited = {} ->
               Verdict("WAIT", objective.status)
         [] OTHER ->
               CASE state \in {"COMPLETED", "FAILED"} -> FailureVerdict(zero)
                 [] state \in {"BLOCKED", "WAITING_DIRECTOR"} -> BlockedVerdict(zero)
                 [] state = "EXHAUSTED" -> Verdict("ESCALATE", "EXHAUSTED")
                 [] state = "ESCALATED" -> Verdict("ESCALATE", "ESCALATED")
                 [] state = "CANCELLED" -> Verdict("STOP", "CANCELLED")

\* The objective as the decision changes it.
Evaluated(event, credited, verdict) ==
    [objective EXCEPT
        !.status = verdict.status,
        !.version = @ + 1,
        !.credited_evidence_ids = @ \cup credited,
        !.evaluated_terminal_event_ids = @ \cup {event},
        !.verified_success_count = @ + Cardinality(credited),
        !.zero_progress_cycles = ZeroProgress(credited),
        !.strategy_change_count =
            IF verdict.decision_type = "CHANGE_STRATEGY" THEN @ + 1 ELSE @]

\* The handler of the event saves a decision, and has an update to make
\* unless the objective is terminal.  A decision that is there is returned.
Decides(event) ==
    \E credited \in Credit(event.mission) :
        LET verdict == _build_decision(event.state, credited)
            decision == [event |-> event,
                         decision_type |-> verdict.decision_type,
                         evidence_artifact_ids |-> credited]
        IN /\ Decided(event) = {}
           /\ _validate_lineage(event)
           /\ decisions' = decisions \cup {decision}
           /\ work' = IF is_terminal(objective) THEN Nothing
                      ELSE [withdraws |-> {decision},
                            updates |-> <<Evaluated(event, credited, verdict)>>]

\* Of an event that is decided, of a mission that is not linked or not in
\* that state any more, or of a decision that cannot be saved, nothing stays.
Refuses == UNCHANGED <<decisions, work>>

evaluate(event) ==
    /\ Idle
    /\ event \in events
    /\ events' = events \ {event}
    /\ Decides(event) \/ Refuses
    /\ UNCHANGED <<missions, objective, plan, portfolio, evaluations>>

-----------------------------------------------------------------------------
(* The writes of the objective, whichever handler makes them.              *)

update ==
    /\ work.updates # <<>>
    /\ enforce_objective_invariants(Head(work.updates))
    /\ objective' = Head(work.updates)
    /\ work' = IF Len(work.updates) = 1 THEN Nothing
               ELSE [work EXCEPT !.updates = Tail(@)]
    /\ UNCHANGED <<missions, events, decisions, plan, portfolio, evaluations>>

\* The decision of an update that fails is withdrawn, unless that fails too.
\* The strategy cycle leaves what it has written.
UpdateFails ==
    /\ work.updates # <<>>
    /\ decisions' \in {decisions, decisions \ work.withdraws}
    /\ work' = Nothing
    /\ UNCHANGED <<missions, objective, events, plan, portfolio, evaluations>>

link_mission(m) ==
    /\ Idle
    /\ ~is_terminal(objective)
    /\ m \notin objective.linked_mission_ids
    /\ Cardinality(objective.linked_mission_ids) < max_missions
    /\ objective' = [objective EXCEPT !.linked_mission_ids = @ \cup {m},
                                      !.version = @ + 1]
    /\ UNCHANGED <<missions, events, decisions, work, plan, portfolio, evaluations>>

-----------------------------------------------------------------------------
(* The strategy cycle: a plan for this version of the objective, a         *)
(* portfolio of that plan, and the evaluation of a terminal mission in it. *)

develop_strategy ==
    /\ Idle
    /\ plan # objective.version
    /\ objective.version \in PlannedVersions
    /\ plan' = objective.version
    /\ UNCHANGED <<missions, objective, events, decisions, work, portfolio, evaluations>>

materialize_portfolio ==
    /\ Idle
    /\ plan = objective.version
    /\ portfolio # plan
    /\ Cardinality(objective.linked_mission_ids) + Definitions <= max_missions
    /\ portfolio' = plan
    /\ UNCHANGED <<missions, objective, events, decisions, work, plan, evaluations>>

\* The progress this service sees in a completed mission; evidence is not asked for.
Progresses(m) ==
    missions[m].status = "COMPLETED" /\ objective.verified_success_count < required

CyclesWithout(m) ==
    IF Progresses(m) THEN 0
    ELSE Smaller(max_zero_progress_cycles, objective.zero_progress_cycles + 1)

Replans(m) ==
    /\ objective.executive_cycle_count + 1 < MAX_EXECUTIVE_CYCLES
    /\ CyclesWithout(m) < max_zero_progress_cycles
    /\ ~is_terminal(objective)
    /\ missions[m].status # "COMPLETED"
    /\ objective.strategy_change_count < max_strategy_changes

record_strategy_change(o) ==
    [o EXCEPT !.strategy_change_count = @ + 1, !.version = @ + 1]

RecordCycle(o, m) ==
    [o EXCEPT !.executive_cycle_count = @ + 1,
              !.zero_progress_cycles = CyclesWithout(m),
              !.version = @ + 1]

set_verified_success_count(o) ==
    [o EXCEPT !.verified_success_count = @ + 1, !.version = @ + 1]

StrategyUpdates(m) ==
    LET replanned == IF Replans(m) THEN record_strategy_change(objective) ELSE objective
        recorded == RecordCycle(replanned, m)
    IN (IF Replans(m) THEN <<replanned>> ELSE <<>>)
         \o <<recorded>>
         \o (IF Progresses(m) THEN <<set_verified_success_count(recorded)>> ELSE <<>>)

evaluate_portfolio_outcome(m) ==
    /\ Idle
    /\ missions[m].status \in TERMINAL_MISSION_STATES
    /\ portfolio = objective.version
    /\ \A v \in evaluations : v.portfolio # portfolio \/ v.mission # m
    /\ evaluations' = evaluations \cup
          {[portfolio |-> portfolio, mission |-> m, progress |-> Progresses(m)]}
    /\ work' = [withdraws |-> {}, updates |-> StrategyUpdates(m)]
    /\ UNCHANGED <<missions, objective, events, decisions, plan, portfolio>>

-----------------------------------------------------------------------------
(* The owner's controls save the whole objective, with the version it had. *)

_force_objective_save(status) ==
    /\ Idle
    /\ objective' = [objective EXCEPT !.status = status]
    /\ UNCHANGED <<missions, events, decisions, work, plan, portfolio, evaluations>>

pause_objective == ~is_terminal(objective) /\ _force_objective_save("PAUSED")

resume_objective == objective.status = "PAUSED" /\ _force_objective_save("ACTIVE")

cancel_objective == ~is_terminal(objective) /\ _force_objective_save("CANCELLED")

-----------------------------------------------------------------------------

\* The process stops, wherever it is, and starts with what the files have.
Restart ==
    /\ work' = Nothing
    /\ events' = {}
    /\ UNCHANGED <<missions, objective, decisions, plan, portfolio, evaluations>>

ObjectiveNext ==
    \/ \E m \in Missions, status \in MissionStates, evidence \in SUBSET Evidence :
          save_mission(m, status, evidence)
    \/ \E event \in events : evaluate(event)
    \/ update
    \/ UpdateFails
    \/ \E m \in Missions : link_mission(m) \/ evaluate_portfolio_outcome(m)
    \/ develop_strategy
    \/ materialize_portfolio
    \/ pause_objective
    \/ resume_objective
    \/ cancel_objective
    \/ Restart

ObjectiveSpec == ObjectiveInit /\ [][ObjectiveNext]_objectiveVars

-----------------------------------------------------------------------------
(* Properties.                                                             *)

\* Types, and a stored objective is one the schema accepts.
ObjectiveTypeOK ==
    /\ missions \in [Missions -> [status : TERMINAL_MISSION_STATES \cup {"ACTIVE"},
                                  evidence : SUBSET Evidence]]
    /\ objective \in Objective /\ enforce_objective_invariants(objective)
    /\ events \subseteq Event
    /\ decisions \subseteq Decision
    /\ work \in [withdraws : SUBSET Decision, updates : Seq(Objective)]
    /\ plan \in Nat /\ portfolio \in Nat
    /\ evaluations \subseteq Evaluation

Applied == {d \in decisions : d.event \in objective.evaluated_terminal_event_ids}

\* The objective is credited with exactly what the decisions it has had the
\* update of credited, none of it by two of them, and what it counts as
\* verified is that and at most what the strategy cycle saw besides.
CreditIsDecided ==
    /\ objective.credited_evidence_ids = UNION {d.evidence_artifact_ids : d \in Applied}
    /\ \A d, e \in Applied :
          d # e => d.evidence_artifact_ids \cap e.evidence_artifact_ids = {}
    /\ Cardinality(objective.credited_evidence_ids) <= objective.verified_success_count
    /\ objective.verified_success_count <=
          Cardinality(objective.credited_evidence_ids)
              + Cardinality({v \in evaluations : v.progress})

\* What is stored and what a handler is about to write is what the schema
\* accepts: no decision and no evaluation is left behind for an update that had
\* to be rejected.
ProposalsAreValid ==
    /\ ObjectiveTypeOK
    /\ \A i \in 1..Len(work.updates) : enforce_objective_invariants(work.updates[i])

EndsAs(type) ==
    CASE type = "OBJECTIVE_COMPLETE" -> {"COMPLETED"}
      [] type = "ESCALATE" -> {"ESCALATED", "EXHAUSTED"}
      [] type = "STOP" -> {"CANCELLED"}
      [] OTHER -> Statuses

\* A decision that ended the objective stays true of it: no later event,
\* strategy cycle or control undoes the end once the update is made.
EndsStand ==
    \A d \in Applied : objective.status \in EndsAs(d.decision_type)

Promise == INSTANCE EvaluationPromise WITH
    Events <- Event,
    decided <- {<<d.event, d.evidence_artifact_ids>> : d \in decisions},
    applied <- objective.evaluated_terminal_event_ids,
    credited <- objective.credited_evidence_ids

\* One decision and one update of an event, as the coordinator's docstring
\* has it, whatever fails between the two files.
KeepsEvaluationPromise == Promise!Spec
==============================================================================
