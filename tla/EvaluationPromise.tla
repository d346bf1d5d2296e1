-------------------------- MODULE EvaluationPromise --------------------------
(***************************************************************************)
(* What the evaluation of terminal missions promises of one objective: of  *)
(* one event there is at most one decision, which is never changed, and at *)
(* most one update of the objective, which credits evidence no other       *)
(* decision credited.  A decision is withdrawn only if its update has not  *)
(* been made.                                                              *)
(***************************************************************************)
CONSTANTS Events, Evidence

VARIABLES
    decided,    \* pairs of an event and the evidence its decision credits
    applied,    \* the events whose update the objective has had
    credited    \* the evidence the objective has been credited with

promiseVars == <<decided, applied, credited>>

Init == decided = {} /\ applied = {} /\ credited = {}

DecidedEvents == {pair[1] : pair \in decided}

Decide(event, evidence) ==
    /\ event \notin DecidedEvents
    /\ decided' = decided \cup {<<event, evidence>>}
    /\ UNCHANGED <<applied, credited>>

Apply(event, evidence) ==
    /\ <<event, evidence>> \in decided
    /\ event \notin applied
    /\ evidence \cap credited = {}
    /\ applied' = applied \cup {event}
    /\ credited' = credited \cup evidence
    /\ UNCHANGED decided

Withdraw(event, evidence) ==
    /\ <<event, evidence>> \in decided
    /\ event \notin applied
    /\ decided' = decided \ {<<event, evidence>>}
    /\ UNCHANGED <<applied, credited>>

Next ==
    \E event \in Events, evidence \in SUBSET Evidence :
        \/ Decide(event, evidence)
        \/ Apply(event, evidence)
        \/ Withdraw(event, evidence)

Spec == Init /\ [][Next]_promiseVars
==============================================================================
