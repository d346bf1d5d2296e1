------------------------------ MODULE AgentLoop ------------------------------
(***************************************************************************)
(* AutonomousAgentLoop over the router of InferenceRouting: one loop for   *)
(* every request of Structured.  It asks the model what to do, executes    *)
(* the tool the model selects, asks the model to reflect on what came      *)
(* back, and goes round until the model says that it is finished, it       *)
(* repeats a read, or its iterations are used up.  _robust_llm_call asks   *)
(* generate_json at most MaxCalls times for one reply: twice the primary   *)
(* provider, and twice the fallback, which are the same RouterLLMProvider. *)
(*                                                                         *)
(* What a tool is called with is one value of Actions.  An observation is  *)
(* told by what the loop can do with it: the whole answer, part of a file  *)
(* ("more"), part of a file in a reply so long that the loop cuts it off   *)
(* and can no longer parse it ("cut"), or a failure.                       *)
(***************************************************************************)
EXTENDS InferenceRouting

CONSTANTS
    Actions,        \* the tool calls the model may select
    tool,           \* of every action, and for workspace_reader its own action
    max_iterations,
    max_retries     \* RetryPolicy of every tool

ASSUME AgentAssumption ==
    /\ max_iterations \in Nat \ {0}
    /\ max_retries \in Nat
    /\ MaxCalls = 4
    /\ "none" \notin Actions

VARIABLE agents

agentVars == <<routingVars, agents>>

workspace_reader == {"read_file", "find_text", "search_codebase", "list_directory"}

READ_ONLY_DEDUP_TOOLS ==
    workspace_reader \cup {"url_reader", "web_search", "document_retrieval"}

Reads == {a \in Actions : tool[a] \in READ_ONLY_DEDUP_TOOLS}

Seen == {"whole", "more", "cut", "failed", "duplicate", "none"}

Trace == [action : Actions \cup {"none"}, observation : Seen]

Over == {"finished", "halted", "synthesized", "failed", "gone"}

Agent ==
    [phase : {"idle", "think", "act", "reflect", "synthesize"} \cup Over,
     iteration_count : 0..max_iterations,
     action : Actions \cup {"none"},            \* that is executed or reflected on
     observation : Seen,
     retries : 0..max_retries,                  \* of the executor
     _successful_action_fingerprints : SUBSET Reads,
     traces : Seq(Trace)]

NotStarted ==
    [phase |-> "idle", iteration_count |-> 0, action |-> "none", observation |-> "none",
     retries |-> 0, _successful_action_fingerprints |-> {}, traces |-> <<>>]

AgentInit ==
    /\ RoutingInit
    /\ agents = [r \in Structured |-> NotStarted]

-----------------------------------------------------------------------------
(* Asking the model.                                                       *)

\* The loop takes up phase with a first call of generate_json.
Asks(r, agent, phase) ==
    /\ agents' = [agents EXCEPT ![r] = [agent EXCEPT !.phase = phase]]
    /\ Route(r, 1, 1)

\* A mutant: an attempt that failed is not counted.
AsksUncounted(r) ==
    /\ requests[r].step \in {"returned", "error"}
    /\ Route(r, 1, requests[r].calls)
    /\ UNCHANGED agents

\* An error, or an object with none of the fields the loop looks for.
_robust_llm_call(r) ==
    /\ requests[r].step \in {"returned", "error"}
    /\ generate_json(r)
    /\ UNCHANGED agents

Answered(r) == requests[r].step = "returned"

\* Every attempt is used up: the loop makes a reply of its own, "Execution halted".
Halted(r) == requests[r].step \in {"returned", "error"} /\ requests[r].calls = MaxCalls

-----------------------------------------------------------------------------
(* The loop.                                                               *)

_workspace_observation_incomplete(trace) ==
    /\ trace.action # "none"
    /\ tool[trace.action] = "read_file"
    /\ trace.observation = "more"

\* What was read after an incomplete read that makes up for it.
FollowsUp(trace) ==
    /\ trace.action # "none"
    /\ \/ tool[trace.action] \in {"find_text", "search_codebase"}
       \/ tool[trace.action] = "read_file" /\ ~_workspace_observation_incomplete(trace)

\* A mutant: any later trace makes up for an incomplete read.
EvidenceAfterAnything(agent) ==
    /\ agent._successful_action_fingerprints # {}
    /\ ~_workspace_observation_incomplete(Last(agent.traces))

\* Something was observed, and the last incomplete read was followed up.
_evidence_is_sufficient_for_synthesis(agent) ==
    LET traces == agent.traces
        incomplete == {i \in DOMAIN traces : _workspace_observation_incomplete(traces[i])}
    IN /\ agent._successful_action_fingerprints # {}
       /\ incomplete # {} =>
             \E j \in DOMAIN traces : j > Max(incomplete) /\ FollowsUp(traces[j])

\* After the loop, if no iteration ended it.
Concludes(r, agent) ==
    \/ /\ _evidence_is_sufficient_for_synthesis(agent)
       /\ Asks(r, agent, "synthesize")
    \/ /\ ~_evidence_is_sufficient_for_synthesis(agent)
       /\ agents' = [agents EXCEPT ![r] = [agent EXCEPT !.phase = "failed"]]
       /\ UNCHANGED routingVars

\* The next iteration, or the end of the loop.
Continues(r, agent) ==
    \/ /\ agent.iteration_count < max_iterations
       /\ Asks(r, [agent EXCEPT !.iteration_count = @ + 1], "think")
    \/ /\ agent.iteration_count = max_iterations
       /\ Concludes(r, agent)

execute_goal(r) ==
    /\ agents[r].phase = "idle"
    /\ Continues(r, agents[r])

\* The model says that it is finished, and gives the answer.
Finishes(r) ==
    /\ agents[r].phase = "think"
    /\ Answered(r)
    /\ agents' = [agents EXCEPT ![r].phase = "finished"]
    /\ UNCHANGED routingVars

\* The reply the loop makes of its own says that it is finished, too.
Halts(r) ==
    /\ agents[r].phase = "think"
    /\ Halted(r)
    /\ agents' = [agents EXCEPT ![r].phase = "halted"]
    /\ UNCHANGED routingVars

Recorded(agent, a, seen) ==
    [agent EXCEPT !.traces = Append(@, [action |-> a, observation |-> seen]),
                  !.action = "none", !.observation = "none", !.retries = 0]

\* The reply selects no action, is not valid, or says finished and gives no answer.
SelectsNothing(r) ==
    LET agent == Recorded(agents[r], "none", "none")
    IN /\ agents[r].phase = "think"
       /\ Answered(r)
       /\ \/ /\ _evidence_is_sufficient_for_synthesis(agent)
             /\ Asks(r, agent, "synthesize")
          \/ /\ ~_evidence_is_sufficient_for_synthesis(agent)
             /\ Continues(r, agent)

\* The tool of a selected action is executed, unless it is a read that was made before.
Selects(r, a) ==
    /\ agents[r].phase = "think"
    /\ Answered(r)
    /\ \/ /\ a \in agents[r]._successful_action_fingerprints
          /\ Asks(r, Recorded(agents[r], a, "duplicate"), "synthesize")
       \/ /\ a \notin agents[r]._successful_action_fingerprints
          /\ agents' = [agents EXCEPT ![r].phase = "act", ![r].action = a]
          /\ UNCHANGED routingVars

\* run_step raises nothing, so that a failure is an observation like any other.
Observes(r, seen) ==
    Asks(r, [agents[r] EXCEPT !.observation = seen,
                 !._successful_action_fingerprints = @ \cup ({agents[r].action} \cap Reads)],
         "reflect")

\* A tool nobody registered, or one that needs an AgentContext, is not executed.
Refuses(r) ==
    /\ agents[r].phase = "act"
    /\ tool[agents[r].action] \in {"unregistered", "protected"}
    /\ Observes(r, "failed")

Executing(r) ==
    /\ agents[r].phase = "act"
    /\ tool[agents[r].action] \notin {"unregistered", "protected"}

\* Only a file can be read in part.
Returns(r, seen) ==
    /\ Executing(r)
    /\ seen \in {"more", "cut"} => tool[agents[r].action] = "read_file"
    /\ Observes(r, seen)

\* A timeout or a retryable exception: workspace_reader, which never waits, has none.
TimesOut(r) ==
    /\ Executing(r)
    /\ tool[agents[r].action] \notin workspace_reader
    /\ \/ /\ agents[r].retries = max_retries
          /\ Observes(r, "failed")
       \/ /\ agents[r].retries < max_retries
          /\ agents' = [agents EXCEPT ![r].retries = @ + 1]
          /\ UNCHANGED routingVars

\* Whatever the model thinks of an observation, the loop goes on.
Reflects(r) ==
    /\ agents[r].phase = "reflect"
    /\ Answered(r) \/ Halted(r)
    /\ Continues(r, Recorded(agents[r], agents[r].action, agents[r].observation))

\* With no answer of the model's, the loop gives one of its own.
_synthesize_final_answer(r) ==
    /\ agents[r].phase = "synthesize"
    /\ Answered(r) \/ Halted(r)
    /\ agents' = [agents EXCEPT ![r].phase = "synthesized"]
    /\ UNCHANGED routingVars

\* The client closes the stream of events; what the loop is waiting for is cancelled.
Disconnects(r) ==
    /\ agents[r].phase \notin {"idle"} \cup Over
    /\ agents' = [agents EXCEPT ![r].phase = "gone"]
    /\ requests' = [requests EXCEPT ![r].step = "gone", ![r].text = <<>>]
    /\ UNCHANGED <<_rate_limited_until, last_model_id>>

Loop(r) ==
    \/ _robust_llm_call(r)
    \/ Finishes(r)
    \/ Halts(r)
    \/ SelectsNothing(r)
    \/ \E a \in Actions : Selects(r, a)
    \/ Refuses(r)
    \/ \E seen \in {"whole", "more", "cut", "failed"} : Returns(r, seen)
    \/ TimesOut(r)
    \/ Reflects(r)
    \/ _synthesize_final_answer(r)

Routes(r) == Progress(r) /\ UNCHANGED agents

AgentNext ==
    \/ \E r \in Structured :
          \/ execute_goal(r)
          \/ Loop(r)
          \/ Routes(r)
          \/ Disconnects(r)
    \/ \E key \in Keys : CooldownEnds(key) /\ UNCHANGED agents

AgentSpec == AgentInit /\ [][AgentNext]_agentVars

\* Tools and models have timeouts, except the stream of Ollama.
FairAgents ==
    /\ AgentSpec
    /\ \A r \in Structured :
          WF_agentVars(Loop(r)) /\ WF_agentVars(Bounded(r) /\ Routes(r))
-----------------------------------------------------------------------------
(* What it should do.                                                      *)

\* Types.
AgentTypeOK ==
    /\ RoutingTypeOK
    /\ agents \in [Structured -> Agent]

\* Types, and an answer the model did not call final rests on something that was read, and
\* unless it ended on a repeated read, every file that was seen to be incomplete
\* was looked into again.
AnswersRestOnEvidence ==
    /\ AgentTypeOK
    /\ \A r \in Structured :
        agents[r].phase = "synthesized" =>
            LET traces == agents[r].traces
            IN /\ \E i \in DOMAIN traces :
                     traces[i].action \in Reads /\ traces[i].observation # "duplicate"
               /\ \/ Last(traces).observation = "duplicate"
                  \/ \A i \in DOMAIN traces :
                        _workspace_observation_incomplete(traces[i]) =>
                            \E j \in DOMAIN traces : j > i /\ FollowsUp(traces[j])

\* A goal that was taken up comes to an end, unless Ollama is silent.
GoalsEnd ==
    \A r \in Structured :
        []<>(agents[r].phase \in {"idle"} \cup Over \/ ~Bounded(r))
=============================================================================
