---------------------------- MODULE ToolPromise ----------------------------
(***************************************************************************)
(* What the tool executions of a workspace promise its owner: an execution *)
(* that may not act without approval acts only after one was given, each   *)
(* approval is good for one execution of the same work, one that waits for *)
(* approval has done nothing, and after a success nothing more happens.    *)
(***************************************************************************)
CONSTANTS
    Executions,
    Idle,           \* the work of an execution that has not begun
    Works,
    Protected       \* works that must not be done without approval

VARIABLES
    progress,
    work,
    approved,       \* executions started by an approval
    effects         \* executions that have acted on the outside

promiseVars == <<progress, work, approved, effects>>

PromiseInit ==
    /\ progress = [e \in Executions |-> "none"]
    /\ work = [e \in Executions |-> Idle]
    /\ approved = {} /\ effects = {}

Start(e) ==
    /\ progress[e] = "none"
    /\ progress' = [progress EXCEPT ![e] = "running"]
    /\ \E w \in Works : work' = [work EXCEPT ![e] = w]
    /\ UNCHANGED <<approved, effects>>

\* The approval of what waits is used up by starting its work.
StartApproved(e, source) ==
    /\ progress[e] = "none" /\ progress[source] = "waiting"
    /\ progress' = [progress EXCEPT ![e] = "running", ![source] = "granted"]
    /\ work' = [work EXCEPT ![e] = work[source]]
    /\ approved' = approved \cup {e}
    /\ UNCHANGED effects

\* What was set going may take effect after the execution was given up.
Act(e) ==
    /\ progress[e] \in {"running", "over"}
    /\ work[e] \in Protected => e \in approved
    /\ effects' = effects \cup {e}
    /\ UNCHANGED <<progress, work, approved>>

End(e) ==
    /\ progress[e] = "running"
    /\ progress'[e] \in IF e \in effects THEN {"succeeded", "over"}
                        ELSE {"waiting", "succeeded", "over"}
    /\ progress' = [progress EXCEPT ![e] = progress'[e]]
    /\ UNCHANGED <<work, approved, effects>>

PromiseNext ==
    \E e \in Executions :
       \/ Act(e) \/ End(e) \/ Start(e)
       \/ \E source \in Executions : StartApproved(e, source)

PromiseSpec == PromiseInit /\ [][PromiseNext]_promiseVars
=============================================================================
