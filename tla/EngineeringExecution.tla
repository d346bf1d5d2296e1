------------------------ MODULE EngineeringExecution ------------------------
(***************************************************************************)
(* The tool executions of an engineering workspace, from the request to    *)
(* the last event: rows and events in PostgreSQL, files of the workspace   *)
(* in the durable storage (WorkspaceStorage, of which only the outcome is  *)
(* kept here), commands in a sandbox of their own at a provider.  Requests *)
(* come from the tools endpoint, from the owner's approval of an earlier   *)
(* execution, and from one engineering chat, which lets a model ask for    *)
(* tools until it answers.  Every await may be cancelled and every call    *)
(* may fail; the server may stop.  Deployment of docs/engineering-staging: *)
(* VercelSandboxRunner with Supabase storage.                              *)
(*                                                                         *)
(* A request stands for a tool with its arguments.  Output, durations and  *)
(* paths are left out.                                                     *)
(***************************************************************************)
EXTENDS Integers, Sequences, FiniteSets

CONSTANTS
    Executions,
    None,
    Requests,           \* what clients and the model may ask for
    Allowlist,          \* the network policy of the sandbox has hosts to allow
    MaxConcurrent,      \* NIE_ENGINEERING_MAX_CONCURRENT_EXECUTIONS
    MaxIterations,      \* of the chat
    MaxCalls            \* in one answer of the model, at most 4 in the code

ASSUME NoneAssumption == None \notin Executions
ASSUME SlotAssumption == MaxConcurrent \in Nat \ {0}

Tools == {"read", "write", "delete", "test", "commit", "install", "forbidden"}

ASSUME RequestAssumption == Requests \subseteq [tool : Tools, network : BOOLEAN]

Commands == {"test", "commit", "install", "forbidden"}

_MUTATING_FILE_TOOLS == {"write", "delete"}

\* ToolPolicyEngine, and the delete tool's own check.
classify(request, granted) ==
    CASE request.tool \in {"read", "write", "test"} -> "permitted"
      [] request.tool \in {"delete", "commit"} ->
            IF granted THEN "permitted" ELSE "approval"
      [] request.tool = "install" ->
            IF granted /\ request.network THEN "permitted" ELSE "approval"
      [] request.tool = "forbidden" -> "rejected"

VARIABLES
    executions,     \* ToolExecution rows
    events,         \* ExecutionEvent rows
    committed,      \* executions whose files are the workspace's next version
    adrift,         \* commits no one waits for that may still be done
    boxes,          \* executions whose sandbox exists at the provider
    calls,          \* volatile: execute, and the runner under it
    chat            \* volatile: one EngineeringChatService.run

executionVars == <<executions, events, committed, adrift, boxes, calls, chat>>

Final == {"SUCCEEDED", "FAILED", "APPROVAL_REQUIRED", "CANCELLED", "TIMED_OUT",
          "SYNC_FAILED"}

Row == [status : Final \cup {"NONE", "RUNNING"}, request : Requests \cup {None},
        approval : {"NOT_REQUIRED", "GRANTED", "REQUIRED", "CONSUMED"},
        changed : BOOLEAN]

NoRow == [status |-> "NONE", request |-> None, approval |-> "NOT_REQUIRED",
          changed |-> FALSE]

EventTypes == {"tool.started", "file.changed", "tool.completed", "tool.failed"}

\* Steps of a call that hold a slot of its runner.
InBox == {"create", "upload", "command", "download", "synchronize", "close", "closing"}

Steps == {"none", "insert", "announce", "enter", "capture", "slot", "handler",
          "reconcile", "forward", "finish", "report", "conclude", "ended",
          "aborted"} \cup InBox

Call == [step : Steps, request : Requests \cup {None}, granted : BOOLEAN,
         source : Executions \cup {None}, chats : BOOLEAN,
         status : Final, changed : BOOLEAN, nonzero : BOOLEAN, ran : BOOLEAN]

NoCall == [step |-> "none", request |-> None, granted |-> FALSE, source |-> None,
           chats |-> FALSE, status |-> "FAILED", changed |-> FALSE,
           nonzero |-> FALSE, ran |-> FALSE]

NewChat == [step |-> "idle", iteration |-> 0, pending |-> <<>>, asked |-> {},
            current |-> None, succeeded |-> {}, evidence |-> {}, claims |-> FALSE]

ExecutionInit ==
    /\ executions = [e \in Executions |-> NoRow]
    /\ events = [e \in Executions |-> <<>>]
    /\ committed = {} /\ adrift = {}
    /\ boxes = {}
    /\ calls = [e \in Executions |-> NoCall]
    /\ chat = NewChat

rows == <<executions, events>>
files == <<committed, adrift>>

At(e, step) == calls[e].step = step

Goto(e, step) == calls' = [calls EXCEPT ![e].step = step]

\* Of a task that is gone only what it was and did is kept.
Gone(call) ==
    [call EXCEPT !.step = "aborted", !.status = "FAILED", !.changed = FALSE,
                 !.nonzero = FALSE]

\* An exception leaves execute: no row, no event, is written after it.
Abort(e) == calls' = [calls EXCEPT ![e] = Gone(@)]

Over(e) == calls[e].step \in {"none", "ended", "aborted"}

\* The body of the try statement ends.
Settle(e, status, changed) ==
    calls' = [calls EXCEPT ![e].step = "finish", ![e].status = status,
                           ![e].changed = changed, ![e].nonzero = FALSE]

\* The runner fails while it has a session, which finally closes.
Leave(e, status, changed) ==
    calls' = [calls EXCEPT ![e].step = "closing", ![e].status = status,
                           ![e].changed = changed, ![e].nonzero = FALSE]

\* CancelledError reaches the handler in execute, which forwards it.
Forward(e) ==
    calls' = [calls EXCEPT ![e].step = "forward", ![e].status = "CANCELLED"]

-----------------------------------------------------------------------------
(* Where calls come from.                                                  *)

Fresh(e) == calls[e].step = "none"

NewExecution(e, request, source, chats) ==
    [NoCall EXCEPT !.step = "insert", !.request = request, !.source = source,
                   !.granted = source # None, !.chats = chats]

\* execute_tool.  That the caller says it is approved counts for nothing.
ToolRequest(e, request) ==
    /\ Fresh(e)
    /\ calls' = [calls EXCEPT ![e] = NewExecution(e, request, None, FALSE)]
    /\ UNCHANGED <<rows, files, boxes, chat>>

\* A mutant: the approval is not used up.
ApprovableAgain(source) == executions[source].status = "APPROVAL_REQUIRED"

\* approve_execution: consume_execution_approval is one conditional update.
Approvable(source) ==
    /\ executions[source].status = "APPROVAL_REQUIRED"
    /\ executions[source].approval = "REQUIRED"

Approve(e, source) ==
    /\ Fresh(e) /\ Approvable(source)
    /\ executions' = [executions EXCEPT ![source].approval = "CONSUMED"]
    /\ calls' = [calls EXCEPT ![e] =
           NewExecution(e, executions[source].request, source, FALSE)]
    /\ UNCHANGED <<events, files, boxes, chat>>

-----------------------------------------------------------------------------
(* execute: the row and the first event.  A write that fails, or whose     *)
(* await is cancelled, may have been done.                                 *)

InsertedRow(e) ==
    executions' = [executions EXCEPT ![e] =
        [NoRow EXCEPT !.status = "RUNNING", !.request = calls[e].request,
                      !.approval = IF calls[e].granted THEN "GRANTED" ELSE "NOT_REQUIRED"]]

Insert(e) ==
    /\ At(e, "insert")
    /\ \/ InsertedRow(e) /\ Goto(e, "announce")
       \/ (InsertedRow(e) \/ UNCHANGED executions) /\ Abort(e)
    /\ UNCHANGED <<events, files, boxes, chat>>

AddEvent(e, type) == events' = [events EXCEPT ![e] = Append(@, type)]

Announce(e) ==
    /\ At(e, "announce")
    /\ \/ AddEvent(e, "tool.started") /\ Goto(e, "enter")
       \/ (AddEvent(e, "tool.started") \/ UNCHANGED events) /\ Abort(e)
    /\ UNCHANGED <<executions, files, boxes, chat>>

Decision(e) == classify(calls[e].request, calls[e].granted)

Enter(e) ==
    /\ At(e, "enter")
    /\ IF calls[e].request.tool \notin Commands THEN Goto(e, "capture")
       ELSE CASE Decision(e) = "permitted" -> Goto(e, "slot")
              [] Decision(e) = "approval" -> Settle(e, "APPROVAL_REQUIRED", FALSE)
              [] Decision(e) = "rejected" -> Settle(e, "FAILED", FALSE)
    /\ UNCHANGED <<rows, files, boxes, chat>>

-----------------------------------------------------------------------------
(* _execute_file_tool: a copy of the files, the tool, and the way back.    *)

FileCapture(e) ==
    /\ At(e, "capture") /\ calls[e].request.tool \notin Commands
    /\ Goto(e, "handler") \/ Settle(e, "FAILED", FALSE)
    /\ UNCHANGED <<rows, files, boxes, chat>>

FileHandler(e) ==
    /\ At(e, "handler")
    /\ IF Decision(e) = "approval" THEN Settle(e, "APPROVAL_REQUIRED", FALSE)
       ELSE \/ Settle(e, "FAILED", FALSE)
            \/ IF calls[e].request.tool \in _MUTATING_FILE_TOOLS
               THEN Goto(e, "reconcile") ELSE Settle(e, "SUCCEEDED", FALSE)
    /\ UNCHANGED <<rows, files, boxes, chat>>

CommitFiles(e) == committed' = committed \cup {e}

\* reconcile without its success: nothing was done, it was done and the answer
\* is lost, or the database still has to do it.
Unanswered(e) ==
    \/ UNCHANGED files
    \/ CommitFiles(e) /\ UNCHANGED adrift
    \/ adrift' = adrift \cup {e} /\ UNCHANGED committed

FileReconcile(e) ==
    /\ At(e, "reconcile")
    /\ \/ CommitFiles(e) /\ UNCHANGED adrift /\ Settle(e, "SUCCEEDED", TRUE)
       \/ UNCHANGED files /\ Settle(e, "SUCCEEDED", FALSE)
       \/ Unanswered(e) /\ Settle(e, "FAILED", FALSE)
    /\ UNCHANGED <<rows, boxes, chat>>

CommitLands(e) ==
    /\ e \in adrift
    /\ adrift' = adrift \ {e}
    /\ CommitFiles(e) \/ UNCHANGED committed
    /\ UNCHANGED <<rows, boxes, calls, chat>>

-----------------------------------------------------------------------------
(* VercelSandboxRunner.run.  Each service has a runner of its own, and the *)
(* API a service per request; the semaphore is the runner's.               *)

Runner(e) == IF calls[e].chats THEN "chat" ELSE e

SlotHolders(runner) == {x \in Executions : calls[x].step \in InBox \cup {"capture"}
                                     /\ calls[x].request.tool \in Commands
                                     /\ Runner(x) = runner}

Slot(e) ==
    /\ At(e, "slot")
    /\ Cardinality(SlotHolders(Runner(e))) < MaxConcurrent
    /\ Goto(e, "capture")
    /\ UNCHANGED <<rows, files, boxes, chat>>

\* capture, and the hosts an install needs: before there is a sandbox.
BoxCapture(e) ==
    /\ At(e, "capture") /\ calls[e].request.tool \in Commands
    /\ \/ (calls[e].request.tool = "install" => Allowlist) /\ Goto(e, "create")
       \/ Settle(e, "FAILED", FALSE)
    /\ UNCHANGED <<rows, files, boxes, chat>>

MakeBox(e) == boxes' = boxes \cup {e}

\* A creation given up may have been done, and no one has the session.
BoxCreate(e) ==
    /\ At(e, "create")
    /\ \/ MakeBox(e) /\ Goto(e, "upload")
       \/ (MakeBox(e) \/ UNCHANGED boxes) /\ Settle(e, "FAILED", FALSE)
    /\ UNCHANGED <<rows, files, chat>>

BoxRuns(e) == e \in boxes

BoxUpload(e) ==
    /\ At(e, "upload")
    /\ \/ BoxRuns(e) /\ Goto(e, "command")
       \/ Leave(e, "SYNC_FAILED", FALSE) \/ Leave(e, "FAILED", FALSE)
    /\ UNCHANGED <<rows, files, boxes, chat>>

BoxCommand(e) ==
    /\ At(e, "command")
    /\ \/ /\ BoxRuns(e)
          /\ \E nonzero \in BOOLEAN :
                calls' = [calls EXCEPT ![e].step = "download", ![e].ran = TRUE,
                                       ![e].nonzero = nonzero]
       \/ /\ BoxRuns(e)
          /\ calls' = [calls EXCEPT ![e].step = "closing", ![e].ran = TRUE,
                                    ![e].status = "TIMED_OUT"]
       \/ Leave(e, "FAILED", FALSE)
    /\ UNCHANGED <<rows, files, boxes, chat>>

BoxDownload(e) ==
    /\ At(e, "download")
    /\ \/ BoxRuns(e) /\ Goto(e, "synchronize")
       \/ Leave(e, "SYNC_FAILED", FALSE) \/ Leave(e, "FAILED", FALSE)
    /\ UNCHANGED <<rows, files, boxes, chat>>

\* A mutant: success is returned while the sandbox still exists.
SynchronizedAtOnce(e, changed) ==
    Settle(e, IF calls[e].nonzero THEN "FAILED" ELSE "SUCCEEDED", changed)

\* A mutant: a command that failed is reported without what it changed.
SynchronizedSilently(e, changed) ==
    IF calls[e].nonzero THEN Leave(e, "FAILED", FALSE)
    ELSE calls' = [calls EXCEPT ![e].step = "close", ![e].changed = changed]

\* The exit code counts after the files are back.
Synchronized(e, changed) ==
    IF calls[e].nonzero THEN Leave(e, "FAILED", changed)
    ELSE calls' = [calls EXCEPT ![e].step = "close", ![e].changed = changed]

BoxSynchronize(e) ==
    /\ At(e, "synchronize")
    /\ \/ CommitFiles(e) /\ UNCHANGED adrift /\ Synchronized(e, TRUE)
       \/ UNCHANGED files /\ Synchronized(e, FALSE)
       \/ Unanswered(e) /\ Leave(e, "SYNC_FAILED", FALSE)
    /\ UNCHANGED <<rows, boxes, chat>>

Destroy(e) == boxes' = boxes \ {e}

\* Success is returned only after the sandbox is destroyed; that the task is
\* cancelled meanwhile is an error like any other.
BoxClose(e) ==
    /\ At(e, "close")
    /\ \/ Destroy(e) /\ Settle(e, "SUCCEEDED", calls[e].changed)
       \/ (Destroy(e) \/ UNCHANGED boxes) /\ Settle(e, "FAILED", calls[e].changed)
    /\ UNCHANGED <<rows, files, chat>>

\* finally: whatever becomes of it is passed over.
BoxClosing(e) ==
    /\ At(e, "closing")
    /\ Destroy(e) \/ UNCHANGED boxes
    /\ Goto(e, IF calls[e].status = "CANCELLED" THEN "forward" ELSE "finish")
    /\ UNCHANGED <<rows, files, chat>>

\* The provider's execution_time_limit.
BoxExpires(e) ==
    /\ BoxRuns(e) /\ Destroy(e)
    /\ UNCHANGED <<rows, files, calls, chat>>

-----------------------------------------------------------------------------
(* execute: the end of the row and the other events.                       *)

\* Shielded, but not from a second cancellation.
ForwardCancel(e) ==
    /\ At(e, "forward")
    /\ Goto(e, "finish") \/ Abort(e)
    /\ UNCHANGED <<rows, files, boxes, chat>>

approval_status(e) ==
    IF calls[e].status = "APPROVAL_REQUIRED" THEN "REQUIRED"
    ELSE IF calls[e].granted THEN "GRANTED" ELSE "NOT_REQUIRED"

FinishedRow(e) ==
    executions' = [executions EXCEPT
        ![e].status = calls[e].status, ![e].approval = approval_status(e),
        ![e].changed = calls[e].changed]

Finish(e) ==
    /\ At(e, "finish")
    /\ \/ FinishedRow(e) /\ Goto(e, IF calls[e].changed THEN "report" ELSE "conclude")
       \/ (FinishedRow(e) \/ UNCHANGED executions) /\ Abort(e)
    /\ UNCHANGED <<events, files, boxes, chat>>

Report(e) ==
    /\ At(e, "report")
    /\ \/ AddEvent(e, "file.changed") /\ Goto(e, "conclude")
       \/ (AddEvent(e, "file.changed") \/ UNCHANGED events) /\ Abort(e)
    /\ UNCHANGED <<executions, files, boxes, chat>>

\* A mutant: what did not fail is reported as completed.
terminal_event_lenient(e) ==
    IF calls[e].status = "FAILED" THEN "tool.failed" ELSE "tool.completed"

terminal_event(e) ==
    IF calls[e].status = "SUCCEEDED" THEN "tool.completed" ELSE "tool.failed"

Conclude(e) ==
    /\ At(e, "conclude")
    /\ \/ AddEvent(e, terminal_event(e)) /\ Goto(e, "ended")
       \/ (AddEvent(e, terminal_event(e)) \/ UNCHANGED events) /\ Abort(e)
    /\ UNCHANGED <<executions, files, boxes, chat>>

\* CancelledError at an await inside the try statement.
Broken(e) ==
    \/ /\ calls[e].step \in {"slot", "capture"}
       /\ Forward(e) /\ UNCHANGED <<files, boxes>>
    \/ At(e, "reconcile") /\ Unanswered(e) /\ Forward(e) /\ UNCHANGED boxes
    \/ At(e, "create") /\ (MakeBox(e) \/ UNCHANGED boxes) /\ Forward(e) /\ UNCHANGED files
    \/ /\ calls[e].step \in {"upload", "command", "download"}
       /\ calls' = [calls EXCEPT ![e].step = "closing", ![e].status = "CANCELLED",
                                 ![e].ran = @ \/ (At(e, "command") /\ BoxRuns(e))]
       /\ UNCHANGED <<files, boxes>>
    \/ At(e, "synchronize") /\ Unanswered(e) /\ Leave(e, "CANCELLED", FALSE)
       /\ UNCHANGED boxes

\* At another await it does what a write does that fails.
Cancel(e) == Broken(e) /\ UNCHANGED <<rows, chat>>

-----------------------------------------------------------------------------
(* EngineeringChatService.run, and the stream that carries it.             *)

\* Of a run that is over only its end is kept.
ChatEnds(step) == chat' = [NewChat EXCEPT !.step = step]

ChatFails == ChatEnds("failed")

ChatStart ==
    /\ chat.step = "idle"
    /\ chat' = [chat EXCEPT !.step = "thinking", !.iteration = 1]
    /\ UNCHANGED <<rows, files, boxes, calls>>

\* The model's answer is no envelope of the protocol, or does not come.
ChatProtocolFails ==
    /\ chat.step = "thinking" /\ ChatFails
    /\ UNCHANGED <<rows, files, boxes, calls>>

\* A mutant: executions of this run are evidence however they ended.
VerifiedAsked(evidence, claims) ==
    /\ \A e \in evidence : calls[e].chats
    /\ claims => evidence # {}

\* A final answer refers to executions of this run that succeeded, and to one
\* at least when its words say that something was done.
Verified(evidence, claims) ==
    /\ evidence \subseteq chat.succeeded
    /\ claims => evidence # {}

ChatFinal(evidence, claims) ==
    /\ chat.step = "thinking"
    /\ IF Verified(evidence, claims)
       THEN chat' = [NewChat EXCEPT !.step = "completed", !.evidence = evidence,
                                    !.claims = claims]
       ELSE ChatFails
    /\ UNCHANGED <<rows, files, boxes, calls>>

ChatWantsTools(wanted) ==
    /\ chat.step = "thinking"
    /\ chat' = [chat EXCEPT !.step = "calling", !.pending = wanted]
    /\ UNCHANGED <<rows, files, boxes, calls>>

\* A call whose tool and arguments were asked for before ends the run.
Repeated == Head(chat.pending) \in chat.asked

ChatCall(e) ==
    /\ chat.step = "calling" /\ chat.current = None
    /\ IF Repeated THEN ChatFails /\ UNCHANGED calls
       ELSE /\ Fresh(e)
            /\ calls' = [calls EXCEPT ![e] =
                             NewExecution(e, Head(chat.pending), None, TRUE)]
            /\ chat' = [chat EXCEPT !.current = e,
                                    !.asked = @ \cup {Head(chat.pending)}]
    /\ UNCHANGED <<rows, files, boxes>>

NextIteration(c) ==
    IF c.pending # <<>> THEN c
    ELSE IF c.iteration = MaxIterations THEN [NewChat EXCEPT !.step = "failed"]
    ELSE [c EXCEPT !.step = "thinking", !.iteration = @ + 1]

\* An exception of execute ends the stream, a result of any status does not.
ChatResult ==
    /\ chat.step = "calling" /\ chat.current # None
    /\ \/ /\ At(chat.current, "ended")
          /\ chat' = NextIteration([chat EXCEPT
                 !.current = None, !.pending = Tail(@),
                 !.succeeded = IF calls[chat.current].status = "SUCCEEDED"
                               THEN @ \cup {chat.current} ELSE @])
       \/ At(chat.current, "aborted") /\ ChatFails
    /\ UNCHANGED <<rows, files, boxes, calls>>

\* The client goes.  The task of the current execution is left to itself.
ChatLeave ==
    /\ chat.step \in {"thinking", "calling"}
    /\ ChatEnds("left")
    /\ UNCHANGED <<rows, files, boxes, calls>>

-----------------------------------------------------------------------------
(* The server stops.  What it had sent to others may still be done.        *)

ServerStops ==
    LET Syncing == {e \in Executions : calls[e].step \in {"reconcile", "synchronize"}}
        Creating == {e \in Executions : At(e, "create")}
    IN  /\ \E e \in Executions : ~Over(e)
        /\ calls' = [e \in Executions |->
               IF Over(e) THEN calls[e] ELSE Gone(calls[e])]
        /\ IF chat.step \in {"thinking", "calling"} THEN ChatEnds("left") ELSE UNCHANGED chat
        /\ \E sent \in SUBSET Syncing : adrift' = adrift \cup sent
        /\ \E made \in SUBSET Creating : boxes' = boxes \cup made
        /\ UNCHANGED <<rows, committed>>

-----------------------------------------------------------------------------

Step(e) ==
    \/ Insert(e) \/ Announce(e) \/ Enter(e)
    \/ FileCapture(e) \/ FileHandler(e) \/ FileReconcile(e)
    \/ Slot(e) \/ BoxCapture(e) \/ BoxCreate(e) \/ BoxUpload(e) \/ BoxCommand(e)
    \/ BoxDownload(e) \/ BoxSynchronize(e) \/ BoxClose(e) \/ BoxClosing(e)
    \/ ForwardCancel(e) \/ Finish(e) \/ Report(e) \/ Conclude(e)

Envelopes == UNION {[1..n -> Requests] : n \in 1..MaxCalls}

ExecutionNext ==
    \/ \E e \in Executions :
          \/ \E request \in Requests : ToolRequest(e, request)
          \/ \E source \in Executions : Approve(e, source)
          \/ Step(e) \/ Cancel(e) \/ CommitLands(e) \/ BoxExpires(e) \/ ChatCall(e)
    \/ ChatStart \/ ChatProtocolFails \/ ChatResult \/ ChatLeave \/ ServerStops
    \/ \E wanted \in Envelopes : ChatWantsTools(wanted)
    \/ \E evidence \in SUBSET Executions, claims \in BOOLEAN : ChatFinal(evidence, claims)

ExecutionSpec == ExecutionInit /\ [][ExecutionNext]_executionVars

-----------------------------------------------------------------------------
(* Properties.                                                             *)

ExecutionTypeOK ==
    /\ executions \in [Executions -> Row]
    /\ \A e \in Executions : events[e] \in Seq(EventTypes)
    /\ committed \subseteq Executions /\ adrift \subseteq Executions
    /\ boxes \subseteq Executions
    /\ calls \in [Executions -> Call]
    /\ chat.current \in Executions \cup {None} /\ chat.succeeded \subseteq Executions

Ended(e) == executions[e].status \in Final

\* A row says SUCCEEDED only of an execution whose changes are the workspace's
\* files, none of them still on its way, and whose sandbox is gone.
SuccessIsComplete ==
    \A e \in Executions :
        executions[e].status = "SUCCEEDED" =>
            /\ executions[e].changed <=> e \in committed
            /\ e \notin adrift /\ e \notin boxes

\* Files that changed are on the row of the execution that changed them, or
\* its status says that the synchronization or the request was broken off; a
\* file tool alone may have FAILED and changed them.  What waits for approval,
\* was rejected or timed out has changed nothing.
ChangesReported ==
    \A e \in committed \cup adrift :
        Ended(e) =>
            \/ executions[e].changed
            \/ executions[e].status \in {"SYNC_FAILED", "CANCELLED"}
            \/ /\ executions[e].status = "FAILED"
               /\ executions[e].request.tool \in _MUTATING_FILE_TOOLS

\* Types, and the events of an execution are its start, then its changes, then
\* one end that agrees with the row; there is no end before the row has one.
EventsTell ==
    /\ ExecutionTypeOK
    /\ \A e \in Executions :
        LET log == events[e]
            n == Len(log)
        IN  /\ \A i \in 1..n : log[i] = "tool.started" <=> i = 1
            /\ \A i \in 1..n : log[i] = "file.changed" => executions[e].changed
            /\ \A i \in 1..n : log[i] \in {"tool.completed", "tool.failed"} =>
                  /\ i = n /\ Ended(e)
                  /\ log[i] = "tool.completed" <=> executions[e].status = "SUCCEEDED"
                  /\ executions[e].changed => n = 3

\* A completed chat answer refers only to executions this chat asked for and
\* whose rows say SUCCEEDED, and to one of them at least when it claims success.
EvidenceIsReal ==
    chat.step = "completed" =>
        /\ \A e \in chat.evidence :
              calls[e].chats /\ executions[e].status = "SUCCEEDED"
        /\ chat.claims => chat.evidence # {}

-----------------------------------------------------------------------------
(* The promise to the owner.                                               *)

NeedsApproval == {request \in Requests : classify(request, FALSE) = "approval"}

Progressed(e) ==
    CASE Fresh(e) -> "none"
      [] ~Fresh(e) /\ executions[e].status \in {"NONE", "RUNNING"} -> "running"
      [] executions[e].status = "APPROVAL_REQUIRED" ->
            IF executions[e].approval = "REQUIRED" THEN "waiting" ELSE "granted"
      [] executions[e].status = "SUCCEEDED" -> "succeeded"
      [] OTHER -> "over"

Promise == INSTANCE ToolPromise WITH
    Idle <- None, Works <- Requests, Protected <- NeedsApproval,
    progress <- [e \in Executions |-> Progressed(e)],
    work <- [e \in Executions |-> calls[e].request],
    approved <- {e \in Executions : calls[e].source # None},
    effects <- committed \cup {e \in Executions : calls[e].ran}

\* What needs approval acts only when an approval was given, each approval
\* starts one execution of what was asked for, and nothing happens after a
\* success.
KeepsToolPromise == Promise!PromiseSpec
=============================================================================
