# NapsterTec AI backend in TLA+

This directory holds a formal model of the backend under `src/app`: TLA+
modules, the TLC configurations that check them on small instances, and proofs
checked by TLAPS. It covers what the program keeps and what several actors change
at once: missions and the registry they are stored in, the approvals that
protected work needs, the ledger of the money a mission may spend, company
objectives and their evaluation, the files of an engineering workspace and the
tools that change them, what a server keeps of workspaces and previews on its own
disk, the agents and requests that call language models, and the owner's desk: his
sessions, his voice connection, the transcription of his recordings and the live
events on his desktop.

Line numbers are those of the files under `src/`.

## 1. Inventory of the system

The backend is one FastAPI process. Its actors are coroutines of one event
loop (request handlers, the worker's poll loop, event reactions) and the
threads that serve synchronous endpoints. They share JSON and SQLite
repositories and in-process singletons.

| component | state it keeps | operations | what makes it correct |
|---|---|---|---|
| Mission engine (`engine/mission_engine.py`) | `PersistentMission` records in `mission_registry.json`: status, progression, plan, milestones, materializations, execution requests, delegations, worker claims, artifact lineage, success evidence | create, bootstrap, dispatch, claim, complete, fail, approve, reject, revoke, record outcome, pause/resume, quarantine | one piece of executable work at a time; no completion without counted evidence; nothing executable without an approval it needs; bounded retries and replans; the mission settles |
| Autonomous worker (`engine/autonomous_worker.py`) | nothing stored; a claim per call | poll loop: dispatcher pass, then quarantine, claim, run a specialist, report | every claimed delegation is reported once; late answers do not change closed work |
| Evidence classification (`schemas/evidence.py`) | none | `qualifies_for_production_success`, `is_simulation_evidence` | evidence that closes work also counts |
| Owner control (`services/owner_control_service.py`) | none of its own | pause, resume, cancel a mission; owner decisions on approvals | commands keep the mission consistent |
| Director engine (`services/director_engine.py`, interaction services) | a conversation | interpretation of a message, then mission commands: create, dispatch, pause, resume, continue | commands respect what workers hold |
| Approvals and tool authorization (`repositories/approval_repository.py`, `services/approval_service.py`, `services/authorization.py`, `tools/tool_executor.py`) | approval records; calls of protected tools | create, resolve, revoke, consume; authorize and execute a tool | one decision per request; a protected operation only while its work is approved, and once; record and mission agree |
| Finance ledger (`repositories/finance_repository.py`, `schemas/finance.py`, `services/finance_engine.py`, financial tools in `tools/tool_executor.py`) | an objective's budget, allocations to missions, reservations, commitments, spends and the ledger of entries, in one JSON file | create, allocate, reserve, release, convert, commit, spend; authorize and book a financial tool; assess | balances are the sums of what is open; nothing beyond its allocation; everything ends once; what was paid is booked |
| Company objectives (`repositories/company_objective_repository.py`, service) | objectives, linked missions, credited evidence, versions | create, link, update, pause, resume, cancel | progress follows evidence; an ended objective stays as it ended |
| Post-mission evaluation and portfolios (`services/post_mission_evaluation.py`, `mission_portfolio_service.py`) | decision records, portfolios | evaluate a terminal mission, propose the next | one decision and one update per terminal mission, whatever fails in between |
| Executive decisions and strategy (`repositories/executive_*`, `services/executive_strategy_service.py`, `director_strategy.py`) | evaluations, strategic plans | plan, evaluate a portfolio, replan | within the limits of the objective; never a proposal the objective rejects |
| Event bus and session manager (`engine/event_bus.py`, `engine/session_manager.py`) | subscribers, sessions | publish, deliver | an event repeated, late or lost does no harm |
| Engineering workspaces (`services/supabase_workspace_storage.py`, `services/engineering_workspace_storage.py`, `repositories/engineering_workspace_repository.py`) | objects in a bucket; manifest, staged rows and revision in the database; or a directory of the server with its backups | capture, reconcile, clean up; file tools | no update lost, no file of the manifest missing, no object forgotten; a directory takes all of a change or none |
| Engineering execution (`services/engineering_execution_service.py`, `vercel_sandbox_runner.py`, `api/engineering_workspace.py`) | rows and events of executions, sandboxes | request, approve, run, cancel | what needs approval acts only with it, once; row, events and files agree |
| Previews (`services/engineering_process_service.py`) | child processes, what the server knows of them, rows | start, inspect, stop, shut down | the server knows every process it started, within its limit; a row calls ended only what ended |
| Engineering chat (`services/engineering_chat_service.py`) | one run | ask the model, call its tools, answer | what it claims was done has evidence |
| Agent execution loop (`agent/execution_loop.py`) | one run with its traces | think, act, observe, reflect, synthesize | ends within its limits; answers rest on what was read |
| Capability router and LLM providers (`router/engine.py`, `providers/`, `RouterLLMProvider` in `api/endpoints.py`) | cooldowns, the model last used | choose, stream, fail over, parse | tries whom it may, once; a parsed reply is one model's |
| Provider health (`providers/health.py`) | none that is reached | | |
| Director authentication (`services/director_auth_service.py`, `repositories/director_auth_repository.py`) | browser sessions and one-time tickets in the database | log in and out, issue a ticket, consume it for a connection | a ticket opens one connection, and none once its session's logout is committed |
| Director voice (`services/director_realtime_voice_service.py`) | a session with its turn and tasks, a queue of speech chunks per turn | commit a transcript, stream words, speak chunks, interrupt, disconnect | an abandoned turn is neither written nor spoken; the closing list is what was spoken; turns end |
| Transcription (`services/director_speech_service.py`, `services/whisper_stt_provider.py`) | a model, one lane, temporary recordings | load, transcribe, time out, cancel | the recording stays while it is read and goes afterwards |
| Live events (`services/executive_event_service.py`, `api/director_desktop.py`) | a buffer of events, a queue per stream | project, subscribe with replay, send, close | no gap, no repetition, no other order that a client would not notice |
| Tool plugins, lead and business services, executive read models and briefings, other endpoints, analytics and memory repositories | I/O and formatting | | |

How they interact. A Director message or an owner request creates a mission
and bootstraps it. Bootstrap turns the current milestone into a decision, the
decision into a *materialization*, and that into an *execution request* (or
into an approval to wait for). The dispatcher, called by the poll loop every
five seconds and by the creating call of a canary mission, turns a READY
request into a *delegation*; the worker claims the delegation, runs a
specialist and reports success or failure; both reports end by bootstrapping
again or by a retry request. Outcome events (a reply, a deal) reach the mission
through `mission_outcome_reaction`. Owner and Director pause, resume and cancel
at any time. An approval is decided through the Director's chat, which then
tells the mission engine, or on the owner's desktop, which does not; the tool
executor looks at the record before every protected call. A financial tool is also
checked against its mission's allocation before the call and booked after it.
Every save of a mission that has ended publishes an event, whose handler
evaluates the mission for its objective; the strategy cycle and the owner change
the same objective. Finance and objectives are not read by the engine.

Beside this stand the engineering workspaces, which share nothing with missions
but the model providers: an execution captures the workspace's files from
Supabase, changes a copy by a tool or by a command in a Vercel sandbox, and
reconciles it; a chat lets a model ask for executions. In development the files are
in a directory of the server, which commands of the local or the Docker runner change
in place, and previews are processes of the server. Chats, agents and
structured calls go through one router, whose cooldowns and providers they
share.

The owner's desk shares nothing with these either, but for the texts it passes on. A
session gives out tickets, a ticket opens a voice connection, which does not ask for
the session again; a transcript comes back to the browser, which sends it like typed
text; live events are only shown.

What is hard. Each engine handler holds the registry lock only for its own
section, so what it decided may be stale in the next one: a dispatcher claims
and delegates in two sections, a worker claims, starts and reports in three, a
specialist runs for minutes in between, and the bootstrap that follows a
completion is a section of its own. The completion and failure handlers do not
look at the mission's status. Failures of a save are reported through the same
path as failures of a specialist. Money is checked before a tool is awaited and
booked after it returned, in two saves, into a file that is taken for empty when
it cannot be read. The registry itself is read and written by threads and
processes under two locks of which one is waited for only so long. An evaluation
writes two files one after the other. A reconcile spans a bucket and a database,
each call of which may be done although its answer is lost, while a cleanup
script looks for what it left. A request may be cancelled at every await, in the
middle of a commit too. Providers fail before, at the start of and in the middle
of a stream, and retries of several layers meet. At the desk, tickets are consumed by
several workers while a logout is between its two statements; a voice turn has one
task that writes and one that speaks, with a bounded queue between, and the listener
may cut in at any await; a thread that nothing can interrupt reads a file that its
request gave up; a stream that is too slow must not miss events unnoticed. On the
host, threads, child processes and the event loop change the same directory.
`PROJECT.json` lists each hazard with its line and the property aimed at it.

## 2. Modules

| module | content |
|---|---|
| `MissionEvidence` | which artifact evidence closes a delegation and which counts for completion, per verification mode |
| `MissionEngine` | one mission and everyone who changes it; its properties |
| `RegistryPromise` | abstract: what a store of missions promises each update |
| `MissionRegistry` | the registry's file, memories and locks under threads, processes and failures |
| `MissionInvariant` | the inductive invariant `IInv` |
| `MissionEngineProofs` | types; `IInv` is inductive; the safety and action properties follow; the composition of `ApprovalGate` implements `MissionEngine` and `ApprovalPromise`, and its invariants |
| `MCMissionEngine` | evidence values for the runs |
| `ApprovalPromise` | abstract: what human approval promises of protected work |
| `ApprovalGate` | `MissionEngine` composed with the approval repository, the two services that decide and the gated tool executor |
| `MCApprovalGate` | evidence values for its runs |
| `BudgetPromise` | abstract: what a budget promises each mission |
| `FinanceLedger` | the finance repository, the financial gate and the executor's booking of financial tools |
| `FinanceLedgerProofs` | its invariants, audit trail and balances (with a small theory of sums over finite sets), and that it implements `BudgetPromise` |
| `MCFinanceLedger` | amounts and symmetry for its run |
| `EvaluationPromise` | abstract: what the evaluation of terminal missions promises an objective |
| `CompanyObjective` | an objective under evaluation, strategy cycle, owner and faults |
| `CompanyObjectiveProofs` | its invariants, and that it implements `EvaluationPromise` |
| `MCCompanyObjective` | symmetry for its run |
| `VersionedFiles` | abstract: files with a history of versions, each made from the one before |
| `WorkspaceStorage` | capture, reconciliation and cleanup of a workspace's files |
| `WorkspaceStorageProofs` | bucket, manifest and rows agree, reports are true, and it implements `VersionedFiles` |
| `MCWorkspaceStorage` | file trees for its run |
| `ToolPromise` | abstract: what approval promises of tools |
| `EngineeringExecution` | tool executions from request to last event, and the chat that asks for them |
| `EngineeringExecutionProofs` | rows, events, files and evidence agree, and it implements `ToolPromise` |
| `MCEngineeringExecution` | requests, overlap and symmetry for its run |
| `FailoverPromise` | abstract: what failover promises a request |
| `InferenceRouting` | router, providers and the two kinds of callers |
| `AgentLoop` | the agent's loop over `InferenceRouting` |
| `AgentLoopProofs` | the router under any callers implements `FailoverPromise` and returns whole objects; the loop's answers rest on evidence |
| `MCInferenceRouting`, `MCAgentLoop` | providers, models and tools for their runs |
| `LocalWorkspace` | a workspace in a directory of the server: reconciles, commands, file tools |
| `PreviewProcesses` | the previews of a workspace |
| `ServerHost` | `MissionRegistry`, `LocalWorkspace` and `PreviewProcesses` on one server |
| `ServerHostProofs` | the invariants of the three, the registry implements `RegistryPromise`, and `ServerHost` implements its parts |
| `MCServerHost` | which thread runs in which process, and symmetry |
| `TicketPromise` | abstract: what tickets promise the owner |
| `DirectorSessions` | sessions, tickets and connections with the statements of their transactions |
| `ConversationPromise` | abstract: what a voice conversation promises its listener |
| `DirectorVoice` | one voice connection with the tasks of its turns |
| `DirectorSpeech` | transcription requests, their thread and their files |
| `ExecutiveEvents` | the live event stream |
| `DirectorDesk` | the four together |
| `DirectorDeskProofs` | the invariants of the four parts and their promises, and that `DirectorDesk` implements its parts |

### State and actions against the code

A mission is modelled alone: no handler of the engine reads another mission.
Every `with mission_registry.locked()` section is one step. Lists of the stored
record (`execution_requests`, `worker_claims`, `milestones`) are sequences and
a generated id is the entry's position, so an idempotency key is the pair
milestone and attempt. `active_delegations` and `delegation_history` are one
sequence `delegations`, told apart by the entry's status, which is how the code
tells them apart as well. What a coroutine remembers between two sections is a
volatile variable:

| variable | who | between |
|---|---|---|
| `dispatching` | dispatcher | `claim_ready_request` and `create_delegation` |
| `claimedBy` | worker | `claim_pending_delegation` and `mark_delegation_running` |
| `executing` | worker | the specialist's start and its report |
| `finishing` | worker | the completion's section and its `_bootstrap_mission` |
| `booting` | Director's creation or resume, outcome reaction | their section and `_bootstrap_mission` |
| `chain` | the call that creates a canary mission | `_advance_structural_canary_chain` |

`Crash` empties them and keeps the stored mission. `DirectorDispatch` is the
Director's path around the dispatcher: it delegates a request without claiming
it, and so races with a dispatcher that has.

`_bootstrap_mission` is split by its returns (`BootstrapInactive`,
`BootstrapUnplannable`, `BootstrapComplete`, `BootstrapArtifactUnmet`,
`BootstrapLimitReached`, `BootstrapNothingNew`, `BootstrapMaterialize`), whose
guards exclude each other; `BootstrapReplan` is the one path that calls itself
again. `ExecutionFailure` is `process_execution_failure` with its retry and its
escalation; a delegation that is no longer active only escalates, and
`WorkerRaises` reaches it from `_dispatch_to_specialist`'s exception handler
even after the delegation was completed.

Two steps of the code are joined. Evidence that is refused and the failure
report that follows are two locked sections with no await between them, and the
worker that reports is the only one to close its delegation. The worker's
quarantine and claim (`process_mission_once`) likewise follow each other
without an await; `MayExecute` is the mission they leave to be claimed. The
dispatcher's pass also starts with the quarantine, but its later claims follow
an await, so `ClaimReadyRequest` asks for an ACTIVE mission only: the model
allows more than the code does.

Abstracted: wording, event publication, timestamps, planning texts, scores and
confidence; the classification of an error text into transient or not
(`SpecialistFails` chooses); a timeout of the registry's lock inside a worker's save
(`WorkerSaves` has the failed save, `MissionRegistry` the timeout); the artifact's content, of which only what the
evidence rules look at remains. `MaxInterventions` bounds pause, resume and
cancel commands, `MaxFaults` crashes, failed saves and raising workers.

`LegacyInit` is another set of initial states: mission files with orphaned,
duplicated or ghost work, or a plan beyond its limits, which earlier versions
left or an editor made, and which `MissionSafetyReconciler` exists for. `LegacySpec`
starts in such a state or with a new mission.

### Approvals

`ApprovalGate` extends the mission with four variables: `approvals`, the
repository's records in the order of creation (status, and the milestone whose
materialization it speaks for); `calls`, the delegations whose protected tool is
executing; and two history variables, `effects` and `succeeded`. The repository
re-reads its file under its lock and replaces it atomically, so each of its
operations is one step.

Every step of the mission is one of `MissionEngine`, with what it does to
approvals: `BootstrapAsks` stores the record `materialize` creates;
`ApproveDecision`, `RejectDecision` and `RevokeDecision` are
`ApprovalDecisionService.execute_decision`, which resolves the record and then
calls the engine without an await between. The engine may refuse (the mission
is paused, the work has been picked up), its save may fail, or the process may
stop: the record stays decided and the mission as it was. `OwnerDecision`
resolves the record only, as the code does. `MissionFault` is a crash or failed
save in a bootstrap, which may leave a record that no mission knows
(materialization 0). `MissionStep` is all the rest, where a specialist waits
for its tool.

`ToolStarts` is the gate's authorization and the call it permits,
`ToolSucceeds` the return with `consume_approval`, `ToolFails` a failure or
timeout, after which the executor, the specialist or a retried request may call
again. An operation counts as performed when it was called, since nobody knows
what a call that timed out has done.

Left out: permissions, action fingerprints, the financial gate and a record's
expiry date, which only refuse more (EXPIRED is never assigned). No tool in the
repository sets `approval_required` today, and materialization and lineage
reach the gate through `_build_specialist_context`: the model is of the gate
with any protected tool, as the tests use it.

### Finance

`FinanceLedger` is the file of the finance repository for one objective:
`budget`, `allocations` (a function on the missions that have one),
`reservations`, `commitments`, `spends` and `ledger`, the stored lists, with an
id as the position. Objectives share the file and nothing else, so another one
appears only where it matters, in `CreateOverUnreadable`. Each repository
operation reads the file, changes it and replaces it atomically, and no await is
in between; its callers live on one event loop, so each operation is one step
(the cross-process lock it takes does nothing outside Windows). An operation
that raises stores nothing and is no step; so is one with a negative amount.
The validators of the two budgets are run on every read and before every save:
`BudgetValid` and `AllocationValid` are conjuncts of `Post`, and the derived
available amounts and the status are operators, not state.

Amounts are in units of which `CentParts` make a cent. `safe_money` rounds down
in the gate and in the repository alike. What callers of the repository do with
reservations is free: no code in `src/app` reserves today, only tests do, and
likewise only tests define a FINANCIAL_COMMITMENT tool. The model lets the
repository's operations come in any order and mixes the executor's with them.

`PaymentStarts` is the gate's budget check and the call it permits; the approval
that the same gate asks for is `ApprovalGate`'s. The model is of financial tools that
require one, as those in the tests do, since the gate is passed for no other
(`tool_executor.py` 49). The gate looks at the approval's mission and the booking at the
one in the tool's parameters (88), and nothing compares them: both are chosen. `PaymentFails` is a call that
raised, timed out or died with the process, and may have paid all the same; a
retry is another `PaymentStarts`. A tool that returned is booked
(`PaymentRecorded`, commitment and spend), half booked when the second save or
the process fails between the two (`PaymentHalfRecorded`), not booked when the
commitment is refused or cannot be saved (`PaymentUnrecorded`), or not to be
booked for want of an amount (`PaymentUnpriced`). `calls` is what executing
tools were asked, and `payments` is history: what left the company since the
ledger began. A parameter that is missing is
`NoCurrency` or the amount 0; a currency that is present and null, which the
booking reads as the currency "NONE", has the outcome of a foreign one.

Left out: purposes, vendors, fingerprints, versions and times, and the finance
engine's assessments.

### The registry

`MissionEngine` takes a locked section for one step; `MissionRegistry` is what
allows that, and says where it ends. A thread is in one section at a time
(`sections`), takes the process's `_lock`, then the mutex (`locked`), reads the
file, changes the object in the registry's memory (`Changes`), and `save_mission`
reads the file once more before `_save_state` replaces it. A section may fail between
the two (`Raises`), as when the approval of a materialization cannot be stored
(`mission_engine.py` 1213-1238), and leave the change in memory. All nested sections of
the re-entrant lock belong to the outer one. Reading may fail at any time
(`_read_models_from_disk` is then empty), saving may fail (`SaveFails`), the mutex
is waited for 30 seconds (`LockTimeout`), a process may stop and start again
(`Restart`). A mission is the set of updates in it, so a lost update is seen.
`os_name` and `Deployment` say what the lock asks of a deployment: Windows, or one
process. `missions_file` and its directory being there, and a temporary file that
could not be removed, are left out.

### Objectives

`CompanyObjective` is one objective with its missions as far as they concern it.
None of the handlers awaits, so each runs from end to end in the event loop:
`work` holds the writes a handler has still to make, and what can come between
two writes is a failure (`UpdateFails`, with the withdrawal of the decision, which
may fail as well) or `Restart`. Every save of a terminal mission publishes an
event again; delivery is in any order, and ends with the process.
`evaluate` is `PostMissionEvaluationCoordinator.evaluate` with `_build_decision`
split into one operator per kind of outcome; `evaluate_portfolio_outcome` is the
strategy cycle's evaluation with its two or three updates; the owner's controls
save the object they read, without a new version, through `_force_objective_save`.
Texts, confidences, metadata and the Director's candidates are left out; which
artifacts are credited first is any choice of the right size.

Nothing in the application links a mission to an objective or calls the strategy
cycle yet: their callers are the tests
(`test_company_objective_control_plane.py`, `test_executive_decision_loop.py`,
`test_director_executive_strategy_loop.py`, `test_director_mission_portfolio.py`),
from which the model takes its inputs. `update_status`, `terminal_transition` and
`record_zero_progress_cycle` have no caller outside unit tests of their own.

### Workspaces

`WorkspaceStorage` is `SupabaseWorkspaceStorage` over the repository of
workspaces. A call to the bucket or to the database is a step: `Upload` puts an
object in the bucket, `SendCommit` sends the transaction, `ServerCommits` is what
PostgreSQL makes of it under the lock of the workspace's row, and `CommitReturns`,
`LoseAnswer` and `Recheck` are what the caller learns of it. `Cancel` is a
cancellation at any await, `Crash` the end of the process, `GiveUpUpload` an upload
that failed, of which the object may be there, may come later (`UploadLands`) or
not at all. `CleanerReads`, `CleanerDeletes` and `CleanerMarks` are the script
`cleanup_abandoned`, `GrowOld` the age it waits for. A digest is the map from paths
to contents it is computed from (no collisions); a key is the execution and the
content, as `object_key` builds it. Sizes, paths and their validation come before
any change and are left out. The local directory storage is `LocalWorkspace`.

### Executions and the chat

`EngineeringExecution` follows `ToolExecutionService.execute` from the row it
inserts to its last event, with a step for every await. File tools capture, change
and reconcile (`FileCapture`, `FileHandler`, `FileReconcile`); commands pass
`VercelSandboxRunner.run` (`Slot` to `BoxClosing`). What a reconcile may come to is
taken from `WorkspaceStorage`: done, refused, or unknown and perhaps done later
(`adrift`). `Broken` says for each await inside the try block what a cancellation
leaves; at other awaits it does what a failed write does. `Approve` is
`approve_execution`: one conditional update, then an execution of its own with the
request that was stored. The chat (`ChatStart` to `ChatLeave`) runs one execution at
a time, refuses a repeated call, and checks the evidence of a final answer.
`ServerStops` ends every task and leaves what was sent to the bucket, the database
and the sandbox provider. The tools are classes of tools (`classify`); several
changed files are one `file.changed`; output events are left out. What the local and
the Docker runner do to a directory is `LocalWorkspace`, the previews are
`PreviewProcesses`.

### The server host

`ServerHost` puts together what a server keeps on its own disk and among its own
processes. No step of one of the three parts reads or writes what another keeps, so a
behaviour follows one of them (`followed`), which costs the sum of their states and
not the product; `HostImplementsParts` is proved.

`LocalWorkspace` is `LocalDurableWorkspaceStorage` with the local and the Docker
runner and the file tools. `root` is the directory, a function from names to texts. A
reconcile (`syncs`) runs in a thread under `rootLock`, backs up and replaces one file
after the other (`todo`, `done`, `before`), and undoes what it did when a call of the
file system fails. Commands change the directory while they run; what the operating
system still knows of a command and what was reported of it are kept apart (`os`,
`commands`). The runner reports when the process has ended and its pipes are closed
(`Reports`), which a child that does not hold them outlives. File tools take no lock. `disturbed` is history: the names that others
wrote while a reconcile ran, or whose backup could not be put back.

`PreviewProcesses` is `ProcessManager`: a request to start holds `_lock` while it
creates the process, records it, waits for its port and commits; inspections and stops
read the row first and write it last, each step from one await to the next. Every
request may be cancelled and every write may fail. `orphaned` is history: the processes
that outlived a server that was killed. Their output is left out, and so are the children a
preview's process starts itself; so are path checks
and limits of size, except that they may refuse.

### The Director's desk

`DirectorDesk` puts together four parts that share nothing; a behaviour follows one
(`part`), as on the host.

`DirectorSessions` has a step for every statement or commit of a transaction, since
several workers serve the database at the isolation PostgreSQL gives by default: a
session's row is read as it was committed last, a ticket's row is locked from the
`SELECT ... FOR UPDATE` of a consumption or the `UPDATE` of a logout to the end of the
transaction. Cookies, hashes of tokens and the verification of the identity are data.
A second logout at the same time, which repeats the first, is left out.

`DirectorVoice` is one connection: `handler` is what its own task awaits, `produce` and
`speak` hold the two tasks of each turn, `queue` the chunks between them, `heard` what
the client was sent. A cancelled task runs no further line that matters, so cancelling
is one step, with one exception: a task that waits for the speaking task passes the
cancellation on, the speaking task swallows it and returns, and the first goes on
(`Outlives`). `answering` is history. Heartbeats, latency traces, audio, briefings read
aloud and the shutdown of the server are left out.

`DirectorSpeech` is the lane of the transcription: requests on the event loop, and the
one thread. `future` is what became of a request's job, `cleanup` which recordings a
job's end removes. Writing a recording may fail (`WriteFails`) and so may each removal
(`Removes`); `failures` is history. The quality assessment of a transcript is left out.

`ExecutiveEvents` numbers the events; `_event_buffer` is the bounded buffer, `streams`
holds each request's queue and what it was sent, with `since` (the event it is to begin
after) and `cut` (its replay found no room for all) as history. Heartbeats and events
that cannot be projected are left out.

### Requests to models and the agent

`InferenceRouting` is `route_skill_execution` under two callers: the chat endpoint,
which passes every piece on, and `RouterLLMProvider.generate_json`, which collects
the pieces, extracts an object and tries once more. The router's loop is one step
from one await to the next (`Evaluate` skips providers in a cooldown without
awaiting). A provider opens a stream, yields pieces and ends or breaks
(`StreamYields`, `StreamEnds`, `StreamBreaks`); Groq and Cerebras try a second model
of their own after some failures. A piece of text is the provider, the model and a
number, so that text glued together from several is seen. Failures are told apart
as far as the code does. The provider plug-ins' HTTP payloads, the time a cooldown
lasts (it may end at any time), budgets and the metrics are left out.

`AgentLoop` extends it: each structured request is the loop of one agent, whose
call of the model is a step of the router. `_robust_llm_call` is the loop's retry
over `generate_json`, four calls for one reply. An observation is what the loop can
make of it. What the model says is any choice among the forms the loop tells apart:
an action, an answer, neither.

## 3. Runs

All runs disable deadlock checking: a mission or an execution that has ended, or
waits for somebody who never comes, really stops.

| run | instance | checks |
|---|---|---|
| `MissionClient` | client acquisition, 1 planned milestone and 1 outreach replan, 2 attempts, live, mock, user-given and unqualified evidence, 2 commands, 1 fault | `SingleLiveWork`, `ValidatorClean`, `ApprovedWork`, `CompletionIsFinal` |
| `MissionLiveness` | client acquisition, a strategy repeated twice, no commands, no faults, `FairSpec` | `MissionSettles` |
| `MissionLegacy` | qualified-lead canary, new or legacy states, live, mock, user-given and unqualified evidence, 1 command, `LegacySpec` | `FinishedPlanCounts`, `QuarantineHappens` |
| `ApprovalGate` | client acquisition, 1 planned and 1 outreach milestone, 2 attempts, 2 commands, 1 crash or failed save, 2 protected calls | `DecisionsAgree`, `KeepsPromise`, `RefinesMission` |
| `FinanceLedger` | 2 missions, 1 financial call at a time, half cents (0, 1, 2, 6), 7 ledger entries, 1 payment, 1 failed read or save | `BooksBalance`, `AuditTrail`, `PaymentsBooked`, `KeepsBudgetPromise` |
| `ServerHost` | registry: 2 threads of one process and 1 of another, 3 updates, Windows; directory: 2 files, 2 texts, 2 reconciles, 1 command, 1 edit; previews: 2 starts, 1 inspection, 1 stop, limit 1; failures and restarts without a bound | `SectionsSeeOnlySaved`, `LocalChangesWhole`, `PreviewsAccounted`, `KeepsRegistryPromise` |
| `CompanyObjective` | 2 missions, 2 pieces of evidence, 2 needed, limits of 1 to 3, one undelivered event at a time, failures and restarts without a bound | `CreditIsDecided`, `ProposalsAreValid`, `KeepsEvaluationPromise` |
| `WorkspaceStorage` | 2 executions, 2 paths, 2 contents, 3 trees, one execution that may outlive the cleanup's age, failures without a bound | `ManifestBacked`, `NoStrays`, `ReportsTruth`, `ManifestMatchesDigest`, `KeepsHistory` |
| `EngineeringExecution` | 3 executions of an install, a delete and a read, a chat of 2 iterations, failures without a bound | `SuccessIsComplete`, `ChangesReported`, `EventsTell`, `EvidenceIsReal`, `KeepsToolPromise` |
| `InferenceRouting` | a chat and a structured call over Ollama and Groq with two models, answers of 2 pieces, the object both of them | `ParsedIsWhole`, `KeepsFailoverPromise` |
| `AgentLoop` | 3 iterations, 5 actions, 1 retry of a tool, Cerebras with two models, answers of 1 piece, `FairAgents` | `AnswersRestOnEvidence`, `GoalsEnd` |
| `DirectorDesk` | sessions: 2 connections, 2 tickets, 1 session; voice: 2 turns, 2 pieces of text of at most 1 chunk each and a tail, a queue of 1; 3 recordings; events: 2 streams, 5 events, a buffer of 4, queues of 2; `DeskFairness` | `RecordingsKept`, `StreamsAreWhole`, `KeepsTicketPromise`, `KeepsConversationPromise`, `TurnsEnd` |

The type invariants of `MissionEngine`, `ApprovalGate`, `FinanceLedger`,
`MissionRegistry`, `DirectorSessions` and `DirectorVoice` are proved (section 4); those
of the other modules are also the first conjunct of a property of their run.

Bounds. Interference needs one request in flight, one retry and one command
between two sections; two attempts, two milestones of which one needs an
approval, two commands and one fault let every pair of handlers meet, in every
order. The limits of the real configuration (`MAX_PLAN_LOOPS` 5,
`MAX_EXECUTION_RETRIES` 3, ...) are constants; the runs lower the number of
repeated strategies to bound the plan. The theorems hold for all of them.
`ARTIFACT_PRODUCTION` missions have one milestone in the code, client
acquisition missions four; the runs use one or two and the theorems any number.
For the ledger, seven entries are a budget, an allocation and five more: two
reservations with their ends, a reservation, its conversion, a partial spend and
a second allocation, or a booked payment among them, and enough for a
commitment to be spent twice if nothing forbade it. `MaxEntries` bounds
everything stored, `MaxPayments` the calls that pay.
Of the amounts one is larger than another so that partial spends and refusals
happen, and one is lost by rounding. The budget is in USD, so that a missing
currency, taken for GHS by the booking, makes a payment that the gate let
through unbookable. The repository's other operations come between the call's
authorization and its booking as a second call would, and the theorems are for any
number of calls.

For the registry, two threads of one process meet at its lock and the third meets
them at the mutex; three updates are a creation and two changes, or the
creation of two missions and a change that loses one. For the directory, two
reconciles are one that holds the lock and one that waits; a command and an edit are
the two ways in which somebody else writes; of two files one may be replaced and the
other not. For previews, a limit of one makes two starts compete for it. For the
objective, two missions are the two that may credit the same evidence, or end before
and after each other; a limit of two cycles without progress and one change of
strategy is reached on every path. `PlannedVersions` says at which version the
strategy cycle gets its plan: late enough for an evaluation to come before. For the
workspace, a conflict needs two executions, and one path that changes while another
is added shows manifests that keep and replace rows. For executions, three are a
request that waits, its approval, and a second answer to it, or two calls of a chat
and a client's; `TwoAtOnce` keeps three unrelated ones from running at once, which
share nothing but the workspace's files. For routing, the sticking points are the
second model of one provider, a provider after it, and a JSON object of two pieces
(`Opening` is the first), so that the first half of one answer and the second of
another can stand in one text and be taken together; Ollama is the one provider that turns failures into
text and the one without a timeout. For the agent, three iterations are an incomplete
read, what follows it, and a repetition. At the desk, two connections compete for a
ticket, of two tickets one is issued while the session is being ended; two turns are
one and the one that cuts it off, and a queue of one chunk is full while a second
waits; three recordings are one that is read, one that waits and one that comes late;
of two streams one is slow or comes back, a buffer of four forgets the first of five
events, and a queue of two is overrun by a replay.

Missions, calls, evidence, executions, commands and requests are interchangeable where
a run takes them up to symmetry; no liveness is checked in these runs.

What the properties say.

* `SingleLiveWork`: never two pieces of executable work, however dispatchers,
  workers, retries, resumes and late bootstraps interleave. It rests on
  `_bootstrap_mission` looking for busy requests and delegations, on
  materializations being stored for good, and on milestones being taken in order.
* `ValidatorClean`: `MissionInvariantValidator` finds nothing against a mission
  the engine itself brought to ACTIVE, PAUSED or COMPLETED. So the quarantine
  never stops a healthy mission, and COMPLETED means achieved and counted.
* `ApprovedWork`: live work belongs to a materialization that is
  EXECUTION_READY, also when a revocation falls between a claim and its delegation.
* `CompletionIsFinal`: only a pause or resume command takes a mission out of COMPLETED.
* `FinishedPlanCounts`: a mission that is to produce one artifact and has done its plan
  is complete for `MissionCompletionGuard`. The guard judges the artifact a second time,
  by rules written apart from those that close a delegation (654-706 and 1725-1775), so
  a mission never finishes its milestones on evidence the guard ignores. Missions for
  clients are counted by outcomes instead (708-717) and are not what it speaks of.
* `MissionSettles`: without commands and faults an ACTIVE mission ends,
  escalates or comes to wait for an approval.
* `QuarantineHappens`: a stored mission that is unsafe is taken out of execution.
* `DecisionsAgree`: what a record says and what its materialization says never
  contradict each other, at every point between the two writes and after a
  crash there; a record speaks for one materialization, and asked or decided
  outreach has exactly one record.
* `KeepsPromise`: the composition refines `ApprovalPromise`. The work waiting,
  granted, refused and withdrawn is that of the records with these statuses, and
  a record without a mission maps to nothing. No work is decided twice, and
  nothing is performed whose grant is not there at that moment, also when the
  approval is revoked while a worker runs or retries.
* `RefinesMission`: the mission behind the gate is one of `MissionEngine`, so
  nothing that is checked or proved there is lost by the composition.

* `BooksBalance`: the balances, which five operations move separately in two
  records, are always the sums of active reservations, unspent commitments and
  spends, per mission and over the objective.
* `AuditTrail`: the ledger's entries alone tell what became of every
  reservation, commitment and spend.
* `PaymentsBooked`: direct commitments and the payments the executor booked
  correspond one to one, also when a save failed in between.
* `KeepsBudgetPromise`: the ledger refines `BudgetPromise`. What a mission holds
  (reserved and committed) and has spent stays within what was allocated, and
  spent money stays spent. `BeginAgain`, where an
  unreadable file is replaced, is the only step that forgets.

* `SectionsSeeOnlySaved`: a section starts from what the file holds, not from what an
  earlier section of its process changed in memory and did not save, nor from what
  another process has replaced; and what it is to save is the mission as it is in the
  file with its own update. Memory itself may hold a change that was never saved, until
  the next section loads the file.
* `KeepsRegistryPromise`: the registry refines `RegistryPromise`. An update is
  taken as a whole or refused, and stays; other missions are lost only to an
  update that found the file unreadable.
* `LocalChangesWhole`: when a reconcile is about to release the directory, all of its
  changes are in it or none, but for names others wrote meanwhile or whose backup could
  not be put back.
* `PreviewsAccounted`: unless the server is killed, it knows every preview that lives,
  they are never more than allowed, and no row calls one of them ended.

* `CreditIsDecided`: the objective is credited with exactly what the decisions
  applied to it credited, nothing twice, and what it counts as verified is that
  and at most what the strategy cycle saw.
* `ProposalsAreValid`: no handler is ever about to write an objective the schema
  rejects, which would leave its decision or evaluation behind.
* `KeepsEvaluationPromise`: one decision and one update per terminal mission; a
  decision is withdrawn only if its update was not made.

* `ManifestBacked`: what the manifest names is in the bucket, whatever fails. The
  exceptions are stated: an execution that gave up on a commit it had sent and cleaned
  up, and one that outlived the age the cleanup waits for.
* `NoStrays`: what is in the bucket is the manifest's, or has a row by which the cleanup
  finds it, or was a file of an earlier version that a later one replaced or deleted
  (`Superseded`). Nothing in the code removes these last; that nothing else is left
  behind is what the property says, with the exceptions of an upload that arrives after
  its time and of a call that outlived the cleanup's age.
* `ReportsTruth`: success means that the version after the captured one is the
  execution's, failure (when it is sure) that nothing of it is in the manifest.
* `ManifestMatchesDigest`: the rows of the manifest have the digest stored with
  the revision, also when a capture read them torn.
* `KeepsHistory`: the storage refines `VersionedFiles`. Each version was made from
  the one before it by somebody who had read that one.

* `SuccessIsComplete`: a row says SUCCEEDED only when the changes are the
  workspace's and the sandbox is gone.
* `ChangesReported`: changed files are on the row, or its status admits that the
  end is not known.
* `EventsTell`: start, changes and one end that agrees with the row, in this order.
* `EvidenceIsReal`: what a completed chat cites are executions of its own whose rows say
  SUCCEEDED, and it cites one at least when it claims to have succeeded.
* `KeepsToolPromise`: the executions refine `ToolPromise`. What needs approval
  acts only with one, each approval starts one execution of what was asked for,
  nothing waits for approval after it acted, and nothing happens after a success.

* `ParsedIsWhole`: an object that `generate_json` returns is one model's from the
  first piece to the last, although the text it is cut from may hold what several
  streams left. The exception is stated: a provider that passes over malformed lines
  left a piece out of the stream the object ends with.
* `KeepsFailoverPromise`: the router refines `FailoverPromise`. A request fails
  only when each provider that could serve it gave a reason, in each round.
* `AnswersRestOnEvidence`: what the loop answers of its own accord rests on
  something that was read, and incomplete reads were followed up, unless it ended
  on a repeated one.
* `GoalsEnd`: a goal that was taken up ends, unless Ollama holds it.

* `KeepsTicketPromise`: sessions, tickets and connections refine `TicketPromise`. A
  ticket opens one connection at most, and only one whose consumption was let in before
  the logout of its session was committed, whoever presents it where and when.
* `KeepsConversationPromise`: the connection refines `ConversationPromise`. Whenever the
  listener cuts in, whatever fails and however far words and speech are apart, no word
  and no chunk of an abandoned turn is sent any more, chunks are spoken in order, and the
  closing list names what was spoken, but for the one chunk he cut in on.
* `TurnsEnd`: a turn that was begun ends, although its task waits for room in a queue
  that a task which failed no longer empties.
* `RecordingsKept`: a recording is there for as long as the thread reads it, unless its
  request was cancelled, and while it is there somebody is to remove it, unless writing
  it or a removal failed.
* `StreamsAreWhole`: what a stream was and is to be sent are the events from its
  beginning on, in order and without a gap, however slow it is and whenever it came, but
  for one gap after a replay that found no room.

Fairness. `FairSpec` asks weak fairness of the bootstrap calls, of the end of
the canary chain, of the dispatcher and of the worker: the poll loop runs for
ever, catches every exception and sleeps five seconds (`autonomous_worker.py`
58-69), and a started coroutine is resumed. A specialist is assumed to return,
which its execution limits see to. Nobody is assumed to pause, resume, approve,
report an outcome or crash. `LegacySpec` is fair to the dispatcher's pass only.
`FairAgents` is weakly fair to the loop and its tools, which the executor gives a
timeout, and to requests that wait for a provider other than Ollama, whose calls all
have timeouts (each provider's client sets one; `ollama_provider.py` 191 sets
`timeout=None`). `DeskFairness` is weakly fair to each task of a voice connection: what
was started is resumed, the stream of words and the gateway answer, and that a client
has left is noticed. Nobody has to speak, to interrupt or to leave.

### Where code and documentation disagree

Met while modelling. Each is what the modelled action does; the properties
above are what holds beside it.

Missions and approvals:

* Cancelling sets the status and leaves READY requests and active delegations
  (`owner_control_service.py` 201), although the audit lists "Terminal missions
  have no executable work" (`mission_engine.py` 1411). The quarantine skips
  missions that are not ACTIVE, so the work stays.
* Work that completes while the mission is paused is followed by a bootstrap that
  returns; the owner's resume sets ACTIVE and `auto_continue_status` RUNNING and
  bootstraps nothing (191). The mission rests with milestones to do and no work,
  although the reconciler's purpose is to "Keep auto-continue state aligned with
  actually runnable correlated work" (`mission_engine.py` 939).
* `consume_approval` resolves an APPROVED record to CONSUMED, "Safely transition
  state preventing replay" (`authorization.py` 196), but `resolve_approval` accepts
  PENDING records only (`approval_repository.py` 192). The consumption always
  fails, the executor reports CRITICAL_UNCERTAINTY for an operation that succeeded,
  and the next call is authorized on the same approval. The test
  `test_successful_execution_consumes_approval` replaces `resolve_approval` by a mock.
* The owner's decision resolves the record and does not tell the engine, although
  the decision service "safely releases/blocks exact Mission Control Plane execution
  flows" (`approval_service.py` 6). The work stays APPROVAL_REQUIRED, and the
  Director's approval, which would release it, is refused as already resolved.
* A structural canary accepts evidence of unknown source, which closes its milestone and
  is not counted (`mission_engine.py` 674): it is done and never complete. A mission for
  several artifacts has one milestone, which the first artifact closes (229-285, 1702),
  so `FinishedPlanCounts` is about missions for one.
* `mission_outcome_reaction` names no evidence source, so what it records never
  counts for production success. `MissionStallDetector` is never called, so a
  delegation whose worker crashed stays Running for ever.

Finance:

* An objective's available amount subtracts what missions use besides what they
  were allocated (`schemas/finance.py` 65). With 100 allocated of 100, reserving 1
  makes it negative; the stored amount is set to 0, and the finance engine reports
  "CRITICAL: Ledger double-entry invariants failed validation." (`finance_engine.py`
  102) although the books balance. The gate refuses every financial tool of such an
  objective, and also of one that is just fully allocated, as exhausted.
* The gate's check precedes the awaited tool and the booking follows it, so two
  calls at once pay more than the mission was allocated. The test
  `test_cross_mission_isolation` ("Mission A trying to spend 500 while allocated only
  100") tries one call. The books stay right: the second booking is refused and the
  executor reports CRITICAL_UNCERTAINTY.
* `_read_from_disk` answers an empty state for a finance file it cannot read, so
  `create_objective_budget` accepts a budget that exists and replaces the whole
  ledger (`CreateOverUnreadable`). The mission registry does the same (`blind`).

Objectives:

* The strategy cycle counts a success for a completed mission without asking for
  evidence (`executive_strategy_service.py` 202), beside the coordinator, which
  credits evidence.
* Pausing and resuming an objective that was WAITING_APPROVAL makes it ACTIVE
  (`owner_control_service.py` 142); a forced save keeps the version (58), so a writer
  that read before it is not refused.
* When the process stops between the decision's file and the objective's, the
  decision stands and every repeated event returns it: its credit is never given.

Workspaces and executions:

* A cancellation while the commit is outstanding runs the cleanup at once
  (`supabase_workspace_storage.py` 411) and deletes objects a committed manifest may
  use, although the comment on a lost answer asks to "Re-read the authoritative
  revision before deciding whether uploaded objects are safe to remove" (395-397).
  A commit that lands after the re-reading is lost the same way. Both are the
  exception `Unsettled` of `ManifestBacked`.
* Concurrency is bounded by the semaphore of a runner, and each service makes a
  runner of its own, each request a service (`engineering_execution_service.py` 791):
  between requests nothing is bounded, although "Command concurrency [...] limits
  are enforced per API worker" (`docs/engineering-workspace.md` 45). The endpoint
  that cancels makes a runner of its own as well, which knows no session.
* An exception or a second cancellation after the command leaves the row RUNNING;
  nothing looks for such rows after a restart.
* The object of a file that a later version replaced or deleted keeps its row COMMITTED,
  and the cleanup looks for PENDING and CLEANUP_FAILED ones: it stays in the bucket for
  good (`Superseded`).
* `delete_file` answers `"recoverable": True` (`engineering_workspace_service.py` 409),
  but over the Supabase storage the trash is part of a temporary directory that is
  discarded when the execution ends.

Local directories and previews:

* When the server stops half-way through a reconcile, the directory is left a mixture
  of both trees, with its backups beside it that nobody reads.
* A local command that is stopped is killed without its own children, and the request
  waits for their output without a limit; the Docker runner's timeout kills the docker
  client and not the container; a cancelled request leaves its local command running.
  A child that a local command leaves behind without its pipes is not waited for
  (`engineering_execution_service.py` 475-492) and may write after the end was reported.
* `shutdown_active` leaves rows as they are, because "the next inspection can reconcile
  an interrupted process" (`engineering_process_service.py` 162-164). An inspection looks
  for the process among those the server knows, which after a restart are none, and
  changes nothing.
* An inspection or start that read a row before a stop may write READY or FAILED over
  STOPPED; a port that answers is not asked whose it is; a start that is cancelled
  leaves its process, which the server knows and no answer names.

Models and agents:

* A stream that breaks is followed by the next provider's text in the same answer,
  and the chat then sends `message.completed` with `"incomplete": False`
  (`endpoints.py` 996), where "a failed provider stream stores an incomplete message"
  (`docs/engineering-staging.md` 123). `ParsedIsWhole` says that structured calls
  notice.
* Nobody looks at why a stream ended, so one that stops early is a complete answer for
  the router and the chat. Ollama, Groq and Cerebras pass over a line that is no JSON
  (`groq_provider.py` 609-612, `ollama_provider.py` 206-211, `cerebras_provider.py` 376);
  a structured call may then return an object with a gap, or one that a stream began and
  the next one closed.
* Ollama's errors are yielded as text (`ollama_provider.py` 215) and end as answers.
* The loop blocks the repetition of a read as "already completed" although the first
  one failed, because the executor reports failures as results
  (`execution_loop.py` 147, 182); a reply cut at 12000 characters does not parse any
  more and counts as complete (548); and when no model answers, the goal is
  "completed" with the loop's own "Execution halted" (539-545).

The Director's desk:

* "Barge-in cancellation: cleanly halts active LLM and TTS tasks."
  (`director_realtime_voice_service.py` 136). A turn that waits for its speech to end is
  only told that the speech ended, since the speaking task swallows its cancellation
  (367-369); the interruption keeps the turn current and sets LISTENING (197-199), so the
  turn still sends its completion and its final text.
* A logout ends the session and its tickets, and no connection that is open.
* The greeting is sent before the try block (157-162); when that fails the session stays
  in the table for good.
* "Delete a timed-out request file only after native inference releases it."
  (`whisper_stt_provider.py` 309) is so for timeouts; a request that is cancelled removes
  the file while the thread reads it. A recording whose writing fails has no `temp_path`
  yet (`director_speech_service.py` 120-128), so its file stays; a removal that fails is
  logged and never tried again (236-242, `whisper_stt_provider.py` 316-322).
* A buffer is to "retain the last N events for SSE client reconnection/replay"
  (`executive_event_service.py` 14), 200 of them; the queue of a stream takes 100, and what
  a replay has beyond is dropped without a sign. A client whose last id has left the
  buffer gets no replay and goes on with the next event, without a sign of the gap either
  (97-106). A slow stream is removed among the "dead
  connections" (86) and goes on with heartbeats only. The id to resume from is a query
  parameter (`director_desktop.py` 139), and not the header that a browser sends by itself.

## 4. Proofs

TLAPS proves, for every value of the constants that satisfies the assumptions, every
safety invariant, every action property and every refinement the runs check, and the
type invariants beneath them. Eight modules hold the theorems.

| module | theorem | statement |
|---|---|---|
| `MissionEngineProofs` | `TypeCorrect`, `Invariant` | `Spec => []TypeOK`, `Spec => []IInv` |
| | `SingleLiveWorkHolds`, `ValidatorCleanHolds`, `ApprovedWorkHolds`, `FinishedPlanCountsHolds`, `CompletionIsFinalHolds` | `Spec` implies the property of that name |
| | `GateRefinesMission` | `GateSpec => RefinesMission`, that is `Spec` |
| | `GateTypeHolds`, `DecisionsAgreeHolds`, `GateKeepsPromise` | `GateSpec => []GateTypeOK`, `[]DecisionsAgree`, `KeepsPromise` |
| `FinanceLedgerProofs` | `FinanceTypeHolds`, `EndsOnceHolds`, `PaymentsBookedHolds` | `FinanceSpec => []FinanceTypeOK`, `[]EndsOnce`, `[]PaymentsBooked` |
| | `BooksAlwaysBalance`, `AuditTrailHolds`, `BudgetPromiseKept` | `FinanceSpec => []BooksBalance`, `AuditTrail`, `KeepsBudgetPromise` |
| `ServerHostProofs` | `RegistryTyped`, `SectionsAlwaysSeeOnlySaved`, `RegistryKeepsPromise` | `RegistrySpec => []RegistryTypeOK`, `[]SectionsSeeOnlySaved`, `KeepsRegistryPromise` |
| | `LocalChangesAlwaysWhole`, `AlwaysAccounted` | `LocalSpec => []LocalChangesWhole`, `PreviewsSpec => []PreviewsAccounted` |
| | `HostImplementsParts` | `HostSpec` implies the three specifications above |
| `CompanyObjectiveProofs` | `AlwaysProposesValid`, `AlwaysCredited`, `AlwaysEnded` | `ObjectiveSpec => []ProposalsAreValid`, `[]CreditIsDecided`, `[]EndsStand` |
| | `AlwaysKeepsEvaluationPromise` | `ObjectiveSpec => KeepsEvaluationPromise` |
| `WorkspaceStorageProofs` | `AlwaysMatchesDigest`, `AlwaysReportsTruth`, `AlwaysBacked`, `AlwaysKnown` | `StorageSpec => []ManifestMatchesDigest`, `[]ReportsTruth`, `[]ManifestBacked`, `[]NoStrays` |
| | `AlwaysKeepsHistory` | `StorageSpec => KeepsHistory` |
| `EngineeringExecutionProofs` | `ExecutionFollowed` | `ExecutionSpec => []ExecutionIInv` |
| | `AlwaysComplete`, `AlwaysReported`, `AlwaysTold`, `AlwaysEvidence` | `ExecutionSpec => []SuccessIsComplete`, `[]ChangesReported`, `[]EventsTell`, `[]EvidenceIsReal` |
| | `AlwaysKeepsToolPromise` | `ExecutionSpec => KeepsToolPromise` |
| `AgentLoopProofs` | `RequestsAreSound`, `AlwaysWholeObject` | `RoutingSpec => []RoutingIInv`, `[]ParsedIsWhole` |
| | `AlwaysKeepsFailoverPromise` | `RoutingSpec => KeepsFailoverPromise` |
| | `AlwaysRestsOnEvidence` | `AgentSpec => []AnswersRestOnEvidence` |
| `DirectorDeskProofs` | `AlwaysOneConsumer`, `AlwaysKeepsTicketPromise` | `SessionsSpec => []SessionsIInv`, `KeepsTicketPromise` |
| | `VoiceInvariant`, `AlwaysKeepsConversationPromise` | `VoiceSpec => [](VoiceTypeOK /\ VoiceIInv)`, `KeepsConversationPromise` |
| | `AlwaysKeepsRecordings`, `AlwaysWhole` | `SpeechSpec => []RecordingsKept`, `EventsSpec => []StreamsAreWhole` |
| | `DeskImplementsParts` | `DeskSpec` implies the four specifications above |

### What is assumed

`MissionAssumption` gives types only: any plan size, limits, artifacts, evidence and
finite set of clients, any number of commands and faults. For the ledger, amounts are
any set of naturals, and what stands for "nothing" is not one of the things
(`MoneyAssumption`, `BoundsAssumption`, `NullAssumption`). Most of the others say no
more: `ObjectiveAssumption`, `NoContentAssumption`, `NoFileAssumption`,
`OutlivingAssumption`, `ReturnedAssumption`, `NoneAssumption`, `RequestAssumption`,
`SessionsAssumption`, `SpeechAssumption`, `EventsAssumption`, `VoiceAssumption`,
`PreviewsAssumption`. These say something of the code or of where it runs:

* `Deployment`: several processes share the registry only on Windows, where the mutex
  is one for the machine. On other systems the lock is a dummy, and two processes would
  lose each other's updates.
* `LocalAssumption`: a directory has finitely many names.
* `RoutingAssumption`: a provider is registered once, and tries at most one model
  besides the one it is asked for, as Groq and Cerebras do.
* `AgentAssumption`: `_robust_llm_call` calls the model at most four times for one
  reply (two `generate_json` of two attempts each).

### Along which argument

**Missions.** `TypeOK` is inductive by itself. The safety properties are not: that two
requests are never live follows only when it is known that every request belongs to a
materialized milestone, that attempts at a milestone are numbered in the order of the
requests, that an earlier attempt is FAILED, that every milestone before the current
one is Completed, and that a delegation, its request and its claim move together.
`IInv` (module `MissionInvariant`) states this in four parts: `TypeOK`; `Structure`,
which relates milestones, materializations, requests, delegations and claims;
`Approval`, which adds what a rejected or revoked materialization leaves behind; and
`Standing`, which relates the mission's status to its work and to the replanning
counters. The proof takes the parts in turn and the actions one by one under each.
`ValidatorClean` follows from `IInv` clause by clause of the validator,
`CompletionIsFinal` from a case split on the actions with `Standing`: a COMPLETED
mission has no work left for a worker to report on, except calls that are about to
return. `FinishedPlanCounts` needs, beside `IInv`, that the artifacts in the lineage were
accepted as evidence and that no milestone is done without one (`Accepted`); that what
was accepted is counted compares the two rules case by case (`AcceptedIsCounted`).

**Approvals.** `GateRefinesMission` maps each step to a step of the mission or a
stutter; with `Invariant` it gives `IInv` in every state of the composition.
`EveryStep` then says that a step does one of five things to materializations and
records: nothing, growth of the plan, a new request for approval, an orphan record, a
verdict. `DecisionsAgree` is inductive under these five with `GateTypeOK`, and so is
the refinement of `ApprovalPromise`: a new request is `Ask`, because agreement leaves
no earlier record for a milestone without a materialization; a verdict is `Grant`,
`Refuse` or `Withdraw`, because a materialization has one record; and a tool that
starts is `Perform`.

**Finance.** `FinanceTypeOK` is inductive by itself: `Post` moves natural amounts and
the validators refuse what would overdraw, but only the references between the lists
(`Referenced`) make the fields of a converted reservation or a spent commitment
meaningful. `EndsOnce` and `PaymentsBooked` are inductive with it, one step per
operation. `AuditTrail` is an action property: with the types it is enough that an
operation appends to each list and changes no entry but the one it ends. `BooksBalance`
compares the columns of an allocation with sums over lists. The library has no lemma
about such sums, so the module proves its own, by induction over the natural numbers
for finite sets: a sum does not depend on the order (what is taken out first), is
unchanged where its addends are, and moves by what one addend moves (`SumMoves`,
`TotalMoves`). Every action then moves one addend, or two in one column that cancel.
`BudgetPromiseKept` maps an allocation to `Fund`, a reservation or a half booked
payment to `SetAside`, a release to `GiveBack`, a spend or a booked payment to `Spend`,
the loss of the file to `BeginAgain`, and a conversion and the calls to a stutter; that
what is held and spent stays within what was funded is `Solvent`, a part of
`FinanceTypeOK`.

**The registry.** `RegistryIInv` says who is past which lock (`Owned`), what a section
has in its hands (`InHand`), what the temporary file holds and of whom (`Staged`), that
the file is the last durable state (`FileIsDurable`) and where an update stands
(`Progressing`). Of memory it says something only within a section, after the loading:
before it, memory may hold what a section left that raised. Two sections are never past both locks: within
a process by the lock, across processes by the mutex that `Deployment` gives them. Then
the replacement of the file is the one step that is an `Update` of the promise.

**The directory and the previews.** `LocalIInv` says of a reconcile that holds the lock
that the directory is its own but for the names in `disturbed`: what is still to be done
is as before, what is done is as it was returned, and what was backed up can be put
back. What is in neither list is as it should be, which needs that the sequence made of
a finite set holds all of it. `PreviewsIInv` follows a process from the row of its
request to its end (`Begun`), says which of them the manager's table lists (`Listed`),
what an inspection or a stop read still says (`Asks`), and that the one who holds the
lock has room for what it starts (`Room`).

**Objectives.** `ObjectiveIInv` is `ProposalsAreValid`, that counts are those of the
evidence (`CountsHold`), that a mission has one decision (`OneDecision`), what an
evaluation under way read and wrote (`InHand`), that credited evidence is decided
(`Credited`), and that an end stands (`EndsStand`). `CreditIsDecided` follows, and each
write of an evaluation is a step of the promise or a stutter.

**Workspaces.** `StorageIInv` relates the stages of a call to the manifest: a call sends
rows made from a version that was current when it read it, and only the database, under
the row's lock, finds whether it still is. `ManifestBacked` and `NoStrays` need
`FilesIInv` besides: a call commits to the files it saw or uploaded, or to none; what a
commit that may still come refers to is in the bucket; only a call that is over, or one
that may outlive the cleanup's age, has rows old enough for the cleanup; and what the
cleanup read is in no manifest. `NoStrays` needs `RowsInHistory` as well: an object whose
row is committed was in the version its execution made, at a path where the manifest has
it still or a later version has something else. Only a switch of the manifest makes a
row committed, and a version, once made, stays.

**Executions.** `Followed(e)` says of one execution what its row, its events, its files
and its caller know of each other at every await (`Kept`, `Told`, `Permitted`, `InHand`,
`OnRow`), `ChatKnows` what the chat has seen of the executions it started. Each of the
properties follows from one of them; the proof takes the steps in groups that do the
same to a call (`Effect`).

**Requests and agents.** `Sound(r)` says of a request that the providers it has still to
try are those that gave no reason (`Queued`), that a piece whose stream left none out
comes right after the earlier ones, and only lenient providers leave any out (`Traced`),
and that no stream was opened twice for one text, which ends with what the open one gave
(`Fresh`). An object that `loads` accepts has growing piece numbers, so its last piece
has its whole stream right before it. That the eligible providers have a sorted sequence at all is proved first. `AgentIInv` adds to it
that what a loop takes for evidence was observed in that goal (`Grounded`).

**The desk.** `SessionsIInv` is the lock of a ticket's row: one connection at most is
past the first check, and the ticket is unused until it commits. `VoiceIInv` says of the
session that turns are begun in order and only the current one has tasks that can be
cancelled (`Session`), and of a turn: who can be cancelled and who outlived it
(`Cancellable`), that what was begun never begins again (`Untouched`), when its list is
closed (`Closing`), how far what the speaking task remembers is behind what was spoken
(`Said`), that chunks are put, taken and spoken by their numbers (`Ordered`), and how
many there may be (`Counted`). The one task that goes on after a cancellation is of a
turn that was cut off or left behind, so it completes the turn with one chunk missing or
not at all. A message that can be sent in a turn's name is sent in the turn begun last
(`OpenIsLatest`): that makes every message a step of `ConversationPromise`.
`SpeechIInv` says that the thread's job is the one in the lane and whose file a job
removes; `EventsIInv` that the buffer is consecutive and bounded and what a stream has
been given, and has still to get, has no gap.

### Only model-checked

`MissionSettles`, `QuarantineHappens`, `GoalsEnd` and `TurnsEnd` say that something
happens under fairness; liveness and `ENABLED` are beyond the prover. They hold on the
instances of section 3. Everything else the runs check is proved.

## 5. Plan

The modules follow the order of what the system promises: the mission, its approvals
and its money; the registry, the objectives and the executions; the agents and the
desk. What would add most from here:

1. The audit of `MissionEngine` and the resolver of its evidence, as readers of a
   mission that others change while they read.
2. `AbstractMission`: a mission as the owner sees it (planned, working, waiting, ended),
   implemented by `MissionEngine`; `IInv` has what the refinement needs.
3. The hazards without a property: a resume that bootstraps nothing, a claim whose
   worker crashed, and a ledger's file that cannot be read at one moment.

## 6. Not modelled, and why

* Executive read models, the briefing and the strategy's texts
  (`executive_state_service.py`, `executive_briefing_service.py`, the schemas): they
  read the state of other components and format it.
* Provider plug-ins and `ollamafreeapi`: requests and payloads; what the router sees of
  them is in `InferenceRouting`. `ProviderHealth` is never reached.
* Agent definitions, prompts, the planner and the department tools with their artifact
  pipeline: text, and stateless tools around I/O.
* Lead, qualification and business services: scoring of one record at a time.
* Memory, analytics and chat repositories: single statements without a protocol.
* Path checks, archives and limits of size of workspaces, and the readers of files for
  agents: they refuse before anything changes.
* The interpretation of natural-language commands (`director_command_resolver.py`) and the
  classification of requests to the agent's stream: text in, a command out. What a
  command does is modelled where it does it.
* The endpoints other than the ones named in `PROJECT.json`: they parse and answer.

A large part of `src/app` is of these kinds (schemas, prompts, payloads, formatting),
which is why the modules stand for less than a third of its lines, although most of what
is concurrent or can fail halfway is among them.
