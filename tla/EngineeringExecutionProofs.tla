--------------------- MODULE EngineeringExecutionProofs ---------------------
(***************************************************************************)
(* What EngineeringExecution promises, for any executions, requests and    *)
(* bounds.  The invariant follows an execution step by step: what its call *)
(* has in hand, what its row says and what its events tell agree with what *)
(* became of the files and of the sandbox.                                 *)
(***************************************************************************)
EXTENDS EngineeringExecution, TLAPS

\* Steps at which nothing was sent to the storage yet.
Untouched == {"none", "insert", "announce", "enter", "capture", "slot", "handler",
              "reconcile", "create", "upload", "command", "download", "synchronize"}

\* Steps at which no sandbox was asked for, or it is being asked for.
Boxless == {"none", "insert", "announce", "enter", "capture", "slot", "handler",
            "reconcile", "create"}

\* Steps inside the try statement, whose row says RUNNING.
Trying == {"enter", "capture", "slot", "handler", "reconcile", "forward", "finish"}
              \cup InBox

Touched(e) == e \in committed \cup adrift

\* The row and the events of a call, step by step.
Kept(e) ==
    /\ calls[e].step \in {"none", "insert"} => executions[e] = NoRow /\ events[e] = <<>>
    /\ calls[e].step = "announce" => executions[e].status = "RUNNING" /\ events[e] = <<>>
    /\ calls[e].step \in Trying =>
          executions[e].status = "RUNNING" /\ events[e] = <<"tool.started">>
    /\ executions[e].status = "RUNNING" => ~executions[e].changed
    /\ calls[e].step \in {"report", "conclude", "ended"} =>
          /\ executions[e].status = calls[e].status
          /\ executions[e].changed = calls[e].changed
    /\ calls[e].step = "report" => calls[e].changed /\ events[e] = <<"tool.started">>
    /\ calls[e].step = "conclude" =>
          events[e] = IF calls[e].changed THEN <<"tool.started", "file.changed">>
                      ELSE <<"tool.started">>
    /\ executions[e].status # "NONE" => executions[e].request = calls[e].request

EndOf(e) == IF executions[e].status = "SUCCEEDED" THEN "tool.completed" ELSE "tool.failed"

\* The events an execution may have, given its row.
Told(e) ==
    \/ events[e] = <<>> \/ events[e] = <<"tool.started">>
    \/ executions[e].changed /\ events[e] = <<"tool.started", "file.changed">>
    \/ ~executions[e].changed /\ Ended(e) /\ events[e] = <<"tool.started", EndOf(e)>>
    \/ /\ executions[e].changed /\ Ended(e)
       /\ events[e] = <<"tool.started", "file.changed", EndOf(e)>>

\* Who asked for a call, and that what acts was permitted.
Permitted(e) ==
    /\ calls[e].granted <=> calls[e].source # None
    /\ calls[e].step = "none" =>
          calls[e].source = None /\ ~calls[e].ran /\ ~calls[e].chats
    /\ calls[e].step # "none" => calls[e].request \in Requests
    /\ calls[e].step = "capture" /\ calls[e].request.tool \in Commands =>
          Decision(e) = "permitted"
    /\ calls[e].step = "handler" => calls[e].request.tool \notin Commands
    /\ calls[e].step \in {"slot", "reconcile"} \cup InBox => Decision(e) = "permitted"
    /\ calls[e].step = "reconcile" => calls[e].request.tool \in _MUTATING_FILE_TOOLS
    /\ Touched(e) => Decision(e) = "permitted"
    /\ calls[e].step \in Boxless \cup {"upload"} => ~calls[e].ran

\* What a status may say of an execution's files.
Reported(e, status, changed) ==
    Touched(e) =>
       \/ changed
       \/ status \in {"SYNC_FAILED", "CANCELLED"}
       \/ status = "FAILED" /\ calls[e].request.tool \in _MUTATING_FILE_TOOLS

Complete(e, changed) ==
    /\ changed <=> e \in committed
    /\ e \notin adrift

\* What the call has in hand agrees with the files and the sandbox.
InHand(e) ==
    /\ calls[e].step \in Untouched => ~Touched(e)
    /\ calls[e].step \in Boxless => e \notin boxes
    /\ calls[e].step = "close" => Complete(e, calls[e].changed)
    /\ calls[e].step = "closing" =>
          calls[e].status \notin {"SUCCEEDED", "APPROVAL_REQUIRED"}
    /\ calls[e].step = "forward" => calls[e].status = "CANCELLED"
    /\ calls[e].step \in {"closing", "finish"} =>
          Reported(e, calls[e].status, calls[e].changed)
    /\ calls[e].step = "finish" /\ calls[e].status = "SUCCEEDED" =>
          Complete(e, calls[e].changed) /\ e \notin boxes
    /\ calls[e].step = "finish" /\ calls[e].status = "APPROVAL_REQUIRED" =>
          ~Touched(e) /\ ~calls[e].ran

\* What the row says agrees with them.
OnRow(e) ==
    /\ executions[e].status = "SUCCEEDED" =>
          Complete(e, executions[e].changed) /\ e \notin boxes
    /\ Ended(e) => Reported(e, executions[e].status, executions[e].changed)
    /\ executions[e].status = "APPROVAL_REQUIRED" => ~Touched(e)

Followed(e) == Kept(e) /\ Told(e) /\ Permitted(e) /\ InHand(e) /\ OnRow(e)

ChatSteps == {"idle", "thinking", "calling", "completed", "failed", "left"}

ChatTypeOK ==
    chat \in [step : ChatSteps, iteration : Nat, pending : Seq(Requests),
              asked : SUBSET Requests, current : Executions \cup {None},
              succeeded : SUBSET Executions, evidence : SUBSET Executions,
              claims : BOOLEAN]

\* What the chat holds for its evidence is so.
ChatKnows ==
    /\ chat.step = "calling" => chat.pending # <<>>
    /\ chat.current # None => calls[chat.current].chats
    /\ \A e \in chat.succeeded :
          calls[e].chats /\ executions[e].status = "SUCCEEDED"
    /\ EvidenceIsReal

TypeHolds ==
    /\ executions \in [Executions -> Row]
    /\ events \in [Executions -> Seq(EventTypes)]
    /\ committed \subseteq Executions /\ adrift \subseteq Executions
    /\ boxes \subseteq Executions
    /\ calls \in [Executions -> Call]

ExecutionIInv ==
    /\ TypeHolds
    /\ ChatTypeOK
    /\ \A e \in Executions : Followed(e)
    /\ ChatKnows

-----------------------------------------------------------------------------
(* What a step does to a call.                                             *)

\* The call of e takes a step, and its request, grant, source and origin stay.
Effect(e, step, status, changed, ran) ==
    /\ calls' \in [Executions -> Call]
    /\ calls'[e].step = step /\ calls'[e].status = status
    /\ calls'[e].changed = changed /\ calls'[e].ran = ran
    /\ calls'[e].request = calls[e].request /\ calls'[e].granted = calls[e].granted
    /\ calls'[e].source = calls[e].source /\ calls'[e].chats = calls[e].chats
    /\ \A x \in Executions \ {e} : calls'[x] = calls[x]

LEMMA CallParts ==
  ASSUME NEW e \in Executions, calls \in [Executions -> Call]
  PROVE  /\ calls[e].step \in Steps /\ calls[e].request \in Requests \cup {None}
         /\ calls[e].granted \in BOOLEAN /\ calls[e].source \in Executions \cup {None}
         /\ calls[e].chats \in BOOLEAN /\ calls[e].status \in Final
         /\ calls[e].changed \in BOOLEAN /\ calls[e].ran \in BOOLEAN
BY DEF Call

LEMMA GotoEffect ==
  ASSUME NEW e \in Executions, calls \in [Executions -> Call], NEW step \in Steps,
         Goto(e, step)
  PROVE  Effect(e, step, calls[e].status, calls[e].changed, calls[e].ran)
<1>1. PICK c \in Call : c = [calls[e] EXCEPT !.step = step]
  BY DEF Call
<1>2. calls' = [calls EXCEPT ![e] = c]
  BY <1>1 DEF Goto
<1>3. /\ c.step = step /\ c.status = calls[e].status
      /\ c.changed = calls[e].changed /\ c.ran = calls[e].ran
      /\ c.request = calls[e].request /\ c.granted = calls[e].granted
      /\ c.source = calls[e].source /\ c.chats = calls[e].chats
  BY <1>1 DEF Call
<1>4. QED
  BY <1>2, <1>3 DEF Effect

\* A call with some of its fields set is a call.
LEMMA SetCall ==
  ASSUME NEW c \in Call, NEW s \in Steps, NEW status \in Final,
         NEW changed \in BOOLEAN, NEW nonzero \in BOOLEAN
  PROVE  /\ [c EXCEPT !.step = s, !.status = status,
                      !.changed = changed, !.nonzero = FALSE] \in Call
         /\ [c EXCEPT !.step = s, !.status = status] \in Call
         /\ [c EXCEPT !.step = s, !.ran = TRUE, !.nonzero = nonzero] \in Call
         /\ [c EXCEPT !.step = s, !.changed = changed] \in Call
<1> DEFINE R == Requests \cup {None}
           S == Executions \cup {None}
<1>1. Call = [step : Steps, request : R, granted : BOOLEAN, source : S, chats : BOOLEAN,
              status : Final, changed : BOOLEAN, nonzero : BOOLEAN, ran : BOOLEAN]
  BY DEF Call
<1> HIDE DEF R, S
<1>2. [c EXCEPT !.step = s, !.status = status,
                !.changed = changed, !.nonzero = FALSE] \in Call
  BY <1>1
<1>3. [c EXCEPT !.step = s, !.status = status] \in Call
  BY <1>1
<1>4. [c EXCEPT !.step = s, !.ran = TRUE, !.nonzero = nonzero] \in Call
  BY <1>1
<1>5. [c EXCEPT !.step = s, !.changed = changed] \in Call
  BY <1>1
<1>6. QED
  BY <1>2, <1>3, <1>4, <1>5

LEMMA SettleEffect ==
  ASSUME NEW e \in Executions, calls \in [Executions -> Call], NEW status \in Final,
         NEW changed \in BOOLEAN, Settle(e, status, changed)
  PROVE  Effect(e, "finish", status, changed, calls[e].ran)
<1>1. PICK c \in Call :
         c = [calls[e] EXCEPT !.step = "finish", !.status = status,
                              !.changed = changed, !.nonzero = FALSE]
  <2>1. "finish" \in Steps /\ calls[e] \in Call
    BY DEF Steps
  <2>2. QED
    BY <2>1, SetCall
<1>2. calls' = [calls EXCEPT ![e] = c]
  BY <1>1 DEF Settle
<1>3. /\ c.step = "finish" /\ c.status = status
      /\ c.changed = changed /\ c.ran = calls[e].ran
      /\ c.request = calls[e].request /\ c.granted = calls[e].granted
      /\ c.source = calls[e].source /\ c.chats = calls[e].chats
  BY <1>1 DEF Call
<1>4. QED
  BY <1>2, <1>3 DEF Effect

LEMMA LeaveEffect ==
  ASSUME NEW e \in Executions, calls \in [Executions -> Call], NEW status \in Final,
         NEW changed \in BOOLEAN, Leave(e, status, changed)
  PROVE  Effect(e, "closing", status, changed, calls[e].ran)
<1>1. PICK c \in Call :
         c = [calls[e] EXCEPT !.step = "closing", !.status = status,
                              !.changed = changed, !.nonzero = FALSE]
  <2>1. "closing" \in Steps /\ calls[e] \in Call
    BY DEF Steps, InBox
  <2>2. QED
    BY <2>1, SetCall
<1>2. calls' = [calls EXCEPT ![e] = c]
  BY <1>1 DEF Leave
<1>3. /\ c.step = "closing" /\ c.status = status
      /\ c.changed = changed /\ c.ran = calls[e].ran
      /\ c.request = calls[e].request /\ c.granted = calls[e].granted
      /\ c.source = calls[e].source /\ c.chats = calls[e].chats
  BY <1>1 DEF Call
<1>4. QED
  BY <1>2, <1>3 DEF Effect

LEMMA ForwardEffect ==
  ASSUME NEW e \in Executions, calls \in [Executions -> Call], Forward(e)
  PROVE  Effect(e, "forward", "CANCELLED", calls[e].changed, calls[e].ran)
<1>1. PICK c \in Call :
         c = [calls[e] EXCEPT !.step = "forward", !.status = "CANCELLED"]
  <2>1. "forward" \in Steps /\ "CANCELLED" \in Final /\ calls[e] \in Call
    BY DEF Steps, Final
  <2>2. [calls[e] EXCEPT !.step = "forward", !.status = "CANCELLED"] \in Call
    BY <2>1, SetCall
  <2>3. QED
    BY <2>2
<1>2. calls' = [calls EXCEPT ![e] = c]
  BY <1>1 DEF Forward
<1>3. /\ c.step = "forward" /\ c.status = "CANCELLED"
      /\ c.changed = calls[e].changed /\ c.ran = calls[e].ran
      /\ c.request = calls[e].request /\ c.granted = calls[e].granted
      /\ c.source = calls[e].source /\ c.chats = calls[e].chats
  BY <1>1 DEF Call
<1>4. QED
  BY <1>2, <1>3 DEF Effect

LEMMA GoneParts ==
  ASSUME NEW c \in Call
  PROVE  /\ Gone(c) \in Call
         /\ Gone(c).step = "aborted" /\ Gone(c).status = "FAILED"
         /\ Gone(c).changed = FALSE /\ Gone(c).ran = c.ran
         /\ Gone(c).request = c.request /\ Gone(c).granted = c.granted
         /\ Gone(c).source = c.source /\ Gone(c).chats = c.chats
BY DEF Gone, Call, Steps, Final

LEMMA AbortEffect ==
  ASSUME NEW e \in Executions, calls \in [Executions -> Call], Abort(e)
  PROVE  Effect(e, "aborted", "FAILED", FALSE, calls[e].ran)
<1>1. PICK c \in Call : c = Gone(calls[e])
  BY GoneParts
<1>2. calls' = [calls EXCEPT ![e] = c]
  BY <1>1 DEF Abort
<1>3. QED
  BY <1>1, <1>2, GoneParts DEF Effect

LEMMA PutEffect ==
  ASSUME NEW e \in Executions, calls \in [Executions -> Call], NEW c \in Call,
         calls' = [calls EXCEPT ![e] = c],
         c.request = calls[e].request, c.granted = calls[e].granted,
         c.source = calls[e].source, c.chats = calls[e].chats
  PROVE  Effect(e, c.step, c.status, c.changed, c.ran)
BY DEF Effect

Closing(call, status, ran) ==
    [call EXCEPT !.step = "closing", !.status = status, !.ran = ran]

LEMMA ClosingParts ==
  ASSUME NEW c \in Call, NEW status \in Final, NEW ran \in BOOLEAN
  PROVE  /\ Closing(c, status, ran) \in Call
         /\ Closing(c, status, ran).step = "closing"
         /\ Closing(c, status, ran).status = status
         /\ Closing(c, status, ran).changed = c.changed
         /\ Closing(c, status, ran).ran = ran
         /\ Closing(c, status, ran).request = c.request
         /\ Closing(c, status, ran).granted = c.granted
         /\ Closing(c, status, ran).source = c.source
         /\ Closing(c, status, ran).chats = c.chats
BY DEF Closing, Call, Steps, InBox

\* A command that ran timed out, or was cancelled.
LEMMA RanEffect ==
  ASSUME NEW e \in Executions, calls \in [Executions -> Call], NEW status \in Final,
         NEW ran \in BOOLEAN,
         calls' = [calls EXCEPT ![e].step = "closing", ![e].status = status,
                                ![e].ran = ran]
  PROVE  Effect(e, "closing", status, calls[e].changed, ran)
<1>1. PICK c \in Call : c = Closing(calls[e], status, ran)
  BY ClosingParts
<1>2. calls' = [calls EXCEPT ![e] = c]
  BY <1>1 DEF Closing
<1>3. calls[e] \in Call
  OBVIOUS
<1>4. /\ c.step = "closing" /\ c.status = status
      /\ c.changed = calls[e].changed /\ c.ran = ran
      /\ c.request = calls[e].request /\ c.granted = calls[e].granted
      /\ c.source = calls[e].source /\ c.chats = calls[e].chats
  BY <1>1, <1>3, ClosingParts
<1>5. Effect(e, c.step, c.status, c.changed, c.ran)
  BY <1>2, <1>4, PutEffect
<1>6. QED
  BY <1>4, <1>5

\* A command that ran to its end.
LEMMA DownloadEffect ==
  ASSUME NEW e \in Executions, calls \in [Executions -> Call], NEW nonzero \in BOOLEAN,
         calls' = [calls EXCEPT ![e].step = "download", ![e].ran = TRUE,
                                ![e].nonzero = nonzero]
  PROVE  Effect(e, "download", calls[e].status, calls[e].changed, TRUE)
<1>1. PICK c \in Call :
         c = [calls[e] EXCEPT !.step = "download", !.ran = TRUE, !.nonzero = nonzero]
  <2>1. "download" \in Steps /\ calls[e] \in Call
    BY DEF Steps, InBox
  <2>2. [calls[e] EXCEPT !.step = "download", !.ran = TRUE, !.nonzero = nonzero] \in Call
    <3>1. PICK status \in Final : status = "FAILED"
      BY DEF Final
    <3>2. \A c \in Call, s \in Steps : [c EXCEPT !.step = s, !.ran = TRUE, !.nonzero = nonzero] \in Call
      BY <3>1, SetCall, Zenon
    <3>3. QED
      BY <2>1, <3>2, Zenon
  <2>3. QED
    BY <2>2
<1>2. calls' = [calls EXCEPT ![e] = c]
  BY <1>1
<1>3. /\ c.step = "download" /\ c.status = calls[e].status
      /\ c.changed = calls[e].changed /\ c.ran = TRUE
      /\ c.request = calls[e].request /\ c.granted = calls[e].granted
      /\ c.source = calls[e].source /\ c.chats = calls[e].chats
  BY <1>1 DEF Call
<1>4. Effect(e, c.step, c.status, c.changed, c.ran)
  BY <1>2, <1>3, PutEffect
<1>5. QED
  BY <1>3, <1>4

\* The sandbox is to be destroyed, and its result returned.
LEMMA CloseEffect ==
  ASSUME NEW e \in Executions, calls \in [Executions -> Call], NEW changed \in BOOLEAN,
         calls' = [calls EXCEPT ![e].step = "close", ![e].changed = changed]
  PROVE  Effect(e, "close", calls[e].status, changed, calls[e].ran)
<1>1. PICK c \in Call :
         c = [calls[e] EXCEPT !.step = "close", !.changed = changed]
  <2>1. "close" \in Steps /\ calls[e] \in Call
    BY DEF Steps, InBox
  <2>2. [calls[e] EXCEPT !.step = "close", !.changed = changed] \in Call
    <3>1. PICK status \in Final : status = "FAILED"
      BY DEF Final
    <3>2. \A c \in Call, s \in Steps : [c EXCEPT !.step = s, !.changed = changed] \in Call
      BY <3>1, SetCall, Zenon
    <3>3. QED
      BY <2>1, <3>2, Zenon
  <2>3. QED
    BY <2>2
<1>2. calls' = [calls EXCEPT ![e] = c]
  BY <1>1
<1>3. /\ c.step = "close" /\ c.status = calls[e].status
      /\ c.changed = changed /\ c.ran = calls[e].ran
      /\ c.request = calls[e].request /\ c.granted = calls[e].granted
      /\ c.source = calls[e].source /\ c.chats = calls[e].chats
  BY <1>1 DEF Call
<1>4. Effect(e, c.step, c.status, c.changed, c.ran)
  BY <1>2, <1>3, PutEffect
<1>5. QED
  BY <1>3, <1>4

-----------------------------------------------------------------------------
(* Executions and the chat that a step leaves alone.                       *)

\* Nothing of x that the invariant speaks of is changed.
StaysPut(x) ==
    /\ calls'[x] = calls[x] /\ executions'[x] = executions[x] /\ events'[x] = events[x]
    /\ x \in committed' <=> x \in committed
    /\ x \in adrift' <=> x \in adrift
    /\ x \in boxes' <=> x \in boxes

LEMMA FollowedStays ==
  ASSUME NEW x \in Executions, Followed(x), StaysPut(x)
  PROVE  Followed(x)'
<1>1. Kept(x)'
  BY DEF Followed, Kept, StaysPut
<1>2. Told(x)'
  BY DEF Followed, Told, StaysPut, Ended, EndOf
<1>3. Permitted(x)'
  BY DEF Followed, Permitted, StaysPut, Touched, Decision
<1>4. InHand(x)'
  BY DEF Followed, InHand, StaysPut, Touched, Complete, Reported
<1>5. OnRow(x)'
  BY DEF Followed, OnRow, StaysPut, Touched, Complete, Reported, Ended
<1>6. QED
  BY <1>1, <1>2, <1>3, <1>4, <1>5 DEF Followed

\* The chat is left alone, and what it knows stays so.
LEMMA ChatStays ==
  ASSUME ChatTypeOK, ChatKnows, UNCHANGED chat,
         \A x \in Executions :
            /\ calls[x].chats => calls'[x].chats
            /\ executions[x].status = "SUCCEEDED" => executions'[x].status = "SUCCEEDED"
  PROVE  ChatTypeOK' /\ ChatKnows'
<1>1. ChatTypeOK'
  BY DEF ChatTypeOK
<1>2. /\ chat.succeeded \subseteq Executions /\ chat.evidence \subseteq Executions
      /\ chat.current \in Executions \cup {None}
  BY DEF ChatTypeOK
<1>3. /\ chat'.step = chat.step /\ chat'.pending = chat.pending
      /\ chat'.current = chat.current /\ chat'.succeeded = chat.succeeded
      /\ chat'.evidence = chat.evidence /\ chat'.claims = chat.claims
  OBVIOUS
<1>4. EvidenceIsReal'
  BY <1>2, <1>3 DEF ChatKnows, EvidenceIsReal
<1>5. QED
  BY <1>1, <1>2, <1>3, <1>4 DEF ChatKnows
-----------------------------------------------------------------------------
(* Steps of one execution.                                                 *)

\* What of a step's successor has to be shown: the execution itself.
LEMMA Carries ==
  ASSUME NEW e \in Executions, ExecutionIInv, TypeHolds', UNCHANGED chat,
         \A x \in Executions \ {e} : StaysPut(x), Followed(e)',
         calls'[e].chats = calls[e].chats,
         executions[e].status = "SUCCEEDED" => executions'[e].status = "SUCCEEDED"
  PROVE  ExecutionIInv'
<1>1. \A x \in Executions : Followed(x)'
  BY FollowedStays DEF ExecutionIInv
<1>2. \A x \in Executions :
         /\ calls[x].chats => calls'[x].chats
         /\ executions[x].status = "SUCCEEDED" => executions'[x].status = "SUCCEEDED"
  BY DEF StaysPut
<1>3. ChatTypeOK' /\ ChatKnows'
  BY <1>2, ChatStays DEF ExecutionIInv
<1>4. QED
  BY <1>1, <1>3 DEF ExecutionIInv

\* A step that changes the call alone.
LEMMA QuietStep ==
  ASSUME NEW e \in Executions, ExecutionIInv, NEW step, NEW status, NEW changed, NEW ran,
         Effect(e, step, status, changed, ran), UNCHANGED <<rows, files, boxes, chat>>,
         Kept(e)', Permitted(e)', InHand(e)'
  PROVE  ExecutionIInv'
<1>1. UNCHANGED <<executions, events, committed, adrift, boxes, chat>>
  BY DEF rows, files
<1>2. TypeHolds'
  BY <1>1 DEF ExecutionIInv, TypeHolds, Effect
<1>3. \A x \in Executions \ {e} : StaysPut(x)
  BY <1>1 DEF StaysPut, Effect
<1>4. Told(e)'
  BY <1>1 DEF ExecutionIInv, Followed, Told, Ended, EndOf
<1>5. OnRow(e)'
  BY <1>1 DEF ExecutionIInv, Followed, OnRow, Ended, Reported, Complete, Touched, Effect
<1>6. Followed(e)'
  BY <1>4, <1>5 DEF Followed
<1>7. QED
  BY <1>1, <1>2, <1>3, <1>6, Carries DEF Effect

\* A step within the try statement, or out of execute by an exception, leaves
\* row and events as they have to be.
LEMMA KeptOn ==
  ASSUME NEW e \in Executions, Kept(e), calls[e].step \in Trying,
         calls'[e].step \in Trying \cup {"aborted"}, calls'[e].request = calls[e].request,
         executions'[e] = executions[e], events'[e] = events[e]
  PROVE  Kept(e)'
BY DEF Kept, Trying, InBox

LEMMA KeptAborted ==
  ASSUME NEW e \in Executions, Kept(e),
         calls'[e].step = "aborted", calls'[e].request = calls[e].request,
         executions'[e] = executions[e]
  PROVE  Kept(e)'
BY DEF Kept, Trying, InBox

LEMMA PermittedAborted ==
  ASSUME NEW e \in Executions, Permitted(e), calls[e].step # "none",
         calls'[e].step = "aborted", calls'[e].request = calls[e].request,
         calls'[e].granted = calls[e].granted, calls'[e].source = calls[e].source,
         Touched(e)' => Touched(e) \/ Decision(e) = "permitted"
  PROVE  Permitted(e)'
BY DEF Permitted, Decision, Boxless, InBox

LEMMA InHandAborted ==
  ASSUME NEW e \in Executions, calls'[e].step = "aborted"
  PROVE  InHand(e)'
BY DEF InHand, Untouched, Boxless

\* The try statement ends for a call that has changed nothing.
LEMMA SettledHand ==
  ASSUME NEW e \in Executions, calls'[e].step = "finish", ~Touched(e)',
         calls'[e].status = "APPROVAL_REQUIRED" => ~calls'[e].ran,
         calls'[e].status = "SUCCEEDED" => ~calls'[e].changed /\ e \notin boxes'
  PROVE  InHand(e)'
BY DEF InHand, Untouched, Boxless, Touched, Complete, Reported

LEMMA EarlyHand ==
  ASSUME NEW e \in Executions, calls'[e].step \in Untouched, ~Touched(e)',
         calls'[e].step \in Boxless => e \notin boxes'
  PROVE  InHand(e)'
BY DEF InHand, Untouched

\* A sandbox that goes, and a call that is aborted, change nothing that was said.
LEMMA StepTyped ==
  ASSUME NEW e \in Executions, ExecutionIInv
  PROVE  /\ calls \in [Executions -> Call] /\ executions \in [Executions -> Row]
         /\ events \in [Executions -> Seq(EventTypes)]
         /\ committed \subseteq Executions /\ adrift \subseteq Executions
         /\ boxes \subseteq Executions
         /\ Followed(e) /\ Kept(e) /\ Told(e) /\ Permitted(e) /\ InHand(e) /\ OnRow(e)
         /\ calls[e].step \in Steps
         /\ calls[e].status \in Final /\ calls[e].changed \in BOOLEAN
         /\ calls[e].ran \in BOOLEAN
BY CallParts DEF ExecutionIInv, TypeHolds, Followed

-----------------------------------------------------------------------------
(* The steps that change the call alone.                                   *)

LEMMA EnterFollows ==
  ASSUME NEW e \in Executions, ExecutionIInv, Enter(e)
  PROVE  ExecutionIInv'
<1>0. /\ calls \in [Executions -> Call] /\ calls[e].step = "enter"
      /\ calls[e].request \in Requests
  BY StepTyped DEF Permitted, Enter, At
<1>1. \/ /\ calls[e].request.tool \notin Commands
         /\ Effect(e, "capture", calls[e].status, calls[e].changed, calls[e].ran)
      \/ /\ Decision(e) = "permitted"
         /\ Effect(e, "slot", calls[e].status, calls[e].changed, calls[e].ran)
      \/ Effect(e, "finish", "APPROVAL_REQUIRED", FALSE, calls[e].ran)
      \/ Effect(e, "finish", "FAILED", FALSE, calls[e].ran)
  <2>1. CASE calls[e].request.tool \notin Commands
    BY <2>1, <1>0, GotoEffect DEF Enter, Steps
  <2>2. CASE calls[e].request.tool \in Commands
    <3>1. Decision(e) \in {"permitted", "approval", "rejected"}
      BY <1>0, RequestAssumption DEF Decision, classify, Tools
    <3>2. \/ Decision(e) = "permitted" /\ Goto(e, "slot")
          \/ Settle(e, "APPROVAL_REQUIRED", FALSE)
          \/ Settle(e, "FAILED", FALSE)
      BY <2>2, <3>1 DEF Enter
    <3>3. QED
      BY <3>2, <1>0, GotoEffect, SettleEffect DEF Steps, Final
  <2>3. QED
    BY <2>1, <2>2
<1>2. /\ UNCHANGED <<rows, files, boxes, chat>>
      /\ UNCHANGED <<executions, events, committed, adrift, boxes, chat>>
      /\ calls[e].step = "enter"
  BY DEF Enter, rows, files, At
<1>3. Kept(e)'
  BY <1>1, <1>2, StepTyped, KeptOn DEF Effect, Trying
<1>4. Permitted(e)'
  BY <1>1, <1>2, StepTyped DEF Effect, Permitted, Decision, Touched, Boxless, InBox, Untouched
<1>5. InHand(e)'
  <2>1. ~Touched(e)' /\ e \notin boxes' /\ ~calls'[e].ran
    BY <1>1, <1>2, StepTyped DEF Effect, InHand, Permitted, Touched, Untouched, Boxless
  <2>2. CASE calls'[e].step = "finish"
    BY <1>1, <2>1, <2>2, SettledHand DEF Effect
  <2>3. CASE calls'[e].step \in {"capture", "slot"}
    BY <2>1, <2>3, EarlyHand DEF Untouched
  <2>4. QED
    BY <1>1, <2>2, <2>3 DEF Effect
<1>6. QED
  BY <1>1, <1>2, <1>3, <1>4, <1>5, QuietStep

LEMMA FileCaptureFollows ==
  ASSUME NEW e \in Executions, ExecutionIInv, FileCapture(e)
  PROVE  ExecutionIInv'
<1>1. /\ calls \in [Executions -> Call] /\ calls[e].step = "capture"
      /\ calls[e].request.tool \notin Commands
      /\ UNCHANGED <<rows, files, boxes, chat>>
      /\ UNCHANGED <<executions, events, committed, adrift, boxes, chat>>
  BY StepTyped DEF FileCapture, At, rows, files
<1>2. \/ Effect(e, "handler", calls[e].status, calls[e].changed, calls[e].ran)
      \/ Effect(e, "finish", "FAILED", FALSE, calls[e].ran)
  BY <1>1, GotoEffect, SettleEffect DEF FileCapture, Steps, Final
<1>3. Kept(e)'
  BY <1>1, <1>2, StepTyped, KeptOn DEF Effect, Trying
<1>4. Permitted(e)'
  BY <1>1, <1>2, StepTyped DEF Effect, Permitted, Decision, Touched, Boxless, InBox, Untouched
<1>5. InHand(e)'
  <2>1. ~Touched(e)' /\ e \notin boxes' /\ ~calls'[e].ran
    BY <1>1, <1>2, StepTyped DEF Effect, InHand, Permitted, Touched, Untouched, Boxless
  <2>2. QED
    BY <1>2, <2>1, SettledHand, EarlyHand DEF Effect, Untouched
<1>6. QED
  BY <1>1, <1>2, <1>3, <1>4, <1>5, QuietStep

LEMMA FileHandlerFollows ==
  ASSUME NEW e \in Executions, ExecutionIInv, FileHandler(e)
  PROVE  ExecutionIInv'
<1>1. /\ calls \in [Executions -> Call] /\ calls[e].step = "handler"
      /\ UNCHANGED <<rows, files, boxes, chat>>
      /\ UNCHANGED <<executions, events, committed, adrift, boxes, chat>>
  BY StepTyped DEF FileHandler, At, rows, files
<1>2. \/ Effect(e, "finish", "APPROVAL_REQUIRED", FALSE, calls[e].ran)
      \/ Effect(e, "finish", "FAILED", FALSE, calls[e].ran)
      \/ Effect(e, "finish", "SUCCEEDED", FALSE, calls[e].ran)
      \/ /\ Decision(e) # "approval" /\ calls[e].request.tool \in _MUTATING_FILE_TOOLS
         /\ Effect(e, "reconcile", calls[e].status, calls[e].changed, calls[e].ran)
  BY <1>1, GotoEffect, SettleEffect DEF FileHandler, Steps, Final
<1>3. Kept(e)'
  BY <1>1, <1>2, StepTyped, KeptOn DEF Effect, Trying
<1>4. Permitted(e)'
  <2>1. Decision(e) # "approval" /\ calls[e].request.tool \in _MUTATING_FILE_TOOLS
           => Decision(e) = "permitted"
    BY DEF Decision, classify, _MUTATING_FILE_TOOLS
  <2>2. QED
    BY <1>1, <1>2, <2>1, StepTyped
       DEF Effect, Permitted, Decision, Touched, Boxless, InBox, Untouched
<1>5. InHand(e)'
  <2>1. ~Touched(e)' /\ e \notin boxes' /\ ~calls'[e].ran
    BY <1>1, <1>2, StepTyped DEF Effect, InHand, Permitted, Touched, Untouched, Boxless
  <2>2. QED
    BY <1>2, <2>1, SettledHand, EarlyHand DEF Effect, Untouched
<1>6. QED
  BY <1>1, <1>2, <1>3, <1>4, <1>5, QuietStep

LEMMA SlotFollows ==
  ASSUME NEW e \in Executions, ExecutionIInv, Slot(e)
  PROVE  ExecutionIInv'
<1>1. /\ calls \in [Executions -> Call] /\ calls[e].step = "slot"
      /\ UNCHANGED <<rows, files, boxes, chat>>
      /\ UNCHANGED <<executions, events, committed, adrift, boxes, chat>>
  BY StepTyped DEF Slot, At, rows, files
<1>2. Effect(e, "capture", calls[e].status, calls[e].changed, calls[e].ran)
  BY <1>1, GotoEffect DEF Slot, Steps
<1>3. Kept(e)'
  BY <1>1, <1>2, StepTyped, KeptOn DEF Effect, Trying
<1>4. Permitted(e)'
  BY <1>1, <1>2, StepTyped DEF Effect, Permitted, Decision, Touched, Boxless, InBox, Untouched
<1>5. InHand(e)'
  <2>1. ~Touched(e)' /\ e \notin boxes'
    BY <1>1, StepTyped DEF InHand, Touched, Untouched, Boxless
  <2>2. QED
    BY <1>2, <2>1, EarlyHand DEF Effect, Untouched
<1>6. QED
  BY <1>1, <1>2, <1>3, <1>4, <1>5, QuietStep

LEMMA BoxCaptureFollows ==
  ASSUME NEW e \in Executions, ExecutionIInv, BoxCapture(e)
  PROVE  ExecutionIInv'
<1>1. /\ calls \in [Executions -> Call] /\ calls[e].step = "capture"
      /\ calls[e].request.tool \in Commands
      /\ UNCHANGED <<rows, files, boxes, chat>>
      /\ UNCHANGED <<executions, events, committed, adrift, boxes, chat>>
  BY StepTyped DEF BoxCapture, At, rows, files
<1>2. \/ Effect(e, "create", calls[e].status, calls[e].changed, calls[e].ran)
      \/ Effect(e, "finish", "FAILED", FALSE, calls[e].ran)
  BY <1>1, GotoEffect, SettleEffect DEF BoxCapture, Steps, InBox, Final
<1>3. Kept(e)'
  BY <1>1, <1>2, StepTyped, KeptOn DEF Effect, Trying, InBox
<1>4. Permitted(e)'
  BY <1>1, <1>2, StepTyped DEF Effect, Permitted, Decision, Touched, Boxless, InBox, Untouched
<1>5. InHand(e)'
  <2>1. ~Touched(e)' /\ e \notin boxes' /\ ~calls'[e].ran
    BY <1>1, <1>2, StepTyped DEF Effect, InHand, Permitted, Touched, Untouched, Boxless
  <2>2. QED
    BY <1>2, <2>1, SettledHand, EarlyHand DEF Effect, Untouched
<1>6. QED
  BY <1>1, <1>2, <1>3, <1>4, <1>5, QuietStep

\* The runner is left with an error, before anything was synchronized.
LEMMA LeavingHand ==
  ASSUME NEW e \in Executions, calls'[e].step = "closing", ~Touched(e)',
         calls'[e].status \notin {"SUCCEEDED", "APPROVAL_REQUIRED"}
  PROVE  InHand(e)'
BY DEF InHand, Untouched, Boxless, Reported

LEMMA BoxUploadFollows ==
  ASSUME NEW e \in Executions, ExecutionIInv, BoxUpload(e)
  PROVE  ExecutionIInv'
<1>1. /\ calls \in [Executions -> Call] /\ calls[e].step = "upload"
      /\ UNCHANGED <<rows, files, boxes, chat>>
      /\ UNCHANGED <<executions, events, committed, adrift, boxes, chat>>
  BY StepTyped DEF BoxUpload, At, rows, files
<1>2. \/ Effect(e, "command", calls[e].status, calls[e].changed, calls[e].ran)
      \/ Effect(e, "closing", "SYNC_FAILED", FALSE, calls[e].ran)
      \/ Effect(e, "closing", "FAILED", FALSE, calls[e].ran)
  BY <1>1, GotoEffect, LeaveEffect DEF BoxUpload, Steps, InBox, Final
<1>3. Kept(e)'
  BY <1>1, <1>2, StepTyped, KeptOn DEF Effect, Trying, InBox
<1>4. Permitted(e)'
  BY <1>1, <1>2, StepTyped DEF Effect, Permitted, Decision, Touched, Boxless, InBox, Untouched
<1>5. InHand(e)'
  <2>1. ~Touched(e)'
    BY <1>1, StepTyped DEF InHand, Touched, Untouched
  <2>2. QED
    BY <1>2, <2>1, LeavingHand, EarlyHand DEF Effect, Untouched, Boxless
<1>6. QED
  BY <1>1, <1>2, <1>3, <1>4, <1>5, QuietStep

LEMMA BoxCommandFollows ==
  ASSUME NEW e \in Executions, ExecutionIInv, BoxCommand(e)
  PROVE  ExecutionIInv'
<1>1. /\ calls \in [Executions -> Call] /\ calls[e].step = "command"
      /\ UNCHANGED <<rows, files, boxes, chat>>
      /\ UNCHANGED <<executions, events, committed, adrift, boxes, chat>>
  BY StepTyped DEF BoxCommand, At, rows, files
<1>2. \/ Effect(e, "download", calls[e].status, calls[e].changed, TRUE)
      \/ Effect(e, "closing", "TIMED_OUT", calls[e].changed, TRUE)
      \/ Effect(e, "closing", "FAILED", FALSE, calls[e].ran)
  <2>1. ASSUME NEW nonzero \in BOOLEAN,
               calls' = [calls EXCEPT ![e].step = "download", ![e].ran = TRUE,
                                      ![e].nonzero = nonzero]
        PROVE  Effect(e, "download", calls[e].status, calls[e].changed, TRUE)
    BY <1>1, <2>1, DownloadEffect
  <2>2. ASSUME calls' = [calls EXCEPT ![e].step = "closing", ![e].ran = TRUE,
                                      ![e].status = "TIMED_OUT"]
        PROVE  Effect(e, "closing", "TIMED_OUT", calls[e].changed, TRUE)
    BY <1>1, <2>2, RanEffect DEF Final
  <2>3. Leave(e, "FAILED", FALSE) => Effect(e, "closing", "FAILED", FALSE, calls[e].ran)
    BY <1>1, LeaveEffect DEF Final
  <2>4. QED
    BY <2>1, <2>2, <2>3 DEF BoxCommand
<1>3. Kept(e)'
  BY <1>1, <1>2, StepTyped, KeptOn DEF Effect, Trying, InBox
<1>4. Permitted(e)'
  BY <1>1, <1>2, StepTyped DEF Effect, Permitted, Decision, Touched, Boxless, InBox, Untouched
<1>5. InHand(e)'
  <2>1. ~Touched(e)'
    BY <1>1, StepTyped DEF InHand, Touched, Untouched
  <2>2. QED
    BY <1>2, <2>1, LeavingHand, EarlyHand DEF Effect, Untouched, Boxless
<1>6. QED
  BY <1>1, <1>2, <1>3, <1>4, <1>5, QuietStep

LEMMA BoxDownloadFollows ==
  ASSUME NEW e \in Executions, ExecutionIInv, BoxDownload(e)
  PROVE  ExecutionIInv'
<1>1. /\ calls \in [Executions -> Call] /\ calls[e].step = "download"
      /\ UNCHANGED <<rows, files, boxes, chat>>
      /\ UNCHANGED <<executions, events, committed, adrift, boxes, chat>>
  BY StepTyped DEF BoxDownload, At, rows, files
<1>2. \/ Effect(e, "synchronize", calls[e].status, calls[e].changed, calls[e].ran)
      \/ Effect(e, "closing", "SYNC_FAILED", FALSE, calls[e].ran)
      \/ Effect(e, "closing", "FAILED", FALSE, calls[e].ran)
  BY <1>1, GotoEffect, LeaveEffect DEF BoxDownload, Steps, InBox, Final
<1>3. Kept(e)'
  BY <1>1, <1>2, StepTyped, KeptOn DEF Effect, Trying, InBox
<1>4. Permitted(e)'
  BY <1>1, <1>2, StepTyped DEF Effect, Permitted, Decision, Touched, Boxless, InBox, Untouched
<1>5. InHand(e)'
  <2>1. ~Touched(e)'
    BY <1>1, StepTyped DEF InHand, Touched, Untouched
  <2>2. QED
    BY <1>2, <2>1, LeavingHand, EarlyHand DEF Effect, Untouched, Boxless
<1>6. QED
  BY <1>1, <1>2, <1>3, <1>4, <1>5, QuietStep

LEMMA ForwardCancelFollows ==
  ASSUME NEW e \in Executions, ExecutionIInv, ForwardCancel(e)
  PROVE  ExecutionIInv'
<1>1. /\ calls \in [Executions -> Call] /\ calls[e].step = "forward"
      /\ calls[e].status = "CANCELLED"
      /\ UNCHANGED <<rows, files, boxes, chat>>
      /\ UNCHANGED <<executions, events, committed, adrift, boxes, chat>>
  BY StepTyped DEF ForwardCancel, At, rows, files, InHand
<1>2. \/ Effect(e, "finish", calls[e].status, calls[e].changed, calls[e].ran)
      \/ Effect(e, "aborted", "FAILED", FALSE, calls[e].ran)
  BY <1>1, GotoEffect, AbortEffect DEF ForwardCancel, Steps
<1>3. Kept(e)'
  BY <1>1, <1>2, StepTyped, KeptOn DEF Effect, Trying
<1>4. Permitted(e)'
  BY <1>1, <1>2, StepTyped DEF Effect, Permitted, Decision, Touched, Boxless, InBox, Untouched
<1>5. InHand(e)'
  <2>1. CASE Effect(e, "finish", calls[e].status, calls[e].changed, calls[e].ran)
    BY <1>1, <2>1 DEF Effect, InHand, Untouched, Boxless, Reported
  <2>2. CASE Effect(e, "aborted", "FAILED", FALSE, calls[e].ran)
    BY <2>2, InHandAborted DEF Effect
  <2>3. QED
    BY <1>2, <2>1, <2>2
<1>6. QED
  BY <1>1, <1>2, <1>3, <1>4, <1>5, QuietStep

-----------------------------------------------------------------------------
(* The steps that change files and sandboxes.                              *)

\* Files and sandboxes change for e alone.
FilesOf(e) ==
    /\ committed' \subseteq Executions /\ adrift' \subseteq Executions
    /\ boxes' \subseteq Executions
    /\ \A x \in Executions \ {e} :
          /\ x \in committed' <=> x \in committed
          /\ x \in adrift' <=> x \in adrift
          /\ x \in boxes' <=> x \in boxes

\* A step within the try statement that leaves the rows alone.
LEMMA FileStep ==
  ASSUME NEW e \in Executions, ExecutionIInv, NEW step, NEW status, NEW changed, NEW ran,
         Effect(e, step, status, changed, ran), UNCHANGED <<rows, chat>>, FilesOf(e),
         calls[e].step \in Trying, step \in Trying, Permitted(e)', InHand(e)'
  PROVE  ExecutionIInv'
<1>1. /\ UNCHANGED <<executions, events, chat>>
      /\ executions[e].status = "RUNNING" /\ Kept(e)
  BY StepTyped DEF rows, Kept
<1>2. TypeHolds'
  BY <1>1 DEF ExecutionIInv, TypeHolds, Effect, FilesOf
<1>3. \A x \in Executions \ {e} : StaysPut(x)
  BY <1>1 DEF StaysPut, Effect, FilesOf
<1>4. Told(e)'
  BY <1>1 DEF ExecutionIInv, Followed, Told, Ended, EndOf
<1>5. OnRow(e)'
  BY <1>1 DEF OnRow, Ended, Final
<1>6. Kept(e)'
  BY <1>1, KeptOn DEF Effect
<1>7. Followed(e)'
  BY <1>4, <1>5, <1>6 DEF Followed
<1>8. QED
  BY <1>1, <1>2, <1>3, <1>7, Carries DEF Effect

LEMMA UnansweredFiles ==
  ASSUME NEW e \in Executions, ExecutionIInv, Unanswered(e), UNCHANGED boxes
  PROVE  FilesOf(e)
BY StepTyped DEF Unanswered, FilesOf, files, CommitFiles

LEMMA CommittedFiles ==
  ASSUME NEW e \in Executions, ExecutionIInv, UNCHANGED <<boxes, adrift>>,
         committed' \in {committed, committed \cup {e}}
  PROVE  FilesOf(e)
BY StepTyped DEF FilesOf

LEMMA BoxFiles ==
  ASSUME NEW e \in Executions, ExecutionIInv, UNCHANGED files,
         MakeBox(e) \/ Destroy(e) \/ UNCHANGED boxes
  PROVE  FilesOf(e)
BY StepTyped DEF FilesOf, MakeBox, Destroy, files

LEMMA FileReconcileFollows ==
  ASSUME NEW e \in Executions, ExecutionIInv, FileReconcile(e)
  PROVE  ExecutionIInv'
<1>1. /\ calls \in [Executions -> Call] /\ calls[e].step = "reconcile"
      /\ UNCHANGED <<rows, boxes, chat>> /\ e \notin boxes
      /\ ~Touched(e) /\ Permitted(e) /\ calls[e].step \in Trying
      /\ calls[e].request.tool \in _MUTATING_FILE_TOOLS /\ ~calls[e].ran
  BY StepTyped DEF FileReconcile, At, Permitted, InHand, Boxless, Untouched, Trying
<1>2. \/ /\ committed' = committed \cup {e} /\ UNCHANGED adrift
         /\ Effect(e, "finish", "SUCCEEDED", TRUE, calls[e].ran)
      \/ /\ committed' = committed /\ UNCHANGED adrift
         /\ Effect(e, "finish", "SUCCEEDED", FALSE, calls[e].ran)
      \/ Unanswered(e) /\ Effect(e, "finish", "FAILED", FALSE, calls[e].ran)
  BY <1>1, SettleEffect DEF FileReconcile, CommitFiles, files, Final
<1>3. FilesOf(e)
  BY <1>1, <1>2, UnansweredFiles, CommittedFiles
<1>4. Permitted(e)'
  BY <1>1, <1>2 DEF Effect, Permitted, Decision, Boxless, InBox
<1>5. InHand(e)'
  BY <1>1, <1>2 DEF Effect, InHand, Untouched, Boxless, Complete, Reported, Touched
<1>6. QED
  BY <1>1, <1>2, <1>3, <1>4, <1>5, FileStep DEF Trying

LEMMA BoxCreateFollows ==
  ASSUME NEW e \in Executions, ExecutionIInv, BoxCreate(e)
  PROVE  ExecutionIInv'
<1>1. /\ calls \in [Executions -> Call] /\ calls[e].step = "create"
      /\ UNCHANGED <<rows, chat, files, committed, adrift>>
      /\ ~Touched(e) /\ Permitted(e) /\ calls[e].step \in Trying /\ ~calls[e].ran
  BY StepTyped
     DEF BoxCreate, At, files, Permitted, InHand, Boxless, Untouched, Trying, InBox
<1>2. \/ Effect(e, "upload", calls[e].status, calls[e].changed, calls[e].ran)
      \/ Effect(e, "finish", "FAILED", FALSE, calls[e].ran)
  BY <1>1, GotoEffect, SettleEffect DEF BoxCreate, Steps, InBox, Final
<1>3. FilesOf(e)
  BY <1>1, BoxFiles DEF BoxCreate
<1>4. Permitted(e)'
  BY <1>1, <1>2 DEF Effect, Permitted, Decision, Boxless, InBox, Touched
<1>5. InHand(e)'
  BY <1>1, <1>2 DEF Effect, InHand, Untouched, Boxless, Complete, Reported, Touched
<1>6. QED
  BY <1>1, <1>2, <1>3, <1>4, <1>5, FileStep DEF Trying, InBox

LEMMA BoxSynchronizeFollows ==
  ASSUME NEW e \in Executions, ExecutionIInv, BoxSynchronize(e)
  PROVE  ExecutionIInv'
<1>1. /\ calls \in [Executions -> Call] /\ calls[e].step = "synchronize"
      /\ UNCHANGED <<rows, boxes, chat>>
      /\ ~Touched(e) /\ Permitted(e) /\ calls[e].step \in Trying
  BY StepTyped DEF BoxSynchronize, At, InHand, Untouched, Trying, InBox
<1>2. ASSUME NEW changed \in BOOLEAN, Synchronized(e, changed)
      PROVE  \/ Effect(e, "closing", "FAILED", changed, calls[e].ran)
             \/ Effect(e, "close", calls[e].status, changed, calls[e].ran)
  <2>1. CASE calls[e].nonzero
    BY <1>1, <1>2, <2>1, LeaveEffect DEF Synchronized, Final
  <2>2. CASE ~calls[e].nonzero
    BY <1>1, <1>2, <2>2, CloseEffect DEF Synchronized
  <2>3. QED
    BY <2>1, <2>2
<1>3. \/ /\ committed' = committed \cup {e} /\ UNCHANGED adrift
         /\ \/ Effect(e, "closing", "FAILED", TRUE, calls[e].ran)
            \/ Effect(e, "close", calls[e].status, TRUE, calls[e].ran)
      \/ /\ committed' = committed /\ UNCHANGED adrift
         /\ \/ Effect(e, "closing", "FAILED", FALSE, calls[e].ran)
            \/ Effect(e, "close", calls[e].status, FALSE, calls[e].ran)
      \/ Unanswered(e) /\ Effect(e, "closing", "SYNC_FAILED", FALSE, calls[e].ran)
  BY <1>1, <1>2, LeaveEffect DEF BoxSynchronize, CommitFiles, files, Final
<1>4. FilesOf(e)
  BY <1>1, <1>3, UnansweredFiles, CommittedFiles
<1>5. Permitted(e)'
  BY <1>1, <1>3 DEF Effect, Permitted, Decision, Boxless, InBox
<1>6. InHand(e)'
  BY <1>1, <1>3 DEF Effect, InHand, Untouched, Boxless, Complete, Reported, Touched
<1>7. QED
  BY <1>1, <1>3, <1>4, <1>5, <1>6, FileStep DEF Trying, InBox

LEMMA BoxCloseFollows ==
  ASSUME NEW e \in Executions, ExecutionIInv, BoxClose(e)
  PROVE  ExecutionIInv'
<1>1. /\ calls \in [Executions -> Call] /\ calls[e].step = "close"
      /\ UNCHANGED <<rows, chat, files, committed, adrift>>
      /\ Complete(e, calls[e].changed) /\ calls[e].changed \in BOOLEAN
      /\ Permitted(e) /\ calls[e].step \in Trying
  BY StepTyped DEF BoxClose, At, files, InHand, Trying, InBox
<1>2. \/ /\ e \notin boxes'
         /\ Effect(e, "finish", "SUCCEEDED", calls[e].changed, calls[e].ran)
      \/ Effect(e, "finish", "FAILED", calls[e].changed, calls[e].ran)
  BY <1>1, SettleEffect DEF BoxClose, Destroy, Final
<1>3. FilesOf(e)
  BY <1>1, BoxFiles DEF BoxClose
<1>4. Permitted(e)'
  BY <1>1, <1>2 DEF Effect, Permitted, Decision, Boxless, InBox, Touched
<1>5. InHand(e)'
  BY <1>1, <1>2 DEF Effect, InHand, Untouched, Boxless, Complete, Reported, Touched
<1>6. QED
  BY <1>1, <1>2, <1>3, <1>4, <1>5, FileStep DEF Trying, InBox

LEMMA BoxClosingFollows ==
  ASSUME NEW e \in Executions, ExecutionIInv, BoxClosing(e)
  PROVE  ExecutionIInv'
<1>1. /\ calls \in [Executions -> Call] /\ calls[e].step = "closing"
      /\ UNCHANGED <<rows, chat, files, committed, adrift>>
      /\ InHand(e) /\ Permitted(e) /\ calls[e].step \in Trying
  BY StepTyped DEF BoxClosing, At, files, Trying, InBox
<1>2. \/ /\ calls[e].status = "CANCELLED"
         /\ Effect(e, "forward", calls[e].status, calls[e].changed, calls[e].ran)
      \/ Effect(e, "finish", calls[e].status, calls[e].changed, calls[e].ran)
  BY <1>1, GotoEffect DEF BoxClosing, Steps
<1>3. FilesOf(e)
  BY <1>1, BoxFiles DEF BoxClosing
<1>4. Permitted(e)'
  BY <1>1, <1>2 DEF Effect, Permitted, Decision, Boxless, InBox, Touched
<1>5. InHand(e)'
  BY <1>1, <1>2 DEF Effect, InHand, Untouched, Boxless, Complete, Reported, Touched
<1>6. QED
  BY <1>1, <1>2, <1>3, <1>4, <1>5, FileStep DEF Trying, InBox

\* A step that leaves calls, rows and chat alone.
LEMMA OutsideStep ==
  ASSUME NEW e \in Executions, ExecutionIInv, UNCHANGED <<rows, calls, chat>>, FilesOf(e),
         Permitted(e)', InHand(e)', OnRow(e)'
  PROVE  ExecutionIInv'
<1>1. UNCHANGED <<executions, events, calls, chat>>
  BY DEF rows
<1>2. TypeHolds'
  BY <1>1 DEF ExecutionIInv, TypeHolds, FilesOf
<1>3. \A x \in Executions \ {e} : StaysPut(x)
  BY <1>1 DEF StaysPut, FilesOf
<1>4. Told(e)' /\ Kept(e)'
  BY <1>1 DEF ExecutionIInv, Followed, Told, Ended, EndOf, Kept
<1>5. Followed(e)'
  BY <1>4 DEF Followed
<1>6. QED
  BY <1>1, <1>2, <1>3, <1>5, Carries

LEMMA CommitLandsFollows ==
  ASSUME NEW e \in Executions, ExecutionIInv, CommitLands(e)
  PROVE  ExecutionIInv'
<1>1. /\ e \in adrift /\ adrift' = adrift \ {e}
      /\ committed' \in {committed, committed \cup {e}}
      /\ UNCHANGED <<rows, executions, events, boxes, calls, chat>>
      /\ Permitted(e) /\ InHand(e) /\ OnRow(e)
  BY StepTyped DEF CommitLands, CommitFiles, rows
<1>2. FilesOf(e)
  BY <1>1, StepTyped DEF FilesOf
<1>3. Touched(e)' => Touched(e)
  BY <1>1 DEF Touched
<1>4. Permitted(e)'
  BY <1>1, <1>3 DEF Permitted, Decision
<1>5. InHand(e)'
  BY <1>1, <1>3 DEF InHand, Complete, Reported, Touched
<1>6. OnRow(e)'
  BY <1>1, <1>3 DEF OnRow, Complete, Reported, Touched, Ended
<1>7. QED
  BY <1>1, <1>2, <1>4, <1>5, <1>6, OutsideStep

LEMMA BoxExpiresFollows ==
  ASSUME NEW e \in Executions, ExecutionIInv, BoxExpires(e)
  PROVE  ExecutionIInv'
<1>1. /\ boxes' = boxes \ {e}
      /\ UNCHANGED <<rows, executions, events, files, committed, adrift, calls, chat>>
      /\ Permitted(e) /\ InHand(e) /\ OnRow(e)
  BY StepTyped DEF BoxExpires, Destroy, rows, files
<1>2. FilesOf(e)
  BY <1>1, StepTyped DEF FilesOf
<1>3. Permitted(e)'
  BY <1>1 DEF Permitted, Decision, Touched
<1>4. InHand(e)'
  BY <1>1 DEF InHand, Complete, Reported, Touched
<1>5. OnRow(e)'
  BY <1>1 DEF OnRow, Complete, Reported, Touched, Ended
<1>6. QED
  BY <1>1, <1>2, <1>3, <1>4, <1>5, OutsideStep

\* CancelledError within the try statement.
LEMMA CancelFollows ==
  ASSUME NEW e \in Executions, ExecutionIInv, Cancel(e)
  PROVE  ExecutionIInv'
<1>1. /\ calls \in [Executions -> Call] /\ UNCHANGED <<rows, chat>>
      /\ Permitted(e) /\ InHand(e) /\ calls[e].ran \in BOOLEAN
  BY StepTyped DEF Cancel
<1>2. CASE calls[e].step \in {"slot", "capture", "create"} /\ Forward(e)
           /\ UNCHANGED files /\ (MakeBox(e) \/ UNCHANGED boxes)
  <2>1. Effect(e, "forward", "CANCELLED", calls[e].changed, calls[e].ran)
    BY <1>1, <1>2, ForwardEffect
  <2>2. UNCHANGED <<committed, adrift>>
    BY <1>2 DEF files
  <2>3. Permitted(e)'
    BY <1>1, <1>2, <2>1, <2>2 DEF Effect, Permitted, Decision, Boxless, InBox, Touched
  <2>4. InHand(e)'
    BY <1>1, <1>2, <2>1, <2>2 DEF Effect, InHand, Untouched, Boxless
  <2>5. QED
    BY <1>1, <1>2, <2>1, <2>3, <2>4, BoxFiles, FileStep DEF Trying, InBox
<1>3. CASE calls[e].step = "reconcile" /\ Unanswered(e) /\ Forward(e) /\ UNCHANGED boxes
  <2>1. Effect(e, "forward", "CANCELLED", calls[e].changed, calls[e].ran)
    BY <1>1, <1>3, ForwardEffect
  <2>2. Permitted(e)'
    BY <1>1, <1>3, <2>1 DEF Effect, Permitted, Decision, Boxless, InBox
  <2>3. InHand(e)'
    BY <2>1 DEF Effect, InHand, Untouched, Boxless
  <2>4. QED
    BY <1>1, <1>3, <2>1, <2>2, <2>3, UnansweredFiles, FileStep DEF Trying, InBox
<1>4. CASE /\ calls[e].step \in {"upload", "command", "download"}
           /\ calls' = [calls EXCEPT ![e].step = "closing", ![e].status = "CANCELLED",
                            ![e].ran = @ \/ (At(e, "command") /\ BoxRuns(e))]
           /\ UNCHANGED <<files, boxes>>
  <2>1. PICK ran \in BOOLEAN : ran = (calls[e].ran \/ (At(e, "command") /\ BoxRuns(e)))
    BY Zenon
  <2>2. calls' = [calls EXCEPT ![e].step = "closing", ![e].status = "CANCELLED",
                               ![e].ran = ran]
    BY <1>4, <2>1
  <2>3. Effect(e, "closing", "CANCELLED", calls[e].changed, ran)
    BY <1>1, <2>2, RanEffect DEF Final
  <2>4. UNCHANGED <<committed, adrift, boxes>>
    BY <1>4 DEF files
  <2>5. ~Touched(e) /\ ~Touched(e)'
    BY <1>1, <1>4, <2>4 DEF InHand, Untouched, Touched
  <2>6. Permitted(e)'
    BY <1>1, <1>4, <2>3, <2>4 DEF Effect, Permitted, Decision, Boxless, InBox, Touched
  <2>7. InHand(e)'
    BY <2>3, <2>5, LeavingHand DEF Effect
  <2>8. QED
    BY <1>1, <1>4, <2>3, <2>4, <2>6, <2>7, BoxFiles, FileStep DEF Trying, InBox
<1>5. CASE calls[e].step = "synchronize" /\ Unanswered(e) /\ Leave(e, "CANCELLED", FALSE)
           /\ UNCHANGED boxes
  <2>1. Effect(e, "closing", "CANCELLED", FALSE, calls[e].ran)
    BY <1>1, <1>5, LeaveEffect DEF Final
  <2>2. Permitted(e)'
    BY <1>1, <1>5, <2>1 DEF Effect, Permitted, Decision, Boxless, InBox
  <2>3. InHand(e)'
    BY <2>1 DEF Effect, InHand, Untouched, Boxless, Reported
  <2>4. QED
    BY <1>1, <1>5, <2>1, <2>2, <2>3, UnansweredFiles, FileStep DEF Trying, InBox
<1>6. QED
  BY <1>2, <1>3, <1>4, <1>5 DEF Cancel, Broken, At

-----------------------------------------------------------------------------
(* The steps that write rows and events.                                   *)

\* Rows and events change for e alone, and what succeeded stays so.
RowsOf(e) ==
    /\ executions' \in [Executions -> Row] /\ events' \in [Executions -> Seq(EventTypes)]
    /\ executions[e].status = "SUCCEEDED" => executions'[e].status = "SUCCEEDED"
    /\ \A x \in Executions \ {e} :
          executions'[x] = executions[x] /\ events'[x] = events[x]

LEMMA RowStep ==
  ASSUME NEW e \in Executions, ExecutionIInv, NEW step, NEW status, NEW changed, NEW ran,
         Effect(e, step, status, changed, ran), UNCHANGED <<files, boxes, chat>>,
         RowsOf(e), Kept(e)', Told(e)', Permitted(e)', InHand(e)', OnRow(e)'
  PROVE  ExecutionIInv'
<1>1. UNCHANGED <<committed, adrift, boxes, chat>>
  BY DEF files
<1>2. TypeHolds'
  BY <1>1 DEF ExecutionIInv, TypeHolds, Effect, RowsOf
<1>3. \A x \in Executions \ {e} : StaysPut(x)
  BY <1>1 DEF StaysPut, Effect, RowsOf
<1>4. Followed(e)'
  BY DEF Followed
<1>5. QED
  BY <1>1, <1>2, <1>3, <1>4, Carries DEF Effect, RowsOf

LEMMA SameRows ==
  ASSUME NEW e \in Executions, ExecutionIInv, UNCHANGED <<executions, events>>
  PROVE  RowsOf(e)
BY StepTyped DEF RowsOf

LEMMA PutRow ==
  ASSUME NEW e \in Executions, ExecutionIInv, UNCHANGED events, NEW row \in Row,
         executions' = [executions EXCEPT ![e] = row],
         executions[e].status # "SUCCEEDED"
  PROVE  RowsOf(e) /\ executions'[e] = row /\ events'[e] = events[e]
BY StepTyped DEF RowsOf

LEMMA PutEvent ==
  ASSUME NEW e \in Executions, ExecutionIInv, UNCHANGED executions, NEW type \in EventTypes,
         AddEvent(e, type)
  PROVE  /\ RowsOf(e) /\ executions'[e] = executions[e]
         /\ events'[e] = Append(events[e], type)
<1>1. events \in [Executions -> Seq(EventTypes)] /\ executions \in [Executions -> Row]
  BY StepTyped
<1>2. events' \in [Executions -> Seq(EventTypes)]
  BY <1>1 DEF AddEvent
<1>3. QED
  BY <1>1, <1>2 DEF AddEvent, RowsOf

\* What the database has of an execution that has not begun.
LEMMA Unbegun ==
  ASSUME NEW e \in Executions, ExecutionIInv, calls[e].step \in {"none", "insert"}
  PROVE  /\ executions[e] = NoRow /\ executions[e].status = "NONE"
         /\ executions[e].changed = FALSE /\ events[e] = <<>>
         /\ ~Touched(e) /\ e \notin boxes /\ ~calls[e].ran
<1>1. Kept(e) /\ InHand(e) /\ Permitted(e)
  BY StepTyped
<1>2. executions[e] = NoRow /\ events[e] = <<>>
  BY <1>1 DEF Kept
<1>3. NoRow.status = "NONE" /\ NoRow.changed = FALSE
  BY DEF NoRow
<1>4. ~Touched(e) /\ e \notin boxes
  BY <1>1 DEF InHand, Untouched, Boxless
<1>5. ~calls[e].ran
  BY <1>1 DEF Permitted, Boxless
<1>6. QED
  BY <1>2, <1>3, <1>4, <1>5

LEMMA InsertFollows ==
  ASSUME NEW e \in Executions, ExecutionIInv, Insert(e)
  PROVE  ExecutionIInv'
<1>1. /\ calls \in [Executions -> Call] /\ calls[e].step = "insert"
      /\ UNCHANGED <<events, files, boxes, chat, committed, adrift>>
      /\ Permitted(e) /\ calls[e].request \in Requests
      /\ executions[e].status = "NONE" /\ executions[e].changed = FALSE
      /\ events[e] = <<>> /\ ~Touched(e) /\ e \notin boxes /\ ~calls[e].ran
  BY StepTyped, Unbegun DEF Insert, At, files, Permitted
<1>2. \/ InsertedRow(e) /\ Effect(e, "announce", calls[e].status, calls[e].changed, calls[e].ran)
      \/ /\ InsertedRow(e) \/ UNCHANGED executions
         /\ Effect(e, "aborted", "FAILED", FALSE, calls[e].ran)
  BY <1>1, GotoEffect, AbortEffect DEF Insert, Steps
<1>3. ASSUME InsertedRow(e)
      PROVE  /\ RowsOf(e) /\ executions'[e].status = "RUNNING"
             /\ executions'[e].changed = FALSE /\ executions'[e].request = calls[e].request
  <2>1. PICK approval \in {"GRANTED", "NOT_REQUIRED"} :
           approval = IF calls[e].granted THEN "GRANTED" ELSE "NOT_REQUIRED"
    OBVIOUS
  <2>2. PICK row \in Row :
           row = [NoRow EXCEPT !.status = "RUNNING", !.request = calls[e].request,
                               !.approval = approval]
    BY <1>1 DEF NoRow, Row
  <2>3. executions' = [executions EXCEPT ![e] = row]
    BY <1>3, <2>1, <2>2 DEF InsertedRow
  <2>4. row.status = "RUNNING" /\ row.changed = FALSE /\ row.request = calls[e].request
    BY <2>2 DEF NoRow, Row
  <2>5. QED
    BY <1>1, <2>3, <2>4, PutRow
<1>4. /\ RowsOf(e) /\ executions'[e].changed = FALSE /\ events'[e] = <<>>
      /\ executions'[e].status \in {"NONE", "RUNNING"}
      /\ executions'[e].status # "NONE" => executions'[e].request = calls[e].request
      /\ calls'[e].step = "announce" => executions'[e].status = "RUNNING"
  BY <1>1, <1>2, <1>3, SameRows DEF Effect
<1>5. Kept(e)'
  BY <1>2, <1>4 DEF Effect, Kept, Trying, InBox
<1>6. Told(e)'
  BY <1>4 DEF Told
<1>7. Permitted(e)'
  BY <1>1, <1>2 DEF Effect, Permitted, Decision, Touched, Boxless, InBox
<1>8. InHand(e)'
  BY <1>1, <1>2 DEF Effect, InHand, Touched, Untouched, Boxless
<1>9. OnRow(e)'
  BY <1>4 DEF OnRow, Ended, Final
<1>10. QED
  BY <1>1, <1>2, <1>4, <1>5, <1>6, <1>7, <1>8, <1>9, RowStep

LEMMA AnnounceFollows ==
  ASSUME NEW e \in Executions, ExecutionIInv, Announce(e)
  PROVE  ExecutionIInv'
<1>1. /\ calls \in [Executions -> Call] /\ calls[e].step = "announce"
      /\ UNCHANGED <<executions, files, boxes, chat, committed, adrift>>
      /\ Kept(e) /\ Permitted(e)
      /\ executions[e].status = "RUNNING" /\ ~executions[e].changed
      /\ events[e] = <<>> /\ ~Touched(e) /\ e \notin boxes /\ ~calls[e].ran
  BY StepTyped DEF Announce, At, files, Permitted, Kept, InHand, Untouched, Boxless
<1>2. \/ /\ AddEvent(e, "tool.started")
         /\ Effect(e, "enter", calls[e].status, calls[e].changed, calls[e].ran)
      \/ /\ AddEvent(e, "tool.started") \/ UNCHANGED events
         /\ Effect(e, "aborted", "FAILED", FALSE, calls[e].ran)
  BY <1>1, GotoEffect, AbortEffect DEF Announce, Steps
<1>3. AddEvent(e, "tool.started") => RowsOf(e) /\ events'[e] = <<"tool.started">>
  BY <1>1, PutEvent DEF EventTypes
<1>4. /\ RowsOf(e) /\ executions'[e] = executions[e]
      /\ events'[e] \in {<<>>, <<"tool.started">>}
      /\ calls'[e].step = "enter" => events'[e] = <<"tool.started">>
  BY <1>1, <1>2, <1>3, SameRows DEF Effect
<1>5. Kept(e)'
  BY <1>1, <1>2, <1>4 DEF Effect, Kept, Trying, InBox
<1>6. Told(e)'
  BY <1>4 DEF Told
<1>7. Permitted(e)'
  BY <1>1, <1>2 DEF Effect, Permitted, Decision, Touched, Boxless, InBox
<1>8. InHand(e)'
  BY <1>1, <1>2 DEF Effect, InHand, Touched, Untouched, Boxless
<1>9. OnRow(e)'
  BY <1>1, <1>4 DEF OnRow, Ended, Final
<1>10. QED
  BY <1>1, <1>2, <1>4, <1>5, <1>6, <1>7, <1>8, <1>9, RowStep

LEMMA FinishFollows ==
  ASSUME NEW e \in Executions, ExecutionIInv, Finish(e)
  PROVE  ExecutionIInv'
<1>1. /\ calls \in [Executions -> Call] /\ calls[e].step = "finish"
      /\ UNCHANGED <<events, files, boxes, chat, committed, adrift>>
      /\ Kept(e) /\ Permitted(e) /\ InHand(e)
      /\ executions[e].status = "RUNNING" /\ ~executions[e].changed
      /\ executions[e].request = calls[e].request /\ events[e] = <<"tool.started">>
      /\ calls[e].status \in Final /\ calls[e].changed \in BOOLEAN
      /\ executions[e] \in Row
  BY StepTyped DEF Finish, At, files, Kept, Trying
<1>2. \/ /\ FinishedRow(e) /\ calls[e].changed
         /\ Effect(e, "report", calls[e].status, calls[e].changed, calls[e].ran)
      \/ /\ FinishedRow(e) /\ ~calls[e].changed
         /\ Effect(e, "conclude", calls[e].status, calls[e].changed, calls[e].ran)
      \/ /\ FinishedRow(e) \/ UNCHANGED executions
         /\ Effect(e, "aborted", "FAILED", FALSE, calls[e].ran)
  BY <1>1, GotoEffect, AbortEffect DEF Finish, Steps
<1>3. ASSUME FinishedRow(e)
      PROVE  /\ RowsOf(e) /\ executions'[e].status = calls[e].status
             /\ executions'[e].changed = calls[e].changed
             /\ executions'[e].request = calls[e].request
  <2>1. PICK approval \in {"REQUIRED", "GRANTED", "NOT_REQUIRED"} :
           approval = approval_status(e)
    BY DEF approval_status
  <2>2. PICK row \in Row :
           row = [executions[e] EXCEPT !.status = calls[e].status, !.approval = approval,
                                       !.changed = calls[e].changed]
    BY <1>1 DEF Row
  <2>3. executions' = [executions EXCEPT ![e] = row]
    BY <1>3, <2>1, <2>2 DEF FinishedRow
  <2>4. /\ row.status = calls[e].status /\ row.changed = calls[e].changed
        /\ row.request = executions[e].request
    BY <1>1, <2>2 DEF Row
  <2>5. QED
    BY <1>1, <2>3, <2>4, PutRow
<1>4. RowsOf(e) /\ events'[e] = <<"tool.started">>
  BY <1>1, <1>2, <1>3, SameRows
<1>5. Kept(e)'
  BY <1>1, <1>2, <1>3, <1>4 DEF Effect, Kept, Trying, InBox, Final
<1>6. Told(e)'
  BY <1>4 DEF Told
<1>7. Permitted(e)'
  BY <1>1, <1>2 DEF Effect, Permitted, Decision, Touched, Boxless, InBox
<1>8. InHand(e)'
  BY <1>1, <1>2 DEF Effect, InHand, Touched, Untouched, Boxless
<1>9. OnRow(e)'
  <2>1. CASE FinishedRow(e)
    BY <1>1, <1>2, <1>3, <2>1 DEF OnRow, InHand, Reported, Complete, Touched, Effect, Ended
  <2>2. CASE UNCHANGED executions
    BY <1>1, <2>2 DEF OnRow, Ended, Final
  <2>3. QED
    BY <1>2, <2>1, <2>2
<1>10. QED
  BY <1>1, <1>2, <1>4, <1>5, <1>6, <1>7, <1>8, <1>9, RowStep

LEMMA ReportFollows ==
  ASSUME NEW e \in Executions, ExecutionIInv, Report(e)
  PROVE  ExecutionIInv'
<1>1. /\ calls \in [Executions -> Call] /\ calls[e].step = "report"
      /\ UNCHANGED <<executions, files, boxes, chat, committed, adrift>>
      /\ Kept(e) /\ Permitted(e) /\ InHand(e) /\ OnRow(e)
      /\ executions[e].status = calls[e].status /\ executions[e].changed
      /\ calls[e].changed /\ calls[e].status \in Final
      /\ events[e] = <<"tool.started">>
  BY StepTyped DEF Report, At, files, Kept
<1>2. \/ /\ AddEvent(e, "file.changed")
         /\ Effect(e, "conclude", calls[e].status, calls[e].changed, calls[e].ran)
      \/ /\ AddEvent(e, "file.changed") \/ UNCHANGED events
         /\ Effect(e, "aborted", "FAILED", FALSE, calls[e].ran)
  BY <1>1, GotoEffect, AbortEffect DEF Report, Steps
<1>3. AddEvent(e, "file.changed") =>
         RowsOf(e) /\ events'[e] = <<"tool.started", "file.changed">>
  BY <1>1, PutEvent DEF EventTypes
<1>4. /\ RowsOf(e) /\ executions'[e] = executions[e]
      /\ events'[e] \in {<<"tool.started">>, <<"tool.started", "file.changed">>}
      /\ calls'[e].step = "conclude" => events'[e] = <<"tool.started", "file.changed">>
  BY <1>1, <1>2, <1>3, SameRows DEF Effect
<1>5. Kept(e)'
  BY <1>1, <1>2, <1>4 DEF Effect, Kept, Trying, InBox, Final
<1>6. Told(e)'
  BY <1>1, <1>4 DEF Told
<1>7. Permitted(e)'
  BY <1>1, <1>2 DEF Effect, Permitted, Decision, Touched, Boxless, InBox
<1>8. InHand(e)'
  BY <1>1, <1>2 DEF Effect, InHand, Touched, Untouched, Boxless
<1>9. OnRow(e)'
  BY <1>1, <1>2, <1>4 DEF OnRow, Ended, Reported, Complete, Touched, Effect
<1>10. QED
  BY <1>1, <1>2, <1>4, <1>5, <1>6, <1>7, <1>8, <1>9, RowStep

LEMMA ConcludeFollows ==
  ASSUME NEW e \in Executions, ExecutionIInv, Conclude(e)
  PROVE  ExecutionIInv'
<1>1. /\ calls \in [Executions -> Call] /\ calls[e].step = "conclude"
      /\ UNCHANGED <<executions, files, boxes, chat, committed, adrift>>
      /\ Kept(e) /\ Permitted(e) /\ InHand(e) /\ OnRow(e) /\ Told(e)
      /\ executions[e].status = calls[e].status
      /\ executions[e].changed = calls[e].changed
      /\ calls[e].status \in Final /\ calls[e].changed \in BOOLEAN
      /\ events[e] = IF calls[e].changed THEN <<"tool.started", "file.changed">>
                     ELSE <<"tool.started">>
  BY StepTyped DEF Conclude, At, files, Kept
<1>2. \/ /\ AddEvent(e, terminal_event(e))
         /\ Effect(e, "ended", calls[e].status, calls[e].changed, calls[e].ran)
      \/ /\ AddEvent(e, terminal_event(e)) \/ UNCHANGED events
         /\ Effect(e, "aborted", "FAILED", FALSE, calls[e].ran)
  BY <1>1, GotoEffect, AbortEffect DEF Conclude, Steps
<1>3. terminal_event(e) = EndOf(e) /\ EndOf(e) \in EventTypes
  BY <1>1 DEF terminal_event, EndOf, EventTypes
<1>4. AddEvent(e, terminal_event(e)) =>
         RowsOf(e) /\ events'[e] = Append(events[e], EndOf(e))
  BY <1>1, <1>3, PutEvent
<1>5. RowsOf(e) /\ executions'[e] = executions[e] /\ EndOf(e)' = EndOf(e)
  BY <1>1, <1>2, <1>4, SameRows DEF EndOf
<1>6. Kept(e)'
  BY <1>1, <1>2, <1>5 DEF Effect, Kept, Trying, InBox, Final
<1>7. Told(e)'
  <2>1. CASE UNCHANGED events
    BY <1>1, <1>5, <2>1 DEF Told, Ended
  <2>2. CASE AddEvent(e, terminal_event(e)) /\ calls[e].changed
    <3>1. events'[e] = <<"tool.started", "file.changed", EndOf(e)>>
      BY <1>1, <1>4, <2>2
    <3>2. QED
      BY <1>1, <1>5, <2>2, <3>1 DEF Told, Ended
  <2>3. CASE AddEvent(e, terminal_event(e)) /\ ~calls[e].changed
    <3>1. events'[e] = <<"tool.started", EndOf(e)>>
      BY <1>1, <1>4, <2>3
    <3>2. QED
      BY <1>1, <1>5, <2>3, <3>1 DEF Told, Ended
  <2>4. QED
    BY <1>2, <2>1, <2>2, <2>3
<1>8. Permitted(e)'
  BY <1>1, <1>2 DEF Effect, Permitted, Decision, Touched, Boxless, InBox
<1>9. InHand(e)'
  BY <1>1, <1>2 DEF Effect, InHand, Touched, Untouched, Boxless
<1>10. OnRow(e)'
  BY <1>1, <1>2, <1>5 DEF OnRow, Ended, Reported, Complete, Touched, Effect
<1>11. QED
  BY <1>1, <1>2, <1>5, <1>6, <1>7, <1>8, <1>9, <1>10, RowStep

-----------------------------------------------------------------------------
(* Where calls come from.                                                  *)

LEMMA NewTyped ==
  ASSUME NEW e, NEW request \in Requests, NEW source \in Executions \cup {None},
         NEW chats \in BOOLEAN
  PROVE  NewExecution(e, request, source, chats) \in Call
BY DEF NewExecution, NoCall, Call, Steps, Final

LEMMA NewParts ==
  ASSUME NEW e, NEW request \in Requests, NEW source \in Executions \cup {None},
         NEW chats \in BOOLEAN
  PROVE  /\ NewExecution(e, request, source, chats).step = "insert"
         /\ NewExecution(e, request, source, chats).request = request
         /\ NewExecution(e, request, source, chats).source = source
BY DEF NewExecution, NoCall

LEMMA NewRan ==
  ASSUME NEW e, NEW request \in Requests, NEW source \in Executions \cup {None},
         NEW chats \in BOOLEAN
  PROVE  NewExecution(e, request, source, chats).ran = FALSE
BY DEF NewExecution, NoCall

LEMMA NewChats ==
  ASSUME NEW e, NEW request \in Requests, NEW source \in Executions \cup {None},
         NEW chats \in BOOLEAN
  PROVE  NewExecution(e, request, source, chats).chats = chats
BY DEF NewExecution, NoCall

LEMMA NewGranted ==
  ASSUME NEW e, NEW request \in Requests, NEW source \in Executions \cup {None},
         NEW chats \in BOOLEAN
  PROVE  NewExecution(e, request, source, chats).granted <=> source # None
BY DEF NewExecution, NoCall

\* A new call, of which nothing is known yet.
LEMMA NewCall ==
  ASSUME NEW e \in Executions, ExecutionIInv, calls[e].step = "none",
         NEW request \in Requests, NEW source \in Executions \cup {None},
         NEW chats \in BOOLEAN,
         calls' = [calls EXCEPT ![e] = NewExecution(e, request, source, chats)]
  PROVE  /\ calls' \in [Executions -> Call]
         /\ calls'[e].step = "insert" /\ calls'[e].request = request
         /\ calls'[e].source = source /\ calls'[e].chats = chats
         /\ calls'[e].granted <=> source # None
         /\ calls'[e].ran = FALSE
         /\ \A x \in Executions \ {e} : calls'[x] = calls[x]
<1>1. calls \in [Executions -> Call]
  BY StepTyped
<1>2. calls'[e] = NewExecution(e, request, source, chats)
  BY <1>1
<1>3. /\ calls'[e] \in Call
      /\ calls'[e].step = "insert" /\ calls'[e].request = request
      /\ calls'[e].source = source /\ calls'[e].chats = chats /\ calls'[e].ran = FALSE
      /\ calls'[e].granted <=> source # None
  <2>1. calls'[e] \in Call
    BY <1>2, NewTyped
  <2>2. /\ calls'[e].step = "insert" /\ calls'[e].request = request
        /\ calls'[e].source = source
    BY <1>2, NewParts
  <2>5. calls'[e].ran = FALSE
    BY <1>2, NewRan
  <2>3. calls'[e].chats = chats
    BY <1>2, NewChats
  <2>4. calls'[e].granted <=> source # None
    BY <1>2, NewGranted
  <2>6. QED
    BY <2>1, <2>2, <2>3, <2>4, <2>5, Zenon
<1>4. /\ calls' \in [Executions -> Call]
      /\ \A x \in Executions \ {e} : calls'[x] = calls[x]
  BY <1>1, <1>2, <1>3
<1>5. QED
  BY <1>3, <1>4, Zenon

\* The rest of the state that a new call leaves alone.
LEMMA BeginsFollowed ==
  ASSUME NEW e \in Executions, ExecutionIInv, calls[e].step = "none",
         calls'[e].step = "insert", calls'[e].request \in Requests,
         calls'[e].granted <=> calls'[e].source # None, calls'[e].ran = FALSE,
         executions'[e] = executions[e], UNCHANGED <<events, files, boxes>>
  PROVE  Followed(e)'
<1>1. /\ executions'[e] = NoRow /\ executions'[e].status = "NONE"
      /\ executions'[e].changed = FALSE /\ events'[e] = <<>>
      /\ ~Touched(e)' /\ e \notin boxes'
  BY Unbegun DEF Touched, files
<1>2. Kept(e)'
  BY <1>1 DEF Kept, Trying, InBox
<1>3. Told(e)'
  BY <1>1 DEF Told
<1>4. Permitted(e)'
  BY <1>1 DEF Permitted, InBox
<1>5. InHand(e)'
  BY <1>1, EarlyHand DEF Untouched
<1>6. OnRow(e)'
  BY <1>1 DEF OnRow, Ended, Final
<1>7. QED
  BY <1>2, <1>3, <1>4, <1>5, <1>6 DEF Followed

\* Nothing the chat knows is of an execution that has not begun.
LEMMA FreshUnknown ==
  ASSUME NEW e \in Executions, ExecutionIInv, calls[e].step = "none"
  PROVE  executions[e].status # "SUCCEEDED"
BY Unbegun

\* ChatKnows, when a call begins and the chat is left alone.
LEMMA ChatStaysOn ==
  ASSUME NEW e \in Executions, ExecutionIInv, calls[e].step = "none", UNCHANGED chat,
         \A x \in Executions \ {e} : calls'[x] = calls[x],
         \A x \in Executions : executions'[x].status = executions[x].status
  PROVE  ChatTypeOK' /\ ChatKnows'
<1>1. ChatTypeOK'
  BY DEF ExecutionIInv, ChatTypeOK
<1>2. /\ chat.succeeded \subseteq Executions /\ chat.evidence \subseteq Executions
      /\ chat.current \in Executions \cup {None}
      /\ ChatKnows
  BY DEF ExecutionIInv, ChatTypeOK
<1>3. /\ chat'.step = chat.step /\ chat'.pending = chat.pending
      /\ chat'.current = chat.current /\ chat'.succeeded = chat.succeeded
      /\ chat'.evidence = chat.evidence /\ chat'.claims = chat.claims
  OBVIOUS
<1>4. \A x \in Executions :
         executions[x].status = "SUCCEEDED" =>
            calls'[x] = calls[x] /\ executions'[x].status = "SUCCEEDED"
  BY FreshUnknown
<1>5. EvidenceIsReal'
  BY <1>2, <1>3, <1>4 DEF ChatKnows, EvidenceIsReal
<1>6. chat'.current # None => calls'[chat'.current].chats
  <2>1. ~calls[e].chats
    BY StepTyped DEF Permitted
  <2>2. QED
    BY <1>2, <1>3, <2>1 DEF ChatKnows
<1>7. \A x \in chat'.succeeded : calls'[x].chats /\ executions'[x].status = "SUCCEEDED"
  BY <1>2, <1>3, <1>4 DEF ChatKnows
<1>8. chat'.step = "calling" => chat'.pending # <<>>
  BY <1>2, <1>3 DEF ChatKnows
<1>9. QED
  BY <1>1, <1>5, <1>6, <1>7, <1>8 DEF ChatKnows

\* A call begins, and the chat is left alone.
LEMMA Begins ==
  ASSUME NEW e \in Executions, ExecutionIInv, calls[e].step = "none",
         NEW request \in Requests, NEW source \in Executions \cup {None},
         calls' = [calls EXCEPT ![e] = NewExecution(e, request, source, FALSE)],
         executions' \in [Executions -> Row], executions'[e] = executions[e],
         \A x \in Executions \ {e} : Followed(x)',
         \A x \in Executions : executions'[x].status = executions[x].status,
         UNCHANGED <<events, files, boxes, chat>>
  PROVE  ExecutionIInv'
<1>1. /\ calls' \in [Executions -> Call]
      /\ calls'[e].step = "insert" /\ calls'[e].request = request
      /\ calls'[e].source = source /\ calls'[e].chats = FALSE
      /\ calls'[e].granted <=> source # None
      /\ calls'[e].ran = FALSE
      /\ \A x \in Executions \ {e} : calls'[x] = calls[x]
  <2>1. FALSE \in BOOLEAN
    OBVIOUS
  <2>2. QED
    BY <2>1, NewCall, Zenon
<1>2. Followed(e)'
  BY <1>1, BeginsFollowed
<1>3. TypeHolds'
  BY <1>1 DEF ExecutionIInv, TypeHolds, files
<1>4. ChatTypeOK' /\ ChatKnows'
  BY <1>1, ChatStaysOn
<1>5. QED
  BY <1>2, <1>3, <1>4 DEF ExecutionIInv

LEMMA ToolRequestFollows ==
  ASSUME NEW e \in Executions, NEW request \in Requests, ExecutionIInv,
         ToolRequest(e, request)
  PROVE  ExecutionIInv'
<1>1. /\ calls[e].step = "none"
      /\ calls' = [calls EXCEPT ![e] = NewExecution(e, request, None, FALSE)]
      /\ UNCHANGED <<executions, events, files, committed, adrift, boxes, chat>>
      /\ executions \in [Executions -> Row]
  BY StepTyped DEF ToolRequest, Fresh, rows, files
<1>2. \A x \in Executions \ {e} : Followed(x)'
  <2>1. \A x \in Executions \ {e} : calls'[x] = calls[x]
    BY <1>1, NewCall
  <2>2. QED
    BY <1>1, <2>1, FollowedStays DEF StaysPut, ExecutionIInv
<1>3. QED
  BY <1>1, <1>2, Begins

\* That an approval is used up changes nothing that was said of its execution.
LEMMA ApprovalUsed ==
  ASSUME NEW x \in Executions, ExecutionIInv, calls'[x] = calls[x],
         executions'[x].status = executions[x].status,
         executions'[x].request = executions[x].request,
         executions'[x].changed = executions[x].changed,
         executions[x].status # "NONE",
         UNCHANGED <<events, files, boxes>>
  PROVE  Followed(x)'
<1>1. /\ Kept(x) /\ Told(x) /\ Permitted(x) /\ InHand(x) /\ OnRow(x)
      /\ UNCHANGED <<committed, adrift>>
  BY StepTyped DEF files
<1>2. Kept(x)'
  <2>1. calls[x].step \notin {"none", "insert"}
    BY Unbegun
  <2>2. QED
    BY <1>1, <2>1 DEF Kept
<1>3. Told(x)'
  BY <1>1 DEF Told, Ended, EndOf
<1>4. Permitted(x)'
  BY <1>1 DEF Permitted, Touched, Decision
<1>5. InHand(x)'
  BY <1>1 DEF InHand, Touched, Complete, Reported
<1>6. OnRow(x)'
  BY <1>1 DEF OnRow, Touched, Complete, Reported, Ended
<1>7. QED
  BY <1>2, <1>3, <1>4, <1>5, <1>6 DEF Followed

LEMMA ApproveFollows ==
  ASSUME NEW e \in Executions, NEW source \in Executions, ExecutionIInv,
         Approve(e, source)
  PROVE  ExecutionIInv'
<1>1. /\ calls[e].step = "none"
      /\ executions[source].status = "APPROVAL_REQUIRED"
      /\ executions' = [executions EXCEPT ![source].approval = "CONSUMED"]
      /\ calls' = [calls EXCEPT ![e] =
                      NewExecution(e, executions[source].request, source, FALSE)]
      /\ UNCHANGED <<events, files, committed, adrift, boxes, chat>>
      /\ executions \in [Executions -> Row]
  BY StepTyped DEF Approve, Approvable, Fresh, files
<1>2. source # e /\ calls[source].step # "none"
  BY <1>1, Unbegun
<1>3. executions[source].request \in Requests
  BY <1>1, <1>2, StepTyped DEF Kept, Permitted
<1>4. PICK row \in Row : row = [executions[source] EXCEPT !.approval = "CONSUMED"]
  BY <1>1 DEF Row
<1>5. /\ row.status = executions[source].status /\ row.changed = executions[source].changed
      /\ row.request = executions[source].request
  BY <1>1, <1>4 DEF Row
<1>6. executions' = [executions EXCEPT ![source] = row]
  BY <1>1, <1>4
<1>7. /\ executions' \in [Executions -> Row] /\ executions'[source] = row
      /\ \A x \in Executions \ {source} : executions'[x] = executions[x]
  BY <1>1, <1>6
<1>8. \A x \in Executions \ {e} : calls'[x] = calls[x]
  BY <1>1, <1>3, NewCall
<1>9. \A x \in Executions \ {e} : Followed(x)'
  <2>1. Followed(source)'
    BY <1>1, <1>2, <1>5, <1>7, <1>8, ApprovalUsed
  <2>2. \A x \in Executions \ {e, source} : Followed(x)'
    BY <1>1, <1>7, <1>8, FollowedStays DEF StaysPut, ExecutionIInv
  <2>3. QED
    BY <2>1, <2>2
<1>10. \A x \in Executions : executions'[x].status = executions[x].status
  BY <1>5, <1>7
<1>11. executions'[e] = executions[e]
  BY <1>2, <1>7
<1>12. QED
  BY <1>1, <1>3, <1>7, <1>9, <1>10, <1>11, Begins

-----------------------------------------------------------------------------
(* The chat.                                                               *)

\* A step of the chat alone.
LEMMA ChatStep ==
  ASSUME ExecutionIInv, UNCHANGED <<rows, files, boxes, calls>>,
         ChatTypeOK', ChatKnows'
  PROVE  ExecutionIInv'
<1>1. UNCHANGED <<executions, events, committed, adrift, boxes, calls>>
  BY DEF rows, files
<1>2. TypeHolds'
  BY <1>1 DEF ExecutionIInv, TypeHolds
<1>3. \A x \in Executions : Followed(x)'
  BY <1>1, FollowedStays DEF StaysPut, ExecutionIInv
<1>4. QED
  BY <1>2, <1>3 DEF ExecutionIInv

LEMMA ChatParts ==
  ASSUME ExecutionIInv
  PROVE  /\ chat \in [step : ChatSteps, iteration : Nat, pending : Seq(Requests),
                      asked : SUBSET Requests, current : Executions \cup {None},
                      succeeded : SUBSET Executions, evidence : SUBSET Executions,
                      claims : BOOLEAN]
         /\ chat.step \in ChatSteps /\ chat.pending \in Seq(Requests)
         /\ chat.current \in Executions \cup {None}
         /\ chat.succeeded \subseteq Executions /\ chat.evidence \subseteq Executions
         /\ chat.asked \subseteq Requests
         /\ ChatKnows
BY DEF ExecutionIInv, ChatTypeOK

\* A run that is over, or was given up, holds nothing.
LEMMA EndedChat ==
  ASSUME NEW step \in {"failed", "left"}, ChatEnds(step)
  PROVE  ChatTypeOK' /\ ChatKnows'
<1>1. chat' = [step |-> step, iteration |-> 0, pending |-> <<>>, asked |-> {},
               current |-> None, succeeded |-> {}, evidence |-> {}, claims |-> FALSE]
  BY DEF ChatEnds, NewChat
<1>2. ChatTypeOK'
  BY <1>1 DEF ChatTypeOK, ChatSteps
<1>3. /\ chat'.step = step /\ chat'.current = None /\ chat'.succeeded = {}
  BY <1>1
<1>4. QED
  BY <1>2, <1>3 DEF ChatKnows, EvidenceIsReal

\* What the run holds for its evidence is kept while it goes on.
LEMMA GoingChat ==
  ASSUME ExecutionIInv, UNCHANGED <<rows, files, boxes, calls>>, ChatTypeOK',
         chat'.step \in {"thinking", "calling"},
         chat'.step = "calling" => chat'.pending # <<>>,
         chat'.current # None => calls[chat'.current].chats,
         \A e \in chat'.succeeded :
            calls[e].chats /\ executions[e].status = "SUCCEEDED"
  PROVE  ExecutionIInv'
<1>1. UNCHANGED <<executions, calls>>
  BY DEF rows
<1>2. ChatKnows'
  BY <1>1 DEF ChatKnows, EvidenceIsReal
<1>3. QED
  BY <1>2, ChatStep

LEMMA ChatFinalFollows ==
  ASSUME NEW evidence \in SUBSET Executions, NEW claims \in BOOLEAN, ExecutionIInv,
         ChatFinal(evidence, claims)
  PROVE  ExecutionIInv'
<1>1. UNCHANGED <<rows, files, boxes, calls>> /\ UNCHANGED <<executions, calls>>
  BY DEF ChatFinal, rows
<1>2. CASE Verified(evidence, claims)
  <2>1. chat' = [NewChat EXCEPT !.step = "completed", !.evidence = evidence,
                                !.claims = claims]
    BY <1>2 DEF ChatFinal
  <2>2. chat' = [step |-> "completed", iteration |-> 0, pending |-> <<>>, asked |-> {},
                 current |-> None, succeeded |-> {}, evidence |-> evidence,
                 claims |-> claims]
    BY <2>1 DEF NewChat
  <2>3. ChatTypeOK'
    BY <2>2 DEF ChatTypeOK, ChatSteps
  <2>4. /\ chat'.step = "completed" /\ chat'.current = None /\ chat'.succeeded = {}
        /\ chat'.evidence = evidence
    BY <2>2
  <2>5. chat'.claims => claims
    BY <2>2
  <2>6. \A e \in evidence : calls[e].chats /\ executions[e].status = "SUCCEEDED"
    BY <1>2, ChatParts DEF Verified, ChatKnows
  <2>7. claims => evidence # {}
    BY <1>2 DEF Verified
  <2>8. EvidenceIsReal'
    BY <1>1, <2>4, <2>5, <2>6, <2>7 DEF EvidenceIsReal
  <2>9. ChatKnows'
    BY <2>4, <2>8 DEF ChatKnows
  <2>10. QED
    BY <1>1, <2>3, <2>9, ChatStep
<1>3. CASE ~Verified(evidence, claims)
  BY <1>1, <1>3, EndedChat, ChatStep DEF ChatFinal, ChatFails
<1>4. QED
  BY <1>2, <1>3

LEMMA ChatResultFollows ==
  ASSUME ExecutionIInv, ChatResult
  PROVE  ExecutionIInv'
<1>1. UNCHANGED <<rows, files, boxes, calls>>
  BY DEF ChatResult
<1>2. CASE ChatFails
  BY <1>1, <1>2, EndedChat, ChatStep DEF ChatFails
<1>3. CASE ~ChatFails
  <2>1. /\ chat.step = "calling" /\ chat.current \in Executions
        /\ calls[chat.current].step = "ended" /\ calls[chat.current].chats
        /\ chat.pending # <<>> /\ Tail(chat.pending) \in Seq(Requests)
    <3>1. chat.step = "calling" /\ chat.current # None /\ At(chat.current, "ended")
      BY <1>3 DEF ChatResult
    <3>2. chat.pending # <<>> /\ calls[chat.current].chats
      BY <3>1, ChatParts DEF ChatKnows
    <3>3. QED
      BY <3>1, <3>2, ChatParts DEF At
  <2>2. calls[chat.current].status = "SUCCEEDED" =>
           executions[chat.current].status = "SUCCEEDED"
    BY <2>1, StepTyped DEF Kept
  <2>3. PICK succeeded \in SUBSET Executions :
           succeeded = IF calls[chat.current].status = "SUCCEEDED"
                       THEN chat.succeeded \cup {chat.current} ELSE chat.succeeded
    BY <2>1, ChatParts
  <2>4. \A e \in succeeded : calls[e].chats /\ executions[e].status = "SUCCEEDED"
    BY <2>1, <2>2, <2>3, ChatParts DEF ChatKnows
  <2>5. PICK c \in [step : ChatSteps, iteration : Nat, pending : Seq(Requests),
                    asked : SUBSET Requests, current : Executions \cup {None},
                    succeeded : SUBSET Executions, evidence : SUBSET Executions,
                    claims : BOOLEAN] :
           c = [chat EXCEPT !.current = None, !.pending = Tail(chat.pending),
                            !.succeeded = succeeded]
    BY <2>1, ChatParts
  <2>6. /\ c.step = "calling" /\ c.current = None /\ c.succeeded = succeeded
    BY <2>1, <2>5, ChatParts
  <2>7. chat' = NextIteration(c)
    BY <1>3, <2>3, <2>5 DEF ChatResult
  <2>8. CASE c.pending # <<>>
    <3>1. chat' = c
      BY <2>7, <2>8 DEF NextIteration
    <3>2. ChatTypeOK'
      BY <2>5, <3>1 DEF ChatTypeOK
    <3>3. QED
      BY <1>1, <2>4, <2>6, <2>8, <3>1, <3>2, GoingChat
  <2>9. CASE c.pending = <<>> /\ c.iteration = MaxIterations
    BY <1>1, <1>3, <2>7, <2>9, EndedChat, ChatStep DEF NextIteration, ChatEnds, ChatFails
  <2>10. CASE c.pending = <<>> /\ c.iteration # MaxIterations
    <3>1. chat' = [c EXCEPT !.step = "thinking", !.iteration = @ + 1]
      BY <2>7, <2>10 DEF NextIteration
    <3>2. c.iteration + 1 \in Nat
      <4>1. c.iteration \in Nat
        OBVIOUS
      <4>2. QED
        BY <4>1
    <3>3. ChatTypeOK'
      BY <2>5, <3>1, <3>2 DEF ChatTypeOK, ChatSteps
    <3>4. chat'.step = "thinking" /\ chat'.current = None /\ chat'.succeeded = succeeded
      BY <2>5, <2>6, <3>1
    <3>5. QED
      BY <1>1, <2>4, <3>3, <3>4, GoingChat
  <2>11. QED
    BY <2>8, <2>9, <2>10
<1>4. QED
  BY <1>2, <1>3

LEMMA ChatGoesFollows ==
  ASSUME ExecutionIInv, ChatStart \/ ChatProtocolFails \/ ChatLeave
  PROVE  ExecutionIInv'
<1>1. CASE ChatStart
  <2>1. /\ chat.step = "idle" /\ UNCHANGED <<rows, files, boxes, calls>>
        /\ chat' = [chat EXCEPT !.step = "thinking", !.iteration = 1]
    BY <1>1 DEF ChatStart
  <2>2. ChatTypeOK'
    BY <2>1, ChatParts DEF ChatTypeOK, ChatSteps
  <2>3. /\ chat'.step = "thinking" /\ chat'.current = chat.current
        /\ chat'.succeeded = chat.succeeded
    BY <2>1, ChatParts
  <2>4. QED
    BY <2>1, <2>2, <2>3, ChatParts, GoingChat DEF ChatKnows
<1>2. CASE ChatProtocolFails
  BY <1>2, EndedChat, ChatStep DEF ChatProtocolFails, ChatFails
<1>3. CASE ChatLeave
  BY <1>3, EndedChat, ChatStep DEF ChatLeave
<1>4. QED
  BY <1>1, <1>2, <1>3

LEMMA ChatWantsToolsFollows ==
  ASSUME NEW wanted \in Envelopes, ExecutionIInv, ChatWantsTools(wanted)
  PROVE  ExecutionIInv'
<1>1. wanted \in Seq(Requests) /\ wanted # <<>>
  <2>1. PICK n \in 1..MaxCalls : wanted \in [1..n -> Requests]
    BY DEF Envelopes
  <2>2. n \in Nat /\ n >= 1
    BY <2>1
  <2>3. wanted \in Seq(Requests) /\ Len(wanted) = n
    BY <2>1, <2>2
  <2>4. QED
    BY <2>2, <2>3
<1>2. /\ UNCHANGED <<rows, files, boxes, calls>>
      /\ chat' = [chat EXCEPT !.step = "calling", !.pending = wanted]
  BY DEF ChatWantsTools
<1>3. ChatTypeOK'
  BY <1>1, <1>2, ChatParts DEF ChatTypeOK, ChatSteps
<1>4. /\ chat'.step = "calling" /\ chat'.pending = wanted
      /\ chat'.current = chat.current /\ chat'.succeeded = chat.succeeded
  BY <1>2, ChatParts
<1>5. QED
  BY <1>1, <1>2, <1>3, <1>4, ChatParts, GoingChat DEF ChatKnows

LEMMA ChatCallFollows ==
  ASSUME NEW e \in Executions, ExecutionIInv, ChatCall(e)
  PROVE  ExecutionIInv'
<1>1. /\ UNCHANGED <<rows, files, boxes>> /\ UNCHANGED <<executions, events, committed, adrift>>
      /\ chat.step = "calling" /\ chat.current = None
  BY DEF ChatCall, rows, files
<1>2. CASE Repeated
  BY <1>2, EndedChat, ChatStep DEF ChatCall, ChatFails
<1>3. CASE ~Repeated
  <2>1. /\ calls[e].step = "none"
        /\ calls' = [calls EXCEPT ![e] = NewExecution(e, Head(chat.pending), None, TRUE)]
        /\ chat' = [chat EXCEPT !.current = e, !.asked = @ \cup {Head(chat.pending)}]
    BY <1>3 DEF ChatCall, Fresh
  <2>2. chat.pending # <<>> /\ Head(chat.pending) \in Requests
    BY <1>1, ChatParts DEF ChatKnows
  <2>3. /\ calls' \in [Executions -> Call]
        /\ calls'[e].step = "insert" /\ calls'[e].request = Head(chat.pending)
        /\ calls'[e].source = None /\ calls'[e].chats = TRUE
        /\ calls'[e].granted <=> None # None
        /\ calls'[e].ran = FALSE
        /\ \A x \in Executions \ {e} : calls'[x] = calls[x]
    <3>1. TRUE \in BOOLEAN /\ None \in Executions \cup {None}
      OBVIOUS
    <3>2. QED
      BY <2>1, <2>2, <3>1, NewCall, Zenon
  <2>4. Followed(e)'
    BY <1>1, <2>1, <2>2, <2>3, BeginsFollowed
  <2>5. \A x \in Executions \ {e} : Followed(x)'
    BY <1>1, <2>3, FollowedStays DEF StaysPut, ExecutionIInv
  <2>6. TypeHolds'
    BY <1>1, <2>3 DEF ExecutionIInv, TypeHolds
  <2>7. ChatTypeOK'
    BY <2>1, <2>2, ChatParts DEF ChatTypeOK
  <2>8. /\ chat'.step = "calling" /\ chat'.pending = chat.pending /\ chat'.current = e
        /\ chat'.succeeded = chat.succeeded
    BY <1>1, <2>1, ChatParts
  <2>9. \A x \in chat'.succeeded : calls'[x].chats /\ executions'[x].status = "SUCCEEDED"
    <3>1. executions[e].status # "SUCCEEDED"
      BY <2>1, FreshUnknown
    <3>2. QED
      BY <1>1, <2>3, <2>8, <3>1, ChatParts DEF ChatKnows
  <2>10. ChatKnows'
    BY <2>2, <2>3, <2>8, <2>9 DEF ChatKnows, EvidenceIsReal
  <2>11. QED
    BY <2>4, <2>5, <2>6, <2>7, <2>10 DEF ExecutionIInv
<1>4. QED
  BY <1>2, <1>3

-----------------------------------------------------------------------------
(* The server stops.                                                       *)

LEMMA ServerStopsFollows ==
  ASSUME ExecutionIInv, ServerStops
  PROVE  ExecutionIInv'
<1>1. PICK sent \in SUBSET {e \in Executions : calls[e].step \in {"reconcile", "synchronize"}} :
         adrift' = adrift \cup sent
  BY DEF ServerStops
<1>2. PICK made \in SUBSET {e \in Executions : At(e, "create")} : boxes' = boxes \cup made
  BY DEF ServerStops
<1>3. /\ UNCHANGED <<executions, events, committed>>
      /\ calls' = [e \in Executions |-> IF Over(e) THEN calls[e] ELSE Gone(calls[e])]
  BY DEF ServerStops, rows
<1>4. calls' \in [Executions -> Call]
  BY <1>3, GoneParts DEF ExecutionIInv, TypeHolds
<1>5. ASSUME NEW e \in Executions
      PROVE  Followed(e)' /\ (calls[e].chats => calls'[e].chats)
  <2>1. /\ Kept(e) /\ Told(e) /\ Permitted(e) /\ InHand(e) /\ OnRow(e)
        /\ calls[e] \in Call
    BY StepTyped
  <2>2. CASE Over(e)
    <3>1. StaysPut(e)
      BY <1>1, <1>2, <1>3, <2>2 DEF StaysPut, Over, At
    <3>2. QED
      BY <3>1, FollowedStays DEF StaysPut, ExecutionIInv
  <2>3. CASE ~Over(e)
    <3>1. /\ calls'[e].step = "aborted" /\ calls'[e].ran = calls[e].ran
          /\ calls'[e].request = calls[e].request /\ calls'[e].granted = calls[e].granted
          /\ calls'[e].source = calls[e].source /\ calls'[e].chats = calls[e].chats
      BY <1>3, <2>1, <2>3, GoneParts
    <3>2. e \in sent => executions[e].status = "RUNNING" /\ Decision(e) = "permitted"
      BY <1>1, <2>1 DEF Kept, Trying, InBox, Permitted
    <3>3. e \in made => executions[e].status = "RUNNING"
      BY <1>2, <2>1 DEF Kept, Trying, InBox, At
    <3>4. Kept(e)'
      BY <1>3, <2>1, <3>1, KeptAborted
    <3>5. Told(e)'
      BY <1>3, <2>1 DEF Told, Ended, EndOf
    <3>6. Permitted(e)'
      BY <1>1, <1>3, <2>1, <2>3, <3>1, <3>2, PermittedAborted DEF Touched, Over
    <3>7. InHand(e)'
      BY <3>1, InHandAborted
    <3>8. OnRow(e)'
      BY <1>1, <1>2, <1>3, <2>1, <3>1, <3>2, <3>3
         DEF OnRow, Complete, Reported, Touched, Ended, Final
    <3>9. QED
      BY <3>1, <3>4, <3>5, <3>6, <3>7, <3>8 DEF Followed
  <2>4. QED
    BY <2>2, <2>3
<1>6. TypeHolds'
  BY <1>1, <1>2, <1>3, <1>4 DEF ExecutionIInv, TypeHolds
<1>7. ChatTypeOK' /\ ChatKnows'
  <2>1. CASE ChatEnds("left")
    BY <2>1, EndedChat
  <2>2. CASE UNCHANGED chat
    BY <1>3, <1>5, <2>2, ChatStays DEF ExecutionIInv
  <2>3. QED
    BY <2>1, <2>2 DEF ServerStops
<1>8. QED
  BY <1>5, <1>6, <1>7 DEF ExecutionIInv

-----------------------------------------------------------------------------
(* The invariant holds.                                                    *)

LEMMA ExecutionStarts ==
  ASSUME ExecutionInit
  PROVE  ExecutionIInv
<1>1. /\ executions = [e \in Executions |-> NoRow] /\ events = [e \in Executions |-> <<>>]
      /\ committed = {} /\ adrift = {} /\ boxes = {}
      /\ calls = [e \in Executions |-> NoCall] /\ chat = NewChat
  BY DEF ExecutionInit
<1>2. TypeHolds
  <2>1. NoRow \in Row
    BY DEF NoRow, Row
  <2>2. NoCall \in Call
    BY DEF NoCall, Call, Steps, Final
  <2>3. QED
    BY <1>1, <2>1, <2>2 DEF TypeHolds
<1>3. ChatTypeOK
  BY <1>1 DEF ChatTypeOK, NewChat, ChatSteps
<1>4. ChatKnows
  BY <1>1 DEF ChatKnows, EvidenceIsReal, NewChat
<1>5. ASSUME NEW e \in Executions
      PROVE  Followed(e)
  <2>1. /\ executions[e] = NoRow /\ executions[e].status = "NONE"
        /\ executions[e].changed = FALSE /\ events[e] = <<>>
        /\ ~Touched(e) /\ e \notin boxes
    BY <1>1 DEF Touched, NoRow
  <2>2. /\ calls[e].step = "none" /\ calls[e].source = None /\ calls[e].ran = FALSE
        /\ calls[e].granted = FALSE /\ calls[e].chats = FALSE
    BY <1>1 DEF NoCall
  <2>3. Kept(e) /\ Told(e)
    BY <2>1, <2>2 DEF Kept, Told, Trying, InBox
  <2>4. Permitted(e)
    BY <2>1, <2>2 DEF Permitted, InBox
  <2>5. InHand(e)
    BY <2>1, <2>2 DEF InHand
  <2>6. OnRow(e)
    BY <2>1 DEF OnRow, Ended, Final
  <2>7. QED
    BY <2>3, <2>4, <2>5, <2>6 DEF Followed
<1>6. QED
  BY <1>2, <1>3, <1>4, <1>5 DEF ExecutionIInv

LEMMA ExecutionGoesOn ==
  ASSUME ExecutionIInv, [ExecutionNext]_executionVars
  PROVE  ExecutionIInv'
<1>1. ASSUME NEW e \in Executions, Step(e)
      PROVE  ExecutionIInv'
  BY <1>1, InsertFollows, AnnounceFollows, EnterFollows, FileCaptureFollows,
     FileHandlerFollows, FileReconcileFollows, SlotFollows, BoxCaptureFollows,
     BoxCreateFollows, BoxUploadFollows, BoxCommandFollows, BoxDownloadFollows,
     BoxSynchronizeFollows, BoxCloseFollows, BoxClosingFollows, ForwardCancelFollows,
     FinishFollows, ReportFollows, ConcludeFollows DEF Step
<1>2. CASE UNCHANGED executionVars
  <2>1. UNCHANGED <<rows, files, boxes, calls, chat>>
    BY <1>2 DEF executionVars, rows, files
  <2>2. ChatTypeOK' /\ ChatKnows'
    BY <1>2, ChatStays DEF executionVars, ExecutionIInv
  <2>3. QED
    BY <2>1, <2>2, ChatStep
<1>3. QED
  BY <1>1, <1>2, ToolRequestFollows, ApproveFollows, CancelFollows, CommitLandsFollows,
     BoxExpiresFollows, ChatCallFollows, ChatGoesFollows, ChatResultFollows,
     ServerStopsFollows, ChatWantsToolsFollows, ChatFinalFollows
     DEF ExecutionNext

\* The invariant holds of every reachable state.
THEOREM ExecutionFollowed == ExecutionSpec => []ExecutionIInv
BY ExecutionStarts, ExecutionGoesOn, PTL DEF ExecutionSpec

-----------------------------------------------------------------------------
(* What follows from it.                                                   *)

LEMMA SuccessFollows == ExecutionIInv => SuccessIsComplete
BY DEF ExecutionIInv, Followed, OnRow, Complete, SuccessIsComplete

LEMMA ReportsFollow == ExecutionIInv => ChangesReported
<1>1. SUFFICES ASSUME ExecutionIInv, NEW e \in committed \cup adrift, Ended(e)
               PROVE  \/ executions[e].changed
                      \/ executions[e].status \in {"SYNC_FAILED", "CANCELLED"}
                      \/ /\ executions[e].status = "FAILED"
                         /\ executions[e].request.tool \in _MUTATING_FILE_TOOLS
  BY DEF ChangesReported
<1>2. e \in Executions
  BY <1>1 DEF ExecutionIInv, TypeHolds
<1>3. Kept(e) /\ OnRow(e)
  BY <1>1, <1>2, StepTyped
<1>4. executions[e].request = calls[e].request
  BY <1>1, <1>3 DEF Kept, Ended, Final
<1>5. QED
  BY <1>1, <1>3, <1>4 DEF OnRow, Reported, Touched

\* The events of an execution have one of five forms.
LEMMA LogsTell ==
  ASSUME NEW e, Told(e), executions[e].changed \in BOOLEAN
  PROVE  LET log == events[e]
             n == Len(log)
         IN  /\ \A i \in 1..n : log[i] = "tool.started" <=> i = 1
             /\ \A i \in 1..n : log[i] = "file.changed" => executions[e].changed
             /\ \A i \in 1..n : log[i] \in {"tool.completed", "tool.failed"} =>
                   /\ i = n /\ Ended(e)
                   /\ log[i] = "tool.completed" <=> executions[e].status = "SUCCEEDED"
                   /\ executions[e].changed => n = 3
<1>1. CASE events[e] = <<>>
  BY <1>1
<1>2. CASE events[e] = <<"tool.started">>
  BY <1>2
<1>3. CASE executions[e].changed /\ events[e] = <<"tool.started", "file.changed">>
  BY <1>3
<1>4. CASE ~executions[e].changed /\ Ended(e) /\ events[e] = <<"tool.started", EndOf(e)>>
  BY <1>4 DEF EndOf
<1>5. CASE /\ executions[e].changed /\ Ended(e)
           /\ events[e] = <<"tool.started", "file.changed", EndOf(e)>>
  BY <1>5 DEF EndOf
<1>6. QED
  BY <1>1, <1>2, <1>3, <1>4, <1>5 DEF Told

LEMMA TypesFollow == ExecutionIInv => ExecutionTypeOK
BY DEF ExecutionIInv, TypeHolds, ChatTypeOK, ExecutionTypeOK

LEMMA EventsFollow == ExecutionIInv => EventsTell
<1>1. SUFFICES ASSUME ExecutionIInv
               PROVE  EventsTell
  OBVIOUS
<1>2. \A e \in Executions : Told(e) /\ executions[e].changed \in BOOLEAN
  BY <1>1 DEF ExecutionIInv, TypeHolds, Followed, Row
<1>3. QED
  BY <1>1, <1>2, LogsTell, TypesFollow, Zenon DEF EventsTell

\* Success on a row is the files of the workspace, with nothing on its way and
\* no sandbox left, whatever was lost, cancelled or restarted.
THEOREM AlwaysComplete == ExecutionSpec => []SuccessIsComplete
BY ExecutionFollowed, SuccessFollows, PTL

\* What changed files says so on its row, or says why it may have.
THEOREM AlwaysReported == ExecutionSpec => []ChangesReported
BY ExecutionFollowed, ReportsFollow, PTL

\* The events of every execution tell its start, its changes and its one end.
THEOREM AlwaysTold == ExecutionSpec => []EventsTell
BY ExecutionFollowed, EventsFollow, PTL

\* A completed chat answer rests on executions of its own that succeeded.
THEOREM AlwaysEvidence == ExecutionSpec => []EvidenceIsReal
BY ExecutionFollowed, PTL DEF ExecutionIInv, ChatKnows

-----------------------------------------------------------------------------
(* The promise to the owner.                                               *)

PromiseStep == [Promise!PromiseNext]_(Promise!promiseVars)

\* What the promise sees of the calls: the call of e alone may have run.
Moves(e, ran) ==
    /\ calls'[e].ran = ran
    /\ \A x \in Executions : /\ calls'[x].request = calls[x].request
                             /\ calls'[x].source = calls[x].source
                             /\ calls'[x].step = "none" <=> calls[x].step = "none"
    /\ \A x \in Executions \ {e} : calls'[x].ran = calls[x].ran

LEMMA EffectMoves ==
  ASSUME NEW e \in Executions, NEW step, NEW status, NEW changed, NEW ran,
         Effect(e, step, status, changed, ran),
         step # "none", calls[e].step # "none"
  PROVE  Moves(e, ran)
BY DEF Effect, Moves

\* Every way a call goes on.
LEMMA CallMoves ==
  ASSUME NEW e \in Executions, ExecutionIInv, calls[e].step # "none",
         NEW step \in Steps \ {"none"}, NEW status \in Final, NEW changed \in BOOLEAN,
         \/ Goto(e, step) \/ Settle(e, status, changed) \/ Leave(e, status, changed)
         \/ Forward(e) \/ Abort(e)
  PROVE  Moves(e, calls[e].ran)
<1>1. calls \in [Executions -> Call]
  BY StepTyped
<1>2. CASE Goto(e, step)
  BY <1>1, <1>2, GotoEffect, EffectMoves
<1>3. CASE Settle(e, status, changed)
  BY <1>1, <1>3, SettleEffect, EffectMoves
<1>4. CASE Leave(e, status, changed)
  BY <1>1, <1>4, LeaveEffect, EffectMoves
<1>5. CASE Forward(e)
  BY <1>1, <1>5, ForwardEffect, EffectMoves
<1>6. CASE Abort(e)
  BY <1>1, <1>6, AbortEffect, EffectMoves
<1>7. QED
  BY <1>2, <1>3, <1>4, <1>5, <1>6

\* What is as far as it was, of the same work and approval.
LEMMA SameProgress ==
  ASSUME NEW x \in Executions, calls'[x].step = "none" <=> calls[x].step = "none",
         executions'[x].approval = executions[x].approval,
         \/ executions'[x].status = executions[x].status
         \/ {executions[x].status, executions'[x].status} \subseteq {"NONE", "RUNNING"}
  PROVE  Progressed(x)' = Progressed(x)
BY DEF Progressed, Fresh

\* A step that e takes, doing what it may.
LEMMA ActsOrNot ==
  ASSUME NEW e \in Executions, ExecutionIInv, NEW ran \in BOOLEAN, Moves(e, ran),
         \A x \in Executions : Progressed(x)' = Progressed(x),
         committed' \in {committed, committed \cup {e}},
         ran \/ ~calls[e].ran,
         \/ committed' = committed /\ (ran <=> calls[e].ran)
         \/ Progressed(e) \in {"running", "over"} /\ Decision(e) = "permitted"
  PROVE  PromiseStep
<1> DEFINE progress == [x \in Executions |-> Progressed(x)]
           work == [x \in Executions |-> calls[x].request]
           approved == {x \in Executions : calls[x].source # None}
           effects == committed \cup {x \in Executions : calls[x].ran}
<1>1. progress' = progress
  OBVIOUS
<1>2. work' = work /\ approved' = approved
  BY DEF Moves
<1>3. \A x \in Executions \ {e} : x \in effects' <=> x \in effects
  BY DEF Moves
<1>4. e \in effects' <=> e \in committed' \/ ran
  BY DEF Moves
<1>5. e \in effects <=> e \in committed \/ calls[e].ran
  OBVIOUS
<1>6. effects \subseteq Executions /\ effects' \subseteq Executions
  BY StepTyped
<1>7. CASE committed' = committed /\ (ran <=> calls[e].ran)
  <2>1. effects' = effects
    BY <1>3, <1>4, <1>5, <1>6, <1>7
  <2>2. QED
    BY <1>1, <1>2, <2>1 DEF PromiseStep, Promise!promiseVars
<1>8. CASE Progressed(e) \in {"running", "over"} /\ Decision(e) = "permitted"
  <2>1. calls[e].request \in NeedsApproval => calls[e].source # None
    <3>1. calls[e].granted <=> calls[e].source # None
      BY StepTyped DEF Permitted
    <3>2. calls[e].request \in NeedsApproval => classify(calls[e].request, FALSE) = "approval"
      BY DEF NeedsApproval
    <3>3. calls[e].granted \in BOOLEAN
      BY StepTyped, CallParts
    <3>4. calls[e].request \in NeedsApproval => calls[e].granted # FALSE
      BY <1>8, <3>2 DEF Decision
    <3>5. QED
      BY <3>1, <3>3, <3>4
  <2>2. effects' = effects \cup {e} \/ effects' = effects
    BY <1>3, <1>4, <1>5, <1>6
  <2>3. CASE effects' = effects
    BY <1>1, <1>2, <2>3 DEF PromiseStep, Promise!promiseVars
  <2>4. CASE effects' = effects \cup {e}
    <3>1. progress[e] \in {"running", "over"}
      BY <1>8
    <3>2. work[e] \in NeedsApproval => e \in approved
      BY <2>1
    <3>3. Promise!Act(e)
      BY <1>1, <1>2, <2>4, <3>1, <3>2 DEF Promise!Act
    <3>4. QED
      BY <3>3 DEF PromiseStep, Promise!PromiseNext
  <2>5. QED
    BY <2>2, <2>3, <2>4
<1>9. QED
  BY <1>7, <1>8

\* A step that does nothing the owner would see.
LEMMA Unseen ==
  ASSUME NEW e \in Executions, ExecutionIInv, Moves(e, calls[e].ran),
         \A x \in Executions : Progressed(x)' = Progressed(x), UNCHANGED committed
  PROVE  PromiseStep
<1>1. committed' \in {committed, committed \cup {e}} /\ committed' = committed
  OBVIOUS
<1>2. PICK ran \in BOOLEAN : ran = calls[e].ran
  BY StepTyped
<1>3. Moves(e, ran)
  BY <1>2
<1>4. (ran \/ ~calls[e].ran) /\ (ran <=> calls[e].ran)
  BY <1>2, Zenon
<1>5. \/ committed' = committed /\ (ran <=> calls[e].ran)
      \/ Progressed(e) \in {"running", "over"} /\ Decision(e) = "permitted"
  BY <1>1, <1>4
<1>6. QED
  BY <1>1, <1>3, <1>4, <1>5, ActsOrNot

\* The steps that change the call alone, or with the sandbox.
LEMMA CallKeepsPromise ==
  ASSUME NEW e \in Executions, ExecutionIInv, UNCHANGED <<executions, committed>>,
         Moves(e, calls[e].ran)
  PROVE  PromiseStep
<1>1. \A x \in Executions : Progressed(x)' = Progressed(x)
  BY SameProgress DEF Moves
<1>2. QED
  BY <1>1, Unseen

\* A call within the try statement acts as it was permitted to.
LEMMA ActKeepsPromise ==
  ASSUME NEW e \in Executions, ExecutionIInv, NEW ran \in BOOLEAN, Moves(e, ran),
         UNCHANGED executions, calls[e].step \in {"reconcile"} \cup InBox,
         committed' \in {committed, committed \cup {e}}, ran \/ ~calls[e].ran
  PROVE  PromiseStep
<1>1. \A x \in Executions : Progressed(x)' = Progressed(x)
  BY SameProgress DEF Moves
<1>2. Decision(e) = "permitted" /\ executions[e].status = "RUNNING"
  BY StepTyped DEF Permitted, Kept, Trying
<1>3. Progressed(e) = "running"
  BY <1>2 DEF Progressed, Fresh, InBox
<1>4. QED
  BY <1>1, <1>2, <1>3, ActsOrNot

LEMMA SyncKeepsPromise ==
  ASSUME NEW e \in Executions, ExecutionIInv, Moves(e, calls[e].ran),
         UNCHANGED executions, calls[e].step \in {"reconcile"} \cup InBox,
         committed' \in {committed, committed \cup {e}}
  PROVE  PromiseStep
<1>1. PICK ran \in BOOLEAN : ran = calls[e].ran
  BY StepTyped
<1>2. Moves(e, ran)
  BY <1>1
<1>3. ran \/ ~calls[e].ran
  BY <1>1, Zenon
<1>4. QED
  BY <1>2, <1>3, ActKeepsPromise

LEMMA UnansweredCommits ==
  ASSUME NEW e \in Executions, Unanswered(e)
  PROVE  committed' \in {committed, committed \cup {e}}
BY DEF Unanswered, CommitFiles, files

LEMMA StepKeepsPromise ==
  ASSUME NEW e \in Executions, ExecutionIInv, Step(e) \/ Cancel(e), ~Finish(e)
  PROVE  PromiseStep
<1>1. calls[e].step # "none" /\ calls[e].ran \in BOOLEAN /\ calls[e].changed \in BOOLEAN
      /\ calls \in [Executions -> Call]
  BY StepTyped DEF Step, Cancel, Broken, Insert, Announce, Enter, FileCapture,
     FileHandler, FileReconcile, Slot, BoxCapture, BoxCreate, BoxUpload, BoxCommand,
     BoxDownload, BoxSynchronize, BoxClose, BoxClosing, ForwardCancel, Report,
     Conclude, Finish, At
<1> DEFINE Still == Moves(e, calls[e].ran)
<1>2. ASSUME NEW step \in Steps \ {"none"}, Goto(e, step)
      PROVE  Still
  BY <1>1, <1>2, GotoEffect, EffectMoves
<1>3. ASSUME NEW status \in Final, NEW changed \in BOOLEAN,
             Settle(e, status, changed) \/ Leave(e, status, changed)
      PROVE  Still
  BY <1>1, <1>3, SettleEffect, LeaveEffect, EffectMoves
<1>4. ASSUME Forward(e) \/ Abort(e)
      PROVE  Still
  BY <1>1, <1>4, ForwardEffect, AbortEffect, EffectMoves
<1>5. /\ {"SUCCEEDED", "FAILED", "APPROVAL_REQUIRED", "CANCELLED", "TIMED_OUT",
          "SYNC_FAILED"} \subseteq Final
      /\ {"announce", "enter", "capture", "slot", "handler", "reconcile", "forward",
          "finish", "report", "conclude", "ended", "create", "upload", "command",
          "download", "synchronize"} \subseteq Steps \ {"none"}
  BY DEF Final, Steps, InBox
<1> HIDE DEF Still
<1>6. CASE Insert(e)
  <2>1. Still
    BY <1>2, <1>4, <1>5, <1>6 DEF Insert
  <2>2. Moves(e, calls[e].ran) /\ UNCHANGED committed
    BY <1>6, <2>1 DEF Still, Insert, files
  <2>3. \A x \in Executions : Progressed(x)' = Progressed(x)
    <3>1. /\ executions \in [Executions -> Row] /\ executions[e].status = "NONE"
          /\ executions[e] = NoRow
      BY <1>6, StepTyped, Unbegun DEF Insert, At
    <3>2. \A x \in Executions \ {e} : executions'[x] = executions[x]
      BY <1>6, <3>1 DEF Insert, InsertedRow
    <3>3. executions'[e].status \in {"NONE", "RUNNING"}
      BY <1>6, <3>1 DEF Insert, InsertedRow, NoRow
    <3>4. Progressed(e)' = Progressed(e)
      BY <2>2, <3>1, <3>3 DEF Progressed, Fresh, Moves
    <3>5. QED
      BY <2>2, <3>2, <3>4, SameProgress DEF Moves
  <2>4. QED
    BY <2>2, <2>3, Unseen
<1>7. CASE Announce(e) \/ Report(e) \/ Conclude(e)
  <2>1. Still
    BY <1>2, <1>4, <1>5, <1>7 DEF Announce, Report, Conclude
  <2>2. QED
    BY <1>7, <2>1, CallKeepsPromise DEF Still, Announce, Report, Conclude, files
<1>8. CASE Enter(e)
  <2>1. Still
    <3>1. Decision(e) \in {"permitted", "approval", "rejected"}
      <4>1. calls[e].request \in Requests
        BY <1>1, StepTyped DEF Permitted
      <4>2. QED
        BY <4>1, RequestAssumption DEF Decision, classify, Tools
    <3>2. Goto(e, "capture") \/ Goto(e, "slot") \/ Settle(e, "APPROVAL_REQUIRED", FALSE)
             \/ Settle(e, "FAILED", FALSE)
      BY <1>8, <3>1 DEF Enter
    <3>3. QED
      BY <1>2, <1>3, <1>5, <3>2
  <2>2. QED
    BY <1>8, <2>1, CallKeepsPromise DEF Still, Enter, files, rows
<1>9. CASE FileCapture(e) \/ FileHandler(e) \/ Slot(e) \/ BoxCapture(e)
  <2>1. Still
    BY <1>2, <1>3, <1>5, <1>9 DEF FileCapture, FileHandler, Slot, BoxCapture
  <2>2. QED
    BY <1>9, <2>1, CallKeepsPromise
       DEF Still, FileCapture, FileHandler, Slot, BoxCapture, files, rows
<1>10. CASE BoxCreate(e) \/ BoxUpload(e) \/ BoxDownload(e)
  <2>1. Still
    BY <1>2, <1>3, <1>5, <1>10 DEF BoxCreate, BoxUpload, BoxDownload
  <2>2. QED
    BY <1>10, <2>1, CallKeepsPromise
       DEF Still, BoxCreate, BoxUpload, BoxDownload, files, rows
<1>11. CASE BoxClose(e) \/ BoxClosing(e) \/ ForwardCancel(e)
  <2>1. Still
    BY <1>1, <1>2, <1>3, <1>4, <1>5, <1>11 DEF BoxClose, BoxClosing, ForwardCancel
  <2>2. QED
    BY <1>11, <2>1, CallKeepsPromise
       DEF Still, BoxClose, BoxClosing, ForwardCancel, files, rows
<1>12. CASE FileReconcile(e)
  <2>1. Still /\ calls[e].step = "reconcile" /\ UNCHANGED executions
    BY <1>3, <1>5, <1>12 DEF FileReconcile, At, rows
  <2>2. committed' \in {committed, committed \cup {e}}
    BY <1>12, UnansweredCommits DEF FileReconcile, CommitFiles, files
  <2>3. QED
    BY <2>1, <2>2, SyncKeepsPromise DEF Still
<1>13. CASE BoxSynchronize(e)
  <2>1. \A changed \in BOOLEAN : Synchronized(e, changed) => Still
    <3>1. SUFFICES ASSUME NEW changed \in BOOLEAN, Synchronized(e, changed)
                   PROVE  Still
      OBVIOUS
    <3>2. CASE calls[e].nonzero
      BY <1>3, <1>5, <3>1, <3>2 DEF Synchronized
    <3>3. CASE ~calls[e].nonzero
      BY <1>1, <3>1, <3>3, CloseEffect, EffectMoves DEF Synchronized, Still
    <3>4. QED
      BY <3>2, <3>3
  <2>2. Still /\ calls[e].step = "synchronize" /\ UNCHANGED executions
    BY <1>3, <1>5, <1>13, <2>1 DEF BoxSynchronize, At, rows
  <2>3. committed' \in {committed, committed \cup {e}}
    BY <1>13, UnansweredCommits DEF BoxSynchronize, CommitFiles, files
  <2>4. QED
    BY <2>2, <2>3, SyncKeepsPromise DEF Still, InBox
<1>14. CASE BoxCommand(e)
  <2>1. /\ calls[e].step = "command" /\ UNCHANGED <<executions, committed>>
        /\ committed' \in {committed, committed \cup {e}}
    BY <1>14 DEF BoxCommand, At, rows, files
  <2>2. CASE Still
    BY <2>1, <2>2, CallKeepsPromise DEF Still
  <2>3. CASE Moves(e, TRUE)
    BY <2>1, <2>3, ActKeepsPromise DEF InBox
  <2>4. Still \/ Moves(e, TRUE)
    <3>1. ASSUME NEW nonzero \in BOOLEAN,
                 calls' = [calls EXCEPT ![e].step = "download", ![e].ran = TRUE,
                                        ![e].nonzero = nonzero]
          PROVE  Moves(e, TRUE)
      BY <1>1, <3>1, DownloadEffect, EffectMoves
    <3>2. ASSUME calls' = [calls EXCEPT ![e].step = "closing", ![e].ran = TRUE,
                                        ![e].status = "TIMED_OUT"]
          PROVE  Moves(e, TRUE)
      <4>1. Effect(e, "closing", "TIMED_OUT", calls[e].changed, TRUE)
        BY <1>1, <1>5, <3>2, RanEffect
      <4>2. QED
        BY <1>1, <4>1, EffectMoves
    <3>3. QED
      BY <1>3, <1>5, <1>14, <3>1, <3>2 DEF BoxCommand
  <2>5. QED
    BY <2>2, <2>3, <2>4
<1>15. CASE Cancel(e)
  <2>1. UNCHANGED executions
    BY <1>15 DEF Cancel, rows
  <2>2. CASE Forward(e) /\ UNCHANGED files
    BY <1>4, <2>1, <2>2, CallKeepsPromise DEF Still, files
  <2>3. CASE calls[e].step = "reconcile" /\ Unanswered(e) /\ Forward(e)
    BY <1>1, <1>4, <2>1, <2>3, UnansweredCommits, SyncKeepsPromise DEF Still
  <2>4. CASE calls[e].step = "synchronize" /\ Unanswered(e)
             /\ Leave(e, "CANCELLED", FALSE)
    BY <1>1, <1>3, <1>5, <2>1, <2>4, UnansweredCommits, SyncKeepsPromise DEF Still, InBox
  <2>5. CASE /\ calls[e].step \in {"upload", "command", "download"}
             /\ calls' = [calls EXCEPT ![e].step = "closing", ![e].status = "CANCELLED",
                              ![e].ran = @ \/ (At(e, "command") /\ BoxRuns(e))]
             /\ UNCHANGED <<files, boxes>>
    <3>1. PICK ran \in BOOLEAN : ran = (calls[e].ran \/ (At(e, "command") /\ BoxRuns(e)))
      BY Zenon
    <3>2. calls' = [calls EXCEPT ![e].step = "closing", ![e].status = "CANCELLED",
                                 ![e].ran = ran]
      BY <2>5, <3>1
    <3>3. Effect(e, "closing", "CANCELLED", calls[e].changed, ran)
      BY <1>1, <1>5, <3>2, RanEffect
    <3>4. Moves(e, ran)
      BY <1>1, <3>3, EffectMoves
    <3>5. committed' \in {committed, committed \cup {e}} /\ calls[e].step \in InBox
      BY <2>5 DEF files, InBox
    <3>6. ran \/ ~calls[e].ran
      BY <3>1, Zenon
    <3>7. QED
      BY <2>1, <3>4, <3>5, <3>6, ActKeepsPromise
  <2>6. QED
    BY <1>15, <2>2, <2>3, <2>4, <2>5 DEF Cancel, Broken, At
<1>16. QED
  BY <1>6, <1>7, <1>8, <1>9, <1>10, <1>11, <1>12, <1>13, <1>14, <1>15 DEF Step

\* An execution's end: only one that has not acted may come to wait.
LEMMA FinishKeepsPromise ==
  ASSUME NEW e \in Executions, ExecutionIInv, Finish(e)
  PROVE  PromiseStep
<1> DEFINE progress == [x \in Executions |-> Progressed(x)]
           work == [x \in Executions |-> calls[x].request]
           approved == {x \in Executions : calls[x].source # None}
           effects == committed \cup {x \in Executions : calls[x].ran}
<1>1. /\ calls \in [Executions -> Call] /\ calls[e].step = "finish"
      /\ UNCHANGED committed /\ InHand(e) /\ executions[e].status = "RUNNING"
      /\ executions \in [Executions -> Row] /\ calls[e].status \in Final
  BY StepTyped DEF Finish, At, files, Kept, Trying
<1>2. Moves(e, calls[e].ran)
  <2>1. \/ Effect(e, "report", calls[e].status, calls[e].changed, calls[e].ran)
        \/ Effect(e, "conclude", calls[e].status, calls[e].changed, calls[e].ran)
        \/ Effect(e, "aborted", "FAILED", FALSE, calls[e].ran)
    BY <1>1, GotoEffect, AbortEffect DEF Finish, Steps
  <2>2. QED
    BY <1>1, <2>1, EffectMoves
<1>3. CASE UNCHANGED executions
  BY <1>1, <1>2, <1>3, CallKeepsPromise
<1>4. CASE FinishedRow(e)
  <2>1. /\ \A x \in Executions \ {e} : executions'[x] = executions[x]
        /\ executions'[e].status = calls[e].status
        /\ executions'[e].approval = approval_status(e)
    BY <1>1, <1>4 DEF FinishedRow, Row
  <2>2. \A x \in Executions \ {e} : Progressed(x)' = Progressed(x)
    BY <1>2, <2>1, SameProgress DEF Moves
  <2>3. Progressed(e) = "running"
    BY <1>1 DEF Progressed, Fresh
  <2>4. Progressed(e)' \in IF e \in effects THEN {"succeeded", "over"}
                           ELSE {"waiting", "succeeded", "over"}
    <3>1. calls'[e].step # "none"
      BY <1>1, <1>2 DEF Moves
    <3>2. calls[e].status = "APPROVAL_REQUIRED" => e \notin effects
      BY <1>1 DEF InHand, Touched
    <3>3. CASE calls[e].status = "APPROVAL_REQUIRED"
      <4>1. Progressed(e)' = "waiting"
        BY <2>1, <3>1, <3>3 DEF Progressed, Fresh, approval_status
      <4>2. QED
        BY <3>2, <3>3, <4>1
    <3>4. CASE calls[e].status # "APPROVAL_REQUIRED"
      <4>1. Progressed(e)' \in {"succeeded", "over"}
        BY <1>1, <2>1, <3>1, <3>4 DEF Progressed, Fresh, Final
      <4>2. QED
        BY <4>1
    <3>5. QED
      BY <3>3, <3>4
  <2>5. progress' = [progress EXCEPT ![e] = progress'[e]]
    BY <2>2
  <2>6. progress[e] = "running" /\ progress'[e] = Progressed(e)'
    BY <2>3
  <2>7. work' = work /\ approved' = approved
    BY <1>2 DEF Moves
  <2>8. effects' = effects
    BY <1>1, <1>2 DEF Moves
  <2>9. Promise!End(e)
    BY <2>4, <2>5, <2>6, <2>7, <2>8 DEF Promise!End
  <2>10. QED
    BY <2>9 DEF PromiseStep, Promise!PromiseNext
<1>5. QED
  BY <1>3, <1>4 DEF Finish

\* A request starts an execution of its work, approved by nobody.
LEMMA StartKeepsPromise ==
  ASSUME NEW e \in Executions, ExecutionIInv, calls[e].step = "none",
         NEW request \in Requests, NEW chats \in BOOLEAN,
         calls' = [calls EXCEPT ![e] = NewExecution(e, request, None, chats)],
         UNCHANGED <<executions, committed>>
  PROVE  PromiseStep
<1> DEFINE progress == [x \in Executions |-> Progressed(x)]
           work == [x \in Executions |-> calls[x].request]
           approved == {x \in Executions : calls[x].source # None}
           effects == committed \cup {x \in Executions : calls[x].ran}
<1>1. /\ calls'[e].step = "insert" /\ calls'[e].request = request
      /\ calls'[e].source = None /\ calls'[e].ran = FALSE
      /\ \A x \in Executions \ {e} : calls'[x] = calls[x]
  <2>1. None \in Executions \cup {None}
    OBVIOUS
  <2>2. /\ calls' \in [Executions -> Call]
        /\ calls'[e].step = "insert" /\ calls'[e].request = request
        /\ calls'[e].source = None /\ calls'[e].chats = chats
        /\ calls'[e].granted <=> None # None
        /\ calls'[e].ran = FALSE
        /\ \A x \in Executions \ {e} : calls'[x] = calls[x]
    BY <2>1, NewCall, Zenon
  <2>3. QED
    BY <2>2
<1>2. /\ executions[e].status = "NONE" /\ calls[e].source = None /\ ~calls[e].ran
  BY Unbegun, StepTyped DEF Permitted
<1>3. Progressed(e) = "none" /\ Progressed(e)' = "running"
  <2>1. /\ Fresh(e) /\ ~Fresh(e)' /\ executions[e].status = "NONE"
        /\ executions'[e].status \in {"NONE", "RUNNING"}
    BY <1>1, <1>2 DEF Fresh
  <2>2. QED
    BY <2>1 DEF Progressed
<1>4. \A x \in Executions \ {e} : Progressed(x)' = Progressed(x)
  BY <1>1 DEF Progressed, Fresh
<1>5. progress[e] = "none" /\ progress' = [progress EXCEPT ![e] = "running"]
  BY <1>3, <1>4
<1>6. work' = [work EXCEPT ![e] = request]
  <2>1. \A x \in Executions : calls'[x].request = IF x = e THEN request ELSE work[x]
    BY <1>1
  <2>2. work' = [x \in Executions |-> calls'[x].request]
    OBVIOUS
  <2> HIDE DEF work
  <2>3. work' = [x \in Executions |-> IF x = e THEN request ELSE work[x]]
    BY <2>1, <2>2
  <2>4. QED
    BY <2>3 DEF work
<1>7. approved' = approved /\ effects' = effects
  BY <1>1, <1>2
<1>8. Promise!Start(e)
  BY <1>5, <1>6, <1>7 DEF Promise!Start
<1>9. QED
  BY <1>8 DEF PromiseStep, Promise!PromiseNext

\* An approval is used up by the execution it starts.
LEMMA ApproveKeepsPromise ==
  ASSUME NEW e \in Executions, NEW source \in Executions, ExecutionIInv,
         Approve(e, source)
  PROVE  PromiseStep
<1> DEFINE progress == [x \in Executions |-> Progressed(x)]
           work == [x \in Executions |-> calls[x].request]
           approved == {x \in Executions : calls[x].source # None}
           effects == committed \cup {x \in Executions : calls[x].ran}
<1>1. /\ calls[e].step = "none" /\ UNCHANGED committed
      /\ executions[source].status = "APPROVAL_REQUIRED"
      /\ executions[source].approval = "REQUIRED"
      /\ executions' = [executions EXCEPT ![source].approval = "CONSUMED"]
      /\ calls' = [calls EXCEPT ![e] =
                      NewExecution(e, executions[source].request, source, FALSE)]
      /\ executions \in [Executions -> Row]
  BY StepTyped DEF Approve, Approvable, Fresh, files
<1>2. source # e /\ calls[source].step # "none"
  BY <1>1, Unbegun
<1>3. /\ executions[source].request = calls[source].request
      /\ calls[source].request \in Requests
  BY <1>1, <1>2, StepTyped DEF Kept, Permitted
<1>4. /\ calls'[e].step = "insert" /\ calls'[e].request = calls[source].request
      /\ calls'[e].source = source /\ calls'[e].ran = FALSE
      /\ \A x \in Executions \ {e} : calls'[x] = calls[x]
  <2>1. FALSE \in BOOLEAN /\ source \in Executions \cup {None}
        /\ executions[source].request \in Requests
    BY <1>3
  <2>2. /\ calls' \in [Executions -> Call]
        /\ calls'[e].step = "insert" /\ calls'[e].request = executions[source].request
        /\ calls'[e].source = source /\ calls'[e].chats = FALSE
        /\ calls'[e].granted <=> source # None
        /\ calls'[e].ran = FALSE
        /\ \A x \in Executions \ {e} : calls'[x] = calls[x]
    BY <1>1, <2>1, NewCall, Zenon
  <2>3. QED
    BY <1>3, <2>2
<1>5. /\ executions[e].status = "NONE" /\ calls[e].source = None /\ ~calls[e].ran
  BY <1>1, Unbegun, StepTyped DEF Permitted
<1>6. /\ executions'[source].status = "APPROVAL_REQUIRED"
      /\ executions'[source].approval = "CONSUMED"
      /\ \A x \in Executions \ {source} : executions'[x] = executions[x]
  BY <1>1 DEF Row
<1>7. /\ Progressed(e) = "none" /\ Progressed(e)' = "running"
      /\ Progressed(source) = "waiting" /\ Progressed(source)' = "granted"
  <2>1. /\ Fresh(e) /\ ~Fresh(e)' /\ executions[e].status = "NONE"
        /\ executions'[e].status \in {"NONE", "RUNNING"}
    BY <1>1, <1>2, <1>4, <1>5, <1>6 DEF Fresh
  <2>2. ~Fresh(source) /\ ~Fresh(source)'
    BY <1>2, <1>4 DEF Fresh
  <2>3. Progressed(e) = "none" /\ Progressed(e)' = "running"
    BY <2>1 DEF Progressed
  <2>4. Progressed(source) = "waiting"
    BY <1>1, <2>2 DEF Progressed
  <2>5. Progressed(source)' = "granted"
    BY <1>6, <2>2 DEF Progressed
  <2>6. QED
    BY <2>3, <2>4, <2>5
<1>8. \A x \in Executions \ {e, source} : Progressed(x)' = Progressed(x)
  BY <1>4, <1>6 DEF Progressed, Fresh
<1>9. /\ progress[e] = "none" /\ progress[source] = "waiting"
      /\ progress' = [progress EXCEPT ![e] = "running", ![source] = "granted"]
  BY <1>2, <1>7, <1>8
<1>10. work' = [work EXCEPT ![e] = work[source]]
  BY <1>2, <1>4
<1>11. approved' = approved \cup {e}
  BY <1>4, <1>5, NoneAssumption
<1>12. effects' = effects
  BY <1>1, <1>4, <1>5
<1>13. Promise!StartApproved(e, source)
  BY <1>9, <1>10, <1>11, <1>12 DEF Promise!StartApproved
<1>14. QED
  BY <1>13 DEF PromiseStep, Promise!PromiseNext

\* A commit that was on its way is done, for an execution that did not succeed.
LEMMA LandingKeepsPromise ==
  ASSUME NEW e \in Executions, ExecutionIInv, CommitLands(e)
  PROVE  PromiseStep
<1>1. /\ e \in adrift /\ committed' \in {committed, committed \cup {e}}
      /\ UNCHANGED <<executions, calls>>
  BY DEF CommitLands, CommitFiles, rows
<1>2. PICK ran \in BOOLEAN : ran = calls[e].ran
  BY StepTyped
<1>3. Moves(e, ran)
  BY <1>1, <1>2 DEF Moves
<1>4. \A x \in Executions : Progressed(x)' = Progressed(x)
  BY <1>1 DEF Progressed, Fresh
<1>5. Touched(e)
  BY <1>1 DEF Touched
<1>6. Decision(e) = "permitted"
  BY <1>5, StepTyped DEF Permitted
<1>7. Progressed(e) \in {"running", "over"}
  <2>1. calls[e].step # "none"
    BY <1>5, Unbegun
  <2>2. executions[e].status \notin {"SUCCEEDED", "APPROVAL_REQUIRED"}
    BY <1>1, <1>5, StepTyped DEF OnRow, Complete
  <2>3. QED
    BY <2>1, <2>2 DEF Progressed, Fresh
<1>8. ran \/ ~calls[e].ran
  BY <1>2, Zenon
<1>9. QED
  BY <1>1, <1>3, <1>4, <1>6, <1>7, <1>8, ActsOrNot

LEMMA StopKeepsPromise ==
  ASSUME ExecutionIInv, ServerStops
  PROVE  PromiseStep
<1>1. /\ calls' = [e \in Executions |-> IF Over(e) THEN calls[e] ELSE Gone(calls[e])]
      /\ calls \in [Executions -> Call] /\ UNCHANGED <<executions, committed>>
  BY DEF ServerStops, rows, ExecutionIInv, TypeHolds
<1>2. ASSUME NEW e \in Executions
      PROVE  /\ calls'[e].request = calls[e].request /\ calls'[e].source = calls[e].source
             /\ calls'[e].ran = calls[e].ran
             /\ calls'[e].step = "none" <=> calls[e].step = "none"
  BY <1>1, GoneParts DEF Over
<1>3. \A e \in Executions : Progressed(e)' = Progressed(e)
  BY <1>1, <1>2 DEF Progressed, Fresh
<1>4. QED
  BY <1>1, <1>2, <1>3 DEF PromiseStep, Promise!promiseVars

\* Nothing of the calls, the rows and the files changes.
LEMMA QuietKeepsPromise ==
  ASSUME UNCHANGED <<executions, committed, calls>>
  PROVE  PromiseStep
BY DEF PromiseStep, Promise!promiseVars, Progressed, Fresh

\* What needs approval acts only when an approval was given, which starts one
\* execution of what was asked for; nothing happens after a success.
THEOREM AlwaysKeepsToolPromise == ExecutionSpec => KeepsToolPromise
<1>1. ExecutionInit => Promise!PromiseInit
  <2>1. SUFFICES ASSUME ExecutionInit
                 PROVE  Promise!PromiseInit
    OBVIOUS
  <2>2. /\ committed = {}
        /\ \A e \in Executions : /\ executions[e].status = "NONE" /\ calls[e].step = "none"
                                /\ calls[e].request = None
                                /\ calls[e].source = None /\ calls[e].ran = FALSE
    BY <2>1 DEF ExecutionInit, NoCall, NoRow
  <2>3. \A e \in Executions : Progressed(e) = "none"
    BY <2>2 DEF Progressed, Fresh
  <2>4. QED
    BY <2>2, <2>3 DEF Promise!PromiseInit
<1>2. ExecutionIInv /\ [ExecutionNext]_executionVars => PromiseStep
  <2> SUFFICES ASSUME ExecutionIInv, [ExecutionNext]_executionVars
               PROVE  PromiseStep
    OBVIOUS
  <2>1. CASE UNCHANGED executionVars
    BY <2>1, QuietKeepsPromise DEF executionVars
  <2>2. ASSUME NEW e \in Executions, Step(e) \/ Cancel(e)
        PROVE  PromiseStep
    BY <2>2, StepKeepsPromise, FinishKeepsPromise
  <2>3. ASSUME NEW e \in Executions, NEW request \in Requests, ToolRequest(e, request)
        PROVE  PromiseStep
    <3>1. /\ calls[e].step = "none" /\ UNCHANGED <<executions, committed>>
          /\ calls' = [calls EXCEPT ![e] = NewExecution(e, request, None, FALSE)]
      BY <2>3 DEF ToolRequest, Fresh, rows, files
    <3>2. FALSE \in BOOLEAN
      OBVIOUS
    <3>3. QED
      BY <3>1, <3>2, StartKeepsPromise
  <2>4. ASSUME NEW e \in Executions, BoxExpires(e)
        PROVE  PromiseStep
    BY <2>4, QuietKeepsPromise DEF BoxExpires, rows, files
  <2>5. ASSUME NEW e \in Executions, ChatCall(e)
        PROVE  PromiseStep
    <3>1. CASE Repeated
      BY <2>5, <3>1, QuietKeepsPromise DEF ChatCall, rows, files
    <3>2. CASE ~Repeated
      <4>1. /\ calls[e].step = "none" /\ UNCHANGED <<executions, committed>>
            /\ calls' = [calls EXCEPT ![e] =
                            NewExecution(e, Head(chat.pending), None, TRUE)]
        BY <2>5, <3>2 DEF ChatCall, Fresh, rows, files
      <4>2. Head(chat.pending) \in Requests
        BY <2>5, ChatParts DEF ChatKnows, ChatCall
      <4>3. TRUE \in BOOLEAN
        OBVIOUS
      <4>4. QED
        BY <4>1, <4>2, <4>3, StartKeepsPromise
    <3>3. QED
      BY <3>1, <3>2
  <2>6. ASSUME \/ ChatStart \/ ChatProtocolFails \/ ChatResult \/ ChatLeave
               \/ \E wanted \in Envelopes : ChatWantsTools(wanted)
               \/ \E evidence \in SUBSET Executions, claims \in BOOLEAN :
                     ChatFinal(evidence, claims)
        PROVE  PromiseStep
    BY <2>6, QuietKeepsPromise DEF ChatStart, ChatProtocolFails, ChatResult, ChatLeave,
       ChatWantsTools, ChatFinal, rows, files
  <2>7. QED
    BY <2>1, <2>2, <2>3, <2>4, <2>5, <2>6, ApproveKeepsPromise, LandingKeepsPromise,
       StopKeepsPromise DEF ExecutionNext
<1>3. QED
  BY <1>1, <1>2, ExecutionFollowed, PTL
     DEF ExecutionSpec, KeepsToolPromise, Promise!PromiseSpec, PromiseStep
=============================================================================
