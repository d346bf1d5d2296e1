---------------------------- MODULE DirectorVoice ----------------------------
(***************************************************************************)
(* One voice connection (director_realtime_voice_service.py).  The task of *)
(* the connection reads messages; each turn has a task that streams the    *)
(* Director's words, and one that speaks them, with a bounded queue in     *)
(* between.  They run on one event loop, so a step is what happens from    *)
(* one await to the next.  A task that is cancelled runs no line of these  *)
(* functions that matters any more, so cancelling is one step: but a task  *)
(* that waits for the speaking task passes its cancellation on to it, and  *)
(* goes on when that one returns.                                          *)
(***************************************************************************)
EXTENDS Naturals, Sequences, FiniteSets

CONSTANTS
    MaxTurns,       \* bound: transcripts that are committed
    MaxTokens,      \* bound: pieces of text the streams of all turns yield
    MaxCuts,        \* bound: chunks that one piece of text completes
    QueueSize,      \* maxsize of the queue of chunks (5)
    None

ASSUME VoiceAssumption ==
    /\ MaxTurns \in Nat /\ MaxTokens \in Nat /\ MaxCuts \in Nat
    /\ QueueSize \in Nat \ {0}
    /\ None \notin Nat /\ None \notin Seq(Nat)

Turns == 1..MaxTurns

VARIABLES
    socket,     \* "open", or "left": the client is gone
    handler,    \* what handle_connection awaits
    status,     \* session.status
    current,    \* session.current_turn_id
    active,     \* session.active_tasks
    produce,    \* of every turn, the task that streams
    speak,      \* of every turn, the task that speaks
    queue,      \* of every turn, tts_queue: indexes of chunks, None at the end
    heard,      \* of every turn, what the client was sent
    answering   \* history: the turn begun last, None once the client has left, and
                \* the turns he cut in on

sessionRecord == <<status, current, active>>
tasks == <<produce, speak, queue>>
voiceVars == <<socket, handler, status, current, active, produce, speak, queue,
               heard, answering>>

NewProducer == [phase |-> "none", buffered |-> FALSE, toPut |-> 0, next |-> 0]
NewSpeaker == [phase |-> "none", chunk |-> 0, emitted |-> <<>>]
Unheard == [proposed |-> FALSE, deltas |-> 0, spoken |-> <<>>, complete |-> None,
            final |-> FALSE]

VoiceInit ==
    /\ socket = "open" /\ handler = "greeting"
    /\ status = "LISTENING" /\ current = 0 /\ active = {}
    /\ produce = [n \in Turns |-> NewProducer]
    /\ speak = [n \in Turns |-> NewSpeaker]
    /\ queue = [n \in Turns |-> <<>>]
    /\ heard = [n \in Turns |-> Unheard]
    /\ answering = [latest |-> None, cutIn |-> {}]

\* A message reaches a client that is there; a send fails only when it is gone.
Sends == socket = "open"
SendFails == socket = "left"

Stale(n) == status = "INTERRUPTED" \/ current # n

Begun == {n \in Turns : produce[n].phase # "none"}

------------------------------------------------------------------------------
(* The task of the connection.                                              *)

Ended == {"none", "done", "cancelled"}

\* The speaking task swallows its cancellation and returns what was spoken so far;
\* the turn's task, which was only waiting for it, is not cancelled at all.
Outlives(n) ==
    /\ <<"produce", n>> \in active /\ produce[n].phase = "joining"
    /\ speak[n].phase \notin Ended \cup {"raised"}

\* What else a cancelled task knew, its queue as well, goes with it.
cancel_active_turn ==
    /\ produce' = [n \in Turns |->
                      IF /\ <<"produce", n>> \in active /\ produce[n].phase \notin Ended
                         /\ ~Outlives(n)
                      THEN [NewProducer EXCEPT !.phase = "cancelled"] ELSE produce[n]]
    /\ speak' = [n \in Turns |->
                    IF Outlives(n) THEN [speak[n] EXCEPT !.phase = "done"]
                    ELSE IF <<"speak", n>> \in active /\ speak[n].phase \notin Ended
                         THEN [NewSpeaker EXCEPT !.phase = "cancelled"] ELSE speak[n]]
    /\ active' = {}
    /\ queue' = [n \in Turns |-> IF <<"produce", n>> \in active THEN <<>> ELSE queue[n]]

Ready ==
    /\ handler = "greeting" /\ Sends
    /\ handler' = "receiving"
    /\ UNCHANGED <<socket, sessionRecord, tasks, heard, answering>>

\* audio.input.commit with a transcript: the turn before is cut off.
Commit(n) ==
    /\ handler = "receiving" /\ socket = "open"
    /\ n \in Turns /\ n = Cardinality(Begun) + 1
    /\ cancel_active_turn
    /\ current' = n
    /\ status' = "PROCESSING"
    /\ handler' = "starting"
    /\ answering' = [answering EXCEPT !.latest = n]
    /\ UNCHANGED <<socket, heard>>

\* The new state was sent, and the turn's task is created.
CreateTurn ==
    /\ handler = "starting" /\ Sends
    /\ produce' = [produce EXCEPT ![current].phase = "created"]
    /\ active' = active \cup {<<"produce", current>>}
    /\ handler' = "receiving"
    /\ UNCHANGED <<socket, status, current, speak, queue, heard, answering>>

\* turn.interrupted.
Interrupt ==
    /\ handler = "receiving" /\ socket = "open"
    /\ cancel_active_turn
    /\ status' = "LISTENING"
    /\ handler' = "acknowledging"
    /\ answering' = [answering EXCEPT !.cutIn = @ \cup ({current} \cap Turns)]
    /\ UNCHANGED <<socket, current, heard>>

Acknowledged ==
    /\ handler = "acknowledging" /\ Sends
    /\ handler' = "receiving"
    /\ UNCHANGED <<socket, sessionRecord, tasks, heard, answering>>

\* Mutant: what the connection was doing is left to end by itself.
DisconnectOnly ==
    /\ \/ handler = "receiving"
       \/ handler \in {"starting", "acknowledging"} /\ SendFails
    /\ status' = "INTERRUPTED"
    /\ handler' = "closed" /\ socket' = "left"
    /\ answering' = [answering EXCEPT !.latest = None]
    /\ UNCHANGED <<current, active, tasks, heard>>

\* The end of the connection: a disconnect that is received, a message that is no
\* JSON, or a send that fails.
Disconnect ==
    /\ \/ handler = "receiving"
       \/ handler \in {"starting", "acknowledging"} /\ SendFails
    /\ cancel_active_turn
    /\ status' = "INTERRUPTED"
    /\ handler' = "closed" /\ socket' = "left"
    /\ answering' = [answering EXCEPT !.latest = None]
    /\ UNCHANGED <<current, heard>>

\* The greeting precedes the try block: the session stays in the table.
GreetingFails ==
    /\ handler = "greeting" /\ SendFails
    /\ handler' = "closed"
    /\ UNCHANGED <<socket, sessionRecord, tasks, heard, answering>>

ClientLeaves ==
    /\ socket = "open"
    /\ socket' = "left"
    /\ UNCHANGED <<handler, sessionRecord, tasks, heard, answering>>

------------------------------------------------------------------------------
(* _execute_streaming_turn.                                                 *)

Produces(n, phase) == produce' = [produce EXCEPT ![n].phase = phase]

\* What the task knew ends with it.
Returns(n) == produce' = [produce EXCEPT ![n] = [NewProducer EXCEPT !.phase = "done"]]

\* Mutant: the speaking task is not entered in active_tasks.
StartTurnUnlisted(n) ==
    /\ produce[n].phase = "created"
    /\ Produces(n, "streaming")
    /\ speak' = [speak EXCEPT ![n].phase = "waiting"]
    /\ UNCHANGED <<socket, handler, sessionRecord, queue, heard, answering>>

StartTurn(n) ==
    /\ produce[n].phase = "created"
    /\ Produces(n, "streaming")
    /\ speak' = [speak EXCEPT ![n].phase = "waiting"]
    /\ active' = active \cup {<<"speak", n>>}
    /\ UNCHANGED <<socket, handler, status, current, queue, heard, answering>>

\* A protected command is answered with a proposal before its one message; that
\* the proposal cannot be sent is ignored.
SendProposal(n) ==
    /\ produce[n].phase = "streaming"
    /\ heard[n].deltas = 0 /\ ~heard[n].proposed
    /\ Sends
    /\ heard' = [heard EXCEPT ![n].proposed = TRUE]
    /\ UNCHANGED <<socket, handler, sessionRecord, tasks, answering>>

\* The state for the prompt is read outside the stream's own try block.
StreamRaises(n) ==
    /\ produce[n].phase = "streaming" /\ heard[n].deltas = 0
    /\ Produces(n, "failing")
    /\ UNCHANGED <<socket, handler, sessionRecord, speak, queue, heard, answering>>

\* The pieces of text that were sent.
Written == {p \in Turns \X (1..MaxTokens) : p[2] <= heard[p[1]].deltas}

StreamYields(n) ==
    /\ produce[n].phase = "streaming"
    /\ heard[n].proposed => heard[n].deltas = 0
    /\ Cardinality(Written) < MaxTokens
    /\ IF Stale(n)
       THEN Produces(n, "closing") /\ UNCHANGED heard
       ELSE IF Sends
            THEN /\ Produces(n, "adding")
                 /\ heard' = [heard EXCEPT ![n].deltas = @ + 1]
            ELSE Produces(n, "failing") /\ UNCHANGED heard
    /\ UNCHANGED <<socket, handler, sessionRecord, speak, queue, answering>>

\* SpeechChunkAccumulator: a piece of text completes some chunks, and some of it
\* may be kept back.
add_token(n) ==
    /\ produce[n].phase = "adding"
    /\ \E cuts \in 0..MaxCuts, rest \in BOOLEAN :
          produce' = [produce EXCEPT ![n].toPut = cuts, ![n].buffered = rest,
                         ![n].phase = IF cuts = 0 THEN "streaming" ELSE "putting"]
    /\ UNCHANGED <<socket, handler, sessionRecord, speak, queue, heard, answering>>

Room(n) == Len(queue[n]) < QueueSize

\* enqueue_speech_chunk: put waits for room.
PutChunk(n) ==
    /\ produce[n].phase \in {"putting", "tail"} /\ Room(n)
    /\ queue' = [queue EXCEPT ![n] = Append(@, produce[n].next)]
    /\ produce' = [produce EXCEPT ![n].next = @ + 1, ![n].toPut = @ - 1,
                      ![n].phase = IF produce[n].phase = "tail" THEN "closing"
                                   ELSE IF produce[n].toPut = 1 THEN "streaming"
                                   ELSE "putting"]
    /\ UNCHANGED <<socket, handler, sessionRecord, speak, heard, answering>>

\* flush: what was kept back is the last chunk.
StreamEnds(n) ==
    /\ produce[n].phase = "streaming"
    /\ produce' = [produce EXCEPT ![n].buffered = FALSE,
                      ![n].toPut = IF produce[n].buffered THEN 1 ELSE 0,
                      ![n].phase = IF produce[n].buffered /\ ~Stale(n) THEN "tail"
                                   ELSE "closing"]
    /\ UNCHANGED <<socket, handler, sessionRecord, speak, queue, heard, answering>>

PutSentinel(n) ==
    /\ produce[n].phase = "closing" /\ Room(n)
    /\ queue' = [queue EXCEPT ![n] = Append(@, None)]
    /\ Produces(n, "joining")
    /\ UNCHANGED <<socket, handler, sessionRecord, speak, heard, answering>>

\* The speaking task has returned, or has raised.
Join(n) ==
    /\ produce[n].phase = "joining" /\ speak[n].phase \in {"done", "raised"}
    /\ \/ /\ speak[n].phase = "raised" \/ (~Stale(n) /\ SendFails)
          /\ Produces(n, "failing") /\ UNCHANGED heard
       \/ /\ speak[n].phase = "done" /\ Stale(n)
          /\ Returns(n) /\ UNCHANGED heard
       \/ /\ speak[n].phase = "done" /\ ~Stale(n) /\ Sends
          /\ Produces(n, "completing")
          /\ heard' = [heard EXCEPT ![n].complete = speak[n].emitted]
    /\ speak' = [speak EXCEPT ![n] = [NewSpeaker EXCEPT !.phase = "done"]]
    /\ queue' = [queue EXCEPT ![n] = <<>>]
    /\ UNCHANGED <<socket, handler, sessionRecord, answering>>

SendFinal(n) ==
    /\ produce[n].phase = "completing"
    /\ IF Sends
       THEN Returns(n) /\ heard' = [heard EXCEPT ![n].final = TRUE]
       ELSE Produces(n, "failing") /\ UNCHANGED heard
    /\ UNCHANGED <<socket, handler, sessionRecord, speak, queue, answering>>

\* The error is sent without a turn, or cannot be sent; the speaking task is left
\* waiting for the next turn or the end of the connection to cancel it.
SendError(n) ==
    /\ produce[n].phase = "failing"
    /\ Returns(n)
    /\ UNCHANGED <<socket, handler, sessionRecord, speak, queue, heard, answering>>

------------------------------------------------------------------------------
(* _tts_consumer_worker and _stream_synthesize_chunk.                       *)

Speaks(n, phase) == speak' = [speak EXCEPT ![n].phase = phase]

GetChunk(n) ==
    /\ speak[n].phase = "waiting" /\ queue[n] # <<>>
    /\ queue' = [queue EXCEPT ![n] = Tail(@)]
    /\ IF Head(queue[n]) = None \/ Stale(n)
       THEN Speaks(n, "done")
       ELSE speak' = [speak EXCEPT ![n].phase = "synthesizing", ![n].chunk = Head(queue[n])]
    /\ UNCHANGED <<socket, handler, sessionRecord, produce, heard, answering>>

\* The gateway answers nothing that can be spoken, or too late.
SkipChunk(n) ==
    /\ speak[n].phase = "synthesizing"
    /\ Speaks(n, "waiting")
    /\ UNCHANGED <<socket, handler, sessionRecord, produce, queue, heard, answering>>

SpeakChunk(n) ==
    /\ speak[n].phase = "synthesizing" /\ ~Stale(n)
    /\ status' = "SPEAKING"
    /\ IF Sends
       THEN /\ Speaks(n, "speaking")
            /\ heard' = [heard EXCEPT ![n].spoken = Append(@, speak[n].chunk)]
       ELSE Speaks(n, "raised") /\ UNCHANGED heard
    /\ UNCHANGED <<socket, handler, current, active, produce, queue, answering>>

ChunkSpoken(n) ==
    /\ speak[n].phase = "speaking"
    /\ speak' = [speak EXCEPT ![n].phase = "waiting",
                    ![n].emitted = Append(@, speak[n].chunk)]
    /\ UNCHANGED <<socket, handler, sessionRecord, produce, queue, heard, answering>>

------------------------------------------------------------------------------

\* The steps of the connection's task that nobody else has to ask for: sends that
\* return, and a client's leaving that is noticed.
Connection ==
    Ready \/ CreateTurn \/ Acknowledged \/ (SendFails /\ Disconnect) \/ GreetingFails

Turn(n) ==
    \/ StartTurn(n) \/ StreamRaises(n) \/ StreamYields(n) \/ add_token(n) \/ PutChunk(n)
    \/ StreamEnds(n) \/ PutSentinel(n) \/ Join(n) \/ SendFinal(n) \/ SendError(n)

Speech(n) == GetChunk(n) \/ SkipChunk(n) \/ SpeakChunk(n) \/ ChunkSpoken(n)

VoiceNext ==
    \/ Connection \/ Interrupt \/ Disconnect \/ ClientLeaves
    \/ \E n \in Turns : Commit(n) \/ SendProposal(n) \/ Turn(n) \/ Speech(n)

VoiceSpec == VoiceInit /\ [][VoiceNext]_voiceVars

------------------------------------------------------------------------------
(* Properties                                                               *)

Conversation == INSTANCE ConversationPromise WITH
    latest <- answering.latest, cutIn <- answering.cutIn,
    Indexes <- 0..MaxTokens * MaxCuts,
    written <- [n \in Turns |-> heard[n].deltas],
    spoken <- [n \in Turns |-> heard[n].spoken],
    claimed <- [n \in Turns |-> heard[n].complete],
    finished <- {n \in Turns : heard[n].final}

\* Whenever the listener cuts in, whatever fails and however far words and speech
\* are apart, no word and no chunk of an abandoned turn is sent any more, chunks are
\* spoken in order, and the closing list names the chunks that were spoken, but for
\* the one he cut in on.
KeepsConversationPromise == Conversation!Spec

\* A turn that was begun ends, by itself or cut off, although its task waits for
\* room in a queue which a task that failed no longer empties.
TurnsEnd == \A n \in Turns :
    produce[n].phase = "created" ~> produce[n].phase \in {"done", "cancelled"}
==============================================================================
