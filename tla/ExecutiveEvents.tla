---------------------------- MODULE ExecutiveEvents ----------------------------
(***************************************************************************)
(* The live events of the owner's desktop (executive_event_service.py and  *)
(* its endpoint in director_desktop.py): a bounded buffer for clients that *)
(* come back, and a bounded queue for every stream.  All of it runs on one *)
(* event loop, and nothing awaits between an event and its queues.         *)
(***************************************************************************)
EXTENDS Naturals, Sequences, SequencesExt

CONSTANTS
    Streams,        \* requests of the event stream
    MaxEvents,      \* bound: events that are projected
    BufferSize,     \* MAX_EVENT_BUFFER_SIZE (200)
    StreamQueue     \* maxsize of a stream's queue (100)

ASSUME EventsAssumption ==
    /\ MaxEvents \in Nat /\ BufferSize \in Nat \ {0} /\ StreamQueue \in Nat \ {0}

VARIABLES
    published,      \* the number of events, which is the id of the latest
    _event_buffer,  \* the ids of the events to replay
    _queues,        \* the streams whose queue gets the events
    streams         \* what became of each request

eventVars == <<published, _event_buffer, _queues, streams>>

\* since is history: the event after which the stream is to begin; so is cut, that
\* the replay found no room for all.
NewStream == [phase |-> "new", queue |-> <<>>, sent |-> <<>>, since |-> 0, cut |-> FALSE]

EventsInit ==
    /\ published = 0 /\ _event_buffer = <<>> /\ _queues = {}
    /\ streams = [v \in Streams |-> NewStream]

Full(v) == Len(streams[v].queue) = StreamQueue

\* deque(maxlen).
Buffered(event) ==
    LET all == Append(_event_buffer, event)
    IN IF Len(all) > BufferSize THEN Tail(all) ELSE all

\* Mutant: a stream without room misses the event and stays.
SkipsFull ==
    /\ published < MaxEvents
    /\ published' = published + 1
    /\ _event_buffer' = Buffered(published')
    /\ streams' = [v \in Streams |->
                      IF v \in _queues /\ ~Full(v)
                      THEN [streams[v] EXCEPT !.queue = Append(@, published')]
                      ELSE streams[v]]
    /\ UNCHANGED _queues

\* _handle_internal_event and _dispatch_to_subscribers; an event that cannot be
\* projected is nobody's.
Project ==
    /\ published < MaxEvents
    /\ published' = published + 1
    /\ _event_buffer' = Buffered(published')
    /\ streams' = [v \in Streams |->
                      IF v \in _queues /\ ~Full(v)
                      THEN [streams[v] EXCEPT !.queue = Append(@, published')]
                      ELSE streams[v]]
    /\ _queues' = {v \in _queues : ~Full(v)}

\* The events after the one the client names, if that is still there.
Missed(last) ==
    IF Contains(_event_buffer, last)
    THEN SubSeq(_event_buffer, last - Head(_event_buffer) + 2, Len(_event_buffer))
    ELSE <<>>

\* A client comes for the first time, or with the id of an event it was sent.
subscribe(v) ==
    /\ streams[v].phase = "new"
    /\ \E last \in {0} \cup UNION {ToSet(streams[w].sent) : w \in Streams} :
          LET replay == Missed(last)
          IN streams' = [streams EXCEPT ![v] =
                [NewStream EXCEPT
                    !.phase = "subscribed",
                    !.queue = SubSeq(replay, 1, IF Len(replay) > StreamQueue
                                                THEN StreamQueue ELSE Len(replay)),
                    !.since = IF Contains(_event_buffer, last) THEN last ELSE published,
                    !.cut = Len(replay) > StreamQueue]]
    /\ _queues' = _queues \cup {v}
    /\ UNCHANGED <<published, _event_buffer>>

\* The body of the answer is asked for.
StreamOpens(v) ==
    /\ streams[v].phase = "subscribed"
    /\ streams' = [streams EXCEPT ![v].phase = "open"]
    /\ UNCHANGED <<published, _event_buffer, _queues>>

\* What is sent otherwise, every 15 seconds, is a heartbeat.
SendEvent(v) ==
    /\ streams[v].phase = "open" /\ streams[v].queue # <<>>
    /\ streams' = [streams EXCEPT ![v].queue = Tail(@),
                                  ![v].sent = Append(@, Head(streams[v].queue))]
    /\ UNCHANGED <<published, _event_buffer, _queues>>

\* The client leaves; one that leaves before the body was begun stays among the
\* queues, until it is full.
StreamCloses(v) ==
    /\ streams[v].phase \in {"subscribed", "open"}
    /\ streams' = [streams EXCEPT ![v].phase = "closed"]
    /\ _queues' = IF streams[v].phase = "open" THEN _queues \ {v} ELSE _queues
    /\ UNCHANGED <<published, _event_buffer>>

\* The server starts again with empty memories.
StreamsLost ==
    /\ _event_buffer' = <<>> /\ _queues' = {}
    /\ streams' = [v \in Streams |->
                      IF streams[v].phase = "new" THEN streams[v]
                      ELSE [streams[v] EXCEPT !.phase = "closed", !.queue = <<>>]]
    /\ UNCHANGED published

EventsNext ==
    \/ Project \/ StreamsLost
    \/ \E v \in Streams :
          subscribe(v) \/ StreamOpens(v) \/ SendEvent(v) \/ StreamCloses(v)

EventsSpec == EventsInit /\ [][EventsNext]_eventVars

------------------------------------------------------------------------------
(* Properties                                                               *)

EventsTypeOK ==
    /\ published \in 0..MaxEvents
    /\ _event_buffer \in Seq(1..MaxEvents)
    /\ _queues \subseteq Streams
    /\ streams \in [Streams -> [phase : {"new", "subscribed", "open", "closed"},
                                queue : Seq(1..MaxEvents), sent : Seq(1..MaxEvents),
                                since : 0..MaxEvents, cut : BOOLEAN]]

\* What a stream was and is to be sent.
Feed(v) == streams[v].sent \o streams[v].queue

\* What a stream was and is to be sent, however slow it is and whenever it came, are
\* the events from its beginning on, without a gap and in order, but for one gap after
\* a replay that found no room; and a stream among the queues lacks none of them.
Whole(v) ==
    LET gap == IF streams[v].cut THEN StreamQueue ELSE 0
    IN /\ \A i \in 1..Len(Feed(v)) :
             \/ Feed(v)[i] = (IF i = 1 THEN streams[v].since ELSE Feed(v)[i - 1]) + 1
             \/ i > 1 /\ i = gap + 1 /\ Feed(v)[i] > Feed(v)[i - 1]
       /\ v \in _queues => \/ streams[v].cut /\ Len(Feed(v)) = gap
                           \/ Feed(v) = <<>> /\ streams[v].since = published
                           \/ Feed(v) # <<>> /\ Last(Feed(v)) = published

StreamsAreWhole == EventsTypeOK /\ \A v \in Streams : Whole(v)
==============================================================================
