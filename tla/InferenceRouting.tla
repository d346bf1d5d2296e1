-------------------------- MODULE InferenceRouting --------------------------
(***************************************************************************)
(* How a prompt finds a model: CapabilityRouter.route_skill_execution over *)
(* the registered providers, each with its own fallback between models,    *)
(* and the two kinds of callers that read the stream: the chat endpoint,   *)
(* which hands every piece on to a client as it comes, and                 *)
(* RouterLLMProvider.generate_json, which collects the pieces, takes the   *)
(* JSON object out of them and asks a second time when there is none.      *)
(* Requests run concurrently in one event loop and share the router's      *)
(* cooldowns and every provider's last_model_id.                           *)
(*                                                                         *)
(* An answer is Chunks pieces long; the JSON object in it starts with      *)
(* piece Opening and ends with the last.  A stream may stop before its     *)
(* last piece and look finished, and some providers leave out a piece they *)
(* cannot parse.  A cooldown is in force or over: how long it lasts is     *)
(* left out, so it may end at any time.                                    *)
(***************************************************************************)
EXTENDS Naturals, Sequences, FiniteSets, SequencesExt

CONSTANTS
    Registered,             \* the providers, in the order of their registration
    supported_capabilities, \* of every provider
    candidates,             \* the models a provider tries, in order
    Chats,                  \* streamed chat requests
    Structured,             \* calls of generate_json
    required_capabilities,  \* of every request
    preferences,            \* DEFAULT_PROVIDER_PREFERENCES
    Chunks, Opening,
    MaxCalls                \* bound: calls of generate_json by one caller

Requests == Chats \cup Structured

_providers == {Registered[i] : i \in DOMAIN Registered}

Models == UNION {{candidates[p][i] : i \in DOMAIN candidates[p]} : p \in _providers}

\* Two candidates are tried by Groq and Cerebras.  The others send one request;
\* OpenRouter's names further models for OpenRouter itself to fall back on.
Tried(p) == IF p \in {"groq", "cerebras"} THEN candidates[p] ELSE <<Head(candidates[p])>>

ASSUME RoutingAssumption ==
    /\ Chats \cap Structured = {}
    /\ Chunks \in Nat /\ Opening \in 1..Chunks
    /\ MaxCalls \in Nat
    /\ Registered \in Seq({"ollama", "gemini", "openrouter", "groq", "kimi", "cerebras"})
    /\ IsInjective(Registered)
    /\ preferences \in Seq(STRING)
    /\ \A p \in _providers :
          candidates[p] \in Seq(Models) \ {<<>>} /\ Len(Tried(p)) <= 2

\* Gemini and Kimi do not say which model they used.
last_model_id_of(p, model) == IF p \in {"gemini", "kimi"} THEN "unknown" ELSE model

VARIABLES
    _rate_limited_until,    \* the keys whose cooldown is in force
    last_model_id,          \* of every provider
    requests

routingVars == <<_rate_limited_until, last_model_id, requests>>

_provider_key(p, model) == <<p, model>>

Keys == {_provider_key(p, m) : p \in _providers, m \in Models \cup {"unknown"}}

Open == {"health", "stream", "yielded", "pause"}
Ended == {"completed", "failed", "returned", "error", "gone"}

Request ==
    [step : {"idle"} \cup Open \cup Ended,
     todo : Seq(_providers),        \* eligible_providers still to be tried
     model : 0..2,                  \* attempt_idx + 1 at the provider
     text : Seq(_providers \X (1..2) \X (0..Chunks)),
                                    \* provider, model and piece; 0 is an error;
                                    \* of a chat, what was read last
     attempt : 0..2,                \* of generate_json
     refused : SUBSET _providers,   \* providers that gave a reason to go on
     calls : 0..MaxCalls]

Idle == [step |-> "idle", todo |-> <<>>, model |-> 0, text |-> <<>>,
         attempt |-> 0, refused |-> {}, calls |-> 0]

RoutingInit ==
    /\ _rate_limited_until = {}
    /\ last_model_id = [p \in _providers |->
                            IF p = "ollama" THEN Head(candidates[p]) ELSE "unknown"]
    /\ requests = [r \in Requests |-> Idle]

-----------------------------------------------------------------------------
(* Choosing a provider.                                                    *)

\* preference_sorter: the first preference that names the provider, else "auto".
Preference(p) ==
    LET named == {i \in DOMAIN preferences : preferences[i] = p}
        auto == {i \in DOMAIN preferences : preferences[i] = "auto"}
    IN CASE named # {} -> Min(named)
         [] named = {} /\ auto # {} -> Min(auto)
         [] OTHER -> 999

Registration(p) == CHOOSE i \in DOMAIN Registered : Registered[i] = p

\* The sort is stable: equal preferences keep the order of registration.
Before(p, q) ==
    \/ Preference(p) < Preference(q)
    \/ Preference(p) = Preference(q) /\ Registration(p) < Registration(q)

Eligible(r) ==
    {p \in _providers : required_capabilities[r] \subseteq supported_capabilities[p]}

_get_eligible_providers ==
    [r \in Requests |->
        CHOOSE s \in [1..Cardinality(Eligible(r)) -> Eligible(r)] :
            \A i, j \in DOMAIN s : i < j => Before(s[i], s[j])]

_is_in_cooldown(p, cooldowns) ==
    {_provider_key(p, last_model_id[p]), _provider_key(p, "unknown")} \cap cooldowns # {}

_mark_cooldown(p) ==
    _rate_limited_until \cup {_provider_key(p, last_model_id[p]), _provider_key(p, "unknown")}

\* What is left of todo from its first provider that is not in a cooldown.
Uncooled(todo, cooldowns) ==
    LET warm == {i \in DOMAIN todo : ~_is_in_cooldown(todo[i], cooldowns)}
    IN IF warm = {} THEN <<>> ELSE SubSeq(todo, Min(warm), Len(todo))

\* A chat fails, generate_json tries again or gives up, when the router raises.
Raised(r, request) ==
    CASE r \in Chats -> [request EXCEPT !.step = "failed"]
      [] r \in Structured /\ request.attempt < 2 ->
            [request EXCEPT !.step = "pause"]
      [] r \in Structured /\ request.attempt = 2 ->
            [request EXCEPT !.step = "error"]

\* The router's loop goes on to the next provider worth asking; no await is in between.
Evaluate(r, request, todo, cooldowns) ==
    LET rest == Uncooled(todo, cooldowns)
        next == [request EXCEPT !.todo = rest, !.model = 0,
                                !.refused = @ \cup (ToSet(todo) \ ToSet(rest))]
    IN requests' = [requests EXCEPT ![r] =
                        IF rest = <<>> THEN Raised(r, [next EXCEPT !.text = <<>>])
                        ELSE [next EXCEPT !.step = "health"]]

\* A call of route_skill_execution.
Route(r, attempt, calls) ==
    /\ Evaluate(r, [Idle EXCEPT !.attempt = attempt, !.calls = calls],
                _get_eligible_providers[r], _rate_limited_until)
    /\ UNCHANGED <<_rate_limited_until, last_model_id>>

ChatBegins(r) ==
    /\ r \in Chats
    /\ requests[r].step = "idle"
    /\ Route(r, 1, 0)

\* A caller that has its result may call again, with nothing kept.
generate_json(r) ==
    /\ r \in Structured
    /\ requests[r].step \in {"idle", "returned", "error"}
    /\ requests[r].calls < MaxCalls
    /\ Route(r, 1, requests[r].calls + 1)

RetryJson(r) ==
    /\ requests[r].step = "pause"
    /\ Route(r, requests[r].attempt + 1, requests[r].calls)

-----------------------------------------------------------------------------
(* One provider.                                                           *)

At(r) == Head(requests[r].todo)

\* Only Groq is told of the second attempt, and then swaps its candidates.
Candidates(r, p) ==
    IF p = "groq" /\ requests[r].attempt = 2 THEN Reverse(Tried(p)) ELSE Tried(p)

\* The provider sends the request for candidate number i.
Opens(r, i) ==
    LET p == At(r)
    IN /\ last_model_id' = [last_model_id EXCEPT ![p] =
                                last_model_id_of(p, Candidates(r, p)[i])]
       /\ requests' = [requests EXCEPT ![r].step = "stream", ![r].model = i]
       /\ UNCHANGED _rate_limited_until

\* A mutant: a rate limit ends the search.
NextUnlessLimited(r, cooldowns) ==
    /\ Evaluate(r, [requests[r] EXCEPT !.refused = @ \cup {At(r)}],
                IF cooldowns # _rate_limited_until THEN <<>> ELSE Tail(requests[r].todo), cooldowns)
    /\ _rate_limited_until' = cooldowns
    /\ UNCHANGED last_model_id

NextProvider(r, cooldowns) ==
    /\ Evaluate(r, [requests[r] EXCEPT !.refused = @ \cup {At(r)}],
                Tail(requests[r].todo), cooldowns)
    /\ _rate_limited_until' = cooldowns
    /\ UNCHANGED last_model_id

check_health(r) ==
    /\ requests[r].step = "health"
    /\ \/ Opens(r, 1)
       \/ NextProvider(r, _rate_limited_until)

\* The last piece that was read of the stream that is open.
Received(r) ==
    LET text == requests[r].text
    IN IF text # <<>> /\ Last(text)[1] = At(r) /\ Last(text)[2] = requests[r].model
       THEN Last(text)[3] ELSE 0

\* What is read so far: generate_json collects it, a chat has handed it on.
Read(r) == IF r \in Chats THEN <<>> ELSE requests[r].text

\* A piece reaches the reader.  generate_json goes on reading; the chat hands the
\* piece to its client before it asks for another.
Yields(r, piece) ==
    requests' = [requests EXCEPT
                    ![r].text = Append(Read(r), <<At(r), requests[r].model, piece>>),
                    ![r].step = IF r \in Chats THEN "yielded" ELSE @]

\* Ollama turns its own failure into text.
Erred(r) == requests[r].text # <<>> /\ Last(requests[r].text)[3] = 0

Streaming(r) == requests[r].step = "stream" /\ ~Erred(r)

\* These read the lines of a stream themselves, and go on after one that is no JSON.
Lenient == {"ollama", "groq", "cerebras"}

\* OpenRouter says with each piece which model answers.
StreamYields(r) ==
    LET p == At(r)
    IN /\ Streaming(r)
       /\ \E piece \in (Received(r) + 1)..Chunks :
             /\ p \in Lenient \/ piece = Received(r) + 1
             /\ Yields(r, piece)
       /\ \E m \in IF p = "openrouter" THEN ToSet(candidates[p]) ELSE {last_model_id[p]} :
             last_model_id' = [last_model_id EXCEPT ![p] = m]
       /\ UNCHANGED _rate_limited_until

Deliver(r) ==
    /\ requests[r].step = "yielded"
    /\ requests' = [requests EXCEPT ![r].step = "stream"]
    /\ UNCHANGED <<_rate_limited_until, last_model_id>>

\* _extract_json: from the first opening brace to the last closing one.
_extract_json(text) ==
    LET opens == {i \in DOMAIN text : text[i][3] = Opening}
        closes == {i \in DOMAIN text : text[i][3] = Chunks}
    IN IF opens = {} \/ closes = {} THEN <<>> ELSE SubSeq(text, Min(opens), Max(closes))

\* A mutant: a parser that repairs what is between the braces.
loadsRepaired(object) ==
    object # <<>> /\ Head(object)[3] = Opening /\ Last(object)[3] = Chunks

\* json.loads takes one object: not one that is begun anew, and nothing after it.
\* It cannot tell that a piece is missing, if what is left is still an object.
loads(object) ==
    /\ object # <<>>
    /\ Head(object)[3] = Opening /\ Last(object)[3] = Chunks
    /\ \A i, j \in DOMAIN object : i < j => object[i][3] < object[j][3]

\* The stream ends without an exception, and so does the router's loop: after the last
\* piece, or before it, since nobody looks at why a stream ended.  What a model wrote
\* may still be no JSON, or none generate_json accepts.
StreamEnds(r) ==
    /\ requests[r].step = "stream"
    /\ \/ /\ r \in Chats
          /\ requests' = [requests EXCEPT ![r].step = "completed"]
       \/ /\ r \in Structured
          /\ loads(_extract_json(requests[r].text))
          /\ requests' = [requests EXCEPT ![r].step = "returned"]
       \/ /\ r \in Structured
          /\ requests' = [requests EXCEPT ![r] = Raised(r, @)]
    /\ UNCHANGED <<_rate_limited_until, last_model_id>>

\* Whether a provider asks its next model after this failure of its first.
\* Both give up a prompt that is too large, Cerebras also a rate limit.
FallsBack(p, failure) ==
    /\ failure # "too_large"
    /\ p = "cerebras" => failure # "limited"

\* A rate limit, a model that is forbidden or unknown, a prompt that is too
\* large, or anything else: at the start of a stream or in the middle of it.
StreamBreaks(r, failure) ==
    LET p == At(r)
    IN /\ Streaming(r)
       /\ \/ /\ p = "ollama"
             /\ Yields(r, 0)
             /\ UNCHANGED <<_rate_limited_until, last_model_id>>
          \/ /\ p # "ollama"
             /\ requests[r].model < Len(Tried(p))
             /\ FallsBack(p, failure)
             /\ Opens(r, requests[r].model + 1)
          \/ /\ p # "ollama"
             /\ requests[r].model = Len(Tried(p)) \/ ~FallsBack(p, failure)
             /\ NextProvider(r, IF failure = "limited" THEN _mark_cooldown(p)
                                ELSE _rate_limited_until)

\* The client closes the connection; what the chat is waiting for is cancelled.
ClientLeaves(r) ==
    /\ r \in Chats
    /\ requests[r].step \in Open
    /\ requests' = [requests EXCEPT ![r].step = "gone", ![r].text = <<>>]
    /\ UNCHANGED <<_rate_limited_until, last_model_id>>

CooldownEnds(key) ==
    /\ key \in _rate_limited_until
    /\ _rate_limited_until' = _rate_limited_until \ {key}
    /\ UNCHANGED <<last_model_id, requests>>

Failures == {"limited", "forbidden", "too_large", "other"}

Progress(r) ==
    \/ RetryJson(r)
    \/ check_health(r)
    \/ StreamYields(r)
    \/ StreamEnds(r)
    \/ \E failure \in Failures : StreamBreaks(r, failure)

RoutingNext ==
    \/ \E r \in Requests :
          \/ ChatBegins(r)
          \/ generate_json(r)
          \/ Progress(r)
          \/ Deliver(r)
          \/ ClientLeaves(r)
    \/ \E key \in Keys : CooldownEnds(key)

RoutingSpec == RoutingInit /\ [][RoutingNext]_routingVars

\* Every call to a provider has a timeout, except the stream of Ollama.
Bounded(r) == requests[r].step = "stream" => At(r) # "ollama"
-----------------------------------------------------------------------------
(* What it should do.                                                      *)

\* Types.
RoutingTypeOK ==
    /\ _rate_limited_until \subseteq Keys
    /\ last_model_id \in [_providers -> Models \cup {"unknown"}]
    /\ requests \in [Requests -> Request]

\* Types, and what generate_json returns is one object that one model of one provider
\* wrote from its first piece to its last, although the text it was taken from may
\* hold what several of them left: only a stream that a piece was left out of can
\* close an object with a gap, or one that another stream opened.
ParsedIsWhole ==
    /\ RoutingTypeOK
    /\ \A r \in Structured :
        requests[r].step = "returned" =>
            LET text == requests[r].text
                object == _extract_json(text)
                p == Last(object)[1]
                i == Last(object)[2]
            IN \/ object = [k \in 1..(Chunks - Opening + 1) |-> <<p, i, Opening + k - 1>>]
               \/ p \in Lenient /\ \E k \in 1..Chunks : <<p, i, k>> \notin ToSet(text)

\* The router keeps FailoverPromise.
outcomeOf(r) ==
    LET request == requests[r]
    IN CASE request.step = "idle" -> "none"
         [] request.step \in {"completed", "returned"} -> "answered"
         [] request.step \in {"pause", "error"} /\ request.todo # <<>> -> "rejected"
         [] request.step \in {"pause", "error", "failed"} /\ request.todo = <<>> -> "failed"
         [] request.step = "gone" -> "withdrawn"
         [] OTHER -> "open"

EligibleSet == [r \in Requests |-> ToSet(_get_eligible_providers[r])]

Promise ==
    INSTANCE FailoverPromise WITH
        eligible <- EligibleSet,
        Rounds <- 2,
        willing <- [r \in Requests |-> IF requests[r].step = "idle" THEN {}
                                       ELSE EligibleSet[r] \ requests[r].refused],
        round <- [r \in Requests |-> requests[r].attempt],
        outcome <- [r \in Requests |-> outcomeOf(r)]

KeepsFailoverPromise == Promise!Spec
=============================================================================
