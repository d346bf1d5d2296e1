--------------------------- MODULE AgentLoopProofs ---------------------------
(***************************************************************************)
(* What InferenceRouting and AgentLoop promise, for any providers, models, *)
(* requests and goals: what generate_json returns is one whole object, the *)
(* router keeps FailoverPromise, and an answer of the loop's own rests on  *)
(* what was read.  First the order in which providers are asked, then what *)
(* a step does to the one request it is about, then the loop.              *)
(***************************************************************************)
EXTENDS AgentLoop, TLAPS, FiniteSetTheorems, WellFoundedInduction

-------------------------------------------------------------------------------
(* Least and greatest elements.                                            *)

\* A set of numbers has a least element.
LEMMA HasMin == ASSUME NEW S, S \subseteq Nat, S # {}
                PROVE  Min(S) \in S /\ \A x \in S : Min(S) <= x
<1>1. PICK m \in S : \A x \in S : ~(<<x, m>> \in OpToRel(<, Nat))
  BY WFMin, NatLessThanWellFounded
<1>2. ASSUME NEW x \in S PROVE m <= x
  <2>1. x \in Nat /\ m \in Nat
    OBVIOUS
  <2>2. ~(x < m)
    BY <1>1, <2>1, Zenon DEF OpToRel
  <2>3. QED
    BY <2>1, <2>2
<1>3. QED
  BY <1>2 DEF Min

\* A set of numbers with a bound has a greatest element.
LEMMA HasMax == ASSUME NEW n \in Nat, NEW S, S \subseteq 0..n, S # {}
                PROVE  Max(S) \in S /\ \A x \in S : x <= Max(S)
<1> DEFINE T == {n - x : x \in S}
<1>1. T \subseteq Nat /\ T # {}
  <2>1. \A x \in S : x \in 0..n /\ n - x \in Nat
    OBVIOUS
  <2>2. QED
    BY <2>1
<1>2. Min(T) \in T /\ \A x \in T : Min(T) <= x
  BY <1>1, HasMin
<1>3. PICK m \in S : Min(T) = n - m
  BY <1>2
<1>4. ASSUME NEW x \in S PROVE x <= m
  <2>1. n - m <= n - x
    BY <1>2, <1>3
  <2>2. QED
    BY <2>1
<1>5. \A x \in S : m >= x
  BY <1>4
<1>6. Max(S) \in S /\ \A x \in S : Max(S) >= x
  BY <1>5 DEF Max
<1>7. QED
  BY <1>6

-------------------------------------------------------------------------------
(* The order in which providers are asked.                                 *)

LEMMA PreferenceIsNat == ASSUME NEW p \in _providers PROVE Preference(p) \in Nat
<1> DEFINE named == {i \in DOMAIN preferences : preferences[i] = p}
           auto == {i \in DOMAIN preferences : preferences[i] = "auto"}
<1>1. named \subseteq Nat /\ auto \subseteq Nat
  BY RoutingAssumption
<1>2. named # {} => Min(named) \in Nat
  BY <1>1, HasMin
<1>3. auto # {} => Min(auto) \in Nat
  BY <1>1, HasMin
<1> HIDE DEF named, auto
<1>4. CASE named # {}
  BY <1>2, <1>4 DEF Preference, named, auto
<1>5. CASE named = {} /\ auto # {}
  BY <1>3, <1>5 DEF Preference, named, auto
<1>6. CASE named = {} /\ auto = {}
  BY <1>6 DEF Preference, named, auto
<1>7. QED
  BY <1>4, <1>5, <1>6

LEMMA RegistrationIsPlace == ASSUME NEW p \in _providers
                             PROVE  /\ Registration(p) \in Nat
                                    /\ Registration(p) \in DOMAIN Registered
                                    /\ Registered[Registration(p)] = p
  BY RoutingAssumption DEF Registration, _providers

\* Before orders the providers one after the other.
LEMMA BeforeOrders ==
    ASSUME NEW p \in _providers, NEW q \in _providers
    PROVE  /\ ~Before(p, p)
           /\ p # q => Before(p, q) \/ Before(q, p)
           /\ \A o \in _providers : Before(p, q) /\ Before(q, o) => Before(p, o)
<1>1. \A o \in _providers : Preference(o) \in Nat /\ Registration(o) \in Nat
  BY PreferenceIsNat, RegistrationIsPlace
<1>2. p # q => Registration(p) # Registration(q)
  BY RegistrationIsPlace
<1>3. QED
  BY <1>1, <1>2 DEF Before

LEMMA ProvidersAreFinite == IsFiniteSet(_providers)
<1>1. Registered \in Surjection(1..Len(Registered), _providers)
  BY RoutingAssumption DEF _providers, Surjection
<1>2. IsFiniteSet(1..Len(Registered))
  BY FS_Interval, RoutingAssumption
<1>3. QED
  BY <1>1, <1>2, FS_Surjection

\* Any providers can be sorted.
LEMMA CanBeSorted ==
    ASSUME NEW S, S \subseteq _providers
    PROVE  /\ Cardinality(S) \in Nat
           /\ \E s \in [1..Cardinality(S) -> S] :
                 \A i, j \in DOMAIN s : i < j => Before(s[i], s[j])
<1> DEFINE n == Cardinality(S)
           Earlier(p) == {q \in S : Before(q, p)}
           rank == [p \in S |-> Cardinality(Earlier(p)) + 1]
<1>1. IsFiniteSet(S) /\ n \in Nat
  BY ProvidersAreFinite, FS_Subset, FS_CardinalityType
<1>2. ASSUME NEW p \in S
      PROVE  /\ IsFiniteSet(Earlier(p))
             /\ Cardinality(Earlier(p)) \in Nat
             /\ Cardinality(Earlier(p)) < n
  <2>1. Earlier(p) \subseteq S /\ p \notin Earlier(p)
    BY BeforeOrders
  <2>2. Earlier(p) # S
    BY <2>1
  <2>3. QED
    BY <2>1, <2>2, <1>1, FS_Subset, FS_CardinalityType
<1>3. rank \in [S -> 1..n]
  BY <1>1, <1>2
<1>4. ASSUME NEW p \in S, NEW q \in S, Before(p, q) PROVE rank[p] < rank[q]
  <2>1. Earlier(p) \subseteq Earlier(q)
    BY <1>4, BeforeOrders
  <2>2. p \in Earlier(q) /\ p \notin Earlier(p)
    BY <1>4, BeforeOrders
  <2>3. Cardinality(Earlier(p)) < Cardinality(Earlier(q))
    BY <2>1, <2>2, <1>2, FS_Subset
  <2>4. QED
    BY <2>3, <1>2
<1>5. rank \in Injection(S, 1..n)
  <2>1. \A p, q \in S : rank[p] \in 1..n /\ rank[q] \in 1..n
    BY <1>3
  <2>2. \A p, q \in S : p # q => rank[p] # rank[q]
    <3>1. ASSUME NEW p \in S, NEW q \in S, p # q PROVE rank[p] # rank[q]
      <4>1. Before(p, q) \/ Before(q, p)
        BY <3>1, BeforeOrders
      <4>2. rank[p] < rank[q] \/ rank[q] < rank[p]
        BY <4>1, <1>4
      <4>3. QED
        BY <4>2, <2>1
    <3>2. QED
      BY <3>1
  <2>3. \A p, q \in S : rank[p] = rank[q] => p = q
    BY <2>2
  <2> HIDE DEF rank
  <2>4. QED
    BY <1>3, <2>3 DEF Injection, IsInjective
<1>6. rank \in Surjection(S, 1..n)
  <2>1. IsFiniteSet(1..n) /\ Cardinality(1..n) = n
    BY <1>1, FS_Interval
  <2>2. QED
    BY <2>1, <1>5, FS_Injection
<1> HIDE DEF rank, Earlier
<1> DEFINE s == [i \in 1..n |-> CHOOSE p \in S : rank[p] = i]
<1>7. \A i \in 1..n : s[i] \in S /\ rank[s[i]] = i
  BY <1>6 DEF Surjection
<1>8. s \in [1..n -> S]
  BY <1>7
<1>9. ASSUME NEW i \in 1..n, NEW j \in 1..n, i < j PROVE Before(s[i], s[j])
  <2>1. s[i] \in S /\ s[j] \in S /\ rank[s[i]] = i /\ rank[s[j]] = j
    BY <1>7
  <2>2. s[i] # s[j]
    BY <2>1, <1>9
  <2>3. ~Before(s[j], s[i])
    <3>1. SUFFICES ASSUME Before(s[j], s[i]) PROVE FALSE
      OBVIOUS
    <3>2. rank[s[j]] < rank[s[i]]
      BY <3>1, <2>1, <1>4
    <3>3. QED
      BY <3>2, <2>1, <1>9
  <2>4. QED
    BY <2>1, <2>2, <2>3, BeforeOrders
<1>10. \A i, j \in DOMAIN s : i < j => Before(s[i], s[j])
  BY <1>8, <1>9
<1>11. QED
  BY <1>1, <1>8, <1>10

\* The providers a request may ask, each once.
LEMMA EligibleOnce ==
    ASSUME NEW r \in Requests
    PROVE  /\ _get_eligible_providers[r] \in Seq(_providers)
           /\ IsInjective(_get_eligible_providers[r])
           /\ EligibleSet[r] = ToSet(_get_eligible_providers[r])
<1> DEFINE S == Eligible(r)
           n == Cardinality(S)
           s == _get_eligible_providers[r]
<1>1. S \subseteq _providers
  BY DEF Eligible
<1>2. n \in Nat /\ \E t \in [1..n -> S] : \A i, j \in DOMAIN t : i < j => Before(t[i], t[j])
  BY <1>1, CanBeSorted
<1>3. s \in [1..n -> S] /\ \A i, j \in DOMAIN s : i < j => Before(s[i], s[j])
  BY <1>2 DEF _get_eligible_providers
<1> HIDE DEF s
<1>4. s \in Seq(_providers)
  BY <1>1, <1>2, <1>3
<1>5. ASSUME NEW i \in DOMAIN s, NEW j \in DOMAIN s, i # j PROVE s[i] # s[j]
  <2>1. s[i] \in _providers /\ s[j] \in _providers /\ i \in Nat /\ j \in Nat
    BY <1>1, <1>2, <1>3
  <2>2. Before(s[i], s[j]) \/ Before(s[j], s[i])
    BY <2>1, <1>3, <1>5
  <2>3. QED
    BY <2>1, <2>2, BeforeOrders
<1>6. IsInjective(s)
  BY <1>5 DEF IsInjective
<1>7. QED
  BY <1>4, <1>6 DEF EligibleSet, s

-------------------------------------------------------------------------------
(* How a request hangs together.                                           *)

Asked == {"health", "stream", "yielded"}

\* Who is still to be asked is who has given no reason yet; a request that failed
\* got a reason from everyone; what was returned could be loaded.
Queued(r, q) ==
    /\ q.step \in Asked =>
          /\ q.todo # <<>>
          /\ IsInjective(q.todo)
          /\ ToSet(q.todo) = EligibleSet[r] \ q.refused
          /\ q.attempt # 0
    /\ q.step \in {"pause", "error", "failed"} /\ q.todo = <<>> =>
          EligibleSet[r] \subseteq q.refused
    /\ q.step = "pause" => r \in Structured /\ q.attempt = 1
    /\ q.step = "failed" => q.todo = <<>>
    /\ q.step = "returned" => loads(_extract_json(q.text))

\* Pieces 1 to k of a stream are in the text.
Wrote(text, p, i, k) == \A m \in 1..k : <<p, i, m>> \in ToSet(text)

\* A piece whose stream left none out comes right after the earlier ones.
Contiguous(text) ==
    \A j \in DOMAIN text :
        LET p == text[j][1]
            i == text[j][2]
            k == text[j][3]
        IN k # 0 /\ Wrote(text, p, i, k) =>
              k <= j /\ \A m \in 1..k : text[j - k + m] = <<p, i, m>>

\* Only the lenient leave pieces out.
Unbroken(text) ==
    \A j \in DOMAIN text :
        text[j][1] \notin Lenient => Wrote(text, text[j][1], text[j][2], text[j][3])

Traced(r, text) ==
    /\ Contiguous(text)
    /\ r \in Structured => Unbroken(text)

\* The last n pieces of the text are those of one stream, the last one the greatest.
Run(text, p, i, n) ==
    \A j \in DOMAIN text :
        /\ (text[j][1] = p /\ text[j][2] = i) <=> j > Len(text) - n
        /\ j > Len(text) - n => text[j][3] <= text[Len(text)][3]

\* The last piece of a stream that the text ends with.
Position(text, p, i) ==
    IF text # <<>> /\ Last(text)[1] = p /\ Last(text)[2] = i THEN Last(text)[3] ELSE 0

EndsInError(text) == text # <<>> /\ Last(text)[3] = 0

\* No stream was opened twice for a text.
Fresh(q) ==
    /\ q.step = "health" => \A j \in DOMAIN q.text : q.text[j][1] \notin ToSet(q.todo)
    /\ q.step \in {"stream", "yielded"} =>
          LET p == Head(q.todo)
          IN /\ q.model \in 1..Len(Tried(p))
             /\ \A j \in DOMAIN q.text :
                   /\ q.text[j][1] \notin ToSet(Tail(q.todo))
                   /\ q.text[j][1] = p => q.text[j][2] <= q.model
             /\ EndsInError(q.text) \/ \E n \in 0..Len(q.text) : Run(q.text, p, q.model, n)

Sound(r, q) ==
    /\ q \in Request
    /\ Queued(r, q)
    /\ Traced(r, q.text)
    /\ Fresh(q)

\* The inductive invariant of the router.
RoutingIInv ==
    /\ RoutingTypeOK
    /\ \A r \in Requests : Sound(r, requests[r])

\* What FailoverPromise sees of a request.
Willing(r, q) == IF q.step = "idle" THEN {} ELSE EligibleSet[r] \ q.refused

Outcome(q) ==
    CASE q.step = "idle" -> "none"
      [] q.step \in {"completed", "returned"} -> "answered"
      [] q.step \in {"pause", "error"} /\ q.todo # <<>> -> "rejected"
      [] q.step \in {"pause", "error", "failed"} /\ q.todo = <<>> -> "failed"
      [] q.step = "gone" -> "withdrawn"
      [] OTHER -> "open"

Lost(r, q) == IF Willing(r, q) = {} THEN "failed" ELSE "open"

\* A change of one request as FailoverPromise allows it.
Promised(r, q, new) ==
    \/ /\ Willing(r, new) = Willing(r, q)
       /\ new.attempt = q.attempt
       /\ Outcome(new) = Outcome(q)
    \/ /\ Outcome(q) # "open"
       /\ Outcome(new) = Lost(r, new)
       /\ \/ new.attempt = 1
          \/ /\ Outcome(q) \in {"failed", "rejected"}
             /\ q.attempt < 2 /\ new.attempt = q.attempt + 1
    \/ /\ Outcome(q) = "open"
       /\ Willing(r, new) \subseteq Willing(r, q) /\ Willing(r, new) # Willing(r, q)
       /\ new.attempt = q.attempt
       /\ Outcome(new) = Lost(r, new)
    \/ /\ Outcome(q) = "open"
       /\ Willing(r, new) = Willing(r, q)
       /\ new.attempt = q.attempt
       /\ Outcome(new) \in {"answered", "rejected", "withdrawn"}

\* What a step does that changes request r and nothing it should not.
Changes(r, new) ==
    /\ requests' = [requests EXCEPT ![r] = new]
    /\ Sound(r, new)

-------------------------------------------------------------------------------
(* Going on to the next provider.                                          *)

\* What is left of a queue is a part of it.
LEMMA UncooledIsPart ==
    ASSUME NEW todo \in Seq(_providers), NEW cooldowns, IsInjective(todo)
    PROVE  /\ Uncooled(todo, cooldowns) \in Seq(_providers)
           /\ IsInjective(Uncooled(todo, cooldowns))
           /\ ToSet(Uncooled(todo, cooldowns)) \subseteq ToSet(todo)
<1> DEFINE warm == {i \in DOMAIN todo : ~_is_in_cooldown(todo[i], cooldowns)}
           rest == Uncooled(todo, cooldowns)
<1>1. CASE warm = {}
  <2>1. rest = <<>>
    BY <1>1 DEF Uncooled
  <2>2. QED
    BY <2>1 DEF IsInjective, ToSet
<1>2. CASE warm # {}
  <2>1. warm \subseteq Nat /\ warm \subseteq 1..Len(todo)
    OBVIOUS
  <2>2. PICK k \in 1..Len(todo) : k = Min(warm)
    BY <2>1, <1>2, HasMin
  <2>3. rest = SubSeq(todo, k, Len(todo))
    BY <2>2, <1>2 DEF Uncooled
  <2>4. /\ rest \in Seq(_providers)
        /\ Len(rest) = Len(todo) - k + 1
        /\ \A i \in 1..Len(rest) : rest[i] = todo[i + k - 1] /\ i + k - 1 \in DOMAIN todo
    BY <2>3
  <2> HIDE DEF rest
  <2>5. DOMAIN rest = 1..Len(rest) /\ Len(rest) \in Nat
    BY <2>4
  <2>6. IsInjective(rest)
    <3>1. ASSUME NEW i \in DOMAIN rest, NEW j \in DOMAIN rest, rest[i] = rest[j]
          PROVE  i = j
      <4>1. todo[i + k - 1] = todo[j + k - 1]
        BY <2>4, <2>5, <3>1
      <4>2. i + k - 1 = j + k - 1
        BY <4>1, <2>4, <2>5 DEF IsInjective
      <4>3. QED
        BY <4>2, <2>5
    <3>2. QED
      BY <3>1 DEF IsInjective
  <2>7. ToSet(rest) \subseteq ToSet(todo)
    BY <2>4, <2>5 DEF ToSet
  <2>8. QED
    BY <2>4, <2>6, <2>7 DEF rest
<1>3. QED
  BY <1>1, <1>2

\* A sequence without elements is the empty one.
LEMMA NoElements == ASSUME NEW S, NEW s \in Seq(S) PROVE ToSet(s) = {} <=> s = <<>>
<1>1. s # <<>> => s[1] \in ToSet(s)
  BY DEF ToSet
<1>2. s = <<>> => ToSet(s) = {}
  BY DEF ToSet
<1>3. QED
  BY <1>1, <1>2

\* What a queue loses with its head.
LEMMA TailOfQueue ==
    ASSUME NEW todo \in Seq(_providers), todo # <<>>, IsInjective(todo)
    PROVE  /\ Tail(todo) \in Seq(_providers) /\ IsInjective(Tail(todo))
           /\ Head(todo) \in _providers /\ Head(todo) \in ToSet(todo)
           /\ ToSet(Tail(todo)) = ToSet(todo) \ {Head(todo)}
<1>1. /\ Tail(todo) \in Seq(_providers) /\ Head(todo) \in _providers
      /\ Len(Tail(todo)) = Len(todo) - 1
      /\ DOMAIN Tail(todo) = 1..(Len(todo) - 1) /\ DOMAIN todo = 1..Len(todo)
      /\ \A i \in 1..(Len(todo) - 1) : Tail(todo)[i] = todo[i + 1]
      /\ Head(todo) = todo[1] /\ Len(todo) \in Nat \ {0}
  OBVIOUS
<1>2. \A i, j \in 1..Len(todo) : todo[i] = todo[j] => i = j
  BY <1>1 DEF IsInjective
<1>3. IsInjective(Tail(todo))
  <2>1. ASSUME NEW i \in 1..(Len(todo) - 1), NEW j \in 1..(Len(todo) - 1),
               Tail(todo)[i] = Tail(todo)[j]
        PROVE  i = j
    <3>1. i + 1 \in 1..Len(todo) /\ j + 1 \in 1..Len(todo) /\ todo[i + 1] = todo[j + 1]
      BY <1>1, <2>1
    <3>2. i + 1 = j + 1
      BY <3>1, <1>2
    <3>3. QED
      BY <3>2
  <2>2. QED
    BY <2>1, <1>1 DEF IsInjective
<1>4. ToSet(Tail(todo)) \subseteq ToSet(todo)
  BY <1>1 DEF ToSet
<1>5. Head(todo) \notin ToSet(Tail(todo))
  <2>1. ASSUME NEW i \in 1..(Len(todo) - 1) PROVE Tail(todo)[i] # todo[1]
    <3>1. i + 1 \in 1..Len(todo) /\ 1 \in 1..Len(todo) /\ i + 1 # 1
      BY <1>1
    <3>2. QED
      BY <3>1, <1>1, <1>2
  <2>2. QED
    BY <2>1, <1>1 DEF ToSet
<1>6. ASSUME NEW x \in ToSet(todo), x # Head(todo) PROVE x \in ToSet(Tail(todo))
  <2>1. PICK i \in 1..Len(todo) : x = todo[i]
    BY <1>1 DEF ToSet
  <2>2. i # 1
    BY <2>1, <1>1, <1>6
  <2>3. i - 1 \in 1..(Len(todo) - 1) /\ Tail(todo)[i - 1] = x
    BY <2>1, <2>2, <1>1
  <2>4. QED
    BY <2>3, <1>1 DEF ToSet
<1>7. Head(todo) \in ToSet(todo)
  BY <1>1 DEF ToSet
<1>8. QED
  BY <1>1, <1>3, <1>4, <1>5, <1>6, <1>7

\* A request with some of its fields changed is a request.
LEMMA Updated ==
    ASSUME NEW q \in Request, NEW step \in {"idle"} \cup Open \cup Ended,
           NEW todo \in Seq(_providers), NEW model \in 0..2, NEW out, out \subseteq _providers,
           NEW text \in Seq(_providers \X (1..2) \X (0..Chunks))
    PROVE  /\ [q EXCEPT !.todo = todo, !.model = model, !.refused = @ \cup out,
                        !.step = step] \in Request
           /\ [q EXCEPT !.todo = todo, !.model = model, !.refused = @ \cup out,
                        !.text = text] \in Request
           /\ [q EXCEPT !.step = step] \in Request
           /\ [q EXCEPT !.step = step, !.model = model] \in Request
           /\ [q EXCEPT !.text = text, !.step = step] \in Request
           /\ [q EXCEPT !.step = step, !.text = text] \in Request
           /\ [q EXCEPT !.refused = @ \cup out] \in Request
<1> DEFINE A == {"idle"} \cup Open \cup Ended
           B == Seq(_providers)
           C == 0..2
           D == Seq(_providers \X (1..2) \X (0..Chunks))
           F == SUBSET _providers
           G == 0..MaxCalls
<1>1. Request = [step : A, todo : B, model : C, text : D, attempt : C, refused : F, calls : G]
  BY DEF Request
<1>2. step \in A /\ todo \in B /\ model \in C /\ text \in D /\ q.refused \cup out \in F
  BY DEF Request
<1> HIDE DEF A, B, C, D, F, G
<1>3. QED
  BY <1>1, <1>2

\* A call of the router as it starts, a request that goes to the first of rest, and
\* one that has nobody to go to.
Starting(attempt, calls) == [Idle EXCEPT !.attempt = attempt, !.calls = calls]

Turned(q, rest, out) == [q EXCEPT !.todo = rest, !.model = 0,
                                  !.refused = @ \cup out, !.step = "health"]

Drained(q, out) == [q EXCEPT !.todo = <<>>, !.model = 0,
                             !.refused = @ \cup out, !.text = <<>>]

\* A call of the router starts from a request.
LEMMA StartsAsRequest ==
    ASSUME NEW attempt \in 1..2, NEW calls \in 0..MaxCalls
    PROVE  /\ Starting(attempt, calls) \in Request
           /\ Starting(attempt, calls).attempt = attempt
           /\ Starting(attempt, calls).refused = {}
           /\ Starting(attempt, calls).text = <<>>
<1> DEFINE A == {"idle"} \cup Open \cup Ended
           B == Seq(_providers)
           C == 0..2
           D == Seq(_providers \X (1..2) \X (0..Chunks))
           F == SUBSET _providers
           G == 0..MaxCalls
<1>1. Request = [step : A, todo : B, model : C, text : D, attempt : C, refused : F, calls : G]
  BY DEF Request
<1>2. "idle" \in A /\ {} \in F
  OBVIOUS
<1>3. <<>> \in B /\ <<>> \in D
  OBVIOUS
<1>4. 0 \in C /\ attempt \in C /\ calls \in G /\ 0 \in G
  BY RoutingAssumption
<1> HIDE DEF A, B, C, D, F, G
<1>5. Idle \in Request
  BY <1>1, <1>2, <1>3, <1>4 DEF Idle
<1>6. Starting(attempt, calls) \in Request
  BY <1>1, <1>4, <1>5 DEF Starting
<1>7. /\ Starting(attempt, calls).attempt = attempt
      /\ Starting(attempt, calls).refused = {} /\ Starting(attempt, calls).text = <<>>
  BY DEF Idle, Starting
<1>8. QED
  BY <1>6, <1>7

\* A request that has somebody to ask goes to him.
LEMMA AsksNext ==
    ASSUME NEW r \in Requests, NEW q \in Request, NEW rest \in Seq(_providers), rest # <<>>,
           NEW out, out \subseteq _providers, IsInjective(rest),
           ToSet(rest) = EligibleSet[r] \ (q.refused \cup out), q.attempt # 0, Traced(r, q.text),
           \A j \in DOMAIN q.text : q.text[j][1] \notin ToSet(rest)
    PROVE  LET new == Turned(q, rest, out)
           IN /\ Sound(r, new) /\ new.attempt = q.attempt /\ new.step = "health"
              /\ new.refused = q.refused \cup out /\ Outcome(new) = Lost(r, new)
<1> DEFINE new == Turned(q, rest, out)
<1>1. /\ new \in Request /\ new.attempt = q.attempt /\ new.step = "health"
      /\ new.refused = q.refused \cup out /\ new.todo = rest /\ new.text = q.text
  <2>1. "health" \in {"idle"} \cup Open \cup Ended /\ 0 \in 0..2
        /\ q.text \in Seq(_providers \X (1..2) \X (0..Chunks))
    BY DEF Open, Request
  <2>2. new \in Request
    BY <2>1, Updated DEF Turned
  <2>3. QED
    BY <2>2 DEF Request, Turned
<1> HIDE DEF new
<1>2. Queued(r, new)
  BY <1>1 DEF Queued
<1>3. Fresh(new)
  BY <1>1 DEF Fresh
<1>4. Outcome(new) = "open"
  BY <1>1 DEF Outcome
<1>5. Willing(r, new) # {}
  BY <1>1, NoElements DEF Willing
<1>6. QED
  BY <1>1, <1>2, <1>3, <1>4, <1>5 DEF Sound, Lost, new

\* A request that has nobody left to ask fails, or waits for its second attempt.
LEMMA RaisedSound ==
    ASSUME NEW r \in Requests, NEW q \in Request, NEW out, out \subseteq _providers,
           EligibleSet[r] \subseteq q.refused \cup out, q.attempt # 0
    PROVE  LET new == Raised(r, Drained(q, out))
           IN /\ Sound(r, new) /\ new.attempt = q.attempt /\ new.step # "idle"
              /\ new.refused = q.refused \cup out /\ Outcome(new) = Lost(r, new)
<1> DEFINE left == Drained(q, out)
           new == Raised(r, left)
<1>1. /\ left \in Request /\ left.attempt = q.attempt /\ left.attempt \in 1..2
      /\ left.refused = q.refused \cup out /\ left.text = <<>> /\ left.todo = <<>>
  <2>1. /\ <<>> \in Seq(_providers) /\ <<>> \in Seq(_providers \X (1..2) \X (0..Chunks))
        /\ 0 \in 0..2 /\ q.step \in {"idle"} \cup Open \cup Ended
    BY DEF Request
  <2>2. left \in Request
    BY <2>1, Updated DEF Drained
  <2>3. left.attempt = q.attempt /\ q.attempt \in 0..2
        /\ left.refused = q.refused \cup out /\ left.text = <<>> /\ left.todo = <<>>
    BY DEF Request, Drained
  <2>4. QED
    BY <2>2, <2>3
<1> HIDE DEF left
<1>2. PICK s \in {"failed", "pause", "error"} :
         /\ new = [left EXCEPT !.step = s]
         /\ s = "pause" => r \in Structured /\ left.attempt = 1
  <2>0. new = Raised(r, left)
    OBVIOUS
  <2>1. CASE r \in Chats
    <3>1. r \notin Structured
      BY <2>1, RoutingAssumption
    <3>2. QED
      BY <2>0, <2>1, <3>1 DEF Raised
  <2>2. CASE r \in Structured /\ left.attempt < 2
    <3>1. r \notin Chats /\ left.attempt = 1 /\ left.attempt # 2
      BY <2>2, <1>1, RoutingAssumption
    <3>2. QED
      BY <2>0, <2>2, <3>1 DEF Raised
  <2>3. CASE r \in Structured /\ left.attempt = 2
    <3>1. r \notin Chats /\ ~(left.attempt < 2)
      BY <2>3, RoutingAssumption
    <3>2. QED
      BY <2>0, <2>3, <3>1 DEF Raised
  <2>4. QED
    BY <2>1, <2>2, <2>3, <1>1 DEF Requests
<1> HIDE DEF new
<1>3. /\ new \in Request /\ new.step = s /\ new.attempt = left.attempt
      /\ new.refused = left.refused /\ new.text = <<>> /\ new.todo = <<>>
  BY <1>1, <1>2 DEF Request, Open, Ended
<1>4. Queued(r, new)
  BY <1>1, <1>2, <1>3 DEF Queued, Asked
<1>5. Fresh(new) /\ Traced(r, new.text)
  BY <1>3 DEF Fresh, Traced, Contiguous, Unbroken
<1>6. Outcome(new) = "failed"
  BY <1>3 DEF Outcome
<1>7. Willing(r, new) = {}
  BY <1>1, <1>3 DEF Willing
<1>8. QED
  BY <1>1, <1>3, <1>4, <1>5, <1>6, <1>7 DEF Sound, Lost, new, left

\* The router's loop, from where it is.
LEMMA Evaluates ==
    ASSUME NEW r \in Requests, NEW q \in Request, NEW todo \in Seq(_providers), NEW cooldowns,
           IsInjective(todo), ToSet(todo) = EligibleSet[r] \ q.refused,
           q.attempt # 0, Traced(r, q.text),
           \A j \in DOMAIN q.text : q.text[j][1] \notin ToSet(todo),
           Evaluate(r, q, todo, cooldowns)
    PROVE  \E new : /\ Changes(r, new)
                    /\ new.attempt = q.attempt /\ new.step # "idle"
                    /\ q.refused \subseteq new.refused
                    /\ Outcome(new) = Lost(r, new)
<1> DEFINE rest == Uncooled(todo, cooldowns)
           out == ToSet(todo) \ ToSet(rest)
           next == [q EXCEPT !.todo = rest, !.model = 0, !.refused = @ \cup out]
<1>1. rest \in Seq(_providers) /\ IsInjective(rest) /\ ToSet(rest) \subseteq ToSet(todo)
  BY UncooledIsPart
<1>2. out \subseteq _providers
  BY DEF ToSet
<1>3. ToSet(rest) = EligibleSet[r] \ (q.refused \cup out)
  BY <1>1
<1>4. requests' = [requests EXCEPT ![r] =
                     IF rest = <<>> THEN Raised(r, [next EXCEPT !.text = <<>>])
                     ELSE [next EXCEPT !.step = "health"]]
  BY DEF Evaluate
<1> HIDE DEF rest
<1>5. CASE rest # <<>>
  <2> DEFINE new == Turned(q, rest, out)
  <2>1. requests' = [requests EXCEPT ![r] = new]
    BY <1>4, <1>5 DEF Turned
  <2>2. \A j \in DOMAIN q.text : q.text[j][1] \notin ToSet(rest)
    BY <1>1
  <2> HIDE DEF out
  <2>3. /\ Sound(r, new) /\ new.attempt = q.attempt /\ new.step = "health"
        /\ new.refused = q.refused \cup out /\ Outcome(new) = Lost(r, new)
    BY <1>1, <1>2, <1>3, <1>5, <2>2, AsksNext
  <2> HIDE DEF new
  <2>4. QED
    BY <2>1, <2>3 DEF Changes
<1>6. CASE rest = <<>>
  <2> DEFINE new == Raised(r, Drained(q, out))
  <2>1. [next EXCEPT !.text = <<>>] = Drained(q, out)
    BY <1>6 DEF Drained
  <2>2. EligibleSet[r] \subseteq q.refused \cup out
    BY <1>3, <1>6, <1>1, NoElements
  <2>3. requests' = [requests EXCEPT ![r] = new]
    BY <1>4, <1>6, <2>1
  <2> HIDE DEF out
  <2>4. /\ Sound(r, new) /\ new.attempt = q.attempt /\ new.step # "idle"
        /\ new.refused = q.refused \cup out /\ Outcome(new) = Lost(r, new)
    BY <1>2, <2>2, RaisedSound
  <2> HIDE DEF new
  <2>5. QED
    BY <2>3, <2>4 DEF Changes
<1>7. QED
  BY <1>5, <1>6

\* A call of the router.
LEMMA Routed ==
    ASSUME NEW r \in Requests, NEW attempt \in 1..2, NEW calls \in 0..MaxCalls,
           Route(r, attempt, calls)
    PROVE  /\ UNCHANGED <<_rate_limited_until, last_model_id>>
           /\ \E new : /\ Changes(r, new)
                       /\ new.attempt = attempt /\ new.step # "idle"
                       /\ Outcome(new) = Lost(r, new)
<1> DEFINE q == Starting(attempt, calls)
           todo == _get_eligible_providers[r]
<1>1. q \in Request /\ q.attempt = attempt /\ q.refused = {} /\ q.text = <<>>
  BY StartsAsRequest
<1>2. /\ Evaluate(r, q, todo, _rate_limited_until)
      /\ UNCHANGED <<_rate_limited_until, last_model_id>>
  BY DEF Route, Starting
<1>3. todo \in Seq(_providers) /\ IsInjective(todo) /\ ToSet(todo) = EligibleSet[r]
  BY EligibleOnce
<1> HIDE DEF q, todo
<1>4. Traced(r, q.text) /\ \A j \in DOMAIN q.text : q.text[j][1] \notin ToSet(todo)
  BY <1>1 DEF Traced, Contiguous, Unbroken
<1>5. q.attempt # 0 /\ ToSet(todo) = EligibleSet[r] \ q.refused
  BY <1>1, <1>3
<1>6. \E new : /\ Changes(r, new) /\ new.attempt = q.attempt /\ new.step # "idle"
               /\ q.refused \subseteq new.refused /\ Outcome(new) = Lost(r, new)
  BY <1>1, <1>2, <1>3, <1>4, <1>5, Evaluates
<1>7. QED
  BY <1>1, <1>2, <1>6

-------------------------------------------------------------------------------
(* The steps of one request.                                               *)

\* A step of request r that keeps the invariant and FailoverPromise.
StepOf(r) ==
    /\ _rate_limited_until' \subseteq Keys
    /\ last_model_id' \in [_providers -> Models \cup {"unknown"}]
    /\ \E new : Changes(r, new) /\ Promised(r, requests[r], new)

\* A request that asks somebody.
LEMMA Asking ==
    ASSUME RoutingIInv, NEW r \in Requests, requests[r].step \in Asked
    PROVE  LET q == requests[r]
           IN /\ q \in Request /\ Traced(r, q.text) /\ Fresh(q)
              /\ q.todo \in Seq(_providers) /\ q.todo # <<>> /\ IsInjective(q.todo)
              /\ ToSet(q.todo) = EligibleSet[r] \ q.refused /\ q.attempt # 0
              /\ q.text \in Seq(_providers \X (1..2) \X (0..Chunks))
              /\ Outcome(q) = "open" /\ Willing(r, q) = ToSet(q.todo)
              /\ At(r) = Head(q.todo) /\ At(r) \in _providers /\ At(r) \in ToSet(q.todo)
              /\ Tail(q.todo) \in Seq(_providers) /\ IsInjective(Tail(q.todo))
              /\ ToSet(Tail(q.todo)) = ToSet(q.todo) \ {At(r)}
<1> DEFINE q == requests[r]
<1>1. Sound(r, q) /\ q \in Request
  BY DEF RoutingIInv, Sound
<1> HIDE DEF q
<1>2. q.step \in Asked
  BY DEF q
<1>3. /\ Traced(r, q.text) /\ Fresh(q) /\ q.todo # <<>> /\ IsInjective(q.todo)
      /\ ToSet(q.todo) = EligibleSet[r] \ q.refused /\ q.attempt # 0
  BY <1>1, <1>2 DEF Sound, Queued
<1>4. q.todo \in Seq(_providers) /\ q.text \in Seq(_providers \X (1..2) \X (0..Chunks))
  BY <1>1 DEF Request
<1>5. Outcome(q) = "open"
  BY <1>2 DEF Asked, Outcome
<1>6. Willing(r, q) = ToSet(q.todo)
  BY <1>2, <1>3 DEF Asked, Willing
<1>7. At(r) = Head(q.todo)
  BY DEF At, q
<1>8. QED
  BY <1>1, <1>3, <1>4, <1>5, <1>6, <1>7, TailOfQueue DEF q

LEMMA EmptySeq == ASSUME NEW S, NEW s \in Seq(S), Len(s) = 0 PROVE s = <<>>
  OBVIOUS

\* What a provider tries.
LEMMA TriedModels ==
    ASSUME NEW p \in _providers, NEW r \in Requests
    PROVE  /\ Len(Tried(p)) \in 1..2
           /\ \A i \in 1..Len(Tried(p)) : Candidates(r, p)[i] \in Models
<1>1. candidates[p] \in Seq(Models) /\ candidates[p] # <<>> /\ Len(Tried(p)) <= 2
  BY RoutingAssumption
<1>2. Tried(p) \in Seq(Models) /\ Tried(p) # <<>>
  BY <1>1 DEF Tried
<1> DEFINE t == Tried(p)
<1> HIDE DEF t
<1>3. t \in Seq(Models) /\ t # <<>> /\ Len(t) <= 2
  BY <1>1, <1>2 DEF t
<1>4. \A i \in 1..Len(t) : Reverse(t)[i] \in Models
  BY <1>3 DEF Reverse
<1>5. Candidates(r, p) = t \/ Candidates(r, p) = Reverse(t)
  BY DEF Candidates, t
<1>6. \A i \in 1..Len(t) : Candidates(r, p)[i] \in Models
  <2>1. CASE Candidates(r, p) = t
    BY <1>3, <2>1
  <2>2. CASE Candidates(r, p) = Reverse(t)
    BY <1>4, <2>2
  <2>3. QED
    BY <1>5, <2>1, <2>2
<1>7. Len(t) \in 1..2
  <2>1. Len(t) \in Nat /\ Len(t) <= 2
    BY <1>3
  <2>2. Len(t) # 0
    BY <1>3, EmptySeq
  <2>3. PICK n \in Nat : n = Len(t)
    BY <2>1
  <2>4. n \in 1..2
    <3>1. n <= 2 /\ n # 0
      BY <2>1, <2>2, <2>3
    <3>2. QED
      BY <3>1
  <2>5. QED
    BY <2>3, <2>4
<1>8. QED
  BY <1>6, <1>7 DEF t

\* The provider is done with, for a reason.
LEMMA NextProviderStep ==
    ASSUME RoutingIInv, NEW r \in Requests, requests[r].step \in {"health", "stream"},
           NEW cooldowns, cooldowns \subseteq Keys, NextProvider(r, cooldowns)
    PROVE  StepOf(r)
<1> DEFINE q == requests[r]
           p == At(r)
           q1 == [q EXCEPT !.refused = @ \cup {p}]
<1>1. /\ q \in Request /\ Traced(r, q.text) /\ Fresh(q)
      /\ ToSet(q.todo) = EligibleSet[r] \ q.refused /\ q.attempt # 0
      /\ Outcome(q) = "open" /\ Willing(r, q) = ToSet(q.todo)
      /\ p = Head(q.todo) /\ p \in _providers /\ p \in ToSet(q.todo)
      /\ Tail(q.todo) \in Seq(_providers) /\ IsInjective(Tail(q.todo))
      /\ ToSet(Tail(q.todo)) = ToSet(q.todo) \ {p}
  BY Asking DEF Asked
<1>2. /\ Evaluate(r, q1, Tail(q.todo), cooldowns)
      /\ _rate_limited_until' = cooldowns /\ UNCHANGED last_model_id
  BY DEF NextProvider
<1>3. requests[r].step = q.step /\ q.step \in {"health", "stream"}
  OBVIOUS
<1> HIDE DEF q, p
<1>4. /\ q1 \in Request /\ q1.attempt = q.attempt /\ q1.text = q.text
      /\ q1.refused = q.refused \cup {p}
  <2>1. \E step \in {"idle"} \cup Open \cup Ended : TRUE
    OBVIOUS
  <2>2. /\ q.todo \in Seq(_providers) /\ q.model \in 0..2
        /\ q.text \in Seq(_providers \X (1..2) \X (0..Chunks))
    BY <1>1 DEF Request
  <2>3. {p} \subseteq _providers
    BY <1>1
  <2>4. q1 \in Request
    BY <1>1, <2>1, <2>2, <2>3, Updated
  <2>5. QED
    BY <1>1, <2>4 DEF Request
<1> HIDE DEF q1
<1>5. \A j \in DOMAIN q1.text : q1.text[j][1] \notin ToSet(Tail(q.todo))
  BY <1>1, <1>3, <1>4 DEF Fresh
<1>6. PICK new : /\ Changes(r, new)
                 /\ new.attempt = q1.attempt /\ new.step # "idle"
                 /\ q1.refused \subseteq new.refused
                 /\ Outcome(new) = Lost(r, new)
  <2>1. ToSet(Tail(q.todo)) = EligibleSet[r] \ q1.refused
    BY <1>1, <1>4
  <2>2. q1.attempt # 0 /\ Traced(r, q1.text)
    BY <1>1, <1>4
  <2> DEFINE rest == Tail(q.todo)
  <2>3. /\ rest \in Seq(_providers) /\ IsInjective(rest)
        /\ ToSet(rest) = EligibleSet[r] \ q1.refused
        /\ \A j \in DOMAIN q1.text : q1.text[j][1] \notin ToSet(rest)
        /\ Evaluate(r, q1, rest, cooldowns)
    BY <1>1, <1>2, <1>5, <2>1
  <2> HIDE DEF rest
  <2>4. QED
    BY <1>4, <2>2, <2>3, Evaluates
<1>7. Willing(r, new) = EligibleSet[r] \ new.refused
  BY <1>6 DEF Willing
<1>8. Willing(r, new) \subseteq Willing(r, q) /\ Willing(r, new) # Willing(r, q)
  BY <1>1, <1>4, <1>6, <1>7
<1>9. Promised(r, q, new)
  BY <1>1, <1>4, <1>6, <1>8 DEF Promised
<1>10. last_model_id \in [_providers -> Models \cup {"unknown"}]
  BY DEF RoutingIInv, RoutingTypeOK
<1>11. QED
  BY <1>2, <1>6, <1>9, <1>10 DEF StepOf, q

\* The provider's next model, or its first.
LEMMA OpensStep ==
    ASSUME RoutingIInv, NEW r \in Requests, NEW i \in 1..Len(Tried(At(r))), Opens(r, i),
           \/ requests[r].step = "health"
           \/ (requests[r].step = "stream" /\ requests[r].model < i)
    PROVE  StepOf(r)
<1> DEFINE q == requests[r]
           p == At(r)
           new == [q EXCEPT !.step = "stream", !.model = i]
<1>1. /\ q \in Request /\ Traced(r, q.text) /\ Fresh(q)
      /\ q.todo # <<>> /\ IsInjective(q.todo)
      /\ ToSet(q.todo) = EligibleSet[r] \ q.refused /\ q.attempt # 0
      /\ q.text \in Seq(_providers \X (1..2) \X (0..Chunks))
      /\ Outcome(q) = "open" /\ Willing(r, q) = ToSet(q.todo)
      /\ p = Head(q.todo) /\ p \in _providers /\ p \in ToSet(q.todo)
      /\ ToSet(Tail(q.todo)) = ToSet(q.todo) \ {p}
  BY Asking DEF Asked
<1>2. requests \in [Requests -> Request]
  BY DEF RoutingIInv, RoutingTypeOK
<1>3. /\ last_model_id' = [last_model_id EXCEPT ![p] = last_model_id_of(p, Candidates(r, p)[i])]
      /\ requests' = [requests EXCEPT ![r] = new] /\ UNCHANGED _rate_limited_until
  BY <1>2 DEF Opens
<1>4. q.step = "health" \/ (q.step = "stream" /\ q.model < i)
  OBVIOUS
<1> HIDE DEF q, p
<1>5. i \in 1..Len(Tried(p)) /\ i \in 1..2 /\ Candidates(r, p)[i] \in Models
  <2>1. i \in 1..Len(Tried(p))
    BY DEF p
  <2>2. Len(Tried(p)) \in 1..2 /\ \A k \in 1..Len(Tried(p)) : Candidates(r, p)[k] \in Models
    BY <1>1, TriedModels
  <2>3. PICK n \in 1..2 : n = Len(Tried(p))
    BY <2>2
  <2>4. i \in 1..n
    BY <2>1, <2>3
  <2>5. i \in 1..2
    BY <2>4
  <2>6. QED
    BY <2>1, <2>2, <2>5
<1>6. /\ new \in Request /\ new.step = "stream" /\ new.model = i /\ new.todo = q.todo
      /\ new.text = q.text /\ new.attempt = q.attempt /\ new.refused = q.refused
  <2>1. "stream" \in {"idle"} \cup Open \cup Ended /\ i \in 0..2 /\ {} \subseteq _providers
        /\ q.todo \in Seq(_providers)
    BY <1>1, <1>5 DEF Open, Request
  <2>2. new \in Request
    BY <1>1, <2>1, Updated
  <2>3. QED
    BY <1>1, <2>2 DEF Request
<1> HIDE DEF new
<1>7. Queued(r, new)
  BY <1>1, <1>6 DEF Queued
<1>8. ASSUME NEW j \in DOMAIN q.text
      PROVE  /\ q.text[j][1] \notin ToSet(Tail(q.todo))
             /\ q.text[j][1] = p => q.text[j][2] < i
  <2>1. CASE q.step = "health"
    BY <1>1, <2>1 DEF Fresh
  <2>2. CASE q.step = "stream" /\ q.model < i
    <3>1. q.text[j][2] \in 1..2 /\ q.model \in 0..2
      BY <1>1 DEF Request
    <3>2. QED
      BY <1>1, <1>5, <2>2, <3>1 DEF Fresh
  <2>3. QED
    BY <1>4, <2>1, <2>2
<1>9. Run(q.text, p, i, 0)
  <2>1. ASSUME NEW j \in DOMAIN q.text
        PROVE  ~(q.text[j][1] = p /\ q.text[j][2] = i) /\ ~(j > Len(q.text) - 0)
    <3>1. q.text[j][2] \in 1..2
      BY <1>1
    <3>2. q.text[j][1] = p => q.text[j][2] < i
      BY <1>8
    <3>3. QED
      BY <1>1, <1>5, <3>1, <3>2
  <2>2. QED
    BY <2>1 DEF Run
<1>10. Fresh(new)
  <2>1. 0 \in 0..Len(q.text)
    BY <1>1
  <2>2. \A j \in DOMAIN q.text : q.text[j][1] = p => q.text[j][2] <= i
    <3>1. ASSUME NEW j \in DOMAIN q.text, q.text[j][1] = p PROVE q.text[j][2] <= i
      <4>1. q.text[j][2] \in 1..2
        BY <1>1
      <4>2. QED
        BY <1>5, <1>8, <3>1, <4>1
    <3>2. QED
      BY <3>1
  <2>3. QED
    BY <1>1, <1>5, <1>6, <1>8, <1>9, <2>1, <2>2 DEF Fresh
<1>11. Sound(r, new)
  BY <1>1, <1>6, <1>7, <1>10 DEF Sound
<1>12. Promised(r, q, new)
  <2>1. Outcome(new) = "open"
    BY <1>6 DEF Outcome
  <2>2. Willing(r, new) = Willing(r, q)
    BY <1>1, <1>6 DEF Willing
  <2>3. QED
    BY <1>1, <1>6, <2>1, <2>2 DEF Promised
<1>13. last_model_id' \in [_providers -> Models \cup {"unknown"}]
  <2>1. last_model_id \in [_providers -> Models \cup {"unknown"}]
    BY DEF RoutingIInv, RoutingTypeOK
  <2>2. last_model_id_of(p, Candidates(r, p)[i]) \in Models \cup {"unknown"}
    BY <1>5 DEF last_model_id_of
  <2>3. QED
    BY <1>1, <1>3, <2>1, <2>2
<1>14. _rate_limited_until' \subseteq Keys
  BY <1>3 DEF RoutingIInv, RoutingTypeOK
<1>15. QED
  BY <1>3, <1>11, <1>12, <1>13, <1>14 DEF StepOf, Changes, q

\* The texts of requests, and one with a piece more.
Texts == Seq(_providers \X (1..2) \X (0..Chunks))

WithPiece(text, p, i, k) == Append(text, <<p, i, k>>)

\* What a text with a piece more consists of.
LEMMA PieceAppended ==
    ASSUME NEW text \in Texts, NEW p \in _providers, NEW i \in 1..2, NEW k \in 0..Chunks
    PROVE  LET more == WithPiece(text, p, i, k)
           IN /\ more \in Texts /\ more # <<>>
              /\ Len(more) = Len(text) + 1 /\ DOMAIN more = 1..(Len(text) + 1)
              /\ DOMAIN text = 1..Len(text) /\ Len(text) \in Nat
              /\ \A j \in DOMAIN text : more[j] = text[j]
              /\ more[Len(text) + 1] = <<p, i, k>>
              /\ EndsInError(more) <=> k = 0
<1> DEFINE T == _providers \X (1..2) \X (0..Chunks)
           e == <<p, i, k>>
<1>1. e \in T /\ e[3] = k /\ text \in Seq(T)
  BY DEF Texts
<1> HIDE DEF T, e
<1> DEFINE more == Append(text, e)
<1>2. /\ more \in Seq(T) /\ Len(more) = Len(text) + 1 /\ Len(text) \in Nat
      /\ \A j \in 1..Len(text) : more[j] = text[j]
      /\ more[Len(text) + 1] = e
  BY <1>1
<1>3. DOMAIN text = 1..Len(text)
  BY <1>1
<1> HIDE DEF more
<1>4. DOMAIN more = 1..(Len(text) + 1)
  BY <1>2
<1>5. more # <<>>
  BY <1>2
<1>6. Last(more) = e
  BY <1>2 DEF Last
<1>7. EndsInError(more) <=> k = 0
  BY <1>1, <1>5, <1>6 DEF EndsInError
<1>8. QED
  BY <1>2, <1>3, <1>4, <1>5, <1>7 DEF more, e, T, Texts, WithPiece

\* The pieces of a text.
LEMMA PiecesOfText ==
    ASSUME NEW text \in Texts
    PROVE  \A j \in DOMAIN text :
              /\ text[j] = <<text[j][1], text[j][2], text[j][3]>>
              /\ text[j][1] \in _providers /\ text[j][2] \in 1..2 /\ text[j][3] \in 0..Chunks
  BY DEF Texts

\* Where the stream that a text ends with has got to.
LEMMA RunIsAt ==
    ASSUME NEW text \in Texts, NEW p, NEW i, NEW n \in 0..Len(text), Run(text, p, i, n)
    PROVE  /\ n = 0 => Position(text, p, i) = 0
           /\ n # 0 => /\ Len(text) \in DOMAIN text
                       /\ text[Len(text)][1] = p /\ text[Len(text)][2] = i
                       /\ Position(text, p, i) = text[Len(text)][3]
<1>1. PICK len \in Nat : len = Len(text) /\ DOMAIN text = 1..len
  BY DEF Texts
<1>2. CASE n = 0
  <2>1. ASSUME text # <<>> PROVE ~(Last(text)[1] = p /\ Last(text)[2] = i)
    <3>1. len \in 1..len /\ ~(len > len - n)
      BY <1>1, <1>2, <2>1 DEF Texts
    <3>2. QED
      BY <1>1, <3>1 DEF Run, Last
  <2>2. QED
    BY <1>2, <2>1 DEF Position
<1>3. CASE n # 0
  <2>1. len \in 1..len /\ len > len - n /\ text # <<>>
    BY <1>1, <1>3 DEF Texts
  <2>2. text[len][1] = p /\ text[len][2] = i
    BY <1>1, <2>1 DEF Run
  <2>3. QED
    BY <1>1, <1>3, <2>1, <2>2 DEF Position, Last
<1>4. QED
  BY <1>2, <1>3

\* A later piece of the open stream, or an error, keeps the text in order.
LEMMA AppendsPiece ==
    ASSUME NEW text \in Texts, NEW p \in _providers,
           NEW i \in 1..2, NEW n \in 0..Len(text), NEW k \in 0..Chunks,
           Run(text, p, i, n), Contiguous(text), k = 0 \/ k > Position(text, p, i)
    PROVE  /\ Contiguous(WithPiece(text, p, i, k))
           /\ k # 0 => \E m \in 0..Len(WithPiece(text, p, i, k)) :
                           Run(WithPiece(text, p, i, k), p, i, m)
<1> DEFINE more == WithPiece(text, p, i, k)
           e == <<p, i, k>>
<1>0. PICK len \in Nat : len = Len(text)
  BY DEF Texts
<1>1. e[1] = p /\ e[2] = i /\ e[3] = k /\ n \in 0..len /\ k \in Nat
  BY <1>0, RoutingAssumption
<1>2. /\ Len(more) = len + 1 /\ DOMAIN more = 1..(len + 1)
      /\ DOMAIN text = 1..len
      /\ \A j \in 1..len : more[j] = text[j]
      /\ more[len + 1] = e
  BY <1>0, PieceAppended
<1>3. \A j \in 1..len :
         /\ text[j] = <<text[j][1], text[j][2], text[j][3]>> /\ text[j][3] \in Nat
  BY <1>2, PiecesOfText, RoutingAssumption
<1>4. \A j \in 1..len :
        /\ (text[j][1] = p /\ text[j][2] = i) <=> j > len - n
        /\ j > len - n => text[j][3] <= text[len][3]
  BY <1>0, <1>2 DEF Run
\* What the open stream has written comes before the new piece.
<1>5. ASSUME NEW j \in 1..len, text[j][1] = p, text[j][2] = i, k # 0
      PROVE  /\ len \in 1..len /\ text[len][1] = p /\ text[len][2] = i
             /\ text[j][3] <= text[len][3] /\ text[len][3] < k
  <2>1. j > len - n
    BY <1>4, <1>5
  <2>2. n # 0 /\ len \in 1..len
    BY <1>1, <2>1
  <2>3. text[len][1] = p /\ text[len][2] = i /\ Position(text, p, i) = text[len][3]
    BY <1>0, <2>2, RunIsAt
  <2>4. QED
    BY <1>1, <1>3, <1>4, <1>5, <2>1, <2>2, <2>3
<1> HIDE DEF more, e
\* A piece that is not the new one was in the text.
<1>6. ASSUME NEW x, x # e, x \in ToSet(more) PROVE x \in ToSet(text)
  <2>1. PICK a \in 1..(len + 1) : x = more[a]
    BY <1>2, <1>6 DEF ToSet
  <2>2. a \in 1..len
    BY <1>2, <1>6, <2>1
  <2>3. QED
    BY <1>2, <2>1, <2>2 DEF ToSet
<1>7. Contiguous(more)
  <2>1. ASSUME NEW j \in 1..len, text[j][3] # 0,
               Wrote(more, text[j][1], text[j][2], text[j][3])
        PROVE  Wrote(text, text[j][1], text[j][2], text[j][3])
    <3>1. SUFFICES ASSUME NEW m \in 1..text[j][3]
                   PROVE  <<text[j][1], text[j][2], m>> # e
      BY <1>6, <2>1 DEF Wrote
    <3>2. SUFFICES ASSUME text[j][1] = p, text[j][2] = i, m = k PROVE FALSE
      BY DEF e
    <3>3. text[j][3] \in Nat /\ text[len][3] \in Nat /\ len \in 1..len
      BY <1>3, <1>5, <3>1, <3>2
    <3>4. QED
      BY <1>1, <1>5, <3>1, <3>2, <3>3
  <2>2. ASSUME NEW j \in 1..len, text[j][3] # 0,
               Wrote(more, text[j][1], text[j][2], text[j][3])
        PROVE  /\ text[j][3] <= j
               /\ \A m \in 1..text[j][3] :
                     more[j - text[j][3] + m] = <<text[j][1], text[j][2], m>>
    <3>1. PICK x \in Nat : x = text[j][3]
      BY <1>3
    <3>2. x <= j /\ \A m \in 1..x : text[j - x + m] = <<text[j][1], text[j][2], m>>
      BY <1>2, <2>1, <2>2, <3>1 DEF Contiguous
    <3>3. \A m \in 1..x : j - x + m \in 1..len
      BY <3>2
    <3>4. QED
      BY <1>2, <3>1, <3>2, <3>3
  <2>3. ASSUME k # 0, Wrote(more, p, i, k)
        PROVE  /\ k <= len + 1
               /\ \A m \in 1..k : more[len + 1 - k + m] = <<p, i, m>>
    <3>1. CASE k = 1
      BY <1>2, <3>1 DEF e
    <3>2. CASE k # 1
      <4>1. PICK b \in Nat : b = k - 1 /\ b # 0 /\ b < k
        BY <1>1, <2>3, <3>2
      <4>2. \A m \in 1..b : <<p, i, m>> \in ToSet(text)
        <5>1. ASSUME NEW m \in 1..b PROVE m \in 1..k /\ <<p, i, m>> # e
          BY <4>1 DEF e
        <5>2. QED
          BY <1>6, <2>3, <5>1 DEF Wrote
      <4>3. PICK a \in 1..len : text[a] = <<p, i, b>>
        <5>1. <<p, i, b>> \in ToSet(text)
          BY <4>1, <4>2
        <5>2. QED
          BY <1>2, <5>1 DEF ToSet
      <4>4. text[len][3] = b /\ text[len][1] = p /\ text[len][2] = i /\ len \in 1..len
        BY <1>3, <1>5, <2>3, <4>1, <4>3
      <4>5. Wrote(text, p, i, b)
        BY <4>2 DEF Wrote
      <4>6. b <= len /\ \A m \in 1..b : text[len - b + m] = <<p, i, m>>
        BY <1>2, <4>1, <4>4, <4>5 DEF Contiguous
      <4>7. ASSUME NEW m \in 1..k PROVE more[len + 1 - k + m] = <<p, i, m>>
        <5>1. CASE m = k
          <6>1. len + 1 - k + m = len + 1
            BY <1>1, <5>1
          <6>2. QED
            BY <1>2, <5>1, <6>1 DEF e
        <5>2. CASE m # k
          <6>1. m \in 1..b /\ len + 1 - k + m = len - b + m /\ len - b + m \in 1..len
            BY <1>1, <4>1, <4>6, <5>2
          <6>2. QED
            BY <1>2, <4>6, <6>1
        <5>3. QED
          BY <5>1, <5>2
      <4>8. k <= len + 1
        BY <1>1, <4>1, <4>6
      <4>9. QED
        BY <4>7, <4>8
    <3>3. QED
      BY <3>1, <3>2
  <2>4. ASSUME NEW j \in DOMAIN more, more[j][3] # 0,
               Wrote(more, more[j][1], more[j][2], more[j][3])
        PROVE  /\ more[j][3] <= j
               /\ \A m \in 1..more[j][3] :
                     more[j - more[j][3] + m] = <<more[j][1], more[j][2], m>>
    <3>1. CASE j \in 1..len
      <4>1. more[j] = text[j]
        BY <1>2, <3>1
      <4>2. QED
        BY <2>2, <2>4, <3>1, <4>1
    <3>2. CASE j = len + 1
      <4>1. more[j][1] = p /\ more[j][2] = i /\ more[j][3] = k
        BY <1>1, <1>2, <3>2
      <4>2. k # 0 /\ Wrote(more, p, i, k)
        BY <2>4, <4>1
      <4>3. k <= j /\ \A m \in 1..k : more[j - k + m] = <<p, i, m>>
        <5>1. k <= len + 1 /\ \A m \in 1..k : more[len + 1 - k + m] = <<p, i, m>>
          BY <2>3, <4>2
        <5>2. \A m \in 1..k : j - k + m = len + 1 - k + m
          BY <3>2
        <5>3. QED
          BY <3>2, <5>1, <5>2, Zenon
      <4>4. QED
        BY <4>1, <4>3
    <3>3. j \in 1..len \/ j = len + 1
      BY <1>2
    <3>4. QED
      BY <3>1, <3>2, <3>3
  <2>5. QED
    BY <2>4 DEF Contiguous
<1>8. ASSUME k # 0 PROVE \E m \in 0..Len(more) : Run(more, p, i, m)
  <2>1. n + 1 \in 0..Len(more) /\ Len(more) - (n + 1) = len - n
    BY <1>1, <1>2
  <2>2. ASSUME NEW j \in 1..(len + 1)
        PROVE  /\ (more[j][1] = p /\ more[j][2] = i) <=> j > len - n
               /\ j > len - n => more[j][3] <= k
    <3>1. CASE j \in 1..len
      <4>1. more[j] = text[j]
        BY <1>2, <3>1
      <4>2. ASSUME j > len - n PROVE text[j][3] <= k
        <5>1. text[j][1] = p /\ text[j][2] = i
          BY <1>4, <3>1, <4>2
        <5>2. text[j][3] \in Nat /\ text[len][3] \in Nat
          BY <1>3, <1>5, <1>8, <3>1, <5>1
        <5>3. QED
          BY <1>1, <1>5, <1>8, <3>1, <5>1, <5>2
      <4>3. QED
        BY <1>4, <3>1, <4>1, <4>2
    <3>2. CASE j \notin 1..len
      <4>1. j = len + 1 /\ more[j] = e
        BY <1>2, <3>2
      <4>2. j > len - n
        BY <1>1, <4>1
      <4>3. QED
        BY <1>1, <4>1, <4>2
    <3>3. QED
      BY <3>1, <3>2
  <2>3. more[Len(more)][3] = k
    BY <1>1, <1>2
  <2>4. Run(more, p, i, n + 1)
    BY <1>2, <2>1, <2>2, <2>3 DEF Run
  <2>5. QED
    BY <2>1, <2>4
<1>9. QED
  BY <1>7, <1>8 DEF more

\* The next piece of a stream leaves none out.
LEMMA AppendsNext ==
    ASSUME NEW text \in Texts, NEW p \in _providers,
           NEW i \in 1..2, NEW n \in 0..Len(text), NEW k \in 0..Chunks,
           Run(text, p, i, n), Unbroken(text),
           p \in Lenient \/ k = 0 \/ k = Position(text, p, i) + 1
    PROVE  Unbroken(WithPiece(text, p, i, k))
<1> DEFINE more == WithPiece(text, p, i, k)
           e == <<p, i, k>>
<1>0. PICK len \in Nat : len = Len(text)
  BY DEF Texts
<1>1. e[1] = p /\ e[2] = i /\ e[3] = k /\ k \in Nat
  BY RoutingAssumption
<1>2. /\ DOMAIN more = 1..(len + 1) /\ DOMAIN text = 1..len
      /\ \A j \in 1..len : more[j] = text[j]
      /\ more[len + 1] = e
  BY <1>0, PieceAppended
<1> HIDE DEF more, e
<1>3. ToSet(text) \subseteq ToSet(more) /\ e \in ToSet(more)
  BY <1>2 DEF ToSet
<1>4. ASSUME NEW j \in 1..len, text[j][1] \notin Lenient
      PROVE  Wrote(more, text[j][1], text[j][2], text[j][3])
  BY <1>2, <1>3, <1>4 DEF Unbroken, Wrote
<1>5. ASSUME p \notin Lenient PROVE Wrote(more, p, i, k)
  <2>1. CASE k = 0
    BY <2>1 DEF Wrote
  <2>2. CASE k # 0
    <3>1. PICK b \in Nat : b = Position(text, p, i) /\ k = b + 1
      <4>1. \A j \in 1..len : text[j][3] \in Nat
        BY <1>2, RoutingAssumption DEF Texts
      <4>2. Position(text, p, i) \in Nat
        BY <1>0, <1>2, <4>1, RunIsAt
      <4>3. QED
        BY <1>5, <2>2, <4>2
    <3>2. ASSUME NEW m \in 1..b PROVE <<p, i, m>> \in ToSet(text)
      <4>1. n # 0
        BY <3>1, <3>2, RunIsAt
      <4>2. len \in 1..len /\ text[len][1] = p /\ text[len][2] = i /\ text[len][3] = b
        BY <1>0, <1>2, <3>1, <4>1, RunIsAt
      <4>3. QED
        BY <1>2, <1>5, <3>2, <4>2 DEF Unbroken, Wrote
    <3>3. ASSUME NEW m \in 1..k PROVE <<p, i, m>> \in ToSet(more)
      <4>1. CASE m = k
        BY <1>3, <4>1 DEF e
      <4>2. CASE m # k
        <5>1. m \in 1..b
          BY <3>1, <4>2
        <5>2. QED
          BY <1>3, <3>2, <5>1
      <4>3. QED
        BY <4>1, <4>2
    <3>4. QED
      BY <3>3 DEF Wrote
  <2>3. QED
    BY <2>1, <2>2
<1>6. ASSUME NEW j \in 1..(len + 1), more[j][1] \notin Lenient
      PROVE  Wrote(more, more[j][1], more[j][2], more[j][3])
  <2>1. CASE j \in 1..len
    BY <1>2, <1>4, <1>6, <2>1
  <2>2. CASE j \notin 1..len
    <3>1. more[j] = e
      BY <1>2, <2>2
    <3>2. QED
      BY <1>1, <1>5, <1>6, <3>1
  <2>3. QED
    BY <2>1, <2>2
<1>7. QED
  BY <1>2, <1>6 DEF Unbroken, more

\* A piece reaches the reader.
LEMMA YieldsPiece ==
    ASSUME RoutingIInv, NEW r \in Requests, requests[r].step = "stream",
           ~EndsInError(requests[r].text), NEW piece \in 0..Chunks, Yields(r, piece),
           piece = 0 \/ piece > Received(r),
           piece = 0 \/ At(r) \in Lenient \/ piece = Received(r) + 1
    PROVE  \E new : Changes(r, new) /\ Promised(r, requests[r], new)
<1> DEFINE q == requests[r]
           p == At(r)
           more == WithPiece(Read(r), p, q.model, piece)
           step == IF r \in Chats THEN "yielded" ELSE "stream"
           new == [q EXCEPT !.text = more, !.step = step]
<1>1. /\ q \in Request /\ Traced(r, q.text) /\ Fresh(q)
      /\ q.todo # <<>> /\ IsInjective(q.todo)
      /\ ToSet(q.todo) = EligibleSet[r] \ q.refused /\ q.attempt # 0
      /\ q.text \in Seq(_providers \X (1..2) \X (0..Chunks))
      /\ Outcome(q) = "open" /\ Willing(r, q) = ToSet(q.todo)
      /\ p = Head(q.todo) /\ p \in _providers /\ p \in ToSet(q.todo)
      /\ ToSet(Tail(q.todo)) = ToSet(q.todo) \ {p}
  BY Asking DEF Asked
<1>2. requests \in [Requests -> Request] /\ q.step = "stream" /\ ~EndsInError(q.text)
  BY DEF RoutingIInv, RoutingTypeOK
<1>3. requests' = [requests EXCEPT ![r] = new]
  BY <1>2 DEF Yields, WithPiece
<1>4. Received(r) = Position(q.text, p, q.model)
  BY DEF Received, Position
<1>5. q.model \in 1..2
  <2>1. q.model \in 1..Len(Tried(p))
    BY <1>1, <1>2 DEF Fresh
  <2>2. PICK n \in 1..2 : n = Len(Tried(p))
    BY <1>1, TriedModels
  <2>3. QED
    BY <2>1, <2>2
<1>6. PICK n \in 0..Len(q.text) : Run(q.text, p, q.model, n)
  BY <1>1, <1>2 DEF Fresh
<1>read. Read(r) = IF r \in Chats THEN <<>> ELSE q.text
  BY DEF Read
<1> DEFINE text == Read(r)
<1> HIDE DEF q, p, text
<1>7. /\ text \in Texts /\ Contiguous(text) /\ \A j \in DOMAIN text :
                                                j \in DOMAIN q.text /\ text[j] = q.text[j]
      /\ \E k \in 0..Len(text) : Run(text, p, q.model, k)
      /\ piece = 0 \/ piece > Position(text, p, q.model)
  <2>1. CASE r \in Chats
    <3>1. text = <<>>
      BY <1>read, <2>1 DEF text
    <3>2. <<>> \in Texts /\ Contiguous(<<>>) /\ Position(<<>>, p, q.model) = 0
      BY DEF Texts, Contiguous, Position
    <3>3. Run(<<>>, p, q.model, 0) /\ 0 \in 0..Len(<<>>)
      BY DEF Run
    <3>4. piece = 0 \/ piece > 0
      BY RoutingAssumption
    <3>5. QED
      BY <3>1, <3>2, <3>3, <3>4
  <2>2. CASE r \notin Chats
    <3>1. text = q.text
      BY <1>read, <2>2 DEF text
    <3>2. QED
      BY <1>1, <1>4, <1>6, <3>1 DEF Texts, Traced
  <2>3. QED
    BY <2>1, <2>2
<1>8. /\ more \in Texts /\ more # <<>> /\ Traced(r, more)
      /\ EndsInError(more) \/ \E k \in 0..Len(more) : Run(more, p, q.model, k)
      /\ \A j \in DOMAIN more : (j \in DOMAIN q.text /\ more[j] = q.text[j])
                                \/ more[j] = <<p, q.model, piece>>
  <2> DEFINE m == q.model
  <2>1. PICK k \in 0..Len(text) : Run(text, p, m, k)
    BY <1>7
  <2>2. m \in 1..2 /\ p \in _providers /\ (piece = 0 \/ piece > Position(text, p, m))
    BY <1>1, <1>5, <1>7
  <2>strict. r \in Structured => text = q.text
    BY <1>read, RoutingAssumption DEF text
  <2>next. piece = 0 \/ p \in Lenient \/ piece = Position(q.text, p, m) + 1
    BY <1>4 DEF p
  <2> HIDE DEF m
  <2> DEFINE long == WithPiece(text, p, m, piece)
  <2>3. Contiguous(long) /\ (piece # 0 => \E l \in 0..Len(long) : Run(long, p, m, l))
    BY <2>1, <2>2, <1>7, AppendsPiece
  <2>4. ASSUME r \in Structured PROVE Unbroken(long)
    <3>1. Unbroken(text)
      BY <1>1, <2>strict, <2>4 DEF Traced
    <3>2. p \in Lenient \/ piece = 0 \/ piece = Position(text, p, m) + 1
      BY <2>strict, <2>next, <2>4
    <3>3. QED
      BY <1>7, <2>1, <2>2, <3>1, <3>2, AppendsNext
  <2>5. /\ long \in Texts /\ long # <<>>
        /\ Len(long) = Len(text) + 1 /\ DOMAIN long = 1..(Len(text) + 1)
        /\ DOMAIN text = 1..Len(text) /\ Len(text) \in Nat
        /\ \A j \in DOMAIN text : long[j] = text[j]
        /\ long[Len(text) + 1] = <<p, m, piece>>
        /\ EndsInError(long) <=> piece = 0
    BY <1>7, <2>2, PieceAppended
  <2>6. long = more
    BY DEF text, m
  <2> HIDE DEF long, more
  <2>7. \A j \in DOMAIN long : (j \in DOMAIN text /\ long[j] = text[j])
                               \/ long[j] = <<p, m, piece>>
    BY <2>5
  <2>8. QED
    BY <1>7, <2>3, <2>4, <2>5, <2>6, <2>7 DEF m, Traced
<1> HIDE DEF more
<1>9. step \in {"stream", "yielded"} /\ step \in {"idle"} \cup Open \cup Ended
  BY DEF Open
<1> HIDE DEF step
<1>10. /\ new \in Request /\ new.step = step /\ new.text = more /\ new.model = q.model
       /\ new.todo = q.todo /\ new.attempt = q.attempt /\ new.refused = q.refused
  <2>1. /\ q.todo \in Seq(_providers) /\ q.model \in 0..2 /\ {} \subseteq _providers
        /\ more \in Seq(_providers \X (1..2) \X (0..Chunks))
    BY <1>1, <1>8 DEF Request, Texts
  <2>2. new \in Request
    BY <1>1, <1>9, <2>1, Updated
  <2>3. QED
    BY <1>1, <2>2 DEF Request
<1> HIDE DEF new
<1>11. Queued(r, new)
  BY <1>1, <1>9, <1>10 DEF Queued
<1>12. Fresh(new)
  <2>1. q.model \in 1..Len(Tried(p))
    BY <1>1, <1>2 DEF Fresh
  <2>2. ASSUME NEW j \in DOMAIN more
        PROVE  /\ more[j][1] \notin ToSet(Tail(q.todo))
               /\ more[j][1] = p => more[j][2] <= q.model
    <3>1. CASE j \in DOMAIN q.text /\ more[j] = q.text[j]
      BY <1>1, <1>2, <3>1 DEF Fresh
    <3>2. CASE more[j] = <<p, q.model, piece>>
      BY <1>1, <1>5, <3>2
    <3>3. QED
      BY <1>8, <3>1, <3>2
  <2>3. EndsInError(more) \/ \E k \in 0..Len(more) : Run(more, p, q.model, k)
    BY <1>8
  <2>4. QED
    BY <1>1, <1>9, <1>10, <2>1, <2>2, <2>3 DEF Fresh
<1>13. Sound(r, new)
  BY <1>8, <1>10, <1>11, <1>12 DEF Sound
<1>14. Outcome(new) = "open"
  BY <1>9, <1>10 DEF Outcome
<1>15. Willing(r, new) = Willing(r, q)
  BY <1>1, <1>9, <1>10 DEF Willing
<1>16. Promised(r, q, new)
  BY <1>1, <1>10, <1>14, <1>15 DEF Promised
<1>17. QED
  BY <1>3, <1>13, <1>16 DEF Changes, q

-------------------------------------------------------------------------------
(* The other steps of a stream.                                            *)

\* A piece that the model wrote.
LEMMA StreamYieldsStep ==
    ASSUME RoutingIInv, NEW r \in Requests, StreamYields(r) PROVE StepOf(r)
<1> DEFINE p == At(r)
<1>1. /\ requests[r].step = "stream" /\ ~EndsInError(requests[r].text)
      /\ UNCHANGED _rate_limited_until
  BY DEF StreamYields, Streaming, Erred, EndsInError
<1>piece. PICK piece \in (Received(r) + 1)..Chunks :
             (p \in Lenient \/ piece = Received(r) + 1) /\ Yields(r, piece)
  BY DEF StreamYields
<1>2. PICK m \in IF p = "openrouter" THEN ToSet(candidates[p]) ELSE {last_model_id[p]} :
         last_model_id' = [last_model_id EXCEPT ![p] = m]
  BY DEF StreamYields
<1>3. Received(r) \in 0..Chunks
  <2> DEFINE text == requests[r].text
  <2>1. text \in Texts
    BY DEF RoutingIInv, RoutingTypeOK, Request, Texts
  <2>2. ASSUME text # <<>> PROVE Last(text)[3] \in 0..Chunks
    <3>1. Len(text) \in DOMAIN text
      BY <2>1, <2>2 DEF Texts
    <3>2. QED
      BY <2>1, <3>1, PiecesOfText DEF Last
  <2>3. 0 \in 0..Chunks
    BY RoutingAssumption
  <2>4. QED
    BY <2>2, <2>3 DEF Received
<1>4. \E new : Changes(r, new) /\ Promised(r, requests[r], new)
  <2>1. piece \in 0..Chunks /\ piece > Received(r)
    BY <1>3, RoutingAssumption
  <2>2. QED
    BY <1>1, <1>piece, <2>1, YieldsPiece
<1>5. last_model_id \in [_providers -> Models \cup {"unknown"}]
  BY DEF RoutingIInv, RoutingTypeOK
<1>6. p \in _providers
  BY <1>1, Asking DEF Asked
<1>7. m \in Models \cup {"unknown"}
  <2>1. ToSet(candidates[p]) \subseteq Models
    BY <1>6, RoutingAssumption DEF ToSet
  <2>2. last_model_id[p] \in Models \cup {"unknown"}
    BY <1>5, <1>6
  <2>3. QED
    BY <1>2, <2>1, <2>2
<1>8. last_model_id' \in [_providers -> Models \cup {"unknown"}]
  BY <1>2, <1>5, <1>7
<1>9. _rate_limited_until' \subseteq Keys
  BY <1>1 DEF RoutingIInv, RoutingTypeOK
<1>10. QED
  BY <1>4, <1>8, <1>9 DEF StepOf

\* A request whose step alone changes, with what it keeps.
LEMMA StepChanged ==
    ASSUME NEW q \in Request, NEW step \in {"idle"} \cup Open \cup Ended
    PROVE  LET new == [q EXCEPT !.step = step]
           IN /\ new \in Request /\ new.step = step /\ new.todo = q.todo
              /\ new.model = q.model /\ new.text = q.text
              /\ new.attempt = q.attempt /\ new.refused = q.refused
<1>1. /\ q.todo \in Seq(_providers) /\ q.model \in 0..2 /\ {} \subseteq _providers
      /\ q.text \in Seq(_providers \X (1..2) \X (0..Chunks))
  BY DEF Request
<1>2. [q EXCEPT !.step = step] \in Request
  BY <1>1, Updated
<1>3. QED
  BY <1>2 DEF Request

\* The router's types after a step that leaves cooldowns and models alone.
LEMMA RouterUnchanged ==
    ASSUME RoutingIInv, UNCHANGED <<_rate_limited_until, last_model_id>>
    PROVE  /\ _rate_limited_until' \subseteq Keys
           /\ last_model_id' \in [_providers -> Models \cup {"unknown"}]
           /\ requests \in [Requests -> Request]
  BY DEF RoutingIInv, RoutingTypeOK

\* A stream that is over, for the reader or for the client.
LEMMA StreamEndsStep ==
    ASSUME RoutingIInv, NEW r \in Requests, StreamEnds(r) PROVE StepOf(r)
<1> DEFINE q == requests[r]
<1>1. /\ q \in Request /\ Traced(r, q.text) /\ q.step = "stream"
      /\ ToSet(q.todo) = EligibleSet[r] \ q.refused /\ q.attempt # 0
      /\ Outcome(q) = "open" /\ Willing(r, q) = ToSet(q.todo) /\ q.todo # <<>>
  BY Asking DEF Asked, StreamEnds
<1>2. UNCHANGED <<_rate_limited_until, last_model_id>> /\ requests \in [Requests -> Request]
  BY DEF StreamEnds, RoutingIInv, RoutingTypeOK
<1>4. PICK s \in {"completed", "returned", "pause", "error"} :
        /\ requests' = [requests EXCEPT ![r] = [q EXCEPT !.step = s]]
        /\ s = "returned" => loads(_extract_json(q.text))
        /\ s = "pause" => r \in Structured /\ q.attempt = 1
  <2>1. CASE r \in Chats /\ requests' = [requests EXCEPT ![r].step = "completed"]
    BY <1>2, <2>1
  <2>2. CASE /\ r \in Structured /\ loads(_extract_json(q.text))
             /\ requests' = [requests EXCEPT ![r].step = "returned"]
    BY <1>2, <2>2
  <2>3. CASE r \in Structured /\ requests' = [requests EXCEPT ![r] = Raised(r, @)]
    <3>1. q.attempt \in 1..2 /\ r \notin Chats
      BY <1>1, <2>3, RoutingAssumption DEF Request
    <3>2. requests' = [requests EXCEPT ![r] = Raised(r, q)]
      BY <1>2, <2>3
    <3>3. CASE q.attempt = 1
      <4>1. Raised(r, q) = [q EXCEPT !.step = "pause"]
        BY <2>3, <3>1, <3>3 DEF Raised
      <4>2. QED
        BY <2>3, <3>2, <3>3, <4>1
    <3>4. CASE q.attempt = 2
      <4>1. Raised(r, q) = [q EXCEPT !.step = "error"]
        BY <2>3, <3>1, <3>4 DEF Raised
      <4>2. QED
        BY <3>2, <4>1
    <3>5. QED
      BY <3>1, <3>3, <3>4
  <2>4. QED
    BY <2>1, <2>2, <2>3 DEF StreamEnds
<1> DEFINE new == [q EXCEPT !.step = s]
<1>5. requests' = [requests EXCEPT ![r] = new]
  BY <1>4
<1> HIDE DEF q
<1>6. /\ new \in Request /\ new.step = s /\ new.text = q.text /\ new.todo = q.todo
      /\ new.attempt = q.attempt /\ new.refused = q.refused
  <2>1. s \in {"idle"} \cup Open \cup Ended
    BY DEF Open, Ended
  <2>2. QED
    BY <1>1, <2>1, StepChanged
<1> HIDE DEF new
<1>7. Queued(r, new) /\ Fresh(new)
  BY <1>1, <1>4, <1>6 DEF Queued, Fresh, Asked
<1>8. Sound(r, new)
  BY <1>1, <1>6, <1>7 DEF Sound
<1>9. Outcome(new) \in {"answered", "rejected"} /\ Willing(r, new) = Willing(r, q)
  BY <1>1, <1>6 DEF Outcome, Willing
<1>10. Promised(r, q, new)
  BY <1>1, <1>6, <1>9 DEF Promised
<1>11. QED
  BY <1>2, <1>5, <1>8, <1>10, RouterUnchanged DEF StepOf, Changes, q

\* A stream that breaks: an error in the text, the next model, or the next provider.
LEMMA StreamBreaksStep ==
    ASSUME RoutingIInv, NEW r \in Requests, NEW failure, StreamBreaks(r, failure) PROVE StepOf(r)
<1> DEFINE p == At(r)
<1>1. requests[r].step = "stream" /\ ~EndsInError(requests[r].text)
  BY DEF StreamBreaks, Streaming, Erred, EndsInError
<1>2. p \in _providers /\ Fresh(requests[r]) /\ p = Head(requests[r].todo)
  BY <1>1, Asking DEF Asked
<1>3. CASE Yields(r, 0) /\ UNCHANGED <<_rate_limited_until, last_model_id>>
  <2>1. 0 \in 0..Chunks
    BY RoutingAssumption
  <2>2. \E new : Changes(r, new) /\ Promised(r, requests[r], new)
    BY <1>1, <1>3, <2>1, YieldsPiece
  <2>3. QED
    BY <1>3, <2>2, RouterUnchanged DEF StepOf
<1>4. CASE requests[r].model < Len(Tried(p)) /\ Opens(r, requests[r].model + 1)
  <2>1. PICK n \in 1..2 : n = Len(Tried(p))
    BY <1>2, TriedModels
  <2>2. PICK m \in 1..n : m = requests[r].model
    BY <1>1, <1>2, <2>1 DEF Fresh
  <2>3. m + 1 \in 1..n /\ m < m + 1
    BY <1>4, <2>1, <2>2
  <2>4. m + 1 \in 1..Len(Tried(At(r))) /\ requests[r].model < m + 1 /\ Opens(r, m + 1)
    BY <1>4, <2>1, <2>2, <2>3
  <2>5. QED
    BY <1>1, <2>4, OpensStep
<1>5. CASE NextProvider(r, IF failure = "limited" THEN _mark_cooldown(p)
                           ELSE _rate_limited_until)
  <2>1. _rate_limited_until \subseteq Keys /\ last_model_id[p] \in Models \cup {"unknown"}
    BY <1>2 DEF RoutingIInv, RoutingTypeOK
  <2>2. _mark_cooldown(p) \subseteq Keys
    BY <1>2, <2>1 DEF _mark_cooldown, Keys
  <2> DEFINE cooldowns == IF failure = "limited" THEN _mark_cooldown(p)
                          ELSE _rate_limited_until
  <2>3. cooldowns \subseteq Keys /\ NextProvider(r, cooldowns)
    BY <1>5, <2>1, <2>2
  <2> HIDE DEF cooldowns
  <2>4. QED
    BY <1>1, <2>3, NextProviderStep
<1>6. QED
  BY <1>3, <1>4, <1>5 DEF StreamBreaks

\* A piece is handed to the client.
LEMMA DeliverStep ==
    ASSUME RoutingIInv, NEW r \in Requests, Deliver(r) PROVE StepOf(r)
<1> DEFINE q == requests[r]
           new == [q EXCEPT !.step = "stream"]
<1>1. /\ q \in Request /\ Traced(r, q.text) /\ Fresh(q) /\ q.step = "yielded"
      /\ q.todo # <<>> /\ IsInjective(q.todo)
      /\ ToSet(q.todo) = EligibleSet[r] \ q.refused /\ q.attempt # 0
      /\ Outcome(q) = "open" /\ Willing(r, q) = ToSet(q.todo)
  BY Asking DEF Asked, Deliver
<1>2. UNCHANGED <<_rate_limited_until, last_model_id>>
      /\ requests' = [requests EXCEPT ![r] = new]
  BY DEF Deliver, RoutingIInv, RoutingTypeOK
<1> HIDE DEF q
<1>3. /\ new \in Request /\ new.step = "stream" /\ new.todo = q.todo
      /\ new.model = q.model /\ new.text = q.text
      /\ new.attempt = q.attempt /\ new.refused = q.refused
  BY <1>1, StepChanged DEF Open
<1> HIDE DEF new
<1>4. Queued(r, new) /\ Fresh(new)
  BY <1>1, <1>3 DEF Queued, Fresh, Asked
<1>5. Sound(r, new)
  BY <1>1, <1>3, <1>4 DEF Sound
<1>6. Promised(r, q, new)
  BY <1>1, <1>3 DEF Promised, Outcome, Willing
<1>7. QED
  BY <1>2, <1>5, <1>6, RouterUnchanged DEF StepOf, Changes, q

\* The client leaves, or the loop's client does: whatever the request waited for is over.
LEMMA LeavingIsSound ==
    ASSUME RoutingIInv, NEW r \in Requests
    PROVE  LET new == [requests[r] EXCEPT !.step = "gone", !.text = <<>>]
           IN /\ Sound(r, new) /\ new.step = "gone" /\ new.attempt = requests[r].attempt
              /\ new.refused = requests[r].refused
<1> DEFINE q == requests[r]
           new == [q EXCEPT !.step = "gone", !.text = <<>>]
<1>1. q \in Request
  BY DEF RoutingIInv, RoutingTypeOK
<1> HIDE DEF q
<1>2. /\ new \in Request /\ new.step = "gone" /\ new.text = <<>>
      /\ new.attempt = q.attempt /\ new.refused = q.refused
  <2>1. /\ "gone" \in {"idle"} \cup Open \cup Ended /\ {} \subseteq _providers
        /\ <<>> \in Seq(_providers \X (1..2) \X (0..Chunks))
        /\ q.todo \in Seq(_providers) /\ q.model \in 0..2
    BY <1>1 DEF Request, Open, Ended
  <2>2. new \in Request
    BY <1>1, <2>1, Updated
  <2>3. QED
    BY <1>1, <2>2 DEF Request
<1> HIDE DEF new
<1>3. Queued(r, new) /\ Fresh(new) /\ Traced(r, new.text)
  BY <1>2 DEF Queued, Fresh, Asked, Traced, Contiguous, Unbroken
<1>4. QED
  BY <1>2, <1>3 DEF Sound, new, q

LEMMA ClientLeavesStep ==
    ASSUME RoutingIInv, NEW r \in Requests, ClientLeaves(r) PROVE StepOf(r)
<1> DEFINE q == requests[r]
           new == [q EXCEPT !.step = "gone", !.text = <<>>]
<1>1. /\ UNCHANGED <<_rate_limited_until, last_model_id>>
      /\ requests' = [requests EXCEPT ![r] = new]
      /\ q.step \in Open /\ r \notin Structured /\ Queued(r, q)
  BY RoutingAssumption DEF ClientLeaves, RoutingIInv, RoutingTypeOK, Sound
<1>2. /\ Sound(r, new) /\ new.step = "gone" /\ new.attempt = q.attempt
      /\ new.refused = q.refused
  BY LeavingIsSound
<1> HIDE DEF q, new
<1>3. q.step \in Asked
  BY <1>1 DEF Open, Asked, Queued
<1>4. Outcome(q) = "open" /\ Outcome(new) = "withdrawn" /\ Willing(r, new) = Willing(r, q)
  BY <1>2, <1>3 DEF Outcome, Willing, Asked
<1>5. Promised(r, q, new)
  BY <1>2, <1>4 DEF Promised
<1>6. QED
  BY <1>1, <1>2, <1>5, RouterUnchanged DEF StepOf, Changes, q

\* A call of the router, from a request that is not under way.
LEMMA RouteStep ==
    ASSUME RoutingIInv, NEW r \in Requests, NEW attempt \in 1..2, NEW calls \in 0..MaxCalls,
           Route(r, attempt, calls), Outcome(requests[r]) # "open",
           \/ attempt = 1
           \/ /\ Outcome(requests[r]) \in {"failed", "rejected"}
              /\ requests[r].attempt = 1 /\ attempt = 2
    PROVE  StepOf(r)
<1>1. UNCHANGED <<_rate_limited_until, last_model_id>>
  BY Routed
<1>2. PICK new : /\ Changes(r, new)
                 /\ new.attempt = attempt /\ new.step # "idle"
                 /\ Outcome(new) = Lost(r, new)
  BY Routed
<1>3. Promised(r, requests[r], new)
  BY <1>2 DEF Promised
<1>4. QED
  BY <1>1, <1>2, <1>3, RouterUnchanged DEF StepOf

LEMMA ChatBeginsStep ==
    ASSUME RoutingIInv, NEW r \in Requests, ChatBegins(r) PROVE StepOf(r)
<1>1. Route(r, 1, 0) /\ Outcome(requests[r]) # "open" /\ 1 \in 1..2 /\ 0 \in 0..MaxCalls
  BY RoutingAssumption DEF ChatBegins, Outcome
<1>2. QED
  BY <1>1, RouteStep

LEMMA GenerateJsonStep ==
    ASSUME RoutingIInv, NEW r \in Requests, generate_json(r) PROVE StepOf(r)
<1>1. /\ requests[r].step \in {"idle", "returned", "error"} /\ requests[r].calls < MaxCalls
      /\ Route(r, 1, requests[r].calls + 1)
  BY DEF generate_json
<1>2. requests[r].calls + 1 \in 0..MaxCalls /\ 1 \in 1..2
  BY <1>1, RoutingAssumption DEF RoutingIInv, RoutingTypeOK, Request
<1>3. Outcome(requests[r]) # "open"
  BY <1>1 DEF Outcome
<1>4. QED
  BY <1>1, <1>2, <1>3, RouteStep

LEMMA RetryJsonStep ==
    ASSUME RoutingIInv, NEW r \in Requests, RetryJson(r) PROVE StepOf(r)
<1>1. requests[r].step = "pause" /\ Route(r, requests[r].attempt + 1, requests[r].calls)
  BY DEF RetryJson
<1>2. requests[r].attempt = 1 /\ requests[r].calls \in 0..MaxCalls
  BY <1>1 DEF RoutingIInv, RoutingTypeOK, Request, Sound, Queued
<1>3. Outcome(requests[r]) \in {"failed", "rejected"}
  BY <1>1 DEF Outcome
<1>4. Route(r, 2, requests[r].calls) /\ 2 \in 1..2 /\ Outcome(requests[r]) # "open"
  BY <1>1, <1>2, <1>3
<1>5. QED
  BY <1>2, <1>3, <1>4, RouteStep

LEMMA CheckHealthStep ==
    ASSUME RoutingIInv, NEW r \in Requests, check_health(r) PROVE StepOf(r)
<1>1. requests[r].step = "health"
  BY DEF check_health
<1>2. CASE Opens(r, 1)
  <2>1. At(r) \in _providers
    BY <1>1, Asking DEF Asked
  <2>2. PICK n \in 1..2 : n = Len(Tried(At(r)))
    BY <2>1, TriedModels
  <2>3. 1 \in 1..Len(Tried(At(r)))
    BY <2>2
  <2>4. QED
    BY <1>1, <1>2, <2>3, OpensStep
<1>3. CASE NextProvider(r, _rate_limited_until)
  <2>1. _rate_limited_until \subseteq Keys
    BY DEF RoutingIInv, RoutingTypeOK
  <2>2. QED
    BY <1>1, <1>3, <2>1, NextProviderStep
<1>4. QED
  BY <1>2, <1>3 DEF check_health

\* What goes on without the caller.
LEMMA ProgressStep ==
    ASSUME RoutingIInv, NEW r \in Requests, Progress(r) PROVE StepOf(r)
  BY RetryJsonStep, CheckHealthStep, StreamYieldsStep, StreamEndsStep, StreamBreaksStep
     DEF Progress

-------------------------------------------------------------------------------
(* The invariant.                                                          *)

LEMMA RoutingInitKeepsInv == RoutingInit => RoutingIInv
<1> SUFFICES ASSUME RoutingInit PROVE RoutingIInv
  OBVIOUS
<1>1. Idle \in Request /\ Idle.step = "idle" /\ Idle.text = <<>>
  <2> DEFINE A == {"idle"} \cup Open \cup Ended
             B == Seq(_providers)
             C == 0..2
             D == Seq(_providers \X (1..2) \X (0..Chunks))
             F == SUBSET _providers
             G == 0..MaxCalls
  <2>1. Request = [step : A, todo : B, model : C, text : D, attempt : C, refused : F, calls : G]
    BY DEF Request
  <2>2. "idle" \in A /\ <<>> \in B /\ <<>> \in D /\ {} \in F /\ 0 \in C
    OBVIOUS
  <2>3. 0 \in G
    BY RoutingAssumption
  <2> HIDE DEF A, B, C, D, F, G
  <2>4. QED
    BY <2>1, <2>2, <2>3 DEF Idle
<1>2. \A r \in Requests : Sound(r, Idle)
  BY <1>1 DEF Sound, Queued, Traced, Contiguous, Unbroken, Fresh, Asked
<1>3. last_model_id \in [_providers -> Models \cup {"unknown"}]
  <2>1. ASSUME NEW p \in _providers PROVE Head(candidates[p]) \in Models
    BY RoutingAssumption
  <2>2. QED
    BY <2>1 DEF RoutingInit
<1>4. requests \in [Requests -> Request] /\ \A r \in Requests : Sound(r, requests[r])
  BY <1>1, <1>2 DEF RoutingInit
<1>5. QED
  BY <1>3, <1>4 DEF RoutingIInv, RoutingTypeOK, RoutingInit

\* A step of one request keeps the invariant.
LEMMA StepKeepsInv ==
    ASSUME RoutingIInv, NEW r \in Requests, StepOf(r) PROVE RoutingIInv'
<1>1. PICK new : requests' = [requests EXCEPT ![r] = new] /\ Sound(r, new)
  BY DEF StepOf, Changes
<1>2. requests \in [Requests -> Request] /\ \A s \in Requests : Sound(s, requests[s])
  BY DEF RoutingIInv, RoutingTypeOK
<1>3. requests' \in [Requests -> Request]
  BY <1>1, <1>2 DEF Sound
<1>4. ASSUME NEW s \in Requests PROVE Sound(s, requests'[s])
  BY <1>1, <1>2
<1>5. RoutingTypeOK'
  BY <1>3 DEF RoutingTypeOK, StepOf
<1>6. QED
  BY <1>4, <1>5 DEF RoutingIInv

\* A cooldown that ends.
LEMMA CooldownKeepsInv ==
    ASSUME RoutingIInv, NEW key, CooldownEnds(key) PROVE RoutingIInv'
  BY DEF CooldownEnds, RoutingIInv, RoutingTypeOK, Sound

\* A step of the router is a step of one request, or the end of a cooldown.
LEMMA RoutingStep ==
    ASSUME RoutingIInv, RoutingNext
    PROVE  (\E r \in Requests : StepOf(r)) \/ UNCHANGED requests
  BY ChatBeginsStep, GenerateJsonStep, ProgressStep, DeliverStep, ClientLeavesStep
     DEF RoutingNext, CooldownEnds

LEMMA RoutingNextKeepsInv ==
    ASSUME RoutingIInv, [RoutingNext]_routingVars PROVE RoutingIInv'
<1>1. CASE UNCHANGED routingVars
  BY <1>1 DEF routingVars, RoutingIInv, RoutingTypeOK, Sound
<1>2. CASE RoutingNext
  BY <1>2, ChatBeginsStep, GenerateJsonStep, ProgressStep, DeliverStep, ClientLeavesStep,
     StepKeepsInv, CooldownKeepsInv DEF RoutingNext
<1>3. QED
  BY <1>1, <1>2

\* Every request of the router hangs together: see Sound.
THEOREM RequestsAreSound == RoutingSpec => []RoutingIInv
<1>1. QED
  BY RoutingInitKeepsInv, RoutingNextKeepsInv, PTL DEF RoutingSpec

\* What could be loaded ends with a piece of some stream, and is what that stream
\* wrote, from the opening of the object on, if none of its pieces is missing.
LEMMA LoadedIsWhole ==
    ASSUME NEW text \in Texts, Contiguous(text), loads(_extract_json(text)),
           LET last == Last(_extract_json(text)) IN Wrote(text, last[1], last[2], Chunks)
    PROVE  LET object == _extract_json(text)
           IN object = [k \in 1..(Chunks - Opening + 1) |->
                           <<Last(object)[1], Last(object)[2], Opening + k - 1>>]
<1> DEFINE opens == {j \in DOMAIN text : text[j][3] = Opening}
           closes == {j \in DOMAIN text : text[j][3] = Chunks}
           object == _extract_json(text)
<1>1. Chunks \in Nat /\ Opening \in Nat /\ 1 <= Opening /\ Opening <= Chunks
  BY RoutingAssumption
<1>2. PICK len \in Nat : len = Len(text) /\ DOMAIN text = 1..len
  BY DEF Texts
<1>3. opens # {} /\ closes # {} /\ object = SubSeq(text, Min(opens), Max(closes))
  BY DEF loads, _extract_json
<1>4. /\ opens \subseteq Nat /\ opens \subseteq 1..len
      /\ closes \subseteq 0..len /\ closes \subseteq 1..len
  BY <1>2
<1>5. PICK lo \in 1..len : lo = Min(opens) /\ \A j \in opens : lo <= j
  BY <1>3, <1>4, HasMin
<1>6. PICK hi \in 1..len : hi = Max(closes) /\ text[hi][3] = Chunks
  BY <1>3, <1>4, HasMax
<1>7. object = SubSeq(text, lo, hi) /\ object # <<>>
  BY <1>3, <1>5, <1>6 DEF loads
<1>8. \A j \in 1..len : text[j][3] = Opening => lo <= j
  BY <1>2, <1>5
<1>9. \A a, b \in DOMAIN object : a < b => object[a][3] < object[b][3]
  BY DEF loads
<1> DEFINE p == Last(object)[1]
           i == Last(object)[2]
<1>10. Wrote(text, p, i, Chunks)
  OBVIOUS
<1> HIDE DEF opens, closes, object
<1>11. /\ lo <= hi /\ Len(object) = hi - lo + 1 /\ DOMAIN object = 1..(hi - lo + 1)
       /\ \A k \in 1..(hi - lo + 1) : object[k] = text[lo + k - 1]
       /\ object = [k \in 1..(hi - lo + 1) |-> text[lo + k - 1]]
  BY <1>2, <1>7 DEF Texts
<1>12. Last(object) = text[hi]
  <2>1. Len(object) \in 1..(hi - lo + 1) /\ lo + Len(object) - 1 = hi
    BY <1>11
  <2>2. QED
    BY <1>11, <2>1 DEF Last
<1>13. p = text[hi][1] /\ i = text[hi][2]
  BY <1>12
<1> HIDE DEF p, i
<1>14. Chunks <= hi /\ \A m \in 1..Chunks : text[hi - Chunks + m] = <<p, i, m>>
  <2>1. text[hi][3] # 0 /\ Wrote(text, text[hi][1], text[hi][2], text[hi][3])
    BY <1>1, <1>6, <1>10, <1>13
  <2>2. text[hi][3] <= hi /\ \A m \in 1..text[hi][3] :
           text[hi - text[hi][3] + m] = <<text[hi][1], text[hi][2], m>>
    BY <1>2, <2>1 DEF Contiguous
  <2>3. QED
    BY <1>6, <1>13, <2>2
<1>15. PICK s \in 1..len : s = hi - Chunks + Opening /\ text[s][3] = Opening /\ s <= hi
  <2>1. hi - Chunks + Opening \in 1..len /\ Opening \in 1..Chunks
    BY <1>1, <1>14
  <2>2. QED
    BY <1>1, <1>14, <2>1
<1>16. lo = s
  <2>1. lo <= s
    BY <1>8, <1>15
  <2>2. text[lo][3] = Opening
    <3>1. 1 \in 1..(hi - lo + 1) /\ lo + 1 - 1 = lo
      BY <1>11
    <3>2. object[1] = text[lo]
      BY <1>11, <3>1
    <3>3. QED
      BY <1>7, <3>2 DEF loads, object
  <2>3. ASSUME lo < s PROVE FALSE
    <3>1. PICK b \in 1..(hi - lo + 1) : b = s - lo + 1 /\ 1 < b /\ lo + b - 1 = s
      BY <1>11, <1>15, <2>1, <2>3
    <3>2. 1 \in 1..(hi - lo + 1) /\ lo + 1 - 1 = lo
      BY <1>11
    <3>3. object[1] = text[lo] /\ object[b] = text[s]
      BY <1>11, <3>1, <3>2
    <3>4. object[1][3] < object[b][3]
      BY <1>9, <1>11, <3>1, <3>2
    <3>5. QED
      BY <1>1, <1>15, <2>2, <3>3, <3>4
  <2>4. QED
    BY <2>1, <2>3
<1>17. hi - lo + 1 = Chunks - Opening + 1
  BY <1>1, <1>15, <1>16
<1>18. ASSUME NEW k \in 1..(Chunks - Opening + 1)
       PROVE  text[lo + k - 1] = <<p, i, Opening + k - 1>>
  <2>1. PICK m \in 1..Chunks : m = Opening + k - 1
    BY <1>1
  <2>2. lo + k - 1 = hi - Chunks + m
    BY <1>1, <1>15, <1>16, <2>1
  <2>3. QED
    BY <1>14, <2>1, <2>2
<1>19. object = [k \in 1..(Chunks - Opening + 1) |-> <<p, i, Opening + k - 1>>]
  BY <1>11, <1>17, <1>18
<1>20. QED
  BY <1>19 DEF object, p, i

\* The last piece of what could be loaded is in the text.
LEMMA ClosesInText ==
    ASSUME NEW text \in Texts, loads(_extract_json(text))
    PROVE  \E j \in DOMAIN text : text[j] = Last(_extract_json(text)) /\ text[j][3] = Chunks
<1> DEFINE object == _extract_json(text)
           opens == {j \in DOMAIN text : text[j][3] = Opening}
           closes == {j \in DOMAIN text : text[j][3] = Chunks}
<1>1. PICK len \in Nat : len = Len(text) /\ DOMAIN text = 1..len
  BY DEF Texts
<1>2. opens # {} /\ closes # {} /\ object = SubSeq(text, Min(opens), Max(closes))
  BY DEF loads, _extract_json
<1>3. /\ opens \subseteq Nat /\ opens \subseteq 1..len
      /\ closes \subseteq 0..len /\ closes \subseteq 1..len
  BY <1>1
<1>4. PICK lo \in 1..len : lo = Min(opens)
  BY <1>2, <1>3, HasMin
<1>5. PICK hi \in 1..len : hi = Max(closes)
  BY <1>2, <1>3, HasMax
<1>6. object = SubSeq(text, lo, hi) /\ object # <<>> /\ Last(object)[3] = Chunks
  BY <1>2, <1>4, <1>5 DEF loads
<1> HIDE DEF object, opens, closes
<1>7. /\ lo <= hi /\ Len(object) \in 1..(hi - lo + 1) /\ lo + Len(object) - 1 = hi
      /\ \A k \in 1..(hi - lo + 1) : object[k] = text[lo + k - 1]
  BY <1>1, <1>6 DEF Texts
<1>8. Last(object) = text[hi]
  BY <1>7 DEF Last
<1>9. QED
  BY <1>1, <1>6, <1>8 DEF object

LEMMA SoundIsWhole == RoutingIInv => ParsedIsWhole
<1> SUFFICES ASSUME RoutingIInv PROVE ParsedIsWhole
  OBVIOUS
<1>1. RoutingTypeOK
  BY DEF RoutingIInv
<1>2. ASSUME NEW r \in Structured, requests[r].step = "returned"
      PROVE  LET text == requests[r].text
                 object == _extract_json(text)
                 p == Last(object)[1]
                 i == Last(object)[2]
             IN \/ object = [k \in 1..(Chunks - Opening + 1) |-> <<p, i, Opening + k - 1>>]
                \/ p \in Lenient /\ \E k \in 1..Chunks : <<p, i, k>> \notin ToSet(text)
  <2> DEFINE text == requests[r].text
             object == _extract_json(text)
             p == Last(object)[1]
             i == Last(object)[2]
  <2>1. Sound(r, requests[r])
    BY DEF RoutingIInv, Requests
  <2>2. /\ text \in Texts /\ Contiguous(text) /\ Unbroken(text) /\ loads(object)
    BY <1>2, <2>1 DEF Sound, Queued, Request, Texts, Traced
  <2>3. CASE Wrote(text, p, i, Chunks)
    BY <2>2, <2>3, LoadedIsWhole
  <2>4. CASE ~Wrote(text, p, i, Chunks)
    <3>1. \E k \in 1..Chunks : <<p, i, k>> \notin ToSet(text)
      BY <2>4 DEF Wrote
    <3>2. PICK j \in DOMAIN text : text[j] = Last(object) /\ text[j][3] = Chunks
      BY <2>2, ClosesInText
    <3>3. p \in Lenient
      BY <2>2, <2>4, <3>2 DEF Unbroken
    <3>4. QED
      BY <3>1, <3>3
  <2>5. QED
    BY <2>3, <2>4
<1>3. QED
  BY <1>1, <1>2 DEF ParsedIsWhole

\* What generate_json returns is one object one model of one provider wrote, although
\* the text it was taken from may hold pieces of several; it can be another only if the
\* stream that closed it left a piece out.
THEOREM AlwaysWholeObject == RoutingSpec => []ParsedIsWhole
<1>1. QED
  BY RequestsAreSound, SoundIsWhole, PTL

-------------------------------------------------------------------------------
(* The router keeps FailoverPromise.                                       *)

\* A step of one request maps to a step of FailoverPromise, or to none.
LEMMA StepKeepsPromise ==
    ASSUME RoutingIInv, NEW r \in Requests, StepOf(r)
    PROVE  [Promise!Next]_(Promise!promiseVars)
<1> DEFINE willing == [s \in Requests |-> IF requests[s].step = "idle" THEN {}
                                          ELSE EligibleSet[s] \ requests[s].refused]
           round == [s \in Requests |-> requests[s].attempt]
           outcome == [s \in Requests |-> outcomeOf(s)]
           q == requests[r]
<1>1. PICK new : requests' = [requests EXCEPT ![r] = new] /\ Promised(r, q, new)
  BY DEF StepOf, Changes
<1>2. requests \in [Requests -> Request]
  BY DEF RoutingIInv, RoutingTypeOK
<1>3. /\ \A s \in Requests : s # r => requests'[s] = requests[s]
      /\ requests'[r] = new
  BY <1>1, <1>2
<1>4. /\ \A s \in Requests : willing[s] = Willing(s, requests[s])
      /\ \A s \in Requests : willing'[s] = Willing(s, requests'[s])
  BY DEF Willing
<1>5. /\ \A s \in Requests : outcome[s] = Outcome(requests[s])
      /\ \A s \in Requests : outcome'[s] = Outcome(requests'[s])
  BY DEF outcomeOf, Outcome
<1>6. willing' = [willing EXCEPT ![r] = Willing(r, new)]
  BY <1>3, <1>4
<1>7. round' = [round EXCEPT ![r] = new.attempt]
  BY <1>3
<1>8. outcome' = [outcome EXCEPT ![r] = Outcome(new)]
  BY <1>3, <1>5
<1>9. /\ willing[r] = Willing(r, q) /\ willing'[r] = Willing(r, new)
      /\ round[r] = q.attempt /\ outcome[r] = Outcome(q)
  BY <1>3, <1>4, <1>5
<1>10. /\ willing = [willing EXCEPT ![r] = willing[r]]
       /\ round = [round EXCEPT ![r] = round[r]]
       /\ outcome = [outcome EXCEPT ![r] = outcome[r]]
  OBVIOUS
<1>11. Willing(r, new) \subseteq EligibleSet[r]
  BY DEF Willing
<1> HIDE DEF willing, round, outcome, q
<1>12. CASE /\ Willing(r, new) = Willing(r, q)
            /\ new.attempt = q.attempt
            /\ Outcome(new) = Outcome(q)
  <2>1. UNCHANGED <<willing, round, outcome>>
    BY <1>6, <1>7, <1>8, <1>9, <1>10, <1>12
  <2>2. QED
    BY <2>1 DEF Promise!promiseVars, willing, round, outcome
<1>13. CASE /\ Outcome(q) # "open"
            /\ Outcome(new) = Lost(r, new)
            /\ \/ new.attempt = 1
               \/ /\ Outcome(q) \in {"failed", "rejected"}
                  /\ q.attempt < 2 /\ new.attempt = q.attempt + 1
  <2>1. /\ outcome[r] # "open"
        /\ willing'[r] \subseteq EligibleSet[r]
        /\ willing' = [willing EXCEPT ![r] = willing'[r]]
        /\ outcome' = [outcome EXCEPT ![r] = IF willing'[r] = {} THEN "failed" ELSE "open"]
        /\ \/ round' = [round EXCEPT ![r] = 1]
           \/ /\ outcome[r] \in {"failed", "rejected"} /\ round[r] < 2
              /\ round' = [round EXCEPT ![r] = round[r] + 1]
    BY <1>6, <1>7, <1>8, <1>9, <1>11, <1>13 DEF Lost
  <2>2. Promise!Ask(r)
    BY <2>1 DEF Promise!Ask, Promise!Loses, willing, round, outcome
  <2>3. QED
    BY <2>2 DEF Promise!Next
<1>14. CASE /\ Outcome(q) = "open"
            /\ Willing(r, new) \subseteq Willing(r, q) /\ Willing(r, new) # Willing(r, q)
            /\ new.attempt = q.attempt
            /\ Outcome(new) = Lost(r, new)
  <2>1. /\ outcome[r] = "open" /\ willing'[r] # willing[r]
        /\ willing'[r] \subseteq willing[r]
        /\ willing' = [willing EXCEPT ![r] = willing'[r]]
        /\ round' = [round EXCEPT ![r] = round[r]]
        /\ outcome' = [outcome EXCEPT ![r] = IF willing'[r] = {} THEN "failed" ELSE "open"]
    BY <1>6, <1>7, <1>8, <1>9, <1>14 DEF Lost
  <2>2. Promise!Refuse(r)
    BY <2>1 DEF Promise!Refuse, Promise!Loses, willing, round, outcome
  <2>3. QED
    BY <2>2 DEF Promise!Next
<1>15. CASE /\ Outcome(q) = "open"
            /\ Willing(r, new) = Willing(r, q)
            /\ new.attempt = q.attempt
            /\ Outcome(new) \in {"answered", "rejected", "withdrawn"}
  <2>1. /\ outcome[r] = "open" /\ willing' = willing /\ round' = round
        /\ \/ outcome' = [outcome EXCEPT ![r] = "answered"]
           \/ outcome' = [outcome EXCEPT ![r] = "rejected"]
           \/ outcome' = [outcome EXCEPT ![r] = "withdrawn"]
    BY <1>6, <1>7, <1>8, <1>9, <1>10, <1>15
  <2>2. Promise!Answer(r) \/ Promise!Reject(r) \/ Promise!Withdraw(r)
    BY <2>1 DEF Promise!Answer, Promise!Reject, Promise!Withdraw, willing, round, outcome
  <2>3. QED
    BY <2>2 DEF Promise!Next
<1>16. QED
  BY <1>1, <1>12, <1>13, <1>14, <1>15 DEF Promised

\* A request fails only when everyone who could serve it gave a reason, is answered by
\* none who did, and is asked twice at most.
THEOREM AlwaysKeepsFailoverPromise == RoutingSpec => KeepsFailoverPromise
<1>1. RoutingInit => Promise!Init
  BY DEF RoutingInit, Idle, Promise!Init, outcomeOf
<1>2. RoutingIInv /\ [RoutingNext]_routingVars => [Promise!Next]_(Promise!promiseVars)
  <2> SUFFICES ASSUME RoutingIInv, [RoutingNext]_routingVars
               PROVE  [Promise!Next]_(Promise!promiseVars)
    OBVIOUS
  <2>1. CASE UNCHANGED requests
    BY <2>1 DEF Promise!promiseVars, outcomeOf
  <2>2. (\E r \in Requests : StepOf(r)) \/ UNCHANGED requests
    BY RoutingStep DEF routingVars
  <2>3. QED
    BY <2>1, <2>2, StepKeepsPromise
<1>3. QED
  BY <1>1, <1>2, RequestsAreSound, PTL DEF RoutingSpec, KeepsFailoverPromise, Promise!Spec

-------------------------------------------------------------------------------
(* How the loop's state hangs together.                                    *)

\* Something was read.
Looked(traces) ==
    \E i \in DOMAIN traces :
        traces[i].action \in Reads /\ traces[i].observation # "duplicate"

\* Every incomplete read was followed up.
FollowedUp(traces) ==
    \A i \in DOMAIN traces :
        _workspace_observation_incomplete(traces[i]) =>
            \E j \in DOMAIN traces : j > i /\ FollowsUp(traces[j])

Remembers(agent) == agent._successful_action_fingerprints # {} => Looked(agent.traces)

\* What is remembered as read is in the traces, or about to be.
Grounded(agent) ==
    /\ agent.phase \in {"idle", "think", "act"} => Remembers(agent)
    /\ agent.phase = "act" => agent.action \in Actions
    /\ agent.phase = "reflect" =>
          /\ agent.action \in Actions
          /\ agent.observation # "duplicate"
          /\ Remembers(agent) \/ agent.action \in Reads
    /\ agent.phase \in {"synthesize", "synthesized"} =>
          /\ Looked(agent.traces)
          /\ Last(agent.traces).observation = "duplicate" \/ FollowedUp(agent.traces)

\* The inductive invariant of the loop.
AgentIInv ==
    /\ AgentTypeOK
    /\ RoutingIInv
    /\ \A r \in Structured : Grounded(agents[r])

\* What a step does to the loop of request r.
Turns(r, new) ==
    /\ agents' = [agents EXCEPT ![r] = new]
    /\ new \in Agent
    /\ Grounded(new)

LEMMA TurnKeepsInv ==
    ASSUME AgentIInv, RoutingIInv', NEW r \in Structured, NEW new, Turns(r, new)
    PROVE  AgentIInv'
<1>1. agents \in [Structured -> Agent] /\ \A s \in Structured : Grounded(agents[s])
  BY DEF AgentIInv, AgentTypeOK
<1>2. agents' \in [Structured -> Agent] /\ \A s \in Structured : Grounded(agents'[s])
  BY <1>1 DEF Turns
<1>3. QED
  BY <1>2 DEF AgentIInv, AgentTypeOK, RoutingIInv

\* Asking the model is a call of the router.
LEMMA RouteKeepsInv ==
    ASSUME RoutingIInv, NEW r \in Structured, Route(r, 1, 1) PROVE RoutingIInv'
<1>1. r \in Requests /\ 1 \in 1..2 /\ 1 \in 0..MaxCalls
  BY AgentAssumption DEF Requests
<1>2. UNCHANGED <<_rate_limited_until, last_model_id>>
  BY <1>1, Routed
<1>3. PICK new : requests' = [requests EXCEPT ![r] = new] /\ Sound(r, new)
  BY <1>1, Routed DEF Changes
<1>4. requests \in [Requests -> Request] /\ \A s \in Requests : Sound(s, requests[s])
  BY DEF RoutingIInv, RoutingTypeOK
<1>5. requests' \in [Requests -> Request]
  BY <1>3, <1>4 DEF Sound
<1>6. \A s \in Requests : Sound(s, requests'[s])
  BY <1>3, <1>4
<1>7. QED
  BY <1>2, <1>5, <1>6, RouterUnchanged DEF RoutingIInv, RoutingTypeOK

LEMMA UnchangedRouterKeepsInv == ASSUME RoutingIInv, UNCHANGED routingVars PROVE RoutingIInv'
  BY DEF routingVars, RoutingIInv, RoutingTypeOK, Sound

\* The agent with some of its fields changed.
LEMMA AgentUpdated ==
    ASSUME NEW agent \in Agent, NEW a \in Actions \cup {"none"}, NEW seen \in Seen,
           NEW phase \in {"idle", "think", "act", "reflect", "synthesize"} \cup Over,
           NEW read, read \subseteq Reads
    PROVE  /\ [agent EXCEPT !.phase = phase] \in Agent
           /\ [agent EXCEPT !.phase = phase, !.action = a] \in Agent
           /\ [agent EXCEPT !.observation = seen,
                            !._successful_action_fingerprints = @ \cup read] \in Agent
           /\ Recorded(agent, a, seen) \in Agent
           /\ agent.iteration_count < max_iterations =>
                 [agent EXCEPT !.iteration_count = @ + 1] \in Agent
           /\ agent.retries < max_retries => [agent EXCEPT !.retries = @ + 1] \in Agent
<1> DEFINE A == {"idle", "think", "act", "reflect", "synthesize"} \cup Over
           B == 0..max_iterations
           C == Actions \cup {"none"}
           D == Seen
           E == 0..max_retries
           F == SUBSET Reads
           G == Seq(Trace)
<1>1. Agent = [phase : A, iteration_count : B, action : C, observation : D, retries : E,
               _successful_action_fingerprints : F, traces : G]
  BY DEF Agent
<1>2. /\ phase \in A /\ a \in C /\ seen \in D /\ 0 \in E /\ "none" \in C /\ "none" \in D
      /\ agent._successful_action_fingerprints \cup read \in F
  BY AgentAssumption DEF Agent, Seen
<1>3. Append(agent.traces, [action |-> a, observation |-> seen]) \in G
  <2>1. [action |-> a, observation |-> seen] \in Trace /\ agent.traces \in Seq(Trace)
    BY DEF Trace, Agent
  <2>2. QED
    BY <2>1
<1>4. /\ agent.iteration_count < max_iterations => agent.iteration_count + 1 \in B
      /\ agent.retries < max_retries => agent.retries + 1 \in E
  BY AgentAssumption DEF Agent
<1> HIDE DEF A, B, C, D, E, F, G
<1>5. QED
  BY <1>1, <1>2, <1>3, <1>4 DEF Recorded

\* What the traces with one more show.
LEMMA LookedAppended ==
    ASSUME NEW traces \in Seq(Trace), NEW a, NEW seen
    PROVE  LET more == Append(traces, [action |-> a, observation |-> seen])
           IN /\ Looked(traces) => Looked(more)
              /\ a \in Reads /\ seen # "duplicate" => Looked(more)
              /\ Last(more).observation = seen
<1> DEFINE e == [action |-> a, observation |-> seen]
           more == Append(traces, e)
<1>1. e.action = a /\ e.observation = seen
  OBVIOUS
<1> HIDE DEF e
<1>2. PICK len \in Nat : len = Len(traces) /\ DOMAIN traces = 1..len
  OBVIOUS
<1>3. /\ Len(more) = len + 1 /\ DOMAIN more = 1..(len + 1)
      /\ \A i \in 1..len : more[i] = traces[i]
      /\ more[len + 1] = e
  BY <1>2
<1> HIDE DEF more
<1>4. Looked(traces) => Looked(more)
  BY <1>2, <1>3 DEF Looked
<1>5. a \in Reads /\ seen # "duplicate" => Looked(more)
  BY <1>1, <1>3 DEF Looked
<1>6. Last(more).observation = seen
  BY <1>1, <1>3 DEF Last
<1>7. QED
  BY <1>4, <1>5, <1>6 DEF more, e

\* Evidence that is sufficient was followed up.
LEMMA SufficientIsFollowedUp ==
    ASSUME NEW agent \in Agent, _evidence_is_sufficient_for_synthesis(agent)
    PROVE  /\ agent._successful_action_fingerprints # {}
           /\ FollowedUp(agent.traces)
<1> DEFINE traces == agent.traces
           incomplete == {i \in DOMAIN traces : _workspace_observation_incomplete(traces[i])}
<1>1. traces \in Seq(Trace)
  BY DEF Agent
<1>2. PICK len \in Nat : len = Len(traces) /\ DOMAIN traces = 1..len
  BY <1>1
<1>3. /\ agent._successful_action_fingerprints # {}
      /\ incomplete # {} => \E j \in DOMAIN traces : j > Max(incomplete) /\ FollowsUp(traces[j])
  BY DEF _evidence_is_sufficient_for_synthesis
<1> HIDE DEF traces
<1>4. incomplete \subseteq 0..len
  BY <1>2
<1>5. ASSUME NEW i \in DOMAIN traces, _workspace_observation_incomplete(traces[i])
      PROVE  \E j \in DOMAIN traces : j > i /\ FollowsUp(traces[j])
  <2>1. i \in incomplete
    BY <1>5
  <2>2. Max(incomplete) \in incomplete /\ i <= Max(incomplete)
    BY <1>4, <2>1, HasMax
  <2>3. PICK j \in DOMAIN traces : j > Max(incomplete) /\ FollowsUp(traces[j])
    BY <1>3, <2>1
  <2>4. Max(incomplete) \in Nat /\ i \in Nat /\ j \in Nat
    BY <1>2, <1>4, <2>2
  <2>5. j > i
    BY <2>2, <2>3, <2>4
  <2>6. QED
    BY <2>3, <2>5
<1>6. QED
  BY <1>3, <1>5 DEF FollowedUp, traces

-------------------------------------------------------------------------------
(* The steps of the loop.                                                  *)

\* The loop asks the model in a phase that agrees with what it has.
LEMMA AsksStep ==
    ASSUME AgentIInv, NEW r \in Structured, NEW agent \in Agent,
           NEW phase \in {"think", "reflect", "synthesize"}, Asks(r, agent, phase),
           Grounded([agent EXCEPT !.phase = phase])
    PROVE  AgentIInv'
<1> DEFINE new == [agent EXCEPT !.phase = phase]
<1>1. new \in Agent
  <2>1. /\ phase \in {"idle", "think", "act", "reflect", "synthesize"} \cup Over
        /\ "none" \in Seen /\ "none" \in Actions \cup {"none"} /\ {} \subseteq Reads
    BY DEF Seen
  <2>2. QED
    BY <2>1, AgentUpdated
<1>2. Turns(r, new)
  BY <1>1 DEF Asks, Turns
<1>3. RoutingIInv'
  BY RouteKeepsInv DEF Asks, AgentIInv
<1> HIDE DEF new
<1>4. QED
  BY <1>2, <1>3, TurnKeepsInv

\* The loop comes to a phase without asking.
LEMMA TurnsTo ==
    ASSUME AgentIInv, NEW r \in Structured, NEW agent \in Agent,
           NEW phase \in Over, phase # "synthesized",
           agents' = [agents EXCEPT ![r] = [agent EXCEPT !.phase = phase]], RoutingIInv'
    PROVE  AgentIInv'
<1> DEFINE new == [agent EXCEPT !.phase = phase]
<1>1. new \in Agent
  <2>1. /\ phase \in {"idle", "think", "act", "reflect", "synthesize"} \cup Over
        /\ "none" \in Seen /\ "none" \in Actions \cup {"none"} /\ {} \subseteq Reads
    BY DEF Seen
  <2>2. QED
    BY <2>1, AgentUpdated
<1>2. new.phase = phase
  BY DEF Agent
<1>3. agents' = [agents EXCEPT ![r] = new]
  OBVIOUS
<1> HIDE DEF new
<1>4. Grounded(new)
  BY <1>2 DEF Grounded, Over
<1>5. Turns(r, new)
  BY <1>1, <1>3, <1>4 DEF Turns
<1>6. QED
  BY <1>5, TurnKeepsInv

\* Sufficient evidence is what a synthesis rests on.
LEMMA SynthesisIsGrounded ==
    ASSUME NEW agent \in Agent, Remembers(agent), _evidence_is_sufficient_for_synthesis(agent)
    PROVE  Grounded([agent EXCEPT !.phase = "synthesize"])
<1> DEFINE new == [agent EXCEPT !.phase = "synthesize"]
<1>1. new.phase = "synthesize" /\ new.traces = agent.traces
  BY DEF Agent
<1> HIDE DEF new
<1>2. Looked(agent.traces) /\ FollowedUp(agent.traces)
  BY SufficientIsFollowedUp DEF Remembers
<1>3. Grounded(new)
  BY <1>1, <1>2 DEF Grounded
<1>4. QED
  BY <1>3 DEF new

LEMMA ContinuesStep ==
    ASSUME AgentIInv, NEW r \in Structured, NEW agent \in Agent, Remembers(agent),
           Continues(r, agent)
    PROVE  AgentIInv'
<1>1. CASE /\ agent.iteration_count < max_iterations
           /\ Asks(r, [agent EXCEPT !.iteration_count = @ + 1], "think")
  <2> DEFINE next == [agent EXCEPT !.iteration_count = @ + 1]
             new == [next EXCEPT !.phase = "think"]
  <2>1. next \in Agent
    <3>1. /\ "none" \in Seen /\ "none" \in Actions \cup {"none"} /\ {} \subseteq Reads
          /\ "idle" \in {"idle", "think", "act", "reflect", "synthesize"} \cup Over
      BY DEF Seen
    <3>2. QED
      BY <1>1, <3>1, AgentUpdated
  <2>2. /\ next.traces = agent.traces
        /\ next._successful_action_fingerprints = agent._successful_action_fingerprints
    BY DEF Agent
  <2>3. Asks(r, next, "think")
    BY <1>1
  <2> HIDE DEF next
  <2>4. /\ new.phase = "think" /\ new.traces = agent.traces
        /\ new._successful_action_fingerprints = agent._successful_action_fingerprints
    BY <2>1, <2>2 DEF Agent
  <2> HIDE DEF new
  <2>5. Grounded(new)
    BY <2>4 DEF Grounded, Remembers
  <2>6. Grounded([next EXCEPT !.phase = "think"])
    BY <2>5 DEF new
  <2>7. QED
    BY <2>1, <2>3, <2>6, AsksStep
<1>2. CASE _evidence_is_sufficient_for_synthesis(agent) /\ Asks(r, agent, "synthesize")
  BY <1>2, SynthesisIsGrounded, AsksStep
<1>3. CASE /\ agents' = [agents EXCEPT ![r] = [agent EXCEPT !.phase = "failed"]]
           /\ UNCHANGED routingVars
  <2>1. RoutingIInv'
    BY <1>3, UnchangedRouterKeepsInv DEF AgentIInv
  <2>2. "failed" \in Over
    BY DEF Over
  <2>3. QED
    BY <1>3, <2>1, <2>2, TurnsTo
<1>4. QED
  BY <1>1, <1>2, <1>3 DEF Continues, Concludes

\* The agent whose trace was recorded.
LEMMA RecordedAgent ==
    ASSUME NEW agent \in Agent, NEW a \in Actions \cup {"none"}, NEW seen \in Seen
    PROVE  LET new == Recorded(agent, a, seen)
           IN /\ new \in Agent /\ new.phase = agent.phase
              /\ new._successful_action_fingerprints = agent._successful_action_fingerprints
              /\ Looked(agent.traces) => Looked(new.traces)
              /\ a \in Reads /\ seen # "duplicate" => Looked(new.traces)
              /\ Last(new.traces).observation = seen
<1>1. Recorded(agent, a, seen) \in Agent
  <2>1. /\ {} \subseteq Reads
        /\ "idle" \in {"idle", "think", "act", "reflect", "synthesize"} \cup Over
    OBVIOUS
  <2>2. QED
    BY <2>1, AgentUpdated
<1>2. agent.traces \in Seq(Trace)
  BY DEF Agent
<1>3. Recorded(agent, a, seen).traces
         = Append(agent.traces, [action |-> a, observation |-> seen])
  BY DEF Recorded, Agent
<1>4. /\ Recorded(agent, a, seen).phase = agent.phase
      /\ Recorded(agent, a, seen)._successful_action_fingerprints
            = agent._successful_action_fingerprints
  BY DEF Recorded, Agent
<1>5. QED
  BY <1>1, <1>2, <1>3, <1>4, LookedAppended

\* What the invariant says of one loop.
LEMMA OneLoop ==
    ASSUME AgentIInv, NEW r \in Structured
    PROVE  agents[r] \in Agent /\ Grounded(agents[r]) /\ RoutingIInv
  BY DEF AgentIInv, AgentTypeOK

LEMMA ExecuteGoalStep ==
    ASSUME AgentIInv, NEW r \in Structured, execute_goal(r) PROVE AgentIInv'
<1>1. Remembers(agents[r]) /\ agents[r] \in Agent /\ Continues(r, agents[r])
  BY OneLoop DEF execute_goal, Grounded
<1>2. QED
  BY <1>1, ContinuesStep

LEMMA RobustCallStep ==
    ASSUME AgentIInv, NEW r \in Structured, _robust_llm_call(r) PROVE AgentIInv'
<1>1. generate_json(r) /\ UNCHANGED agents /\ r \in Requests
  BY DEF _robust_llm_call, Requests
<1>2. RoutingIInv'
  BY <1>1, OneLoop, GenerateJsonStep, StepKeepsInv
<1>3. QED
  BY <1>1, <1>2 DEF AgentIInv, AgentTypeOK, RoutingIInv

LEMMA EndingStep ==
    ASSUME AgentIInv, NEW r \in Structured, Finishes(r) \/ Halts(r) PROVE AgentIInv'
<1>1. PICK phase \in {"finished", "halted"} :
        agents' = [agents EXCEPT ![r] = [agents[r] EXCEPT !.phase = phase]]
  BY OneLoop DEF AgentIInv, AgentTypeOK, Finishes, Halts
<1>2. RoutingIInv'
  BY OneLoop, UnchangedRouterKeepsInv DEF Finishes, Halts
<1>3. phase \in Over /\ phase # "synthesized"
  BY DEF Over
<1>4. QED
  BY <1>1, <1>2, <1>3, OneLoop, TurnsTo

LEMMA SelectsNothingStep ==
    ASSUME AgentIInv, NEW r \in Structured, SelectsNothing(r) PROVE AgentIInv'
<1> DEFINE agent == agents[r]
           new == Recorded(agent, "none", "none")
<1>1. agent \in Agent /\ Remembers(agent)
  BY OneLoop DEF SelectsNothing, Grounded
<1>2. \/ _evidence_is_sufficient_for_synthesis(new) /\ Asks(r, new, "synthesize")
      \/ Continues(r, new)
  BY DEF SelectsNothing
<1> HIDE DEF agent
<1>3. new \in Agent /\ Remembers(new)
  BY <1>1, RecordedAgent DEF Remembers, Seen
<1> HIDE DEF new
<1>4. CASE _evidence_is_sufficient_for_synthesis(new) /\ Asks(r, new, "synthesize")
  BY <1>3, <1>4, SynthesisIsGrounded, AsksStep
<1>5. CASE Continues(r, new)
  BY <1>3, <1>5, ContinuesStep
<1>6. QED
  BY <1>2, <1>4, <1>5

LEMMA SelectsStep ==
    ASSUME AgentIInv, NEW r \in Structured, NEW a \in Actions, Selects(r, a) PROVE AgentIInv'
<1> DEFINE agent == agents[r]
<1>1. agent \in Agent /\ Remembers(agent)
  BY OneLoop DEF Selects, Grounded
<1>2. CASE /\ a \in agent._successful_action_fingerprints
           /\ Asks(r, Recorded(agent, a, "duplicate"), "synthesize")
  <2> DEFINE new == Recorded(agent, a, "duplicate")
             next == [new EXCEPT !.phase = "synthesize"]
  <2>1. Looked(agent.traces)
    BY <1>1, <1>2 DEF Remembers
  <2>2. Asks(r, new, "synthesize")
    BY <1>2
  <2> HIDE DEF agent
  <2>3. new \in Agent /\ Looked(new.traces) /\ Last(new.traces).observation = "duplicate"
    BY <1>1, <2>1, RecordedAgent DEF Seen
  <2> HIDE DEF new
  <2>4. next.phase = "synthesize" /\ next.traces = new.traces
    BY <2>3 DEF Agent
  <2> HIDE DEF next
  <2>5. Grounded(next)
    BY <2>3, <2>4 DEF Grounded
  <2>6. Grounded([new EXCEPT !.phase = "synthesize"])
    BY <2>5 DEF next
  <2>7. QED
    BY <2>2, <2>3, <2>6, AsksStep
<1>3. CASE /\ agents' = [agents EXCEPT ![r].phase = "act", ![r].action = a]
           /\ UNCHANGED routingVars
  <2> DEFINE new == [agent EXCEPT !.phase = "act", !.action = a]
  <2>1. agents' = [agents EXCEPT ![r] = new]
    BY <1>3 DEF AgentIInv, AgentTypeOK
  <2> HIDE DEF agent
  <2>2. new \in Agent
    <3>1. /\ {} \subseteq Reads /\ "none" \in Seen /\ a \in Actions \cup {"none"}
          /\ "act" \in {"idle", "think", "act", "reflect", "synthesize"} \cup Over
      BY DEF Seen
    <3>2. QED
      BY <1>1, <3>1, AgentUpdated
  <2>3. /\ new.phase = "act" /\ new.action = a /\ new.traces = agent.traces
        /\ new._successful_action_fingerprints = agent._successful_action_fingerprints
    BY <1>1 DEF Agent
  <2> HIDE DEF new
  <2>4. Grounded(new)
    BY <1>1, <2>3 DEF Grounded, Remembers
  <2>5. Turns(r, new)
    BY <2>1, <2>2, <2>4 DEF Turns
  <2>6. RoutingIInv'
    BY <1>3, OneLoop, UnchangedRouterKeepsInv
  <2>7. QED
    BY <2>5, <2>6, TurnKeepsInv
<1>4. QED
  BY <1>2, <1>3 DEF Selects

LEMMA ObservesStep ==
    ASSUME AgentIInv, NEW r \in Structured, NEW seen \in Seen, seen # "duplicate",
           agents[r].phase = "act", Observes(r, seen)
    PROVE  AgentIInv'
<1> DEFINE agent == agents[r]
           read == {agent.action} \cap Reads
           new == [agent EXCEPT !.observation = seen,
                                !._successful_action_fingerprints = @ \cup read]
           next == [new EXCEPT !.phase = "reflect"]
<1>1. agent \in Agent /\ Remembers(agent) /\ agent.action \in Actions
  BY OneLoop DEF Grounded
<1>2. Asks(r, new, "reflect")
  BY DEF Observes
<1> HIDE DEF agent
<1>3. new \in Agent
  <2>1. /\ read \subseteq Reads /\ "none" \in Actions \cup {"none"}
        /\ "act" \in {"idle", "think", "act", "reflect", "synthesize"} \cup Over
    OBVIOUS
  <2> HIDE DEF read
  <2>2. QED
    BY <1>1, <2>1, AgentUpdated
<1>4. /\ new.action = agent.action /\ new.observation = seen /\ new.traces = agent.traces
      /\ new._successful_action_fingerprints = agent._successful_action_fingerprints \cup read
  BY <1>1 DEF Agent
<1> HIDE DEF new
<1>5. /\ next.phase = "reflect" /\ next.action = agent.action /\ next.observation = seen
      /\ next.traces = agent.traces
      /\ next._successful_action_fingerprints = agent._successful_action_fingerprints \cup read
  BY <1>3, <1>4 DEF Agent
<1> HIDE DEF next
<1>6. Grounded(next)
  BY <1>1, <1>5 DEF Grounded, Remembers
<1>7. Grounded([new EXCEPT !.phase = "reflect"])
  BY <1>6 DEF next
<1>8. QED
  BY <1>2, <1>3, <1>7, AsksStep

LEMMA RefusesStep ==
    ASSUME AgentIInv, NEW r \in Structured, Refuses(r) PROVE AgentIInv'
  BY ObservesStep DEF Refuses, Seen

LEMMA ReturnsStep ==
    ASSUME AgentIInv, NEW r \in Structured, NEW seen \in {"whole", "more", "cut", "failed"},
           Returns(r, seen)
    PROVE  AgentIInv'
  BY ObservesStep DEF Returns, Executing, Seen

LEMMA TimesOutStep ==
    ASSUME AgentIInv, NEW r \in Structured, TimesOut(r) PROVE AgentIInv'
<1> DEFINE agent == agents[r]
           new == [agent EXCEPT !.retries = @ + 1]
<1>1. /\ agent \in Agent /\ Remembers(agent) /\ agent.action \in Actions /\ agent.phase = "act"
  BY OneLoop DEF Grounded, TimesOut, Executing
<1>2. CASE Observes(r, "failed")
  BY <1>1, <1>2, ObservesStep DEF Seen
<1>3. CASE /\ agents[r].retries < max_retries
           /\ agents' = [agents EXCEPT ![r].retries = @ + 1]
           /\ UNCHANGED routingVars
  <2>1. agents' = [agents EXCEPT ![r] = new] /\ agent.retries < max_retries
    BY <1>3 DEF AgentIInv, AgentTypeOK
  <2>2. RoutingIInv'
    BY <1>3, OneLoop, UnchangedRouterKeepsInv
  <2> HIDE DEF agent
  <2>3. new \in Agent
    <3>1. /\ {} \subseteq Reads /\ "none" \in Seen /\ "none" \in Actions \cup {"none"}
          /\ "act" \in {"idle", "think", "act", "reflect", "synthesize"} \cup Over
      BY DEF Seen
    <3>2. QED
      BY <1>1, <2>1, <3>1, AgentUpdated
  <2>4. /\ new.phase = agent.phase /\ new.action = agent.action /\ new.traces = agent.traces
        /\ new._successful_action_fingerprints = agent._successful_action_fingerprints
    BY <1>1 DEF Agent
  <2> HIDE DEF new
  <2>5. Grounded(new)
    BY <1>1, <2>4 DEF Grounded, Remembers
  <2>6. Turns(r, new)
    BY <2>1, <2>3, <2>5 DEF Turns
  <2>7. QED
    BY <2>2, <2>6, TurnKeepsInv
<1>4. QED
  BY <1>2, <1>3 DEF TimesOut

LEMMA ReflectsStep ==
    ASSUME AgentIInv, NEW r \in Structured, Reflects(r) PROVE AgentIInv'
<1> DEFINE agent == agents[r]
           a == agent.action
           seen == agent.observation
           new == Recorded(agent, a, seen)
<1>1. /\ agent \in Agent /\ a \in Actions /\ seen # "duplicate"
      /\ Remembers(agent) \/ a \in Reads
      /\ Continues(r, new)
  BY OneLoop DEF Grounded, Reflects
<1>2. seen \in Seen /\ a \in Actions \cup {"none"}
  BY <1>1 DEF Agent
<1> HIDE DEF agent, a, seen
<1>3. new \in Agent /\ Remembers(new)
  BY <1>1, <1>2, RecordedAgent DEF Remembers
<1> HIDE DEF new
<1>4. QED
  BY <1>1, <1>3, ContinuesStep

LEMMA SynthesizesStep ==
    ASSUME AgentIInv, NEW r \in Structured, _synthesize_final_answer(r) PROVE AgentIInv'
<1> DEFINE agent == agents[r]
           new == [agent EXCEPT !.phase = "synthesized"]
<1>1. /\ agent \in Agent /\ Looked(agent.traces)
      /\ Last(agent.traces).observation = "duplicate" \/ FollowedUp(agent.traces)
  BY OneLoop DEF Grounded, _synthesize_final_answer
<1>2. agents' = [agents EXCEPT ![r] = new] /\ RoutingIInv'
  BY OneLoop, UnchangedRouterKeepsInv DEF AgentIInv, AgentTypeOK, _synthesize_final_answer
<1> HIDE DEF agent
<1>3. new \in Agent
  <2>1. /\ {} \subseteq Reads /\ "none" \in Seen /\ "none" \in Actions \cup {"none"}
        /\ "synthesized" \in {"idle", "think", "act", "reflect", "synthesize"} \cup Over
    BY DEF Seen, Over
  <2>2. QED
    BY <1>1, <2>1, AgentUpdated
<1>4. new.phase = "synthesized" /\ new.traces = agent.traces
  BY <1>1 DEF Agent
<1> HIDE DEF new
<1>5. Grounded(new)
  BY <1>1, <1>4 DEF Grounded
<1>6. QED
  BY <1>2, <1>3, <1>5, TurnKeepsInv DEF Turns

LEMMA DisconnectsStep ==
    ASSUME AgentIInv, NEW r \in Structured, Disconnects(r) PROVE AgentIInv'
<1> DEFINE new == [requests[r] EXCEPT !.step = "gone", !.text = <<>>]
<1>1. r \in Requests /\ requests \in [Requests -> Request]
      /\ \A s \in Requests : Sound(s, requests[s])
  BY DEF Requests, AgentIInv, RoutingIInv, RoutingTypeOK
<1>2. requests' = [requests EXCEPT ![r] = new]
  BY <1>1 DEF Disconnects
<1>3. Sound(r, new)
  BY <1>1, OneLoop, LeavingIsSound
<1>4. UNCHANGED <<_rate_limited_until, last_model_id>>
  BY DEF Disconnects
<1>5. agents' = [agents EXCEPT ![r] = [agents[r] EXCEPT !.phase = "gone"]]
  BY DEF Disconnects, AgentIInv, AgentTypeOK
<1> HIDE DEF new
<1>6. requests' \in [Requests -> Request] /\ \A s \in Requests : Sound(s, requests'[s])
  BY <1>1, <1>2, <1>3 DEF Sound
<1>7. RoutingIInv'
  BY <1>4, <1>6, OneLoop, RouterUnchanged DEF RoutingIInv, RoutingTypeOK
<1>8. "gone" \in Over
  BY DEF Over
<1>9. QED
  BY <1>5, <1>7, <1>8, OneLoop, TurnsTo

LEMMA AgentInitKeepsInv == AgentInit => AgentIInv
<1> SUFFICES ASSUME AgentInit PROVE AgentIInv
  OBVIOUS
<1>1. RoutingIInv
  BY RoutingInitKeepsInv DEF AgentInit
<1>2. NotStarted \in Agent
  <2> DEFINE A == {"idle", "think", "act", "reflect", "synthesize"} \cup Over
             B == 0..max_iterations
             C == Actions \cup {"none"}
             D == Seen
             E == 0..max_retries
             F == SUBSET Reads
             G == Seq(Trace)
  <2>1. Agent = [phase : A, iteration_count : B, action : C, observation : D, retries : E,
                 _successful_action_fingerprints : F, traces : G]
    BY DEF Agent
  <2>2. /\ "idle" \in A /\ "none" \in C /\ "none" \in D /\ {} \in F /\ <<>> \in G
        /\ 0 \in B /\ 0 \in E
    BY AgentAssumption DEF Seen
  <2> HIDE DEF A, B, C, D, E, F, G
  <2>3. QED
    BY <2>1, <2>2 DEF NotStarted
<1>3. Grounded(NotStarted)
  BY DEF Grounded, NotStarted, Remembers
<1>4. agents \in [Structured -> Agent] /\ \A r \in Structured : Grounded(agents[r])
  BY <1>2, <1>3 DEF AgentInit
<1>5. QED
  BY <1>1, <1>4 DEF AgentIInv, AgentTypeOK, RoutingIInv

LEMMA AgentNextKeepsInv ==
    ASSUME AgentIInv, [AgentNext]_agentVars PROVE AgentIInv'
<1>1. CASE UNCHANGED agentVars
  <2>1. RoutingIInv'
    BY <1>1, UnchangedRouterKeepsInv DEF agentVars, AgentIInv
  <2>2. QED
    BY <1>1, <2>1 DEF agentVars, AgentIInv, AgentTypeOK, RoutingIInv
<1>2. CASE AgentNext
  <2>1. ASSUME NEW r \in Structured, Loop(r) PROVE AgentIInv'
    BY <2>1, RobustCallStep, EndingStep, SelectsNothingStep, SelectsStep, RefusesStep,
       ReturnsStep, TimesOutStep, ReflectsStep, SynthesizesStep DEF Loop
  <2>2. ASSUME NEW r \in Structured, Routes(r) PROVE AgentIInv'
    <3>1. RoutingIInv'
      BY <2>2, OneLoop, ProgressStep, StepKeepsInv DEF Routes, Requests
    <3>2. QED
      BY <2>2, <3>1 DEF Routes, AgentIInv, AgentTypeOK, RoutingIInv
  <2>3. ASSUME NEW key \in Keys, CooldownEnds(key), UNCHANGED agents PROVE AgentIInv'
    <3>1. RoutingIInv'
      BY <2>3, CooldownKeepsInv DEF AgentIInv
    <3>2. QED
      BY <2>3, <3>1 DEF AgentIInv, AgentTypeOK, RoutingIInv
  <2>4. QED
    BY <1>2, <2>1, <2>2, <2>3, ExecuteGoalStep, DisconnectsStep DEF AgentNext
<1>3. QED
  BY <1>1, <1>2

\* An answer the model did not call final rests on something that was read, and unless
\* it ended on a repeated read, every incomplete read was followed up.
THEOREM AlwaysRestsOnEvidence == AgentSpec => []AnswersRestOnEvidence
<1>1. AgentIInv => AnswersRestOnEvidence
  <2> SUFFICES ASSUME AgentIInv PROVE AnswersRestOnEvidence
    OBVIOUS
  <2>1. ASSUME NEW r \in Structured, agents[r].phase = "synthesized"
        PROVE  /\ Looked(agents[r].traces)
               /\ \/ Last(agents[r].traces).observation = "duplicate"
                  \/ FollowedUp(agents[r].traces)
    BY <2>1, OneLoop DEF Grounded
  <2>2. QED
    BY <2>1 DEF AgentIInv, AnswersRestOnEvidence, Looked, FollowedUp
<1>2. QED
  BY <1>1, AgentInitKeepsInv, AgentNextKeepsInv, PTL DEF AgentSpec
===============================================================================
