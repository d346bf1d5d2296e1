-------------------------- MODULE DirectorDeskProofs --------------------------
(***************************************************************************)
(* What the owner's desk keeps for any number of sessions, tickets,        *)
(* connections, recordings and streams: one transaction at a time on a     *)
(* ticket that is being consumed, and TicketPromise; ConversationPromise,  *)
(* whatever the listener, the streams and the speaking tasks do; the file  *)
(* of every recording for as long as somebody needs it; and events that    *)
(* arrive without a gap.                                                   *)
(***************************************************************************)
EXTENDS DirectorDesk, SequenceTheorems, FiniteSetTheorems, TLAPS

USE SessionsAssumption

\* A ticket that was asked for belongs to a session.
Issued == \A t \in Tickets : tickets[t].state # "none" => tickets[t].session \in Sessions

\* A connection that is being decided on holds a stored ticket.
Presented == \A c \in Connections :
    conns[c].phase \in {"asking", "checking", "committing"} =>
        conns[c].ticket \in Tickets /\ tickets[conns[c].ticket].state = "stored"

\* The row's lock: a ticket that passed the first check has one consumer, and
\* stays unused until that one commits.
OneConsumer ==
    /\ \A c, d \in Connections :
          Consuming(c) /\ Consuming(d) /\ conns[c].ticket = conns[d].ticket => c = d
    /\ \A c \in Connections : Consuming(c) => ~tickets[conns[c].ticket].consumed

SessionsIInv == SessionsTypeOK /\ Issued /\ Presented /\ OneConsumer

Browser == [state : {"none", "live", "revoked"}, expired : BOOLEAN]
Logout == [phase : {"none", "session", "tickets"}, revoking : SUBSET Tickets]
Row == [state : {"none", "issuing", "stored", "failed"}, session : Sessions \cup {Absent},
        consumed : BOOLEAN, revoked : BOOLEAN, expired : BOOLEAN]
Socket == [phase : {"new", "asking", "checking", "committing", "open", "refused"},
           ticket : Tickets \cup {Absent}, late : SUBSET {"ticket", "session"}]

\* What a step of one connection may do to it.
Moves(c, phase) ==
    /\ conns' = [conns EXCEPT ![c].phase = phase]
    /\ UNCHANGED <<sessions, logouts>>

------------------------------------------------------------------------------

\* Steps on sessions and logouts that leave tickets and connections alone.
LEMMA SessionStepKeepsInv ==
  ASSUME SessionsIInv, NEW s \in Sessions,
         \/ create_session(s) \/ SessionExpires(s) \/ LogoutStarts(s)
         \/ LogoutTickets(s) \/ LogoutFails(s)
  PROVE  SessionsIInv'
<1>1. UNCHANGED <<tickets, conns>>
  BY DEF create_session, SessionExpires, LogoutStarts, LogoutTickets, LogoutFails
<1>2. sessions \in [Sessions -> Browser] /\ logouts \in [Sessions -> Logout]
  BY DEF SessionsIInv, SessionsTypeOK, Browser, Logout
<1>3. sessions' \in [Sessions -> Browser] /\ logouts' \in [Sessions -> Logout]
  <2>1. CASE create_session(s)
    BY <1>2, <2>1 DEF create_session, Browser
  <2>2. CASE SessionExpires(s)
    BY <1>2, <2>2 DEF SessionExpires, Browser
  <2>3. CASE LogoutStarts(s)
    BY <1>2, <2>3 DEF LogoutStarts, Logout
  <2>4. CASE LogoutTickets(s)
    <3> DEFINE mine == {t \in Tickets : /\ tickets[t].state = "stored"
                                        /\ tickets[t].session = s /\ ~tickets[t].revoked}
    <3>1. /\ logouts' = [logouts EXCEPT ![s] = [phase |-> "tickets", revoking |-> mine]]
          /\ UNCHANGED sessions
      BY <2>4 DEF LogoutTickets
    <3>2. [phase |-> "tickets", revoking |-> mine] \in Logout
      BY DEF Logout
    <3> HIDE DEF mine
    <3>3. QED
      BY <1>2, <3>1, <3>2
  <2>5. CASE LogoutFails(s)
    BY <1>2, <2>5 DEF LogoutFails, NoLogout, Logout
  <2>6. QED
    BY <2>1, <2>2, <2>3, <2>4, <2>5
<1>4. QED
  BY <1>1, <1>3 DEF SessionsIInv, SessionsTypeOK, Issued, Presented, OneConsumer,
                    Consuming, Browser, Logout

LEMMA LogoutCommitsKeepsInv ==
  ASSUME SessionsIInv, NEW s \in Sessions, LogoutCommits(s)
  PROVE  SessionsIInv'
<1> DEFINE row(t) == IF t \in logouts[s].revoking
                     THEN [tickets[t] EXCEPT !.revoked = TRUE] ELSE tickets[t]
<1>1. /\ tickets \in [Tickets -> Row] /\ sessions \in [Sessions -> Browser]
      /\ logouts \in [Sessions -> Logout]
  BY DEF SessionsIInv, SessionsTypeOK, Row, Browser, Logout
<1>2. \A t \in Tickets : /\ row(t) \in Row
                         /\ row(t).state = tickets[t].state
                         /\ row(t).session = tickets[t].session
                         /\ row(t).consumed = tickets[t].consumed
  BY <1>1 DEF Row
<1>3. tickets' = [t \in Tickets |-> row(t)]
  BY DEF LogoutCommits
<1> HIDE DEF row
<1>4. /\ tickets' \in [Tickets -> Row]
      /\ \A t \in Tickets : /\ tickets'[t].state = tickets[t].state
                            /\ tickets'[t].session = tickets[t].session
                            /\ tickets'[t].consumed = tickets[t].consumed
  BY <1>2, <1>3
<1>5. sessions' \in [Sessions -> Browser] /\ logouts' \in [Sessions -> Logout]
  BY <1>1 DEF LogoutCommits, NoLogout, Browser, Logout
<1>6. SessionsTypeOK'
  BY <1>4, <1>5 DEF SessionsIInv, SessionsTypeOK, LogoutCommits, Browser, Logout, Row
<1>7. UNCHANGED conns
  BY DEF LogoutCommits
<1>8. Issued' /\ Presented'
  BY <1>4, <1>7 DEF SessionsIInv, Issued, Presented
<1>9. OneConsumer'
  <2>1. \A c \in Connections : Consuming(c) => conns[c].ticket \in Tickets
    BY DEF SessionsIInv, Presented, Consuming
  <2>2. QED
    BY <1>4, <1>7, <2>1 DEF SessionsIInv, OneConsumer, Consuming
<1>10. QED
  BY <1>6, <1>8, <1>9 DEF SessionsIInv

\* A ticket is asked for, stored or runs out; none that is presented is touched
\* but for its expiry.
LEMMA TicketStepKeepsInv ==
  ASSUME SessionsIInv, NEW t \in Tickets,
         \/ \E s \in Sessions : TicketRequested(t, s)
         \/ create_ticket(t) \/ TicketExpires(t)
  PROVE  SessionsIInv'
<1>1. UNCHANGED <<sessions, logouts, conns>>
  BY DEF TicketRequested, create_ticket, TicketExpires
<1>2. tickets \in [Tickets -> Row]
  BY DEF SessionsIInv, SessionsTypeOK, Row
<1>3. /\ tickets' \in [Tickets -> Row]
      /\ \A u \in Tickets \ {t} : tickets'[u] = tickets[u]
      /\ tickets'[t].consumed = tickets[t].consumed
      /\ tickets[t].state = "stored" => tickets'[t].state = "stored"
      /\ tickets'[t].state # "none" => tickets'[t].session \in Sessions
  <2>1. CASE \E s \in Sessions : TicketRequested(t, s)
    <3>1. PICK s \in Sessions : TicketRequested(t, s)
      BY <2>1
    <3> DEFINE row == [tickets[t] EXCEPT !.state = "issuing", !.session = s]
    <3>2. /\ row \in Row /\ row.consumed = tickets[t].consumed
          /\ row.session = s /\ tickets[t].state = "none"
      BY <1>2, <3>1 DEF TicketRequested, Row
    <3>3. tickets' = [tickets EXCEPT ![t] = row]
      BY <1>2, <3>1 DEF TicketRequested, Row
    <3> HIDE DEF row
    <3>4. QED
      BY <1>2, <3>2, <3>3
  <2>2. CASE create_ticket(t)
    BY <1>2, <2>2 DEF create_ticket, Row, SessionsIInv, Issued
  <2>3. CASE TicketExpires(t)
    BY <1>2, <2>3 DEF TicketExpires, Row, SessionsIInv, Issued
  <2>4. QED
    BY <2>1, <2>2, <2>3
<1>4. SessionsTypeOK'
  BY <1>1, <1>3 DEF SessionsIInv, SessionsTypeOK, Row
<1>5. Issued' /\ Presented'
  BY <1>1, <1>3 DEF SessionsIInv, Issued, Presented
<1>6. OneConsumer'
  BY <1>1, <1>3 DEF SessionsIInv, OneConsumer, Presented, Consuming
<1>7. QED
  BY <1>4, <1>5, <1>6 DEF SessionsIInv

LEMMA PresentKeepsInv ==
  ASSUME SessionsIInv, NEW c \in Connections, NEW t \in Tickets, Present(c, t)
  PROVE  SessionsIInv'
<1>1. /\ UNCHANGED <<sessions, logouts, tickets>>
      /\ conns \in [Connections -> Socket] /\ conns' \in [Connections -> Socket]
      /\ \A d \in Connections \ {c} : conns'[d] = conns[d]
      /\ conns'[c].phase = "asking" /\ conns'[c].ticket = t
      /\ tickets[t].state = "stored"
  BY DEF SessionsIInv, SessionsTypeOK, Present, Socket
<1>2. SessionsTypeOK'
  BY <1>1 DEF SessionsIInv, SessionsTypeOK, Socket
<1>3. Issued' /\ Presented'
  BY <1>1 DEF SessionsIInv, Issued, Presented
<1>4. OneConsumer'
  BY <1>1 DEF SessionsIInv, OneConsumer, Consuming
<1>5. QED
  BY <1>2, <1>3, <1>4 DEF SessionsIInv

\* A step that decides on a connection but does not take the lock.
LEMMA DecisionKeepsInv ==
  ASSUME SessionsIInv, NEW c \in Connections,
         ConsumeChecks(c) \/ ConsumeCommits(c) \/ ConnectionRefused(c)
  PROVE  SessionsIInv'
<1>1. PICK phase \in {"committing", "open", "refused"} :
         /\ Moves(c, phase)
         /\ phase = "committing" => conns[c].phase = "checking" /\ UNCHANGED tickets
  BY DEF ConsumeChecks, ConsumeCommits, ConnectionRefused, Moves
<1>2. /\ conns \in [Connections -> Socket] /\ conns' \in [Connections -> Socket]
      /\ \A d \in Connections : conns'[d].ticket = conns[d].ticket
      /\ \A d \in Connections \ {c} : conns'[d].phase = conns[d].phase
      /\ conns'[c].phase = phase
  BY <1>1 DEF SessionsIInv, SessionsTypeOK, Moves, Socket
<1> DEFINE t == conns[c].ticket
<1>3. /\ tickets' \in [Tickets -> Row]
      /\ \A u \in Tickets : /\ tickets'[u].state = tickets[u].state
                            /\ tickets'[u].session = tickets[u].session
                            /\ u # conns[c].ticket => tickets'[u] = tickets[u]
      /\ ConsumeCommits(c) \/ UNCHANGED tickets
  <2>1. tickets \in [Tickets -> Row]
    BY DEF SessionsIInv, SessionsTypeOK, Row
  <2>2. CASE UNCHANGED tickets
    BY <2>1, <2>2
  <2>3. CASE ConsumeCommits(c)
    <3>1. tickets' = [tickets EXCEPT ![t].consumed = TRUE]
      BY <2>3 DEF ConsumeCommits
    <3>2. QED
      BY <2>1, <2>3, <3>1 DEF Row
  <2>4. QED
    BY <2>2, <2>3 DEF ConsumeChecks, ConnectionRefused
<1>4. SessionsTypeOK'
  BY <1>1, <1>2, <1>3 DEF SessionsIInv, SessionsTypeOK, Moves, Row, Socket
<1>5. Issued' /\ Presented'
  BY <1>1, <1>2, <1>3 DEF SessionsIInv, Issued, Presented
<1>6. \A d \in Connections : Consuming(d)' => Consuming(d)
  BY <1>1, <1>2 DEF Consuming
<1>7. \A d \in Connections :
         Consuming(d)' => ~tickets'[conns'[d].ticket].consumed
  <2> SUFFICES ASSUME NEW d \in Connections, Consuming(d)'
               PROVE  ~tickets'[conns'[d].ticket].consumed
    OBVIOUS
  <2>1. ~tickets[conns[d].ticket].consumed /\ conns[d].ticket \in Tickets
    BY <1>6 DEF SessionsIInv, OneConsumer, Presented, Consuming
  <2>2. CASE UNCHANGED tickets
    BY <1>2, <2>1, <2>2
  <2>3. CASE ConsumeCommits(c)
    <3>1. Consuming(c) /\ conns'[c].phase \in {"open", "refused"}
      BY <2>3, <1>2 DEF ConsumeCommits, Consuming, Socket
    <3>2. d # c
      BY <3>1 DEF Consuming
    <3>3. conns[d].ticket # conns[c].ticket
      BY <1>6, <3>1, <3>2 DEF SessionsIInv, OneConsumer
    <3>4. QED
      BY <1>2, <1>3, <2>1, <3>3
  <2>4. QED
    BY <1>3, <2>2, <2>3
<1>8. OneConsumer'
  BY <1>2, <1>6, <1>7 DEF SessionsIInv, OneConsumer
<1>9. QED
  BY <1>4, <1>5, <1>8 DEF SessionsIInv

\* The lock is taken by one consumer of a ticket nobody else consumes.
LEMMA LocksKeepsInv ==
  ASSUME SessionsIInv, NEW c \in Connections, ConsumeLocks(c)
  PROVE  SessionsIInv'
<1> DEFINE t == conns[c].ticket
<1>1. PICK phase \in {"checking", "refused"} :
         /\ Moves(c, phase)
         /\ phase = "checking" => ~tickets[t].consumed
  BY DEF ConsumeLocks, Unusable, Moves
<1>2. /\ UNCHANGED tickets
      /\ conns \in [Connections -> Socket] /\ conns' \in [Connections -> Socket]
      /\ \A d \in Connections : conns'[d].ticket = conns[d].ticket
      /\ \A d \in Connections \ {c} : conns'[d].phase = conns[d].phase
      /\ conns'[c].phase = phase /\ conns[c].phase = "asking"
  BY <1>1 DEF SessionsIInv, SessionsTypeOK, Moves, Socket, ConsumeLocks
<1>3. SessionsTypeOK'
  BY <1>1, <1>2 DEF SessionsIInv, SessionsTypeOK, Moves, Socket
<1>4. Issued' /\ Presented'
  BY <1>2 DEF SessionsIInv, Issued, Presented
<1>5. \A d \in Connections \ {c} :
         /\ Consuming(d)' => Consuming(d)
         /\ Consuming(d) => conns[d].ticket # t
  BY <1>2 DEF ConsumeLocks, Locked, Consuming
<1>6. OneConsumer'
  <2>1. ASSUME NEW d \in Connections, NEW e \in Connections, Consuming(d)', Consuming(e)',
               conns'[d].ticket = conns'[e].ticket
        PROVE  d = e
    <3>1. CASE d = c \/ e = c
      BY <1>2, <1>5, <2>1, <3>1
    <3>2. CASE d # c /\ e # c
      BY <1>2, <1>5, <2>1, <3>2 DEF SessionsIInv, OneConsumer
    <3>3. QED
      BY <3>1, <3>2
  <2>2. ASSUME NEW d \in Connections, Consuming(d)'
        PROVE  ~tickets'[conns'[d].ticket].consumed
    <3>1. CASE d = c
      BY <1>1, <1>2, <2>2, <3>1 DEF Consuming
    <3>2. CASE d # c
      BY <1>2, <1>5, <2>2, <3>2 DEF SessionsIInv, OneConsumer
    <3>3. QED
      BY <3>1, <3>2
  <2>3. QED
    BY <2>1, <2>2 DEF OneConsumer
<1>7. QED
  BY <1>3, <1>4, <1>6 DEF SessionsIInv

LEMMA InitKeepsInv == SessionsInit => SessionsIInv
  BY DEF SessionsInit, SessionsIInv, SessionsTypeOK, Issued, Presented, OneConsumer,
         Consuming, NewSession, NoLogout, NewTicket, NewConnection

LEMMA StepKeepsInv == SessionsIInv /\ [SessionsNext]_sessionVars => SessionsIInv'
<1> SUFFICES ASSUME SessionsIInv, [SessionsNext]_sessionVars PROVE SessionsIInv'
  OBVIOUS
<1>1. CASE UNCHANGED sessionVars
  BY <1>1 DEF sessionVars, SessionsIInv, SessionsTypeOK, Issued, Presented, OneConsumer,
              Consuming
<1>2. CASE SessionsNext
  BY <1>2, SessionStepKeepsInv, LogoutCommitsKeepsInv, TicketStepKeepsInv,
     PresentKeepsInv, DecisionKeepsInv, LocksKeepsInv DEF SessionsNext
<1>3. QED
  BY <1>1, <1>2

\* A ticket has one consumer at a time, however many websockets of however many
\* workers present it.
THEOREM AlwaysOneConsumer == SessionsSpec => []SessionsIInv
  BY InitKeepsInv, StepKeepsInv, PTL DEF SessionsSpec

------------------------------------------------------------------------------
(* The refinement of TicketPromise.                                         *)

IssuedPairs == {p \in Tickets \X Sessions :
                   tickets[p[1]].state = "stored" /\ tickets[p[1]].session = p[2]}
Admitted == {p \in Connections \X Tickets :
                conns[p[1]].phase = "committing" /\ conns[p[1]].ticket = p[2]}

\* What the promise says only changes with states, consumptions and phases.
LEMMA QuietStep ==
  ASSUME UNCHANGED conns,
         \A t \in Tickets : /\ tickets'[t].consumed = tickets[t].consumed
                            /\ tickets'[t].state = "stored" <=> tickets[t].state = "stored"
                            /\ tickets'[t].session = tickets[t].session
                                  \/ tickets[t].state # "stored"
  PROVE  /\ Admitted' = Admitted /\ IssuedPairs' = IssuedPairs
         /\ {t \in Tickets : tickets[t].consumed}' = {t \in Tickets : tickets[t].consumed}
         /\ {c \in Connections : conns[c].phase = "open"}' =
               {c \in Connections : conns[c].phase = "open"}
  BY DEF Admitted, IssuedPairs

LEMMA SessionStepKeepsPromise ==
  ASSUME SessionsIInv, NEW s \in Sessions,
         \/ create_session(s) \/ SessionExpires(s) \/ LogoutStarts(s)
         \/ LogoutTickets(s) \/ LogoutFails(s)
  PROVE  UNCHANGED Promise!promiseVars
<1>1. UNCHANGED <<tickets, conns>>
  BY DEF create_session, SessionExpires, LogoutStarts, LogoutTickets, LogoutFails
<1>2. \A u \in Sessions : sessions'[u].state = "revoked" <=> sessions[u].state = "revoked"
  BY DEF SessionsIInv, SessionsTypeOK, create_session, SessionExpires, LogoutStarts,
         LogoutTickets, LogoutFails
<1>3. QED
  BY <1>1, <1>2 DEF Promise!promiseVars

LEMMA LogoutCommitsKeepsPromise ==
  ASSUME SessionsIInv, NEW s \in Sessions, LogoutCommits(s)
  PROVE  Promise!End(s)
<1>1. UNCHANGED conns
  BY DEF LogoutCommits
<1>2. \A t \in Tickets : /\ tickets'[t].consumed = tickets[t].consumed
                         /\ tickets'[t].state = tickets[t].state
                         /\ tickets'[t].session = tickets[t].session
  BY DEF SessionsIInv, SessionsTypeOK, LogoutCommits
<1>3. {u \in Sessions : sessions[u].state = "revoked"}' =
         {u \in Sessions : sessions[u].state = "revoked"} \cup {s}
  BY DEF SessionsIInv, SessionsTypeOK, LogoutCommits
<1>4. QED
  BY <1>1, <1>2, <1>3, QuietStep DEF Promise!End, IssuedPairs, Admitted

LEMMA TicketStepKeepsPromise ==
  ASSUME SessionsIInv, NEW t \in Tickets,
         \/ \E s \in Sessions : TicketRequested(t, s)
         \/ create_ticket(t) \/ TicketExpires(t)
  PROVE  [Promise!Next]_(Promise!promiseVars)
<1>1. /\ UNCHANGED <<sessions, conns>> /\ tickets \in [Tickets -> Row]
      /\ \A u \in Tickets \ {t} : tickets'[u] = tickets[u]
      /\ tickets'[t].consumed = tickets[t].consumed
  BY DEF SessionsIInv, SessionsTypeOK, Row, TicketRequested, create_ticket, TicketExpires
<1>2. CASE tickets'[t].state = "stored" /\ tickets[t].state = "issuing"
  <2>1. PICK s \in Sessions : s = tickets[t].session /\ tickets'[t].session = s
    BY <1>1, <1>2 DEF SessionsIInv, Issued, TicketRequested, create_ticket, TicketExpires, Row
  <2>2. IssuedPairs' = IssuedPairs \cup {<<t, s>>} /\ \A p \in IssuedPairs : p[1] # t
    BY <1>1, <1>2, <2>1 DEF IssuedPairs
  <2>3. {u \in Tickets : tickets[u].consumed}' = {u \in Tickets : tickets[u].consumed}
    BY <1>1
  <2>4. Promise!Issue(t, s)
    BY <1>1, <2>2, <2>3 DEF Promise!Issue, IssuedPairs
  <2>5. QED
    BY <2>1, <2>4 DEF Promise!Next
<1>3. CASE ~(tickets'[t].state = "stored" /\ tickets[t].state = "issuing")
  <2>1. /\ tickets'[t].state = "stored" <=> tickets[t].state = "stored"
        /\ tickets[t].state = "stored" => tickets'[t].session = tickets[t].session
    BY <1>1, <1>3 DEF TicketRequested, create_ticket, TicketExpires, Row
  <2>2. UNCHANGED Promise!promiseVars
    BY <1>1, <2>1, QuietStep DEF Promise!promiseVars, IssuedPairs, Admitted
  <2>3. QED
    BY <2>2
<1>4. QED
  BY <1>2, <1>3

\* Presenting a ticket, taking its lock and being refused before the checks are
\* done say nothing to the promise.
LEMMA EarlyStepKeepsPromise ==
  ASSUME SessionsIInv, NEW c \in Connections,
         \/ \E t \in Tickets : Present(c, t)
         \/ ConsumeLocks(c)
         \/ ConsumeChecks(c) /\ conns'[c].phase # "committing"
         \/ ConnectionRefused(c) /\ conns[c].phase # "committing"
  PROVE  UNCHANGED Promise!promiseVars
<1>1. /\ UNCHANGED <<sessions, tickets>>
      /\ \A d \in Connections \ {c} : conns'[d] = conns[d]
      /\ {conns[c].phase, conns'[c].phase} \cap {"committing", "open"} = {}
  <2>1. CASE \E t \in Tickets : Present(c, t)
    BY <2>1 DEF Present, SessionsIInv, SessionsTypeOK
  <2>2. CASE ConsumeLocks(c)
    BY <2>2 DEF ConsumeLocks, SessionsIInv, SessionsTypeOK
  <2>3. CASE ConsumeChecks(c) /\ conns'[c].phase # "committing"
    BY <2>3 DEF ConsumeChecks, SessionsIInv, SessionsTypeOK
  <2>4. CASE ConnectionRefused(c) /\ conns[c].phase # "committing"
    BY <2>4 DEF ConnectionRefused, SessionsIInv, SessionsTypeOK
  <2>5. QED
    BY <2>1, <2>2, <2>3, <2>4
<1>2. Admitted' = Admitted
  BY <1>1 DEF Admitted
<1>3. {d \in Connections : conns[d].phase = "open"}' =
         {d \in Connections : conns[d].phase = "open"}
  BY <1>1
<1>4. QED
  BY <1>1, <1>2, <1>3 DEF Promise!promiseVars, Admitted

LEMMA AdmissionKeepsPromise ==
  ASSUME SessionsIInv, NEW c \in Connections, ConsumeChecks(c),
         conns'[c].phase = "committing"
  PROVE  Promise!Next
<1>1. PICK t \in Tickets, s \in Sessions :
         /\ t = conns[c].ticket /\ s = tickets[t].session
         /\ tickets[t].state = "stored" /\ ~tickets[t].consumed
  BY DEF SessionsIInv, Presented, OneConsumer, Consuming, Issued, ConsumeChecks
<1>2. /\ UNCHANGED <<sessions, tickets>> /\ conns[c].phase = "checking"
      /\ \A d \in Connections : conns'[d].ticket = conns[d].ticket
      /\ \A d \in Connections \ {c} : conns'[d].phase = conns[d].phase
  BY DEF ConsumeChecks, SessionsIInv, SessionsTypeOK
<1>3. sessions[s].state = "live"
  BY <1>1 DEF ConsumeChecks, SessionStands, SessionsIInv, SessionsTypeOK
<1>4. Admitted' = Admitted \cup {<<c, t>>}
  BY <1>1, <1>2 DEF Admitted
<1>5. {d \in Connections : conns[d].phase = "open"}' =
         {d \in Connections : conns[d].phase = "open"}
  BY <1>2
<1>6. Promise!Admit(c, t)
  BY <1>1, <1>2, <1>3, <1>4, <1>5 DEF Promise!Admit, Admitted
<1>7. QED
  BY <1>1, <1>6 DEF Promise!Next

\* The end of a consumption that was admitted.
LEMMA ConclusionKeepsPromise ==
  ASSUME SessionsIInv, NEW c \in Connections, conns[c].phase = "committing",
         ConsumeCommits(c) \/ ConnectionRefused(c)
  PROVE  Promise!Next
<1> DEFINE opened == {d \in Connections : conns[d].phase = "open"}
           used == {u \in Tickets : tickets[u].consumed}
<1>1. PICK t \in Tickets : t = conns[c].ticket /\ ~tickets[t].consumed
  BY DEF SessionsIInv, Presented, OneConsumer, Consuming
<1>2. /\ UNCHANGED sessions
      /\ conns'[c].phase \in {"open", "refused"}
      /\ \A d \in Connections : conns'[d].ticket = conns[d].ticket
      /\ \A d \in Connections \ {c} : conns'[d].phase = conns[d].phase
  <2>1. PICK phase \in {"open", "refused"} : Moves(c, phase)
    BY DEF ConsumeCommits, ConnectionRefused, Moves
  <2>2. conns \in [Connections -> Socket]
    BY DEF SessionsIInv, SessionsTypeOK, Socket
  <2>3. QED
    BY <2>1, <2>2 DEF Moves, Socket
<1>3. Admitted' = Admitted \ {<<c, t>>} /\ <<c, t>> \in Admitted
  BY <1>1, <1>2 DEF Admitted
<1>4. opened' = IF conns'[c].phase = "open" THEN opened \cup {c} ELSE opened
  BY <1>2
<1>5. /\ \A u \in Tickets : /\ tickets'[u].state = tickets[u].state
                            /\ tickets'[u].session = tickets[u].session
      /\ used' = (IF ConsumeCommits(c) THEN used \cup {t} ELSE used)
  <2>1. CASE ConsumeCommits(c)
    <3>1. tickets \in [Tickets -> Row]
      BY DEF SessionsIInv, SessionsTypeOK, Row
    <3>2. tickets' = [tickets EXCEPT ![t].consumed = TRUE]
      BY <1>1, <2>1 DEF ConsumeCommits
    <3>3. \A u \in Tickets : tickets'[u].consumed = (u = t \/ tickets[u].consumed)
      BY <3>1, <3>2 DEF Row
    <3>4. used' = used \cup {t}
      BY <3>3
    <3> HIDE DEF used
    <3>5. QED
      BY <2>1, <3>1, <3>2, <3>4 DEF Row
  <2>2. CASE ~ConsumeCommits(c)
    BY <2>2 DEF ConnectionRefused
  <2>3. QED
    BY <2>1, <2>2
<1>6. IssuedPairs' = IssuedPairs
  BY <1>5 DEF IssuedPairs
<1>7. t \notin used /\ (conns'[c].phase = "open" => ConsumeCommits(c))
  BY <1>1, <1>2 DEF ConnectionRefused, SessionsIInv, SessionsTypeOK
<1> HIDE DEF opened, used
<1>8. CASE conns'[c].phase = "open"
  <2>1. Promise!Open(c, t)
    BY <1>2, <1>3, <1>4, <1>5, <1>6, <1>7, <1>8
       DEF Promise!Open, opened, used, IssuedPairs, Admitted
  <2>2. QED
    BY <1>1, <2>1 DEF Promise!Next
<1>9. CASE conns'[c].phase # "open"
  <2>1. Promise!Refuse(c, t)
    BY <1>2, <1>3, <1>4, <1>5, <1>6, <1>7, <1>9
       DEF Promise!Refuse, opened, used, IssuedPairs, Admitted
  <2>2. QED
    BY <1>1, <2>1 DEF Promise!Next
<1>10. QED
  BY <1>8, <1>9

\* Every step of the two services is a step of the promise, or none.
THEOREM AlwaysKeepsTicketPromise == SessionsSpec => KeepsTicketPromise
<1>1. SessionsInit => Promise!Init
  BY DEF SessionsInit, Promise!Init, NewSession, NewTicket, NewConnection
<1>2. SessionsIInv /\ [SessionsNext]_sessionVars => [Promise!Next]_(Promise!promiseVars)
  <2> SUFFICES ASSUME SessionsIInv, [SessionsNext]_sessionVars
               PROVE  [Promise!Next]_(Promise!promiseVars)
    OBVIOUS
  <2>1. CASE UNCHANGED sessionVars
    BY <2>1 DEF sessionVars, Promise!promiseVars
  <2>2. ASSUME NEW s \in Sessions, LogoutCommits(s)
        PROVE  Promise!Next
    BY <2>2, LogoutCommitsKeepsPromise DEF Promise!Next
  <2>3. ASSUME NEW c \in Connections, ConsumeChecks(c) \/ ConsumeCommits(c)
                                        \/ ConnectionRefused(c)
        PROVE  [Promise!Next]_(Promise!promiseVars)
    <3>1. ConsumeCommits(c) => conns[c].phase = "committing"
      BY DEF ConsumeCommits
    <3>2. QED
      BY <2>3, <3>1, EarlyStepKeepsPromise, AdmissionKeepsPromise, ConclusionKeepsPromise
  <2>4. QED
    BY <2>1, <2>2, <2>3, SessionStepKeepsPromise, TicketStepKeepsPromise,
       EarlyStepKeepsPromise DEF SessionsNext
<1>3. QED
  BY <1>1, <1>2, AlwaysOneConsumer, PTL DEF SessionsSpec, KeepsTicketPromise, Promise!Spec

------------------------------------------------------------------------------
(* DirectorSpeech: one thread, one job in the lane, and whose file it is.  *)

\* A job the thread is not done with is the one in the lane; a request that has not
\* submitted its recording has no job, and one that waits has; a job is to remove
\* its own file or those of jobs that were done before it.
SpeechIInv ==
    /\ SpeechTypeOK
    /\ \A r \in Recordings :
          /\ Running(r) => lane = r
          /\ request[r] \in {"none", "loading"} => future[r] = "none"
          /\ request[r] \in {"waiting", "late"} => future[r] # "none"
    /\ \A j \in Recordings : \A r \in cleanup[j] : r = j \/ Done(r)
    /\ RecordingsKept

LEMMA SpeechInitKeepsInv == SpeechInit => SpeechIInv
BY DEF SpeechInit, SpeechIInv, SpeechTypeOK, RecordingsKept, Running

\* A request that refuses and removes its file had no job the thread is busy with.
LEMMA RefusesKeepsInv ==
  ASSUME SpeechIInv, NEW r \in Recordings, ~Running(r), Refuses(r),
         model' \in {"none", "loading", "loaded", "failed"}, UNCHANGED cleanup,
         request[r] = "loading" \/ request[r] = "none"
  PROVE  SpeechIInv'
BY DEF SpeechIInv, SpeechTypeOK, RecordingsKept, Running, Done, Refuses, Removes

\* What a failed write leaves is a failure.
LEMMA WriteFailsKeepsInv ==
  ASSUME SpeechIInv, NEW r \in Recordings, WriteFails(r)
  PROVE  SpeechIInv'
BY DEF SpeechIInv, SpeechTypeOK, RecordingsKept, Running, Done, WriteFails

LEMMA SubmitsKeepsInv ==
  ASSUME SpeechIInv, NEW r \in Recordings, Submits(r),
         model' \in {"none", "loading", "loaded", "failed"}, UNCHANGED cleanup,
         request[r] = "loading" \/ request[r] = "none"
  PROVE  SpeechIInv'
<1>1. future[r] = "none" /\ ~Running(r)
  BY DEF SpeechIInv, Running
<1>2. CASE lane # NoJob /\ ~Done(lane)
  BY <1>1, <1>2, RefusesKeepsInv DEF Submits
<1>3. CASE ~(lane # NoJob /\ ~Done(lane))
  <2>1. /\ request' = [request EXCEPT ![r] = "waiting"]
        /\ future' = [future EXCEPT ![r] = "queued"]
        /\ lane' = r /\ files' = files \cup {r}
        /\ UNCHANGED failures
    BY <1>3 DEF Submits
  <2>2. \A q \in Recordings : ~Running(q)
    BY <1>3, SpeechAssumption DEF SpeechIInv, Running, Done
  <2>3. SpeechTypeOK'
    BY <2>1 DEF SpeechIInv, SpeechTypeOK
  <2>4. \A q \in Recordings : future'[q] = IF q = r THEN "queued" ELSE future[q]
    BY <2>1 DEF SpeechIInv, SpeechTypeOK
  <2>5. \A q \in Recordings : request'[q] = IF q = r THEN "waiting" ELSE request[q]
    BY <2>1 DEF SpeechIInv, SpeechTypeOK
  <2>6. \A j \in Recordings : \A q \in cleanup'[j] : q = j \/ Done(q)'
    BY <1>1, <2>4 DEF SpeechIInv, SpeechTypeOK, Done
  <2>7. RecordingsKept'
    BY <1>1, <2>1, <2>2, <2>4, <2>5 DEF SpeechIInv, SpeechTypeOK, RecordingsKept, Running
  <2>8. QED
    BY <2>1, <2>2, <2>3, <2>4, <2>5, <2>6, <2>7 DEF SpeechIInv, Running
<1>4. QED
  BY <1>2, <1>3

\* The thread takes up a job, or returns from it.
LEMMA RunKeepsInv ==
  ASSUME SpeechIInv, NEW r \in Recordings, RunStarts(r) \/ RunReturns(r)
  PROVE  SpeechIInv'
<1>1. PICK phase \in {"running", "returned"} :
         /\ Running(r)
         /\ future' = [future EXCEPT ![r] = phase]
         /\ UNCHANGED <<model, request, lane, cleanup, files, failures>>
  BY DEF RunStarts, RunReturns, Running
<1>2. \A q \in Recordings : future'[q] = IF q = r THEN phase ELSE future[q]
  BY <1>1 DEF SpeechIInv, SpeechTypeOK
<1>3. SpeechTypeOK'
  BY <1>1 DEF SpeechIInv, SpeechTypeOK
<1>4. \A q \in Recordings : (Running(q)' => Running(q)) /\ (Done(q) => Done(q)')
  BY <1>1, <1>2 DEF Running, Done
<1>5. RecordingsKept'
  BY <1>1, <1>2, <1>4 DEF SpeechIInv, SpeechTypeOK, RecordingsKept
<1>6. QED
  BY <1>1, <1>2, <1>3, <1>4, <1>5 DEF SpeechIInv, SpeechTypeOK, Running

\* The callbacks of a job remove what was left to it: nothing that another job reads.
LEMMA RunEndsKeepsInv ==
  ASSUME SpeechIInv, NEW r \in Recordings, RunEnds(r)
  PROVE  SpeechIInv'
<1>1. /\ future[r] = "returned"
      /\ future' = [future EXCEPT ![r] = "ended"]
      /\ lane' = IF lane = r THEN NoJob ELSE lane
      /\ Removes(cleanup[r])
      /\ cleanup' = [cleanup EXCEPT ![r] = {}]
      /\ UNCHANGED <<model, request>>
  BY DEF RunEnds
<1> PICK left \in SUBSET cleanup[r] : /\ files' = (files \ cleanup[r]) \cup left
                                    /\ failures' = failures \cup left
  BY <1>1 DEF Removes
<1>2. \A q \in Recordings : /\ future'[q] = IF q = r THEN "ended" ELSE future[q]
                            /\ cleanup'[q] = IF q = r THEN {} ELSE cleanup[q]
  BY <1>1 DEF SpeechIInv, SpeechTypeOK
<1>3. SpeechTypeOK'
  BY <1>1 DEF SpeechIInv, SpeechTypeOK
<1>4. \A q \in Recordings : /\ Running(q)' => Running(q) /\ q # r
                            /\ Done(q) => Done(q)'
  BY <1>1, <1>2 DEF Running, Done
<1>5. \A q \in cleanup[r] : ~Running(q)
  BY <1>1 DEF SpeechIInv, SpeechTypeOK, Running, Done
<1>6. RecordingsKept'
  BY <1>1, <1>2, <1>4, <1>5 DEF SpeechIInv, SpeechTypeOK, RecordingsKept
<1>7. QED
  BY <1>1, <1>2, <1>3, <1>4, <1>6 DEF SpeechIInv, SpeechTypeOK

\* A request that ends leaves its file to the job in the lane, or removes it when no
\* job reads it; one that is cancelled removes it all the same.
LEMMA RequestEndsKeepsInv ==
  ASSUME SpeechIInv, NEW r \in Recordings,
         Answers(r) \/ TimesOut(r) \/ Defers(r) \/ Cancelled(r)
  PROVE  SpeechIInv'
<1> USE DEF SpeechIInv, SpeechTypeOK
<1>1. CASE Answers(r)
  BY <1>1 DEF Answers, Removes, RecordingsKept, Running, Done
<1>2. CASE TimesOut(r)
  BY <1>2 DEF TimesOut, RecordingsKept, Running, Done
<1>3. CASE Defers(r)
  <2>1. CASE lane = NoJob \/ Done(lane)
    <3>1. ~Running(r)
      BY <2>1, SpeechAssumption DEF Running, Done
    <3>2. QED
      BY <1>3, <2>1, <3>1 DEF Defers, Removes, RecordingsKept, Running, Done
  <2>2. CASE ~(lane = NoJob \/ Done(lane))
    <3>1. /\ request[r] = "late" /\ lane \in Recordings
          /\ request' = [request EXCEPT ![r] = "refused"]
          /\ cleanup' = [cleanup EXCEPT ![lane] = @ \cup {r}]
          /\ UNCHANGED <<model, future, lane, files, failures>>
      BY <1>3, <2>2 DEF Defers
    <3>2. r = lane \/ Done(r)
      BY <3>1 DEF Running, Done
    <3>3. SpeechTypeOK'
      BY <3>1
    <3>4. \A j \in Recordings : \A q \in cleanup'[j] : q = j \/ Done(q)'
      BY <3>1, <3>2 DEF Done
    <3>5. RecordingsKept'
      <4>1. \A q \in Recordings : Running(q)' => q \in files' \/ request'[q] = "cancelled"
        BY <3>1 DEF RecordingsKept, Running
      <4>2. future[lane] # "ended" /\ r \in cleanup'[lane]
        BY <2>2, <3>1 DEF Done
      <4>3. \A j \in Recordings : cleanup[j] \subseteq cleanup'[j]
        BY <3>1
      <4>4. \A q \in Recordings \ {r} : request'[q] = request[q]
        BY <3>1
      <4>5. QED
        BY <3>1, <4>1, <4>2, <4>3, <4>4 DEF RecordingsKept
    <3>6. QED
      BY <3>1, <3>3, <3>4, <3>5 DEF Running
  <2>3. QED
    BY <2>1, <2>2
<1>4. CASE Cancelled(r)
  BY <1>4 DEF Cancelled, Removes, RecordingsKept, Running, Done
<1>5. QED
  BY <1>1, <1>2, <1>3, <1>4

LEMMA SpeechStepKeepsInv == SpeechIInv /\ [SpeechNext]_speechVars => SpeechIInv'
<1> SUFFICES ASSUME SpeechIInv, [SpeechNext]_speechVars PROVE SpeechIInv'
  OBVIOUS
<1>1. CASE UNCHANGED speechVars
  BY <1>1 DEF SpeechIInv, SpeechTypeOK, RecordingsKept, Running, Done, speechVars
<1>2. CASE LoadEnds
  BY <1>2 DEF LoadEnds, SpeechIInv, SpeechTypeOK, RecordingsKept, Running, Done
<1>3. ASSUME NEW r \in Recordings, transcribe(r)
      PROVE  SpeechIInv'
  <2>1. request[r] = "none" /\ ~Running(r) /\ UNCHANGED cleanup
    BY <1>3 DEF transcribe, SpeechIInv, Running
  <2>2. CASE model = "loaded"
    BY <1>3, <2>1, <2>2, SubmitsKeepsInv DEF transcribe
  <2>3. CASE model = "failed"
    BY <1>3, <2>1, <2>3, RefusesKeepsInv DEF transcribe
  <2>4. CASE model \notin {"loaded", "failed"}
    <3>1. /\ model' = "loading"
          /\ request' = [request EXCEPT ![r] = "loading"]
          /\ files' = files \cup {r}
          /\ UNCHANGED <<future, lane, cleanup, failures>>
      BY <1>3, <2>4 DEF transcribe
    <3>2. QED
      BY <2>1, <3>1 DEF SpeechIInv, SpeechTypeOK, RecordingsKept, Running, Done
  <2>5. QED
    BY <2>2, <2>3, <2>4
<1>4. ASSUME NEW r \in Recordings, LoadReturns(r) \/ LoadTimesOut(r)
      PROVE  SpeechIInv'
  <2>1. /\ request[r] = "loading" /\ ~Running(r)
        /\ Submits(r) \/ Refuses(r)
        /\ UNCHANGED <<model, cleanup>>
    BY <1>4 DEF LoadReturns, LoadTimesOut, SpeechIInv, Running
  <2>2. model' \in {"none", "loading", "loaded", "failed"}
    BY <2>1 DEF SpeechIInv, SpeechTypeOK
  <2>3. QED
    BY <2>1, <2>2, SubmitsKeepsInv, RefusesKeepsInv
<1>5. QED
  BY <1>1, <1>2, <1>3, <1>4, WriteFailsKeepsInv, RunKeepsInv, RunEndsKeepsInv,
     RequestEndsKeepsInv DEF SpeechNext

\* For any number of recordings: none is removed while the thread reads it, unless
\* its request was cancelled, and none is left that nobody is to remove, unless
\* writing it or a removal failed.
THEOREM AlwaysKeepsRecordings == SpeechSpec => []RecordingsKept
<1>1. SpeechIInv => RecordingsKept
  BY DEF SpeechIInv
<1>2. QED
  BY <1>1, SpeechInitKeepsInv, SpeechStepKeepsInv, PTL DEF SpeechSpec

------------------------------------------------------------------------------
(* ExecutiveEvents: ids are consecutive in the buffer and in every stream. *)

HIDE SessionsAssumption
USE EventsAssumption

Events == 1..MaxEvents
\* Consecutive ids that end with n.
EndsWith(s, n) == s \in Seq(Events) /\ \A i \in 1..Len(s) : s[i] = n - Len(s) + i

\* No event is sent before it is published, and a request that has not come has
\* nothing.
Kept(v) ==
    /\ streams[v].phase = "new" => streams[v] = NewStream /\ v \notin _queues
    /\ streams[v].since <= published
    /\ \A i \in 1..Len(Feed(v)) : Feed(v)[i] <= published

\* The buffer holds the latest events, and no stream one that is not yet; a request
\* that has not come has nothing and is not among the queues.
EventsIInv ==
    /\ EventsTypeOK
    /\ Len(_event_buffer) <= BufferSize
    /\ EndsWith(_event_buffer, published)
    /\ \A v \in Streams : Kept(v) /\ Whole(v)

EventStream == [phase : {"new", "subscribed", "open", "closed"}, queue : Seq(Events),
                sent : Seq(Events), since : 0..MaxEvents, cut : BOOLEAN]

\* Sending moves an event from the queue to what was sent.
LEMMA SendingKeepsFeed ==
  ASSUME NEW s \in Seq(Events), NEW q \in Seq(Events), q # <<>>
  PROVE  Append(s, Head(q)) \o Tail(q) = s \o q
<1> DEFINE left == Append(s, Head(q)) \o Tail(q)
<1>1. Tail(q) \in Seq(Events) /\ Len(Tail(q)) = Len(q) - 1
  OBVIOUS
<1>2. left \in Seq(Events) /\ s \o q \in Seq(Events) /\ Len(left) = Len(s \o q)
  BY <1>1
<1>3. ASSUME NEW i \in 1..Len(left) PROVE left[i] = (s \o q)[i]
  <2>1. CASE i <= Len(s)
    BY <1>1, <2>1
  <2>2. CASE i = Len(s) + 1
    BY <1>1, <2>2
  <2>3. CASE i > Len(s) + 1
    <3>1. /\ Append(s, Head(q)) \in Seq(Events) /\ Len(Append(s, Head(q))) = Len(s) + 1
          /\ i - (Len(s) + 1) \in 1..Len(Tail(q))
      BY <1>1, <1>2, <2>3
    <3>2. /\ left[i] = Tail(q)[i - (Len(s) + 1)]
          /\ Tail(q)[i - (Len(s) + 1)] = q[i - Len(s)]
      BY <1>1, <2>3, <3>1
    <3>3. QED
      BY <1>1, <1>2, <2>3, <3>2
  <2>4. QED
    BY <1>2, <2>1, <2>2, <2>3
<1> HIDE DEF left
<1>4. left = s \o q
  BY <1>2, <1>3, SeqEqual
<1>5. QED
  BY <1>4 DEF left

LEMMA AddingToFeed ==
  ASSUME NEW s \in Seq(Events), NEW q \in Seq(Events), NEW e \in Events
  PROVE  s \o Append(q, e) = Append(s \o q, e)
<1> DEFINE left == s \o Append(q, e)
           right == Append(s \o q, e)
<1>1. left \in Seq(Events) /\ right \in Seq(Events) /\ Len(left) = Len(right)
  OBVIOUS
<1>2. \A i \in 1..Len(left) : left[i] = right[i]
  OBVIOUS
<1>3. QED
  BY <1>1, <1>2

LEMMA SentIsPrefix ==
  ASSUME NEW s \in Seq(Events), NEW q \in Seq(Events)
  PROVE  /\ Len(s) \in Nat /\ Len(s) <= Len(s \o q)
         /\ \A i \in 1..Len(s) : (s \o q)[i] = s[i]
OBVIOUS

LEMMA NextIsConsecutive ==
  ASSUME NEW n \in Nat, n + 1 \in Events, NEW s, EndsWith(s, n)
  PROVE  EndsWith(Append(s, n + 1), n + 1) /\ Len(Append(s, n + 1)) = Len(s) + 1
BY DEF EndsWith

LEMMA TailIsConsecutive ==
  ASSUME NEW n \in Nat, NEW s, NEW t \in Seq(Events), EndsWith(s, n),
         Len(t) = Len(s) - 1, \A i \in 1..Len(t) : t[i] = s[i + 1]
  PROVE  EndsWith(t, n)
BY DEF EndsWith

\* The buffer with one event more is still consecutive.
LEMMA BufferedIsConsecutive ==
  ASSUME NEW n \in Nat, n + 1 \in Events, EndsWith(_event_buffer, n),
         Len(_event_buffer) <= BufferSize
  PROVE  EndsWith(Buffered(n + 1), n + 1) /\ Len(Buffered(n + 1)) <= BufferSize
<1> DEFINE all == Append(_event_buffer, n + 1)
<1>1. all \in Seq(Events) /\ EndsWith(all, n + 1) /\ Len(all) = Len(_event_buffer) + 1
  BY NextIsConsecutive DEF EndsWith
<1>2. Len(_event_buffer) \in Nat /\ n + 1 \in Nat
  BY DEF EndsWith
<1>3. CASE Len(all) > BufferSize
  <2>1. Buffered(n + 1) = Tail(all) /\ all # <<>>
    BY <1>1, <1>2, <1>3 DEF Buffered
  <2>2. PICK t : t = Tail(all)
    OBVIOUS
  <2> HIDE DEF all
  <2>3. t \in Seq(Events) /\ Len(t) = Len(all) - 1 /\ \A i \in 1..Len(t) : t[i] = all[i + 1]
    BY <1>1, <2>1, <2>2, HeadTailProperties
  <2>4. EndsWith(t, n + 1)
    BY <1>1, <1>2, <2>3, TailIsConsecutive
  <2>5. Len(t) <= BufferSize
    BY <1>1, <1>2, <2>3
  <2>6. QED
    BY <2>1, <2>2, <2>4, <2>5
<1>4. CASE ~(Len(all) > BufferSize)
  BY <1>1, <1>2, <1>4 DEF Buffered
<1>5. QED
  BY <1>3, <1>4

LEMMA FeedIsTyped ==
  ASSUME EventsTypeOK, NEW v \in Streams
  PROVE  /\ streams[v].sent \in Seq(Events) /\ streams[v].queue \in Seq(Events)
         /\ Feed(v) \in Seq(Events)
         /\ Len(Feed(v)) = Len(streams[v].sent) + Len(streams[v].queue)
         /\ streams[v].since \in 0..MaxEvents /\ streams[v].cut \in BOOLEAN
         /\ published \in 0..MaxEvents
BY DEF EventsTypeOK, Feed, Events

\* A stream of which only the phase is another, or whose events are where they were.
LEMMA QuietStreamIsKept ==
  ASSUME NEW v \in Streams, Kept(v), Whole(v), Feed(v)' = Feed(v),
         streams'[v].since = streams[v].since, streams'[v].cut = streams[v].cut,
         streams'[v].phase # "new" \/ streams'[v] = streams[v],
         published' = published, v \in _queues' => v \in _queues
  PROVE  Kept(v)' /\ Whole(v)'
BY DEF Kept, Whole, Feed

LEMMA EventsInitKeepsInv == EventsInit => EventsIInv
BY DEF EventsInit, EventsIInv, EventsTypeOK, NewStream, Kept, Whole, Feed, EndsWith, Events

\* A feed that is up to date, or that the replay has cut, goes on with the next event.
Chained(feed, since, gap) ==
    \A i \in 1..Len(feed) :
        \/ feed[i] = (IF i = 1 THEN since ELSE feed[i - 1]) + 1
        \/ i > 1 /\ i = gap + 1 /\ feed[i] > feed[i - 1]

LEMMA FeedGoesOn ==
  ASSUME NEW feed \in Seq(Events), NEW since \in Nat, NEW gap \in Nat, NEW n \in Nat,
         n + 1 \in Events, Chained(feed, since, gap), since <= n,
         \A i \in 1..Len(feed) : feed[i] <= n,
         \/ gap > 0 /\ Len(feed) = gap
         \/ feed = <<>> /\ since = n
         \/ feed # <<>> /\ Last(feed) = n
  PROVE  /\ Append(feed, n + 1) \in Seq(Events)
         /\ Chained(Append(feed, n + 1), since, gap)
         /\ \A i \in 1..Len(Append(feed, n + 1)) : Append(feed, n + 1)[i] <= n + 1
         /\ Append(feed, n + 1) # <<>> /\ Last(Append(feed, n + 1)) = n + 1
<1> DEFINE more == Append(feed, n + 1)
<1>1. /\ more \in Seq(Events) /\ Len(more) = Len(feed) + 1 /\ more[Len(feed) + 1] = n + 1
      /\ \A i \in 1..Len(feed) : more[i] = feed[i]
      /\ Len(feed) \in Nat /\ \A i \in 1..Len(feed) : feed[i] \in Nat
      /\ feed = <<>> => Len(feed) = 0
      /\ feed # <<>> => Len(feed) > 0
  BY DEF Events
<1> HIDE DEF more
<1>2. \A i \in 1..Len(more) : more[i] <= n + 1
  BY <1>1
<1>3. Chained(more, since, gap)
  <2> SUFFICES ASSUME NEW i \in 1..Len(more)
               PROVE  \/ more[i] = (IF i = 1 THEN since ELSE more[i - 1]) + 1
                      \/ i > 1 /\ i = gap + 1 /\ more[i] > more[i - 1]
    BY DEF Chained
  <2>1. CASE i <= Len(feed)
    <3>1. i \in 1..Len(feed) /\ (i # 1 => i - 1 \in 1..Len(feed))
      BY <1>1, <2>1
    <3>2. more[i] = feed[i] /\ (i # 1 => more[i - 1] = feed[i - 1])
      BY <1>1, <3>1
    <3>3. \/ feed[i] = (IF i = 1 THEN since ELSE feed[i - 1]) + 1
          \/ i > 1 /\ i = gap + 1 /\ feed[i] > feed[i - 1]
      BY <3>1 DEF Chained
    <3>4. QED
      BY <3>2, <3>3
  <2>2. CASE i = Len(feed) + 1
    <3>1. CASE Len(feed) = 0
      BY <1>1, <2>2, <3>1 DEF Last
    <3>2. CASE Len(feed) # 0
      <4>1. more[i] = n + 1 /\ more[i - 1] = feed[i - 1] /\ i # 1 /\ i > 1
        BY <1>1, <2>2, <3>2
      <4>2. (gap > 0 /\ i = gap + 1) \/ feed[i - 1] = n
        BY <1>1, <2>2, <3>2 DEF Last
      <4>3. feed[i - 1] <= n /\ feed[i - 1] \in Nat
        BY <1>1, <2>2, <3>2
      <4>4. QED
        BY <4>1, <4>2, <4>3
    <3>3. QED
      BY <3>1, <3>2
  <2>3. QED
    BY <1>1, <2>1, <2>2
<1>4. more # <<>> /\ Last(more) = n + 1
  BY <1>1 DEF Last
<1>5. QED
  BY <1>1, <1>2, <1>3, <1>4 DEF more

LEMMA ProjectKeepsStream ==
  ASSUME EventsIInv, Project, NEW v \in Streams
  PROVE  Kept(v)' /\ Whole(v)'
<1> DEFINE gap == IF streams[v].cut THEN StreamQueue ELSE 0
<1>1. EventsTypeOK /\ Kept(v) /\ Whole(v)
  BY DEF EventsIInv
<1>2. published' = published + 1 /\ published \in Nat /\ published + 1 \in Events
  BY <1>1 DEF EventsTypeOK, Project, Events
<1>3. /\ streams[v].sent \in Seq(Events) /\ streams[v].queue \in Seq(Events)
      /\ Feed(v) \in Seq(Events) /\ streams[v].since \in Nat
      /\ gap \in Nat /\ \A i \in 1..Len(Feed(v)) : Feed(v)[i] \in Nat
  <2>1. /\ streams[v].sent \in Seq(Events) /\ streams[v].queue \in Seq(Events)
        /\ Feed(v) \in Seq(Events) /\ streams[v].since \in Nat
    <3>1. /\ streams[v].sent \in Seq(Events) /\ streams[v].queue \in Seq(Events)
          /\ Feed(v) \in Seq(Events) /\ streams[v].since \in 0..MaxEvents
      BY <1>1, FeedIsTyped, Zenon
    <3>2. QED
      BY <3>1
  <2>2. \A i \in 1..Len(Feed(v)) : Feed(v)[i] \in Nat
    BY <2>1 DEF Events
  <2>3. QED
    BY <2>1, <2>2
<1>4. Chained(Feed(v), streams[v].since, gap)
  BY <1>1 DEF Whole, Chained
<1>5. CASE v \in _queues /\ ~Full(v)
  <2>1. streams'[v] = [streams[v] EXCEPT !.queue = Append(@, published')]
    BY <1>5 DEF Project
  <2>2. /\ streams'[v].sent = streams[v].sent
        /\ streams'[v].queue = Append(streams[v].queue, published')
        /\ streams'[v].since = streams[v].since /\ streams'[v].cut = streams[v].cut
        /\ streams'[v].phase = streams[v].phase
    BY <1>1, <2>1 DEF EventsTypeOK
  <2>3. streams[v].sent \o Append(streams[v].queue, published + 1) = Append(Feed(v), published + 1)
    BY <1>2, <1>3, AddingToFeed DEF Feed
  <2> DEFINE more == Append(Feed(v), published + 1)
  <2>10. Feed(v)' = more
    BY <1>2, <2>2, <2>3 DEF Feed
  <2>4. streams[v].phase # "new"
    BY <1>1, <1>5 DEF Kept
  <2>5. \/ gap > 0 /\ Len(Feed(v)) = gap
        \/ Feed(v) = <<>> /\ streams[v].since = published
        \/ Feed(v) # <<>> /\ Last(Feed(v)) = published
    BY <1>1, <1>5 DEF Whole
  <2>6. /\ Chained(more, streams[v].since, gap) /\ more # <<>> /\ Last(more) = published + 1
        /\ \A i \in 1..Len(more) : more[i] <= published + 1
    <3>1. streams[v].since <= published /\ \A i \in 1..Len(Feed(v)) : Feed(v)[i] <= published
      BY <1>1 DEF Kept
    <3>2. QED
      BY <1>2, <1>3, <1>4, <2>5, <3>1, FeedGoesOn
  <2> HIDE DEF more
  <2>7. Kept(v)'
    BY <1>1, <1>2, <1>3, <2>2, <2>10, <2>4, <2>6 DEF Kept
  <2>8. Whole(v)'
    BY <1>2, <2>2, <2>10, <2>6 DEF Whole, Chained
  <2>9. QED
    BY <2>7, <2>8
<1>6. CASE ~(v \in _queues /\ ~Full(v))
  <2>1. streams'[v] = streams[v] /\ v \notin _queues'
    BY <1>6 DEF Project
  <2>2. Feed(v)' = Feed(v)
    BY <2>1 DEF Feed
  <2>3. Kept(v)'
    BY <1>1, <1>2, <1>3, <2>1, <2>2 DEF Kept
  <2>4. Whole(v)'
    BY <1>1, <2>1, <2>2 DEF Whole
  <2>5. QED
    BY <2>3, <2>4
<1>7. QED
  BY <1>5, <1>6

\* A client that names a buffered event is to be sent those after it.
LEMMA MissedFollows ==
  ASSUME EventsIInv, NEW last \in 0..MaxEvents, Contains(_event_buffer, last)
  PROVE  /\ Missed(last) \in Seq(Events) /\ Len(Missed(last)) = published - last
         /\ \A i \in 1..Len(Missed(last)) : Missed(last)[i] = last + i
         /\ last <= published
<1>1. PICK b : b = _event_buffer
  OBVIOUS
<1>2. /\ b \in Seq(Events) /\ published \in Nat /\ Len(b) \in Nat
      /\ \A i \in 1..Len(b) : b[i] = published - Len(b) + i
  BY <1>1 DEF EventsIInv, EventsTypeOK, EndsWith
<1>3. PICK k \in 1..Len(b) : b[k] = last
  BY <1>1 DEF Contains
<1>4. /\ Head(b) = b[1] /\ b[1] = published - Len(b) + 1
      /\ last = published - Len(b) + k
  <2>1. 1 \in 1..Len(b)
    BY <1>2, <1>3
  <2>2. QED
    BY <1>2, <1>3, <2>1
<1>5. last - Head(b) + 2 = k + 1
  BY <1>2, <1>3, <1>4
<1>6. Missed(last) = SubSeq(b, k + 1, Len(b))
  BY <1>1, <1>5 DEF Missed
<1>7. \A i \in (k + 1)..Len(b) : b[i] \in Events
  BY <1>2, <1>3
<1> DEFINE rest == Missed(last)
<1>8. /\ rest \in Seq(Events)
      /\ Len(rest) = IF k + 1 <= Len(b) THEN Len(b) - (k + 1) + 1 ELSE 0
      /\ \A i \in 1..Len(b) - (k + 1) + 1 : rest[i] = b[k + 1 + i - 1]
  BY <1>2, <1>3, <1>6, <1>7, SubSeqProperties
<1> HIDE DEF rest
<1>9. Len(rest) = Len(b) - k
  BY <1>2, <1>8
<1>10. ASSUME NEW i \in 1..Len(rest) PROVE rest[i] = last + i
  <2>1. /\ i \in 1..Len(b) - (k + 1) + 1 /\ k + 1 + i - 1 = k + i
        /\ k + i \in 1..Len(b)
    BY <1>2, <1>9
  <2>2. rest[i] = b[k + i]
    BY <1>8, <2>1
  <2>3. QED
    BY <1>2, <1>4, <2>1, <2>2
<1>11. Len(rest) = published - last /\ last <= published
  BY <1>2, <1>3, <1>4, <1>9
<1>12. QED
  BY <1>8, <1>10, <1>11 DEF rest

LEMMA SubscribeKeepsStream ==
  ASSUME EventsIInv, NEW v \in Streams, subscribe(v)
  PROVE  Kept(v)' /\ Whole(v)' /\ streams' \in [Streams -> EventStream]
<1>1. /\ EventsTypeOK /\ streams \in [Streams -> EventStream]
      /\ published' = published /\ published \in 0..MaxEvents
  BY DEF EventsIInv, EventsTypeOK, subscribe, EventStream, Events
<1>2. PICK last \in {0} \cup UNION {ToSet(streams[w].sent) : w \in Streams} :
         LET replay == Missed(last)
         IN streams' = [streams EXCEPT ![v] =
               [NewStream EXCEPT
                   !.phase = "subscribed",
                   !.queue = SubSeq(replay, 1, IF Len(replay) > StreamQueue
                                               THEN StreamQueue ELSE Len(replay)),
                   !.since = IF Contains(_event_buffer, last) THEN last ELSE published,
                   !.cut = Len(replay) > StreamQueue]]
  BY DEF subscribe
<1>3. last \in 0..MaxEvents
  <2>1. ASSUME NEW w \in Streams, last \in ToSet(streams[w].sent)
        PROVE  last \in 0..MaxEvents
    <3>1. streams[w].sent \in Seq(Events)
      BY <1>1, FeedIsTyped
    <3>2. QED
      BY <2>1, <3>1 DEF ToSet, Events
  <2>2. QED
    BY <1>2, <2>1
<1> DEFINE replay == Missed(last)
           room == IF Len(replay) > StreamQueue THEN StreamQueue ELSE Len(replay)
           since == IF Contains(_event_buffer, last) THEN last ELSE published
           feed == SubSeq(replay, 1, room)
<1>4. /\ replay \in Seq(Events) /\ since \in 0..MaxEvents
      /\ Len(replay) = published - since /\ since <= published
      /\ \A i \in 1..Len(replay) : replay[i] = since + i
  <2>1. CASE Contains(_event_buffer, last)
    BY <1>3, <2>1, MissedFollows
  <2>2. CASE ~Contains(_event_buffer, last)
    BY <1>1, <2>2 DEF Missed
  <2>3. QED
    BY <2>1, <2>2
<1>5. /\ streams'[v].phase = "subscribed" /\ streams'[v].queue = feed
      /\ streams'[v].sent = <<>> /\ streams'[v].since = since
      /\ streams'[v].cut = (Len(replay) > StreamQueue)
  BY <1>1, <1>2 DEF NewStream
<1> HIDE DEF replay, since
<1>6. /\ feed \in Seq(Events) /\ Len(feed) = room /\ room \in Nat /\ room <= Len(replay)
      /\ \A i \in 1..room : feed[i] = replay[i]
  <2>1. Len(replay) \in Nat /\ room \in Nat /\ room <= Len(replay)
    BY <1>4
  <2> HIDE DEF room
  <2>2. \A i \in 1..room : replay[i] \in Events
    BY <1>4, <2>1
  <2>3. /\ feed \in Seq(Events)
        /\ Len(feed) = IF 1 <= room THEN room - 1 + 1 ELSE 0
        /\ \A i \in 1..room - 1 + 1 : feed[i] = replay[1 + i - 1]
    BY <2>1, <2>2, SubSeqProperties
  <2>4. QED
    BY <2>1, <2>3
<1> HIDE DEF feed
<1>7. Feed(v)' = feed
  BY <1>5, <1>6, ConcatEmptySeq DEF Feed
<1>8. \A i \in 1..Len(feed) : feed[i] = since + i /\ feed[i] <= published
  BY <1>1, <1>4, <1>6
<1>9. Kept(v)'
  BY <1>1, <1>4, <1>5, <1>7, <1>8 DEF Kept
<1>10. \A i \in 1..Len(feed) : feed[i] = (IF i = 1 THEN since ELSE feed[i - 1]) + 1
  BY <1>4, <1>6, <1>8
<1>11. \/ Len(replay) > StreamQueue /\ Len(feed) = StreamQueue
       \/ feed = <<>> /\ since = published
       \/ feed # <<>> /\ Last(feed) = published
  <2>1. CASE Len(replay) > StreamQueue
    BY <1>6, <2>1
  <2>2. CASE ~(Len(replay) > StreamQueue) /\ Len(replay) = 0
    BY <1>1, <1>4, <1>6, <2>2
  <2>3. CASE ~(Len(replay) > StreamQueue) /\ Len(replay) # 0
    <3>1. Len(feed) = published - since /\ Len(feed) \in 1..Len(feed)
      BY <1>4, <1>6, <2>3
    <3>2. QED
      BY <1>1, <1>4, <1>8, <3>1 DEF Last
  <2>4. QED
    BY <2>1, <2>2, <2>3
<1>12. Whole(v)'
  BY <1>1, <1>5, <1>7, <1>10, <1>11 DEF Whole
<1>13. streams' \in [Streams -> EventStream]
  <2>1. ASSUME NEW cut \in BOOLEAN
        PROVE  [NewStream EXCEPT !.phase = "subscribed", !.queue = feed, !.since = since,
                                 !.cut = cut] \in EventStream
    <3>1. NewStream \in EventStream
      BY DEF NewStream, EventStream
    <3>2. "subscribed" \in {"new", "subscribed", "open", "closed"}
      OBVIOUS
    <3>3. QED
      BY <1>4, <1>6, <3>1, <3>2 DEF EventStream
  <2>2. (Len(replay) > StreamQueue) \in BOOLEAN
    OBVIOUS
  <2> DEFINE cut == Len(replay) > StreamQueue
             subscribed == [NewStream EXCEPT !.phase = "subscribed", !.queue = feed,
                                             !.since = since, !.cut = cut]
  <2>3. subscribed \in EventStream
    BY <2>1, <2>2, Zenon
  <2>4. streams' = [streams EXCEPT ![v] = subscribed]
    BY <1>2, Zenon DEF feed, room, since, replay
  <2> HIDE DEF subscribed
  <2>5. QED
    BY <1>1, <2>3, <2>4
<1>14. QED
  BY <1>9, <1>12, <1>13

LEMMA EventsStepKeepsInv == EventsIInv /\ [EventsNext]_eventVars => EventsIInv'
<1> SUFFICES ASSUME EventsIInv, [EventsNext]_eventVars PROVE EventsIInv'
  OBVIOUS
<1>1. /\ EventsTypeOK /\ streams \in [Streams -> EventStream] /\ published \in Nat
      /\ _event_buffer \in Seq(Events) /\ EndsWith(_event_buffer, published)
      /\ Len(_event_buffer) <= BufferSize /\ _queues \subseteq Streams
      /\ published <= MaxEvents /\ \A v \in Streams : Kept(v) /\ Whole(v)
  BY DEF EventsIInv, EventsTypeOK, EventStream, Events
<1>2. SUFFICES
         /\ published' \in 0..MaxEvents /\ _queues' \subseteq Streams
         /\ streams' \in [Streams -> EventStream]
         /\ Len(_event_buffer') <= BufferSize /\ EndsWith(_event_buffer', published')
         /\ \A v \in Streams : Kept(v)' /\ Whole(v)'
  BY DEF EventsIInv, EventsTypeOK, EndsWith, EventStream, Events
<1>3. CASE UNCHANGED eventVars
  <2>1. /\ published' = published /\ _event_buffer' = _event_buffer
        /\ _queues' = _queues /\ streams' = streams
    BY <1>3 DEF eventVars
  <2>2. \A v \in Streams : Kept(v)' /\ Whole(v)'
    BY <1>1, <2>1 DEF Kept, Whole, Feed
  <2>3. QED
    BY <1>1, <2>1, <2>2
<1>4. CASE Project
  <2>1. \A v \in Streams : Kept(v)' /\ Whole(v)'
    BY <1>4, ProjectKeepsStream
  <2>2. published + 1 \in Events /\ published' = published + 1
    BY <1>1, <1>4 DEF Project, Events
  <2>3. Len(_event_buffer') <= BufferSize /\ EndsWith(_event_buffer', published')
    BY <1>1, <1>4, <2>2, BufferedIsConsecutive DEF Project
  <2>4. streams' \in [Streams -> EventStream]
    <3>1. ASSUME NEW v \in Streams
          PROVE  [streams[v] EXCEPT !.queue = Append(@, published + 1)] \in EventStream
      <4>1. /\ streams[v].queue \in Seq(Events) /\ streams[v] \in EventStream
            /\ Append(streams[v].queue, published + 1) \in Seq(Events)
        <5>1. streams[v].queue \in Seq(Events)
          BY <1>1, FeedIsTyped
        <5>2. QED
          BY <1>1, <2>2, <5>1
      <4>2. QED
        BY <4>1 DEF EventStream
    <3>2. QED
      BY <1>1, <1>4, <2>2, <3>1 DEF Project
  <2>5. QED
    BY <1>1, <1>4, <2>1, <2>2, <2>3, <2>4 DEF Project, Events
<1>5. CASE StreamsLost
  <2>1. /\ published' = published /\ _event_buffer' = <<>> /\ _queues' = {}
        /\ streams' \in [Streams -> EventStream]
    <3>1. ASSUME NEW v \in Streams
          PROVE  [streams[v] EXCEPT !.phase = "closed", !.queue = <<>>] \in EventStream
      <4>1. <<>> \in Seq(Events) /\ streams[v] \in EventStream
        BY <1>1
      <4>2. QED
        BY <4>1 DEF EventStream
    <3>2. QED
      BY <1>1, <1>5, <3>1 DEF StreamsLost
  <2>2. ASSUME NEW v \in Streams PROVE Kept(v)' /\ Whole(v)'
    <3>1. CASE streams[v].phase = "new"
      <4>1. streams'[v] = streams[v]
        BY <1>5, <3>1 DEF StreamsLost
      <4>2. QED
        BY <1>1, <2>1, <4>1 DEF Kept, Whole, Feed
    <3>2. CASE streams[v].phase # "new"
      <4>1. /\ streams'[v].phase = "closed" /\ streams'[v].queue = <<>>
            /\ streams'[v].sent = streams[v].sent /\ streams'[v].since = streams[v].since
            /\ streams'[v].cut = streams[v].cut
        BY <1>1, <1>5, <3>2 DEF StreamsLost, EventStream
      <4>2. Feed(v)' = streams[v].sent
        BY <1>1, <4>1, FeedIsTyped, ConcatEmptySeq DEF Feed
      <4>3. /\ Len(streams[v].sent) \in Nat /\ Len(streams[v].sent) <= Len(Feed(v))
            /\ \A i \in 1..Len(streams[v].sent) : Feed(v)[i] = streams[v].sent[i]
        <5>1. streams[v].sent \in Seq(Events) /\ streams[v].queue \in Seq(Events)
          BY <1>1, FeedIsTyped
        <5>2. QED
          BY <5>1, SentIsPrefix DEF Feed
      <4>4. Kept(v)'
        BY <1>1, <2>1, <4>1, <4>2, <4>3 DEF Kept
      <4>5. Whole(v)'
        <5>1. \A i \in 1..Len(streams[v].sent) :
                 i \in 1..Len(Feed(v)) /\ (i # 1 => i - 1 \in 1..Len(streams[v].sent))
          BY <4>3
        <5> DEFINE gap == IF streams[v].cut THEN StreamQueue ELSE 0
        <5>2. Chained(Feed(v), streams[v].since, gap)
          BY <1>1 DEF Whole, Chained
        <5>3. Chained(streams[v].sent, streams[v].since, gap)
          BY <4>3, <5>1, <5>2 DEF Chained
        <5>4. Chained(Feed(v)', streams'[v].since, gap')
          BY <4>1, <4>2, <5>3
        <5>5. QED
          BY <2>1, <5>4 DEF Whole, Chained
      <4>6. QED
        BY <4>4, <4>5
    <3>3. QED
      BY <3>1, <3>2
  <2>3. EndsWith(_event_buffer', published') /\ Len(_event_buffer') <= BufferSize
    BY <2>1 DEF EndsWith
  <2>4. QED
    BY <1>1, <2>1, <2>2, <2>3
<1>6. ASSUME NEW v \in Streams, subscribe(v) \/ StreamOpens(v) \/ SendEvent(v) \/ StreamCloses(v)
      PROVE  /\ published' = published /\ _event_buffer' = _event_buffer
             /\ _queues' \subseteq Streams /\ streams' \in [Streams -> EventStream]
             /\ \A w \in Streams : Kept(w)' /\ Whole(w)'
  <2>1. /\ published' = published /\ _event_buffer' = _event_buffer
        /\ _queues' \subseteq _queues \cup {v} /\ _queues \subseteq _queues' \cup {v}
        /\ \A w \in Streams \ {v} : streams'[w] = streams[w]
    BY <1>1, <1>6 DEF subscribe, StreamOpens, SendEvent, StreamCloses
  <2>2. \A w \in Streams \ {v} : Kept(w)' /\ Whole(w)'
    BY <1>1, <2>1 DEF Kept, Whole, Feed
  <2>3. CASE subscribe(v)
    BY <1>1, <2>1, <2>2, <2>3, SubscribeKeepsStream
  <2>4. CASE StreamOpens(v) \/ StreamCloses(v)
    <3>1. /\ streams' \in [Streams -> EventStream] /\ streams'[v].phase # "new"
          /\ streams'[v].sent = streams[v].sent /\ streams'[v].queue = streams[v].queue
          /\ streams'[v].since = streams[v].since /\ streams'[v].cut = streams[v].cut
          /\ _queues' \subseteq _queues
      <4>1. PICK phase \in {"open", "closed"} :
               streams' = [streams EXCEPT ![v].phase = phase] /\ _queues' \subseteq _queues
        BY <2>4 DEF StreamOpens, StreamCloses
      <4>2. QED
        BY <1>1, <4>1 DEF EventStream
    <3>2. Feed(v)' = Feed(v)
      BY <3>1 DEF Feed
    <3>3. Kept(v)' /\ Whole(v)'
      BY <1>1, <2>1, <3>1, <3>2, QuietStreamIsKept
    <3>4. QED
      BY <1>1, <2>1, <2>2, <3>1, <3>3
  <2>5. CASE SendEvent(v)
    <3>1. /\ streams[v].phase = "open" /\ streams[v].queue # <<>> /\ _queues' = _queues
          /\ streams'[v].phase = "open" /\ streams'[v].queue = Tail(streams[v].queue)
          /\ streams'[v].sent = Append(streams[v].sent, Head(streams[v].queue))
          /\ streams'[v].since = streams[v].since /\ streams'[v].cut = streams[v].cut
      BY <1>1, <2>5 DEF SendEvent, EventStream
    <3>2. streams[v].queue \in Seq(Events) /\ streams[v].sent \in Seq(Events)
      BY <1>1, FeedIsTyped
    <3>3. Feed(v)' = Feed(v)
      BY <3>1, <3>2, SendingKeepsFeed DEF Feed
    <3>4. Kept(v)' /\ Whole(v)'
      BY <1>1, <2>1, <3>1, <3>3, QuietStreamIsKept
    <3>5. streams' \in [Streams -> EventStream]
      <4>1. /\ Tail(streams[v].queue) \in Seq(Events)
            /\ Append(streams[v].sent, Head(streams[v].queue)) \in Seq(Events)
        BY <3>1, <3>2, HeadTailProperties
      <4>2. QED
        BY <1>1, <2>5, <4>1 DEF SendEvent, EventStream
    <3>6. QED
      BY <1>1, <2>1, <2>2, <3>1, <3>4, <3>5
  <2>6. QED
    BY <1>6, <2>3, <2>4, <2>5
<1>7. QED
  BY <1>1, <1>3, <1>4, <1>5, <1>6 DEF EventsNext

\* For any number of streams, events and losses, and any sizes of the buffer and the
\* queues: what a stream was and is to be sent goes on event by event from where it
\* was to begin, but for the one cut of its replay.
THEOREM AlwaysWhole == EventsSpec => []StreamsAreWhole
<1>1. EventsIInv => StreamsAreWhole
  BY DEF EventsIInv, StreamsAreWhole
<1>2. QED
  BY <1>1, EventsInitKeepsInv, EventsStepKeepsInv, PTL DEF EventsSpec

------------------------------------------------------------------------------
(* DirectorVoice: what the connection, its session, the turns and their    *)
(* tasks know of each other.                                               *)

\* What the task of a turn may be doing, and whether it still has words to come.
Writing == {"created", "streaming", "adding", "putting", "tail", "closing"}
Waits == {"joining", "completing", "failing"}
Finished == {"done", "cancelled"}
Numbers == 0..MaxTokens * MaxCuts

Producer == [phase : {"none"} \cup Writing \cup Waits \cup Finished,
             buffered : BOOLEAN, toPut : Nat, next : Nat]
Speaker == [phase : {"none", "waiting", "synthesizing", "speaking", "raised"} \cup Finished,
            chunk : Numbers, emitted : Seq(Numbers)]
Hearing == [proposed : BOOLEAN, deltas : 0..MaxTokens, spoken : Seq(Numbers),
            complete : Seq(Numbers) \cup {None}, final : BOOLEAN]

VoiceTypeOK ==
    /\ socket \in {"open", "left"}
    /\ handler \in {"greeting", "receiving", "starting", "acknowledging", "closed"}
    /\ status \in {"LISTENING", "PROCESSING", "SPEAKING", "INTERRUPTED"}
    /\ current \in Turns \cup {0}
    /\ active \in SUBSET ({"produce", "speak"} \X Turns)
    /\ produce \in [Turns -> Producer]
    /\ speak \in [Turns -> Speaker]
    /\ queue \in [Turns -> Seq(Numbers \cup {None})]
    /\ heard \in [Turns -> Hearing]
    /\ answering \in [latest : Turns \cup {None}, cutIn : SUBSET Turns]

\* The session: the turn that was begun last is the one it takes for current, turns
\* are begun in order, and only the current one has tasks that can be cancelled.
Session ==
    /\ handler = "closed" => socket = "left" /\ answering.latest = None
    /\ handler = "greeting" => current = 0 /\ answering.latest = None
    /\ handler \notin {"closed", "greeting"} =>
           answering.latest = IF current = 0 THEN None ELSE current
    /\ handler \in {"receiving", "acknowledging"} => current \in Begun \cup {0}
    /\ handler = "starting" => current \in Turns \ Begun /\ 1..(current - 1) \subseteq Begun
    /\ current = 0 => Begun = {}
    /\ \A n \in Begun : 1..n \subseteq Begun
    /\ \A k \in active : k[2] = current

\* A turn nobody has begun, or whose task has not run yet.
Untouched(n) ==
    /\ produce[n].phase = "none" => n \notin answering.cutIn
    /\ produce[n].phase \in {"none", "created"} =>
           /\ heard[n] = Unheard /\ speak[n] = NewSpeaker /\ queue[n] = <<>>
           /\ produce[n] = [NewProducer EXCEPT !.phase = produce[n].phase]

\* Who can be cancelled, and who outlived it.
Cancellable(n) ==
    /\ produce[n].phase \in Writing => <<"produce", n>> \in active
    /\ speak[n].phase \notin Ended => <<"speak", n>> \in active
    /\ <<"speak", n>> \in active => <<"produce", n>> \in active
    /\ produce[n].phase = "joining" /\ <<"produce", n>> \notin active =>
           n \in answering.cutIn \/ answering.latest # n
    /\ n \in answering.cutIn => produce[n].phase \notin Writing /\ speak[n].phase \in Ended

\* The closing list.
Closing(n) ==
    /\ heard[n].complete # None =>
           /\ produce[n].phase \in {"completing", "failing"} \cup Finished
           /\ speak[n].phase \in Ended
    /\ produce[n].phase = "completing" =>
           /\ heard[n].complete # None
           /\ n \in answering.cutIn \/ <<"produce", n>> \in active

\* The speaking task knows what was spoken, but for the chunk it was cut off in.
Said(n) ==
    LET spoken == heard[n].spoken
        emitted == speak[n].emitted
    IN /\ speak[n].phase \in {"waiting", "synthesizing"} => spoken = emitted
       /\ speak[n].phase = "speaking" => spoken = Append(emitted, speak[n].chunk)
       /\ speak[n].phase = "done" /\ produce[n].phase \in Writing \cup {"joining"} =>
              \/ spoken = emitted
              \/ /\ n \in answering.cutIn \/ answering.latest # n
                 /\ \E i \in Numbers : spoken = Append(emitted, i)

\* Chunks are numbered in the order in which they are put, taken and spoken.
Ordered(n) ==
    LET spoken == heard[n].spoken
        q == queue[n]
    IN /\ \A i, j \in 1..Len(q) : i < j /\ q[i] # None /\ q[j] # None => q[i] < q[j]
       /\ \A i \in 1..Len(spoken), j \in 1..Len(q) : q[j] # None => spoken[i] < q[j]
       /\ speak[n].phase = "synthesizing" =>
              /\ \A i \in 1..Len(spoken) : spoken[i] < speak[n].chunk
              /\ \A j \in 1..Len(q) : q[j] # None => speak[n].chunk < q[j]
       /\ produce[n].phase \in Writing =>
              /\ \A i \in 1..Len(spoken) : spoken[i] < produce[n].next
              /\ \A j \in 1..Len(q) : q[j] # None => q[j] < produce[n].next
              /\ speak[n].phase = "synthesizing" => speak[n].chunk < produce[n].next

\* No piece of text gives more chunks than MaxCuts, and the rest one more.
Counted(n) ==
    LET room == heard[n].deltas * MaxCuts - produce[n].next
    IN /\ produce[n].phase \in {"streaming", "tail"} => room >= 0
       /\ produce[n].phase = "adding" => room >= MaxCuts
       /\ produce[n].phase = "putting" => produce[n].toPut \in 1..room
       /\ produce[n].phase = "tail" => produce[n].toPut = 1

TurnOK(n) ==
    Untouched(n) /\ Cancellable(n) /\ Closing(n) /\ Said(n) /\ Ordered(n) /\ Counted(n)

VoiceIInv == Session /\ \A n \in Turns : TurnOK(n)

LEMMA Typing ==
    /\ 0 \in Numbers
    /\ NewProducer \in Producer /\ NewSpeaker \in Speaker /\ Unheard \in Hearing
    /\ \A phase \in Waits \cup Writing \cup Finished :
          [NewProducer EXCEPT !.phase = phase] \in Producer
    /\ \A phase \in Finished : [NewSpeaker EXCEPT !.phase = phase] \in Speaker
<1>1. 0 \in Numbers
  <2>1. MaxTokens * MaxCuts \in Nat
    BY VoiceAssumption
  <2>2. QED
    BY <2>1 DEF Numbers
<1>2. 0 \in 0..MaxTokens /\ <<>> \in Seq(Numbers)
  BY VoiceAssumption
<1>3. NewProducer \in Producer
  BY DEF NewProducer, Producer
<1>4. NewSpeaker \in Speaker
  BY <1>1, <1>2 DEF NewSpeaker, Speaker
<1>5. Unheard \in Hearing
  BY <1>2 DEF Unheard, Hearing
<1>6. \A phase \in Waits \cup Writing \cup Finished :
          [NewProducer EXCEPT !.phase = phase] \in Producer
  BY DEF NewProducer, Producer
<1>7. \A phase \in Finished : [NewSpeaker EXCEPT !.phase = phase] \in Speaker
  BY <1>4 DEF Speaker
<1>8. QED
  BY <1>1, <1>3, <1>4, <1>5, <1>6, <1>7

LEMMA VoiceInitTyped == VoiceInit => VoiceTypeOK
BY Typing DEF VoiceInit, VoiceTypeOK, Turns

\* Cancelling ends tasks and empties queues, nothing else.
LEMMA CancelTyped ==
  ASSUME VoiceTypeOK, cancel_active_turn
  PROVE  /\ produce' \in [Turns -> Producer] /\ speak' \in [Turns -> Speaker]
         /\ queue' \in [Turns -> Seq(Numbers \cup {None})]
         /\ active' \in SUBSET ({"produce", "speak"} \X Turns)
<1>1. \A n \in Turns : produce[n] \in Producer /\ speak[n] \in Speaker
  BY DEF VoiceTypeOK
<1>2. \A n \in Turns : [speak[n] EXCEPT !.phase = "done"] \in Speaker
  BY <1>1 DEF Speaker, Finished
<1>3. [NewProducer EXCEPT !.phase = "cancelled"] \in Producer
       /\ [NewSpeaker EXCEPT !.phase = "cancelled"] \in Speaker
  BY Typing DEF Finished
<1>4. <<>> \in Seq(Numbers \cup {None})
  OBVIOUS
<1>5. produce' \in [Turns -> Producer]
  BY <1>1, <1>3 DEF cancel_active_turn
<1>6. speak' \in [Turns -> Speaker]
  BY <1>1, <1>2, <1>3 DEF cancel_active_turn
<1>7. queue' \in [Turns -> Seq(Numbers \cup {None})]
  BY <1>4 DEF cancel_active_turn, VoiceTypeOK
<1>8. QED
  BY <1>5, <1>6, <1>7 DEF cancel_active_turn

\* The steps of the connection's task.
LEMMA HandlerTyped ==
  ASSUME VoiceTypeOK,
         \/ Ready \/ CreateTurn \/ Acknowledged \/ GreetingFails \/ ClientLeaves
         \/ Interrupt \/ Disconnect \/ (\E n \in Turns : Commit(n)),
         handler = "starting" => current \in Turns
  PROVE  VoiceTypeOK'
<1>1. CASE Ready \/ Acknowledged \/ GreetingFails \/ ClientLeaves
  BY <1>1 DEF VoiceTypeOK, Ready, Acknowledged, GreetingFails, ClientLeaves, sessionRecord,
     tasks
<1>2. CASE CreateTurn
  <2>1. [produce[current] EXCEPT !.phase = "created"] \in Producer
    BY <1>2 DEF VoiceTypeOK, CreateTurn, Producer, Writing
  <2>2. QED
    BY <1>2, <2>1 DEF VoiceTypeOK, CreateTurn
<1>3. CASE Interrupt
  <2>1. answering' \in [latest : Turns \cup {None}, cutIn : SUBSET Turns]
    BY <1>3 DEF Interrupt, VoiceTypeOK
  <2>2. QED
    BY <1>3, <2>1, CancelTyped DEF VoiceTypeOK, Interrupt
<1>4. CASE Disconnect
  <2>1. answering' \in [latest : Turns \cup {None}, cutIn : SUBSET Turns]
    BY <1>4 DEF Disconnect, VoiceTypeOK
  <2>2. QED
    BY <1>4, <2>1, CancelTyped DEF VoiceTypeOK, Disconnect
<1>5. ASSUME NEW n \in Turns, Commit(n)
      PROVE  VoiceTypeOK'
  <2>1. answering' \in [latest : Turns \cup {None}, cutIn : SUBSET Turns]
    BY <1>5 DEF Commit, VoiceTypeOK
  <2>2. QED
    BY <1>5, <2>1, CancelTyped DEF VoiceTypeOK, Commit
<1>6. QED
  BY <1>1, <1>2, <1>3, <1>4, <1>5

\* What one turn's task and speaking task may change.
OfTurn(n) ==
    /\ produce' = [produce EXCEPT ![n] = produce'[n]] /\ produce'[n] \in Producer
    /\ speak' = [speak EXCEPT ![n] = speak'[n]] /\ speak'[n] \in Speaker
    /\ queue' = [queue EXCEPT ![n] = queue'[n]] /\ queue'[n] \in Seq(Numbers \cup {None})
    /\ heard' = [heard EXCEPT ![n] = heard'[n]] /\ heard'[n] \in Hearing
    /\ active' \in {active, active \cup {<<"speak", n>>}}
    /\ status' \in {status, "SPEAKING"}
    /\ UNCHANGED <<socket, handler, current, answering>>

LEMMA TurnTyped ==
  ASSUME VoiceTypeOK, NEW n \in Turns, OfTurn(n)
  PROVE  VoiceTypeOK'
<1>1. active' \in SUBSET ({"produce", "speak"} \X Turns)
  <2>1. <<"speak", n>> \in {"produce", "speak"} \X Turns
    OBVIOUS
  <2>2. QED
    BY <2>1 DEF VoiceTypeOK, OfTurn
<1>2. produce' \in [Turns -> Producer] /\ speak' \in [Turns -> Speaker]
  BY DEF VoiceTypeOK, OfTurn
<1>3. queue' \in [Turns -> Seq(Numbers \cup {None})] /\ heard' \in [Turns -> Hearing]
  BY DEF VoiceTypeOK, OfTurn
<1>4. QED
  BY <1>1, <1>2, <1>3 DEF VoiceTypeOK, OfTurn

\* The phases of a task's record, changed alone.
LEMMA PhaseTyped ==
  ASSUME VoiceTypeOK, NEW n \in Turns
  PROVE  /\ \A phase \in Writing \cup Waits \cup Finished :
               [produce[n] EXCEPT !.phase = phase] \in Producer
         /\ \A phase \in {"waiting", "synthesizing", "speaking", "raised"} \cup Finished :
               [speak[n] EXCEPT !.phase = phase] \in Speaker
<1>1. produce[n] \in Producer /\ speak[n] \in Speaker
  BY DEF VoiceTypeOK
<1>2. QED
  BY <1>1 DEF Producer, Speaker

\* A piece of text counts once for every turn it is part of, and no turn has more
\* than all of them.
LEMMA OneMoreDelta ==
  ASSUME VoiceTypeOK, NEW n \in Turns, Cardinality(Written) < MaxTokens
  PROVE  heard[n].deltas + 1 \in 0..MaxTokens
<1>1. heard[n].deltas \in 0..MaxTokens /\ MaxTokens \in Nat /\ MaxTurns \in Nat
  BY VoiceAssumption DEF VoiceTypeOK, Hearing
<1>2. SUFFICES ASSUME heard[n].deltas = MaxTokens PROVE FALSE
  BY <1>1
<1>3. IsFiniteSet(Turns \X (1..MaxTokens))
  <2>1. IsFiniteSet(1..MaxTurns) /\ IsFiniteSet(1..MaxTokens)
    BY <1>1, FS_Interval
  <2>2. QED
    BY <2>1, FS_Product DEF Turns
<1>4. IsFiniteSet(Written)
  BY <1>3, FS_Subset DEF Written
<1>5. PICK d : d = [k \in 1..MaxTokens |-> <<n, k>>]
  OBVIOUS
<1>6. d \in Injection(1..MaxTokens, Written)
  <2>1. \A k \in 1..MaxTokens : <<n, k>> \in Written
    BY <1>2 DEF Written
  <2>2. \A j, k \in 1..MaxTokens : d[j] = d[k] => j = k
    BY <1>5
  <2>3. d \in [1..MaxTokens -> Written]
    BY <1>5, <2>1
  <2>4. QED
    BY <2>2, <2>3 DEF Injection, IsInjective
<1>7. Cardinality(1..MaxTokens) <= Cardinality(Written)
  BY <1>4, <1>6, <1>1, FS_Interval, FS_Injection
<1>8. Cardinality(1..MaxTokens) = MaxTokens
  BY <1>1, FS_Interval
<1>9. Cardinality(Written) \in Nat
  BY <1>4, FS_CardinalityType
<1>10. QED
  BY <1>1, <1>7, <1>8, <1>9

\* The number of the chunk that is put is within the bound.
LEMMA NextIsNumber ==
  ASSUME VoiceTypeOK, NEW n \in Turns, Counted(n), produce[n].phase \in {"putting", "tail"}
  PROVE  produce[n].next \in Numbers
<1> DEFINE d == heard[n].deltas
           e == produce[n].next
<1>1. d \in 0..MaxTokens /\ e \in Nat /\ MaxTokens \in Nat /\ MaxCuts \in Nat
  BY VoiceAssumption DEF VoiceTypeOK, Hearing, Producer
<1>2. d * MaxCuts - e >= 0
  <2>1. CASE produce[n].phase = "tail"
    BY <2>1 DEF Counted
  <2>2. CASE produce[n].phase = "putting"
    <3>1. produce[n].toPut \in 1..(d * MaxCuts - e)
      BY <2>2 DEF Counted
    <3>2. d * MaxCuts \in Nat
      BY <1>1
    <3> HIDE DEF d, e
    <3>3. QED
      BY <1>1, <3>1, <3>2
  <2>3. QED
    BY <2>1, <2>2
<1> HIDE DEF d, e
<1>3. d * MaxCuts <= MaxTokens * MaxCuts
  <2>1. PICK k \in Nat : MaxTokens = d + k
    <3>1. MaxTokens - d \in Nat /\ MaxTokens = d + (MaxTokens - d)
      BY <1>1
    <3>2. QED
      BY <3>1
  <2>2. (d + k) * MaxCuts = d * MaxCuts + k * MaxCuts
    BY <1>1, <2>1
  <2>3. k * MaxCuts \in Nat /\ d * MaxCuts \in Nat
    BY <1>1, <2>1
  <2>4. QED
    BY <2>1, <2>2, <2>3
<1>4. d * MaxCuts \in Nat /\ MaxTokens * MaxCuts \in Nat
  BY <1>1
<1>5. e \in 0..MaxTokens * MaxCuts
  BY <1>1, <1>2, <1>3, <1>4
<1>6. QED
  BY <1>5 DEF e, Numbers

LEMMA TurnKeeps ==
  ASSUME VoiceTypeOK, NEW n \in Turns
  PROVE  /\ produce[n] \in Producer /\ produce = [produce EXCEPT ![n] = produce[n]]
         /\ speak[n] \in Speaker /\ speak = [speak EXCEPT ![n] = speak[n]]
         /\ queue[n] \in Seq(Numbers \cup {None})
         /\ queue = [queue EXCEPT ![n] = queue[n]]
         /\ heard[n] \in Hearing /\ heard = [heard EXCEPT ![n] = heard[n]]
BY DEF VoiceTypeOK

LEMMA StartIsOfTurn ==
  ASSUME VoiceTypeOK, NEW n \in Turns, StartTurn(n)
  PROVE  OfTurn(n)
<1>1. [produce[n] EXCEPT !.phase = "streaming"] \in Producer
       /\ [speak[n] EXCEPT !.phase = "waiting"] \in Speaker
  BY PhaseTyped DEF Writing
<1>2. produce' = [produce EXCEPT ![n].phase = "streaming"]
       /\ speak' = [speak EXCEPT ![n].phase = "waiting"]
  BY DEF StartTurn, Produces
<1>3. produce'[n] = [produce[n] EXCEPT !.phase = "streaming"]
       /\ speak'[n] = [speak[n] EXCEPT !.phase = "waiting"]
  BY <1>2, TurnKeeps DEF VoiceTypeOK
<1>4. QED
  BY <1>1, <1>2, <1>3, TurnKeeps DEF StartTurn, OfTurn

LEMMA ProducerIsOfTurn ==
  ASSUME VoiceTypeOK, NEW n \in Turns, Counted(n),
         \/ SendProposal(n) \/ StreamRaises(n) \/ StreamYields(n) \/ add_token(n)
         \/ StreamEnds(n) \/ SendFinal(n) \/ SendError(n)
  PROVE  OfTurn(n)
<1>1. SUFFICES /\ produce' = [produce EXCEPT ![n] = produce'[n]] /\ produce'[n] \in Producer
               /\ heard' = [heard EXCEPT ![n] = heard'[n]] /\ heard'[n] \in Hearing
               /\ UNCHANGED <<socket, handler, sessionRecord, speak, queue, answering>>
  BY TurnKeeps DEF OfTurn, sessionRecord
<1>2. UNCHANGED <<socket, handler, sessionRecord, speak, queue, answering>>
  BY DEF SendProposal, StreamRaises, StreamYields, add_token, StreamEnds, SendFinal, SendError,
     tasks
<1>3. CASE SendProposal(n)
  <2>1. [heard[n] EXCEPT !.proposed = TRUE] \in Hearing
    BY TurnKeeps DEF Hearing
  <2>2. QED
    BY <1>2, <1>3, <2>1, TurnKeeps DEF SendProposal, tasks, VoiceTypeOK
<1>4. CASE StreamRaises(n)
  BY <1>2, <1>4, PhaseTyped, TurnKeeps DEF StreamRaises, Produces, VoiceTypeOK, Waits
<1>5. CASE StreamYields(n)
  <2>1. [heard[n] EXCEPT !.deltas = @ + 1] \in Hearing
    BY <1>5, TurnKeeps, OneMoreDelta DEF Hearing, StreamYields
  <2>2. heard' = heard \/ heard' = [heard EXCEPT ![n].deltas = @ + 1]
    BY <1>5 DEF StreamYields
  <2>3. PICK phase \in {"closing", "adding", "failing"} :
             produce' = [produce EXCEPT ![n].phase = phase]
    BY <1>5 DEF StreamYields, Produces
  <2>4. heard' = [heard EXCEPT ![n] = heard'[n]] /\ heard'[n] \in Hearing
    BY <2>1, <2>2, TurnKeeps DEF VoiceTypeOK
  <2>5. produce' = [produce EXCEPT ![n] = produce'[n]] /\ produce'[n] \in Producer
    <3>1. [produce[n] EXCEPT !.phase = phase] \in Producer
      BY PhaseTyped DEF Waits, Writing
    <3>2. QED
      BY <2>3, <3>1 DEF VoiceTypeOK
  <2>6. QED
    BY <1>2, <2>4, <2>5
<1>6. CASE add_token(n)
  <2>1. PICK cuts \in 0..MaxCuts, rest \in BOOLEAN :
          produce' = [produce EXCEPT ![n].toPut = cuts, ![n].buffered = rest,
                         ![n].phase = IF cuts = 0 THEN "streaming" ELSE "putting"]
    BY <1>6 DEF add_token
  <2>2. [produce[n] EXCEPT !.toPut = cuts, !.buffered = rest,
              !.phase = IF cuts = 0 THEN "streaming" ELSE "putting"] \in Producer
    <3>1. produce[n] \in Producer /\ cuts \in Nat
      BY TurnKeeps, VoiceAssumption
    <3>2. (IF cuts = 0 THEN "streaming" ELSE "putting") \in Writing
      BY DEF Writing
    <3>3. QED
      BY <3>1, <3>2 DEF Producer
  <2>3. produce'[n] = [produce[n] EXCEPT !.toPut = cuts, !.buffered = rest,
              !.phase = IF cuts = 0 THEN "streaming" ELSE "putting"]
    BY <2>1 DEF VoiceTypeOK
  <2>4. produce' = [produce EXCEPT ![n] = produce'[n]]
    BY <2>1, <2>3 DEF VoiceTypeOK
  <2>5. QED
    BY <1>2, <1>6, <2>2, <2>3, <2>4, TurnKeeps DEF add_token
<1>7. CASE StreamEnds(n)
  <2> DEFINE p == [produce[n] EXCEPT !.buffered = FALSE,
                      !.toPut = IF produce[n].buffered THEN 1 ELSE 0,
                      !.phase = IF produce[n].buffered /\ ~Stale(n) THEN "tail"
                                   ELSE "closing"]
  <2>1. p \in Producer
    BY TurnKeeps DEF Producer, Writing
  <2>2. produce' = [produce EXCEPT ![n] = p]
    BY <1>7 DEF StreamEnds, VoiceTypeOK
  <2> HIDE DEF p
  <2>3. produce'[n] = p
    BY <2>2 DEF VoiceTypeOK
  <2>4. QED
    BY <1>2, <1>7, <2>1, <2>2, <2>3, TurnKeeps DEF StreamEnds
<1>8. CASE SendFinal(n)
  <2>1. [heard[n] EXCEPT !.final = TRUE] \in Hearing
    BY TurnKeeps DEF Hearing
  <2>2. [NewProducer EXCEPT !.phase = "done"] \in Producer
    BY Typing DEF Finished
  <2>3. CASE Sends
    BY <1>2, <1>8, <2>1, <2>2, <2>3, TurnKeeps DEF SendFinal, Returns, VoiceTypeOK
  <2>4. CASE ~Sends
    <3>1. [produce[n] EXCEPT !.phase = "failing"] \in Producer
      BY PhaseTyped DEF Waits
    <3>2. QED
      BY <1>2, <1>8, <2>4, <3>1, TurnKeeps DEF SendFinal, Produces, VoiceTypeOK
  <2>5. QED
    BY <2>3, <2>4
<1>9. CASE SendError(n)
  BY <1>2, <1>9, Typing, TurnKeeps DEF SendError, Returns, VoiceTypeOK, Finished
<1>10. QED
  BY <1>3, <1>4, <1>5, <1>6, <1>7, <1>8, <1>9

\* The steps that put a chunk, or the end.
LEMMA PuttingIsOfTurn ==
  ASSUME VoiceTypeOK, NEW n \in Turns, Counted(n), PutChunk(n) \/ PutSentinel(n)
  PROVE  OfTurn(n)
<1>1. CASE PutChunk(n)
  <2> DEFINE p == [produce[n] EXCEPT !.next = @ + 1, !.toPut = @ - 1,
                      !.phase = IF produce[n].phase = "tail" THEN "closing"
                                   ELSE IF produce[n].toPut = 1 THEN "streaming"
                                   ELSE "putting"]
             q == Append(queue[n], produce[n].next)
  <2>1. produce[n].toPut - 1 \in Nat
    BY <1>1, TurnKeeps DEF PutChunk, Counted, Producer
  <2>2. p \in Producer
    <3>1. produce[n] \in Producer
      BY TurnKeeps
    <3>2. (IF produce[n].phase = "tail" THEN "closing"
           ELSE IF produce[n].toPut = 1 THEN "streaming" ELSE "putting") \in Writing
      BY DEF Writing
    <3>3. produce[n].next + 1 \in Nat
      BY <3>1 DEF Producer
    <3>4. QED
      BY <2>1, <3>1, <3>2, <3>3 DEF Producer
  <2>3. q \in Seq(Numbers \cup {None})
    BY <1>1, NextIsNumber, TurnKeeps DEF PutChunk
  <2>4. produce' = [produce EXCEPT ![n] = p] /\ queue' = [queue EXCEPT ![n] = q]
    BY <1>1 DEF PutChunk, VoiceTypeOK
  <2> HIDE DEF p, q
  <2>5. produce'[n] = p /\ queue'[n] = q
    BY <2>4 DEF VoiceTypeOK
  <2>6. QED
    BY <1>1, <2>2, <2>3, <2>4, <2>5, TurnKeeps DEF PutChunk, OfTurn, sessionRecord
<1>2. CASE PutSentinel(n)
  <2> DEFINE p == [produce[n] EXCEPT !.phase = "joining"]
             q == Append(queue[n], None)
  <2>1. p \in Producer
    BY PhaseTyped DEF Waits
  <2>2. q \in Seq(Numbers \cup {None})
    BY TurnKeeps
  <2>3. produce' = [produce EXCEPT ![n] = p] /\ queue' = [queue EXCEPT ![n] = q]
    BY <1>2 DEF PutSentinel, Produces, VoiceTypeOK
  <2> HIDE DEF p, q
  <2>4. produce'[n] = p /\ queue'[n] = q
    BY <2>3 DEF VoiceTypeOK
  <2>5. QED
    BY <1>2, <2>1, <2>2, <2>3, <2>4, TurnKeeps DEF PutSentinel, OfTurn, sessionRecord
<1>3. QED
  BY <1>1, <1>2

LEMMA JoinIsOfTurn ==
  ASSUME VoiceTypeOK, NEW n \in Turns, Join(n)
  PROVE  OfTurn(n)
<1> DEFINE s == [NewSpeaker EXCEPT !.phase = "done"]
<1>1. s \in Speaker
  BY Typing DEF Finished
<1>2. speak' = [speak EXCEPT ![n] = s] /\ queue' = [queue EXCEPT ![n] = <<>>]
  BY DEF Join
<1> HIDE DEF s
<1>3. speak'[n] = s /\ queue'[n] = <<>> /\ <<>> \in Seq(Numbers \cup {None})
  BY <1>2 DEF VoiceTypeOK
<1>4. produce' = [produce EXCEPT ![n] = produce'[n]] /\ produce'[n] \in Producer
  <2>1. CASE Produces(n, "failing") \/ Produces(n, "completing")
    <3>1. PICK phase \in {"failing", "completing"} : produce' = [produce EXCEPT ![n].phase = phase]
      BY <2>1 DEF Produces
    <3>2. [produce[n] EXCEPT !.phase = phase] \in Producer
      BY PhaseTyped DEF Waits
    <3>3. QED
      BY <3>1, <3>2 DEF VoiceTypeOK
  <2>2. CASE Returns(n)
    BY <2>2, Typing DEF Returns, VoiceTypeOK, Finished
  <2>3. QED
    BY <2>1, <2>2 DEF Join
<1>5. heard' = [heard EXCEPT ![n] = heard'[n]] /\ heard'[n] \in Hearing
  <2>1. [heard[n] EXCEPT !.complete = speak[n].emitted] \in Hearing
    <3>1. speak[n].emitted \in Seq(Numbers) \cup {None}
      BY TurnKeeps DEF Speaker
    <3>2. heard[n] \in Hearing
      BY TurnKeeps
    <3> HIDE DEF s
    <3>3. QED
      BY <3>1, <3>2 DEF Hearing
  <2>2. CASE UNCHANGED heard
    BY <2>2, TurnKeeps
  <2>3. CASE heard' = [heard EXCEPT ![n].complete = speak[n].emitted]
    BY <2>1, <2>3 DEF VoiceTypeOK
  <2>4. QED
    BY <2>2, <2>3 DEF Join
<1>6. QED
  BY <1>1, <1>2, <1>3, <1>4, <1>5 DEF Join, OfTurn, sessionRecord

LEMMA SpeechIsOfTurn ==
  ASSUME VoiceTypeOK, NEW n \in Turns, Speech(n)
  PROVE  OfTurn(n)
<1>1. CASE GetChunk(n)
  <2>1. queue[n] \in Seq(Numbers \cup {None}) /\ queue[n] # <<>>
    BY <1>1, TurnKeeps DEF GetChunk
  <2>2. Tail(queue[n]) \in Seq(Numbers \cup {None}) /\ Head(queue[n]) \in Numbers \cup {None}
    BY <2>1
  <2>3. queue' = [queue EXCEPT ![n] = queue'[n]] /\ queue'[n] = Tail(queue[n])
    BY <1>1 DEF GetChunk, VoiceTypeOK
  <2>4. speak' = [speak EXCEPT ![n] = speak'[n]] /\ speak'[n] \in Speaker
    <3>1. CASE Head(queue[n]) = None \/ Stale(n)
      <4>1. [speak[n] EXCEPT !.phase = "done"] \in Speaker
        BY PhaseTyped DEF Finished
      <4>2. QED
        BY <1>1, <3>1, <4>1 DEF GetChunk, Speaks, VoiceTypeOK
    <3>2. CASE ~(Head(queue[n]) = None \/ Stale(n))
      <4>1. [speak[n] EXCEPT !.phase = "synthesizing", !.chunk = Head(queue[n])] \in Speaker
        BY <2>2, <3>2, TurnKeeps DEF Speaker
      <4>2. speak' = [speak EXCEPT ![n] = [speak[n] EXCEPT !.phase = "synthesizing",
                                              !.chunk = Head(queue[n])]]
        BY <1>1, <3>2 DEF GetChunk, VoiceTypeOK
      <4>3. QED
        BY <4>1, <4>2 DEF VoiceTypeOK
    <3>3. QED
      BY <3>1, <3>2
  <2>5. QED
    BY <1>1, <2>2, <2>3, <2>4, TurnKeeps DEF GetChunk, OfTurn, sessionRecord
<1>2. CASE SkipChunk(n)
  <2>1. [speak[n] EXCEPT !.phase = "waiting"] \in Speaker
    BY PhaseTyped
  <2>2. speak' = [speak EXCEPT ![n] = speak'[n]] /\ speak'[n] \in Speaker
    BY <1>2, <2>1 DEF SkipChunk, Speaks, VoiceTypeOK
  <2>3. QED
    BY <1>2, <2>2, TurnKeeps DEF SkipChunk, OfTurn, sessionRecord
<1>3. CASE SpeakChunk(n)
  <2>1. speak' = [speak EXCEPT ![n] = speak'[n]] /\ speak'[n] \in Speaker
    <3>1. PICK phase \in {"speaking", "raised"} : speak' = [speak EXCEPT ![n].phase = phase]
      BY <1>3 DEF SpeakChunk, Speaks
    <3>2. [speak[n] EXCEPT !.phase = phase] \in Speaker
      BY PhaseTyped
    <3>3. QED
      BY <3>1, <3>2 DEF VoiceTypeOK
  <2>2. heard' = [heard EXCEPT ![n] = heard'[n]] /\ heard'[n] \in Hearing
    <3>1. Append(heard[n].spoken, speak[n].chunk) \in Seq(Numbers)
      BY TurnKeeps DEF Hearing, Speaker
    <3>2. [heard[n] EXCEPT !.spoken = Append(@, speak[n].chunk)] \in Hearing
      BY <3>1, TurnKeeps DEF Hearing
    <3>3. QED
      BY <1>3, <3>2, TurnKeeps DEF SpeakChunk, VoiceTypeOK
  <2>3. QED
    BY <1>3, <2>1, <2>2, TurnKeeps DEF SpeakChunk, OfTurn
<1>4. CASE ChunkSpoken(n)
  <2>1. Append(speak[n].emitted, speak[n].chunk) \in Seq(Numbers)
    BY TurnKeeps DEF Speaker
  <2>2. [speak[n] EXCEPT !.phase = "waiting", !.emitted = Append(@, speak[n].chunk)] \in Speaker
    BY <2>1, TurnKeeps DEF Speaker
  <2>3. speak' = [speak EXCEPT ![n] = [speak[n] EXCEPT !.phase = "waiting",
                                          !.emitted = Append(@, speak[n].chunk)]]
    BY <1>4 DEF ChunkSpoken, VoiceTypeOK
  <2>4. speak' = [speak EXCEPT ![n] = speak'[n]] /\ speak'[n] \in Speaker
    BY <2>2, <2>3 DEF VoiceTypeOK
  <2>5. QED
    BY <1>4, <2>4, TurnKeeps DEF ChunkSpoken, OfTurn, sessionRecord
<1>5. QED
  BY <1>1, <1>2, <1>3, <1>4 DEF Speech

\* Whatever a turn's tasks do is done to that turn.
LEMMA StepIsOfTurn ==
  ASSUME VoiceTypeOK, NEW n \in Turns, Counted(n), SendProposal(n) \/ Turn(n) \/ Speech(n)
  PROVE  OfTurn(n)
BY StartIsOfTurn, ProducerIsOfTurn, PuttingIsOfTurn, JoinIsOfTurn, SpeechIsOfTurn DEF Turn

\* ... and what is known of the other turns stays.
LEMMA OthersKeep ==
  ASSUME VoiceTypeOK, NEW n \in Turns, OfTurn(n), NEW m \in Turns, m # n, TurnOK(m)
  PROVE  TurnOK(m)'
<1>1. /\ produce'[m] = produce[m] /\ speak'[m] = speak[m] /\ queue'[m] = queue[m]
      /\ heard'[m] = heard[m] /\ answering' = answering
      /\ <<"produce", m>> \in active' <=> <<"produce", m>> \in active
      /\ <<"speak", m>> \in active' <=> <<"speak", m>> \in active
  BY DEF VoiceTypeOK, OfTurn
<1>2. Untouched(m)' /\ Cancellable(m)' /\ Closing(m)'
  BY <1>1 DEF TurnOK, Untouched, Cancellable, Closing
<1>3. Said(m)'
  BY <1>1 DEF TurnOK, Said
<1>4. Ordered(m)'
  BY <1>1 DEF TurnOK, Ordered
<1>5. Counted(m)'
  BY <1>1 DEF TurnOK, Counted
<1>6. QED
  BY <1>2, <1>3, <1>4, <1>5 DEF TurnOK

\* No step of a turn's tasks begins a turn or forgets one.
LEMMA SessionKept ==
  ASSUME VoiceTypeOK, NEW n \in Turns, OfTurn(n), Session,
         produce[n].phase # "none" <=> produce'[n].phase # "none",
         active' # active => current = n
  PROVE  Session'
<1>1. Begun' = Begun
  <2>1. \A m \in Turns : produce'[m].phase # "none" <=> produce[m].phase # "none"
    BY DEF VoiceTypeOK, OfTurn
  <2>2. QED
    BY <2>1 DEF Begun
<1>2. UNCHANGED <<socket, handler, current, answering>>
  BY DEF OfTurn
<1>3. \A k \in active' : k[2] = current'
  BY <1>2 DEF OfTurn, Session
<1>4. QED
  BY <1>1, <1>2, <1>3 DEF Session

\* Whatever is cancelled, nothing is left that could write or speak; the one task
\* that goes on is of a turn that was cut off.
LEMMA CancelKeepsTurn ==
  ASSUME VoiceTypeOK, NEW n \in Turns, TurnOK(n), cancel_active_turn, heard' = heard,
         n \in answering.cutIn => n \in answering'.cutIn,
         produce[n].phase = "none" => n \notin answering'.cutIn,
         produce[n].phase # "none" /\ answering.latest # n => answering'.latest # n,
         <<"produce", n>> \in active => n \in answering'.cutIn \/ answering'.latest # n
  PROVE  TurnOK(n)'
<1> DEFINE listed == <<"produce", n>> \in active
           stops == listed /\ produce[n].phase \notin Ended /\ ~Outlives(n)
<1>1. /\ produce'[n] = IF stops THEN [NewProducer EXCEPT !.phase = "cancelled"] ELSE produce[n]
      /\ speak'[n] = IF Outlives(n) THEN [speak[n] EXCEPT !.phase = "done"]
                     ELSE IF <<"speak", n>> \in active /\ speak[n].phase \notin Ended
                          THEN [NewSpeaker EXCEPT !.phase = "cancelled"] ELSE speak[n]
      /\ queue'[n] = IF listed THEN <<>> ELSE queue[n]
      /\ active' = {}
  BY DEF cancel_active_turn
<1>2. Untouched(n) /\ Cancellable(n) /\ Closing(n) /\ Said(n) /\ Ordered(n) /\ Counted(n)
  BY DEF TurnOK
<1>3. produce[n] \in Producer /\ speak[n] \in Speaker /\ heard[n] \in Hearing
  BY TurnKeeps
<1>4. produce'[n].phase = IF stops THEN "cancelled" ELSE produce[n].phase
  BY <1>1 DEF NewProducer
<1>5. produce'[n].phase \notin Writing
  <2>1. produce[n].phase \in Writing => stops
    BY <1>2 DEF Cancellable, Outlives, Writing, Ended
  <2>2. QED
    BY <1>4, <2>1 DEF Writing
<1>6. speak'[n].phase \in Ended
  <2>1. CASE Outlives(n)
    BY <1>1, <1>3, <2>1 DEF Speaker, Ended
  <2>2. CASE ~Outlives(n)
    BY <1>1, <1>2, <2>2 DEF Cancellable, NewSpeaker, Ended
  <2>3. QED
    BY <2>1, <2>2
<1>7. produce'[n].phase = "none" => produce[n].phase = "none" /\ ~stops
  BY <1>4
<1>8. Untouched(n)'
  <2>1. produce'[n].phase # "created"
    BY <1>5 DEF Writing
  <2>2. CASE produce[n].phase = "none" /\ ~stops
    <3>1. heard[n] = Unheard /\ speak[n] = NewSpeaker /\ queue[n] = <<>>
          /\ produce[n] = [NewProducer EXCEPT !.phase = "none"]
      BY <1>2, <2>2 DEF Untouched
    <3>2. ~Outlives(n) /\ speak[n].phase = "none"
      BY <2>2, <3>1 DEF Outlives, NewSpeaker
    <3>3. speak'[n] = NewSpeaker /\ queue'[n] = <<>> /\ produce'[n] = produce[n]
      BY <1>1, <2>2, <3>1, <3>2 DEF Ended
    <3>4. n \notin answering'.cutIn
      BY <2>2
    <3>5. QED
      BY <2>2, <3>1, <3>3, <3>4 DEF Untouched
  <2>3. QED
    BY <1>7, <2>1, <2>2 DEF Untouched
<1>9. Cancellable(n)'
  <2>1. ASSUME produce'[n].phase = "joining"
        PROVE  n \in answering'.cutIn \/ answering'.latest # n
    <3>1. produce[n].phase = "joining"
      BY <1>4, <2>1
    <3>2. CASE listed
      BY <3>2
    <3>3. CASE ~listed
      BY <1>2, <3>1, <3>3 DEF Cancellable
    <3>4. QED
      BY <3>2, <3>3
  <2>2. QED
    BY <1>1, <1>5, <1>6, <2>1 DEF Cancellable
<1>10. Closing(n)'
  <2>1. ASSUME produce'[n].phase = "completing"
        PROVE  heard'[n].complete # None /\ n \in answering'.cutIn
    <3>1. produce[n].phase = "completing" /\ ~stops
      BY <1>4, <2>1
    <3>2. ~listed
      BY <3>1 DEF Outlives, Ended
    <3>3. QED
      BY <1>2, <3>1, <3>2 DEF Closing
  <2>2. heard'[n].complete # None => produce'[n].phase \in {"completing", "failing"} \cup Finished
    BY <1>2, <1>4 DEF Closing, Finished
  <2>3. QED
    BY <1>6, <2>1, <2>2 DEF Closing
<1>11. Said(n)'
  <2>1. ASSUME speak'[n].phase = "done", produce'[n].phase = "joining"
        PROVE  \/ heard'[n].spoken = speak'[n].emitted
               \/ /\ n \in answering'.cutIn \/ answering'.latest # n
                  /\ \E i \in Numbers : heard'[n].spoken = Append(speak'[n].emitted, i)
    <3>1. produce[n].phase = "joining"
      BY <1>4, <2>1
    <3>2. n \in answering'.cutIn \/ answering'.latest # n
      BY <1>9, <2>1, <1>1 DEF Cancellable
    <3>3. CASE Outlives(n)
      <4>1. speak'[n].emitted = speak[n].emitted
        BY <1>1, <1>3, <3>3 DEF Speaker
      <4>2. speak[n].phase \in {"waiting", "synthesizing", "speaking"}
        BY <1>3, <3>3 DEF Outlives, Ended, Speaker, Finished
      <4>3. speak[n].chunk \in Numbers
        BY <1>3 DEF Speaker
      <4>4. QED
        BY <1>2, <3>2, <4>1, <4>2, <4>3 DEF Said
    <3>4. CASE ~Outlives(n)
      <4>1. speak'[n] = speak[n]
        BY <1>1, <2>1, <3>4 DEF NewSpeaker
      <4>2. QED
        BY <1>2, <2>1, <3>1, <3>2, <4>1 DEF Said
    <3>5. QED
      BY <3>3, <3>4
  <2>2. QED
    BY <1>5, <1>6, <2>1 DEF Said, Ended
<1>12. Ordered(n)'
  <2>1. speak'[n].phase # "synthesizing"
    BY <1>6 DEF Ended
  <2>2. CASE listed
    BY <1>1, <1>5, <2>1, <2>2 DEF Ordered
  <2>3. CASE ~listed
    BY <1>1, <1>2, <1>5, <2>1, <2>3 DEF Ordered
  <2>4. QED
    BY <2>2, <2>3
<1>13. Counted(n)'
  BY <1>5 DEF Counted, Writing
<1>14. QED
  BY <1>8, <1>9, <1>10, <1>11, <1>12, <1>13 DEF TurnOK

LEMMA CancelKeepsBegun ==
  ASSUME VoiceTypeOK, cancel_active_turn
  PROVE  Begun' = Begun
<1>1. \A n \in Turns : produce'[n].phase = "none" <=> produce[n].phase = "none"
  BY DEF cancel_active_turn, NewProducer, Ended
<1>2. QED
  BY <1>1 DEF Begun

\* Turns are begun in order, so the next one is the one that is not begun.
LEMMA NextTurn ==
  ASSUME VoiceTypeOK, Session, NEW n \in Turns, n = Cardinality(Begun) + 1
  PROVE  n \notin Begun /\ 1..(n - 1) \subseteq Begun
<1>1. n \in Nat /\ n > 0 /\ Turns \subseteq Nat
  BY VoiceAssumption DEF Turns
<1>2. IsFiniteSet(Begun)
  <2>1. IsFiniteSet(Turns)
    BY VoiceAssumption, FS_Interval DEF Turns
  <2>2. QED
    BY <2>1, FS_Subset DEF Begun
<1>3. Cardinality(Begun) \in Nat
  BY <1>2, FS_CardinalityType
<1>4. n \notin Begun
  <2>1. SUFFICES ASSUME n \in Begun PROVE FALSE
    OBVIOUS
  <2>2. 1..n \in SUBSET Begun
    BY <2>1 DEF Session
  <2>3. Cardinality(1..n) <= Cardinality(Begun)
    BY <1>2, <2>2, FS_Subset
  <2>4. Cardinality(1..n) = n
    BY <1>1, FS_Interval
  <2>5. QED
    BY <1>3, <2>3, <2>4
<1>5. ASSUME NEW m \in 1..(n - 1), m \notin Begun
      PROVE  FALSE
  <2>1. m \in Nat /\ m > 0 /\ m < n
    BY <1>1, <1>5
  <2>2. \A k \in Begun : k < m
    <3>1. ASSUME NEW k \in Begun
          PROVE  k < m
      <4>1. k \in Nat
        BY <1>1 DEF Begun
      <4>2. m \notin 1..k
        BY <1>5 DEF Session
      <4>3. QED
        BY <2>1, <4>1, <4>2
    <3>2. QED
      BY <3>1
  <2>3. Begun \in SUBSET (1..(m - 1))
    <3>1. \A k \in Begun : k \in Nat /\ k > 0
      BY VoiceAssumption DEF Begun, Turns
    <3>2. QED
      BY <2>1, <2>2, <3>1
  <2>4. IsFiniteSet(1..(m - 1)) /\ Cardinality(1..(m - 1)) = m - 1
    <3>1. 1 \in Int /\ m - 1 \in Int /\ (1 > m - 1 => m - 1 = 0) /\ m - 1 - 1 + 1 = m - 1
      BY <2>1
    <3>2. QED
      BY <3>1, FS_Interval
  <2>5. Cardinality(Begun) <= m - 1
    BY <2>3, <2>4, FS_Subset
  <2>6. QED
    BY <1>3, <2>1, <2>5
<1>6. QED
  BY <1>4, <1>5

LEMMA VoiceInitKeepsInv == VoiceInit => VoiceTypeOK /\ VoiceIInv
<1> SUFFICES ASSUME VoiceInit PROVE VoiceTypeOK /\ VoiceIInv
  OBVIOUS
<1>1. Begun = {}
  BY DEF VoiceInit, Begun, NewProducer
<1>2. Session
  BY <1>1 DEF VoiceInit, Session
<1>3. ASSUME NEW n \in Turns
      PROVE  TurnOK(n)
  <2>1. /\ produce[n] = NewProducer /\ speak[n] = NewSpeaker /\ queue[n] = <<>>
        /\ heard[n] = Unheard /\ active = {} /\ answering.cutIn = {}
    BY DEF VoiceInit
  <2>2. produce[n] = [NewProducer EXCEPT !.phase = produce[n].phase]
    BY <2>1 DEF NewProducer
  <2>3. Untouched(n) /\ Cancellable(n) /\ Closing(n)
    BY <2>1, <2>2 DEF Untouched, Cancellable, Closing, NewProducer, NewSpeaker, Unheard, Ended,
       Writing
  <2>4. Said(n) /\ Ordered(n) /\ Counted(n)
    BY <2>1 DEF Said, Ordered, Counted, NewProducer, NewSpeaker, Unheard, Writing
  <2>5. QED
    BY <2>3, <2>4 DEF TurnOK
<1>4. QED
  BY <1>2, <1>3, VoiceInitTyped DEF VoiceIInv

LEMMA QuietKeepsInv ==
  ASSUME VoiceTypeOK, VoiceIInv, Ready \/ Acknowledged \/ GreetingFails \/ ClientLeaves
  PROVE  VoiceIInv'
<1>1. UNCHANGED <<status, current, active, produce, speak, queue, heard, answering>>
  BY DEF Ready, Acknowledged, GreetingFails, ClientLeaves, sessionRecord, tasks
<1>2. Session'
  BY <1>1 DEF VoiceIInv, Session, Begun, Ready, Acknowledged, GreetingFails, ClientLeaves,
     SendFails, VoiceTypeOK
<1>3. ASSUME NEW n \in Turns
      PROVE  TurnOK(n)'
  <2>1. TurnOK(n)
    BY DEF VoiceIInv
  <2>2. QED
    BY <1>1, <2>1 DEF TurnOK, Untouched, Cancellable, Closing, Said, Ordered, Counted
<1>4. QED
  BY <1>2, <1>3 DEF VoiceIInv

LEMMA CommitKeepsInv ==
  ASSUME VoiceTypeOK, VoiceIInv, NEW n \in Turns, Commit(n)
  PROVE  VoiceIInv'
<1>1. n \notin Begun /\ 1..(n - 1) \subseteq Begun
  BY NextTurn DEF Commit, VoiceIInv
<1>2. Begun' = Begun
  BY CancelKeepsBegun DEF Commit
<1>3. n # 0 /\ n # None
  BY VoiceAssumption DEF Turns
<1>4. answering'.latest = n /\ answering'.cutIn = answering.cutIn
  BY DEF Commit, VoiceTypeOK
<1>5. produce[n].phase = "none"
  BY <1>1 DEF Begun
<1>6. Session'
  <2>1. active' = {} /\ current' = n /\ handler' = "starting"
    BY DEF Commit, cancel_active_turn
  <2>2. n \notin answering.cutIn
    BY <1>5 DEF VoiceIInv, TurnOK, Untouched
  <2>3. \A m \in Begun : 1..m \subseteq Begun
    BY DEF VoiceIInv, Session
  <2>4. QED
    BY <1>1, <1>2, <1>3, <1>4, <2>1, <2>3 DEF Session
<1>7. ASSUME NEW m \in Turns
      PROVE  TurnOK(m)'
  <2>1. TurnOK(m)
    BY DEF VoiceIInv
  <2>2. <<"produce", m>> \in active => m # n
    <3>1. handler = "receiving" /\ Session
      BY DEF Commit, VoiceIInv
    <3>2. <<"produce", m>> \in active => m = current
      BY <3>1 DEF Session
    <3>3. current # n
      BY <1>1, <1>3, <3>1 DEF Session
    <3>4. QED
      BY <3>2, <3>3
  <2>3. produce[m].phase # "none" => m # n
    BY <1>5
  <2>4. cancel_active_turn /\ heard' = heard
    BY DEF Commit
  <2>5. produce[m].phase = "none" => m \notin answering.cutIn
    BY <2>1 DEF TurnOK, Untouched
  <2>6. QED
    BY <1>4, <2>1, <2>2, <2>3, <2>4, <2>5, CancelKeepsTurn
<1>8. QED
  BY <1>6, <1>7 DEF VoiceIInv

LEMMA InterruptKeepsInv ==
  ASSUME VoiceTypeOK, VoiceIInv, Interrupt
  PROVE  VoiceIInv'
<1>1. Begun' = Begun
  BY CancelKeepsBegun DEF Interrupt
<1>2. answering'.latest = answering.latest
      /\ answering'.cutIn = answering.cutIn \cup ({current} \cap Turns)
  BY DEF Interrupt, VoiceTypeOK
<1>3. handler = "receiving" /\ Session
  BY DEF Interrupt, VoiceIInv
<1>4. Session'
  <2>1. active' = {} /\ current' = current /\ handler' = "acknowledging"
    BY DEF Interrupt, cancel_active_turn
  <2>2. QED
    BY <1>1, <1>2, <1>3, <2>1 DEF Session
<1>5. ASSUME NEW m \in Turns
      PROVE  TurnOK(m)'
  <2>1. TurnOK(m)
    BY DEF VoiceIInv
  <2>2. <<"produce", m>> \in active => m = current
    BY <1>3 DEF Session
  <2>3. cancel_active_turn /\ heard' = heard
    BY DEF Interrupt
  <2>4. produce[m].phase = "none" => m \notin answering'.cutIn
    <3>1. produce[m].phase = "none" => m \notin answering.cutIn /\ m \notin Begun
      BY <2>1 DEF TurnOK, Untouched, Begun
    <3>2. current \in Begun \cup {0} /\ 0 \notin Turns
      BY <1>3 DEF Session, Turns
    <3>3. QED
      BY <1>2, <3>1, <3>2
  <2>5. QED
    BY <1>2, <2>1, <2>2, <2>3, <2>4, CancelKeepsTurn
<1>6. QED
  BY <1>4, <1>5 DEF VoiceIInv

LEMMA DisconnectKeepsInv ==
  ASSUME VoiceTypeOK, VoiceIInv, Disconnect
  PROVE  VoiceIInv'
<1>1. Begun' = Begun
  BY CancelKeepsBegun DEF Disconnect
<1>2. answering'.latest = None /\ answering'.cutIn = answering.cutIn
  BY DEF Disconnect, VoiceTypeOK
<1>3. Session'
  <2>1. active' = {} /\ current' = current /\ handler' = "closed" /\ socket' = "left"
    BY DEF Disconnect, cancel_active_turn
  <2>2. QED
    BY <1>1, <1>2, <2>1 DEF Session, VoiceIInv
<1>4. ASSUME NEW m \in Turns
      PROVE  TurnOK(m)'
  <2>1. TurnOK(m) /\ m # None
    BY VoiceAssumption DEF VoiceIInv, Turns
  <2>2. cancel_active_turn /\ heard' = heard
    BY DEF Disconnect
  <2>3. produce[m].phase = "none" => m \notin answering.cutIn
    BY <2>1 DEF TurnOK, Untouched
  <2>4. QED
    BY <1>2, <2>1, <2>2, <2>3, CancelKeepsTurn
<1>5. QED
  BY <1>3, <1>4 DEF VoiceIInv

LEMMA CreateTurnKeepsInv ==
  ASSUME VoiceTypeOK, VoiceIInv, CreateTurn
  PROVE  VoiceIInv'
<1>1. /\ handler = "starting" /\ Session
      /\ current \in Turns \ Begun /\ 1..(current - 1) \subseteq Begun
  BY DEF CreateTurn, VoiceIInv, Session
<1>2. /\ produce' = [produce EXCEPT ![current].phase = "created"]
      /\ active' = active \cup {<<"produce", current>>}
      /\ handler' = "receiving"
      /\ UNCHANGED <<socket, status, current, speak, queue, heard, answering>>
  BY DEF CreateTurn
<1>3. \A m \in Turns : produce'[m] = IF m = current THEN [produce[m] EXCEPT !.phase = "created"]
                                     ELSE produce[m]
  BY <1>1, <1>2 DEF VoiceTypeOK
<1>4. produce'[current].phase = "created"
  BY <1>1, <1>3, TurnKeeps DEF Producer
<1>5. Begun' = Begun \cup {current}
  BY <1>1, <1>3, <1>4 DEF Begun
<1>6. Session'
  <2>1. \A n \in Begun' : 1..n \subseteq Begun'
    <3>1. 1..current \subseteq Begun'
      BY <1>1, <1>5, VoiceAssumption DEF Turns
    <3>2. QED
      BY <1>1, <1>5, <3>1 DEF Session
  <2>2. current # 0
    BY <1>1 DEF Turns
  <2>3. QED
    BY <1>1, <1>2, <1>5, <2>1, <2>2 DEF Session
<1>7. ASSUME NEW m \in Turns, m # current
      PROVE  TurnOK(m)'
  <2>1. TurnOK(m)
    BY DEF VoiceIInv
  <2>2. /\ produce'[m] = produce[m]
        /\ UNCHANGED <<speak, queue, heard, answering>>
        /\ <<"produce", m>> \in active' <=> <<"produce", m>> \in active
        /\ <<"speak", m>> \in active' <=> <<"speak", m>> \in active
    BY <1>2, <1>3, <1>7
  <2>3. QED
    BY <2>1, <2>2 DEF TurnOK, Untouched, Cancellable, Closing, Said, Ordered, Counted
<1>8. TurnOK(current)'
  <2>1. /\ produce[current].phase = "none" /\ TurnOK(current)
    BY <1>1 DEF VoiceIInv, Begun
  <2>2. /\ heard[current] = Unheard /\ speak[current] = NewSpeaker /\ queue[current] = <<>>
        /\ current \notin answering.cutIn
        /\ produce[current] = [NewProducer EXCEPT !.phase = "none"]
    BY <2>1 DEF TurnOK, Untouched
  <2>3. produce'[current] = [NewProducer EXCEPT !.phase = "created"]
    BY <1>1, <1>3, <2>2 DEF NewProducer
  <2>4. heard'[current'] = Unheard /\ speak'[current'] = NewSpeaker /\ queue'[current'] = <<>>
        /\ current' \notin answering'.cutIn /\ current' = current
        /\ produce'[current'].phase = "created"
        /\ produce'[current'] = [NewProducer EXCEPT !.phase = "created"]
        /\ <<"produce", current'>> \in active'
    BY <1>2, <1>4, <2>2, <2>3
  <2>5. Untouched(current)' /\ Cancellable(current)' /\ Closing(current)'
    BY <2>4 DEF Untouched, Cancellable, Closing, NewSpeaker, Unheard, Ended, Writing
  <2>6. Said(current)' /\ Ordered(current)' /\ Counted(current)'
    BY <2>4 DEF Said, Ordered, Counted, NewSpeaker, Unheard, Writing
  <2>7. QED
    BY <2>5, <2>6 DEF TurnOK
<1>9. ASSUME NEW m \in Turns PROVE TurnOK(m)'
  <2>1. CASE m = current
    BY <1>2, <1>8, <2>1
  <2>2. QED
    BY <1>7, <2>1
<1>10. QED
  BY <1>6, <1>9 DEF VoiceIInv

\* The parts of the invariant, for the steps of one turn.
LEMMA Parts ==
  ASSUME VoiceTypeOK, VoiceIInv, NEW n \in Turns
  PROVE  /\ Untouched(n) /\ Cancellable(n) /\ Closing(n) /\ Said(n) /\ Ordered(n) /\ Counted(n)
         /\ TurnOK(n) /\ Session
         /\ produce[n] \in Producer /\ speak[n] \in Speaker /\ heard[n] \in Hearing
         /\ queue[n] \in Seq(Numbers \cup {None})
BY TurnKeeps DEF VoiceIInv, TurnOK

LEMMA StartKeepsTurn ==
  ASSUME VoiceTypeOK, VoiceIInv, NEW n \in Turns, StartTurn(n)
  PROVE  TurnOK(n)' /\ n = current
<1>1. /\ produce'[n] = [produce[n] EXCEPT !.phase = "streaming"]
      /\ speak'[n] = [speak[n] EXCEPT !.phase = "waiting"]
      /\ active' = active \cup {<<"speak", n>>}
      /\ produce[n].phase = "created"
      /\ UNCHANGED <<queue, heard, answering>>
  BY DEF StartTurn, Produces, VoiceTypeOK
<1>2. /\ heard[n] = Unheard /\ speak[n] = NewSpeaker /\ queue[n] = <<>>
      /\ produce[n] = [NewProducer EXCEPT !.phase = "created"]
      /\ <<"produce", n>> \in active /\ n \notin answering.cutIn
  BY <1>1, Parts DEF Untouched, Cancellable, Writing
<1>3. /\ produce'[n].phase = "streaming" /\ produce'[n].next = 0
      /\ speak'[n].phase = "waiting" /\ speak'[n].emitted = <<>>
  BY <1>1, <1>2 DEF NewProducer, NewSpeaker
<1>4. heard'[n].complete = None /\ heard'[n].spoken = <<>> /\ queue'[n] = <<>>
  BY <1>1, <1>2 DEF Unheard
<1>5. Untouched(n)' /\ Cancellable(n)' /\ Closing(n)' /\ Said(n)' /\ Ordered(n)'
  BY <1>1, <1>2, <1>3, <1>4 DEF Untouched, Cancellable, Closing, Said, Ordered, Ended, Writing
<1>6. Counted(n)'
  <2>1. heard'[n].deltas * MaxCuts - produce'[n].next >= 0
    BY <1>1, <1>2, <1>3, VoiceAssumption DEF Unheard
  <2>2. QED
    BY <1>3, <2>1 DEF Counted
<1>7. n = current
  BY <1>2, Parts DEF Session
<1>8. QED
  BY <1>5, <1>6, <1>7 DEF TurnOK

\* Steps of the turn's task that do not touch what was spoken or what is to be.
LEMMA StreamKeepsTurn ==
  ASSUME VoiceTypeOK, VoiceIInv, NEW n \in Turns,
         produce[n].phase \in {"streaming", "adding"},
         produce'[n].phase \in Writing \cup {"failing"}, produce'[n].phase # "created",
         produce'[n].next = produce[n].next,
         UNCHANGED <<active, speak, queue, answering>>,
         heard'[n].spoken = heard[n].spoken, heard'[n].complete = heard[n].complete,
         Counted(n)'
  PROVE  TurnOK(n)'
<1>1. produce[n].phase \in Writing
  BY DEF Writing
<1>2. <<"produce", n>> \in active /\ n \notin answering.cutIn /\ heard[n].complete = None
  BY <1>1, Parts DEF Cancellable, Closing, Writing, Finished
<1>3. Untouched(n)' /\ Cancellable(n)' /\ Closing(n)'
  BY <1>1, <1>2, Parts DEF Untouched, Cancellable, Closing, Writing
<1>4. Said(n)'
  BY <1>1, Parts DEF Said
<1>5. Ordered(n)'
  BY <1>1, Parts DEF Ordered
<1>6. QED
  BY <1>3, <1>4, <1>5 DEF TurnOK

LEMMA WritingKeepsTurn ==
  ASSUME VoiceTypeOK, VoiceIInv, NEW n \in Turns,
         \/ SendProposal(n) \/ StreamRaises(n) \/ StreamYields(n) \/ add_token(n)
         \/ StreamEnds(n)
  PROVE  TurnOK(n)'
<1> DEFINE d == heard[n].deltas
           e == produce[n].next
<1>1. d \in Nat /\ e \in Nat /\ MaxCuts \in Nat
  BY VoiceAssumption, Parts DEF Hearing, Producer
<1>2. UNCHANGED <<active, speak, queue, answering>>
  BY DEF SendProposal, StreamRaises, StreamYields, add_token, StreamEnds, sessionRecord, tasks
<1>3. CASE SendProposal(n)
  <2>1. produce' = produce /\ produce[n].phase = "streaming"
    BY <1>3 DEF SendProposal, tasks
  <2>2. /\ heard'[n].spoken = heard[n].spoken /\ heard'[n].complete = heard[n].complete
        /\ heard'[n].deltas = heard[n].deltas
    BY <1>3, Parts DEF SendProposal, VoiceTypeOK, Hearing
  <2>3. Counted(n)'
    BY <2>1, <2>2, Parts DEF Counted
  <2>4. QED
    BY <1>2, <2>1, <2>2, <2>3, StreamKeepsTurn DEF Writing
<1>4. CASE StreamRaises(n)
  <2>1. /\ produce[n].phase = "streaming" /\ produce'[n].phase = "failing"
        /\ produce'[n].next = produce[n].next /\ heard' = heard
    BY <1>4, Parts DEF StreamRaises, Produces, VoiceTypeOK, Producer
  <2>2. Counted(n)'
    BY <2>1 DEF Counted
  <2>3. QED
    BY <1>2, <2>1, <2>2, StreamKeepsTurn DEF Writing
<1>5. CASE StreamYields(n)
  <2>1. produce[n].phase = "streaming" /\ d * MaxCuts - e >= 0
    BY <1>5, Parts DEF StreamYields, Counted
  <2>2. CASE produce' = [produce EXCEPT ![n].phase = "adding"]
             /\ heard' = [heard EXCEPT ![n].deltas = @ + 1]
    <3>1. /\ produce'[n].phase = "adding" /\ produce'[n].next = e
          /\ heard'[n].spoken = heard[n].spoken /\ heard'[n].complete = heard[n].complete
          /\ heard'[n].deltas = d + 1
      BY <2>2, Parts DEF VoiceTypeOK, Producer, Hearing
    <3>2. (d + 1) * MaxCuts - e >= MaxCuts
      <4> HIDE DEF d, e
      <4>1. (d + 1) * MaxCuts = d * MaxCuts + MaxCuts /\ d * MaxCuts \in Nat
        BY <1>1
      <4>2. QED
        BY <1>1, <2>1, <4>1
    <3>3. Counted(n)'
      BY <3>1, <3>2 DEF Counted
    <3>4. QED
      BY <1>2, <2>1, <3>1, <3>3, StreamKeepsTurn DEF Writing
  <2>3. ASSUME NEW phase \in {"closing", "failing"},
               produce' = [produce EXCEPT ![n].phase = phase], heard' = heard
        PROVE  TurnOK(n)'
    <3>1. produce'[n].phase = phase /\ produce'[n].next = e
      BY <2>3, Parts DEF VoiceTypeOK, Producer
    <3>2. Counted(n)'
      BY <3>1 DEF Counted
    <3>3. QED
      BY <1>2, <2>1, <2>3, <3>1, <3>2, StreamKeepsTurn DEF Writing
  <2>4. QED
    BY <1>5, <2>2, <2>3 DEF StreamYields, Produces
<1>6. CASE add_token(n)
  <2>1. PICK cuts \in 0..MaxCuts, rest \in BOOLEAN :
          produce' = [produce EXCEPT ![n].toPut = cuts, ![n].buffered = rest,
                         ![n].phase = IF cuts = 0 THEN "streaming" ELSE "putting"]
    BY <1>6 DEF add_token
  <2>2. /\ produce'[n].phase = IF cuts = 0 THEN "streaming" ELSE "putting"
        /\ produce'[n].next = e /\ produce'[n].toPut = cuts
        /\ produce[n].phase = "adding" /\ heard' = heard
    <3>1. produce'[n] = [produce[n] EXCEPT !.toPut = cuts, !.buffered = rest,
                            !.phase = IF cuts = 0 THEN "streaming" ELSE "putting"]
      BY <2>1 DEF VoiceTypeOK
    <3>2. produce[n] \in Producer
      BY Parts
    <3>3. QED
      BY <1>6, <3>1, <3>2 DEF Producer, add_token
  <2>3. d * MaxCuts - e >= MaxCuts
    BY <2>2, Parts DEF Counted
  <2>4. Counted(n)'
    <3>1. d * MaxCuts - e >= 0 /\ (cuts # 0 => cuts \in 1..(d * MaxCuts - e))
      <4>1. d * MaxCuts \in Nat
        BY <1>1
      <4> HIDE DEF d, e
      <4>2. QED
        BY <1>1, <2>3, <4>1
    <3>2. QED
      BY <2>2, <3>1 DEF Counted
  <2>5. produce'[n].phase \in {"streaming", "putting"}
    BY <2>2
  <2>6. QED
    BY <1>2, <2>2, <2>4, <2>5, StreamKeepsTurn DEF Writing
<1>7. CASE StreamEnds(n)
  <2>1. produce[n].phase = "streaming" /\ d * MaxCuts - e >= 0 /\ heard' = heard
    BY <1>7, Parts DEF StreamEnds, Counted
  <2>2. /\ produce'[n].phase = IF produce[n].buffered /\ ~Stale(n) THEN "tail" ELSE "closing"
        /\ produce'[n].toPut = IF produce[n].buffered THEN 1 ELSE 0
        /\ produce'[n].next = e
    BY <1>7, Parts DEF StreamEnds, VoiceTypeOK, Producer
  <2>3. Counted(n)'
    BY <2>1, <2>2 DEF Counted
  <2>4. produce'[n].phase \in {"tail", "closing"}
    BY <2>2
  <2>5. QED
    BY <1>2, <2>1, <2>2, <2>3, <2>4, StreamKeepsTurn DEF Writing
<1>8. QED
  BY <1>3, <1>4, <1>5, <1>6, <1>7

LEMMA PutKeepsTurn ==
  ASSUME VoiceTypeOK, VoiceIInv, NEW n \in Turns, PutChunk(n)
  PROVE  TurnOK(n)'
<1> DEFINE q == queue[n]
           e == produce[n].next
           room == heard[n].deltas * MaxCuts - e
<1>1. /\ produce[n].phase \in {"putting", "tail"}
      /\ queue'[n] = Append(q, e)
      /\ UNCHANGED <<active, speak, heard, answering>>
  BY DEF PutChunk, VoiceTypeOK, sessionRecord
<1>2. /\ produce'[n].next = e + 1 /\ produce'[n].toPut = produce[n].toPut - 1
      /\ produce'[n].phase = IF produce[n].phase = "tail" THEN "closing"
                             ELSE IF produce[n].toPut = 1 THEN "streaming" ELSE "putting"
  BY Parts DEF PutChunk, VoiceTypeOK, Producer
<1>3. produce'[n].phase \in {"closing", "streaming", "putting"}
  BY <1>2
<1>4. <<"produce", n>> \in active /\ n \notin answering.cutIn /\ heard[n].complete = None
  BY <1>1, Parts DEF Cancellable, Closing, Writing, Finished
<1>5. Untouched(n)' /\ Cancellable(n)' /\ Closing(n)'
  BY <1>1, <1>3, <1>4, Parts DEF Untouched, Cancellable, Closing, Writing
<1>6. Said(n)'
  BY <1>1, <1>3, Parts DEF Said, Writing
<1>7. e \in Nat /\ e \in Numbers /\ e # None /\ Numbers \subseteq Nat
  <2>1. e \in Nat /\ e \in Numbers
    BY <1>1, NextIsNumber, Parts DEF Producer
  <2>2. QED
    BY <2>1, VoiceAssumption DEF Numbers
<1>8. Ordered(n)'
  <2> DEFINE Q == Append(q, e)
  <2>1. /\ q \in Seq(Numbers \cup {None}) /\ Len(Q) = Len(q) + 1 /\ Len(q) \in Nat
        /\ \A j \in 1..Len(q) : Q[j] = q[j]
        /\ Q[Len(q) + 1] = e
        /\ \A j \in 1..Len(q) : q[j] \in Numbers \cup {None}
    BY Parts, <1>7
  <2>2. /\ \A i \in 1..Len(heard[n].spoken) : heard[n].spoken[i] < e
        /\ \A j \in 1..Len(q) : q[j] # None => q[j] < e
        /\ speak[n].phase = "synthesizing" => speak[n].chunk < e
        /\ \A i, j \in 1..Len(q) : i < j /\ q[i] # None /\ q[j] # None => q[i] < q[j]
        /\ \A i \in 1..Len(heard[n].spoken), j \in 1..Len(q) :
              q[j] # None => heard[n].spoken[i] < q[j]
        /\ speak[n].phase = "synthesizing" =>
              /\ \A i \in 1..Len(heard[n].spoken) : heard[n].spoken[i] < speak[n].chunk
              /\ \A j \in 1..Len(q) : q[j] # None => speak[n].chunk < q[j]
    BY <1>1, Parts DEF Ordered, Writing
  <2>3. \A i \in 1..Len(heard[n].spoken) : heard[n].spoken[i] \in Nat
    <3>1. heard[n].spoken \in Seq(Numbers)
      BY Parts DEF Hearing
    <3>2. \A i \in 1..Len(heard[n].spoken) : heard[n].spoken[i] \in Numbers
      BY <3>1
    <3>3. QED
      BY <1>7, <3>2
  <2>4. speak[n].chunk \in Nat
    BY <1>7, Parts DEF Speaker
  <2>5. \A j \in 1..Len(Q) : j = Len(q) + 1 \/ j \in 1..Len(q)
    BY <2>1
  <2> HIDE DEF q, e, Q
  <2>6. \A i, j \in 1..Len(Q) : i < j /\ Q[i] # None /\ Q[j] # None => Q[i] < Q[j]
    <3>1. SUFFICES ASSUME NEW i \in 1..Len(Q), NEW j \in 1..Len(Q), i < j, Q[i] # None,
                          Q[j] # None
                   PROVE  Q[i] < Q[j]
      OBVIOUS
    <3>2. i \in 1..Len(q)
      BY <2>1, <3>1
    <3>3. CASE j = Len(q) + 1
      BY <2>1, <2>2, <3>1, <3>2, <3>3
    <3>4. CASE j \in 1..Len(q)
      BY <2>1, <2>2, <3>1, <3>2, <3>4
    <3>5. QED
      BY <2>5, <3>3, <3>4
  <2>7. \A i \in 1..Len(heard[n].spoken), j \in 1..Len(Q) :
            Q[j] # None => heard[n].spoken[i] < Q[j]
    BY <2>1, <2>2, <2>5
  <2>8. speak[n].phase = "synthesizing" =>
            \A j \in 1..Len(Q) : Q[j] # None => speak[n].chunk < Q[j]
    BY <2>1, <2>2, <2>5
  <2>9. /\ \A i \in 1..Len(heard[n].spoken) : heard[n].spoken[i] < e + 1
        /\ \A j \in 1..Len(Q) : Q[j] # None => Q[j] < e + 1
        /\ speak[n].phase = "synthesizing" => speak[n].chunk < e + 1
    <3>1. \A k \in Nat : k < e => k < e + 1
      BY <1>7
    <3>2. \A j \in 1..Len(q) : q[j] # None => q[j] \in Nat
      BY <1>7, <2>1
    <3>3. e < e + 1
      BY <1>7
    <3>4. \A j \in 1..Len(Q) : Q[j] # None => Q[j] < e + 1
      BY <2>1, <2>2, <2>5, <3>1, <3>2, <3>3
    <3>5. QED
      BY <2>2, <2>3, <2>4, <3>1, <3>4
  <2>10. queue'[n] = Q /\ produce'[n].next = e + 1
    BY <1>1, <1>2 DEF Q
  <2>11. QED
    BY <1>1, <2>2, <2>6, <2>7, <2>8, <2>9, <2>10 DEF Ordered
<1>9. Counted(n)'
  <2>1. heard[n].deltas * MaxCuts \in Nat /\ heard[n].deltas \in Nat
    BY VoiceAssumption, Parts DEF Hearing
  <2>2. PICK d \in Nat : d = heard[n].deltas * MaxCuts
    BY <2>1
  <2>3. heard'[n].deltas * MaxCuts - produce'[n].next = d - (e + 1)
    BY <1>1, <1>2, <2>2
  <2>4. CASE produce[n].phase = "tail"
    BY <1>2, <2>4 DEF Counted
  <2>5. CASE produce[n].phase = "putting"
    <3>1. produce[n].toPut \in 1..(d - e)
      BY <2>2, <2>5, Parts DEF Counted
    <3>2. d - (e + 1) >= 0 /\ (produce[n].toPut # 1 => produce[n].toPut - 1 \in 1..(d - (e + 1)))
      <4> HIDE DEF e
      <4>1. QED
        BY <1>7, <3>1
    <3>3. produce'[n].phase \in {"streaming", "putting"}
          /\ (produce'[n].phase = "putting" => produce[n].toPut # 1)
      BY <1>2, <2>5
    <3>4. QED
      BY <1>2, <2>3, <3>2, <3>3 DEF Counted
  <2>6. QED
    BY <1>1, <2>4, <2>5
<1>10. QED
  BY <1>5, <1>6, <1>8, <1>9 DEF TurnOK

LEMMA SentinelKeepsTurn ==
  ASSUME VoiceTypeOK, VoiceIInv, NEW n \in Turns, PutSentinel(n)
  PROVE  TurnOK(n)'
<1> DEFINE q == queue[n]
<1>1. /\ produce[n].phase = "closing" /\ queue'[n] = Append(q, None)
      /\ UNCHANGED <<active, speak, heard, answering>>
  BY DEF PutSentinel, VoiceTypeOK, sessionRecord
<1>2. produce'[n].phase = "joining"
  BY Parts DEF PutSentinel, Produces, VoiceTypeOK, Producer
<1>3. <<"produce", n>> \in active /\ n \notin answering.cutIn /\ heard[n].complete = None
  BY <1>1, Parts DEF Cancellable, Closing, Writing, Finished
<1>4. Untouched(n)' /\ Cancellable(n)' /\ Closing(n)'
  BY <1>1, <1>2, <1>3, Parts DEF Untouched, Cancellable, Closing, Writing
<1>5. Said(n)'
  BY <1>1, <1>2, Parts DEF Said, Writing
<1>6. Ordered(n)'
  <2> DEFINE Q == Append(q, None)
  <2>1. /\ q \in Seq(Numbers \cup {None}) /\ Len(Q) = Len(q) + 1 /\ Len(q) \in Nat
        /\ \A j \in 1..Len(q) : Q[j] = q[j]
        /\ Q[Len(q) + 1] = None
    BY Parts
  <2>2. \A j \in 1..Len(Q) : Q[j] # None => j \in 1..Len(q)
    BY <2>1
  <2>3. queue'[n] = Q
    BY <1>1
  <2>4. Ordered(n) /\ produce'[n].phase \notin Writing
    BY <1>2, Parts DEF Writing
  <2> HIDE DEF q, Q
  <2>5. QED
    BY <1>1, <2>1, <2>2, <2>3, <2>4 DEF Ordered, q
<1>7. Counted(n)'
  BY <1>2 DEF Counted
<1>8. QED
  BY <1>4, <1>5, <1>6, <1>7 DEF TurnOK

\* A message that can still be sent in a turn's name is sent in the turn begun last.
LEMMA OpenIsLatest ==
  ASSUME VoiceTypeOK, VoiceIInv, NEW n \in Turns, ~Stale(n), Sends
  PROVE  answering.latest = n /\ current = n
<1>1. socket = "open" /\ current = n /\ n # 0
  BY DEF Stale, Sends, Turns
<1>2. handler \notin {"closed", "greeting"}
  BY <1>1 DEF VoiceIInv, Session
<1>3. QED
  BY <1>1, <1>2 DEF VoiceIInv, Session

LEMMA JoinKeepsTurn ==
  ASSUME VoiceTypeOK, VoiceIInv, NEW n \in Turns, Join(n)
  PROVE  TurnOK(n)'
<1>1. /\ produce[n].phase = "joining" /\ queue'[n] = <<>> /\ UNCHANGED <<active, answering>>
      /\ speak'[n] = [NewSpeaker EXCEPT !.phase = "done"]
  BY DEF Join, VoiceTypeOK, sessionRecord
<1>2. speak'[n].phase = "done"
  BY <1>1 DEF NewSpeaker
<1>3. heard[n].complete = None
  BY <1>1, Parts DEF Closing, Finished
<1>4. \/ produce'[n].phase \in {"failing", "done"} /\ heard' = heard
      \/ /\ produce'[n].phase = "completing" /\ ~Stale(n) /\ Sends
         /\ heard'[n].complete = speak[n].emitted
  <2>1. \/ Produces(n, "failing") /\ heard' = heard
        \/ Returns(n) /\ heard' = heard
        \/ /\ Produces(n, "completing") /\ ~Stale(n) /\ Sends
           /\ heard' = [heard EXCEPT ![n].complete = speak[n].emitted]
    BY DEF Join
  <2>2. CASE Produces(n, "failing") /\ heard' = heard
    BY <2>2, Parts DEF Produces, VoiceTypeOK, Producer
  <2>3. CASE Returns(n) /\ heard' = heard
    BY <2>3, Parts DEF Returns, VoiceTypeOK, NewProducer
  <2>4. CASE /\ Produces(n, "completing") /\ ~Stale(n) /\ Sends
             /\ heard' = [heard EXCEPT ![n].complete = speak[n].emitted]
    <3>1. heard'[n].complete = speak[n].emitted
      BY <2>4, Parts DEF VoiceTypeOK, Hearing
    <3>2. produce'[n].phase = "completing"
      BY <2>4, Parts DEF Produces, VoiceTypeOK, Producer
    <3>3. QED
      BY <2>4, <3>1, <3>2
  <2>5. QED
    BY <2>1, <2>2, <2>3, <2>4
<1>5. produce'[n].phase \in {"failing", "done", "completing"}
  BY <1>4
<1>6. Untouched(n)'
  BY <1>1, <1>5 DEF Untouched
<1>7. Cancellable(n)'
  <2>1. speak'[n].phase \in Ended /\ produce'[n].phase \notin Writing
        /\ produce'[n].phase # "joining"
    BY <1>2, <1>5 DEF Ended, Writing
  <2>2. QED
    BY <1>1, <2>1, Parts DEF Cancellable
<1>8. Closing(n)'
  <2>1. CASE produce'[n].phase \in {"failing", "done"} /\ heard' = heard
    BY <1>3, <2>1 DEF Closing
  <2>2. CASE /\ produce'[n].phase = "completing" /\ ~Stale(n) /\ Sends
             /\ heard'[n].complete = speak[n].emitted
    <3>1. speak[n].emitted # None
      <4>1. speak[n].emitted \in Seq(Numbers) /\ Numbers \subseteq Nat
        BY Parts DEF Speaker, Numbers
      <4>2. speak[n].emitted \in Seq(Nat)
        BY <4>1, SeqMonotonic
      <4>3. QED
        BY <4>2, VoiceAssumption
    <3>2. n \in answering.cutIn \/ <<"produce", n>> \in active
      BY <1>1, <2>2, OpenIsLatest, Parts DEF Cancellable
    <3>3. QED
      BY <1>1, <1>2, <2>2, <3>1, <3>2 DEF Closing, Ended
  <2>3. QED
    BY <1>4, <2>1, <2>2
<1>9. Said(n)'
  BY <1>2, <1>5 DEF Said, Writing
<1>10. Ordered(n)' /\ Counted(n)'
  BY <1>1, <1>2, <1>5 DEF Ordered, Counted, Writing
<1>11. QED
  BY <1>6, <1>7, <1>8, <1>9, <1>10 DEF TurnOK

LEMMA EndKeepsTurn ==
  ASSUME VoiceTypeOK, VoiceIInv, NEW n \in Turns, SendFinal(n) \/ SendError(n)
  PROVE  TurnOK(n)'
<1>1. /\ produce[n].phase \in {"completing", "failing"}
      /\ UNCHANGED <<active, speak, queue, answering>>
  BY DEF SendFinal, SendError, sessionRecord
<1>2. produce'[n].phase \in {"done", "failing"}
  BY Parts DEF SendFinal, SendError, Returns, Produces, VoiceTypeOK, Producer, NewProducer
<1>3. heard'[n].spoken = heard[n].spoken /\ heard'[n].complete = heard[n].complete
  BY Parts DEF SendFinal, SendError, VoiceTypeOK, Hearing
<1>4. Untouched(n)' /\ Cancellable(n)'
  BY <1>1, <1>2, Parts DEF Untouched, Cancellable, Writing
<1>5. Closing(n)'
  BY <1>1, <1>2, <1>3, Parts DEF Closing, Finished
<1>6. Said(n)' /\ Ordered(n)' /\ Counted(n)'
  BY <1>1, <1>2, <1>3, Parts DEF Said, Ordered, Counted, Writing
<1>7. QED
  BY <1>4, <1>5, <1>6 DEF TurnOK

\* A task that speaks is in a turn nobody cut in on, whose list is not closed.
LEMMA SpeaksAlive ==
  ASSUME VoiceTypeOK, VoiceIInv, NEW n \in Turns, speak[n].phase \notin Ended
  PROVE  /\ <<"speak", n>> \in active /\ <<"produce", n>> \in active
         /\ n \notin answering.cutIn /\ heard[n].complete = None
         /\ produce[n].phase \notin {"none", "created"}
<1>1. speak[n] # NewSpeaker
  BY DEF NewSpeaker, Ended
<1>2. QED
  BY <1>1, Parts DEF Cancellable, Closing, Untouched

LEMMA GetKeepsTurn ==
  ASSUME VoiceTypeOK, VoiceIInv, NEW n \in Turns, GetChunk(n)
  PROVE  TurnOK(n)'
<1> DEFINE q == queue[n]
           h == Head(q)
           spoken == heard[n].spoken
<1>1. /\ speak[n].phase = "waiting" /\ q # <<>> /\ queue'[n] = Tail(q)
      /\ UNCHANGED <<active, produce, heard, answering>>
  BY DEF GetChunk, VoiceTypeOK, sessionRecord
<1>2. /\ <<"speak", n>> \in active /\ <<"produce", n>> \in active
      /\ n \notin answering.cutIn /\ heard[n].complete = None
      /\ produce[n].phase \notin {"none", "created"}
  BY <1>1, SpeaksAlive DEF Ended
<1>3. speak'[n].emitted = speak[n].emitted
      /\ \/ speak'[n].phase = "done"
         \/ speak'[n].phase = "synthesizing" /\ h # None /\ speak'[n].chunk = h
  <2>1. CASE h = None \/ Stale(n)
    BY <2>1, Parts DEF GetChunk, Speaks, VoiceTypeOK, Speaker
  <2>2. CASE ~(h = None \/ Stale(n))
    <3>1. speak'[n] = [speak[n] EXCEPT !.phase = "synthesizing", !.chunk = h]
      BY <2>2 DEF GetChunk, VoiceTypeOK
    <3>2. speak[n] \in Speaker
      BY Parts
    <3> HIDE DEF h
    <3>3. QED
      BY <2>2, <3>1, <3>2 DEF Speaker
  <2>3. QED
    BY <2>1, <2>2
<1>4. Untouched(n)' /\ Cancellable(n)' /\ Closing(n)'
  <2>1. Untouched(n)'
    BY <1>1, <1>2 DEF Untouched
  <2>2. Cancellable(n)'
    BY <1>1, <1>2 DEF Cancellable
  <2>3. Closing(n)'
    BY <1>1, <1>2, Parts DEF Closing
  <2>4. QED
    BY <2>1, <2>2, <2>3
<1>5. Said(n)'
  BY <1>1, <1>3, Parts DEF Said
<1>6. Ordered(n)'
  <2> DEFINE Q == Tail(q)
  <2>1. /\ q \in Seq(Numbers \cup {None}) /\ Len(q) \in Nat /\ Len(q) > 0 /\ h = q[1]
        /\ Len(Q) = Len(q) - 1
        /\ \A j \in 1..Len(Q) : Q[j] = q[j + 1] /\ j + 1 \in 1..Len(q) /\ 1 < j + 1
        /\ 1 \in 1..Len(q)
    BY <1>1, Parts
  <2>2. /\ \A i, j \in 1..Len(q) : i < j /\ q[i] # None /\ q[j] # None => q[i] < q[j]
        /\ \A i \in 1..Len(spoken), j \in 1..Len(q) : q[j] # None => spoken[i] < q[j]
        /\ produce[n].phase \in Writing =>
              /\ \A i \in 1..Len(spoken) : spoken[i] < produce[n].next
              /\ \A j \in 1..Len(q) : q[j] # None => q[j] < produce[n].next
    BY Parts DEF Ordered
  <2>3. queue'[n] = Q /\ produce'[n] = produce[n] /\ heard'[n].spoken = spoken
    BY <1>1
  <2> HIDE DEF q, h, Q, spoken
  <2>4. \A i, j \in 1..Len(Q) : i < j => i + 1 < j + 1
    BY <2>1
  <2>5. \A i, j \in 1..Len(Q) : i < j /\ Q[i] # None /\ Q[j] # None => Q[i] < Q[j]
    BY <2>1, <2>2, <2>4
  <2>6. \A i \in 1..Len(spoken), j \in 1..Len(Q) : Q[j] # None => spoken[i] < Q[j]
    BY <2>1, <2>2
  <2>7. speak'[n].phase = "synthesizing" =>
           /\ \A i \in 1..Len(spoken) : spoken[i] < speak'[n].chunk
           /\ \A j \in 1..Len(Q) : Q[j] # None => speak'[n].chunk < Q[j]
           /\ produce[n].phase \in Writing => speak'[n].chunk < produce[n].next
    BY <1>3, <2>1, <2>2
  <2>8. produce[n].phase \in Writing =>
           \A j \in 1..Len(Q) : Q[j] # None => Q[j] < produce[n].next
    BY <2>1, <2>2
  <2>9. QED
    BY <2>2, <2>3, <2>5, <2>6, <2>7, <2>8 DEF Ordered
<1>7. Counted(n)'
  BY <1>1, Parts DEF Counted
<1>8. QED
  BY <1>4, <1>5, <1>6, <1>7 DEF TurnOK

LEMMA SpeechKeepsTurn ==
  ASSUME VoiceTypeOK, VoiceIInv, NEW n \in Turns,
         SkipChunk(n) \/ SpeakChunk(n) \/ ChunkSpoken(n)
  PROVE  TurnOK(n)'
<1> DEFINE q == queue[n]
           spoken == heard[n].spoken
           c == speak[n].chunk
<1>1. /\ speak[n].phase \in {"synthesizing", "speaking"}
      /\ UNCHANGED <<active, produce, queue, answering>>
  BY DEF SkipChunk, SpeakChunk, ChunkSpoken, sessionRecord
<1>2. /\ <<"speak", n>> \in active /\ <<"produce", n>> \in active
      /\ n \notin answering.cutIn /\ heard[n].complete = None
      /\ produce[n].phase \notin {"none", "created"}
  BY <1>1, SpeaksAlive DEF Ended
<1>3. heard'[n].complete = None /\ heard'[n].deltas = heard[n].deltas
  BY <1>2, Parts DEF SkipChunk, SpeakChunk, ChunkSpoken, VoiceTypeOK, Hearing
<1>4. Untouched(n)' /\ Cancellable(n)' /\ Closing(n)' /\ Counted(n)'
  <2>1. Untouched(n)'
    BY <1>1, <1>2 DEF Untouched
  <2>2. Cancellable(n)'
    BY <1>1, <1>2 DEF Cancellable
  <2>3. Closing(n)'
    BY <1>1, <1>2, <1>3, Parts DEF Closing
  <2>4. Counted(n)'
    BY <1>1, <1>3, Parts DEF Counted
  <2>5. QED
    BY <2>1, <2>2, <2>3, <2>4
<1>5. CASE SkipChunk(n)
  <2>1. /\ speak'[n].phase = "waiting" /\ speak'[n].emitted = speak[n].emitted
        /\ speak[n].phase = "synthesizing" /\ heard' = heard
    BY <1>5, Parts DEF SkipChunk, Speaks, VoiceTypeOK, Speaker
  <2>2. Said(n)'
    BY <1>1, <2>1, Parts DEF Said
  <2>3. Ordered(n)'
    BY <1>1, <2>1, Parts DEF Ordered
  <2>4. QED
    BY <1>4, <2>2, <2>3 DEF TurnOK
<1>6. CASE ChunkSpoken(n)
  <2>1. speak'[n] = [speak[n] EXCEPT !.phase = "waiting", !.emitted = Append(@, c)]
    BY <1>6 DEF ChunkSpoken, VoiceTypeOK
  <2>2. speak'[n].phase = "waiting" /\ speak'[n].emitted = Append(speak[n].emitted, c)
    BY <2>1, Parts DEF Speaker
  <2>3. speak[n].phase = "speaking" /\ heard' = heard
    BY <1>6 DEF ChunkSpoken
  <2>4. Said(n)'
    BY <2>2, <2>3, Parts DEF Said
  <2>5. Ordered(n)'
    BY <1>1, <2>2, <2>3, Parts DEF Ordered
  <2>6. QED
    BY <1>4, <2>4, <2>5 DEF TurnOK
<1>7. CASE SpeakChunk(n) /\ ~Sends
  <2>1. speak'[n].phase = "raised" /\ heard' = heard
    BY <1>7, Parts DEF SpeakChunk, Speaks, VoiceTypeOK, Speaker
  <2>2. Said(n)'
    BY <2>1 DEF Said
  <2>3. Ordered(n)'
    BY <1>1, <2>1, Parts DEF Ordered
  <2>4. QED
    BY <1>4, <2>2, <2>3 DEF TurnOK
<1>8. CASE SpeakChunk(n) /\ Sends
  <2>1. /\ speak[n].phase = "synthesizing" /\ speak'[n].phase = "speaking"
        /\ speak'[n].chunk = c /\ speak'[n].emitted = speak[n].emitted
    BY <1>8, Parts DEF SpeakChunk, Speaks, VoiceTypeOK, Speaker
  <2>2. heard'[n].spoken = Append(spoken, c)
    BY <1>8, Parts DEF SpeakChunk, VoiceTypeOK, Hearing
  <2>3. Said(n)'
    BY <2>1, <2>2, Parts DEF Said
  <2>4. Ordered(n)'
    <3> DEFINE S == Append(spoken, c)
    <3>1. spoken \in Seq(Numbers) /\ c \in Numbers
      BY Parts DEF Hearing, Speaker
    <3>2. \A i \in 1..Len(S) : (i \in 1..Len(spoken) /\ S[i] = spoken[i]) \/ S[i] = c
      BY <3>1
    <3>3. Ordered(n)
      BY Parts
    <3>4. heard'[n].spoken = S
      BY <2>2
    <3> HIDE DEF S, c, spoken
    <3>5. QED
      BY <1>1, <2>1, <3>2, <3>3, <3>4 DEF Ordered, c, spoken
  <2>5. QED
    BY <1>4, <2>3, <2>4 DEF TurnOK
<1>9. QED
  BY <1>5, <1>6, <1>7, <1>8

\* No step of a turn's tasks begins a turn or ends its having begun; and only the
\* current turn enters a task.
LEMMA TurnStaysBegun ==
  ASSUME VoiceTypeOK, VoiceIInv, NEW n \in Turns, SendProposal(n) \/ Turn(n) \/ Speech(n)
  PROVE  /\ produce[n].phase # "none" <=> produce'[n].phase # "none"
         /\ active' # active => current = n
<1>1. CASE StartTurn(n)
  <2>1. produce'[n].phase = "streaming" /\ produce[n].phase = "created"
    BY <1>1, Parts DEF StartTurn, Produces, VoiceTypeOK, Producer
  <2>2. QED
    BY <1>1, <2>1, StartKeepsTurn
<1>2. CASE SendProposal(n) \/ Speech(n)
  BY <1>2 DEF SendProposal, Speech, GetChunk, SkipChunk, SpeakChunk, ChunkSpoken, sessionRecord,
     tasks
<1>3. CASE StreamRaises(n) \/ StreamYields(n)
  BY <1>3, Parts DEF StreamRaises, StreamYields, Produces, VoiceTypeOK, Producer, sessionRecord
<1>4. CASE add_token(n) \/ StreamEnds(n) \/ PutChunk(n)
  <2>1. active' = active /\ produce[n].phase # "none"
    BY <1>4 DEF add_token, StreamEnds, PutChunk, sessionRecord
  <2>2. CASE add_token(n)
    <3>1. PICK cuts \in 0..MaxCuts, rest \in BOOLEAN :
             produce' = [produce EXCEPT ![n].toPut = cuts, ![n].buffered = rest,
                            ![n].phase = IF cuts = 0 THEN "streaming" ELSE "putting"]
      BY <2>2 DEF add_token
    <3>2. produce'[n] = [produce[n] EXCEPT !.toPut = cuts, !.buffered = rest,
                            !.phase = IF cuts = 0 THEN "streaming" ELSE "putting"]
      BY <3>1 DEF VoiceTypeOK
    <3>3. QED
      BY <2>1, <3>2, Parts DEF Producer
  <2>3. CASE StreamEnds(n)
    BY <2>1, <2>3, Parts DEF StreamEnds, VoiceTypeOK, Producer
  <2>4. CASE PutChunk(n)
    BY <2>1, <2>4, Parts DEF PutChunk, VoiceTypeOK, Producer
  <2>5. QED
    BY <1>4, <2>2, <2>3, <2>4
<1>5. CASE PutSentinel(n) \/ Join(n) \/ SendFinal(n) \/ SendError(n)
  BY <1>5, Parts DEF PutSentinel, Join, SendFinal, SendError, Produces, Returns, VoiceTypeOK,
     Producer, NewProducer, sessionRecord
<1>6. QED
  BY <1>1, <1>2, <1>3, <1>4, <1>5 DEF Turn

LEMMA TurnKeepsInv ==
  ASSUME VoiceTypeOK, VoiceIInv, NEW n \in Turns, SendProposal(n) \/ Turn(n) \/ Speech(n)
  PROVE  VoiceTypeOK' /\ VoiceIInv'
<1>1. OfTurn(n)
  BY Parts, StepIsOfTurn
<1>2. VoiceTypeOK'
  BY <1>1, TurnTyped
<1>3. Session'
  BY <1>1, Parts, TurnStaysBegun, SessionKept
<1>4. TurnOK(n)'
  BY StartKeepsTurn, WritingKeepsTurn, PutKeepsTurn, SentinelKeepsTurn, JoinKeepsTurn,
     EndKeepsTurn, GetKeepsTurn, SpeechKeepsTurn DEF Turn, Speech
<1>5. ASSUME NEW m \in Turns, m # n
      PROVE  TurnOK(m)'
  BY <1>1, <1>5, OthersKeep, Parts
<1>6. QED
  BY <1>2, <1>3, <1>4, <1>5 DEF VoiceIInv

LEMMA VoiceStepKeepsInv ==
  VoiceTypeOK /\ VoiceIInv /\ [VoiceNext]_voiceVars => VoiceTypeOK' /\ VoiceIInv'
<1> SUFFICES ASSUME VoiceTypeOK, VoiceIInv, [VoiceNext]_voiceVars
             PROVE  VoiceTypeOK' /\ VoiceIInv'
  OBVIOUS
<1>1. handler = "starting" => current \in Turns
  BY DEF VoiceIInv, Session
<1>2. CASE UNCHANGED voiceVars
  <2>1. VoiceTypeOK'
    BY <1>2 DEF voiceVars, sessionRecord, tasks, VoiceTypeOK
  <2>2. Session'
    BY <1>2 DEF voiceVars, sessionRecord, tasks, VoiceIInv, Session, Begun
  <2>3. ASSUME NEW n \in Turns PROVE TurnOK(n)'
    <3>1. TurnOK(n)
      BY DEF VoiceIInv
    <3>2. QED
      BY <1>2, <3>1 DEF voiceVars, sessionRecord, tasks, TurnOK, Untouched, Cancellable,
         Closing, Said, Ordered, Counted
  <2>4. QED
    BY <2>1, <2>2, <2>3 DEF VoiceIInv
<1>3. CASE Connection \/ Interrupt \/ Disconnect \/ ClientLeaves
  BY <1>1, <1>3, HandlerTyped, QuietKeepsInv, CreateTurnKeepsInv, InterruptKeepsInv,
     DisconnectKeepsInv DEF Connection
<1>4. ASSUME NEW n \in Turns, Commit(n)
      PROVE  VoiceTypeOK' /\ VoiceIInv'
  BY <1>1, <1>4, HandlerTyped, CommitKeepsInv
<1>5. QED
  BY <1>2, <1>3, <1>4, TurnKeepsInv DEF VoiceNext

\* What the connection, its session and its tasks know of each other holds always.
THEOREM VoiceInvariant == VoiceSpec => [](VoiceTypeOK /\ VoiceIInv)
BY VoiceInitKeepsInv, VoiceStepKeepsInv, PTL DEF VoiceSpec

------------------------------------------------------------------------------
(* The promise.                                                             *)

\* What the listener was told of a turn changes for that turn alone.
LEMMA HeardOf ==
  ASSUME VoiceTypeOK, NEW n \in Turns, OfTurn(n)
  PROVE  /\ answering' = answering
         /\ \A m \in Turns : m # n => heard'[m] = heard[m]
         /\ heard' \in [Turns -> Hearing] /\ heard \in [Turns -> Hearing]
BY TurnTyped DEF VoiceTypeOK, OfTurn

\* Steps in which nothing is sent that the promise is about.
LEMMA NothingTold ==
  ASSUME VoiceTypeOK, answering' = answering,
         \A n \in Turns : /\ heard'[n].deltas = heard[n].deltas
                          /\ heard'[n].spoken = heard[n].spoken
                          /\ heard'[n].complete = heard[n].complete
                          /\ heard'[n].final = heard[n].final
  PROVE  UNCHANGED Conversation!promiseVars
<1>1. UNCHANGED <<[n \in Turns |-> heard[n].deltas], [n \in Turns |-> heard[n].spoken],
                  [n \in Turns |-> heard[n].complete], {n \in Turns : heard[n].final}>>
  OBVIOUS
<1>2. QED
  BY <1>1 DEF Conversation!promiseVars

LEMMA YieldsKeepsPromise ==
  ASSUME VoiceTypeOK, VoiceIInv, NEW n \in Turns, StreamYields(n)
  PROVE  [Conversation!Next]_(Conversation!promiseVars)
<1>1. CASE heard' = heard
  BY <1>1, NothingTold DEF StreamYields
<1>2. CASE heard' # heard
  <2>1. ~Stale(n) /\ Sends /\ heard' = [heard EXCEPT ![n].deltas = @ + 1]
        /\ produce[n].phase = "streaming" /\ answering' = answering
    BY <1>2 DEF StreamYields
  <2>2. answering.latest = n /\ n \notin answering.cutIn /\ heard[n].complete = None
    BY <2>1, OpenIsLatest, Parts DEF Cancellable, Closing, Writing, Finished
  <2>3. \A m \in Turns : heard'[m] = IF m = n THEN [heard[m] EXCEPT !.deltas = @ + 1]
                                     ELSE heard[m]
    BY <2>1 DEF VoiceTypeOK
  <2>4. /\ heard'[n].deltas = heard[n].deltas + 1
        /\ heard'[n].spoken = heard[n].spoken
        /\ heard'[n].complete = heard[n].complete /\ heard'[n].final = heard[n].final
    BY <2>3, Parts DEF Hearing
  <2>5. [m \in Turns |-> heard[m].deltas]'
            = [[m \in Turns |-> heard[m].deltas] EXCEPT ![n] = @ + 1]
    BY <2>3, <2>4
  <2>6. UNCHANGED <<[m \in Turns |-> heard[m].spoken], [m \in Turns |-> heard[m].complete],
                    {m \in Turns : heard[m].final}>>
    BY <2>3, <2>4
  <2>7. Conversation!Write(n)
    BY <2>1, <2>2, <2>5, <2>6 DEF Conversation!Write, Conversation!Open
  <2>8. QED
    BY <2>7 DEF Conversation!Next
<1>3. QED
  BY <1>1, <1>2

LEMMA SpeaksKeepsPromise ==
  ASSUME VoiceTypeOK, VoiceIInv, NEW n \in Turns, SpeakChunk(n)
  PROVE  [Conversation!Next]_(Conversation!promiseVars)
<1> DEFINE c == speak[n].chunk
           spoken == heard[n].spoken
<1>1. CASE ~Sends
  BY <1>1, NothingTold DEF SpeakChunk
<1>2. CASE Sends
  <2>1. /\ ~Stale(n) /\ heard' = [heard EXCEPT ![n].spoken = Append(@, c)]
        /\ speak[n].phase = "synthesizing" /\ answering' = answering
    BY <1>2 DEF SpeakChunk
  <2>2. answering.latest = n /\ n \notin answering.cutIn /\ heard[n].complete = None
    BY <1>2, <2>1, OpenIsLatest, SpeaksAlive DEF Ended
  <2>3. \A m \in Turns : heard'[m] = IF m = n THEN [heard[m] EXCEPT !.spoken = Append(@, c)]
                                     ELSE heard[m]
    BY <2>1 DEF VoiceTypeOK
  <2>4. /\ heard'[n].deltas = heard[n].deltas
        /\ heard'[n].spoken = Append(spoken, c)
        /\ heard'[n].complete = heard[n].complete /\ heard'[n].final = heard[n].final
    BY <2>3, Parts DEF Hearing
  <2>5. [m \in Turns |-> heard[m].spoken]'
            = [[m \in Turns |-> heard[m].spoken] EXCEPT ![n] = Append(@, c)]
    BY <2>3, <2>4
  <2>6. UNCHANGED <<[m \in Turns |-> heard[m].deltas], [m \in Turns |-> heard[m].complete],
                    {m \in Turns : heard[m].final}>>
    BY <2>3, <2>4
  <2>7. c \in 0..MaxTokens * MaxCuts /\ spoken \in Seq(Numbers)
    BY Parts DEF Speaker, Hearing, Numbers
  <2>8. spoken = <<>> \/ c > spoken[Len(spoken)]
    <3>1. spoken # <<>> => Len(spoken) \in 1..Len(spoken)
      BY <2>7
    <3>2. \A i \in 1..Len(spoken) : spoken[i] < c
      BY <2>1, Parts DEF Ordered
    <3>3. spoken # <<>> => spoken[Len(spoken)] < c /\ spoken[Len(spoken)] \in Nat /\ c \in Nat
      BY <2>7, <3>1, <3>2, VoiceAssumption DEF Numbers
    <3> HIDE DEF c, spoken
    <3>4. QED
      BY <3>3
  <2>9. [m \in Turns |-> heard[m].spoken][n] = spoken
    OBVIOUS
  <2>10. PICK i \in 0..MaxTokens * MaxCuts : i = c
    BY <2>7
  <2>11. Conversation!Speak(n, i)
    BY <2>1, <2>2, <2>5, <2>6, <2>8, <2>9, <2>10 DEF Conversation!Speak, Conversation!Open
  <2>12. QED
    BY <2>11 DEF Conversation!Next
<1>3. QED
  BY <1>1, <1>2

LEMMA JoinKeepsPromise ==
  ASSUME VoiceTypeOK, VoiceIInv, NEW n \in Turns, Join(n)
  PROVE  [Conversation!Next]_(Conversation!promiseVars)
<1> DEFINE spoken == heard[n].spoken
           emitted == speak[n].emitted
<1>1. CASE heard' = heard
  BY <1>1, NothingTold DEF Join
<1>2. CASE heard' # heard
  <2>1. /\ ~Stale(n) /\ Sends /\ heard' = [heard EXCEPT ![n].complete = emitted]
        /\ speak[n].phase = "done" /\ produce[n].phase = "joining" /\ answering' = answering
    BY <1>2 DEF Join
  <2>2. answering.latest = n /\ heard[n].complete = None
    BY <2>1, OpenIsLatest, Parts DEF Closing, Finished
  <2>3. \A m \in Turns : heard'[m] = IF m = n THEN [heard[m] EXCEPT !.complete = emitted]
                                     ELSE heard[m]
    BY <2>1 DEF VoiceTypeOK
  <2>4. /\ heard'[n].deltas = heard[n].deltas /\ heard'[n].spoken = spoken
        /\ heard'[n].complete = emitted /\ heard'[n].final = heard[n].final
    BY <2>3, Parts DEF Hearing
  <2>5. [m \in Turns |-> heard[m].complete]'
            = [[m \in Turns |-> heard[m].complete] EXCEPT ![n] = emitted]
    BY <2>3, <2>4
  <2>6. UNCHANGED <<[m \in Turns |-> heard[m].deltas], [m \in Turns |-> heard[m].spoken],
                    {m \in Turns : heard[m].final}>>
    BY <2>3, <2>4
  <2>7. spoken \in Seq(Numbers) /\ emitted \in Seq(Numbers)
    BY Parts DEF Speaker, Hearing
  <2>8. \/ spoken = emitted
        \/ n \in answering.cutIn /\ \E i \in Numbers : spoken = Append(emitted, i)
    BY <2>1, <2>2, Parts DEF Said
  <2>9. \E missing \in IF n \in answering.cutIn THEN 0..1 ELSE {0} :
            /\ missing <= Len(spoken)
            /\ emitted = SubSeq(spoken, 1, Len(spoken) - missing)
    <3>1. CASE spoken = emitted
      <4>1. emitted = SubSeq(spoken, 1, Len(spoken) - 0) /\ 0 <= Len(spoken)
        BY <2>7, <3>1
      <4>2. QED
        BY <4>1
    <3>2. CASE n \in answering.cutIn /\ \E i \in Numbers : spoken = Append(emitted, i)
      <4>1. PICK i \in Numbers : spoken = Append(emitted, i)
        BY <3>2
      <4>2. emitted = SubSeq(spoken, 1, Len(spoken) - 1) /\ 1 <= Len(spoken)
        BY <2>7, <4>1
      <4>3. QED
        BY <3>2, <4>2
    <3>3. QED
      BY <2>8, <3>1, <3>2
  <2>10. [m \in Turns |-> heard[m].spoken][n] = spoken
         /\ [m \in Turns |-> heard[m].complete][n] = heard[n].complete
    OBVIOUS
  <2> HIDE DEF spoken, emitted
  <2>11. Conversation!Complete(n)
    <3>1. PICK missing \in IF n \in answering.cutIn THEN 0..1 ELSE {0} :
             missing <= Len(spoken) /\ emitted = SubSeq(spoken, 1, Len(spoken) - missing)
      BY <2>9
    <3>2. [m \in Turns |-> heard[m].complete]' = [[m \in Turns |-> heard[m].complete] EXCEPT
             ![n] = SubSeq([m \in Turns |-> heard[m].spoken][n], 1,
                           Len([m \in Turns |-> heard[m].spoken][n]) - missing)]
      BY <2>5, <2>10, <3>1
    <3>3. missing <= Len([m \in Turns |-> heard[m].spoken][n])
      BY <2>10, <3>1
    <3>4. answering.latest = n /\ [m \in Turns |-> heard[m].complete][n] = None
      BY <2>2, <2>10
    <3>5. QED
      BY <2>1, <2>6, <3>2, <3>3, <3>4 DEF Conversation!Complete
  <2>12. QED
    BY <2>11 DEF Conversation!Next
<1>3. QED
  BY <1>1, <1>2

LEMMA FinalKeepsPromise ==
  ASSUME VoiceTypeOK, VoiceIInv, NEW n \in Turns, SendFinal(n)
  PROVE  [Conversation!Next]_(Conversation!promiseVars)
<1>1. CASE ~Sends
  BY <1>1, NothingTold DEF SendFinal
<1>2. CASE Sends
  <2>1. /\ heard' = [heard EXCEPT ![n].final = TRUE] /\ socket = "open"
        /\ produce[n].phase = "completing" /\ answering' = answering
    BY <1>2 DEF SendFinal, Sends
  <2>2. heard[n].complete # None /\ (n \in answering.cutIn \/ <<"produce", n>> \in active)
    BY <2>1, Parts DEF Closing
  <2>3. answering.latest = n \/ (answering.latest # None /\ n \in answering.cutIn)
    <3>1. n \in Begun
      BY <2>1 DEF Begun
    <3>2. current # 0 /\ current # None
      <4>1. current # 0
        BY <3>1, Parts DEF Session
      <4>2. current \in Turns
        BY <4>1 DEF VoiceTypeOK
      <4>3. QED
        BY <4>1, <4>2, VoiceAssumption DEF Turns
    <3>3. handler \notin {"closed", "greeting"}
      BY <2>1, <3>2, Parts DEF Session
    <3>4. answering.latest = current
      BY <3>2, <3>3, Parts DEF Session
    <3>5. <<"produce", n>> \in active => current = n
      BY Parts DEF Session
    <3>6. QED
      BY <2>2, <3>2, <3>4, <3>5
  <2>4. \A m \in Turns : heard'[m] = IF m = n THEN [heard[m] EXCEPT !.final = TRUE]
                                     ELSE heard[m]
    BY <2>1 DEF VoiceTypeOK
  <2>5. /\ heard'[n].deltas = heard[n].deltas /\ heard'[n].spoken = heard[n].spoken
        /\ heard'[n].complete = heard[n].complete /\ heard'[n].final
    BY <2>4, Parts DEF Hearing
  <2>6. {m \in Turns : heard[m].final}' = {m \in Turns : heard[m].final} \cup {n}
    BY <2>4, <2>5
  <2>7. UNCHANGED <<[m \in Turns |-> heard[m].deltas], [m \in Turns |-> heard[m].spoken],
                    [m \in Turns |-> heard[m].complete]>>
    BY <2>4, <2>5
  <2>8. [m \in Turns |-> heard[m].complete][n] = heard[n].complete
    OBVIOUS
  <2>9. Conversation!Finish(n)
    BY <2>1, <2>2, <2>3, <2>6, <2>7, <2>8 DEF Conversation!Finish
  <2>10. QED
    BY <2>9 DEF Conversation!Next
<1>3. QED
  BY <1>1, <1>2

\* The steps of the connection's task are those of the listener.
LEMMA ListenerKeepsPromise ==
  ASSUME VoiceTypeOK, VoiceIInv,
         Connection \/ Interrupt \/ Disconnect \/ ClientLeaves \/ (\E n \in Turns : Commit(n))
  PROVE  [Conversation!Next]_(Conversation!promiseVars)
<1>1. UNCHANGED <<[n \in Turns |-> heard[n].deltas], [n \in Turns |-> heard[n].spoken],
                  [n \in Turns |-> heard[n].complete], {n \in Turns : heard[n].final}>>
  <2>1. heard' = heard
    BY DEF Connection, Ready, CreateTurn, Acknowledged, GreetingFails, Interrupt, Disconnect,
       ClientLeaves, Commit
  <2>2. QED
    BY <2>1
<1>2. CASE Ready \/ CreateTurn \/ Acknowledged \/ GreetingFails \/ ClientLeaves
  BY <1>1, <1>2 DEF Ready, CreateTurn, Acknowledged, GreetingFails, ClientLeaves,
     Conversation!promiseVars
<1>3. CASE Disconnect
  <2>1. answering'.latest = None /\ answering'.cutIn = answering.cutIn
    BY <1>3 DEF Disconnect, VoiceTypeOK
  <2>2. Conversation!Leave
    BY <1>1, <2>1 DEF Conversation!Leave
  <2>3. QED
    BY <2>2 DEF Conversation!Next
<1>4. CASE Interrupt
  <2>1. answering'.latest = answering.latest
        /\ answering'.cutIn = answering.cutIn \cup ({current} \cap Turns)
    BY <1>4 DEF Interrupt, VoiceTypeOK
  <2>2. answering.latest = IF current = 0 THEN None ELSE current
    BY <1>4 DEF Interrupt, VoiceIInv, Session
  <2>3. None \notin Turns /\ 0 \notin Turns
    BY VoiceAssumption DEF Turns
  <2>4. {current} \cap Turns = {answering.latest} \cap Turns
    BY <2>2, <2>3
  <2>5. Conversation!CutIn
    BY <1>1, <2>1, <2>4 DEF Conversation!CutIn
  <2>6. QED
    BY <2>5 DEF Conversation!Next
<1>5. ASSUME NEW n \in Turns, Commit(n)
      PROVE  [Conversation!Next]_(Conversation!promiseVars)
  <2>1. answering'.latest = n /\ answering'.cutIn = answering.cutIn
    BY <1>5 DEF Commit, VoiceTypeOK
  <2>2. produce[n].phase = "none"
    BY <1>5, NextTurn DEF Commit, VoiceIInv, Begun
  <2>3. heard[n].deltas = 0 /\ heard[n].spoken = <<>> /\ n \notin answering.cutIn
    <3>1. heard[n] = Unheard /\ n \notin answering.cutIn
      BY <2>2, Parts DEF Untouched
    <3>2. QED
      BY <3>1 DEF Unheard
  <2>4. [m \in Turns |-> heard[m].deltas][n] = 0 /\ [m \in Turns |-> heard[m].spoken][n] = <<>>
    BY <2>3
  <2>5. Conversation!Begin(n)
    BY <1>1, <2>1, <2>3, <2>4 DEF Conversation!Begin
  <2>6. QED
    BY <2>5 DEF Conversation!Next
<1>6. QED
  BY <1>2, <1>3, <1>4, <1>5 DEF Connection

LEMMA VoiceStepKeepsPromise ==
  VoiceTypeOK /\ VoiceIInv /\ [VoiceNext]_voiceVars
      => [Conversation!Next]_(Conversation!promiseVars)
<1> SUFFICES ASSUME VoiceTypeOK, VoiceIInv, [VoiceNext]_voiceVars
             PROVE  [Conversation!Next]_(Conversation!promiseVars)
  OBVIOUS
<1>1. CASE UNCHANGED voiceVars
  BY <1>1, NothingTold DEF voiceVars
<1>2. CASE Connection \/ Interrupt \/ Disconnect \/ ClientLeaves \/ (\E n \in Turns : Commit(n))
  BY <1>2, ListenerKeepsPromise
<1>3. ASSUME NEW n \in Turns, SendProposal(n) \/ Turn(n) \/ Speech(n)
      PROVE  [Conversation!Next]_(Conversation!promiseVars)
  <2>1. CASE SendProposal(n)
    <3>1. \A m \in Turns : heard'[m] = IF m = n THEN [heard[m] EXCEPT !.proposed = TRUE]
                                       ELSE heard[m]
      BY <2>1 DEF SendProposal, VoiceTypeOK
    <3>2. \A m \in Turns : heard[m] \in Hearing
      BY DEF VoiceTypeOK
    <3>3. QED
      BY <2>1, <3>1, <3>2, NothingTold DEF SendProposal, Hearing
  <2>2. CASE StartTurn(n) \/ StreamRaises(n) \/ add_token(n) \/ PutChunk(n) \/ StreamEnds(n)
             \/ PutSentinel(n) \/ SendError(n) \/ GetChunk(n) \/ SkipChunk(n) \/ ChunkSpoken(n)
    BY <2>2, NothingTold DEF StartTurn, StreamRaises, add_token, PutChunk, StreamEnds,
       PutSentinel, SendError, GetChunk, SkipChunk, ChunkSpoken
  <2>3. QED
    BY <1>3, <2>1, <2>2, YieldsKeepsPromise, SpeaksKeepsPromise, JoinKeepsPromise,
       FinalKeepsPromise DEF Turn, Speech
<1>4. QED
  BY <1>1, <1>2, <1>3 DEF VoiceNext

\* A listener who begins another turn, cuts in or leaves hears no more words and no
\* more speech of the turn before; a turn's chunks are spoken in order; and the list
\* that closes it names what was spoken, but for the chunk he cut in on.
THEOREM AlwaysKeepsConversationPromise == VoiceSpec => KeepsConversationPromise
<1>1. VoiceInit => Conversation!Init
  <2> SUFFICES ASSUME VoiceInit PROVE Conversation!Init
    OBVIOUS
  <2>1. answering.latest = None /\ answering.cutIn = {} /\ \A n \in Turns : heard[n] = Unheard
    BY DEF VoiceInit
  <2>2. QED
    BY <2>1 DEF Conversation!Init, Unheard
<1>2. QED
  BY <1>1, VoiceInvariant, VoiceStepKeepsPromise, PTL
     DEF VoiceSpec, KeepsConversationPromise, Conversation!Spec

------------------------------------------------------------------------------
(* The desk.                                                               *)

\* The owner's desk is its four parts side by side: what is proved of one part's
\* specification holds in every behaviour of the desk.
THEOREM DeskImplementsParts ==
    DeskSpec => SessionsSpec /\ VoiceSpec /\ SpeechSpec /\ EventsSpec
<1>1. DeskInit => SessionsInit /\ VoiceInit /\ SpeechInit /\ EventsInit
  BY DEF DeskInit
<1>2. [DeskNext]_deskVars => /\ [SessionsNext]_sessionVars /\ [VoiceNext]_voiceVars
                            /\ [SpeechNext]_speechVars /\ [EventsNext]_eventVars
  BY DEF DeskNext, deskVars
<1>3. QED
  BY <1>1, <1>2, PTL DEF DeskSpec, SessionsSpec, VoiceSpec, SpeechSpec, EventsSpec
==============================================================================
