--------------------------- MODULE DirectorSessions ---------------------------
(***************************************************************************)
(* The owner's browser sessions and the tickets that open voice            *)
(* connections (director_auth_service.py, director_auth_repository.py).    *)
(* The rows are in PostgreSQL, several workers serve them, and each        *)
(* statement or commit of a transaction is a step.  A ticket's row is      *)
(* locked from the SELECT ... FOR UPDATE of a consumption, or from the     *)
(* UPDATE of a logout, to the end of the transaction; a session's row is   *)
(* read as it was committed last.                                          *)
(***************************************************************************)
EXTENDS FiniteSets

CONSTANTS
    Sessions,       \* browser sessions
    Tickets,        \* realtime tickets, by the request that asks for one
    Connections,    \* websockets that present a ticket
    Absent          \* no session, no ticket

ASSUME SessionsAssumption == Absent \notin Sessions \cup Tickets

VARIABLES
    sessions,   \* the rows of director_browser_sessions
    logouts,    \* of every session, the logout that is under way
    tickets,    \* the rows of director_realtime_tickets
    conns       \* the websockets

sessionVars == <<sessions, logouts, tickets, conns>>

NewSession == [state |-> "none", expired |-> FALSE]
NoLogout == [phase |-> "none", revoking |-> {}]
NewTicket == [state |-> "none", session |-> Absent, consumed |-> FALSE,
              revoked |-> FALSE, expired |-> FALSE]
NewConnection == [phase |-> "new", ticket |-> Absent, late |-> {}]

SessionsInit ==
    /\ sessions = [s \in Sessions |-> NewSession]
    /\ logouts = [s \in Sessions |-> NoLogout]
    /\ tickets = [t \in Tickets |-> NewTicket]
    /\ conns = [c \in Connections |-> NewConnection]

\* validate_session: the row is there, not revoked and not expired.
Valid(s) == sessions[s].state = "live" /\ ~sessions[s].expired

\* The identity was verified and is on the list; a session that cannot be stored
\* is no session.
create_session(s) ==
    /\ sessions[s].state = "none"
    /\ sessions' = [sessions EXCEPT ![s].state = "live"]
    /\ UNCHANGED <<logouts, tickets, conns>>

SessionExpires(s) ==
    /\ Valid(s)
    /\ sessions' = [sessions EXCEPT ![s].expired = TRUE]
    /\ UNCHANGED <<logouts, tickets, conns>>

------------------------------------------------------------------------------
(* POST /realtime-ticket.                                                   *)

\* The request is admitted: its session was valid when it was looked up.
TicketRequested(t, s) ==
    /\ tickets[t].state = "none"
    /\ Valid(s)
    /\ tickets' = [tickets EXCEPT ![t].state = "issuing", ![t].session = s]
    /\ UNCHANGED <<sessions, logouts, conns>>

\* The row is inserted, whatever became of the session since.
create_ticket(t) ==
    /\ tickets[t].state = "issuing"
    /\ \E outcome \in {"stored", "failed"} :
          tickets' = [tickets EXCEPT ![t].state = outcome]
    /\ UNCHANGED <<sessions, logouts, conns>>

TicketExpires(t) ==
    /\ tickets[t].state = "stored" /\ ~tickets[t].expired
    /\ tickets' = [tickets EXCEPT ![t].expired = TRUE]
    /\ UNCHANGED <<sessions, logouts, conns>>

------------------------------------------------------------------------------
(* consume_ticket: the first message of a websocket.                        *)

Consuming(c) == conns[c].phase \in {"checking", "committing"}

\* Mutant: the row is read without FOR UPDATE.
LockedByLogout(t) ==
    \E s \in Sessions : logouts[s].phase = "tickets" /\ t \in logouts[s].revoking

\* Another transaction holds the ticket's row.
Locked(t) ==
    \/ \E c \in Connections : conns[c].ticket = t /\ Consuming(c)
    \/ \E s \in Sessions : logouts[s].phase = "tickets" /\ t \in logouts[s].revoking

\* The time that decides on expiry is taken before the first statement.
Present(c, t) ==
    /\ conns[c].phase = "new"
    /\ tickets[t].state = "stored"
    /\ conns' = [conns EXCEPT ![c] =
                    [phase |-> "asking", ticket |-> t,
                     late |-> (IF tickets[t].expired THEN {"ticket"} ELSE {}) \cup
                              (IF sessions[tickets[t].session].expired
                               THEN {"session"} ELSE {})]]
    /\ UNCHANGED <<sessions, logouts, tickets>>

\* The answers of the first statement that refuse a ticket.
Unusable(c) ==
    LET t == conns[c].ticket
    IN tickets[t].consumed \/ tickets[t].revoked \/ "ticket" \in conns[c].late

ConsumeLocks(c) ==
    /\ conns[c].phase = "asking"
    /\ ~Locked(conns[c].ticket)
    /\ conns' = [conns EXCEPT ![c].phase = IF Unusable(c) THEN "refused" ELSE "checking"]
    /\ UNCHANGED <<sessions, logouts, tickets>>

\* The session as it is committed, read without a lock.
SessionStands(c) ==
    /\ sessions[tickets[conns[c].ticket].session].state = "live"
    /\ "session" \notin conns[c].late

ConsumeChecks(c) ==
    /\ conns[c].phase = "checking"
    /\ conns' = [conns EXCEPT ![c].phase = IF SessionStands(c) THEN "committing" ELSE "refused"]
    /\ UNCHANGED <<sessions, logouts, tickets>>

\* A commit whose answer is lost has used the ticket up and opens nothing.
ConsumeCommits(c) ==
    /\ conns[c].phase = "committing"
    /\ tickets' = [tickets EXCEPT ![conns[c].ticket].consumed = TRUE]
    /\ \E phase \in {"open", "refused"} : conns' = [conns EXCEPT ![c].phase = phase]
    /\ UNCHANGED <<sessions, logouts>>

\* Nothing was sent in time, nothing that is a ticket, or the database failed.
ConnectionRefused(c) ==
    /\ conns[c].phase \in {"new", "asking", "checking", "committing"}
    /\ conns' = [conns EXCEPT ![c].phase = "refused"]
    /\ UNCHANGED <<sessions, logouts, tickets>>

------------------------------------------------------------------------------
(* DELETE /session, one transaction of two statements.  A second logout of  *)
(* the same session would wait for the first one's row and change nothing.  *)

LogoutStarts(s) ==
    /\ Valid(s) /\ logouts[s].phase = "none"
    /\ logouts' = [logouts EXCEPT ![s].phase = "session"]
    /\ UNCHANGED <<sessions, tickets, conns>>

\* The tickets that are stored by now; those being consumed are waited for.
LogoutTickets(s) ==
    LET mine == {t \in Tickets : /\ tickets[t].state = "stored"
                                 /\ tickets[t].session = s /\ ~tickets[t].revoked}
    IN /\ logouts[s].phase = "session"
       /\ \A t \in mine : ~Locked(t)
       /\ logouts' = [logouts EXCEPT ![s] = [phase |-> "tickets", revoking |-> mine]]
       /\ UNCHANGED <<sessions, tickets, conns>>

LogoutCommits(s) ==
    /\ logouts[s].phase = "tickets"
    /\ sessions' = [sessions EXCEPT ![s].state = "revoked"]
    /\ tickets' = [t \in Tickets |->
                      IF t \in logouts[s].revoking
                      THEN [tickets[t] EXCEPT !.revoked = TRUE] ELSE tickets[t]]
    /\ logouts' = [logouts EXCEPT ![s] = NoLogout]
    /\ UNCHANGED conns

LogoutFails(s) ==
    /\ logouts[s].phase # "none"
    /\ logouts' = [logouts EXCEPT ![s] = NoLogout]
    /\ UNCHANGED <<sessions, tickets, conns>>

SessionsNext ==
    \/ \E s \in Sessions :
          \/ create_session(s) \/ SessionExpires(s)
          \/ LogoutStarts(s) \/ LogoutTickets(s) \/ LogoutCommits(s) \/ LogoutFails(s)
          \/ \E t \in Tickets : TicketRequested(t, s)
    \/ \E t \in Tickets : create_ticket(t) \/ TicketExpires(t)
    \/ \E c \in Connections :
          \/ \E t \in Tickets : Present(c, t)
          \/ ConsumeLocks(c) \/ ConsumeChecks(c) \/ ConsumeCommits(c)
          \/ ConnectionRefused(c)

SessionsSpec == SessionsInit /\ [][SessionsNext]_sessionVars

------------------------------------------------------------------------------
(* Properties                                                               *)

SessionsTypeOK ==
    /\ sessions \in [Sessions -> [state : {"none", "live", "revoked"}, expired : BOOLEAN]]
    /\ logouts \in [Sessions -> [phase : {"none", "session", "tickets"},
                                 revoking : SUBSET Tickets]]
    /\ tickets \in [Tickets -> [state : {"none", "issuing", "stored", "failed"},
                                session : Sessions \cup {Absent}, consumed : BOOLEAN,
                                revoked : BOOLEAN, expired : BOOLEAN]]
    /\ conns \in [Connections ->
                    [phase : {"new", "asking", "checking", "committing", "open", "refused"},
                     ticket : Tickets \cup {Absent}, late : SUBSET {"ticket", "session"}]]

Promise == INSTANCE TicketPromise WITH
    issued <- {p \in Tickets \X Sessions :
                  tickets[p[1]].state = "stored" /\ tickets[p[1]].session = p[2]},
    ended <- {s \in Sessions : sessions[s].state = "revoked"},
    admitted <- {p \in Connections \X Tickets :
                    conns[p[1]].phase = "committing" /\ conns[p[1]].ticket = p[2]},
    used <- {t \in Tickets : tickets[t].consumed},
    opened <- {c \in Connections : conns[c].phase = "open"}

\* However consumptions, requests for tickets and logouts overlap, a ticket opens
\* one connection at most, and one that looks the session up after the logout was
\* committed opens none, even with a ticket that was stored later.
KeepsTicketPromise == Promise!Spec
==============================================================================
