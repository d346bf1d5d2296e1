---------------------------- MODULE TicketPromise ----------------------------
(***************************************************************************)
(* What tickets promise the owner: a ticket opens one connection at most,  *)
(* and only one that was let in while the session the ticket was issued    *)
(* to had not been ended.                                                  *)
(***************************************************************************)
CONSTANTS Sessions, Tickets, Connections

VARIABLES
    issued,     \* pairs of a ticket and the session it was issued to
    ended,      \* the sessions that were ended
    admitted,   \* pairs of a connection that may open and its ticket
    used,       \* the tickets that are used up
    opened      \* the connections that were opened

promiseVars == <<issued, ended, admitted, used, opened>>

Init ==
    /\ issued = {} /\ ended = {} /\ admitted = {} /\ used = {} /\ opened = {}

\* A ticket may still be issued while its session is being ended.
Issue(t, s) ==
    /\ \A p \in issued : p[1] # t
    /\ issued' = issued \cup {<<t, s>>}
    /\ UNCHANGED <<ended, admitted, used, opened>>

End(s) ==
    /\ ended' = ended \cup {s}
    /\ UNCHANGED <<issued, admitted, used, opened>>

Admit(c, t) ==
    /\ \E s \in Sessions \ ended : <<t, s>> \in issued
    /\ t \notin used /\ c \notin opened
    /\ admitted' = admitted \cup {<<c, t>>}
    /\ UNCHANGED <<issued, ended, used, opened>>

Open(c, t) ==
    /\ <<c, t>> \in admitted
    /\ t \notin used
    /\ opened' = opened \cup {c}
    /\ used' = used \cup {t}
    /\ admitted' = admitted \ {<<c, t>>}
    /\ UNCHANGED <<issued, ended>>

\* The connection is refused after all; its ticket may be used up nevertheless.
Refuse(c, t) ==
    /\ <<c, t>> \in admitted
    /\ admitted' = admitted \ {<<c, t>>}
    /\ used' \in {used, used \cup {t}}
    /\ UNCHANGED <<issued, ended, opened>>

Next ==
    \/ \E t \in Tickets, s \in Sessions : Issue(t, s)
    \/ \E s \in Sessions : End(s)
    \/ \E c \in Connections, t \in Tickets : Admit(c, t) \/ Open(c, t) \/ Refuse(c, t)

Spec == Init /\ [][Next]_promiseVars
==============================================================================
