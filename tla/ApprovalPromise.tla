--------------------------- MODULE ApprovalPromise ---------------------------
(***************************************************************************)
(* What human approval promises of protected work: each piece of work is   *)
(* decided at most once, a grant can be withdrawn, and an operation is     *)
(* performed only while its work is granted.                               *)
(***************************************************************************)
EXTENDS Naturals, Sequences

CONSTANT Works

VARIABLES
    asked,          \* work that waits for a decision
    granted, refused, withdrawn,
    performed       \* the work whose operations were performed, in order

promise == <<asked, granted, refused, withdrawn, performed>>

PromiseInit ==
    /\ asked = {} /\ granted = {} /\ refused = {} /\ withdrawn = {}
    /\ performed = <<>>

Ask(w) ==
    /\ w \notin asked \cup granted \cup refused \cup withdrawn
    /\ asked' = asked \cup {w}
    /\ UNCHANGED <<granted, refused, withdrawn, performed>>

Grant(w) ==
    /\ w \in asked
    /\ asked' = asked \ {w}
    /\ granted' = granted \cup {w}
    /\ UNCHANGED <<refused, withdrawn, performed>>

Refuse(w) ==
    /\ w \in asked
    /\ asked' = asked \ {w}
    /\ refused' = refused \cup {w}
    /\ UNCHANGED <<granted, withdrawn, performed>>

Withdraw(w) ==
    /\ w \in granted
    /\ granted' = granted \ {w}
    /\ withdrawn' = withdrawn \cup {w}
    /\ UNCHANGED <<asked, refused, performed>>

Perform(w) ==
    /\ w \in granted
    /\ performed' = Append(performed, w)
    /\ UNCHANGED <<asked, granted, refused, withdrawn>>

PromiseNext ==
    \E w \in Works : Ask(w) \/ Grant(w) \/ Refuse(w) \/ Withdraw(w) \/ Perform(w)

PromiseSpec == PromiseInit /\ [][PromiseNext]_promise
==============================================================================
