----------------------------- MODULE MCServerHost -----------------------------
(* A small instance of ServerHost for TLC.                                 *)
EXTENDS ServerHost, TLC

CONSTANTS p1, p2, t1, t2, t3

Server == (t1 :> p1) @@ (t2 :> p1) @@ (t3 :> p2)

\* What the files hold and which of two requests comes first make no difference.
Alike == Permutations(Texts) \cup Permutations(Syncs)
=============================================================================
