----------------------- MODULE MCEngineeringExecution -----------------------
(* Small instances of EngineeringExecution for TLC.                        *)
EXTENDS EngineeringExecution, TLC

Request(tool, network) == [tool |-> tool, network |-> network]

\* A command and a file tool that need approval, and one that does not.
InstallDeleteRead ==
    {Request("install", TRUE), Request("delete", FALSE), Request("read", FALSE)}

\* Calls overlap while one execution is still to begin, and approved ones always.
TwoAtOnce ==
    \/ Cardinality({e \in Executions : ~Over(e)}) <= 1
    \/ \E e \in Executions : Fresh(e)
    \/ \A e \in Executions : ~Over(e) => calls[e].source # None

Interchangeable == Permutations(Executions)
=============================================================================
