--------------------------- MODULE MCFinanceLedger ---------------------------
(* Small instances of FinanceLedger for TLC.                               *)
EXTENDS FinanceLedger, TLC

\* Calls of the executor are interchangeable, and so are missions.
Interchangeable == Permutations(Calls) \cup Permutations(Missions)

\* In half cents: nothing, less than a cent, one and three cents.
SmallAmounts == {0, 1, 2, 6}

==============================================================================
