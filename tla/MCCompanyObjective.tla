-------------------------- MODULE MCCompanyObjective --------------------------
(* A small instance of CompanyObjective for TLC.                           *)
EXTENDS CompanyObjective, TLC

Alike == Permutations(Missions) \cup Permutations(Evidence)
==============================================================================
