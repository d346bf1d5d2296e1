---------------------------- MODULE MCApprovalGate ----------------------------
(* Small instances of ApprovalGate for TLC.                                *)
EXTENDS ApprovalGate

Live == [typeOk |-> TRUE, verified |-> TRUE, source |-> "LIVE_EXTERNAL",
         simulation |-> FALSE, provider |-> TRUE, succeeded |-> TRUE,
         qualified |-> TRUE]
OnlyLive == {Live}
Sourced == {"LIVE_EXTERNAL"}
==============================================================================
