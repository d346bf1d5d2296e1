--------------------------- MODULE MCMissionEngine ---------------------------
(* Small instances of MissionEngine for TLC.                               *)
EXTENDS MissionInvariant

\* What a specialist may return: good live evidence, mock evidence, a lead the
\* user gave, and a lead that is not qualified.
Live == [typeOk |-> TRUE, verified |-> TRUE, source |-> "LIVE_EXTERNAL",
         simulation |-> FALSE, provider |-> TRUE, succeeded |-> TRUE,
         qualified |-> TRUE]
Mock == [Live EXCEPT !.source = "MOCK_FALLBACK", !.simulation = TRUE]
UserGiven == [Live EXCEPT !.source = "USER_PROVIDED", !.provider = FALSE,
                          !.succeeded = FALSE, !.qualified = FALSE]
Unqualified == [Live EXCEPT !.qualified = FALSE]

LeadOrNot == {Live, Mock, UserGiven, Unqualified}
LiveOrMock == {Live, Mock}
Sourced == {"UNKNOWN", "LIVE_EXTERNAL"}
==============================================================================
