--------------------------- MODULE MissionEvidence ---------------------------
(***************************************************************************)
(* The two judgements the mission engine passes on a piece of evidence:    *)
(* whether a specialist's artifact may close its delegation                *)
(* (process_delegation_completion) and whether what is in the lineage      *)
(* counts towards the success criterion of a mission that is to produce    *)
(* artifacts (MissionCompletionGuard; a mission that is to win clients     *)
(* counts outcome evidence instead).  They are written twice in the code,  *)
(* in different words: the invariant FinishedPlanCounts of MissionEngine   *)
(* relates the two.                                                        *)
(***************************************************************************)

\* app/schemas/evidence.py: the classifications after normalisation.
EvidenceSource ==
    {"LIVE_EXTERNAL", "MOCK_FALLBACK", "INTERNAL_FIXTURE",
     "USER_PROVIDED", "DATABASE_EXISTING", "UNKNOWN"}

PRODUCTION_SUCCESS_SOURCES ==
    {"LIVE_EXTERNAL", "USER_PROVIDED", "DATABASE_EXISTING"}

qualifies_for_production_success(source) ==
    source \in PRODUCTION_SUCCESS_SOURCES

VerificationModes ==
    {"STRUCTURAL_CANARY", "LIVE_EVIDENCE_CANARY",
     "QUALIFIED_LEAD_CANARY", "PRODUCTION_BUSINESS_SUCCESS"}

LiveModes == {"LIVE_EVIDENCE_CANARY", "QUALIFIED_LEAD_CANARY"}

(***************************************************************************)
(* What the engine looks at in an artifact: is it of the expected type and *)
(* verified, where does it come from, is it flagged as simulated (a flag   *)
(* the specialist may set itself), does it name a provider whose request   *)
(* succeeded, and is the business entity qualified.                        *)
(***************************************************************************)
ArtifactEvidence ==
    [typeOk : BOOLEAN, verified : BOOLEAN, source : EvidenceSource,
     simulation : BOOLEAN, provider : BOOLEAN, succeeded : BOOLEAN,
     qualified : BOOLEAN]

\* The four conditions of "live" evidence, spelled out at each use in the code.
LiveEvidence(ev) ==
    /\ ev.source = "LIVE_EXTERNAL"
    /\ ~ev.simulation
    /\ ev.provider
    /\ ev.succeeded

\* Mutant: the production modes ask nothing of the source.
AcceptsAnySource(mode, lead, ev) ==
    ev.typeOk /\ ev.verified /\ (mode \in LiveModes => LiveEvidence(ev))

\* process_delegation_completion: lead says that a LeadArtifact is expected.
AcceptsArtifact(mode, lead, ev) ==
    /\ ev.typeOk
    /\ ev.verified
    /\ mode \in LiveModes => LiveEvidence(ev)
    /\ lead /\ mode = "PRODUCTION_BUSINESS_SUCCESS" => LiveEvidence(ev)
    /\ lead /\ mode \in {"PRODUCTION_BUSINESS_SUCCESS", "QUALIFIED_LEAD_CANARY"}
           => ev.qualified
    /\ ~lead /\ mode = "PRODUCTION_BUSINESS_SUCCESS"
           => qualifies_for_production_success(ev.source)

\* MissionCompletionGuard.verified_success_evidence_ids, criterion
\* verified_artifacts.
CountsArtifact(mode, lead, ev) ==
    /\ ev.typeOk
    /\ ev.verified
    /\ ev.source # "UNKNOWN"
    /\ mode = "PRODUCTION_BUSINESS_SUCCESS" =>
           IF lead THEN LiveEvidence(ev) /\ ev.qualified
                   ELSE qualifies_for_production_success(ev.source)
    /\ mode \in LiveModes => LiveEvidence(ev)
    /\ mode = "QUALIFIED_LEAD_CANARY" => ev.qualified

==============================================================================
