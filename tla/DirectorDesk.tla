----------------------------- MODULE DirectorDesk -----------------------------
(***************************************************************************)
(* The owner's desk: his sessions and tickets, a voice connection, the     *)
(* transcription of his recordings and the live events on his desktop.     *)
(* The four share nothing: a connection is opened by a ticket and never    *)
(* asks for its session again, a transcript comes back to the browser,     *)
(* which sends it as it sends any text, and events are only shown.  So a   *)
(* behaviour follows one of them, and whatever can be said of one alone is *)
(* said of all.                                                            *)
(***************************************************************************)
EXTENDS DirectorSessions, DirectorVoice, DirectorSpeech, ExecutiveEvents

VARIABLE part   \* what a behaviour follows: "sessions", "voice", "speech" or "events"

deskVars == <<part, sessionVars, voiceVars, speechVars, eventVars>>

DeskInit ==
    /\ part \in {"sessions", "voice", "speech", "events"}
    /\ SessionsInit /\ VoiceInit /\ SpeechInit /\ EventsInit
    /\ part # "speech" => model = "none"

Follows(name) == part = name /\ UNCHANGED part

DeskNext ==
    \/ Follows("sessions") /\ SessionsNext /\ UNCHANGED <<voiceVars, speechVars, eventVars>>
    \/ Follows("voice") /\ VoiceNext /\ UNCHANGED <<sessionVars, speechVars, eventVars>>
    \/ Follows("speech") /\ SpeechNext /\ UNCHANGED <<sessionVars, voiceVars, eventVars>>
    \/ Follows("events") /\ EventsNext /\ UNCHANGED <<sessionVars, voiceVars, speechVars>>

\* Started tasks are resumed, the stream and the gateway answer, and that a client
\* has left is noticed; nobody has to speak, to interrupt or to leave.
DeskFairness ==
    LET OnlyVoice == part = "voice" /\ UNCHANGED <<part, sessionVars, speechVars, eventVars>>
    IN /\ WF_deskVars(Connection /\ OnlyVoice)
       /\ \A n \in Turns :
             /\ WF_deskVars(Turn(n) /\ OnlyVoice)
             /\ WF_deskVars(Speech(n) /\ OnlyVoice)

DeskSpec == DeskInit /\ [][DeskNext]_deskVars /\ DeskFairness
==============================================================================
