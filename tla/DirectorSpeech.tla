---------------------------- MODULE DirectorSpeech ----------------------------
(***************************************************************************)
(* The transcription of the owner's recordings (director_speech_service.py *)
(* and whisper_stt_provider.py): requests on the event loop, and one       *)
(* thread that loads the model and transcribes, which nothing can          *)
(* interrupt.  A request writes its recording to a temporary file, the     *)
(* thread reads it, and whoever is last is to remove it.  Writing may fail *)
(* half way, and so may every removal, which is tried once.                *)
(***************************************************************************)
EXTENDS FiniteSets

CONSTANTS
    Recordings,     \* what the owner records, one request each
    NoJob           \* no transcription

ASSUME SpeechAssumption == NoJob \notin Recordings

VARIABLES
    model,      \* _load_future: "none", "loading", "loaded" or "failed"
    request,    \* of every recording, its request
    future,     \* of every recording, its job for the thread
    lane,       \* _transcription_future
    cleanup,    \* of every job, the files to remove when it ends
    files,      \* the recordings whose temporary file is there
    failures    \* history: those whose file could not be written or removed

speechVars == <<model, request, future, lane, cleanup, files, failures>>

SpeechInit ==
    /\ model \in {"none", "loading"}
    /\ request = [r \in Recordings |-> "none"]
    /\ future = [r \in Recordings |-> "none"]
    /\ lane = NoJob
    /\ cleanup = [r \in Recordings |-> {}]
    /\ files = {} /\ failures = {}

\* The thread is not done with the job; "returned" is a job whose result is set
\* and whose callbacks have still to run.
Running(r) == future[r] \in {"queued", "running"}
Done(r) == future[r] \in {"returned", "ended"}

\* unlink: a failure is logged, and the file stays.
Removes(paths) ==
    \E left \in SUBSET paths :
       /\ files' = (files \ paths) \cup left
       /\ failures' = failures \cup left

\* The request raises, and the service's finally clause removes the file.
Refuses(r) ==
    /\ request' = [request EXCEPT ![r] = "refused"]
    /\ Removes({r})
    /\ UNCHANGED <<future, lane>>

\* One transcription at a time; one that has returned makes room at once.
Submits(r) ==
    IF lane # NoJob /\ ~Done(lane)
    THEN Refuses(r)
    ELSE /\ request' = [request EXCEPT ![r] = "waiting"]
         /\ future' = [future EXCEPT ![r] = "queued"]
         /\ lane' = r
         /\ files' = files \cup {r}
         /\ UNCHANGED failures

\* temp_path is known once the file is written: what a failed write leaves, if it
\* came to a file at all, is removed by nobody.
WriteFails(r) ==
    /\ request[r] = "none"
    /\ request' = [request EXCEPT ![r] = "refused"]
    /\ \E left \in SUBSET {r} :
          files' = files \cup left /\ failures' = failures \cup left
    /\ UNCHANGED <<model, future, lane, cleanup>>

\* The first request starts to load the model if the start of the server did not;
\* a load that failed is not tried again.
transcribe(r) ==
    /\ request[r] = "none"
    /\ CASE model = "loaded" -> Submits(r) /\ UNCHANGED model
         [] model = "failed" -> Refuses(r) /\ UNCHANGED model
         [] OTHER -> /\ model' = "loading"
                     /\ request' = [request EXCEPT ![r] = "loading"]
                     /\ files' = files \cup {r}
                     /\ UNCHANGED <<future, lane, failures>>
    /\ UNCHANGED cleanup

LoadEnds ==
    /\ model = "loading"
    /\ model' \in {"loaded", "failed"}
    /\ UNCHANGED <<request, future, lane, cleanup, files, failures>>

\* What waited for the model goes on, or has waited too long.
LoadReturns(r) ==
    /\ request[r] = "loading" /\ model \in {"loaded", "failed"}
    /\ IF model = "loaded" THEN Submits(r) ELSE Refuses(r)
    /\ UNCHANGED <<model, cleanup>>

LoadTimesOut(r) ==
    /\ request[r] = "loading"
    /\ Refuses(r)
    /\ UNCHANGED <<model, cleanup>>

------------------------------------------------------------------------------
(* The thread.                                                              *)

Idle == \A r \in Recordings : future[r] \notin {"running", "returned"}

RunStarts(r) ==
    /\ future[r] = "queued" /\ Idle
    /\ future' = [future EXCEPT ![r] = "running"]
    /\ UNCHANGED <<model, request, lane, cleanup, files, failures>>

RunReturns(r) ==
    /\ future[r] = "running"
    /\ future' = [future EXCEPT ![r] = "returned"]
    /\ UNCHANGED <<model, request, lane, cleanup, files, failures>>

\* The job's callbacks: _finish_transcription, then the deferred removals.
RunEnds(r) ==
    /\ future[r] = "returned"
    /\ future' = [future EXCEPT ![r] = "ended"]
    /\ lane' = IF lane = r THEN NoJob ELSE lane
    /\ Removes(cleanup[r])
    /\ cleanup' = [cleanup EXCEPT ![r] = {}]
    /\ UNCHANGED <<model, request>>

------------------------------------------------------------------------------
(* The request again.                                                       *)

\* A transcript or a failure; the file is removed either way.
Answers(r) ==
    /\ request[r] = "waiting" /\ future[r] = "ended"
    /\ request' = [request EXCEPT ![r] = "answered"]
    /\ Removes({r})
    /\ UNCHANGED <<model, future, lane, cleanup>>

\* The timer has fired, and the request is to be resumed with STT_TIMEOUT.
TimesOut(r) ==
    /\ request[r] = "waiting"
    /\ request' = [request EXCEPT ![r] = "late"]
    /\ UNCHANGED <<model, future, lane, cleanup, files, failures>>

\* Mutant: the file is removed with the request.
DefersNothing(r) ==
    /\ request[r] = "late"
    /\ Refuses(r)
    /\ UNCHANGED <<model, cleanup>>

\* defer_cleanup_until_idle: the file is left to the job in the lane, which may
\* be another one by now; a job that has returned runs the removal at once.
Defers(r) ==
    /\ request[r] = "late"
    /\ request' = [request EXCEPT ![r] = "refused"]
    /\ IF lane = NoJob \/ Done(lane)
       THEN Removes({r}) /\ UNCHANGED cleanup
       ELSE cleanup' = [cleanup EXCEPT ![lane] = @ \cup {r}] /\ UNCHANGED <<files, failures>>
    /\ UNCHANGED <<model, future, lane>>

\* The request is cancelled with the server: finally removes the file, the thread
\* goes on.
Cancelled(r) ==
    /\ request[r] \in {"loading", "waiting", "late"}
    /\ request' = [request EXCEPT ![r] = "cancelled"]
    /\ Removes({r})
    /\ UNCHANGED <<model, future, lane, cleanup>>

SpeechNext ==
    \/ LoadEnds
    \/ \E r \in Recordings :
          \/ WriteFails(r) \/ transcribe(r) \/ LoadReturns(r) \/ LoadTimesOut(r)
          \/ RunStarts(r) \/ RunReturns(r) \/ RunEnds(r)
          \/ Answers(r) \/ TimesOut(r) \/ Defers(r) \/ Cancelled(r)

SpeechSpec == SpeechInit /\ [][SpeechNext]_speechVars

------------------------------------------------------------------------------
(* Properties                                                               *)

SpeechTypeOK ==
    /\ model \in {"none", "loading", "loaded", "failed"}
    /\ request \in [Recordings -> {"none", "loading", "waiting", "late", "answered",
                                   "refused", "cancelled"}]
    /\ future \in [Recordings -> {"none", "queued", "running", "returned", "ended"}]
    /\ lane \in Recordings \cup {NoJob}
    /\ cleanup \in [Recordings -> SUBSET Recordings]
    /\ files \subseteq Recordings /\ failures \subseteq Recordings

\* A recording is there for as long as the thread reads it, unless its request was
\* cancelled; and whenever one is there, a request or a job that has not ended is to
\* remove it, or writing it or a removal failed ("Delete a timed-out request file only
\* after native inference releases it.", whisper_stt_provider.py 309).
RecordingsKept ==
    /\ \A r \in Recordings : Running(r) => r \in files \/ request[r] = "cancelled"
    /\ \A r \in files \ failures :
          \/ request[r] \in {"loading", "waiting", "late"}
          \/ \E j \in Recordings : r \in cleanup[j] /\ future[j] # "ended"
==============================================================================
