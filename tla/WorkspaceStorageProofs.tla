------------------------ MODULE WorkspaceStorageProofs ------------------------
(***************************************************************************)
(* What WorkspaceStorage keeps for any executions, paths and contents: the *)
(* stored digest is that of the rows, a reconcile reports the truth, the   *)
(* workspace is one history of versions (VersionedFiles), what the         *)
(* manifest refers to is in the bucket and what is there is known, or was  *)
(* superseded.                                                             *)
(***************************************************************************)
EXTENDS WorkspaceStorage, TLAPS

USE NoContentAssumption, OutlivingAssumption, NoFileAssumption, ReturnedAssumption

Undoing == {"deleting", "marking", "marking failed", "ended"}

\* What a call may know of its commit, and report, at each step.
Staged(c) ==
    /\ c.step \notin Undoing \cup {"committing", "recheck"} => c.server = "none"
    /\ c.step \notin Undoing => c.outcome = "none"
    /\ c.server = "sent" => c.step = "committing"
    /\ c.step = "recheck" => c.unsure
    /\ c.outcome \in {"conflict", "failed"} /\ ~c.unsure => c.server \in {"none", "refused"}

\* The version a commit that was done has made.
Made(c) ==
    c.server = "done" \/ c.outcome = "synced" =>
        /\ Len(versions) >= c.revision + 2
        /\ versions[c.revision + 2] = c.wanted

\* Every row is of an execution whose commit was done.
Committed(rows) ==
    \A p \in Paths : rows[p] # NoFile => calls[rows[p].by].server = "done"

StorageIInv ==
    /\ ManifestMatchesDigest
    /\ Committed(manifest)
    /\ \A e \in Executions :
          Staged(calls[e]) /\ Made(calls[e]) /\ Committed(calls[e].rows)

\* A step of one call that leaves the manifest alone: what it holds of the
\* history is what it held, the latest version, or none.
Moves(e) ==
    /\ UNCHANGED <<manifest, versions>>
    /\ calls' \in [Executions -> Call]
    /\ \A f \in Executions \ {e} : calls'[f] = calls[f]
    /\ Staged(calls'[e])
    /\ Made(calls'[e])
    /\ calls'[e].rows \in {calls[e].rows, manifest}
    /\ calls[e].server = "done" => calls'[e].server = "done"
    /\ HeldVersion(calls'[e]) \in {0, HeldVersion(calls[e]), Len(versions)}

------------------------------------------------------------------------------
(* The digest of the rows that a commit writes is the one it writes.       *)

LEMMA NewManifestIsWanted ==
  ASSUME StorageTypeOK, NEW e \in Executions
  PROVE  NewManifest(e) \in Manifest /\ digest_of(NewManifest(e)) = calls[e].wanted
<1>1. calls[e].wanted \in Digest /\ calls[e].rows \in Manifest
  BY DEF StorageTypeOK, Call
<1>2. \A p \in Paths : calls[e].wanted[p] \in Contents \cup {NoContent}
  BY <1>1 DEF Digest
<1>3. \A p \in Paths : calls[e].rows[p] \in Key \cup {NoFile}
  BY <1>1 DEF Manifest
<1>4. \A p \in Paths :
         calls[e].wanted[p] # NoContent => [by |-> e, content |-> calls[e].wanted[p]] \in Key
  BY <1>2 DEF Key
<1>5. NewManifest(e) \in Manifest
  BY <1>3, <1>4 DEF NewManifest, Manifest, Changed
<1>6. ASSUME NEW p \in Paths
      PROVE  digest_of(NewManifest(e))[p] = calls[e].wanted[p]
  <2>1. CASE calls[e].wanted[p] = NoContent
    BY <2>1 DEF NewManifest, digest_of
  <2>2. CASE p \in Changed(calls[e])
    <3>1. NewManifest(e)[p] = [by |-> e, content |-> calls[e].wanted[p]]
      BY <2>2 DEF NewManifest, Changed
    <3>2. NewManifest(e)[p] # NoFile
      BY <1>4, <2>2, <3>1 DEF Changed
    <3>3. QED
      BY <3>1, <3>2 DEF digest_of
  <2>3. CASE calls[e].wanted[p] # NoContent /\ p \notin Changed(calls[e])
    <3>1. NewManifest(e)[p] = calls[e].rows[p]
      BY <2>3 DEF NewManifest
    <3>2. digest_of(calls[e].rows)[p] = calls[e].wanted[p]
      BY <2>3 DEF Changed
    <3>3. QED
      BY <3>1, <3>2 DEF digest_of
  <2>4. QED
    BY <2>1, <2>2, <2>3 DEF Changed
<1>7. QED
  BY <1>1, <1>5, <1>6 DEF digest_of, Digest

LEMMA DigestIsTyped ==
  ASSUME NEW rows \in Manifest
  PROVE  digest_of(rows) \in Digest
<1>1. \A p \in Paths : rows[p] # NoFile => rows[p].content \in Contents
  BY DEF Manifest, Key
<1>2. QED
  BY <1>1 DEF digest_of, Digest

------------------------------------------------------------------------------
(* The steps of a call.                                                    *)

\* A call that goes on, is abandoned or ends: what it captured and wanted stays.
Altered(c, step, server, unsure, outcome) ==
    [c EXCEPT !.step = step, !.server = server, !.unsure = unsure, !.outcome = outcome]

LEMMA AlteredIsTyped ==
  ASSUME NEW c \in Call, NEW step \in Steps, NEW server \in Server,
         NEW unsure \in BOOLEAN, NEW outcome \in Outcomes
  PROVE  /\ Altered(c, step, server, unsure, outcome) \in Call
         /\ Altered(c, step, server, unsure, outcome).step = step
         /\ Altered(c, step, server, unsure, outcome).server = server
         /\ Altered(c, step, server, unsure, outcome).unsure = unsure
         /\ Altered(c, step, server, unsure, outcome).outcome = outcome
         /\ Altered(c, step, server, unsure, outcome).revision = c.revision
         /\ Altered(c, step, server, unsure, outcome).wanted = c.wanted
         /\ Altered(c, step, server, unsure, outcome).rows = c.rows
BY DEF Altered, Call

\* When a call may be altered so; what is given up is not held again.
Alters(e, step, server, unsure, outcome) ==
    /\ calls' = [calls EXCEPT ![e] = Altered(@, step, server, unsure, outcome)]
    /\ UNCHANGED <<manifest, versions>>
    /\ calls[e].step # "idle" /\ step \in Steps \ {"idle"}
    /\ server \in Server /\ unsure \in BOOLEAN /\ outcome \in Outcomes
    /\ step \notin Undoing \cup {"committing", "recheck"} => server = "none"
    /\ step \notin Undoing => outcome = "none"
    /\ server = "sent" => step = "committing"
    /\ step = "recheck" => unsure
    /\ outcome \in {"conflict", "failed"} /\ ~unsure => server \in {"none", "refused"}
    /\ server = "done" <=> calls[e].server = "done"
    /\ outcome = "synced" =>
          \/ calls[e].server = "done" \/ calls[e].outcome = "synced"
          \/ IsOwn(e)
    /\ \/ server \in {"done", "refused", "dropped"}
       \/ step = "ended" /\ server # "adrift"
       \/ /\ calls[e].server \notin {"done", "refused", "dropped"}
          /\ calls[e].step = "ended" => calls[e].server = "adrift"

LEMMA AlteredMoves ==
  ASSUME StorageIInv, NEW e \in Executions, NEW step, NEW server, NEW unsure, NEW outcome,
         Alters(e, step, server, unsure, outcome)
  PROVE  Moves(e)
<1> USE DEF Alters
<1> DEFINE c == Altered(calls[e], step, server, unsure, outcome)
<1>1. calls[e] \in Call /\ calls \in [Executions -> Call]
  BY DEF StorageIInv, ManifestMatchesDigest, StorageTypeOK
<1>2. /\ c \in Call /\ c.step = step /\ c.server = server /\ c.unsure = unsure
      /\ c.outcome = outcome /\ c.revision = calls[e].revision
      /\ c.wanted = calls[e].wanted /\ c.rows = calls[e].rows
  BY <1>1, AlteredIsTyped
<1>3. /\ calls' \in [Executions -> Call] /\ calls'[e] = c
      /\ \A f \in Executions \ {e} : calls'[f] = calls[f]
  BY <1>1, <1>2
<1> HIDE DEF c
<1>4. Staged(c)
  BY <1>2 DEF Staged
<1>5. Len(versions) \in Nat /\ calls[e].revision \in Nat
  BY <1>1 DEF Call, StorageIInv, ManifestMatchesDigest, StorageTypeOK
<1>6. Made(c)
  <2>1. CASE calls[e].server = "done" \/ calls[e].outcome = "synced"
    BY <1>2, <2>1 DEF StorageIInv, Made
  <2>2. CASE IsOwn(e)
    BY <1>2, <1>5, <2>2
    DEF Made, IsOwn, NextRevision, storage_revision, storage_manifest_sha256
  <2>3. QED
    BY <1>2, <2>1, <2>2 DEF Made
<1>7. HeldVersion(c) \in {0, HeldVersion(calls[e])}
  BY <1>2 DEF HeldVersion
<1>8. QED
  BY <1>2, <1>3, <1>4, <1>6, <1>7 DEF Moves, Made

\* The ways the actions write it.
LEMMA GotoAlters ==
  ASSUME StorageIInv, NEW e \in Executions, NEW step, Goto(e, step)
  PROVE  calls' = [calls EXCEPT ![e] =
             Altered(@, step, calls[e].server, calls[e].unsure, calls[e].outcome)]
<1>1. calls \in [Executions -> Call] /\ calls[e] \in Call
  BY DEF StorageIInv, ManifestMatchesDigest, StorageTypeOK
<1>2. Altered(calls[e], step, calls[e].server, calls[e].unsure, calls[e].outcome)
         = [calls[e] EXCEPT !.step = step]
  BY <1>1 DEF Altered, Call
<1>3. QED
  BY <1>1, <1>2 DEF Goto

LEMMA EndAlters ==
  ASSUME StorageIInv, NEW e \in Executions, NEW step, NEW outcome,
         calls' = [calls EXCEPT ![e].step = step, ![e].outcome = outcome]
  PROVE  calls' = [calls EXCEPT ![e] =
             Altered(@, step, calls[e].server, calls[e].unsure, outcome)]
<1>1. calls \in [Executions -> Call] /\ calls[e] \in Call
  BY DEF StorageIInv, ManifestMatchesDigest, StorageTypeOK
<1>2. Altered(calls[e], step, calls[e].server, calls[e].unsure, outcome)
         = [calls[e] EXCEPT !.step = step, !.outcome = outcome]
  BY <1>1 DEF Altered, Call
<1>3. QED
  BY <1>1, <1>2

LEMMA CallIsTyped ==
  ASSUME StorageIInv, NEW e \in Executions
  PROVE  /\ calls \in [Executions -> Call]
         /\ calls[e] \in Call /\ Staged(calls[e]) /\ Made(calls[e])
         /\ calls[e].step \in Steps /\ calls[e].server \in Server
         /\ calls[e].unsure \in BOOLEAN /\ calls[e].outcome \in Outcomes
BY DEF StorageIInv, ManifestMatchesDigest, StorageTypeOK, Call

\* A step on: nothing but the step changes, before or after a commit was sent.
LEMMA GotoMoves ==
  ASSUME StorageIInv, NEW e \in Executions, NEW step \in Steps \ {"idle", "recheck"},
         Goto(e, step), UNCHANGED <<manifest, versions>>,
         \/ /\ calls[e].step \notin Undoing \cup {"idle", "committing", "recheck"}
            /\ step \notin Undoing
         \/ calls[e].step \in Undoing \ {"ended"} /\ step \in Undoing
  PROVE  Moves(e)
<1>1. calls' = [calls EXCEPT ![e] =
          Altered(@, step, calls[e].server, calls[e].unsure, calls[e].outcome)]
  BY GotoAlters
<1>2. Alters(e, step, calls[e].server, calls[e].unsure, calls[e].outcome)
  BY <1>1, CallIsTyped DEF Alters, Staged, Undoing
<1>3. QED
  BY <1>2, AlteredMoves

\* The end of a call that has sent no commit.
LEMMA EndMoves ==
  ASSUME StorageIInv, NEW e \in Executions, NEW outcome \in Outcomes \ {"synced"},
         NEW step \in Undoing,
         calls' = [calls EXCEPT ![e].step = step, ![e].outcome = outcome],
         UNCHANGED <<manifest, versions>>,
         calls[e].step \notin Undoing \cup {"idle", "committing", "recheck"}
  PROVE  Moves(e)
<1>1. calls' = [calls EXCEPT ![e] =
          Altered(@, step, calls[e].server, calls[e].unsure, outcome)]
  BY EndAlters
<1>2. calls[e].server = "none"
  BY CallIsTyped DEF Staged
<1>3. Alters(e, step, calls[e].server, calls[e].unsure, outcome)
  BY <1>1, <1>2, CallIsTyped DEF Alters, Undoing, Steps
<1>4. QED
  BY <1>3, AlteredMoves

\* A call that learns something before it has sent a commit.
LEMMA LearningMoves ==
  ASSUME StorageIInv, NEW e \in Executions, NEW c \in Call,
         calls' = [calls EXCEPT ![e] = c], UNCHANGED <<manifest, versions>>,
         calls[e].step \notin Undoing \cup {"committing", "recheck"},
         c.step \notin {"idle", "recheck"}, c.server = "none",
         c.step \notin Undoing => c.outcome = "none",
         c.outcome # "synced",
         c.rows \in {calls[e].rows, manifest},
         \/ c.step = "ended"
         \/ c.revision = calls[e].revision /\ calls[e].step # "idle"
         \/ c.revision + 1 = Len(versions)
  PROVE  Moves(e)
<1>1. calls[e].server = "none"
  BY CallIsTyped DEF Staged
<1>2. Staged(c) /\ Made(c)
  BY DEF Staged, Made, Undoing
<1>3. HeldVersion(c) \in {0, HeldVersion(calls[e]), Len(versions)}
  BY <1>1 DEF HeldVersion, Undoing
<1>4. QED
  BY <1>1, <1>2, <1>3, CallIsTyped DEF Moves, Made

LEMMA CaptureMoves ==
  ASSUME StorageIInv, NEW e \in Executions,
         CaptureHead(e) \/ CaptureRows(e) \/ CaptureObjects(e)
  PROVE  Moves(e)
<1> USE DEF At
<1>1. /\ calls \in [Executions -> Call] /\ calls[e] \in Call
      /\ Staged(calls[e])
  BY CallIsTyped
<1>2. storage_revision \in Nat /\ storage_manifest_sha256 \in Digest /\ manifest \in Manifest
  BY DEF StorageIInv, ManifestMatchesDigest, StorageTypeOK, storage_revision,
         storage_manifest_sha256
<1>3. CASE CaptureHead(e)
  <2>1. PICK c : c = [calls[e] EXCEPT !.step = "captured head",
                                      !.revision = storage_revision,
                                      !.digest = storage_manifest_sha256]
    OBVIOUS
  <2>2. calls' = [calls EXCEPT ![e] = c]
    BY <1>1, <1>3, <2>1 DEF CaptureHead
  <2>3. c \in Call
    BY <1>1, <1>2, <2>1 DEF Call, Steps
  <2>4. /\ c.step = "captured head" /\ c.server = "none" /\ c.outcome = "none"
        /\ c.rows = calls[e].rows /\ c.revision = storage_revision
    BY <1>1, <1>3, <2>1 DEF CaptureHead, Staged, Undoing, Call
  <2>5. c.revision + 1 = Len(versions)
    <3>1. Len(versions) \in Nat
      BY DEF StorageIInv, ManifestMatchesDigest, StorageTypeOK
    <3>2. c.revision = Len(versions) - 1
      BY <2>4 DEF storage_revision
    <3>3. QED
      BY <3>1, <3>2
  <2>6. QED
    BY <1>3, <2>2, <2>3, <2>4, <2>5, LearningMoves DEF CaptureHead, database, Undoing
<1>4. CASE CaptureRows(e)
  <2>1. PICK c : c = [calls[e] EXCEPT !.step = "captured rows", !.rows = manifest]
    OBVIOUS
  <2>2. calls' = [calls EXCEPT ![e] = c]
    BY <1>1, <1>4, <2>1 DEF CaptureRows
  <2>3. c \in Call
    BY <1>1, <1>2, <2>1 DEF Call, Steps
  <2>4. /\ c.step = "captured rows" /\ c.server = "none" /\ c.outcome = "none"
        /\ c.rows = manifest /\ c.revision = calls[e].revision
    BY <1>1, <1>4, <2>1 DEF CaptureRows, Staged, Undoing, Call
  <2>5. QED
    BY <1>4, <2>2, <2>3, <2>4, LearningMoves DEF CaptureRows, database, Undoing
<1>5. CASE CaptureObjects(e)
  <2>1. UNCHANGED <<manifest, versions>> /\ calls[e].step = "captured rows"
    BY <1>5 DEF CaptureObjects, database
  <2>2. CASE Goto(e, "working")
    BY <2>1, <2>2, GotoMoves DEF Steps, Undoing
  <2>3. CASE End(e, "failed")
    BY <2>1, <2>3, EndMoves DEF End, Outcomes, Undoing
  <2>4. QED
    BY <1>5, <2>2, <2>3 DEF CaptureObjects
<1>6. QED
  BY <1>3, <1>4, <1>5

LEMMA ReconcileMoves ==
  ASSUME StorageIInv, NEW e \in Executions,
         ReconcileRows(e) \/ \E returned \in Returned : Reconcile(e, returned)
  PROVE  Moves(e)
<1> USE DEF At
<1>1. /\ calls \in [Executions -> Call] /\ calls[e] \in Call
      /\ Staged(calls[e])
  BY CallIsTyped
<1>2. manifest \in Manifest
  BY DEF StorageIInv, ManifestMatchesDigest, StorageTypeOK
<1>3. CASE ReconcileRows(e)
  <2>1. PICK c :
           /\ calls' = [calls EXCEPT ![e] = c]
           /\ \/ c = [calls[e] EXCEPT !.step = "ended", !.outcome = "unchanged",
                                      !.rows = manifest]
              \/ c = [calls[e] EXCEPT !.step = "planned", !.rows = manifest]
    BY <1>1, <1>3 DEF ReconcileRows
  <2>2. c \in Call
    BY <1>1, <1>2, <2>1 DEF Call, Steps, Outcomes
  <2>3. /\ c.server = "none" /\ c.rows = manifest /\ c.revision = calls[e].revision
        /\ \/ c.step = "ended" /\ c.outcome = "unchanged"
           \/ c.step = "planned" /\ c.outcome = "none"
    BY <1>1, <1>3, <2>1 DEF ReconcileRows, Staged, Undoing, Call
  <2>4. QED
    BY <1>3, <2>1, <2>2, <2>3, LearningMoves DEF ReconcileRows, database, Undoing
<1>4. ASSUME NEW returned \in Returned, Reconcile(e, returned)
      PROVE  Moves(e)
  <2>1. UNCHANGED <<manifest, versions>> /\ calls[e].step = "working"
    BY <1>4 DEF Reconcile, database
  <2>2. CASE End(e, "conflict")
    BY <2>1, <2>2, EndMoves DEF End, Outcomes, Undoing
  <2>3. CASE calls' = [calls EXCEPT ![e].step = "compared", ![e].wanted = returned]
    <3>1. PICK c : c = [calls[e] EXCEPT !.step = "compared", !.wanted = returned]
      OBVIOUS
    <3>2. calls' = [calls EXCEPT ![e] = c]
      BY <1>1, <2>3, <3>1
    <3>3. c \in Call
      BY <1>1, <3>1 DEF Call, Steps
    <3>4. /\ c.step = "compared" /\ c.server = "none" /\ c.outcome = "none"
          /\ c.rows = calls[e].rows /\ c.revision = calls[e].revision
      BY <1>1, <2>1, <3>1 DEF Staged, Undoing, Call
    <3>5. QED
      BY <2>1, <3>2, <3>3, <3>4, LearningMoves DEF Undoing
  <2>4. QED
    BY <1>4, <2>2, <2>3 DEF Reconcile
<1>5. QED
  BY <1>3, <1>4

LEMMA UploadMoves ==
  ASSUME StorageIInv, NEW e \in Executions,
         \/ RecordPending(e) \/ SendCommit(e)
         \/ \E k \in Key : Upload(e, k)
         \/ \E k \in Key, outcome \in {"failed", "cancelled", "crashed"} :
               GiveUpUpload(e, k, outcome)
  PROVE  Moves(e)
<1> USE DEF At
<1>1. /\ calls \in [Executions -> Call] /\ calls[e] \in Call
      /\ Staged(calls[e])
  BY CallIsTyped
<1>2. CASE RecordPending(e)
  <2>1. UNCHANGED <<manifest, versions>> /\ calls[e].step = "planned"
    BY <1>2 DEF RecordPending
  <2>2. CASE Goto(e, "uploading")
    BY <2>1, <2>2, GotoMoves DEF Steps, Undoing
  <2>3. CASE End(e, "failed")
    BY <2>1, <2>3, EndMoves DEF End, Outcomes, Undoing
  <2>4. QED
    BY <1>2, <2>2, <2>3 DEF RecordPending
<1>3. CASE SendCommit(e)
  <2>1. UNCHANGED <<manifest, versions>> /\ calls[e].step = "uploading"
    BY <1>3 DEF SendCommit, database
  <2>2. Altered(calls[e], "committing", "sent", calls[e].unsure, calls[e].outcome)
           = [calls[e] EXCEPT !.step = "committing", !.server = "sent"]
    BY <1>1 DEF Altered, Call
  <2>3. calls' = [calls EXCEPT ![e] =
            Altered(@, "committing", "sent", calls[e].unsure, calls[e].outcome)]
    BY <1>1, <1>3, <2>2 DEF SendCommit
  <2>4. Alters(e, "committing", "sent", calls[e].unsure, calls[e].outcome)
    BY <2>1, <2>3, CallIsTyped DEF Alters, Staged, Undoing, Steps, Server
  <2>5. QED
    BY <2>4, AlteredMoves
<1>4. ASSUME NEW k \in Key, Upload(e, k)
      PROVE  Moves(e)
  <2>1. PICK c : c = [calls[e] EXCEPT !.uploaded = calls[e].uploaded \cup {k.content}]
    OBVIOUS
  <2>2. calls' = [calls EXCEPT ![e] = c]
    BY <1>1, <1>4, <2>1 DEF Upload
  <2>3. c \in Call
    <3>1. k.content \in Contents
      BY DEF Key
    <3>2. QED
      BY <1>1, <2>1, <3>1 DEF Call
  <2>4. /\ c.step = "uploading" /\ c.server = "none" /\ c.outcome = "none"
        /\ c.rows = calls[e].rows /\ c.revision = calls[e].revision
    BY <1>1, <1>4, <2>1 DEF Upload, Staged, Undoing, Call
  <2>5. QED
    BY <1>4, <2>2, <2>3, <2>4, LearningMoves DEF Upload, database, Undoing
<1>5. ASSUME NEW k \in Key, NEW outcome \in {"failed", "cancelled", "crashed"},
             GiveUpUpload(e, k, outcome)
      PROVE  Moves(e)
  <2>1. UNCHANGED <<manifest, versions>> /\ calls[e].step = "uploading"
    BY <1>5 DEF GiveUpUpload, database
  <2>2. PICK step \in {"ended", "deleting"} :
           calls' = [calls EXCEPT ![e].outcome = outcome, ![e].step = step]
    BY <1>5 DEF GiveUpUpload
  <2>3. calls' = [calls EXCEPT ![e].step = step, ![e].outcome = outcome]
    BY <1>1, <2>2 DEF Call
  <2>4. QED
    BY <2>1, <2>3, EndMoves DEF Outcomes, Undoing
<1>6. QED
  BY <1>2, <1>3, <1>4, <1>5

\* An answer that is not waited for: the commit is done, undone, or adrift.
LEMMA AbandonedIsUnsent ==
  ASSUME StorageIInv, NEW e \in Executions, NEW server \in Abandoned(e)
  PROVE  /\ server \in Server \ {"sent"}
         /\ server = "done" <=> calls[e].server = "done"
         /\ \/ server = calls[e].server
            \/ calls[e].server = "sent" /\ server \in {"adrift", "dropped"}
BY CallIsTyped DEF Abandoned, Server

LEMMA CommittingMoves ==
  ASSUME StorageIInv, NEW e \in Executions,
         CommitReturns(e) \/ LoseAnswer(e) \/ Recheck(e)
  PROVE  Moves(e)
<1> USE DEF At
<1>1. /\ calls \in [Executions -> Call] /\ calls[e] \in Call
      /\ Staged(calls[e])
  BY CallIsTyped
<1>2. CASE CommitReturns(e)
  <2>1. UNCHANGED <<manifest, versions>> /\ calls[e].step = "committing"
    BY <1>2 DEF CommitReturns, database
  <2>2. PICK step, outcome :
           /\ calls' = [calls EXCEPT ![e].step = step, ![e].outcome = outcome]
           /\ \/ calls[e].server = "done" /\ step = "ended" /\ outcome = "synced"
              \/ calls[e].server = "refused" /\ step = "deleting" /\ outcome = "conflict"
    BY <1>2 DEF CommitReturns, End
  <2>3. calls' = [calls EXCEPT ![e] =
            Altered(@, step, calls[e].server, calls[e].unsure, outcome)]
    <3>1. Altered(calls[e], step, calls[e].server, calls[e].unsure, outcome)
             = [calls[e] EXCEPT !.step = step, !.outcome = outcome]
      BY <1>1 DEF Altered, Call
    <3>2. QED
      BY <1>1, <2>2, <3>1
  <2>4. Alters(e, step, calls[e].server, calls[e].unsure, outcome)
    BY <2>1, <2>2, <2>3, CallIsTyped DEF Alters, Undoing, Steps, Outcomes
  <2>5. QED
    BY <2>4, AlteredMoves
<1>3. CASE LoseAnswer(e)
  <2>1. UNCHANGED <<manifest, versions>> /\ calls[e].step = "committing"
    BY <1>3 DEF LoseAnswer, database
  <2>2. PICK server \in Abandoned(e) :
           calls' = [calls EXCEPT ![e].step = "recheck", ![e].server = server,
                                  ![e].unsure = TRUE]
    BY <1>3 DEF LoseAnswer
  <2>3. calls' = [calls EXCEPT ![e] =
            Altered(@, "recheck", server, TRUE, calls[e].outcome)]
    <3>1. Altered(calls[e], "recheck", server, TRUE, calls[e].outcome)
             = [calls[e] EXCEPT !.step = "recheck", !.server = server, !.unsure = TRUE]
      BY <1>1 DEF Altered, Call
    <3>2. QED
      BY <1>1, <2>2, <3>1
  <2>4. Alters(e, "recheck", server, TRUE, calls[e].outcome)
    BY <1>1, <2>1, <2>3, CallIsTyped, AbandonedIsUnsent DEF Alters, Staged, Undoing, Steps
  <2>5. QED
    BY <2>4, AlteredMoves
<1>4. CASE Recheck(e)
  <2>1. UNCHANGED <<manifest, versions>> /\ calls[e].step = "recheck" /\ calls[e].unsure
    BY <1>1, <1>4 DEF Recheck, database, Staged
  <2>2. PICK step, outcome :
           /\ calls' = [calls EXCEPT ![e].step = step, ![e].outcome = outcome]
           /\ \/ IsOwn(e) /\ step = "ended" /\ outcome = "synced"
              \/ step = "deleting" /\ outcome \in {"failed", "conflict"}
              \/ step = "ended" /\ outcome = "unknown"
    BY <1>4 DEF Recheck, End
  <2>3. calls' = [calls EXCEPT ![e] =
            Altered(@, step, calls[e].server, calls[e].unsure, outcome)]
    <3>1. Altered(calls[e], step, calls[e].server, calls[e].unsure, outcome)
             = [calls[e] EXCEPT !.step = step, !.outcome = outcome]
      BY <1>1 DEF Altered, Call
    <3>2. QED
      BY <1>1, <2>2, <3>1
  <2>4. Alters(e, step, calls[e].server, calls[e].unsure, outcome)
    BY <1>1, <2>1, <2>2, <2>3, CallIsTyped DEF Alters, Staged, Undoing, Steps, Outcomes
  <2>5. QED
    BY <2>4, AlteredMoves
<1>5. QED
  BY <1>2, <1>3, <1>4

LEMMA UndoingMoves ==
  ASSUME StorageIInv, NEW e \in Executions, DeletePlanned(e) \/ Mark(e) \/ MarkFailed(e)
  PROVE  Moves(e)
<1>1. UNCHANGED <<manifest, versions>> /\ calls[e].step \in Undoing \ {"ended"}
  BY DEF DeletePlanned, Mark, MarkFailed, At, database, Undoing
<1>2. PICK step \in Undoing : Goto(e, step)
  BY DEF DeletePlanned, Mark, MarkFailed, Undoing
<1>3. step \in Steps \ {"idle", "recheck"}
  BY DEF Undoing, Steps
<1>4. QED
  BY <1>1, <1>2, <1>3, GotoMoves

LEMMA StoppedMoves ==
  ASSUME StorageIInv, NEW e \in Executions, Cancel(e) \/ Crash(e)
  PROVE  Moves(e)
<1>1. /\ calls \in [Executions -> Call] /\ calls[e] \in Call
      /\ Staged(calls[e])
  BY CallIsTyped
<1>2. ASSUME NEW k \in Key, NEW outcome \in {"cancelled", "crashed"},
             GiveUpUpload(e, k, outcome)
      PROVE  Moves(e)
  BY <1>2, UploadMoves
<1>3. ASSUME calls[e].step \in {"captured head", "captured rows", "working",
                                "compared", "planned"},
             End(e, "cancelled"), UNCHANGED database
      PROVE  Moves(e)
  BY <1>3, EndMoves DEF End, Outcomes, Undoing, database
<1>4. ASSUME calls[e].step \in {"committing", "recheck"},
             NEW server \in Abandoned(e),
             calls' = [calls EXCEPT ![e].step = "deleting", ![e].server = server,
                                    ![e].unsure = TRUE, ![e].outcome = "cancelled"],
             UNCHANGED database
      PROVE  Moves(e)
  <2>1. calls' = [calls EXCEPT ![e] = Altered(@, "deleting", server, TRUE, "cancelled")]
    <3>1. Altered(calls[e], "deleting", server, TRUE, "cancelled")
             = [calls[e] EXCEPT !.step = "deleting", !.server = server,
                                !.unsure = TRUE, !.outcome = "cancelled"]
      BY DEF Altered
    <3>2. QED
      BY <1>1, <1>4, <3>1
  <2>2. Alters(e, "deleting", server, TRUE, "cancelled")
    BY <1>4, <2>1, CallIsTyped, AbandonedIsUnsent
    DEF Alters, Undoing, Steps, Outcomes, database
  <2>3. QED
    BY <2>2, AlteredMoves
<1>5. ASSUME calls[e].step \notin {"idle", "ended"},
             NEW server \in Abandoned(e),
             calls' = [calls EXCEPT
                 ![e].step = "ended", ![e].server = server,
                 ![e].outcome = IF @ = "none" THEN "crashed" ELSE @],
             UNCHANGED database
      PROVE  Moves(e)
  <2>1. PICK outcome \in Outcomes :
           outcome = IF calls[e].outcome = "none" THEN "crashed" ELSE calls[e].outcome
    BY CallIsTyped DEF Outcomes
  <2>2. calls' = [calls EXCEPT ![e] =
            Altered(@, "ended", server, calls[e].unsure, outcome)]
    <3>1. Altered(calls[e], "ended", server, calls[e].unsure, outcome)
             = [calls[e] EXCEPT !.step = "ended", !.server = server, !.outcome = outcome]
      BY <1>1 DEF Altered, Call
    <3>2. QED
      BY <1>1, <1>5, <2>1, <3>1 DEF Call
  <2>3. Alters(e, "ended", server, calls[e].unsure, outcome)
    BY <1>1, <1>5, <2>1, <2>2, CallIsTyped, AbandonedIsUnsent
    DEF Alters, Staged, Undoing, Steps, database
  <2>4. QED
    BY <2>3, AlteredMoves
<1>6. QED
  BY <1>2, <1>3, <1>4, <1>5 DEF Cancel, Crash

------------------------------------------------------------------------------
(* The steps keep the invariant.                                           *)

\* The database's other rows, the bucket, ages and the cleanup.
RestTyped ==
    /\ staged \in [Key -> RowStatus]
    /\ objects \subseteq Key /\ landing \subseteq Key
    /\ old \subseteq Executions /\ outlived \subseteq old
    /\ cleaner \in [step : {"idle", "deleting", "marking"}, keys : SUBSET Key]

LEMMA PlannedAreKeys ==
  ASSUME StorageTypeOK, NEW e \in Executions
  PROVE  Planned(e) \subseteq Key
<1>1. calls[e].wanted \in Digest
  BY DEF StorageTypeOK, Call
<1>2. \A p \in Paths : calls[e].wanted[p] # NoContent => calls[e].wanted[p] \in Contents
  BY <1>1 DEF Digest
<1>3. QED
  BY <1>2 DEF Planned, Changed, Key

LEMMA RestStaysTyped ==
  ASSUME StorageTypeOK, StorageNext
  PROVE  RestTyped'
<1> USE DEF StorageTypeOK, RestTyped
<1>1. CASE UNCHANGED <<staged, objects, landing, old, outlived, cleaner>>
  BY <1>1
<1>2. ASSUME NEW keys, NEW status \in RowStatus, SetRows(keys, status)
      PROVE  staged' \in [Key -> RowStatus]
  BY <1>2 DEF SetRows
<1>3. ASSUME NEW e \in Executions, Step(e) PROVE RestTyped'
  <2>1. CASE \/ CaptureHead(e) \/ CaptureRows(e) \/ CaptureObjects(e)
             \/ \E returned \in Returned : Reconcile(e, returned)
             \/ ReconcileRows(e) \/ SendCommit(e) \/ CommitReturns(e)
             \/ LoseAnswer(e) \/ Recheck(e)
    BY <1>1, <2>1
    DEF CaptureHead, CaptureRows, CaptureObjects, Reconcile, ReconcileRows, SendCommit,
        CommitReturns, LoseAnswer, Recheck, database, bucket, elsewhere
  <2>2. CASE RecordPending(e)
    BY <1>2, <2>2 DEF RecordPending, bucket, elsewhere, RowStatus
  <2>3. CASE \E k \in Key : Upload(e, k) \/ GiveUpUpload(e, k, "failed")
    BY <2>3 DEF Upload, GiveUpUpload, database, elsewhere
  <2>4. CASE DeletePlanned(e)
    BY <2>4 DEF DeletePlanned, database, elsewhere
  <2>5. CASE Mark(e) \/ MarkFailed(e)
    BY <1>2, <2>5 DEF Mark, MarkFailed, bucket, elsewhere, RowStatus
  <2>6. QED
    BY <1>3, <2>1, <2>2, <2>3, <2>4, <2>5 DEF Step
<1>4. ASSUME NEW e \in Executions, ServerCommits(e) PROVE RestTyped'
  <2>1. staged' \in [Key -> RowStatus]
    BY <1>2, <1>4 DEF ServerCommits, Switch, database, RowStatus
  <2>2. QED
    BY <1>4, <2>1 DEF ServerCommits, bucket, elsewhere
<1>5. ASSUME NEW e \in Executions, Cancel(e) \/ Crash(e) PROVE RestTyped'
  BY <1>5 DEF Cancel, Crash, GiveUpUpload, database, bucket, elsewhere
<1>6. ASSUME NEW e \in Executions, GrowOld(e) PROVE RestTyped'
  BY <1>6 DEF GrowOld, database, bucket
<1>7. ASSUME NEW k \in Key, UploadLands(k) PROVE RestTyped'
  BY <1>7 DEF UploadLands, database, elsewhere
<1>8. CASE CleanerReads
  <2>1. Abandonment \subseteq Key
    BY DEF Abandonment
  <2>2. QED
    BY <1>8, <2>1 DEF CleanerReads, database, bucket
<1>9. CASE CleanerDeletes
  BY <1>9 DEF CleanerDeletes, CleanerIdle, database
<1>10. CASE CleanerMarks
  BY <1>2, <1>10 DEF CleanerMarks, CleanerIdle, bucket, RowStatus
<1>11. QED
  BY <1>3, <1>4, <1>5, <1>6, <1>7, <1>8, <1>9, <1>10 DEF StorageNext

LEMMA MovesIsSound ==
  ASSUME StorageIInv, RestTyped', NEW e \in Executions, Moves(e)
  PROVE  StorageIInv'
<1>1. ManifestMatchesDigest'
  BY DEF StorageIInv, ManifestMatchesDigest, StorageTypeOK, RestTyped, Moves,
         storage_manifest_sha256, digest_of
<1>2. \A f \in Executions : calls[f].server = "done" => calls'[f].server = "done"
  BY DEF Moves
<1>3. ASSUME NEW rows \in Manifest, Committed(rows)
      PROVE  \A p \in Paths : rows[p] # NoFile => calls'[rows[p].by].server = "done"
  <2>1. \A p \in Paths : rows[p] # NoFile => rows[p].by \in Executions
    BY DEF Manifest, Key
  <2>2. QED
    BY <1>2, <1>3, <2>1 DEF Committed
<1>4. manifest \in Manifest /\ \A f \in Executions : calls[f].rows \in Manifest
  BY DEF StorageIInv, ManifestMatchesDigest, StorageTypeOK, Call
<1>5. Committed(manifest)'
  BY <1>3, <1>4 DEF Committed, StorageIInv, Moves
<1>6. ASSUME NEW f \in Executions
      PROVE  Staged(calls[f])' /\ Made(calls[f])' /\ Committed(calls[f].rows)'
  <2>1. calls'[f].rows \in {calls[f].rows, manifest}
    BY DEF Moves
  <2>2. Committed(calls[f].rows)'
    BY <1>3, <1>4, <2>1 DEF Committed, StorageIInv
  <2>3. Staged(calls[f])' /\ Made(calls[f])'
    BY DEF StorageIInv, Moves, Made, Staged
  <2>4. QED
    BY <2>2, <2>3
<1>7. QED
  BY <1>1, <1>5, <1>6 DEF StorageIInv

\* The lock: only a commit of what is current switches the manifest.
LEMMA ServerCommitsIsSound ==
  ASSUME StorageIInv, RestTyped', NEW e \in Executions, ServerCommits(e)
  PROVE  StorageIInv'
<1> USE DEF StorageIInv, ManifestMatchesDigest, StorageTypeOK
<1>1. /\ calls \in [Executions -> Call] /\ calls[e] \in Call
      /\ Staged(calls[e]) /\ Made(calls[e])
      /\ calls[e].step \in Undoing \cup {"committing", "recheck"}
      /\ calls[e].server \in {"sent", "adrift"}
  BY CallIsTyped DEF ServerCommits, Staged
<1>a. PICK server \in {"done", "refused"} :
         /\ calls' = [calls EXCEPT ![e] = [calls[e] EXCEPT !.server = server]]
         /\ server = "done" => Switch(e)
         /\ server = "refused" => UNCHANGED <<manifest, versions>>
  <2>1. CASE Switch(e)
    <3>1. calls' = [calls EXCEPT ![e] = [calls[e] EXCEPT !.server = "done"]]
      BY <1>1, <2>1 DEF Switch
    <3>2. QED
      BY <2>1, <3>1
  <2>2. CASE ~Switch(e)
    <3>1. /\ calls' = [calls EXCEPT ![e] = [calls[e] EXCEPT !.server = "refused"]]
          /\ UNCHANGED <<manifest, versions>>
      BY <1>1, <2>2 DEF ServerCommits, database
    <3>2. QED
      BY <3>1
  <2>3. QED
    BY <2>1, <2>2
<1>b. PICK c : c = [calls[e] EXCEPT !.server = server]
  OBVIOUS
<1>2. /\ server \in {"done", "refused"}
      /\ c = [calls[e] EXCEPT !.server = server]
      /\ calls' = [calls EXCEPT ![e] = c]
      /\ server = "done" => Switch(e)
      /\ server = "refused" => UNCHANGED <<manifest, versions>>
  BY <1>a, <1>b
<1>3. /\ c \in Call /\ c.step = calls[e].step /\ c.server = server
      /\ c.outcome = calls[e].outcome /\ c.unsure = calls[e].unsure
      /\ c.revision = calls[e].revision /\ c.wanted = calls[e].wanted
      /\ c.rows = calls[e].rows
  BY <1>1, <1>2 DEF Call, Server
<1>4. /\ calls' \in [Executions -> Call] /\ calls'[e] = c
      /\ \A f \in Executions \ {e} : calls'[f] = calls[f]
  BY <1>1, <1>2, <1>3
<1>5. /\ Len(versions) \in Nat \ {0} /\ calls[e].revision \in Nat
      /\ \A f \in Executions : calls[f].revision \in Nat
  BY <1>1 DEF Call
<1>6. CASE server = "refused"
  <2>1. c.outcome # "synced" \/ Made(c)
    BY <1>1, <1>3 DEF Made
  <2>2. Staged(c)
    BY <1>1, <1>3, <1>6 DEF Staged
  <2>3. \A f \in Executions : Staged(calls[f])' /\ Made(calls[f])'
    BY <1>2, <1>3, <1>4, <1>6, <2>1, <2>2 DEF Made, Staged
  <2>4. ASSUME NEW rows \in Manifest, Committed(rows)
        PROVE  \A p \in Paths : rows[p] # NoFile => calls'[rows[p].by].server = "done"
    <3>1. \A p \in Paths : rows[p] # NoFile => rows[p].by \in Executions
      BY DEF Manifest, Key
    <3>2. QED
      BY <1>1, <1>4, <2>4, <3>1 DEF Committed
  <2>5. /\ manifest \in Manifest
        /\ \A f \in Executions : calls[f].rows \in Manifest /\ calls'[f].rows = calls[f].rows
    BY <1>3, <1>4 DEF Call
  <2>6. Committed(manifest)' /\ \A f \in Executions : Committed(calls[f].rows)'
    BY <1>2, <1>6, <2>4, <2>5 DEF Committed
  <2>7. ManifestMatchesDigest'
    BY <1>2, <1>4, <1>6 DEF RestTyped, storage_manifest_sha256, digest_of
  <2>8. QED
    BY <2>3, <2>6, <2>7
<1>7. CASE server = "done"
  <2>1. /\ IsCurrent(e) /\ manifest' = NewManifest(e)
        /\ versions' = Append(versions, calls[e].wanted)
    BY <1>2, <1>7 DEF Switch
  <2>2. calls[e].wanted \in Digest /\ NewManifest(e) \in Manifest
    BY <1>1, NewManifestIsWanted DEF Call
  <2>3. /\ versions' \in Seq(Digest) /\ Len(versions') = Len(versions) + 1
        /\ versions'[Len(versions) + 1] = calls[e].wanted
        /\ \A i \in 1..Len(versions) : versions'[i] = versions[i]
    BY <2>1, <2>2
  <2>4. Len(versions) + 1 = calls[e].revision + 2
    BY <1>5, <2>1 DEF IsCurrent, storage_revision
  <2>5. ManifestMatchesDigest'
    <3>1. storage_manifest_sha256' = calls[e].wanted
      BY <1>5, <2>3 DEF storage_manifest_sha256
    <3>2. digest_of(manifest)' = calls[e].wanted
      BY <2>1, NewManifestIsWanted DEF digest_of
    <3>3. versions' # <<>>
      BY <1>5, <2>3
    <3>4. QED
      BY <1>4, <2>1, <2>2, <2>3, <3>1, <3>2, <3>3 DEF RestTyped
  <2>6. ASSUME NEW f \in Executions
        PROVE  Made(calls[f])'
    <3>1. CASE f = e
      <4>1. /\ Len(versions') >= c.revision + 2
            /\ versions'[c.revision + 2] = c.wanted
        BY <1>3, <1>5, <2>3, <2>4
      <4>2. QED
        BY <1>4, <3>1, <4>1 DEF Made
    <3>2. CASE f # e
      <4>1. CASE ~(calls[f].server = "done" \/ calls[f].outcome = "synced")
        BY <1>4, <3>2, <4>1 DEF Made
      <4>2. CASE calls[f].server = "done" \/ calls[f].outcome = "synced"
        <5>1. /\ Len(versions) >= calls[f].revision + 2
              /\ versions[calls[f].revision + 2] = calls[f].wanted
          BY <4>2 DEF Made
        <5>2. calls[f].revision + 2 \in 1..Len(versions) /\ Len(versions') >= Len(versions)
          BY <1>5, <2>3, <5>1
        <5>3. /\ Len(versions') >= calls[f].revision + 2
              /\ versions'[calls[f].revision + 2] = calls[f].wanted
          BY <1>5, <2>3, <5>1, <5>2
        <5>4. QED
          BY <1>4, <3>2, <5>3 DEF Made
      <4>3. QED
        BY <4>1, <4>2
    <3>3. QED
      BY <3>1, <3>2
  <2>7. \A f \in Executions : Staged(calls[f])'
    <3>1. Staged(c)
      BY <1>1, <1>3, <1>7 DEF Staged, Undoing
    <3>2. QED
      BY <1>4, <3>1 DEF Staged
  <2>8. \A f \in Executions : calls[f].server = "done" => calls'[f].server = "done"
    BY <1>3, <1>4, <1>7
  <2>9. ASSUME NEW rows \in Manifest, Committed(rows)
        PROVE  \A p \in Paths : rows[p] # NoFile => calls'[rows[p].by].server = "done"
    <3>1. \A p \in Paths : rows[p] # NoFile => rows[p].by \in Executions
      BY DEF Manifest, Key
    <3>2. QED
      BY <2>8, <2>9, <3>1 DEF Committed
  <2>10. /\ calls[e].rows \in Manifest /\ Committed(calls[e].rows)
         /\ \A f \in Executions : calls[f].rows \in Manifest /\ calls'[f].rows = calls[f].rows
    BY <1>3, <1>4 DEF Call
  <2>11. \A f \in Executions : Committed(calls[f].rows)'
    BY <2>9, <2>10 DEF Committed
  <2>12. Committed(manifest)'
    <3>1. ASSUME NEW p \in Paths, NewManifest(e)[p] # NoFile
          PROVE  calls'[NewManifest(e)[p].by].server = "done"
      <4>1. NewManifest(e)[p] = calls[e].rows[p]
               \/ NewManifest(e)[p] = [by |-> e, content |-> calls[e].wanted[p]]
        BY <3>1 DEF NewManifest
      <4>2. QED
        BY <1>3, <1>4, <1>7, <2>9, <2>10, <3>1, <4>1
    <3>2. QED
      BY <2>1, <3>1 DEF Committed
  <2>13. QED
    BY <2>5, <2>6, <2>7, <2>11, <2>12
<1>8. QED
  BY <1>2, <1>6, <1>7

\* Steps of the bucket, of time and of the cleanup.
LEMMA QuietIsSound ==
  ASSUME StorageIInv, RestTyped', UNCHANGED <<calls, manifest, versions>>
  PROVE  StorageIInv'
<1>1. ManifestMatchesDigest'
  BY DEF StorageIInv, ManifestMatchesDigest, StorageTypeOK, RestTyped,
         storage_manifest_sha256, digest_of
<1>2. QED
  BY <1>1 DEF StorageIInv, Committed, Made, Staged

\* Of a step, either a call moves, or a commit is done, or nothing of it shows.
LEMMA NextIsOneOf ==
  ASSUME StorageIInv, [StorageNext]_storageVars
  PROVE  \/ UNCHANGED <<calls, manifest, versions>>
         \/ \E e \in Executions : Moves(e) \/ ServerCommits(e)
<1>1. ASSUME NEW e \in Executions, Step(e) PROVE Moves(e)
  BY <1>1, CaptureMoves, ReconcileMoves, UploadMoves, CommittingMoves, UndoingMoves DEF Step
<1>2. ASSUME NEW e \in Executions, Cancel(e) \/ Crash(e) PROVE Moves(e)
  BY <1>2, StoppedMoves
<1>3. ASSUME NEW e \in Executions, GrowOld(e) PROVE UNCHANGED <<calls, manifest, versions>>
  BY <1>3 DEF GrowOld, database
<1>4. ASSUME NEW k \in Key, UploadLands(k) PROVE UNCHANGED <<calls, manifest, versions>>
  BY <1>4 DEF UploadLands, database
<1>5. CASE CleanerReads \/ CleanerDeletes \/ CleanerMarks
  BY <1>5 DEF CleanerReads, CleanerDeletes, CleanerMarks, database
<1>6. QED
  BY <1>1, <1>2, <1>3, <1>4, <1>5 DEF StorageNext, storageVars

LEMMA InitIsSound == StorageInit => StorageIInv
<1> SUFFICES ASSUME StorageInit PROVE StorageIInv
  OBVIOUS
<1>1. EmptyManifest \in Manifest
  BY DEF EmptyManifest, Manifest
<1>2. EmptyDigest \in Digest
  BY <1>1, DigestIsTyped DEF EmptyDigest
<1>3. NewCall \in Call
  BY <1>1, <1>2 DEF NewCall, Call, Steps, Outcomes, Server
<1>4. StorageTypeOK
  BY <1>1, <1>2, <1>3 DEF StorageInit, StorageTypeOK, RowStatus
<1>5. digest_of(manifest) = storage_manifest_sha256
  BY DEF StorageInit, storage_manifest_sha256, EmptyDigest
<1>6. Committed(EmptyManifest)
  BY DEF Committed, EmptyManifest
<1>7. NewCall.rows = EmptyManifest /\ Staged(NewCall) /\ Made(NewCall)
  BY DEF NewCall, Staged, Made, Undoing
<1>8. QED
  BY <1>4, <1>5, <1>6, <1>7 DEF StorageInit, StorageIInv, ManifestMatchesDigest

LEMMA NextIsSound == StorageIInv /\ [StorageNext]_storageVars => StorageIInv'
<1> SUFFICES ASSUME StorageIInv, [StorageNext]_storageVars PROVE StorageIInv'
  OBVIOUS
<1>1. RestTyped'
  <2>1. CASE StorageNext
    BY <2>1, RestStaysTyped DEF StorageIInv, ManifestMatchesDigest
  <2>2. CASE UNCHANGED storageVars
    BY <2>2 DEF StorageIInv, ManifestMatchesDigest, StorageTypeOK, RestTyped, storageVars
  <2>3. QED
    BY <2>1, <2>2
<1>2. QED
  BY <1>1, NextIsOneOf, QuietIsSound, MovesIsSound, ServerCommitsIsSound

LEMMA AlwaysSound == StorageSpec => []StorageIInv
BY InitIsSound, NextIsSound, PTL DEF StorageSpec

------------------------------------------------------------------------------
(* The theorems.                                                           *)

\* The rows of the manifest and the digest stored with it belong together,
\* whichever execution wrote them, from whatever capture and with what faults.
THEOREM AlwaysMatchesDigest == StorageSpec => []ManifestMatchesDigest
BY AlwaysSound, PTL DEF StorageIInv

\* What a reconcile says is so: after success its files were the version after
\* the one it captured, and after a failure it was sure of it changed nothing.
THEOREM AlwaysReportsTruth == StorageSpec => []ReportsTruth
<1>1. ASSUME StorageIInv
      PROVE  ReportsTruth
  <2>1. ASSUME NEW e \in Executions, calls[e].outcome \in {"conflict", "failed"},
               ~calls[e].unsure, NEW p \in Paths, manifest[p] # NoFile
        PROVE  manifest[p].by # e
    BY <1>1, <2>1 DEF StorageIInv, Staged, Committed
  <2>2. QED
    BY <1>1, <2>1 DEF ReportsTruth, StorageIInv, Made
<1>2. QED
  BY <1>1, AlwaysSound, PTL

\* A step of a call reads the latest version, forgets what it read, or neither.
LEMMA MovesKeepsHistory ==
  ASSUME StorageIInv, NEW e \in Executions, Moves(e)
  PROVE  [Versions!PromiseNext]_(Versions!promiseVars)
<1> DEFINE reads == [f \in Executions |-> HeldVersion(calls[f])]
<1>1. /\ UNCHANGED versions
      /\ \A f \in Executions \ {e} : calls'[f] = calls[f]
      /\ HeldVersion(calls'[e]) \in {0, HeldVersion(calls[e]), Len(versions)}
  BY DEF Moves
<1>2. reads' = [f \in Executions |-> HeldVersion(calls'[f])]
  BY DEF HeldVersion
<1>3. reads' = [reads EXCEPT ![e] = HeldVersion(calls'[e])]
  <2>1. \A f \in Executions \ {e} : HeldVersion(calls'[f]) = HeldVersion(calls[f])
    BY <1>1
  <2>2. QED
    BY <1>2, <2>1
<1>4. CASE HeldVersion(calls'[e]) = 0
  BY <1>1, <1>3, <1>4 DEF Versions!PromiseNext, Versions!Forget
<1>5. CASE HeldVersion(calls'[e]) = Len(versions)
  BY <1>1, <1>3, <1>5 DEF Versions!PromiseNext, Versions!Read
<1>6. CASE HeldVersion(calls'[e]) = HeldVersion(calls[e])
  BY <1>1, <1>3, <1>6 DEF Versions!promiseVars
<1>7. QED
  BY <1>1, <1>4, <1>5, <1>6

\* A commit that is done is on top of the version its execution captured.
LEMMA ServerCommitsKeepsHistory ==
  ASSUME StorageIInv, NEW e \in Executions, ServerCommits(e)
  PROVE  [Versions!PromiseNext]_(Versions!promiseVars)
<1> DEFINE reads == [f \in Executions |-> HeldVersion(calls[f])]
<1>1. /\ calls \in [Executions -> Call] /\ calls[e] \in Call
      /\ calls[e].step \in Undoing \cup {"committing", "recheck"}
      /\ calls[e].server \in {"sent", "adrift"}
      /\ calls[e].server = "sent" => calls[e].step = "committing"
  BY CallIsTyped DEF ServerCommits, Staged
<1>2. /\ calls'[e].server \in {"done", "refused"}
      /\ \A f \in Executions \ {e} : calls'[f] = calls[f]
  BY <1>1 DEF ServerCommits, Switch, Call
<1>3. HeldVersion(calls'[e]) = 0
  BY <1>2 DEF HeldVersion
<1>4. reads' = [reads EXCEPT ![e] = 0]
  <2>1. reads' = [f \in Executions |-> HeldVersion(calls'[f])]
    BY DEF HeldVersion
  <2>2. QED
    BY <1>2, <1>3, <2>1
<1>5. CASE Switch(e)
  <2>1. HeldVersion(calls[e]) = calls[e].revision + 1
    BY <1>1 DEF HeldVersion, Undoing
  <2>2. Len(versions) \in Nat
    BY DEF StorageIInv, ManifestMatchesDigest, StorageTypeOK
  <2>3. storage_revision = calls[e].revision
    BY <1>5 DEF Switch, IsCurrent
  <2>4. calls[e].revision = Len(versions) - 1
    BY <2>3 DEF storage_revision
  <2>5. reads[e] = Len(versions)
    BY <2>1, <2>2, <2>4
  <2>6. calls[e].wanted \in Digest /\ versions' = Append(versions, calls[e].wanted)
    BY <1>1, <1>5 DEF Switch, Call
  <2>7. Versions!Write(e, calls[e].wanted)
    BY <1>4, <2>5, <2>6 DEF Versions!Write
  <2>8. QED
    BY <2>6, <2>7 DEF Versions!PromiseNext
<1>6. CASE UNCHANGED versions
  BY <1>4, <1>6 DEF Versions!PromiseNext, Versions!Forget
<1>7. QED
  BY <1>5, <1>6 DEF ServerCommits, database

\* No update is lost: an execution switches the manifest once at most, and only
\* from the version whose files it was given to work on.
THEOREM AlwaysKeepsHistory == StorageSpec => KeepsHistory
<1>1. StorageInit => Versions!PromiseInit
  BY DEF StorageInit, Versions!PromiseInit, NewCall, HeldVersion
<1>2. StorageIInv /\ [StorageNext]_storageVars
         => [Versions!PromiseNext]_(Versions!promiseVars)
  <2> SUFFICES ASSUME StorageIInv, [StorageNext]_storageVars
               PROVE  [Versions!PromiseNext]_(Versions!promiseVars)
    OBVIOUS
  <2>1. CASE UNCHANGED <<calls, manifest, versions>>
    BY <2>1 DEF Versions!promiseVars, HeldVersion
  <2>2. QED
    BY <2>1, NextIsOneOf, MovesKeepsHistory, ServerCommitsKeepsHistory
<1>3. QED
  BY <1>1, <1>2, AlwaysSound, PTL DEF StorageSpec, KeepsHistory, Versions!PromiseSpec

------------------------------------------------------------------------------
(* The bucket: what the manifest refers to is there, and what is there is  *)
(* known.                                                                   *)

Failed == {"failed", "conflict", "cancelled"}

\* An execution whose files may be gone: it did not wait for the answer to its
\* commit, or the cleanup came before its call had ended.
Excused(e) == Unsettled(e) \/ e \in outlived

MayCommit(c) ==
    c.step \in {"uploading", "committing"} \/ c.server \in {"sent", "adrift"}

AllUploaded(c) == \A p \in Changed(c) : c.wanted[p] \in c.uploaded

\* A call knows of its commit whatever it gives up, sends one when its files are
\* uploaded, and commits to the rows it has read or to none.
Fits(c) ==
    /\ c.step \in Undoing \ {"ended"} => c.outcome \in Failed
    /\ c.outcome \in Failed => c.step \in Undoing
    /\ c.outcome \in Failed /\ ~c.unsure => c.server \in {"none", "refused"}
    /\ c.server = "adrift" => c.step \in Undoing \cup {"recheck"}
    /\ c.step \in {"committing", "recheck"} => c.server # "none"
    /\ c.uploaded # {} => c.step \in Undoing \cup {"uploading", "committing", "recheck"}
    /\ c.revision <= storage_revision
    /\ c.server \in {"sent", "adrift"} => AllUploaded(c)
    /\ c.step \in {"planned", "uploading"} \/ c.server \in {"sent", "adrift"} =>
          (c.revision = storage_revision => c.rows = manifest)

\* Only a call that is over has rows old enough to be cleaned, or it is excused.
Aged == \A e \in old : Over(e) \/ e \in outlived

\* The files of a commit that may still come are in the bucket.
FilesWait(e) == MayCommit(calls[e]) =>
    \A k \in Planned(e) : k.content \in calls[e].uploaded => k \in objects \/ Excused(e)

RowsWait(e) == At(e, "uploading") =>
    \A k \in Planned(e) : staged[k] = "PENDING" \/ e \in outlived

FilesGone(e) == At(e, "marking") =>
    \A k \in Planned(e) : k \in objects => k.content \notin calls[e].uploaded

\* What the cleanup has read is old and no part of the manifest.
Sweeps(k) ==
    /\ k.by \in old
    /\ \A p \in Paths : manifest[p] = k => Excused(k.by)
    /\ cleaner.step = "marking" /\ k \in objects =>
          k.content \notin calls[k.by].uploaded \/ k.by \in outlived

Lands(k) == calls[k.by].step \in Undoing /\ k.content \notin calls[k.by].uploaded

RowIsKept(p) == manifest[p] # NoFile =>
    staged[manifest[p]] = "COMMITTED" \/ Excused(manifest[p].by)

\* Every object has a row that is not clean, or is excused.
HaveRows ==
    \A k \in objects :
        \/ staged[k] \in {"PENDING", "COMMITTED", "CLEANUP_FAILED"}
        \/ k.content \notin calls[k.by].uploaded \/ k.by \in outlived

FilesIInv ==
    /\ \A e \in Executions : Fits(calls[e]) /\ FilesWait(e) /\ RowsWait(e) /\ FilesGone(e)
    /\ Aged
    /\ \A k \in cleaner.keys : Sweeps(k)
    /\ \A k \in landing : Lands(k)
    /\ \A p \in Paths : RowIsKept(p)
    /\ ManifestBacked /\ HaveRows

\* What a step of one call does to it, and to no other.
Effect(e, step, server, unsure, outcome) ==
    /\ \A f \in Executions \ {e} : calls'[f] = calls[f]
    /\ calls'[e].step = step /\ calls'[e].server = server
    /\ calls'[e].unsure = unsure /\ calls'[e].outcome = outcome
    /\ calls'[e].revision = calls[e].revision /\ calls'[e].rows = calls[e].rows
    /\ calls'[e].wanted = calls[e].wanted /\ calls'[e].uploaded = calls[e].uploaded

LEMMA AlteredHasEffect ==
  ASSUME StorageIInv, NEW e \in Executions, NEW step, NEW server, NEW unsure, NEW outcome,
         calls' = [calls EXCEPT ![e] = Altered(@, step, server, unsure, outcome)]
  PROVE  Effect(e, step, server, unsure, outcome)
BY CallIsTyped DEF Effect, Altered, Call

LEMMA GotoHasEffect ==
  ASSUME StorageIInv, NEW e \in Executions, NEW step, Goto(e, step)
  PROVE  Effect(e, step, calls[e].server, calls[e].unsure, calls[e].outcome)
BY GotoAlters, AlteredHasEffect

LEMMA EndHasEffect ==
  ASSUME StorageIInv, NEW e \in Executions, NEW step, NEW outcome,
         calls' = [calls EXCEPT ![e].step = step, ![e].outcome = outcome]
  PROVE  Effect(e, step, calls[e].server, calls[e].unsure, outcome)
BY EndAlters, AlteredHasEffect

\* A key is planned by the execution it names.
LEMMA PlannedIsOwn ==
  ASSUME NEW e \in Executions, NEW k \in Planned(e)
  PROVE  k.by = e
BY DEF Planned

LEMMA UploadsAreDone ==
  ASSUME NEW e \in Executions
  PROVE  ToUpload(e) = {} <=> AllUploaded(calls[e])
<1>1. ASSUME NEW p \in Changed(calls[e])
      PROVE  /\ [by |-> e, content |-> calls[e].wanted[p]] \in Planned(e)
             /\ [by |-> e, content |-> calls[e].wanted[p]].content = calls[e].wanted[p]
  BY DEF Planned
<1>2. ASSUME NEW k \in Planned(e)
      PROVE  \E p \in Changed(calls[e]) : k.content = calls[e].wanted[p]
  BY DEF Planned
<1>3. ASSUME ToUpload(e) = {}
      PROVE  AllUploaded(calls[e])
  <2>1. ASSUME NEW k \in Planned(e)
        PROVE  k.content \in calls[e].uploaded
    BY <1>3 DEF ToUpload
  <2>2. QED
    BY <1>1, <2>1 DEF AllUploaded
<1>4. ASSUME AllUploaded(calls[e])
      PROVE  ToUpload(e) = {}
  BY <1>2, <1>4 DEF ToUpload, AllUploaded
<1>5. QED
  BY <1>3, <1>4

------------------------------------------------------------------------------
(* Steps that leave bucket, database, ages and cleanup alone.              *)

Rest == <<manifest, versions, staged, objects, landing, old, outlived, cleaner>>

LEMMA EffectKeepsPlan ==
  ASSUME NEW e \in Executions, NEW step, NEW server, NEW unsure, NEW outcome,
         Effect(e, step, server, unsure, outcome)
  PROVE  /\ \A f \in Executions : Planned(f)' = Planned(f)
         /\ AllUploaded(calls[e])' <=> AllUploaded(calls[e])
<1>1. ASSUME NEW f \in Executions
      PROVE  /\ calls'[f].wanted = calls[f].wanted /\ calls'[f].rows = calls[f].rows
             /\ calls'[f].uploaded = calls[f].uploaded
  BY DEF Effect
<1>2. \A f \in Executions : Changed(calls[f])' = Changed(calls[f])
  BY <1>1 DEF Changed, digest_of
<1>3. \A f \in Executions : Planned(f)' = Planned(f)
  BY <1>1, <1>2 DEF Planned
<1>4. AllUploaded(calls[e])' <=> AllUploaded(calls[e])
  BY <1>1, <1>2 DEF AllUploaded
<1>5. QED
  BY <1>3, <1>4

\* What a call that gives nothing back may do.
LEMMA CallStepKeepsFiles ==
  ASSUME StorageIInv, FilesIInv, NEW e \in Executions, UNCHANGED Rest,
         \A f \in Executions \ {e} : calls'[f] = calls[f],
         calls'[e].uploaded = calls[e].uploaded,
         Fits(calls[e])',
         Unsettled(e) => Unsettled(e)',
         calls[e].step \in Undoing => calls'[e].step \in Undoing,
         MayCommit(calls[e])' => MayCommit(calls[e]) /\ Planned(e)' = Planned(e),
         calls'[e].step \notin {"uploading", "marking"},
         Over(e) => Over(e)'
  PROVE  FilesIInv'
<1>1. /\ manifest' = manifest /\ versions' = versions /\ staged' = staged
      /\ objects' = objects /\ landing' = landing /\ old' = old
      /\ outlived' = outlived /\ cleaner' = cleaner
  BY DEF Rest
<1>2. manifest \in Manifest /\ cleaner.keys \subseteq Key /\ landing \subseteq Key
         /\ objects \subseteq Key /\ old \subseteq Executions
  BY DEF StorageIInv, ManifestMatchesDigest, StorageTypeOK
<1>3. \A f \in Executions : Excused(f) => Excused(f)'
  BY <1>1 DEF Excused, Unsettled
<1>4. \A f \in Executions : calls'[f].uploaded = calls[f].uploaded
  OBVIOUS
<1>5. \A f \in Executions \ {e} : Planned(f)' = Planned(f)
  BY DEF Planned, Changed, digest_of
<1>6. ASSUME NEW f \in Executions
      PROVE  Fits(calls[f])' /\ FilesWait(f)' /\ RowsWait(f)' /\ FilesGone(f)'
  <2>1. CASE f = e
    <3>1. Fits(calls[f])'
      BY <2>1
    <3>2. FilesWait(f)'
      BY <1>1, <1>3, <2>1 DEF FilesIInv, FilesWait
    <3>3. RowsWait(f)' /\ FilesGone(f)'
      BY <2>1 DEF RowsWait, FilesGone, At
    <3>4. QED
      BY <3>1, <3>2, <3>3
  <2>2. CASE f # e
    <3>1. calls'[f] = calls[f] /\ Planned(f)' = Planned(f)
      BY <1>5, <2>2
    <3>2. Fits(calls[f])'
      BY <1>1, <3>1 DEF FilesIInv, Fits, storage_revision, AllUploaded, Changed, digest_of
    <3>3. FilesWait(f)'
      BY <1>1, <1>3, <3>1 DEF FilesIInv, FilesWait, MayCommit
    <3>4. RowsWait(f)' /\ FilesGone(f)'
      BY <1>1, <3>1 DEF FilesIInv, RowsWait, FilesGone, At
    <3>5. QED
      BY <3>2, <3>3, <3>4
  <2>3. QED
    BY <2>1, <2>2
<1>7. Aged'
  BY <1>1, <1>2 DEF FilesIInv, Aged, Over, At
<1>8. \A k \in cleaner.keys' : Sweeps(k)'
  BY <1>1, <1>2, <1>3, <1>4 DEF FilesIInv, Sweeps, Key
<1>9. \A k \in landing' : Lands(k)'
  BY <1>1, <1>2, <1>4 DEF FilesIInv, Lands, Key
<1>10. \A p \in Paths : manifest[p] # NoFile => manifest[p].by \in Executions
  BY <1>2 DEF Manifest, Key
<1>11. \A p \in Paths : RowIsKept(p)'
  BY <1>1, <1>3, <1>10 DEF FilesIInv, RowIsKept
<1>12. ManifestBacked'
  <2>1. \A p \in Paths : manifest[p] \in objects \cup {NoFile} \/ Excused(manifest[p].by)
    BY DEF FilesIInv, ManifestBacked, Excused
  <2>2. QED
    BY <1>1, <1>3, <1>10, <2>1 DEF ManifestBacked, Excused
<1>13. HaveRows'
  BY <1>1, <1>2, <1>4 DEF FilesIInv, HaveRows, Key
<1>14. QED
  BY <1>6, <1>7, <1>8, <1>9, <1>11, <1>12, <1>13 DEF FilesIInv

\* A step of a call that shows neither in the bucket nor in the database.
Quiet(e, step, server, unsure, outcome) ==
    /\ UNCHANGED Rest
    /\ Effect(e, step, server, unsure, outcome)
    /\ step \notin {"planned", "uploading", "marking"}
    /\ step \in Undoing \ {"ended"} => outcome \in Failed
    /\ outcome \in Failed => step \in Undoing
    /\ outcome \in Failed /\ ~unsure => server \in {"none", "refused"}
    /\ server = "adrift" => step \in Undoing \cup {"recheck"}
    /\ step \in {"committing", "recheck"} => server # "none"
    /\ calls[e].uploaded # {} => step \in Undoing \cup {"committing", "recheck"}
    /\ server \in {"sent", "adrift"} =>
          \/ calls[e].server \in {"sent", "adrift"}
          \/ calls[e].step = "uploading" /\ AllUploaded(calls[e])
    /\ step = "committing" => calls[e].step \in {"uploading", "committing"}
    /\ Unsettled(e) => unsure /\ outcome \in Failed
    /\ calls[e].step \in Undoing => step \in Undoing
    /\ Over(e) => step = "ended" /\ server # "adrift"

LEMMA QuietKeepsFiles ==
  ASSUME StorageIInv, FilesIInv, NEW e \in Executions,
         NEW step, NEW server, NEW unsure, NEW outcome,
         Quiet(e, step, server, unsure, outcome)
  PROVE  FilesIInv'
<1>1. /\ \A f \in Executions \ {e} : calls'[f] = calls[f]
      /\ calls'[e].step = step /\ calls'[e].server = server
      /\ calls'[e].unsure = unsure /\ calls'[e].outcome = outcome
      /\ calls'[e].revision = calls[e].revision /\ calls'[e].rows = calls[e].rows
      /\ calls'[e].wanted = calls[e].wanted /\ calls'[e].uploaded = calls[e].uploaded
  BY DEF Quiet, Effect
<1>2. manifest' = manifest /\ storage_revision' = storage_revision
  BY DEF Quiet, Rest, storage_revision
<1>3. Planned(e)' = Planned(e) /\ (AllUploaded(calls[e])' <=> AllUploaded(calls[e]))
  BY EffectKeepsPlan DEF Quiet
<1>4. Fits(calls[e])
  BY DEF FilesIInv
<1>5. Fits(calls[e])'
  <2>1. AllUploaded(calls[e]) => AllUploaded(calls'[e])
    BY <1>3 DEF AllUploaded, Changed, digest_of
  <2>2. /\ calls'[e].revision <= storage_revision'
        /\ calls'[e].server \in {"sent", "adrift"} => AllUploaded(calls'[e])
        /\ calls'[e].server \in {"sent", "adrift"} =>
              (calls'[e].revision = storage_revision' => calls'[e].rows = manifest')
    BY <1>1, <1>2, <1>4, <2>1 DEF Quiet, Fits
  <2>3. QED
    BY <1>1, <2>2 DEF Quiet, Fits
<1>6. Unsettled(e) => Unsettled(e)'
  BY <1>1 DEF Quiet, Unsettled, Failed
<1>7. MayCommit(calls[e])' => MayCommit(calls[e])
  BY <1>1 DEF Quiet, MayCommit
<1>8. Over(e) => Over(e)'
  BY <1>1 DEF Quiet, Over, At
<1>9. /\ UNCHANGED Rest
      /\ calls[e].step \in Undoing => calls'[e].step \in Undoing
      /\ calls'[e].step \notin {"uploading", "marking"}
  BY <1>1 DEF Quiet
<1>10. QED
  BY <1>1, <1>3, <1>5, <1>6, <1>7, <1>8, <1>9, CallStepKeepsFiles

\* A call that has not begun to upload.
LEMMA EarlyKeepsFiles ==
  ASSUME StorageIInv, FilesIInv, NEW e \in Executions, NEW c \in Call, UNCHANGED Rest,
         calls' = [calls EXCEPT ![e] = c],
         calls[e].step \notin Undoing \cup {"uploading", "committing", "recheck"},
         c.step \notin (Undoing \ {"ended"}) \cup {"uploading", "committing", "recheck"},
         c.outcome \in Failed => c.step = "ended",
         c.server = "none", c.uploaded = calls[e].uploaded,
         c.revision <= storage_revision,
         c.step = "planned" => c.rows = manifest
  PROVE  FilesIInv'
<1>1. /\ calls \in [Executions -> Call] /\ Staged(calls[e]) /\ Fits(calls[e])
  BY CallIsTyped DEF FilesIInv
<1>2. calls'[e] = c /\ \A f \in Executions \ {e} : calls'[f] = calls[f]
  BY <1>1
<1>3. calls[e].uploaded = {} /\ calls[e].outcome = "none" /\ calls[e].server = "none"
  BY <1>1 DEF Fits, Staged, Undoing
<1>4. manifest' = manifest /\ storage_revision' = storage_revision
  BY DEF Rest, storage_revision
<1>5. Fits(c)
  BY <1>3 DEF Fits, Undoing
<1>6. Fits(calls[e])'
  BY <1>2, <1>4, <1>5 DEF Fits, AllUploaded, Changed, digest_of
<1>7. ~Unsettled(e) /\ ~Over(e)
  BY <1>3 DEF Unsettled, Over, At, Undoing
<1>8. ~MayCommit(calls[e])'
  BY <1>2 DEF MayCommit
<1>9. calls'[e].uploaded = calls[e].uploaded /\ calls'[e].step \notin {"uploading", "marking"}
  BY <1>2 DEF Undoing
<1>10. QED
  BY <1>2, <1>6, <1>7, <1>8, <1>9, CallStepKeepsFiles

LEMMA EarlyEndKeepsFiles ==
  ASSUME StorageIInv, FilesIInv, NEW e \in Executions, UNCHANGED Rest,
         NEW outcome \in Outcomes, End(e, outcome),
         calls[e].step \notin Undoing \cup {"uploading", "committing", "recheck"}
  PROVE  FilesIInv'
<1>1. /\ calls \in [Executions -> Call] /\ calls[e] \in Call /\ Staged(calls[e])
      /\ Fits(calls[e])
  BY CallIsTyped DEF FilesIInv
<1>2. PICK c : c = [calls[e] EXCEPT !.step = "ended", !.outcome = outcome]
  OBVIOUS
<1>3. calls' = [calls EXCEPT ![e] = c]
  BY <1>1, <1>2 DEF End
<1>4. c \in Call
  BY <1>1, <1>2 DEF Call, Steps
<1>5. /\ c.step = "ended" /\ c.server = calls[e].server /\ c.uploaded = calls[e].uploaded
      /\ c.revision = calls[e].revision
  BY <1>1, <1>2 DEF Call
<1>6. c.server = "none" /\ c.revision <= storage_revision
  BY <1>1, <1>5 DEF Staged, Fits
<1>7. QED
  BY <1>3, <1>4, <1>5, <1>6, EarlyKeepsFiles DEF Undoing

LEMMA CaptureKeepsFiles ==
  ASSUME StorageIInv, FilesIInv, NEW e \in Executions,
         CaptureHead(e) \/ CaptureRows(e) \/ CaptureObjects(e)
  PROVE  FilesIInv'
<1> USE DEF At
<1>1. /\ calls \in [Executions -> Call] /\ calls[e] \in Call /\ Staged(calls[e])
      /\ Fits(calls[e])
  BY CallIsTyped DEF FilesIInv
<1>2. storage_revision \in Nat /\ storage_manifest_sha256 \in Digest /\ manifest \in Manifest
  BY DEF StorageIInv, ManifestMatchesDigest, StorageTypeOK, storage_revision,
         storage_manifest_sha256
<1>3. UNCHANGED Rest
  BY DEF CaptureHead, CaptureRows, CaptureObjects, database, bucket, elsewhere, Rest
<1>4. calls[e].step \notin Undoing \cup {"uploading", "committing", "recheck"}
  BY DEF CaptureHead, CaptureRows, CaptureObjects, Undoing
<1>5. calls[e].server = "none" /\ calls[e].outcome = "none"
  BY <1>1, <1>4 DEF Staged
<1>6. CASE CaptureHead(e)
  <2>1. PICK c : c = [calls[e] EXCEPT !.step = "captured head",
                                      !.revision = storage_revision,
                                      !.digest = storage_manifest_sha256]
    OBVIOUS
  <2>2. calls' = [calls EXCEPT ![e] = c]
    BY <1>1, <1>6, <2>1 DEF CaptureHead
  <2>3. /\ c \in Call /\ c.step = "captured head" /\ c.server = "none"
        /\ c.outcome = "none" /\ c.uploaded = calls[e].uploaded
        /\ c.revision = storage_revision
    BY <1>1, <1>2, <1>5, <2>1 DEF Call, Steps
  <2>4. storage_revision <= storage_revision
    BY <1>2
  <2>5. c.revision <= storage_revision
    BY <2>3, <2>4
  <2>6. QED
    BY <1>3, <1>4, <2>2, <2>3, <2>5, EarlyKeepsFiles DEF Undoing, Failed
<1>7. CASE CaptureRows(e)
  <2>1. PICK c : c = [calls[e] EXCEPT !.step = "captured rows", !.rows = manifest]
    OBVIOUS
  <2>2. calls' = [calls EXCEPT ![e] = c]
    BY <1>1, <1>7, <2>1 DEF CaptureRows
  <2>3. /\ c \in Call /\ c.step = "captured rows" /\ c.server = "none"
        /\ c.outcome = "none" /\ c.uploaded = calls[e].uploaded
        /\ c.revision = calls[e].revision
    BY <1>1, <1>2, <1>5, <2>1 DEF Call, Steps
  <2>4. c.revision <= storage_revision
    BY <1>1, <2>3 DEF Fits
  <2>5. QED
    BY <1>3, <1>4, <2>2, <2>3, <2>4, EarlyKeepsFiles DEF Undoing, Failed
<1>8. CASE CaptureObjects(e)
  <2>1. CASE Goto(e, "working")
    <3>1. PICK c : c = [calls[e] EXCEPT !.step = "working"]
      OBVIOUS
    <3>2. calls' = [calls EXCEPT ![e] = c]
      BY <1>1, <2>1, <3>1 DEF Goto
    <3>3. /\ c \in Call /\ c.step = "working" /\ c.server = "none"
          /\ c.outcome = "none" /\ c.uploaded = calls[e].uploaded
          /\ c.revision = calls[e].revision
      BY <1>1, <1>5, <3>1 DEF Call, Steps
    <3>4. c.revision <= storage_revision
      BY <1>1, <3>3 DEF Fits
    <3>5. QED
      BY <1>3, <1>4, <3>2, <3>3, <3>4, EarlyKeepsFiles DEF Undoing, Failed
  <2>2. CASE End(e, "failed")
    BY <1>3, <1>4, <2>2, EarlyEndKeepsFiles DEF Outcomes
  <2>3. QED
    BY <1>8, <2>1, <2>2 DEF CaptureObjects
<1>9. QED
  BY <1>6, <1>7, <1>8

LEMMA ReconcileKeepsFiles ==
  ASSUME StorageIInv, FilesIInv, NEW e \in Executions,
         ReconcileRows(e) \/ \E returned \in Returned : Reconcile(e, returned)
  PROVE  FilesIInv'
<1> USE DEF At
<1>1. /\ calls \in [Executions -> Call] /\ calls[e] \in Call /\ Staged(calls[e])
      /\ Fits(calls[e])
  BY CallIsTyped DEF FilesIInv
<1>2. manifest \in Manifest
  BY DEF StorageIInv, ManifestMatchesDigest, StorageTypeOK
<1>3. UNCHANGED Rest
  BY DEF ReconcileRows, Reconcile, database, bucket, elsewhere, Rest
<1>4. calls[e].step \notin Undoing \cup {"uploading", "committing", "recheck"}
  BY DEF ReconcileRows, Reconcile, Undoing
<1>5. calls[e].server = "none" /\ calls[e].outcome = "none"
  BY <1>1, <1>4 DEF Staged
<1>6. CASE ReconcileRows(e)
  <2>1. PICK c :
           /\ calls' = [calls EXCEPT ![e] = c]
           /\ \/ c = [calls[e] EXCEPT !.step = "ended", !.outcome = "unchanged",
                                      !.rows = manifest]
              \/ c = [calls[e] EXCEPT !.step = "planned", !.rows = manifest]
    BY <1>1, <1>6 DEF ReconcileRows
  <2>2. c \in Call
    BY <1>1, <1>2, <2>1 DEF Call, Steps, Outcomes
  <2>3. /\ c.server = "none" /\ c.rows = manifest /\ c.revision = calls[e].revision
        /\ c.uploaded = calls[e].uploaded
        /\ \/ c.step = "ended" /\ c.outcome = "unchanged"
           \/ c.step = "planned" /\ c.outcome = "none"
    BY <1>1, <1>5, <2>1 DEF Call
  <2>4. c.revision <= storage_revision
    BY <1>1, <2>3 DEF Fits
  <2>5. QED
    BY <1>3, <1>4, <2>1, <2>2, <2>3, <2>4, EarlyKeepsFiles DEF Undoing, Failed
<1>7. ASSUME NEW returned \in Returned, Reconcile(e, returned)
      PROVE  FilesIInv'
  <2>1. CASE End(e, "conflict")
    BY <1>3, <1>4, <2>1, EarlyEndKeepsFiles DEF Outcomes
  <2>2. CASE calls' = [calls EXCEPT ![e].step = "compared", ![e].wanted = returned]
    <3>1. PICK c : c = [calls[e] EXCEPT !.step = "compared", !.wanted = returned]
      OBVIOUS
    <3>2. calls' = [calls EXCEPT ![e] = c]
      BY <1>1, <2>2, <3>1
    <3>3. /\ c \in Call /\ c.step = "compared" /\ c.server = "none"
          /\ c.outcome = "none" /\ c.uploaded = calls[e].uploaded
          /\ c.revision = calls[e].revision
      BY <1>1, <1>5, <3>1, ReturnedAssumption DEF Call, Steps
    <3>4. c.revision <= storage_revision
      BY <1>1, <3>3 DEF Fits
    <3>5. QED
      BY <1>3, <1>4, <3>2, <3>3, <3>4, EarlyKeepsFiles DEF Undoing, Failed
  <2>3. QED
    BY <1>7, <2>1, <2>2 DEF Reconcile
<1>8. QED
  BY <1>6, <1>7

\* From the commit on.
LEMMA CommittingKeepsFiles ==
  ASSUME StorageIInv, FilesIInv, NEW e \in Executions,
         SendCommit(e) \/ CommitReturns(e) \/ LoseAnswer(e) \/ Recheck(e)
  PROVE  FilesIInv'
<1> USE DEF At
<1>1. /\ calls \in [Executions -> Call] /\ calls[e] \in Call /\ Staged(calls[e])
      /\ Fits(calls[e])
  BY CallIsTyped DEF FilesIInv
<1>2. UNCHANGED Rest
  BY DEF SendCommit, CommitReturns, LoseAnswer, Recheck, database, bucket, elsewhere, Rest
<1>3. /\ calls[e].step \in {"uploading", "committing", "recheck"}
      /\ calls[e].outcome \notin Failed
  BY <1>1 DEF SendCommit, CommitReturns, LoseAnswer, Recheck, Fits, Undoing
<1>4. ~Unsettled(e) /\ ~Over(e)
  BY <1>3 DEF Unsettled, Over, Failed
<1>5. CASE SendCommit(e)
  <2>1. Altered(calls[e], "committing", "sent", calls[e].unsure, calls[e].outcome)
           = [calls[e] EXCEPT !.step = "committing", !.server = "sent"]
    BY <1>1 DEF Altered, Call
  <2>2. calls' = [calls EXCEPT ![e] =
            Altered(@, "committing", "sent", calls[e].unsure, calls[e].outcome)]
    BY <1>1, <1>5, <2>1 DEF SendCommit
  <2>3. Effect(e, "committing", "sent", calls[e].unsure, calls[e].outcome)
    BY <2>2, AlteredHasEffect
  <2>4. calls[e].step = "uploading" /\ AllUploaded(calls[e])
    BY <1>5, UploadsAreDone DEF SendCommit
  <2>5. Quiet(e, "committing", "sent", calls[e].unsure, calls[e].outcome)
    BY <1>2, <1>3, <1>4, <2>3, <2>4 DEF Quiet, Undoing
  <2>6. QED
    BY <2>5, QuietKeepsFiles
<1>6. CASE CommitReturns(e)
  <2>1. calls[e].step = "committing"
    BY <1>6 DEF CommitReturns
  <2>2. PICK step, outcome :
           /\ calls' = [calls EXCEPT ![e].step = step, ![e].outcome = outcome]
           /\ \/ calls[e].server = "done" /\ step = "ended" /\ outcome = "synced"
              \/ calls[e].server = "refused" /\ step = "deleting" /\ outcome = "conflict"
    BY <1>6 DEF CommitReturns, End
  <2>3. Effect(e, step, calls[e].server, calls[e].unsure, outcome)
    BY <2>2, EndHasEffect
  <2>4. Quiet(e, step, calls[e].server, calls[e].unsure, outcome)
    BY <1>2, <1>4, <2>1, <2>2, <2>3 DEF Quiet, Undoing, Failed
  <2>5. QED
    BY <2>4, QuietKeepsFiles
<1>7. CASE LoseAnswer(e)
  <2>1. calls[e].step = "committing" /\ calls[e].server # "none"
    BY <1>1, <1>7 DEF LoseAnswer, Fits
  <2>2. PICK server \in Abandoned(e) :
           calls' = [calls EXCEPT ![e].step = "recheck", ![e].server = server,
                                  ![e].unsure = TRUE]
    BY <1>7 DEF LoseAnswer
  <2>3. Altered(calls[e], "recheck", server, TRUE, calls[e].outcome)
           = [calls[e] EXCEPT !.step = "recheck", !.server = server, !.unsure = TRUE]
    BY <1>1 DEF Altered, Call
  <2>4. calls' = [calls EXCEPT ![e] = Altered(@, "recheck", server, TRUE, calls[e].outcome)]
    BY <1>1, <2>2, <2>3
  <2>5. Effect(e, "recheck", server, TRUE, calls[e].outcome)
    BY <2>4, AlteredHasEffect
  <2>6. Quiet(e, "recheck", server, TRUE, calls[e].outcome)
    BY <1>2, <1>3, <1>4, <2>1, <2>5, AbandonedIsUnsent DEF Quiet, Undoing
  <2>7. QED
    BY <2>6, QuietKeepsFiles
<1>8. CASE Recheck(e)
  <2>1. calls[e].step = "recheck" /\ calls[e].unsure /\ calls[e].server # "sent"
    BY <1>1, <1>8 DEF Recheck, Staged
  <2>2. PICK step, outcome :
           /\ calls' = [calls EXCEPT ![e].step = step, ![e].outcome = outcome]
           /\ \/ step = "ended" /\ outcome \in {"synced", "unknown"}
              \/ step = "deleting" /\ outcome \in {"failed", "conflict"}
    BY <1>8 DEF Recheck, End
  <2>3. Effect(e, step, calls[e].server, calls[e].unsure, outcome)
    BY <2>2, EndHasEffect
  <2>4. Quiet(e, step, calls[e].server, calls[e].unsure, outcome)
    BY <1>2, <1>4, <2>1, <2>2, <2>3 DEF Quiet, Undoing, Failed
  <2>5. QED
    BY <2>4, QuietKeepsFiles
<1>9. QED
  BY <1>5, <1>6, <1>7, <1>8

\* A call that is stopped while it does not upload.
LEMMA StoppedKeepsFiles ==
  ASSUME StorageIInv, FilesIInv, NEW e \in Executions, UNCHANGED Rest,
         \/ /\ calls[e].step \in {"captured head", "captured rows", "working",
                                   "compared", "planned"}
            /\ End(e, "cancelled")
         \/ /\ calls[e].step \in {"committing", "recheck"}
            /\ \E server \in Abandoned(e) :
                  calls' = [calls EXCEPT ![e].step = "deleting", ![e].server = server,
                                         ![e].unsure = TRUE, ![e].outcome = "cancelled"]
         \/ /\ calls[e].step \notin {"idle", "ended"}
            /\ \E server \in Abandoned(e) :
                  calls' = [calls EXCEPT
                      ![e].step = "ended", ![e].server = server,
                      ![e].outcome = IF @ = "none" THEN "crashed" ELSE @]
  PROVE  FilesIInv'
<1>1. /\ calls \in [Executions -> Call] /\ calls[e] \in Call /\ Staged(calls[e])
      /\ Fits(calls[e])
  BY CallIsTyped DEF FilesIInv
<1>2. ASSUME calls[e].step \in {"captured head", "captured rows", "working",
                                "compared", "planned"},
             End(e, "cancelled")
      PROVE  FilesIInv'
  BY <1>2, EarlyEndKeepsFiles DEF Outcomes, Undoing
<1>3. ASSUME calls[e].step \in {"committing", "recheck"},
             NEW server \in Abandoned(e),
             calls' = [calls EXCEPT ![e].step = "deleting", ![e].server = server,
                                    ![e].unsure = TRUE, ![e].outcome = "cancelled"]
      PROVE  FilesIInv'
  <2>1. Altered(calls[e], "deleting", server, TRUE, "cancelled")
           = [calls[e] EXCEPT !.step = "deleting", !.server = server,
                              !.unsure = TRUE, !.outcome = "cancelled"]
    BY DEF Altered
  <2>2. calls' = [calls EXCEPT ![e] = Altered(@, "deleting", server, TRUE, "cancelled")]
    BY <1>1, <1>3, <2>1
  <2>3. Effect(e, "deleting", server, TRUE, "cancelled")
    BY <2>2, AlteredHasEffect
  <2>4. ~Over(e)
    BY <1>3 DEF Over, At
  <2>5. Quiet(e, "deleting", server, TRUE, "cancelled")
    BY <1>3, <2>3, <2>4, AbandonedIsUnsent DEF Quiet, Undoing, Failed
  <2>6. QED
    BY <2>5, QuietKeepsFiles
<1>4. ASSUME calls[e].step \notin {"idle", "ended"},
             NEW server \in Abandoned(e),
             calls' = [calls EXCEPT
                 ![e].step = "ended", ![e].server = server,
                 ![e].outcome = IF @ = "none" THEN "crashed" ELSE @]
      PROVE  FilesIInv'
  <2>1. PICK outcome \in Outcomes :
           outcome = IF calls[e].outcome = "none" THEN "crashed" ELSE calls[e].outcome
    BY CallIsTyped DEF Outcomes
  <2>2. Altered(calls[e], "ended", server, calls[e].unsure, outcome)
           = [calls[e] EXCEPT !.step = "ended", !.server = server, !.outcome = outcome]
    BY <1>1 DEF Altered, Call
  <2>3. calls' = [calls EXCEPT ![e] =
            Altered(@, "ended", server, calls[e].unsure, outcome)]
    BY <1>1, <1>4, <2>1, <2>2 DEF Call
  <2>4. Effect(e, "ended", server, calls[e].unsure, outcome)
    BY <2>3, AlteredHasEffect
  <2>5. ~Over(e)
    BY <1>4 DEF Over, At
  <2>6. /\ outcome \in Failed => calls[e].outcome \in Failed
        /\ Unsettled(e) => calls[e].unsure /\ outcome \in Failed
    BY <2>1 DEF Failed, Unsettled
  <2>7. outcome \in Failed /\ ~calls[e].unsure => server \in {"none", "refused"}
    BY <1>1, <2>6, AbandonedIsUnsent DEF Fits
  <2>8. Quiet(e, "ended", server, calls[e].unsure, outcome)
    BY <1>4, <2>4, <2>5, <2>6, <2>7, AbandonedIsUnsent DEF Quiet, Undoing
  <2>9. QED
    BY <2>8, QuietKeepsFiles
<1>5. QED
  BY <1>2, <1>3, <1>4

------------------------------------------------------------------------------
(* Steps of a call in the bucket and on the rows it has staged.            *)

LEMMA SameCall ==
  ASSUME NEW f \in Executions, calls'[f] = calls[f], UNCHANGED <<manifest, versions, outlived>>
  PROVE  /\ Planned(f)' = Planned(f)
         /\ Fits(calls[f]) => Fits(calls[f])'
         /\ MayCommit(calls[f])' => MayCommit(calls[f])
         /\ Excused(f) <=> Excused(f)'
         /\ Over(f) <=> Over(f)'
         /\ \A step : At(f, step)' <=> At(f, step)
<1>1. Planned(f)' = Planned(f) /\ Changed(calls[f])' = Changed(calls[f])
  BY DEF Planned, Changed, digest_of
<1>2. storage_revision' = storage_revision
  BY DEF storage_revision
<1>3. Fits(calls[f]) => Fits(calls[f])'
  BY <1>1, <1>2 DEF Fits, AllUploaded
<1>4. QED
  BY <1>1, <1>3 DEF MayCommit, Excused, Unsettled, Over, At

\* What a step of one call must keep of its own.
LEMMA OwnStepKeepsFiles ==
  ASSUME StorageIInv, FilesIInv, StorageIInv', NEW e \in Executions,
         UNCHANGED <<manifest, versions, old, outlived, cleaner>>,
         \A f \in Executions \ {e} : calls'[f] = calls[f],
         \A k \in Key : k.by # e =>
            /\ k \in objects' <=> k \in objects
            /\ k \in landing' => k \in landing
            /\ staged'[k] = staged[k],
         Excused(e) => Excused(e)', Over(e) => Over(e)',
         Fits(calls[e])', FilesWait(e)', RowsWait(e)', FilesGone(e)',
         \A k \in landing' : k.by = e => Lands(k)',
         \A k \in cleaner.keys : k.by = e /\ cleaner.step = "marking" /\ k \in objects' =>
            k.content \notin calls'[e].uploaded \/ e \in outlived,
         \A p \in Paths : manifest[p] # NoFile /\ manifest[p].by = e =>
            (manifest[p] \in objects' /\ staged'[manifest[p]] = "COMMITTED") \/ Excused(e)',
         \A k \in objects' : k.by = e =>
            \/ staged'[k] \in {"PENDING", "COMMITTED", "CLEANUP_FAILED"}
            \/ k.content \notin calls'[e].uploaded \/ e \in outlived
  PROVE  FilesIInv'
<1>1. /\ manifest \in Manifest /\ cleaner.keys \subseteq Key /\ landing' \subseteq Key
      /\ objects' \subseteq Key /\ old \subseteq Executions
  BY DEF StorageIInv, ManifestMatchesDigest, StorageTypeOK
<1>2. \A k \in Key : k.by \in Executions
  BY DEF Key
<1>3. ASSUME NEW f \in Executions \ {e}
      PROVE  /\ Planned(f)' = Planned(f) /\ Fits(calls[f])'
             /\ MayCommit(calls[f])' => MayCommit(calls[f])
             /\ Excused(f) => Excused(f)'
             /\ Over(f) => Over(f)'
             /\ \A step : At(f, step)' <=> At(f, step)
  BY SameCall DEF FilesIInv
<1>4. \A f \in Executions : \A k \in Planned(f) : k.by = f
  BY PlannedIsOwn
<1>5. \A f \in Executions : Planned(f) \subseteq Key
  BY PlannedAreKeys DEF StorageIInv, ManifestMatchesDigest
<1>6. ASSUME NEW f \in Executions
      PROVE  Fits(calls[f])' /\ FilesWait(f)' /\ RowsWait(f)' /\ FilesGone(f)'
  <2>1. CASE f = e
    BY <2>1
  <2>2. CASE f # e
    <3>1. FilesWait(f)'
      BY <1>3, <1>4, <1>5, <2>2 DEF FilesIInv, FilesWait
    <3>2. RowsWait(f)' /\ FilesGone(f)'
      BY <1>3, <1>4, <1>5, <2>2 DEF FilesIInv, RowsWait, FilesGone
    <3>3. QED
      BY <1>3, <2>2, <3>1, <3>2
  <2>3. QED
    BY <2>1, <2>2
<1>7. \A f \in Executions : Excused(f) => Excused(f)'
  BY <1>3
<1>8. Aged'
  BY <1>1, <1>3 DEF FilesIInv, Aged
<1>9. ASSUME NEW k \in cleaner.keys
      PROVE  Sweeps(k)'
  <2>1. k \in Key /\ k.by \in Executions /\ Sweeps(k)
    BY <1>1, <1>2 DEF FilesIInv
  <2>2. \A p \in Paths : manifest[p] = k => Excused(k.by)'
    BY <1>7, <2>1 DEF Sweeps
  <2>3. cleaner.step = "marking" /\ k \in objects' =>
          k.content \notin calls'[k.by].uploaded \/ k.by \in outlived
    BY <2>1 DEF Sweeps
  <2>4. QED
    BY <2>1, <2>2, <2>3 DEF Sweeps
<1>10. ASSUME NEW k \in landing'
       PROVE  Lands(k)'
  <2>1. k \in Key /\ k.by \in Executions
    BY <1>1, <1>2
  <2>2. CASE k.by # e
    BY <2>1, <2>2 DEF FilesIInv, Lands
  <2>3. QED
    BY <2>2
<1>11. ASSUME NEW p \in Paths, manifest[p] # NoFile
       PROVE  /\ staged'[manifest[p]] = "COMMITTED" \/ Excused(manifest[p].by)'
              /\ manifest[p] \in objects' \/ Excused(manifest[p].by)'
  <2>1. manifest[p] \in Key /\ manifest[p].by \in Executions
    BY <1>1, <1>2, <1>11 DEF Manifest
  <2>2. CASE manifest[p].by # e
    <3>1. staged[manifest[p]] = "COMMITTED" \/ Excused(manifest[p].by)
      BY <1>11 DEF FilesIInv, RowIsKept
    <3>2. manifest[p] \in objects \/ Excused(manifest[p].by)
      BY <1>11 DEF FilesIInv, ManifestBacked, Excused
    <3>3. QED
      BY <1>7, <2>1, <2>2, <3>1, <3>2
  <2>3. QED
    BY <1>11, <2>2
<1>12. \A p \in Paths : RowIsKept(p)'
  BY <1>11 DEF RowIsKept
<1>13. ManifestBacked'
  BY <1>11 DEF ManifestBacked, Excused
<1>14. HaveRows'
  <2>1. ASSUME NEW k \in objects', k.by # e
        PROVE  \/ staged'[k] \in {"PENDING", "COMMITTED", "CLEANUP_FAILED"}
               \/ k.content \notin calls'[k.by].uploaded \/ k.by \in outlived
    <3>1. k \in Key /\ k.by \in Executions /\ k \in objects
      BY <1>1, <1>2, <2>1
    <3>2. QED
      BY <2>1, <3>1 DEF FilesIInv, HaveRows
  <2>2. QED
    BY <2>1 DEF HaveRows
<1>15. QED
  BY <1>6, <1>8, <1>9, <1>10, <1>12, <1>13, <1>14 DEF FilesIInv

LEMMA SetRowsSets ==
  ASSUME NEW keys, NEW status, SetRows(keys, status), NEW k \in Key
  PROVE  /\ k \in keys => staged'[k] = status
         /\ k \notin keys => staged'[k] = staged[k]
BY DEF SetRows

\* A call that has sent no commit has no row in the manifest, and while it runs
\* it is not over.
LEMMA UnsentIsAbsent ==
  ASSUME StorageIInv, FilesIInv, NEW e \in Executions,
         calls[e].step \in {"planned", "uploading"}
  PROVE  /\ calls[e].server = "none" /\ calls[e].outcome = "none"
         /\ \A p \in Paths : manifest[p] # NoFile => manifest[p].by # e
         /\ \A k \in landing : k.by # e
         /\ e \in old => e \in outlived
         /\ ~Unsettled(e) /\ ~Over(e)
<1>1. Staged(calls[e])
  BY CallIsTyped
<1>2. calls[e].server = "none" /\ calls[e].outcome = "none"
  BY <1>1 DEF Staged, Undoing
<1>3. \A p \in Paths : manifest[p] # NoFile => manifest[p].by # e
  BY <1>2 DEF StorageIInv, Committed
<1>4. \A k \in landing : k.by # e
  BY DEF FilesIInv, Lands, Undoing
<1>5. ~Unsettled(e) /\ ~Over(e)
  BY <1>2 DEF Unsettled, Over, At
<1>6. QED
  BY <1>2, <1>3, <1>4, <1>5 DEF FilesIInv, Aged

\* A call that cleans up knows of the commit it has sent, or is unsettled.
LEMMA UndoingIsExcused ==
  ASSUME StorageIInv, FilesIInv, NEW e \in Executions,
         calls[e].step \in Undoing \ {"ended"}
  PROVE  /\ calls[e].outcome \in Failed /\ ~Over(e)
         /\ MayCommit(calls[e]) => Unsettled(e)
         /\ \A p \in Paths : manifest[p] # NoFile /\ manifest[p].by = e => Unsettled(e)
<1>1. Staged(calls[e]) /\ Fits(calls[e]) /\ calls[e].unsure \in BOOLEAN
  BY CallIsTyped DEF FilesIInv
<1>2. calls[e].outcome \in Failed /\ ~Over(e)
  BY <1>1 DEF Fits, Over, At, Undoing
<1>3. calls[e].server \notin {"none", "refused"} => Unsettled(e)
  BY <1>1, <1>2 DEF Fits, Unsettled, Failed
<1>4. MayCommit(calls[e]) => calls[e].server \notin {"none", "refused"}
  BY DEF MayCommit, Undoing
<1>5. \A p \in Paths : manifest[p] # NoFile /\ manifest[p].by = e =>
         calls[e].server = "done"
  BY DEF StorageIInv, Committed
<1>6. QED
  BY <1>2, <1>3, <1>4, <1>5

LEMMA RecordPendingKeepsFiles ==
  ASSUME StorageIInv, FilesIInv, StorageIInv', NEW e \in Executions, RecordPending(e)
  PROVE  FilesIInv'
<1>1. /\ UNCHANGED <<manifest, versions, objects, landing, old, outlived, cleaner>>
      /\ calls[e].step = "planned"
  BY DEF RecordPending, At, bucket, elsewhere
<1>2. CASE UNCHANGED staged /\ End(e, "failed")
  BY <1>1, <1>2, EarlyEndKeepsFiles DEF Rest, Undoing, Outcomes
<1>3. ASSUME SetRows(Planned(e), "PENDING"), Goto(e, "uploading") \/ End(e, "failed")
      PROVE  FilesIInv'
  <2>1. PICK step, outcome :
           /\ Effect(e, step, calls[e].server, calls[e].unsure, outcome)
           /\ \/ step = "uploading" /\ outcome = calls[e].outcome
              \/ step = "ended" /\ outcome = "failed"
    BY <1>3, GotoHasEffect, EndHasEffect DEF End
  <2>2. /\ \A f \in Executions \ {e} : calls'[f] = calls[f]
        /\ calls'[e].step = step /\ calls'[e].server = "none"
        /\ calls'[e].outcome = outcome
        /\ calls'[e].revision = calls[e].revision /\ calls'[e].rows = calls[e].rows
        /\ calls'[e].uploaded = calls[e].uploaded
        /\ Planned(e)' = Planned(e)
    BY <1>1, <2>1, UnsentIsAbsent, EffectKeepsPlan DEF Effect
  <2>3. Fits(calls[e]) /\ calls[e].uploaded = {} /\ calls[e].outcome = "none"
    BY <1>1, UnsentIsAbsent DEF FilesIInv, Fits, Undoing
  <2>4. storage_revision' = storage_revision
    BY <1>1 DEF storage_revision
  <2>5. Fits(calls[e])'
    BY <1>1, <2>1, <2>2, <2>3, <2>4 DEF Fits, Undoing, Failed
  <2>6. Planned(e) \subseteq Key /\ \A k \in Planned(e) : k.by = e
    BY PlannedAreKeys, PlannedIsOwn DEF StorageIInv, ManifestMatchesDigest
  <2>7. \A k \in Key : IF k \in Planned(e) THEN staged'[k] = "PENDING"
                                            ELSE staged'[k] = staged[k]
    BY <1>3, SetRowsSets
  <2>8. FilesWait(e)' /\ FilesGone(e)'
    BY <2>2, <2>3 DEF FilesWait, FilesGone
  <2>9. RowsWait(e)'
    BY <2>2, <2>6, <2>7 DEF RowsWait
  <2>10. Excused(e) => Excused(e)'
    BY <1>1, UnsentIsAbsent DEF Excused
  <2>11. ASSUME NEW k \in objects', k.by = e
         PROVE  k.content \notin calls'[e].uploaded
    BY <2>2, <2>3
  <2>12. \A k \in Key : k.by # e => k \notin Planned(e)
    BY <2>6
  <2>13. QED
    BY <1>1, <2>2, <2>3, <2>5, <2>7, <2>8, <2>9, <2>10, <2>12, UnsentIsAbsent, OwnStepKeepsFiles
<1>4. QED
  BY <1>2, <1>3 DEF RecordPending

LEMMA UploadKeepsFiles ==
  ASSUME StorageIInv, FilesIInv, StorageIInv', NEW e \in Executions, NEW n \in Key,
         Upload(e, n)
  PROVE  FilesIInv'
<1>1. /\ UNCHANGED <<manifest, versions, staged, landing, old, outlived, cleaner>>
      /\ calls[e].step = "uploading" /\ n \in Planned(e)
      /\ objects' = objects \cup {n}
  BY DEF Upload, At, ToUpload, database, elsewhere
<1>2. /\ calls \in [Executions -> Call] /\ calls[e] \in Call
  BY CallIsTyped
<1>3. /\ \A f \in Executions \ {e} : calls'[f] = calls[f]
      /\ calls'[e].uploaded = calls[e].uploaded \cup {n.content}
      /\ calls'[e].step = "uploading" /\ calls'[e].server = calls[e].server
      /\ calls'[e].outcome = calls[e].outcome /\ calls'[e].unsure = calls[e].unsure
      /\ calls'[e].revision = calls[e].revision /\ calls'[e].rows = calls[e].rows
      /\ calls'[e].wanted = calls[e].wanted
  BY <1>1, <1>2 DEF Upload, Call
<1>4. Planned(e)' = Planned(e)
  <2>1. Changed(calls[e])' = Changed(calls[e])
    BY <1>3 DEF Changed, digest_of
  <2>2. QED
    BY <1>3, <2>1 DEF Planned
<1>5. storage_revision' = storage_revision
  BY <1>1 DEF storage_revision
<1>6. Fits(calls[e])'
  <2>1. Fits(calls[e]) /\ calls[e].server = "none" /\ calls[e].outcome = "none"
    BY <1>1, UnsentIsAbsent DEF FilesIInv
  <2>2. calls'[e].revision <= storage_revision'
    BY <1>3, <1>5, <2>1 DEF Fits
  <2>3. calls[e].revision = storage_revision => calls[e].rows = manifest
    BY <1>1, <2>1 DEF Fits
  <2>4. QED
    BY <1>1, <1>3, <1>5, <2>1, <2>2, <2>3 DEF Fits, Undoing, Failed
<1>7. n.by = e /\ \A k \in Key : k.by = e /\ k.content = n.content => k = n
  <2>1. n.by = e
    BY <1>1, PlannedIsOwn
  <2>2. QED
    BY <2>1 DEF Key
<1>8. Planned(e) \subseteq Key /\ \A k \in Planned(e) : k.by = e
  BY PlannedAreKeys, PlannedIsOwn DEF StorageIInv, ManifestMatchesDigest
<1>9. Excused(e) <=> Excused(e)'
  BY <1>1, <1>3 DEF Excused, Unsettled
<1>10. FilesWait(e)'
  <2>1. ASSUME NEW k \in Planned(e), k.content \in calls'[e].uploaded
        PROVE  k \in objects' \/ Excused(e)'
    <3>1. CASE k.content \in calls[e].uploaded
      BY <1>1, <1>9, <3>1 DEF FilesIInv, FilesWait, MayCommit
    <3>2. CASE k.content = n.content
      BY <1>1, <1>7, <1>8, <3>2
    <3>3. QED
      BY <1>3, <2>1, <3>1, <3>2
  <2>2. QED
    BY <1>4, <2>1 DEF FilesWait
<1>11. RowsWait(e)' /\ FilesGone(e)'
  BY <1>1, <1>3, <1>4 DEF FilesIInv, RowsWait, FilesGone, At
<1>12. ASSUME NEW k \in objects', k.by = e
       PROVE  \/ staged'[k] \in {"PENDING", "COMMITTED", "CLEANUP_FAILED"}
              \/ k.content \notin calls'[e].uploaded \/ e \in outlived
  <2>1. CASE k = n
    BY <1>1, <2>1 DEF FilesIInv, RowsWait, At
  <2>2. CASE k # n
    <3>1. k \in objects /\ k \in Key
      BY <1>1, <2>2 DEF StorageIInv, ManifestMatchesDigest, StorageTypeOK
    <3>2. k.content # n.content
      BY <1>7, <1>12, <2>2, <3>1
    <3>3. QED
      BY <1>1, <1>3, <1>12, <3>1, <3>2 DEF FilesIInv, HaveRows
  <2>3. QED
    BY <2>1, <2>2
<1>13. \A k \in cleaner.keys : k.by = e => e \in outlived
  BY <1>1, UnsentIsAbsent DEF FilesIInv, Sweeps
<1>14. /\ \A k \in Key : k.by # e => (k \in objects' <=> k \in objects)
       /\ ~Over(e) /\ \A p \in Paths : manifest[p] # NoFile => manifest[p].by # e
       /\ \A k \in landing' : k.by # e
  BY <1>1, <1>7, UnsentIsAbsent
<1>15. QED
  BY <1>1, <1>3, <1>6, <1>9, <1>10, <1>11, <1>12, <1>13, <1>14, OwnStepKeepsFiles

LEMMA GiveUpUploadKeepsFiles ==
  ASSUME StorageIInv, FilesIInv, StorageIInv', NEW e \in Executions, NEW n \in Key,
         NEW outcome \in {"failed", "cancelled", "crashed"}, GiveUpUpload(e, n, outcome)
  PROVE  FilesIInv'
<1>1. /\ UNCHANGED <<manifest, versions, staged, old, outlived, cleaner>>
      /\ calls[e].step = "uploading" /\ n \in Planned(e)
      /\ n.content \notin calls[e].uploaded
      /\ objects' \subseteq objects \cup {n} /\ objects \subseteq objects'
      /\ landing' \subseteq landing \cup {n}
  BY DEF GiveUpUpload, At, ToUpload, database, elsewhere
<1>2. /\ calls \in [Executions -> Call] /\ calls[e] \in Call
  BY CallIsTyped
<1>3. PICK step : /\ calls' = [calls EXCEPT ![e].step = step, ![e].outcome = outcome]
                  /\ \/ step = "ended"
                     \/ step = "deleting" /\ outcome \in Failed
  <2>1. PICK step : /\ calls' = [calls EXCEPT ![e].outcome = outcome, ![e].step = step]
                    /\ \/ step = "ended"
                       \/ step = "deleting" /\ outcome \in Failed
    BY DEF GiveUpUpload, Failed
  <2>2. calls' = [calls EXCEPT ![e].step = step, ![e].outcome = outcome]
    BY <1>2, <2>1 DEF Call
  <2>3. QED
    BY <2>1, <2>2
<1>4. Effect(e, step, calls[e].server, calls[e].unsure, outcome)
  BY <1>3, EndHasEffect
<1>5. /\ \A f \in Executions \ {e} : calls'[f] = calls[f]
      /\ calls'[e].step \in {"ended", "deleting"} /\ calls'[e].server = "none"
      /\ calls'[e].outcome = outcome
      /\ calls'[e].step = "deleting" => outcome \in Failed
      /\ calls'[e].revision = calls[e].revision
      /\ calls'[e].uploaded = calls[e].uploaded
  BY <1>1, <1>3, <1>4, UnsentIsAbsent DEF Effect
<1>6. storage_revision' = storage_revision /\ calls[e].revision <= storage_revision
  BY <1>1 DEF storage_revision, FilesIInv, Fits
<1>7. Fits(calls[e])'
  BY <1>5, <1>6 DEF Fits, Undoing
<1>8. FilesWait(e)' /\ RowsWait(e)' /\ FilesGone(e)'
  BY <1>5 DEF FilesWait, RowsWait, FilesGone, MayCommit, At
<1>9. n.by = e
  BY <1>1, PlannedIsOwn
<1>10. /\ ~Unsettled(e) /\ ~Over(e)
       /\ \A p \in Paths : manifest[p] # NoFile => manifest[p].by # e
       /\ \A k \in landing : k.by # e
       /\ e \in old => e \in outlived
  BY <1>1, UnsentIsAbsent
<1>11. Excused(e) => Excused(e)'
  BY <1>1, <1>10 DEF Excused
<1>12. ASSUME NEW k \in landing', k.by = e
       PROVE  Lands(k)'
  <2>1. k = n
    BY <1>1, <1>10, <1>12
  <2>2. QED
    BY <1>1, <1>5, <1>9, <2>1 DEF Lands, Undoing
<1>13. \A k \in cleaner.keys : k.by = e => e \in outlived
  BY <1>10 DEF FilesIInv, Sweeps
<1>14. ASSUME NEW k \in objects', k.by = e
       PROVE  \/ staged'[k] \in {"PENDING", "COMMITTED", "CLEANUP_FAILED"}
              \/ k.content \notin calls'[e].uploaded \/ e \in outlived
  <2>1. CASE k = n
    BY <1>1, <1>5, <2>1
  <2>2. CASE k \in objects
    BY <1>1, <1>5, <1>14, <2>2 DEF FilesIInv, HaveRows
  <2>3. QED
    BY <1>1, <2>1, <2>2
<1>15. \A k \in Key : k.by # e => (k \in objects' <=> k \in objects)
                                 /\ (k \in landing' => k \in landing)
  BY <1>1, <1>9
<1>16. QED
  BY <1>1, <1>5, <1>7, <1>8, <1>10, <1>11, <1>12, <1>13, <1>14, <1>15, OwnStepKeepsFiles

LEMMA UploadLandsKeepsFiles ==
  ASSUME StorageIInv, FilesIInv, StorageIInv', NEW n \in Key, UploadLands(n)
  PROVE  FilesIInv'
<1>1. PICK e \in Executions : n.by = e
  BY DEF Key
<1>2. /\ UNCHANGED <<manifest, versions, staged, calls, old, outlived, cleaner>>
      /\ objects' = objects \cup {n} /\ landing' \subseteq landing
  BY DEF UploadLands, database, elsewhere
<1>3. calls[e].step \in Undoing /\ n.content \notin calls[e].uploaded
  BY <1>1 DEF UploadLands, FilesIInv, Lands
<1>4. /\ Planned(e)' = Planned(e) /\ Fits(calls[e])'
      /\ MayCommit(calls[e])' => MayCommit(calls[e])
      /\ Excused(e) <=> Excused(e)'
      /\ Over(e) <=> Over(e)'
      /\ \A step : At(e, step)' <=> At(e, step)
  BY <1>2, SameCall DEF FilesIInv
<1>5. FilesWait(e)' /\ RowsWait(e)'
  BY <1>2, <1>4 DEF FilesIInv, FilesWait, RowsWait
<1>6. FilesGone(e)'
  BY <1>2, <1>3, <1>4 DEF FilesIInv, FilesGone
<1>7. \A k \in landing' : k.by = e => Lands(k)'
  BY <1>2 DEF FilesIInv, Lands
<1>8. \A k \in cleaner.keys : k.by = e /\ cleaner.step = "marking" /\ k \in objects' =>
         k.content \notin calls'[e].uploaded \/ e \in outlived
  BY <1>2, <1>3 DEF FilesIInv, Sweeps
<1>9. \A p \in Paths : manifest[p] # NoFile /\ manifest[p].by = e =>
         (manifest[p] \in objects' /\ staged'[manifest[p]] = "COMMITTED") \/ Excused(e)'
  BY <1>2, <1>4 DEF FilesIInv, ManifestBacked, RowIsKept, Excused
<1>10. \A k \in objects' : k.by = e =>
          \/ staged'[k] \in {"PENDING", "COMMITTED", "CLEANUP_FAILED"}
          \/ k.content \notin calls'[e].uploaded \/ e \in outlived
  BY <1>2, <1>3 DEF FilesIInv, HaveRows
<1>11. \A k \in Key : k.by # e => (k \in objects' <=> k \in objects)
  BY <1>1, <1>2
<1>12. QED
  BY <1>2, <1>4, <1>5, <1>6, <1>7, <1>8, <1>9, <1>10, <1>11, OwnStepKeepsFiles

LEMMA UndoingKeepsFiles ==
  ASSUME StorageIInv, FilesIInv, StorageIInv', NEW e \in Executions,
         DeletePlanned(e) \/ Mark(e) \/ MarkFailed(e)
  PROVE  FilesIInv'
<1>1. /\ UNCHANGED <<manifest, versions, landing, old, outlived, cleaner>>
      /\ calls[e].step \in Undoing \ {"ended"}
  BY DEF DeletePlanned, Mark, MarkFailed, At, database, bucket, elsewhere, Undoing
<1>2. PICK step \in Undoing :
         /\ Goto(e, step)
         /\ step = "marking" => objects' = objects \ Planned(e) /\ UNCHANGED staged
  BY DEF DeletePlanned, Mark, MarkFailed, Undoing, database
<1>3. Effect(e, step, calls[e].server, calls[e].unsure, calls[e].outcome)
  BY <1>2, GotoHasEffect
<1>4. /\ \A f \in Executions \ {e} : calls'[f] = calls[f]
      /\ calls'[e].step = step /\ calls'[e].server = calls[e].server
      /\ calls'[e].outcome = calls[e].outcome /\ calls'[e].unsure = calls[e].unsure
      /\ calls'[e].revision = calls[e].revision /\ calls'[e].rows = calls[e].rows
      /\ calls'[e].uploaded = calls[e].uploaded /\ calls'[e].wanted = calls[e].wanted
      /\ Planned(e)' = Planned(e)
      /\ AllUploaded(calls[e])' <=> AllUploaded(calls[e])
  BY <1>3, EffectKeepsPlan DEF Effect
<1>5. /\ calls[e].outcome \in Failed /\ ~Over(e)
      /\ MayCommit(calls[e]) => Unsettled(e)
      /\ \A p \in Paths : manifest[p] # NoFile /\ manifest[p].by = e => Unsettled(e)
  BY <1>1, UndoingIsExcused
<1>6. Fits(calls[e])'
  <2>1. Fits(calls[e]) /\ storage_revision' = storage_revision
    BY <1>1 DEF FilesIInv, storage_revision
  <2>2. AllUploaded(calls[e]) => AllUploaded(calls'[e])
    BY <1>4 DEF AllUploaded, Changed, digest_of
  <2>3. calls'[e].revision <= storage_revision'
    BY <1>4, <2>1 DEF Fits
  <2>4. calls'[e].server \in {"sent", "adrift"} =>
          /\ AllUploaded(calls'[e])
          /\ calls'[e].revision = storage_revision' => calls'[e].rows = manifest'
    BY <1>1, <1>4, <2>1, <2>2 DEF Fits
  <2>5. QED
    BY <1>1, <1>2, <1>4, <1>5, <2>1, <2>3, <2>4 DEF Fits, Undoing
<1>7. (Unsettled(e) => Unsettled(e)') /\ (Excused(e) => Excused(e)')
  BY <1>1, <1>4 DEF Unsettled, Excused
<1>8. FilesWait(e)' /\ RowsWait(e)'
  BY <1>1, <1>2, <1>4, <1>5, <1>7 DEF FilesWait, RowsWait, MayCommit, Excused, At, Undoing
<1>9. FilesGone(e)'
  BY <1>2, <1>4 DEF FilesGone, At
<1>10. \A k \in Planned(e) : k.by = e
  BY PlannedIsOwn
<1>11. objects' \in {objects, objects \ Planned(e)}
  BY DEF DeletePlanned, Mark, MarkFailed, bucket
<1>12. \A k \in Key : k \in Planned(e) \/ staged'[k] = staged[k]
  <2>1. \/ UNCHANGED staged
        \/ SetRows(Planned(e), "CLEANED") \/ SetRows(Planned(e), "CLEANUP_FAILED")
    BY DEF DeletePlanned, Mark, MarkFailed, database
  <2>2. QED
    BY <2>1, SetRowsSets
<1>13. ASSUME NEW k \in objects', k.by = e
       PROVE  \/ staged'[k] \in {"PENDING", "COMMITTED", "CLEANUP_FAILED"}
              \/ k.content \notin calls'[e].uploaded \/ e \in outlived
  <2>1. k \in objects /\ k \in Key
    BY <1>11 DEF StorageIInv, ManifestMatchesDigest, StorageTypeOK
  <2>2. \/ staged[k] \in {"PENDING", "COMMITTED", "CLEANUP_FAILED"}
        \/ k.content \notin calls[e].uploaded \/ e \in outlived
    BY <1>13, <2>1 DEF FilesIInv, HaveRows
  <2>3. CASE UNCHANGED staged
    BY <1>4, <2>2, <2>3
  <2>4. CASE Mark(e)
    <3>1. k \in Planned(e) => k.content \notin calls[e].uploaded
      BY <2>1, <2>4 DEF Mark, FilesIInv, FilesGone
    <3>2. QED
      BY <1>4, <1>12, <2>1, <2>2, <3>1
  <2>5. CASE SetRows(Planned(e), "CLEANUP_FAILED")
    BY <1>4, <2>1, <2>2, <2>5, SetRowsSets
  <2>6. QED
    BY <2>3, <2>4, <2>5 DEF DeletePlanned, MarkFailed, database
<1>14. \A k \in landing' : k.by = e => Lands(k)'
  BY <1>1, <1>2, <1>4 DEF FilesIInv, Lands
<1>15. \A k \in cleaner.keys : k.by = e /\ cleaner.step = "marking" /\ k \in objects' =>
          k.content \notin calls'[e].uploaded \/ e \in outlived
  BY <1>4, <1>11 DEF FilesIInv, Sweeps
<1>16. \A p \in Paths : manifest[p] # NoFile /\ manifest[p].by = e => Excused(e)'
  BY <1>5, <1>7 DEF Excused
<1>17. \A k \in Key : k.by # e => (k \in objects' <=> k \in objects) /\ staged'[k] = staged[k]
  BY <1>10, <1>11, <1>12
<1>18. QED
  BY <1>1, <1>4, <1>5, <1>6, <1>7, <1>8, <1>9, <1>13, <1>14, <1>15, <1>16, <1>17,
     OwnStepKeepsFiles

------------------------------------------------------------------------------
(* The commit at the server.                                               *)

LEMMA SentIsUnderWay ==
  ASSUME StorageIInv, FilesIInv, NEW e \in Executions,
         calls[e].server \in {"sent", "adrift"}
  PROVE  /\ calls[e].step \in Undoing \cup {"committing", "recheck"}
         /\ ~Over(e) /\ (e \in old => e \in outlived)
         /\ ~(calls[e].outcome \in Failed /\ ~calls[e].unsure)
         /\ AllUploaded(calls[e]) /\ calls[e].revision <= storage_revision
         /\ calls[e].revision = storage_revision => calls[e].rows = manifest
<1>1. Staged(calls[e]) /\ Fits(calls[e])
  BY CallIsTyped DEF FilesIInv
<1>2. calls[e].step \in Undoing \cup {"committing", "recheck"} /\ ~Over(e)
  BY <1>1 DEF Staged, Over, At, Undoing
<1>3. QED
  BY <1>1, <1>2 DEF Fits, FilesIInv, Aged

LEMMA AnsweredHasEffect ==
  ASSUME StorageIInv, NEW e \in Executions, NEW server,
         calls' = [calls EXCEPT ![e].server = server]
  PROVE  Effect(e, calls[e].step, server, calls[e].unsure, calls[e].outcome)
<1>1. /\ calls \in [Executions -> Call] /\ calls[e] \in Call
  BY CallIsTyped
<1>2. Altered(calls[e], calls[e].step, server, calls[e].unsure, calls[e].outcome)
         = [calls[e] EXCEPT !.server = server]
  BY <1>1 DEF Altered, Call
<1>3. calls' = [calls EXCEPT ![e] =
         Altered(@, calls[e].step, server, calls[e].unsure, calls[e].outcome)]
  BY <1>1, <1>2
<1>4. QED
  BY <1>3, AlteredHasEffect

LEMMA RefusalKeepsFiles ==
  ASSUME StorageIInv, FilesIInv, StorageIInv', NEW e \in Executions, UNCHANGED Rest,
         calls[e].server \in {"sent", "adrift"},
         calls' = [calls EXCEPT ![e].server = "refused"]
  PROVE  FilesIInv'
<1>1. /\ UNCHANGED <<manifest, versions, staged, objects, landing, old, outlived, cleaner>>
  BY DEF Rest
<1>2. Effect(e, calls[e].step, "refused", calls[e].unsure, calls[e].outcome)
  BY AnsweredHasEffect
<1>3. /\ \A f \in Executions \ {e} : calls'[f] = calls[f]
      /\ calls'[e].step = calls[e].step /\ calls'[e].server = "refused"
      /\ calls'[e].outcome = calls[e].outcome /\ calls'[e].unsure = calls[e].unsure
      /\ calls'[e].revision = calls[e].revision
      /\ calls'[e].uploaded = calls[e].uploaded
      /\ Planned(e)' = Planned(e)
  BY <1>2, EffectKeepsPlan DEF Effect
<1>4. /\ calls[e].step \in Undoing \cup {"committing", "recheck"} /\ ~Over(e)
      /\ Fits(calls[e]) /\ storage_revision' = storage_revision
  BY <1>1, SentIsUnderWay DEF FilesIInv, storage_revision
<1>5. Fits(calls[e])'
  BY <1>3, <1>4 DEF Fits, Undoing
<1>6. Excused(e) => Excused(e)'
  BY <1>1, <1>3 DEF Excused, Unsettled
<1>7. FilesWait(e)' /\ RowsWait(e)' /\ FilesGone(e)'
  BY <1>1, <1>3, <1>4, <1>6
  DEF FilesIInv, FilesWait, RowsWait, FilesGone, MayCommit, At, Undoing
<1>8. \A k \in landing' : k.by = e => Lands(k)'
  BY <1>1, <1>3 DEF FilesIInv, Lands
<1>9. \A k \in cleaner.keys : k.by = e /\ cleaner.step = "marking" /\ k \in objects' =>
         k.content \notin calls'[e].uploaded \/ e \in outlived
  BY <1>1, <1>3 DEF FilesIInv, Sweeps
<1>10. \A p \in Paths : manifest[p] # NoFile /\ manifest[p].by = e =>
          (manifest[p] \in objects' /\ staged'[manifest[p]] = "COMMITTED") \/ Excused(e)'
  BY <1>1, <1>6 DEF FilesIInv, ManifestBacked, RowIsKept, Excused
<1>11. \A k \in objects' : k.by = e =>
          \/ staged'[k] \in {"PENDING", "COMMITTED", "CLEANUP_FAILED"}
          \/ k.content \notin calls'[e].uploaded \/ e \in outlived
  BY <1>1, <1>3 DEF FilesIInv, HaveRows
<1>12. QED
  BY <1>1, <1>3, <1>4, <1>5, <1>6, <1>7, <1>8, <1>9, <1>10, <1>11, OwnStepKeepsFiles

\* Only a call that read the manifest as it is switches it, and the files it
\* switches to are in the bucket, unless it has given them up.
LEMMA SwitchKeepsFiles ==
  ASSUME StorageIInv, FilesIInv, StorageIInv', NEW e \in Executions,
         calls[e].server \in {"sent", "adrift"}, Switch(e), UNCHANGED <<bucket, elsewhere>>
  PROVE  FilesIInv'
<1>1. /\ UNCHANGED <<objects, landing, old, outlived, cleaner>>
      /\ SetRows(Planned(e), "COMMITTED")
      /\ manifest' = NewManifest(e)
      /\ versions' = Append(versions, calls[e].wanted)
      /\ calls' = [calls EXCEPT ![e].server = "done"]
  BY DEF Switch, bucket, elsewhere
<1>2. Effect(e, calls[e].step, "done", calls[e].unsure, calls[e].outcome)
  BY <1>1, AnsweredHasEffect
<1>3. /\ \A f \in Executions \ {e} : calls'[f] = calls[f]
      /\ calls'[e].step = calls[e].step /\ calls'[e].server = "done"
      /\ calls'[e].outcome = calls[e].outcome /\ calls'[e].unsure = calls[e].unsure
      /\ calls'[e].revision = calls[e].revision
      /\ calls'[e].uploaded = calls[e].uploaded
  BY <1>2 DEF Effect
<1>4. \A f \in Executions : Planned(f)' = Planned(f)
  BY <1>2, EffectKeepsPlan
<1>5. /\ calls[e].step \in Undoing \cup {"committing", "recheck"}
      /\ ~Over(e) /\ (e \in old => e \in outlived)
      /\ ~(calls[e].outcome \in Failed /\ ~calls[e].unsure)
      /\ AllUploaded(calls[e])
  BY SentIsUnderWay
<1>6. /\ storage_revision \in Nat /\ storage_revision' = storage_revision + 1
      /\ \A f \in Executions : calls[f].revision \in Nat
  <2>1. /\ versions \in Seq(Digest) /\ versions # <<>> /\ calls[e].wanted \in Digest
        /\ \A f \in Executions : calls[f] \in Call
    BY CallIsTyped DEF StorageIInv, ManifestMatchesDigest, StorageTypeOK, Call
  <2>2. Len(versions') = Len(versions) + 1 /\ Len(versions) \in Nat \ {0}
    BY <1>1, <2>1
  <2>3. QED
    BY <2>1, <2>2 DEF storage_revision, Call
<1>7. calls[e].rows = manifest
  BY SentIsUnderWay DEF Switch, IsCurrent
<1>8. /\ manifest \in Manifest /\ objects \subseteq Key /\ cleaner.keys \subseteq Key
      /\ landing \subseteq Key /\ old \subseteq Executions
      /\ \A k \in Key : k.by \in Executions
  BY DEF StorageIInv, ManifestMatchesDigest, StorageTypeOK, Key
<1>9. Planned(e) \subseteq Key /\ \A f \in Executions : \A k \in Planned(f) : k.by = f
  BY PlannedAreKeys, PlannedIsOwn DEF StorageIInv, ManifestMatchesDigest
<1>10. \A k \in Planned(e) : k.content \in calls[e].uploaded
  BY <1>5 DEF AllUploaded, Planned
<1>11. ASSUME NEW p \in Paths, manifest'[p] # NoFile
       PROVE  \/ manifest'[p] = manifest[p] /\ manifest[p] # NoFile
              \/ manifest'[p] \in Planned(e)
  BY <1>1, <1>7, <1>11 DEF NewManifest, Planned
<1>12. \A f \in Executions : Excused(f) <=> Excused(f)'
  BY <1>1, <1>3 DEF Excused, Unsettled
<1>13. \A k \in Key : IF k \in Planned(e) THEN staged'[k] = "COMMITTED"
                                          ELSE staged'[k] = staged[k]
  BY <1>1, SetRowsSets
<1>14. \A k \in Planned(e) : k \in objects \/ Excused(e)
  BY <1>10 DEF FilesIInv, FilesWait, MayCommit
<1>15. ASSUME NEW f \in Executions
       PROVE  Fits(calls[f])' /\ FilesWait(f)' /\ RowsWait(f)' /\ FilesGone(f)'
  <2>1. Fits(calls[f]) /\ FilesWait(f) /\ RowsWait(f) /\ FilesGone(f)
    BY DEF FilesIInv
  <2>2. calls[f].revision \in Nat /\ calls'[f].revision = calls[f].revision
        /\ calls[f].revision <= storage_revision
    BY <1>3, <1>6, <2>1 DEF Fits
  <2>3. calls'[f].revision <= storage_revision' /\ calls'[f].revision # storage_revision'
    BY <1>6, <2>2
  <2>4. FilesGone(f)'
    BY <1>1, <1>3, <1>4, <2>1 DEF FilesGone, At
  <2>5. CASE f = e
    <3>1. Fits(calls[f])'
      BY <1>3, <1>5, <2>1, <2>3, <2>5 DEF Fits, Undoing
    <3>2. FilesWait(f)'
      BY <1>1, <1>4, <1>12, <1>14, <2>5 DEF FilesWait
    <3>3. RowsWait(f)'
      BY <1>3, <1>5, <2>5 DEF RowsWait, At, Undoing
    <3>4. QED
      BY <2>4, <3>1, <3>2, <3>3
  <2>6. CASE f # e
    <3>1. calls'[f] = calls[f]
      BY <1>3, <2>6
    <3>2. AllUploaded(calls[f]) => AllUploaded(calls'[f])
      BY <3>1
    <3>3. Fits(calls[f])'
      BY <2>1, <2>3, <3>1, <3>2 DEF Fits, AllUploaded, Changed, digest_of
    <3>4. FilesWait(f)'
      BY <1>1, <1>4, <1>12, <2>1, <3>1 DEF FilesWait, MayCommit
    <3>5. \A k \in Planned(f) : k \in Key /\ k \notin Planned(e)
      BY <1>9, <2>6, PlannedAreKeys DEF StorageIInv, ManifestMatchesDigest
    <3>6. RowsWait(f)'
      BY <1>1, <1>4, <1>13, <2>1, <3>1, <3>5 DEF RowsWait, At
    <3>7. QED
      BY <2>4, <3>3, <3>4, <3>6
  <2>7. QED
    BY <2>5, <2>6
<1>16. Aged'
  <2>1. ASSUME NEW f \in old
        PROVE  Over(f)' \/ f \in outlived
    <3>1. CASE f = e
      BY <1>5, <3>1
    <3>2. CASE f # e
      BY <1>3, <1>8, <3>2 DEF FilesIInv, Aged, Over, At
    <3>3. QED
      BY <3>1, <3>2
  <2>2. QED
    BY <1>1, <2>1 DEF Aged
<1>17. ASSUME NEW k \in cleaner.keys
       PROVE  Sweeps(k)'
  <2>1. k \in Key /\ k.by \in Executions /\ Sweeps(k) /\ k # NoFile
    BY <1>8, NoFileAssumption DEF FilesIInv
  <2>2. k \in Planned(e) => Excused(e)
    BY <1>5, <1>9, <2>1 DEF Sweeps, Excused
  <2>3. \A p \in Paths : manifest'[p] = k => Excused(k.by)'
    BY <1>9, <1>11, <1>12, <2>1, <2>2 DEF Sweeps
  <2>4. calls'[k.by].uploaded = calls[k.by].uploaded
    BY <1>3, <2>1
  <2>5. QED
    BY <1>1, <2>1, <2>3, <2>4 DEF Sweeps
<1>18. ASSUME NEW k \in landing
       PROVE  Lands(k)'
  <2>1. k.by \in Executions /\ Lands(k)
    BY <1>8 DEF FilesIInv
  <2>2. QED
    BY <1>3, <2>1 DEF Lands
<1>19. ASSUME NEW p \in Paths, manifest'[p] # NoFile, NEW k, k = manifest'[p]
       PROVE  /\ staged'[k] = "COMMITTED" \/ Excused(k.by)'
              /\ k \in objects' \/ Excused(k.by)'
  <2>1. CASE k \in Planned(e)
    <3>1. k \in Key /\ k.by = e
      BY <1>9, <2>1
    <3>2. QED
      BY <1>1, <1>12, <1>13, <1>14, <2>1, <3>1
  <2>2. CASE k = manifest[p] /\ manifest[p] # NoFile
    <3>1. k \in Key /\ k.by \in Executions
      BY <1>8, <2>2 DEF Manifest
    <3>2. staged[k] = "COMMITTED" \/ Excused(k.by)
      BY <2>2 DEF FilesIInv, RowIsKept
    <3>3. k \in objects \/ Excused(k.by)
      BY <2>2 DEF FilesIInv, ManifestBacked, Excused
    <3>4. QED
      BY <1>1, <1>12, <1>13, <3>1, <3>2, <3>3
  <2>3. QED
    BY <1>11, <1>19, <2>1, <2>2
<1>20. (\A p \in Paths : RowIsKept(p)') /\ ManifestBacked'
  <2>1. \A p \in Paths : RowIsKept(p)'
    BY <1>19 DEF RowIsKept
  <2>2. ManifestBacked'
    BY <1>19 DEF ManifestBacked, Excused
  <2>3. QED
    BY <2>1, <2>2
<1>21. HaveRows'
  <2>1. ASSUME NEW k \in objects
        PROVE  \/ staged'[k] \in {"PENDING", "COMMITTED", "CLEANUP_FAILED"}
               \/ k.content \notin calls'[k.by].uploaded \/ k.by \in outlived
    <3>1. k \in Key /\ k.by \in Executions
      BY <1>8
    <3>2. calls'[k.by].uploaded = calls[k.by].uploaded
      BY <1>3, <3>1
    <3>3. QED
      BY <1>13, <3>1, <3>2 DEF FilesIInv, HaveRows
  <2>2. QED
    BY <1>1, <2>1 DEF HaveRows
<1>22. QED
  BY <1>1, <1>15, <1>16, <1>17, <1>18, <1>20, <1>21 DEF FilesIInv

------------------------------------------------------------------------------
(* Time and the cleanup.                                                   *)

LEMMA AgeingKeepsFiles ==
  ASSUME StorageIInv, FilesIInv, NEW e \in Executions, GrowOld(e)
  PROVE  FilesIInv'
<1>1. /\ UNCHANGED <<manifest, versions, staged, objects, landing, calls, cleaner>>
      /\ old' = old \cup {e} /\ outlived \subseteq outlived'
      /\ ~Over(e) => e \in outlived'
  BY DEF GrowOld, database, bucket
<1>2. /\ \A f \in Executions : Unsettled(f)' <=> Unsettled(f)
      /\ \A f \in Executions : Planned(f)' = Planned(f)
      /\ \A f \in Executions : Over(f)' <=> Over(f)
      /\ storage_revision' = storage_revision
  BY <1>1 DEF Unsettled, Planned, Changed, digest_of, Over, At, storage_revision
<1>3. \A f \in Executions : Excused(f) => Excused(f)'
  BY <1>1, <1>2 DEF Excused
<1>4. /\ manifest \in Manifest /\ cleaner.keys \subseteq Key /\ old \subseteq Executions
      /\ \A k \in Key : k.by \in Executions
  BY DEF StorageIInv, ManifestMatchesDigest, StorageTypeOK, Key
<1>5. ASSUME NEW f \in Executions
      PROVE  Fits(calls[f])' /\ FilesWait(f)' /\ RowsWait(f)' /\ FilesGone(f)'
  <2>1. Fits(calls[f]) /\ FilesWait(f) /\ RowsWait(f) /\ FilesGone(f)
    BY DEF FilesIInv
  <2>2. Fits(calls[f])'
    BY <1>1, <1>2, <2>1 DEF Fits, AllUploaded, Changed, digest_of
  <2>3. FilesWait(f)' /\ RowsWait(f)' /\ FilesGone(f)'
    BY <1>1, <1>2, <1>3, <2>1 DEF FilesWait, RowsWait, FilesGone, MayCommit, At
  <2>4. QED
    BY <2>2, <2>3
<1>6. Aged'
  BY <1>1, <1>2, <1>4 DEF FilesIInv, Aged
<1>7. \A k \in cleaner.keys' : Sweeps(k)'
  BY <1>1, <1>3, <1>4 DEF FilesIInv, Sweeps
<1>8. \A k \in landing' : Lands(k)'
  BY <1>1 DEF FilesIInv, Lands
<1>9. \A p \in Paths : manifest[p] # NoFile => manifest[p].by \in Executions
  BY <1>4 DEF Manifest
<1>10. \A p \in Paths : RowIsKept(p)'
  BY <1>1, <1>3, <1>9 DEF FilesIInv, RowIsKept
<1>11. ManifestBacked'
  <2>1. \A p \in Paths : manifest[p] # NoFile =>
           manifest[p] \in objects \/ Excused(manifest[p].by)
    BY DEF FilesIInv, ManifestBacked, Excused
  <2>2. QED
    BY <1>1, <1>3, <1>9, <2>1 DEF ManifestBacked, Excused
<1>12. HaveRows'
  BY <1>1 DEF FilesIInv, HaveRows
<1>13. QED
  BY <1>5, <1>6, <1>7, <1>8, <1>10, <1>11, <1>12 DEF FilesIInv

\* The cleanup touches what is old, in no manifest and of no call that may
\* still commit, or of an execution that is excused.
LEMMA CleanupKeepsFiles ==
  ASSUME StorageIInv, FilesIInv, CleanerReads \/ CleanerDeletes \/ CleanerMarks
  PROVE  FilesIInv'
<1>1. UNCHANGED <<manifest, versions, landing, calls, old, outlived>>
  BY DEF CleanerReads, CleanerDeletes, CleanerMarks, database, bucket
<1>2. \A f \in Executions :
         /\ Planned(f)' = Planned(f)
         /\ Fits(calls[f])'
         /\ MayCommit(calls[f])' => MayCommit(calls[f])
         /\ Excused(f) <=> Excused(f)'
         /\ Over(f) <=> Over(f)'
         /\ \A step : At(f, step)' <=> At(f, step)
  BY <1>1, SameCall DEF FilesIInv
<1>3. /\ manifest \in Manifest /\ cleaner.keys \subseteq Key /\ objects \subseteq Key
      /\ old \subseteq Executions
      /\ cleaner \in [step : {"idle", "deleting", "marking"}, keys : SUBSET Key]
      /\ \A k \in Key : k.by \in Executions
  BY DEF StorageIInv, ManifestMatchesDigest, StorageTypeOK, Key
<1>4. \A k \in cleaner.keys : k \in Key /\ Sweeps(k)
  BY <1>3 DEF FilesIInv
<1>5. /\ objects' \in {objects, objects \ cleaner.keys}
      /\ \A k \in Key : \/ staged'[k] = staged[k]
                        \/ k \in cleaner.keys /\ cleaner.step = "marking"
  <2>1. /\ objects' \in {objects, objects \ cleaner.keys}
        /\ \/ UNCHANGED staged
           \/ SetRows(cleaner.keys, "CLEANED") /\ cleaner.step = "marking"
    BY DEF CleanerReads, CleanerDeletes, CleanerMarks, database, bucket
  <2>2. QED
    BY <2>1, SetRowsSets
<1>6. ASSUME NEW f \in Executions, NEW k \in Planned(f), k \in cleaner.keys,
             MayCommit(calls[f])
      PROVE  f \in outlived
  <2>1. k.by = f /\ f \in old
    BY <1>4, <1>6, PlannedIsOwn DEF Sweeps
  <2>2. ~Over(f)
    BY <1>6, CallIsTyped DEF Staged, MayCommit, Over, At
  <2>3. QED
    BY <2>1, <2>2 DEF FilesIInv, Aged
<1>7. ASSUME NEW f \in Executions
      PROVE  Fits(calls[f])' /\ FilesWait(f)' /\ RowsWait(f)' /\ FilesGone(f)'
  <2>1. FilesWait(f) /\ RowsWait(f) /\ FilesGone(f)
    BY DEF FilesIInv
  <2>2. Planned(f) \subseteq Key
    BY PlannedAreKeys DEF StorageIInv, ManifestMatchesDigest
  <2>3. FilesWait(f)'
    BY <1>1, <1>2, <1>5, <1>6, <2>1 DEF FilesWait, Excused
  <2>4. RowsWait(f)'
    BY <1>1, <1>2, <1>5, <1>6, <2>1, <2>2 DEF RowsWait, MayCommit, At
  <2>5. FilesGone(f)'
    BY <1>1, <1>2, <1>5, <2>1 DEF FilesGone
  <2>6. QED
    BY <1>2, <2>3, <2>4, <2>5
<1>8. Aged'
  BY <1>1, <1>2, <1>3 DEF FilesIInv, Aged
<1>9. \A k \in cleaner.keys' : Sweeps(k)'
  <2>1. CASE CleanerReads
    <3>1. ASSUME NEW k \in Abandonment
          PROVE  k.by \in old /\ \A p \in Paths : manifest[p] = k => Excused(k.by)
      <4>1. k \in Key /\ k.by \in old /\ staged[k] # "COMMITTED"
        BY DEF Abandonment
      <4>2. ASSUME NEW p \in Paths, manifest[p] = k
            PROVE  Excused(k.by)
        BY <4>1, <4>2, NoFileAssumption DEF FilesIInv, RowIsKept
      <4>3. QED
        BY <4>1, <4>2
    <3>2. cleaner'.step = "deleting" /\ cleaner'.keys \subseteq Abandonment
      BY <2>1 DEF CleanerReads
    <3>3. QED
      BY <1>1, <1>2, <1>3, <3>1, <3>2 DEF Sweeps
  <2>2. CASE CleanerDeletes
    <3>1. CASE cleaner' = CleanerIdle
      BY <3>1 DEF CleanerIdle
    <3>2. CASE objects' = objects \ cleaner.keys /\ cleaner' = [cleaner EXCEPT !.step = "marking"]
      <4>1. cleaner'.keys = cleaner.keys
        BY <1>3, <3>2
      <4>2. QED
        BY <1>1, <1>2, <1>3, <1>4, <3>2, <4>1 DEF Sweeps
    <3>3. QED
      BY <2>2, <3>1, <3>2 DEF CleanerDeletes
  <2>3. CASE CleanerMarks
    BY <2>3 DEF CleanerMarks, CleanerIdle
  <2>4. QED
    BY <2>1, <2>2, <2>3
<1>10. \A k \in landing' : Lands(k)'
  BY <1>1 DEF FilesIInv, Lands
<1>11. ASSUME NEW p \in Paths, manifest[p] # NoFile, NEW k, k = manifest[p]
       PROVE  /\ staged'[k] = "COMMITTED" \/ Excused(k.by)'
              /\ k \in objects' \/ Excused(k.by)'
  <2>1. k \in Key /\ k.by \in Executions
    BY <1>3, <1>11 DEF Manifest
  <2>2. staged[k] = "COMMITTED" \/ Excused(k.by)
    BY <1>11 DEF FilesIInv, RowIsKept
  <2>3. k \in objects \/ Excused(k.by)
    BY <1>11 DEF FilesIInv, ManifestBacked, Excused
  <2>4. k \in cleaner.keys => Excused(k.by)
    BY <1>4, <1>11 DEF Sweeps
  <2>5. QED
    BY <1>2, <1>5, <2>1, <2>2, <2>3, <2>4
<1>12. (\A p \in Paths : RowIsKept(p)') /\ ManifestBacked'
  BY <1>1, <1>11 DEF RowIsKept, ManifestBacked, Excused
<1>13. HaveRows'
  <2>1. ASSUME NEW k \in objects'
        PROVE  \/ staged'[k] \in {"PENDING", "COMMITTED", "CLEANUP_FAILED"}
               \/ k.content \notin calls[k.by].uploaded \/ k.by \in outlived
    <3>1. k \in objects /\ k \in Key
      BY <1>3, <1>5
    <3>2. CASE staged'[k] = staged[k]
      BY <3>1, <3>2 DEF FilesIInv, HaveRows
    <3>3. CASE k \in cleaner.keys /\ cleaner.step = "marking"
      BY <1>4, <3>1, <3>3 DEF Sweeps
    <3>4. QED
      BY <1>5, <3>1, <3>2, <3>3
  <2>2. QED
    BY <1>1, <2>1 DEF HaveRows
<1>14. QED
  BY <1>7, <1>8, <1>9, <1>10, <1>12, <1>13 DEF FilesIInv

------------------------------------------------------------------------------

LEMMA InitKeepsFiles == StorageInit => FilesIInv
<1> SUFFICES ASSUME StorageInit PROVE FilesIInv
  OBVIOUS
<1>1. /\ \A e \in Executions : calls[e] = NewCall
      /\ storage_revision = 0 /\ old = {} /\ landing = {} /\ objects = {}
      /\ cleaner.keys = {} /\ \A p \in Paths : manifest[p] = NoFile
  BY DEF StorageInit, storage_revision, EmptyManifest
<1>2. ASSUME NEW e \in Executions
      PROVE  Fits(calls[e]) /\ FilesWait(e) /\ RowsWait(e) /\ FilesGone(e)
  <2>1. /\ calls[e].step = "idle" /\ calls[e].server = "none" /\ calls[e].outcome = "none"
        /\ calls[e].uploaded = {} /\ calls[e].revision = 0
    BY <1>1 DEF NewCall
  <2>2. Fits(calls[e])
    BY <1>1, <2>1 DEF Fits, Undoing, Failed
  <2>3. QED
    BY <2>1, <2>2 DEF FilesWait, RowsWait, FilesGone, MayCommit, At
<1>3. QED
  BY <1>1, <1>2 DEF FilesIInv, Aged, RowIsKept, ManifestBacked, HaveRows

LEMMA NextKeepsFiles ==
  ASSUME StorageIInv, FilesIInv, [StorageNext]_storageVars
  PROVE  FilesIInv'
<1>1. StorageIInv'
  BY NextIsSound
<1>2. ASSUME NEW e \in Executions, Step(e)
      PROVE  FilesIInv'
  BY <1>1, <1>2, CaptureKeepsFiles, ReconcileKeepsFiles, RecordPendingKeepsFiles,
     UploadKeepsFiles, GiveUpUploadKeepsFiles, CommittingKeepsFiles, UndoingKeepsFiles
  DEF Step
<1>3. ASSUME NEW e \in Executions, Cancel(e) \/ Crash(e)
      PROVE  FilesIInv'
  <2>1. ASSUME NEW k \in Key, GiveUpUpload(e, k, "cancelled") \/ GiveUpUpload(e, k, "crashed")
        PROVE  FilesIInv'
    BY <1>1, <2>1, GiveUpUploadKeepsFiles
  <2>2. CASE UNCHANGED <<database, bucket, elsewhere>>
             /\ ~\E k \in Key : GiveUpUpload(e, k, "cancelled") \/ GiveUpUpload(e, k, "crashed")
    <3>1. UNCHANGED Rest
      BY <2>2 DEF database, bucket, elsewhere, Rest
    <3>2. QED
      BY <1>3, <2>2, <3>1, StoppedKeepsFiles DEF Cancel, Crash
  <2>3. QED
    BY <1>3, <2>1, <2>2 DEF Cancel, Crash
<1>4. ASSUME NEW e \in Executions, ServerCommits(e)
      PROVE  FilesIInv'
  <2>1. CASE Switch(e)
    BY <1>1, <1>4, <2>1, SwitchKeepsFiles DEF ServerCommits
  <2>2. CASE ~Switch(e)
    <3>1. UNCHANGED Rest
      BY <1>4, <2>2 DEF ServerCommits, database, bucket, elsewhere, Rest
    <3>2. QED
      BY <1>1, <1>4, <2>2, <3>1, RefusalKeepsFiles DEF ServerCommits
  <2>3. QED
    BY <2>1, <2>2
<1>5. ASSUME UNCHANGED storageVars
      PROVE  FilesIInv'
  <2>1. UNCHANGED <<manifest, versions, staged, objects, landing, calls, old, outlived, cleaner>>
    BY <1>5 DEF storageVars
  <2>2. QED
    BY <2>1 DEF FilesIInv, Fits, FilesWait, RowsWait, FilesGone, Aged, Sweeps, Lands,
                RowIsKept, ManifestBacked, HaveRows, Excused, Unsettled, MayCommit, AllUploaded,
                Over, At, Planned, Changed, digest_of, storage_revision
<1>6. QED
  BY <1>1, <1>2, <1>3, <1>4, <1>5, AgeingKeepsFiles, CleanupKeepsFiles, UploadLandsKeepsFiles
  DEF StorageNext

LEMMA AlwaysFiled == StorageSpec => [](StorageIInv /\ FilesIInv)
<1>1. StorageInit => StorageIInv /\ FilesIInv
  BY InitIsSound, InitKeepsFiles
<1>2. StorageIInv /\ FilesIInv /\ [StorageNext]_storageVars => StorageIInv' /\ FilesIInv'
  BY NextIsSound, NextKeepsFiles
<1>3. QED
  BY <1>1, <1>2, PTL DEF StorageSpec

\* Every file of the manifest is in the bucket, for any executions, faults and
\* cleanups, unless its execution did not wait for the answer to its commit or a
\* cleanup came during a call that outlived the minimum age.
THEOREM AlwaysBacked == StorageSpec => []ManifestBacked
BY AlwaysFiled, PTL DEF FilesIInv

------------------------------------------------------------------------------
(* What a commit made of an object that has a row as committed.            *)

\* The version of its execution has it at some path, where the manifest has it
\* still or a later version something else.
InHistory(k) ==
    /\ calls[k.by].step # "idle"
    /\ calls[k.by].revision + 2 <= Len(versions)
    /\ \E p \in Paths :
          /\ versions[calls[k.by].revision + 2][p] = k.content
          /\ \/ manifest[p] = k
             \/ \E later \in (calls[k.by].revision + 3)..Len(versions) :
                   versions[later][p] # k.content

RowsInHistory == \A k \in Key : staged[k] = "COMMITTED" => InHistory(k)

\* A call that has started keeps the revision it captured, and no other call moves.
Onward(e) ==
    /\ \A f \in Executions \ {e} : calls'[f] = calls[f]
    /\ calls[e].step # "idle" =>
          calls'[e].step # "idle" /\ calls'[e].revision = calls[e].revision

LEMMA RevisionStays ==
  ASSUME StorageIInv, [StorageNext]_storageVars
  PROVE  \A e \in Executions : calls[e].step # "idle" =>
            calls'[e].step # "idle" /\ calls'[e].revision = calls[e].revision
<1>1. calls \in [Executions -> Call] /\ \A e \in Executions : calls[e] \in Call
  BY CallIsTyped DEF StorageIInv, ManifestMatchesDigest, StorageTypeOK
<1>a. ASSUME NEW e \in Executions, NEW c,
             calls' = [calls EXCEPT ![e] = c],
             calls[e].step # "idle" => c.step # "idle" /\ c.revision = calls[e].revision
      PROVE  Onward(e)
  BY <1>1, <1>a DEF Onward
<1>b. ASSUME NEW e \in Executions, NEW outcome, End(e, outcome)
      PROVE  Onward(e)
  <2>1. Effect(e, "ended", calls[e].server, calls[e].unsure, outcome)
    BY <1>b, EndHasEffect DEF End
  <2>2. QED
    BY <2>1 DEF Onward, Effect
<1>c. ASSUME NEW e \in Executions, NEW step, Goto(e, step), step # "idle"
      PROVE  Onward(e)
  BY <1>1, <1>c, GotoHasEffect DEF Onward, Effect
<1>2. ASSUME NEW e \in Executions, CaptureHead(e) \/ CaptureRows(e) \/ CaptureObjects(e)
      PROVE  Onward(e)
  <2>1. CASE CaptureHead(e)
    BY <1>1, <2>1 DEF Onward, CaptureHead, At
  <2>2. CASE CaptureRows(e)
    BY <1>1, <2>2 DEF Onward, CaptureRows, Call
  <2>3. CASE CaptureObjects(e)
    BY <1>b, <1>c, <2>3 DEF CaptureObjects
  <2>4. QED
    BY <1>2, <2>1, <2>2, <2>3
<1>3. ASSUME NEW e \in Executions,
             \/ \E returned \in Returned : Reconcile(e, returned)
             \/ ReconcileRows(e) \/ RecordPending(e)
      PROVE  Onward(e)
  <2>1. ASSUME NEW returned \in Returned, Reconcile(e, returned) PROVE Onward(e)
    <3>1. CASE calls' = [calls EXCEPT ![e].step = "compared", ![e].wanted = returned]
      BY <1>1, <3>1 DEF Onward, Call
    <3>2. QED
      BY <1>b, <2>1, <3>1 DEF Reconcile
  <2>2. CASE ReconcileRows(e)
    <3>1. calls' = [calls EXCEPT ![e] =
             IF digest_of(manifest) = @.wanted
             THEN [@ EXCEPT !.step = "ended", !.outcome = "unchanged", !.rows = manifest]
             ELSE [@ EXCEPT !.step = "planned", !.rows = manifest]]
      BY <2>2 DEF ReconcileRows
    <3>2. QED
      BY <1>1, <3>1 DEF Onward, Call
  <2>3. CASE RecordPending(e)
    BY <1>b, <1>c, <2>3 DEF RecordPending
  <2>4. QED
    BY <1>3, <2>1, <2>2, <2>3
<1>4. ASSUME NEW e \in Executions, NEW k \in Key, NEW outcome,
             Upload(e, k) \/ GiveUpUpload(e, k, outcome)
      PROVE  Onward(e)
  BY <1>1, <1>4 DEF Onward, Upload, GiveUpUpload, At, Call
<1>5. ASSUME NEW e \in Executions,
             SendCommit(e) \/ CommitReturns(e) \/ LoseAnswer(e) \/ Recheck(e)
      PROVE  Onward(e)
  <2>1. CASE SendCommit(e)
    BY <1>1, <2>1 DEF Onward, SendCommit, Call
  <2>2. CASE CommitReturns(e)
    BY <1>1, <1>b, <2>2 DEF Onward, CommitReturns, Call
  <2>3. CASE LoseAnswer(e)
    BY <1>1, <2>3 DEF Onward, LoseAnswer, Call
  <2>4. CASE Recheck(e)
    <3>1. ASSUME NEW outcome,
                 calls' = [calls EXCEPT ![e].step = "deleting", ![e].outcome = outcome]
          PROVE  Onward(e)
      BY <1>1, <3>1 DEF Onward, Call
    <3>2. QED
      BY <1>b, <2>4, <3>1 DEF Recheck
  <2>5. QED
    BY <1>5, <2>1, <2>2, <2>3, <2>4
<1>6. ASSUME NEW e \in Executions, DeletePlanned(e) \/ Mark(e) \/ MarkFailed(e)
      PROVE  Onward(e)
  BY <1>1, <1>6 DEF Onward, DeletePlanned, Mark, MarkFailed, At, Goto, Call
<1>7. ASSUME NEW e \in Executions, ServerCommits(e)
      PROVE  Onward(e)
  BY <1>1, <1>7 DEF Onward, ServerCommits, Switch, Call
<1>8. ASSUME NEW e \in Executions, Cancel(e) \/ Crash(e)
      PROVE  Onward(e)
  <2>1. ASSUME NEW server, NEW outcome,
               calls' = [calls EXCEPT ![e].step = "deleting", ![e].server = server,
                                      ![e].unsure = TRUE, ![e].outcome = outcome]
        PROVE  Onward(e)
    BY <1>1, <2>1 DEF Onward, Call
  <2>2. ASSUME NEW server,
               calls' = [calls EXCEPT
                   ![e].step = "ended", ![e].server = server,
                   ![e].outcome = IF @ = "none" THEN "crashed" ELSE @]
        PROVE  Onward(e)
    BY <1>1, <2>2 DEF Onward, Call
  <2>3. Cancel(e) => Onward(e)
    BY <1>4, <1>b, <2>1 DEF Cancel
  <2>4. Crash(e) => Onward(e)
    BY <1>4, <2>2 DEF Crash
  <2>5. QED
    BY <1>8, <2>3, <2>4
<1>9. CASE UNCHANGED calls
  BY <1>9
<1>10. CASE \E e \in Executions : Onward(e)
  BY <1>10 DEF Onward
<1>11. ASSUME NEW e \in Executions, GrowOld(e) PROVE UNCHANGED calls
  BY <1>11 DEF GrowOld
<1>12. ASSUME NEW k \in Key, UploadLands(k) PROVE UNCHANGED calls
  BY <1>12 DEF UploadLands
<1>13. CleanerReads \/ CleanerDeletes \/ CleanerMarks => UNCHANGED calls
  BY DEF CleanerReads, CleanerDeletes, CleanerMarks
<1>14. UNCHANGED storageVars => UNCHANGED calls
  BY DEF storageVars
<1>15. QED
  BY <1>2, <1>3, <1>4, <1>5, <1>6, <1>7, <1>8, <1>9, <1>10, <1>11, <1>12, <1>13, <1>14
  DEF StorageNext, Step

\* No step but the switch of a commit moves the manifest, and none else makes a row
\* committed.
Quietly ==
    /\ UNCHANGED <<manifest, versions>>
    /\ \A k \in Key : staged'[k] = "COMMITTED" => staged[k] = "COMMITTED"

LEMMA OnlySwitchCommits ==
  ASSUME StorageIInv, [StorageNext]_storageVars
  PROVE  Quietly \/ \E e \in Executions : ServerCommits(e) /\ Switch(e)
<1>1. ASSUME UNCHANGED <<manifest, versions>>,
             \/ UNCHANGED staged
             \/ \E keys, status : status # "COMMITTED" /\ SetRows(keys, status)
      PROVE  Quietly
  BY <1>1, SetRowsSets DEF Quietly
<1>2. UNCHANGED database => Quietly
  BY <1>1 DEF database
<1>3. ASSUME NEW e \in Executions, CaptureHead(e) \/ CaptureRows(e) \/ CaptureObjects(e)
      PROVE  Quietly
  BY <1>2, <1>3 DEF CaptureHead, CaptureRows, CaptureObjects
<1>4. ASSUME NEW e \in Executions, NEW returned, Reconcile(e, returned) \/ ReconcileRows(e)
      PROVE  Quietly
  BY <1>2, <1>4 DEF Reconcile, ReconcileRows
<1>5. ASSUME NEW e \in Executions, RecordPending(e) \/ Mark(e) \/ MarkFailed(e)
      PROVE  Quietly
  BY <1>1, <1>5 DEF RecordPending, Mark, MarkFailed
<1>6. ASSUME NEW e \in Executions, NEW k \in Key, NEW outcome,
             Upload(e, k) \/ GiveUpUpload(e, k, outcome)
      PROVE  Quietly
  BY <1>2, <1>6 DEF Upload, GiveUpUpload
<1>7. ASSUME NEW e \in Executions,
             SendCommit(e) \/ CommitReturns(e) \/ LoseAnswer(e) \/ Recheck(e) \/ DeletePlanned(e)
      PROVE  Quietly
  BY <1>2, <1>7 DEF SendCommit, CommitReturns, LoseAnswer, Recheck, DeletePlanned
<1>8. ASSUME NEW e \in Executions, Cancel(e) \/ Crash(e)
      PROVE  Quietly
  BY <1>2, <1>6, <1>8 DEF Cancel, Crash
<1>9. ASSUME NEW e \in Executions, ServerCommits(e)
      PROVE  Quietly \/ Switch(e)
  BY <1>2, <1>9 DEF ServerCommits
<1>10. ASSUME NEW e \in Executions, GrowOld(e) PROVE Quietly
  BY <1>2, <1>10 DEF GrowOld
<1>11. ASSUME NEW k \in Key, UploadLands(k) PROVE Quietly
  BY <1>2, <1>11 DEF UploadLands
<1>12. CleanerReads \/ CleanerDeletes => Quietly
  BY <1>2 DEF CleanerReads, CleanerDeletes
<1>13. CleanerMarks => Quietly
  BY <1>1 DEF CleanerMarks
<1>14. UNCHANGED storageVars => Quietly
  BY <1>2 DEF storageVars, database
<1>15. QED
  BY <1>3, <1>4, <1>5, <1>6, <1>7, <1>8, <1>9, <1>10, <1>11, <1>12, <1>13, <1>14
  DEF StorageNext, Step

LEMMA QuietlyInHistory ==
  ASSUME StorageIInv, RowsInHistory, [StorageNext]_storageVars, Quietly
  PROVE  RowsInHistory'
<1>1. ASSUME NEW k \in Key, staged'[k] = "COMMITTED"
      PROVE  InHistory(k)'
  <2>1. InHistory(k) /\ k.by \in Executions
    BY <1>1 DEF Quietly, RowsInHistory, Key
  <2>2. /\ calls'[k.by].step # "idle" /\ calls'[k.by].revision = calls[k.by].revision
        /\ manifest' = manifest /\ versions' = versions
    BY <2>1, RevisionStays DEF InHistory, Quietly
  <2>3. QED
    BY <2>1, <2>2 DEF InHistory
<1>2. QED
  BY <1>1 DEF RowsInHistory

\* What the manifest has at a path it keeps, or the new version has something else
\* there.
LEMMA SwitchInHistory ==
  ASSUME StorageIInv, FilesIInv, RowsInHistory, [StorageNext]_storageVars,
         NEW e \in Executions, ServerCommits(e), Switch(e)
  PROVE  RowsInHistory'
<1>1. /\ IsCurrent(e) /\ manifest' = NewManifest(e)
      /\ versions' = Append(versions, calls[e].wanted)
      /\ SetRows(Planned(e), "COMMITTED")
  BY DEF Switch
<1>2. /\ calls[e].server \in {"sent", "adrift"} /\ calls[e].revision = storage_revision
      /\ calls[e].step # "idle"
  BY <1>1 DEF ServerCommits, IsCurrent, StorageIInv, Staged, Undoing
<1>3. calls[e].rows = manifest
  BY <1>2 DEF FilesIInv, Fits
<1>4. calls[e].wanted \in Digest /\ versions \in Seq(Digest)
  BY CallIsTyped DEF Call, StorageIInv, ManifestMatchesDigest, StorageTypeOK
<1>5. /\ Len(versions) \in Nat /\ Len(versions') = Len(versions) + 1
      /\ versions'[Len(versions) + 1] = calls[e].wanted
      /\ \A i \in 1..Len(versions) : versions'[i] = versions[i]
  BY <1>1, <1>4
<1>6. calls[e].revision + 2 = Len(versions) + 1
  BY <1>2, <1>5 DEF storage_revision
<1>7. ASSUME NEW k \in Planned(e)
      PROVE  InHistory(k)'
  <2>1. PICK p \in Changed(calls[e]) : k = [by |-> e, content |-> calls[e].wanted[p]]
    BY DEF Planned
  <2>2. p \in Paths /\ calls[e].wanted[p] # NoContent
    BY DEF Changed
  <2>3. k.by = e /\ k.content = calls[e].wanted[p] /\ manifest'[p] = k
    BY <1>1, <2>1, <2>2 DEF NewManifest
  <2>4. calls'[e].step # "idle" /\ calls'[e].revision = calls[e].revision
    BY <1>2, RevisionStays
  <2>5. QED
    BY <1>5, <1>6, <2>2, <2>3, <2>4 DEF InHistory
<1>8. ASSUME NEW k \in Key, InHistory(k)
      PROVE  InHistory(k)'
  <2> DEFINE made == calls[k.by].revision + 2
  <2>1. /\ k.by \in Executions /\ calls[k.by].revision \in Nat /\ k.content \in Contents
    BY CallIsTyped DEF Key, Call
  <2>a. calls[k.by].step # "idle" /\ made <= Len(versions)
    BY <1>8 DEF InHistory
  <2>b. made \in Nat /\ made >= 1 /\ made + 1 = calls[k.by].revision + 3
    BY <2>1
  <2>2. calls[k.by].step # "idle" /\ made \in 1..Len(versions)
    BY <1>5, <2>a, <2>b
  <2>3. calls'[k.by].step # "idle" /\ calls'[k.by].revision = calls[k.by].revision
    BY <2>1, <2>2, RevisionStays
  <2>4. PICK p \in Paths :
           /\ versions[made][p] = k.content
           /\ \/ manifest[p] = k
              \/ \E later \in (made + 1)..Len(versions) : versions[later][p] # k.content
    BY <1>8, <2>b DEF InHistory
  <2>5. versions'[made][p] = k.content
    BY <1>5, <2>2, <2>4
  <2>6. CASE \E later \in (made + 1)..Len(versions) : versions[later][p] # k.content
    <3>1. PICK later \in (made + 1)..Len(versions) : versions[later][p] # k.content
      BY <2>6
    <3>2. later \in (made + 1)..Len(versions') /\ versions'[later][p] # k.content
      BY <1>5, <2>2, <3>1
    <3>3. QED
      BY <1>5, <2>1, <2>2, <2>3, <2>5, <3>2 DEF InHistory
  <2>7. CASE manifest[p] = k
    <3>1. CASE calls[e].wanted[p] # NoContent /\ p \notin Changed(calls[e])
      <4>1. manifest'[p] = k
        BY <1>1, <1>3, <2>7, <3>1 DEF NewManifest
      <4>2. QED
        BY <1>5, <2>1, <2>2, <2>3, <2>5, <4>1 DEF InHistory
    <3>2. CASE calls[e].wanted[p] = NoContent \/ p \in Changed(calls[e])
      <4>1. calls[e].wanted[p] # k.content
        BY <1>3, <2>1, <2>7, <3>2 DEF Changed, digest_of
      <4>2. /\ Len(versions) + 1 \in (made + 1)..Len(versions')
            /\ versions'[Len(versions) + 1][p] # k.content
        BY <1>5, <2>2, <4>1
      <4>3. QED
        BY <1>5, <2>1, <2>2, <2>3, <2>5, <4>2 DEF InHistory
    <3>3. QED
      BY <3>1, <3>2
  <2>8. QED
    BY <2>4, <2>6, <2>7
<1>9. QED
  <2>1. ASSUME NEW k \in Key, staged'[k] = "COMMITTED"
        PROVE  k \in Planned(e) \/ staged[k] = "COMMITTED"
    BY <1>1, <2>1, SetRowsSets
  <2>2. QED
    BY <1>7, <1>8, <2>1 DEF RowsInHistory

LEMMA AlwaysInHistory == StorageSpec => []RowsInHistory
<1>1. StorageInit => RowsInHistory
  BY DEF StorageInit, RowsInHistory
<1>2. StorageIInv /\ FilesIInv /\ RowsInHistory /\ [StorageNext]_storageVars => RowsInHistory'
  BY OnlySwitchCommits, QuietlyInHistory, SwitchInHistory
<1>3. QED
  BY <1>1, <1>2, AlwaysFiled, PTL DEF StorageSpec

\* Nothing is lost in the bucket, for any executions, faults and cleanups: an object
\* is the manifest's, has a row by which the cleanup finds it, or was a file of a
\* version that a later one replaced or deleted; unless its upload was given up and
\* arrived too late, or its cleanup came before its call had ended.
THEOREM AlwaysKnown == StorageSpec => []NoStrays
<1>1. StorageIInv /\ FilesIInv /\ RowsInHistory => NoStrays
  <2>1. ASSUME StorageIInv, NEW k \in Key, staged[k] = "COMMITTED", InHistory(k)
        PROVE  (\E p \in Paths : manifest[p] = k) \/ Superseded(k)
    <3>1. calls[k.by].revision \in Nat
      BY <2>1, CallIsTyped DEF Key, Call
    <3>2. calls[k.by].revision + 3 = calls[k.by].revision + 2 + 1
      BY <3>1
    <3>3. QED
      BY <2>1, <3>2 DEF InHistory, Superseded
  <2>2. SUFFICES ASSUME StorageIInv, FilesIInv, RowsInHistory PROVE NoStrays
    OBVIOUS
  <2>3. objects \subseteq Key /\ HaveRows
    BY <2>2 DEF StorageIInv, ManifestMatchesDigest, StorageTypeOK, FilesIInv
  <2>4. QED
    BY <2>1, <2>2, <2>3 DEF NoStrays, HaveRows, RowsInHistory
<1>2. QED
  BY <1>1, AlwaysFiled, AlwaysInHistory, PTL
================================================================================
