-------------------------- MODULE WorkspaceStorage --------------------------
(***************************************************************************)
(* The durable files of one engineering workspace: objects in a Supabase   *)
(* bucket, and in PostgreSQL the manifest that says which object is which  *)
(* file, a row for every object staged, and a revision.  An execution      *)
(* captures the files, works on a copy and reconciles the result; the      *)
(* cleanup script removes what was staged and abandoned.  A call to the    *)
(* bucket or the database is a step, and may fail after it took effect;    *)
(* the task that makes it may be cancelled (every step of a command has a  *)
(* timeout, a request may be disconnected) and its process may stop.       *)
(*                                                                         *)
(* A digest is the map from paths to contents it is computed from, and an  *)
(* object's key the execution that staged it and the content.  Validation  *)
(* of paths and sizes comes before any state changes and is left out.      *)
(***************************************************************************)
EXTENDS Integers, Sequences, FiniteSets

CONSTANTS
    Executions,     \* each reconciles once
    Paths,
    Contents,
    NoContent,      \* of a path that is no file
    NoFile,         \* of a path that has no row in the manifest
    Returned,       \* what executions may make of the files
    Outliving       \* executions that may last longer than the cleanup waits

ASSUME NoContentAssumption == NoContent \notin Contents
ASSUME OutlivingAssumption == Outliving \subseteq Executions

Key == [by : Executions, content : Contents]

ASSUME NoFileAssumption == NoFile \notin Key

Digest == [Paths -> Contents \cup {NoContent}]
ASSUME ReturnedAssumption == Returned \subseteq Digest

Manifest == [Paths -> Key \cup {NoFile}]

\* _manifest_hash
digest_of(files) ==
    [p \in Paths |-> IF files[p] = NoFile THEN NoContent ELSE files[p].content]

EmptyManifest == [p \in Paths |-> NoFile]

VARIABLES
    manifest,       \* the WorkspaceFileObject rows
    versions,       \* the digest of every revision; the database keeps the last
    staged,         \* the status of a WorkspaceStagedObject row
    objects,        \* the bucket
    landing,        \* uploads given up on that may still arrive
    calls,          \* volatile: an execution's capture and reconcile
    old,            \* executions whose rows have reached the minimum age
    outlived,       \* history: those whose call had not ended by then
    cleaner         \* the cleanup script

storageVars ==
    <<manifest, versions, staged, objects, landing, calls, old, outlived, cleaner>>

RowStatus == {"NONE", "PENDING", "COMMITTED", "CLEANED", "CLEANUP_FAILED"}

Steps == {"idle", "captured head", "captured rows", "working", "compared",
          "planned", "uploading", "committing", "recheck",
          "deleting", "marking", "marking failed", "ended"}

Outcomes == {"none", "synced", "unchanged", "conflict", "failed",
             "unknown", "cancelled", "crashed"}

\* What became of the transaction at the server, which the caller may not learn.
Server == {"none", "sent", "adrift", "done", "refused", "dropped"}

Call == [step : Steps, revision : Nat, digest : Digest, rows : Manifest,
         wanted : Digest, uploaded : SUBSET Contents, server : Server,
         unsure : BOOLEAN, outcome : Outcomes]

EmptyDigest == digest_of(EmptyManifest)

NewCall == [step |-> "idle", revision |-> 0, digest |-> EmptyDigest,
            rows |-> EmptyManifest, wanted |-> EmptyDigest, uploaded |-> {},
            server |-> "none", unsure |-> FALSE, outcome |-> "none"]

storage_revision == Len(versions) - 1
storage_manifest_sha256 == versions[Len(versions)]

StorageInit ==
    /\ manifest = EmptyManifest
    /\ versions = <<EmptyDigest>>
    /\ staged = [k \in Key |-> "NONE"]
    /\ objects = {}
    /\ landing = {}
    /\ calls = [e \in Executions |-> NewCall]
    /\ old = {}
    /\ outlived = {}
    /\ cleaner = [step |-> "idle", keys |-> {}]

bucket == <<objects, landing>>
database == <<manifest, versions, staged>>
elsewhere == <<old, outlived, cleaner>>

\* Paths that are new or have another content than the row read.
Changed(c) ==
    {p \in Paths : c.wanted[p] # NoContent /\ c.wanted[p] # digest_of(c.rows)[p]}

Planned(e) == {[by |-> e, content |-> calls[e].wanted[p]] : p \in Changed(calls[e])}

At(e, step) == calls[e].step = step

Goto(e, step) == calls' = [calls EXCEPT ![e].step = step]

End(e, outcome) ==
    calls' = [calls EXCEPT ![e].step = "ended", ![e].outcome = outcome]

-----------------------------------------------------------------------------
(* capture: the workspace row, then the file rows, then the objects.       *)

CaptureHead(e) ==
    /\ At(e, "idle")
    /\ calls' = [calls EXCEPT ![e].step = "captured head",
                              ![e].revision = storage_revision,
                              ![e].digest = storage_manifest_sha256]
    /\ UNCHANGED <<database, bucket, elsewhere>>

CaptureRows(e) ==
    /\ At(e, "captured head")
    /\ calls' = [calls EXCEPT ![e].step = "captured rows", ![e].rows = manifest]
    /\ UNCHANGED <<database, bucket, elsewhere>>

CaptureObjects(e) ==
    /\ At(e, "captured rows")
    /\ \/ /\ \A p \in Paths : calls[e].rows[p] \in objects \cup {NoFile}
          /\ digest_of(calls[e].rows) = calls[e].digest
          /\ Goto(e, "working")
       \/ End(e, "failed")
    /\ UNCHANGED <<database, bucket, elsewhere>>

-----------------------------------------------------------------------------
(* reconcile.                                                              *)

IsCurrent(e) ==
    /\ storage_revision = calls[e].revision
    /\ storage_manifest_sha256 = calls[e].digest

Reconcile(e, returned) ==
    /\ At(e, "working")
    /\ IF IsCurrent(e)
       THEN calls' = [calls EXCEPT ![e].step = "compared", ![e].wanted = returned]
       ELSE End(e, "conflict")
    /\ UNCHANGED <<database, bucket, elsewhere>>

ReconcileRows(e) ==
    /\ At(e, "compared")
    /\ calls' = [calls EXCEPT ![e] =
           IF digest_of(manifest) = @.wanted
           THEN [@ EXCEPT !.step = "ended", !.outcome = "unchanged", !.rows = manifest]
           ELSE [@ EXCEPT !.step = "planned", !.rows = manifest]]
    /\ UNCHANGED <<database, bucket, elsewhere>>

SetRows(keys, status) ==
    staged' = [k \in Key |-> IF k \in keys THEN status ELSE staged[k]]

\* record_pending_staged_objects.  Its failure is outside the try: no cleanup.
RecordPending(e) ==
    /\ At(e, "planned")
    /\ \/ SetRows(Planned(e), "PENDING") /\ Goto(e, "uploading")
       \/ SetRows(Planned(e), "PENDING") /\ End(e, "failed")
       \/ UNCHANGED staged /\ End(e, "failed")
    /\ UNCHANGED <<manifest, versions, bucket, elsewhere>>

ToUpload(e) == {k \in Planned(e) : k.content \notin calls[e].uploaded}

Upload(e, k) ==
    /\ At(e, "uploading") /\ k \in ToUpload(e)
    /\ objects' = objects \cup {k}
    /\ calls' = [calls EXCEPT ![e].uploaded = @ \cup {k.content}]
    /\ UNCHANGED <<database, landing, elsewhere>>

\* An upload that is given up has arrived, never will, or is still on its way.
GiveUpUpload(e, k, outcome) ==
    /\ At(e, "uploading") /\ k \in ToUpload(e)
    /\ \/ objects' = objects \cup {k} /\ UNCHANGED landing
       \/ UNCHANGED <<objects, landing>>
       \/ landing' = landing \cup {k} /\ UNCHANGED objects
    /\ calls' = [calls EXCEPT
           ![e].outcome = outcome,
           ![e].step = IF outcome = "crashed" THEN "ended" ELSE "deleting"]
    /\ UNCHANGED <<database, elsewhere>>

UploadLands(k) ==
    /\ k \in landing
    /\ landing' = landing \ {k}
    /\ objects' = objects \cup {k}
    /\ UNCHANGED <<database, calls, elsewhere>>

SendCommit(e) ==
    /\ At(e, "uploading") /\ ToUpload(e) = {}
    /\ calls' = [calls EXCEPT ![e].step = "committing", ![e].server = "sent"]
    /\ UNCHANGED <<database, bucket, elsewhere>>

\* A mutant: rows of paths that are there already are kept.
ManifestKeepingRows(e) ==
    [p \in Paths |->
       IF calls[e].wanted[p] = NoContent THEN NoFile
       ELSE IF calls[e].rows[p] = NoFile THEN [by |-> e, content |-> calls[e].wanted[p]]
       ELSE calls[e].rows[p]]

\* A path keeps its row unless it is planned.
NewManifest(e) ==
    [p \in Paths |->
       IF calls[e].wanted[p] = NoContent THEN NoFile
       ELSE IF p \in Changed(calls[e]) THEN [by |-> e, content |-> calls[e].wanted[p]]
       ELSE calls[e].rows[p]]

\* A mutant: the revision is not compared again under the lock.
SwitchUnchecked(e) ==
    /\ manifest' = NewManifest(e)
    /\ versions' = Append(versions, calls[e].wanted)
    /\ SetRows(Planned(e), "COMMITTED")
    /\ calls' = [calls EXCEPT ![e].server = "done"]

\* commit_workspace_manifest, under the lock of the workspace's row.  That a
\* staged row is still PENDING is not asked.
Switch(e) ==
    /\ IsCurrent(e)
    /\ manifest' = NewManifest(e)
    /\ versions' = Append(versions, calls[e].wanted)
    /\ SetRows(Planned(e), "COMMITTED")
    /\ calls' = [calls EXCEPT ![e].server = "done"]

ServerCommits(e) ==
    /\ calls[e].server \in {"sent", "adrift"}
    /\ \/ Switch(e)
       \/ /\ ~IsCurrent(e)
          /\ calls' = [calls EXCEPT ![e].server = "refused"]
          /\ UNCHANGED database
    /\ UNCHANGED <<bucket, elsewhere>>

CommitReturns(e) ==
    /\ At(e, "committing")
    /\ \/ calls[e].server = "done" /\ End(e, "synced")
       \/ /\ calls[e].server = "refused"
          /\ calls' = [calls EXCEPT ![e].step = "deleting", ![e].outcome = "conflict"]
    /\ UNCHANGED <<database, bucket, elsewhere>>

\* Without an answer the transaction is done, undone, or still to be done.
Abandoned(e) ==
    IF calls[e].server = "sent" THEN {"adrift", "dropped"} ELSE {calls[e].server}

LoseAnswer(e) ==
    /\ At(e, "committing")
    /\ \E server \in Abandoned(e) :
          calls' = [calls EXCEPT ![e].step = "recheck", ![e].server = server,
                                 ![e].unsure = TRUE]
    /\ UNCHANGED <<database, bucket, elsewhere>>

NextRevision(e) == storage_revision = calls[e].revision + 1

\* Of whoever committed, the files are those this execution wanted.
IsOwn(e) ==
    /\ NextRevision(e)
    /\ storage_manifest_sha256 = calls[e].wanted

\* The authoritative revision is read again to tell what became of the commit.
\* When it cannot be read nothing is cleaned.
Recheck(e) ==
    /\ At(e, "recheck")
    /\ \/ IsOwn(e) /\ End(e, "synced")
       \/ /\ ~IsOwn(e)
          /\ calls' = [calls EXCEPT
                 ![e].step = "deleting",
                 ![e].outcome = IF IsCurrent(e) THEN "failed" ELSE "conflict"]
       \/ End(e, "unknown")
    /\ UNCHANGED <<database, bucket, elsewhere>>

-----------------------------------------------------------------------------
(* What an unsuccessful reconcile leaves, and the two ways to be stopped.  *)

\* A mutant: rows are marked clean whether or not the deletion succeeded.
DeleteUnchecked(e) ==
    /\ At(e, "deleting")
    /\ objects' = objects \ Planned(e) \/ UNCHANGED objects
    /\ Goto(e, "marking")
    /\ UNCHANGED <<database, landing, elsewhere>>

\* The deletion is shielded: a cancelled one is done and not known to be.
DeletePlanned(e) ==
    /\ At(e, "deleting")
    /\ \/ objects' = objects \ Planned(e) /\ Goto(e, "marking")
       \/ objects' = objects \ Planned(e) /\ Goto(e, "marking failed")
       \/ UNCHANGED objects /\ Goto(e, "marking failed")
    /\ UNCHANGED <<database, landing, elsewhere>>

Mark(e) ==
    /\ At(e, "marking")
    /\ \/ SetRows(Planned(e), "CLEANED") /\ Goto(e, "ended")
       \/ SetRows(Planned(e), "CLEANED") /\ Goto(e, "marking failed")
       \/ UNCHANGED staged /\ Goto(e, "marking failed")
    /\ UNCHANGED <<manifest, versions, bucket, elsewhere>>

MarkFailed(e) ==
    /\ At(e, "marking failed")
    /\ SetRows(Planned(e), "CLEANUP_FAILED") \/ UNCHANGED staged
    /\ Goto(e, "ended")
    /\ UNCHANGED <<manifest, versions, bucket, elsewhere>>

\* CancelledError, where an await is no part of the try block and where it is.
Cancel(e) ==
    \/ /\ calls[e].step \in {"captured head", "captured rows", "working",
                              "compared", "planned"}
       /\ End(e, "cancelled")
       /\ UNCHANGED <<database, bucket, elsewhere>>
    \/ \E k \in Key : GiveUpUpload(e, k, "cancelled")
    \/ /\ calls[e].step \in {"committing", "recheck"}
       /\ \E server \in Abandoned(e) :
             calls' = [calls EXCEPT ![e].step = "deleting", ![e].server = server,
                                    ![e].unsure = TRUE, ![e].outcome = "cancelled"]
       /\ UNCHANGED <<database, bucket, elsewhere>>

Crash(e) ==
    \/ \E k \in Key : GiveUpUpload(e, k, "crashed")
    \/ /\ calls[e].step \notin {"idle", "ended"}
       /\ \E server \in Abandoned(e) :
             calls' = [calls EXCEPT
                 ![e].step = "ended", ![e].server = server,
                 ![e].outcome = IF @ = "none" THEN "crashed" ELSE @]
       /\ UNCHANGED <<database, bucket, elsewhere>>

-----------------------------------------------------------------------------
(* The cleanup script.                                                     *)

Over(e) == At(e, "ended") /\ calls[e].server # "adrift"

\* created_at <= cutoff, for the rows of an execution.  The rows of a running
\* execution are not older than it is, so its start excludes none of them.
GrowOld(e) ==
    /\ e \notin old
    /\ \E k \in Key : k.by = e /\ staged[k] # "NONE"
    /\ e \in Outliving \/ Over(e)
    /\ old' = old \cup {e}
    /\ outlived' = IF Over(e) THEN outlived ELSE outlived \cup {e}
    /\ UNCHANGED <<database, bucket, calls, cleaner>>

\* A mutant: the status is not asked for.
AbandonmentByAge == {k \in Key : k.by \in old /\ staged[k] # "NONE"}

\* abandoned_staged_objects: as many of them as the limit allows.
Abandonment == {k \in Key : k.by \in old /\ staged[k] \in {"PENDING", "CLEANUP_FAILED"}}

CleanerReads ==
    /\ cleaner.step = "idle"
    /\ \E keys \in SUBSET Abandonment \ {{}} :
          cleaner' = [step |-> "deleting", keys |-> keys]
    /\ UNCHANGED <<database, bucket, calls, old, outlived>>

CleanerIdle == [step |-> "idle", keys |-> {}]

CleanerDeletes ==
    /\ cleaner.step = "deleting"
    /\ \/ objects' = objects \ cleaner.keys /\ cleaner' = [cleaner EXCEPT !.step = "marking"]
       \/ objects' = objects \ cleaner.keys /\ cleaner' = CleanerIdle
       \/ UNCHANGED objects /\ cleaner' = CleanerIdle
    /\ UNCHANGED <<database, landing, calls, old, outlived>>

CleanerMarks ==
    /\ cleaner.step = "marking"
    /\ SetRows(cleaner.keys, "CLEANED") \/ UNCHANGED staged
    /\ cleaner' = CleanerIdle
    /\ UNCHANGED <<manifest, versions, bucket, calls, old, outlived>>

-----------------------------------------------------------------------------

Step(e) ==
    \/ CaptureHead(e) \/ CaptureRows(e) \/ CaptureObjects(e)
    \/ \E returned \in Returned : Reconcile(e, returned)
    \/ ReconcileRows(e) \/ RecordPending(e)
    \/ \E k \in Key : Upload(e, k) \/ GiveUpUpload(e, k, "failed")
    \/ SendCommit(e) \/ CommitReturns(e) \/ LoseAnswer(e) \/ Recheck(e)
    \/ DeletePlanned(e) \/ Mark(e) \/ MarkFailed(e)

StorageNext ==
    \/ \E e \in Executions :
          Step(e) \/ ServerCommits(e) \/ Cancel(e) \/ Crash(e) \/ GrowOld(e)
    \/ \E k \in Key : UploadLands(k)
    \/ CleanerReads \/ CleanerDeletes \/ CleanerMarks

StorageSpec == StorageInit /\ [][StorageNext]_storageVars

-----------------------------------------------------------------------------
(* Properties.                                                             *)

StorageTypeOK ==
    /\ manifest \in Manifest
    /\ versions \in Seq(Digest) /\ versions # <<>>
    /\ staged \in [Key -> RowStatus]
    /\ objects \subseteq Key /\ landing \subseteq Key
    /\ calls \in [Executions -> Call]
    /\ old \subseteq Executions /\ outlived \subseteq old
    /\ cleaner \in [step : {"idle", "deleting", "marking"}, keys : SUBSET Key]

\* The execution gave up on a commit it had sent, and cleaned up after it.
Unsettled(e) ==
    /\ calls[e].unsure
    /\ calls[e].outcome \in {"failed", "conflict", "cancelled"}

\* Every file of the manifest is in the bucket: whatever fails or stops, and
\* whatever two executions and the cleanup do at once, an object that a
\* committed manifest refers to is not deleted (reconcile's cleanup,
\* cleanup_abandoned), except by an execution that did not wait for the answer
\* to its commit and by a cleanup during a call that outlives the minimum age.
ManifestBacked ==
    \A p \in Paths :
        \/ manifest[p] \in objects \cup {NoFile}
        \/ Unsettled(manifest[p].by) \/ manifest[p].by \in outlived

\* The object was a file of the version its execution made, and a later version has
\* other contents there, or no file: nothing in the code removes such an object.
Superseded(k) ==
    LET made == calls[k.by].revision + 2
    IN  /\ staged[k] = "COMMITTED"
        /\ \E p \in Paths, later \in (made + 1)..Len(versions) :
              versions[made][p] = k.content /\ versions[later][p] # k.content

\* Every object of the bucket is the manifest's, or has a row by which the cleanup
\* finds it, or was superseded; but for one whose upload was given up and arrived
\* too late, or whose cleanup came before its call had ended.
NoStrays ==
    \A k \in objects :
        \/ \E p \in Paths : manifest[p] = k
        \/ staged[k] \in {"PENDING", "CLEANUP_FAILED"}
        \/ Superseded(k)
        \/ k.content \notin calls[k.by].uploaded \/ k.by \in outlived

\* What a reconcile says is so: after success its files are the version that
\* follows the one it captured, though the answer to its commit was lost; after
\* a failure of which it was sure it has changed nothing.
ReportsTruth ==
    \A e \in Executions :
        LET c == calls[e]
        IN  /\ c.outcome = "synced" =>
                  /\ Len(versions) >= c.revision + 2
                  /\ versions[c.revision + 2] = c.wanted
            /\ c.outcome \in {"conflict", "failed"} /\ ~c.unsure =>
                  \A p \in Paths : manifest[p] = NoFile \/ manifest[p].by # e

\* Types, and the rows of the manifest and the digest stored with it belong
\* together, whichever execution wrote them and from whatever capture.
ManifestMatchesDigest ==
    StorageTypeOK /\ digest_of(manifest) = storage_manifest_sha256

-----------------------------------------------------------------------------
(* The workspace is a history of versions, each made from the one before.  *)

HeldVersion(c) ==
    IF c.step = "idle" \/ c.server \in {"done", "refused", "dropped"}
       \/ (c.step = "ended" /\ c.server # "adrift")
    THEN 0 ELSE c.revision + 1

Versions == INSTANCE VersionedFiles WITH
    Writers <- Executions, Trees <- Digest, FirstTree <- EmptyDigest,
    history <- versions,
    reads <- [e \in Executions |-> HeldVersion(calls[e])]

\* No update is lost: an execution switches the manifest once at most, and only
\* from the version whose files it was given to work on.
KeepsHistory == Versions!PromiseSpec
=============================================================================
