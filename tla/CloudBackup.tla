----------------------------- MODULE CloudBackup -----------------------------
(***************************************************************************)
(* The optional cloud backup: the dashboard cuts the encrypted vault into   *)
(* parts, workers put them into a multipart upload of an object store, and  *)
(* the object that a completed upload becomes is what a restore reads       *)
(* (src/lib/cloudBackup.ts, VaultProvider.tsx, api/cloud-backup/).          *)
(*                                                                         *)
(* A request is served when the store gets to it, which may be after the    *)
(* page stopped waiting for it; an answer may be lost.  Everything between  *)
(* two awaits is one step, so Cancel includes all that the abort of the     *)
(* signal makes fail.  The contents of the vault, the passphrase and the    *)
(* progress numbers are left out.                                           *)
(***************************************************************************)
EXTENDS Naturals, Sequences, FiniteSets, SequencesExt

CONSTANTS
  Concurrency,  \* concurrent part uploads
  Size,         \* bytes of the encrypted vault
  PartSize,
  MaxAttempts,  \* to put one part
  MaxUploads,   \* bound: backups the user starts
  MaxRestores,  \* bound: restores that are served
  NoSnapshot

ASSUME BackupAssumption ==
  /\ Size \in Nat \ {0} /\ PartSize \in Nat \ {0} /\ MaxAttempts \in Nat \ {0}
  /\ MaxUploads \in Nat /\ MaxRestores \in Nat
  /\ Concurrency \in Nat \ {0} /\ NoSnapshot \notin Nat

VARIABLES
  page,     \* what the settings page shows of the backup
  handle,   \* cloudBackupAbortRef: the upload that Cancel reaches, or NoSnapshot
  ups,      \* the uploads of this and earlier loads of the page
  started,  \* uploads started so far
  store,    \* the multipart uploads in the object store
  bucket,   \* the snapshots in the bucket, oldest first
  requests, \* requests the store has not served
  restore,  \* the restore under way
  restores,
  lostAborts \* history: open uploads whose abort was not carried out

vars == <<page, handle, ups, started, store, bucket, requests, restore, restores, lostAborts>>

Uploads == 1 .. MaxUploads
Busy    == {"preparing", "uploading", "finalizing", "restoring"}
Waiting == {"preparing", "initialising", "presigning", "sending", "completing", "aborting", "reporting"}

\* Mutant: the last, shorter part is not counted.
PartCountFloor == Size \div PartSize

\* computeMultipartPartCount, and the bytes that blob.slice gives a worker.
PartCount == (Size + PartSize - 1) \div PartSize

Slice(part) == { b \in 0 .. Size - 1 : (part - 1) * PartSize <= b /\ b < part * PartSize }

Parts == 1 .. PartCount

\* Of the workers, those that get a part to start with.
WorkerCount == IF Concurrency <= PartCount THEN Concurrency ELSE PartCount

Workers == 1 .. WorkerCount

Off == [part |-> 0, attempt |-> 0]

Upload == [phase : Waiting \cup {"none", "ended", "gone"}, cancelled : BOOLEAN,
           queue : 1 .. PartCount + 1, done : SUBSET Parts,
           workers : [Workers -> [part : 0 .. PartCount, attempt : 0 .. MaxAttempts]],
           metrics : {"none", "completed", "failed"}]

NotStarted == [phase |-> "none", cancelled |-> FALSE, queue |-> PartCount + 1, done |-> {},
               workers |-> [w \in Workers |-> Off], metrics |-> "none"]

NoRestore == [phase |-> "idle", snapshot |-> NoSnapshot]

Running    == page.status \in Busy
Resting(on) == IF on THEN "idle" ELSE "disabled"

Shows(status, error, retryable) ==
  page' = [page EXCEPT !.status = status, !.error = error, !.retryable = retryable]

------------------------------------------------------------------------------
(* Starting.  `Backup now', and `Retry', which is a new upload whatever      *)
(* failed before.                                                            *)
CanBackup == page.enabled /\ ~Running
CanRetry  == page.status = "error" /\ page.retryable

UploadStarts ==
  /\ CanBackup \/ CanRetry
  /\ page.enabled
  /\ started < MaxUploads
  /\ started' = started + 1
  /\ ups' = [ups EXCEPT ![started + 1].phase = "preparing"]
  /\ handle' = started + 1
  /\ Shows("preparing", FALSE, FALSE)
  /\ UNCHANGED <<store, bucket, requests, restore, restores, lostAborts>>

\* No vault loaded (worth a retry), or no passphrase.
UploadRefused(retryable) ==
  /\ CanBackup \/ CanRetry
  /\ IF page.enabled THEN Shows("error", TRUE, retryable) ELSE Shows("disabled", TRUE, FALSE)
  /\ UNCHANGED <<handle, ups, started, store, bucket, requests, restore, restores, lostAborts>>

\* The envelope is encrypted; a signal that is aborted by now fails init.
Prepared(u) ==
  /\ ups[u].phase = "preparing" /\ ~ups[u].cancelled
  /\ ups' = [ups EXCEPT ![u].phase = "initialising"]
  /\ requests' = requests \cup {<<u, "init">>}
  /\ UNCHANGED <<page, handle, started, store, bucket, restore, restores, lostAborts>>

------------------------------------------------------------------------------
(* The end of an upload: the catch and finally of cloudBackupUpload.  The    *)
(* status is never error, so whether Retry would help is not kept.           *)

Ends(u) ==
  /\ Shows(Resting(page.enabled), TRUE, FALSE)
  /\ handle' = IF handle = u THEN NoSnapshot ELSE handle

Over(up, phase) == [up EXCEPT !.phase = phase, !.cancelled = FALSE]

\* A failure before the workers are started: nothing is aborted, and the
\* metrics of the run are never finished.
EndsEarly(u) ==
  /\ ups' = [ups EXCEPT ![u] = Over(@, "ended")]
  /\ Ends(u)

PreparedTooLate(u) ==
  /\ ups[u].phase = "preparing" /\ ups[u].cancelled
  /\ EndsEarly(u)
  /\ UNCHANGED <<started, store, bucket, requests, restore, restores, lostAborts>>

Reporting(up) == [up EXCEPT !.phase = "reporting", !.metrics = "completed"]

\* Mutant: a failure after the last part counts as success.
FailedUnlessAllSent(up) ==
  IF up.done = Parts THEN Reporting(up) ELSE [up EXCEPT !.phase = "aborting", !.metrics = "failed"]

\* The catch of uploadEncryptedSnapshotMultipart, up to its await of the abort.
\* The metrics call a cancelled run failed here.
Failed(up) == [up EXCEPT !.phase = "aborting", !.metrics = "failed"]

\* The store answers init: it opened the upload or not, and the page hears of
\* it or not.
InitServed(u, opens, hears) ==
  /\ <<u, "init">> \in requests
  /\ requests' = requests \ {<<u, "init">>}
  /\ store' = IF opens THEN [store EXCEPT ![u].state = "open"] ELSE store
  /\ CASE ups[u].phase = "initialising" /\ opens /\ hears ->
            /\ ups' = [ups EXCEPT ![u].phase = "presigning"]
            /\ UNCHANGED <<page, handle>>
       [] ups[u].phase = "initialising" /\ ~(opens /\ hears) -> EndsEarly(u)
       [] OTHER -> UNCHANGED <<page, handle, ups>>
  /\ UNCHANGED <<started, bucket, restore, restores, lostAborts>>

\* presign-parts changes nothing in the store.  With all URLs the workers start,
\* each with a part; with some missing the upload is aborted.
Presigned(u) ==
  /\ ups[u].phase = "presigning"
  /\ ups' = [ups EXCEPT ![u] =
       [@ EXCEPT !.phase = "sending", !.queue = WorkerCount + 1,
                 !.workers = [w \in Workers |-> [part |-> w, attempt |-> 1]]]]
  /\ page' = [page EXCEPT !.status = "uploading"]
  /\ UNCHANGED <<handle, started, store, bucket, requests, restore, restores, lostAborts>>

PresignIncomplete(u) ==
  /\ ups[u].phase = "presigning"
  /\ ups' = [ups EXCEPT ![u].phase = "aborting"]
  /\ requests' = requests \cup {<<u, "abort">>}
  /\ UNCHANGED <<page, handle, started, store, bucket, restore, restores, lostAborts>>

PresignFails(u) ==
  /\ ups[u].phase = "presigning"
  /\ EndsEarly(u)
  /\ UNCHANGED <<started, store, bucket, requests, restore, restores, lostAborts>>

------------------------------------------------------------------------------
(* The workers.  One that is not told to stop goes on with the queue even    *)
(* after another one failed.                                                 *)
Sends(u, w) == ups[u].workers[w].part # 0

\* The worker's next part, or its return.
NextPart(up) == IF up.queue \in Parts THEN [part |-> up.queue, attempt |-> 1] ELSE Off

Advanced(up, w) ==
  LET done == up.done \cup {up.workers[w].part}
  IN  [up EXCEPT !.done = done,
                 !.queue = IF @ \in Parts THEN @ + 1 ELSE @,
                 !.workers[w] = NextPart(up),
                 !.phase = IF @ = "sending" /\ done = Parts THEN "completing" ELSE @]

\* The PUT is answered with an etag: the part is in the store, the page shows
\* the progress, and the last part makes the page ask for completion.
PartPut(u, w) ==
  /\ Sends(u, w) /\ store[u].state = "open"
  /\ ups' = [ups EXCEPT ![u] = Advanced(@, w)]
  /\ store' = [store EXCEPT ![u].parts = @ \cup {ups[u].workers[w].part}]
  /\ page' = [page EXCEPT !.status = IF ups'[u].done = Parts THEN "finalizing" ELSE "uploading"]
  /\ requests' = IF ups'[u].phase = "completing" THEN requests \cup {<<u, "complete">>} ELSE requests
  /\ UNCHANGED <<handle, started, bucket, restore, restores, lostAborts>>

\* The PUT fails: stored tells whether the part arrived all the same (its
\* answer was lost, or had no etag).
Retries(up, w) == [up EXCEPT !.workers[w].attempt = @ + 1]

\* Mutant: the error of a worker is swallowed.
Swallows(up, w) == [up EXCEPT !.workers[w] = Off]

Throws(up, w) ==
  LET off == [up EXCEPT !.workers[w] = Off]
  IN  IF up.phase = "sending" THEN Failed(off) ELSE off

PartFails(u, w, stored, retryable) ==
  /\ Sends(u, w)
  /\ stored \/ retryable => store[u].state = "open"
  /\ store' = IF stored THEN [store EXCEPT ![u].parts = @ \cup {ups[u].workers[w].part}] ELSE store
  /\ LET again == retryable /\ ups[u].workers[w].attempt < MaxAttempts
     IN  /\ ups' = [ups EXCEPT ![u] = IF again THEN Retries(@, w) ELSE Throws(@, w)]
         /\ requests' = IF ~again /\ ups[u].phase = "sending"
                        THEN requests \cup {<<u, "abort">>} ELSE requests
  /\ UNCHANGED <<page, handle, started, bucket, restore, restores, lostAborts>>

------------------------------------------------------------------------------
(* Completion and abortion.  The store completes an open upload with exactly *)
(* the parts the page names; the answer may be lost.                         *)
Contiguous(parts) == parts = Parts

CompleteServed(u, carriedOut, hears) ==
  /\ <<u, "complete">> \in requests
  /\ carriedOut => store[u].state = "open" /\ Contiguous(ups[u].done) /\ ups[u].done \subseteq store[u].parts
  /\ store' = IF carriedOut THEN [store EXCEPT ![u].state = "completed"] ELSE store
  /\ bucket' = IF carriedOut THEN Append(bucket, u) ELSE bucket
  /\ CASE ups[u].phase = "completing" /\ carriedOut /\ hears ->
            /\ ups' = [ups EXCEPT ![u] = Reporting(@)]
            /\ requests' = requests \ {<<u, "complete">>}
            /\ page' = [page EXCEPT !.status = "finalizing"]
       [] ups[u].phase = "completing" /\ ~(carriedOut /\ hears) ->
            /\ ups' = [ups EXCEPT ![u] = Failed(@)]
            /\ requests' = (requests \ {<<u, "complete">>}) \cup {<<u, "abort">>}
            /\ UNCHANGED page
       [] OTHER ->
            /\ requests' = requests \ {<<u, "complete">>}
            /\ UNCHANGED <<page, ups>>
  /\ UNCHANGED <<handle, started, restore, restores, lostAborts>>

AbortServed(u, carriedOut) ==
  /\ <<u, "abort">> \in requests
  /\ requests' = requests \ {<<u, "abort">>}
  /\ carriedOut => store[u].state = "open"
  /\ store' = IF carriedOut THEN [store EXCEPT ![u] = [state |-> "aborted", parts |-> {}]] ELSE store
  /\ lostAborts' = IF store'[u].state = "open" THEN lostAborts \cup {u} ELSE lostAborts
  /\ IF ups[u].phase = "aborting"
     THEN /\ ups' = [ups EXCEPT ![u] = Over(@, "ended")]
          /\ Ends(u)
     ELSE UNCHANGED <<page, handle, ups>>
  /\ UNCHANGED <<started, bucket, restore, restores>>

\* The usage lookup, answered or not, and the report of success.
Reports(u) ==
  /\ ups[u].phase = "reporting"
  /\ ups' = [ups EXCEPT ![u] = Over(@, "ended")]
  /\ page' = [page EXCEPT !.status = "idle", !.last = u, !.error = FALSE, !.retryable = FALSE]
  /\ handle' = IF handle = u THEN NoSnapshot ELSE handle
  /\ UNCHANGED <<started, store, bucket, requests, restore, restores, lostAborts>>

------------------------------------------------------------------------------
(* Cancelling, switching off and on, dismissing an error, reloading.         *)
Quiet(up) == [up EXCEPT !.workers = [w \in Workers |-> Off], !.queue = PartCount + 1]

\* Mutant: a cancelled upload does not wait for its abort.
AbortedAtOnce(up) == IF up.phase = "preparing" THEN [up EXCEPT !.cancelled = TRUE] ELSE Over(Quiet(up), "ended")

\* What the abort of the signal does at once.
Aborted(up) ==
  CASE up.phase = "preparing" -> [up EXCEPT !.cancelled = TRUE]
    [] up.phase \in {"initialising", "presigning"} -> Over(up, "ended")
    [] up.phase \in {"sending", "completing"} -> Failed(Quiet(up))
    [] OTHER -> Quiet(up)

AbortsHandle(status, error, enabled) ==
  LET u == handle
      early == u # NoSnapshot /\ ups[u].phase \in {"initialising", "presigning"}
  IN  /\ ups' = IF u = NoSnapshot THEN ups ELSE [ups EXCEPT ![u] = Aborted(@)]
      /\ requests' = IF u # NoSnapshot /\ ups[u].phase \in {"sending", "completing"}
                     THEN requests \cup {<<u, "abort">>} ELSE requests
      /\ page' = [page EXCEPT !.enabled = enabled,
                              !.status = IF early THEN Resting(enabled) ELSE status,
                              !.error = error \/ early, !.retryable = FALSE]
      /\ handle' = NoSnapshot
      /\ UNCHANGED <<started, store, bucket, restore, restores, lostAborts>>

Cancels  == Running /\ handle # NoSnapshot /\ AbortsHandle("idle", TRUE, page.enabled)
Disables == page.enabled /\ AbortsHandle("disabled", FALSE, FALSE)

Enables ==
  /\ ~page.enabled
  /\ page' = [page EXCEPT !.enabled = TRUE, !.status = "idle", !.error = FALSE, !.retryable = FALSE]
  /\ UNCHANGED <<handle, ups, started, store, bucket, requests, restore, restores, lostAborts>>

Dismisses ==
  /\ page.error
  /\ Shows(Resting(page.enabled), FALSE, FALSE)
  /\ UNCHANGED <<handle, ups, started, store, bucket, requests, restore, restores, lostAborts>>

\* What is left of an upload is the completion it asked for.
Gone(up, completes) ==
  LET forgotten == [Quiet(up) EXCEPT !.done = IF completes THEN @ ELSE {}]
  IN  IF up.phase \in Waiting THEN Over(forgotten, "gone") ELSE forgotten

\* The page is loaded anew: its uploads are gone, what it asked for is not.
Reloads ==
  /\ ups' = [u \in Uploads |-> Gone(ups[u], <<u, "complete">> \in requests)]
  /\ page' = [enabled |-> page.enabled, status |-> Resting(page.enabled), error |-> FALSE,
              retryable |-> FALSE, last |-> NoSnapshot]
  /\ handle' = NoSnapshot
  /\ restore' = NoRestore
  /\ UNCHANGED <<started, store, bucket, requests, restores, lostAborts>>

------------------------------------------------------------------------------
(* Restoring the newest snapshot, one restore at a time.                     *)
RestoreStarts ==
  /\ page.enabled /\ ~Running
  /\ restore.phase = "idle" /\ restores < MaxRestores
  /\ restore' = [phase |-> "fetching", snapshot |-> NoSnapshot]
  /\ restores' = restores + 1
  /\ Shows("restoring", FALSE, FALSE)
  /\ UNCHANGED <<handle, ups, started, store, bucket, requests, lostAborts>>

\* readLatestHippiusSnapshotForUser.
Newest == IF bucket = <<>> THEN NoSnapshot ELSE Last(bucket)

SnapshotRead ==
  /\ restore.phase = "fetching" /\ Newest # NoSnapshot
  /\ restore' = [restore EXCEPT !.phase = "saving", !.snapshot = Newest]
  /\ UNCHANGED <<page, handle, ups, started, store, bucket, requests, restores, lostAborts>>

\* No snapshot, no answer, or one this passphrase does not open.
RestoreFails(retryable) ==
  /\ restore.phase \in {"fetching", "saving"}
  /\ restore' = NoRestore
  /\ Shows("error", TRUE, retryable)
  /\ UNCHANGED <<handle, ups, started, store, bucket, requests, restores, lostAborts>>

Restored ==
  /\ restore.phase = "saving"
  /\ restore' = NoRestore
  /\ Shows("idle", FALSE, FALSE)
  /\ UNCHANGED <<handle, ups, started, store, bucket, requests, restores, lostAborts>>

------------------------------------------------------------------------------
Init ==
  /\ page = [enabled |-> FALSE, status |-> "disabled", error |-> FALSE, retryable |-> FALSE,
             last |-> NoSnapshot]
  /\ handle = NoSnapshot
  /\ ups = [u \in Uploads |-> NotStarted]
  /\ started = 0
  /\ store = [u \in Uploads |-> [state |-> "none", parts |-> {}]]
  /\ bucket = <<>>
  /\ requests = {}
  /\ restore = NoRestore
  /\ restores = 0
  /\ lostAborts = {}

Steps(u) ==
  \/ Prepared(u) \/ PreparedTooLate(u)
  \/ Presigned(u) \/ PresignIncomplete(u) \/ PresignFails(u) \/ Reports(u)
  \/ \E opens, hears \in BOOLEAN : InitServed(u, opens, hears)
  \/ \E done, hears \in BOOLEAN : CompleteServed(u, done, hears)
  \/ \E done \in BOOLEAN : AbortServed(u, done)

Puts(u, w) ==
  \/ PartPut(u, w)
  \/ \E stored, r \in BOOLEAN : PartFails(u, w, stored, r)

Progress == \E u \in Uploads : Steps(u) \/ \E w \in Workers : Puts(u, w)

Next ==
  \/ UploadStarts \/ Cancels \/ Disables \/ Enables \/ Dismisses \/ Reloads
  \/ \E r \in BOOLEAN : UploadRefused(r) \/ RestoreFails(r)
  \/ RestoreStarts \/ SnapshotRead \/ Restored
  \/ Progress

\* The browser and the store get on with what they were asked, if only to fail.
Spec == Init /\ [][Next]_vars /\ WF_vars(Progress)

------------------------------------------------------------------------------
TypeOK ==
  /\ page \in [enabled : BOOLEAN, status : Busy \cup {"disabled", "idle", "error"}, error : BOOLEAN,
               retryable : BOOLEAN, last : Uploads \cup {NoSnapshot}]
  /\ handle \in Uploads \cup {NoSnapshot}
  /\ ups \in [Uploads -> Upload]
  /\ started \in 0 .. MaxUploads
  /\ store \in [Uploads -> [state : {"none", "open", "completed", "aborted"}, parts : SUBSET Parts]]
  /\ bucket \in Seq(Uploads)
  /\ requests \in SUBSET (Uploads \X {"init", "complete", "abort"})
  /\ restore \in [phase : {"idle", "fetching", "saving"}, snapshot : Uploads \cup {NoSnapshot}]
  /\ restores \in 0 .. MaxRestores
  /\ lostAborts \in SUBSET Uploads

\* A snapshot in the bucket holds every byte of the encrypted vault: no worker,
\* retry, cancellation or early completion leaves a hole in it.
SnapshotsAreWhole ==
  \A u \in Range(bucket) : UNION { Slice(p) : p \in store[u].parts } = 0 .. Size - 1

\* A backup the page reports, and one the metrics count as completed, is in the
\* bucket, whatever answers were lost.
ReportedIsStored ==
  /\ page.last # NoSnapshot => page.last \in Range(bucket)
  /\ \A u \in Uploads : ups[u].metrics = "completed" => u \in Range(bucket)

\* An upload that ended leaves parts in an open multipart upload, which the
\* store goes on charging for, only when the store did not carry out its abort.
NoPartsAreLeftBehind ==
  \A u \in Uploads :
    ups[u].phase = "ended" /\ store[u].state = "open" /\ store[u].parts # {} => u \in lostAborts

Working == \E u \in Uploads : ups[u].phase \in Waiting

\* Backups end: retries, lost answers and cancellations included, none goes on
\* for ever.
EveryBackupEnds == Working ~> ~Working
==============================================================================
