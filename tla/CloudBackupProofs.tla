-------------------------- MODULE CloudBackupProofs --------------------------
(***************************************************************************)
(* Proofs about CloudBackup, for any vault and part size, any number of     *)
(* workers, attempts, backups and restores: a snapshot in the bucket holds  *)
(* every byte, what the page reports is stored, and an upload that ended    *)
(* leaves parts behind only if the store did not carry out its abort.       *)
(*                                                                         *)
(* The parts cover the vault because PartCount rounds up (SlicesCover); a   *)
(* snapshot keeps them because nothing opens an upload twice, so the        *)
(* invariant follows the request that opens it: it is sent once, before any *)
(* worker has a part (Fresh), and an upload that ends before it is served   *)
(* has no worker left that could put one.                                   *)
(***************************************************************************)
EXTENDS CloudBackup, TLAPS

Early == {"none", "preparing", "initialising", "presigning"}

Opening(u) == <<u, "init">> \in requests

\* No part was sent and no worker has one.
Fresh(u) == store[u].parts = {} /\ \A w \in Workers : ups[u].workers[w].part = 0

UploadInv(u) ==
  /\ u > started => ups[u].phase = "none"
  /\ ups[u].phase \in Early => Fresh(u)
  /\ ups[u].phase \in {"none", "preparing"} => store[u].state = "none" /\ ~Opening(u)
  /\ Opening(u) => /\ Fresh(u) /\ store[u].state = "none"
                   /\ ups[u].phase \in {"initialising", "ended", "gone"}
  /\ ups[u].phase = "ended" =>
       Fresh(u) \/ u \in lostAborts \/ (store[u].state # "open" /\ ~Opening(u))
  /\ ups[u].phase = "reporting" => ups[u].metrics = "completed"
  /\ ups[u].metrics = "completed" => u \in Range(bucket)
  /\ u \in Range(bucket) =>
       store[u].state = "completed" /\ store[u].parts = Parts /\ ~Opening(u)

IInv ==
  /\ TypeOK
  /\ \A u \in Uploads : UploadInv(u)
  /\ page.last # NoSnapshot => page.last \in Range(bucket)

-----------------------------------------------------------------------------
(* The parts of the vault *)

\* Division rounds down.
LEMMA Division ==
  ASSUME NEW a \in Nat, NEW n \in Nat \ {0}
  PROVE  /\ a \div n \in Nat
         /\ (a \div n) * n <= a /\ a < ((a \div n) + 1) * n
  OBVIOUS

\* Multiples are ordered as their factors.
LEMMA Multiples ==
  ASSUME NEW a \in Nat, NEW c \in Nat, NEW n \in Nat \ {0}, a * n < c * n
  PROVE  a < c
  OBVIOUS

\* There is at least one part.
LEMMA PartCountIsPositive == PartCount \in Nat \ {0} /\ WorkerCount \in Nat \ {0} /\ WorkerCount <= PartCount
<1>1. Size \in Nat \ {0} /\ PartSize \in Nat \ {0} /\ Concurrency \in Nat \ {0}
  BY BackupAssumption
<1>2. PartCount \in Nat /\ Size + PartSize - 1 < (PartCount + 1) * PartSize
  BY <1>1, Division DEF PartCount
<1>3. PartCount # 0
  BY <1>1, <1>2
<1> QED
  BY <1>1, <1>2, <1>3 DEF WorkerCount

LEMMA SomePart == Parts # {}
<1>1. 1 \in Parts
  BY PartCountIsPositive DEF Parts
<1> QED
  BY <1>1

\* The slices of the parts are the whole of the encrypted vault.
LEMMA SlicesCover == UNION { Slice(p) : p \in Parts } = 0 .. Size - 1
<1>1. Size \in Nat \ {0} /\ PartSize \in Nat \ {0} /\ PartCount \in Nat
  BY BackupAssumption, PartCountIsPositive
<1>2. ASSUME NEW b \in 0 .. Size - 1 PROVE \E p \in Parts : b \in Slice(p)
  <2> DEFINE q == b \div PartSize
  <2>1. b \in Nat /\ b <= Size - 1
    BY <1>1
  <2>2. q \in Nat /\ q * PartSize <= b /\ b < (q + 1) * PartSize
    BY <1>1, <2>1, Division
  <2>3. Size + PartSize - 1 < (PartCount + 1) * PartSize
    BY <1>1, Division DEF PartCount
  <2> HIDE DEF q
  <2>4. (PartCount + 1) * PartSize = PartCount * PartSize + PartSize
    BY <1>1
  <2>5. q * PartSize < PartCount * PartSize
    BY <1>1, <2>1, <2>2, <2>3, <2>4
  <2>6. q < PartCount
    BY <1>1, <2>2, <2>5, Multiples
  <2>7. q + 1 \in Parts
    BY <1>1, <2>2, <2>6 DEF Parts
  <2>8. b \in Slice(q + 1)
    BY <1>1, <2>1, <2>2 DEF Slice
  <2> QED
    BY <2>7, <2>8
<1>3. \A p \in Parts : Slice(p) \subseteq 0 .. Size - 1
  BY DEF Slice
<1> QED
  BY <1>2, <1>3

-----------------------------------------------------------------------------
(* What the operators do to an upload *)

Assignments == [Workers -> [part : 0 .. PartCount, attempt : 0 .. MaxAttempts]]

\* The fields of an upload.
LEMMA UploadFields ==
  ASSUME NEW up \in Upload
  PROVE  /\ up.phase \in Waiting \cup {"none", "ended", "gone"}
         /\ up.cancelled \in BOOLEAN /\ up.queue \in 1 .. PartCount + 1
         /\ up.done \subseteq Parts /\ up.workers \in Assignments
         /\ up.metrics \in {"none", "completed", "failed"}
  BY DEF Upload, Assignments

\* No worker has a part.
Quitted(up) == \A w \in Workers : up.workers[w].part = 0

\* Another phase.
LEMMA PhaseOnly ==
  ASSUME NEW up \in Upload, NEW phase \in Waiting \cup {"none", "ended", "gone"},
         NEW x, x = [up EXCEPT !.phase = phase]
  PROVE  x \in Upload /\ x.phase = phase /\ x.workers = up.workers /\ x.metrics = up.metrics
  BY DEF Upload

\* The end of an upload.
LEMMA OverFields ==
  ASSUME NEW up \in Upload, NEW phase \in {"ended", "gone"}
  PROVE  /\ Over(up, phase) \in Upload /\ Over(up, phase).phase = phase
         /\ Over(up, phase).workers = up.workers /\ Over(up, phase).metrics = up.metrics
  BY DEF Upload, Over

LEMMA FailedFields ==
  ASSUME NEW up \in Upload
  PROVE  /\ Failed(up) \in Upload /\ Failed(up).phase = "aborting"
         /\ Failed(up).workers = up.workers /\ Failed(up).metrics = "failed"
  BY DEF Upload, Failed, Waiting

LEMMA ReportingFields ==
  ASSUME NEW up \in Upload
  PROVE  /\ Reporting(up) \in Upload /\ Reporting(up).phase = "reporting"
         /\ Reporting(up).workers = up.workers /\ Reporting(up).metrics = "completed"
  BY DEF Upload, Reporting, Waiting

\* A worker without a part.
LEMMA OffIsTyped == Off \in [part : 0 .. PartCount, attempt : 0 .. MaxAttempts]
  BY PartCountIsPositive, BackupAssumption DEF Off

LEMMA QuietFields ==
  ASSUME NEW up \in Upload
  PROVE  /\ Quiet(up) \in Upload /\ Quiet(up).phase = up.phase
         /\ Quitted(Quiet(up)) /\ Quiet(up).metrics = up.metrics
<1> DEFINE off == [w \in Workers |-> Off]
<1>1. off \in Assignments /\ \A w \in Workers : off[w].part = 0
  BY OffIsTyped DEF Assignments, Off
<1>2. PartCount + 1 \in 1 .. PartCount + 1
  BY PartCountIsPositive
<1>3. Quiet(up) = [up EXCEPT !.workers = off, !.queue = PartCount + 1]
  BY DEF Quiet
<1> HIDE DEF off
<1> QED
  BY <1>1, <1>2, <1>3 DEF Upload, Assignments, Quitted

\* The abort of the signal: an upload that was to open one ends without a
\* worker, and one that was sending has none left.
LEMMA AbortedFields ==
  ASSUME NEW up \in Upload, up.phase \in {"initialising", "presigning"} => Quitted(up)
  PROVE  /\ Aborted(up) \in Upload
         /\ Aborted(up).phase =
              (CASE up.phase \in {"initialising", "presigning"} -> "ended"
                 [] up.phase \in {"sending", "completing"} -> "aborting"
                 [] OTHER -> up.phase)
         /\ Quitted(up) => Quitted(Aborted(up))
         /\ Aborted(up).metrics = up.metrics \/ Aborted(up).metrics = "failed"
         /\ up.phase = "reporting" => Aborted(up).metrics = up.metrics
<1>1. CASE up.phase = "preparing"
  <2>1. Aborted(up) = [up EXCEPT !.cancelled = TRUE]
    BY <1>1 DEF Aborted
  <2> QED
    BY <1>1, <2>1 DEF Upload, Quitted
<1>2. CASE up.phase \in {"initialising", "presigning"}
  <2>1. Aborted(up) = Over(up, "ended")
    BY <1>2 DEF Aborted
  <2> QED
    BY <1>2, <2>1, OverFields DEF Quitted
<1>3. CASE up.phase \in {"sending", "completing"}
  <2>1. Aborted(up) = Failed(Quiet(up))
    BY <1>3 DEF Aborted
  <2>2. Quiet(up) \in Upload /\ Quitted(Quiet(up))
    BY QuietFields
  <2> QED
    BY <1>3, <2>1, <2>2, FailedFields DEF Quitted
<1>4. CASE up.phase \notin {"preparing", "initialising", "presigning", "sending", "completing"}
  <2>1. Aborted(up) = Quiet(up)
    BY <1>4 DEF Aborted
  <2> QED
    BY <1>4, <2>1, QuietFields
<1> QED
  BY <1>1, <1>2, <1>3, <1>4

\* What a reload leaves of an upload.
LEMMA GoneFields ==
  ASSUME NEW up \in Upload, NEW completes \in BOOLEAN
  PROVE  /\ Gone(up, completes) \in Upload /\ Quitted(Gone(up, completes))
         /\ Gone(up, completes).phase = IF up.phase \in Waiting THEN "gone" ELSE up.phase
         /\ Gone(up, completes).metrics = up.metrics
<1> DEFINE f == [Quiet(up) EXCEPT !.done = IF completes THEN @ ELSE {}]
<1>1. f \in Upload /\ f.phase = up.phase /\ Quitted(f) /\ f.metrics = up.metrics
  BY QuietFields DEF Upload, Quitted
<1>2. Gone(up, completes) = IF up.phase \in Waiting THEN Over(f, "gone") ELSE f
  BY DEF Gone
<1> HIDE DEF f
<1> QED
  BY <1>1, <1>2, OverFields DEF Quitted

\* The URLs are there and each worker gets a part.
LEMMA PresignedFields ==
  ASSUME NEW up \in Upload, NEW x,
         x = [up EXCEPT !.phase = "sending", !.queue = WorkerCount + 1,
                        !.workers = [w \in Workers |-> [part |-> w, attempt |-> 1]]]
  PROVE  x \in Upload /\ x.phase = "sending" /\ x.metrics = up.metrics
<1> DEFINE first == [w \in Workers |-> [part |-> w, attempt |-> 1]]
<1>1. first \in Assignments
  BY PartCountIsPositive, BackupAssumption DEF Assignments, Workers
<1>2. WorkerCount + 1 \in 1 .. PartCount + 1
  BY PartCountIsPositive
<1>3. x = [up EXCEPT !.phase = "sending", !.queue = WorkerCount + 1, !.workers = first]
  OBVIOUS
<1> HIDE DEF first
<1> QED
  BY <1>1, <1>2, <1>3 DEF Upload, Assignments, Waiting

\* A worker gets another part or attempt.
LEMMA WorkerFields ==
  ASSUME NEW up \in Upload, NEW w \in Workers, NEW a \in [part : 0 .. PartCount, attempt : 0 .. MaxAttempts],
         NEW x, x = [up EXCEPT !.workers[w] = a]
  PROVE  x \in Upload /\ x.phase = up.phase /\ x.metrics = up.metrics
<1> DEFINE ws == [up.workers EXCEPT ![w] = a]
<1>1. ws \in Assignments
  BY UploadFields DEF Assignments
<1>2. x = [up EXCEPT !.workers = ws]
  BY DEF Upload
<1> HIDE DEF ws
<1> QED
  BY <1>1, <1>2 DEF Upload, Assignments

\* A part was put.
LEMMA AdvancedFields ==
  ASSUME NEW up \in Upload, NEW w \in Workers, up.workers[w].part # 0
  PROVE  /\ Advanced(up, w) \in Upload /\ Advanced(up, w).metrics = up.metrics
         /\ Advanced(up, w).phase = up.phase \/ (up.phase = "sending" /\ Advanced(up, w).phase = "completing")
<1> DEFINE done == up.done \cup {up.workers[w].part}
           queue == IF up.queue \in Parts THEN up.queue + 1 ELSE up.queue
           ws == [up.workers EXCEPT ![w] = NextPart(up)]
           phase == IF up.phase = "sending" /\ done = Parts THEN "completing" ELSE up.phase
<1>1. done \subseteq Parts
  BY UploadFields, PartCountIsPositive DEF Assignments, Parts
<1>2. queue \in 1 .. PartCount + 1
  BY UploadFields, PartCountIsPositive DEF Parts
<1>3. ws \in Assignments
  <2>1. NextPart(up) \in [part : 0 .. PartCount, attempt : 0 .. MaxAttempts]
    BY UploadFields, OffIsTyped, PartCountIsPositive, BackupAssumption DEF NextPart, Parts
  <2> QED
    BY <2>1, UploadFields DEF Assignments
<1>4. phase \in Waiting \cup {"none", "ended", "gone"}
  BY UploadFields DEF Waiting
<1>5. Advanced(up, w) = [up EXCEPT !.done = done, !.queue = queue, !.workers = ws, !.phase = phase]
  BY DEF Advanced, Upload
<1> HIDE DEF ws, queue
<1>6. /\ Advanced(up, w) \in Upload /\ Advanced(up, w).metrics = up.metrics
      /\ Advanced(up, w).phase = phase
  <2> HIDE DEF done, phase
  <2> QED
    BY <1>1, <1>2, <1>3, <1>4, <1>5 DEF Upload, Assignments
<1> QED
  BY <1>6

LEMMA RetriesFields ==
  ASSUME NEW up \in Upload, NEW w \in Workers, up.workers[w].attempt < MaxAttempts
  PROVE  Retries(up, w) \in Upload /\ Retries(up, w).phase = up.phase /\ Retries(up, w).metrics = up.metrics
<1> DEFINE a == [up.workers[w] EXCEPT !.attempt = @ + 1]
<1>1. a \in [part : 0 .. PartCount, attempt : 0 .. MaxAttempts]
  BY UploadFields, BackupAssumption DEF Assignments
<1>2. Retries(up, w) = [up EXCEPT !.workers[w] = a]
  BY DEF Retries, Upload
<1> HIDE DEF a
<1> QED
  BY <1>1, <1>2, WorkerFields

\* A worker gives up: while the page sends, that fails the upload.
LEMMA ThrowsFields ==
  ASSUME NEW up \in Upload, NEW w \in Workers
  PROVE  /\ Throws(up, w) \in Upload
         /\ Throws(up, w).phase = IF up.phase = "sending" THEN "aborting" ELSE up.phase
         /\ Throws(up, w).metrics = IF up.phase = "sending" THEN "failed" ELSE up.metrics
<1> DEFINE off == [up EXCEPT !.workers[w] = Off]
<1>1. off \in Upload /\ off.phase = up.phase /\ off.metrics = up.metrics
  BY OffIsTyped, WorkerFields
<1>2. Throws(up, w) = IF up.phase = "sending" THEN Failed(off) ELSE off
  BY DEF Throws
<1> HIDE DEF off
<1> QED
  BY <1>1, <1>2, FailedFields

-----------------------------------------------------------------------------
(* Steps of one upload leave the others alone *)

Pages   == [enabled : BOOLEAN, status : Busy \cup {"disabled", "idle", "error"}, error : BOOLEAN,
            retryable : BOOLEAN, last : Uploads \cup {NoSnapshot}]
Objects == [state : {"none", "open", "completed", "aborted"}, parts : SUBSET Parts]

\* The types of what does not belong to one upload.
RestOK ==
  /\ page \in Pages /\ handle \in Uploads \cup {NoSnapshot} /\ started \in 0 .. MaxUploads
  /\ bucket \in Seq(Uploads)
  /\ requests \in SUBSET (Uploads \X {"init", "complete", "abort"})
  /\ restore \in [phase : {"idle", "fetching", "saving"}, snapshot : Uploads \cup {NoSnapshot}]
  /\ restores \in 0 .. MaxRestores /\ lostAborts \in SUBSET Uploads

LEMMA Types ==
  TypeOK <=> RestOK /\ ups \in [Uploads -> Upload] /\ store \in [Uploads -> Objects]
  BY DEF TypeOK, RestOK, Pages, Objects

LEMMA TypesPrimed ==
  RestOK' /\ ups' \in [Uploads -> Upload] /\ store' \in [Uploads -> Objects] => TypeOK'
  BY DEF TypeOK, RestOK, Pages, Objects

\* What the invariant says of one upload.
LEMMA Facts ==
  ASSUME IInv, NEW u \in Uploads
  PROVE  /\ UploadInv(u) /\ RestOK /\ ups[u] \in Upload /\ store[u] \in Objects
         /\ ups \in [Uploads -> Upload] /\ store \in [Uploads -> Objects]
  BY Types DEF IInv

\* Nothing that the invariant says of the uploads changes.
LEMMA NoUpload ==
  ASSUME IInv, UNCHANGED <<ups, store, started, bucket, requests, lostAborts>>,
         RestOK', page'.last \in {page.last, NoSnapshot}
  PROVE  IInv'
<1>1. TypeOK'
  BY Types, TypesPrimed DEF IInv
<1>2. ASSUME NEW u \in Uploads PROVE UploadInv(u)'
  BY Facts DEF UploadInv, Fresh, Opening
<1>3. page'.last # NoSnapshot => page'.last \in Range(bucket')
  BY DEF IInv
<1> QED
  BY <1>1, <1>2, <1>3 DEF IInv

\* One upload and its object change.
LEMMA OneUpload ==
  ASSUME IInv, NEW u \in Uploads, NEW up \in Upload, NEW s \in Objects,
         ups' = [ups EXCEPT ![u] = up], store' = [store EXCEPT ![u] = s],
         RestOK', started <= started',
         \A v \in Uploads : v # u => (<<v, "init">> \in requests' => <<v, "init">> \in requests),
         \A v \in Uploads : v # u => (v \in Range(bucket') <=> v \in Range(bucket)),
         lostAborts \subseteq lostAborts',
         page'.last # NoSnapshot => page'.last \in Range(bucket'),
         UploadInv(u)'
  PROVE  IInv'
<1>1. ups' \in [Uploads -> Upload] /\ store' \in [Uploads -> Objects]
  BY Facts
<1>2. TypeOK'
  BY <1>1, TypesPrimed
<1>3. ASSUME NEW v \in Uploads, v # u PROVE UploadInv(v)'
  <2>1. ups'[v] = ups[v] /\ store'[v] = store[v]
    BY <1>3, Facts
  <2>2. v > started' => v > started
    BY Facts DEF RestOK, Uploads
  <2> QED
    BY <1>3, <2>1, <2>2, Facts DEF UploadInv, Fresh, Opening
<1> QED
  BY <1>2, <1>3 DEF IInv

\* One upload changes, and perhaps what is asked of the store for it.
LEMMA OnlyUpload ==
  ASSUME IInv, NEW u \in Uploads, NEW up \in Upload,
         ups' = [ups EXCEPT ![u] = up], UNCHANGED <<started, store, bucket, lostAborts>>,
         RestOK', page'.last \in {page.last, NoSnapshot},
         \A v \in Uploads : v # u => (<<v, "init">> \in requests' => <<v, "init">> \in requests),
         UploadInv(u)'
  PROVE  IInv'
<1>1. store' = [store EXCEPT ![u] = store[u]] /\ store[u] \in Objects /\ started <= started'
  BY Facts DEF RestOK
<1>2. page'.last # NoSnapshot => page'.last \in Range(bucket')
  BY DEF IInv
<1> QED
  BY <1>1, <1>2, OneUpload

\* The page shows something else.
LEMMA ShowsIsTyped ==
  ASSUME IInv, NEW status \in Busy \cup {"disabled", "idle", "error"}, NEW error \in BOOLEAN,
         NEW retryable \in BOOLEAN, Shows(status, error, retryable)
  PROVE  page' \in Pages /\ page'.last = page.last /\ page'.enabled = page.enabled
  BY DEF IInv, TypeOK, Pages, Shows

LEMMA StatusIsTyped ==
  ASSUME IInv, NEW status \in Busy \cup {"disabled", "idle", "error"}, page' = [page EXCEPT !.status = status]
  PROVE  page' \in Pages /\ page'.last = page.last
  BY DEF IInv, TypeOK, Pages

LEMMA RestingIsTyped ==
  ASSUME NEW on \in BOOLEAN
  PROVE  Resting(on) \in Busy \cup {"disabled", "idle", "error"}
  BY DEF Resting

\* The page and the handle once an upload has ended.
LEMMA EndsIsTyped ==
  ASSUME IInv, NEW u \in Uploads, Ends(u)
  PROVE  page' \in Pages /\ page'.last = page.last /\ handle' \in Uploads \cup {NoSnapshot}
<1>1. Resting(page.enabled) \in Busy \cup {"disabled", "idle", "error"}
  BY RestingIsTyped DEF IInv, TypeOK
<1>2. Shows(Resting(page.enabled), TRUE, FALSE)
  BY DEF Ends
<1>3. page' \in Pages /\ page'.last = page.last
  BY <1>1, <1>2, ShowsIsTyped
<1> QED
  BY <1>3 DEF Ends, IInv, TypeOK

-----------------------------------------------------------------------------
(* Starting *)

LEMMA UploadStartsKeeps == IInv /\ UploadStarts => IInv'
<1> SUFFICES ASSUME IInv, UploadStarts PROVE IInv'
  OBVIOUS
<1>0. PICK u \in Uploads : u = started + 1
  BY BackupAssumption DEF IInv, TypeOK, Uploads, UploadStarts
<1> DEFINE up == [ups[u] EXCEPT !.phase = "preparing"]
<1>1. /\ started < MaxUploads /\ started' = started + 1 /\ ups' = [ups EXCEPT ![u].phase = "preparing"]
      /\ handle' = u /\ Shows("preparing", FALSE, FALSE)
      /\ UNCHANGED <<store, bucket, requests, restore, restores, lostAborts>>
  BY <1>0 DEF UploadStarts
<1>2. u \in Uploads /\ started \in Nat /\ u > started /\ ~(u > started')
  BY <1>0, <1>1, BackupAssumption DEF IInv, TypeOK, Uploads
<1>a. /\ ups[u] \in Upload /\ UploadInv(u) /\ RestOK
      /\ ups \in [Uploads -> Upload] /\ store \in [Uploads -> Objects]
  BY <1>2, Facts
<1>3. /\ ups[u].phase = "none" /\ Fresh(u) /\ store[u].state = "none" /\ ~Opening(u)
      /\ u \notin Range(bucket)
  BY <1>2, <1>a DEF UploadInv, Early
<1>4. page' \in Pages /\ page'.last = page.last
  BY <1>1, ShowsIsTyped DEF Busy
<1>5. RestOK'
  BY <1>1, <1>2, <1>a, <1>4, BackupAssumption DEF RestOK, Uploads
<1>6. up \in Upload /\ up.phase = "preparing" /\ up.workers = ups[u].workers /\ up.metrics = ups[u].metrics
  BY <1>a, PhaseOnly DEF Waiting
<1>7. ups' = [ups EXCEPT ![u] = up]
  BY <1>1, <1>2, <1>a
<1> HIDE DEF up
<1>8. UploadInv(u)'
  <2>1. ups'[u] = up
    BY <1>2, <1>a, <1>7
  <2>2. up.metrics # "completed"
    BY <1>3, <1>6, <1>a DEF UploadInv
  <2> QED
    BY <1>1, <1>2, <1>3, <1>6, <2>1, <2>2 DEF UploadInv, Fresh, Opening
<1>9. /\ store' = [store EXCEPT ![u] = store[u]] /\ store[u] \in Objects /\ started <= started'
      /\ \A v \in Uploads : v # u => (<<v, "init">> \in requests' => <<v, "init">> \in requests)
      /\ \A v \in Uploads : v # u => (v \in Range(bucket') <=> v \in Range(bucket))
      /\ lostAborts \subseteq lostAborts'
  BY <1>1, <1>2, <1>a
<1>10. page'.last # NoSnapshot => page'.last \in Range(bucket')
  BY <1>1, <1>4 DEF IInv
<1> QED
  BY <1>2, <1>5, <1>6, <1>7, <1>8, <1>9, <1>10, OneUpload

LEMMA PreparedKeeps ==
  ASSUME IInv, NEW u \in Uploads, Prepared(u) PROVE IInv'
<1> DEFINE up == [ups[u] EXCEPT !.phase = "initialising"]
<1>1. /\ ups[u].phase = "preparing" /\ ups' = [ups EXCEPT ![u].phase = "initialising"]
      /\ requests' = requests \cup {<<u, "init">>}
      /\ UNCHANGED <<page, handle, started, store, bucket, restore, restores, lostAborts>>
  BY DEF Prepared
<1>2. /\ UploadInv(u) /\ RestOK /\ ups[u] \in Upload
      /\ ups \in [Uploads -> Upload] /\ store \in [Uploads -> Objects]
  BY Facts
<1>3. up \in Upload /\ up.phase = "initialising" /\ up.workers = ups[u].workers /\ up.metrics = ups[u].metrics
  BY <1>2, PhaseOnly DEF Waiting
<1>4. ups' = [ups EXCEPT ![u] = up]
  BY <1>1, <1>2
<1> HIDE DEF up
<1>5. UploadInv(u)'
  <2>1. ups'[u] = up
    BY <1>2, <1>4
  <2>2. u \notin Range(bucket)
    BY <1>1, <1>2 DEF UploadInv
  <2> QED
    BY <1>1, <1>2, <1>3, <2>1, <2>2 DEF UploadInv, Fresh, Opening, Early
<1>6. RestOK'
  BY <1>1, <1>2 DEF RestOK
<1>7. \A v \in Uploads : v # u => (<<v, "init">> \in requests' => <<v, "init">> \in requests)
  BY <1>1
<1> QED
  BY <1>1, <1>3, <1>4, <1>5, <1>6, <1>7, OnlyUpload

\* An upload that ends before its workers had anything leaves nothing behind.
LEMMA EndsEarlyKeeps ==
  ASSUME IInv, NEW u \in Uploads, NEW s \in Objects, EndsEarly(u), store' = [store EXCEPT ![u] = s],
         s.parts = {}, s.state \in {"open", store[u].state}, s.state = "open" => <<u, "init">> \notin requests',
         ups[u].phase \in {"preparing", "initialising", "presigning"},
         requests' \in SUBSET requests,
         UNCHANGED <<started, bucket, restore, restores, lostAborts>>
  PROVE  IInv'
<1> DEFINE up == Over(ups[u], "ended")
<1>1. /\ UploadInv(u) /\ RestOK /\ ups[u] \in Upload
      /\ ups \in [Uploads -> Upload] /\ store \in [Uploads -> Objects]
  BY Facts
<1>2. up \in Upload /\ up.phase = "ended" /\ up.workers = ups[u].workers /\ up.metrics = ups[u].metrics
  BY <1>1, OverFields
<1>3. ups' = [ups EXCEPT ![u] = up] /\ Ends(u)
  BY <1>1 DEF EndsEarly
<1>4. page' \in Pages /\ page'.last = page.last /\ handle' \in Uploads \cup {NoSnapshot}
  BY <1>3, EndsIsTyped
<1>5. RestOK'
  BY <1>1, <1>4 DEF RestOK
<1> HIDE DEF up
<1>6. UploadInv(u)'
  <2>1. ups'[u] = up /\ store'[u] = s
    BY <1>1, <1>3
  <2>2. Fresh(u) /\ ~(u > started)
    BY <1>1 DEF UploadInv, Early
  <2>3. u \notin Range(bucket)
    BY <1>1, <2>2, SomePart DEF UploadInv, Fresh
  <2> QED
    BY <1>1, <1>2, <2>1, <2>2, <2>3 DEF UploadInv, Fresh, Opening, Early
<1>7. page'.last # NoSnapshot => page'.last \in Range(bucket')
  BY <1>4 DEF IInv
<1>8. started <= started'
  BY <1>1 DEF RestOK
<1> QED
  BY <1>2, <1>3, <1>5, <1>6, <1>7, <1>8, OneUpload

\* The signal was aborted while the envelope was encrypted.
LEMMA PreparedTooLateKeeps ==
  ASSUME IInv, NEW u \in Uploads, PreparedTooLate(u) PROVE IInv'
<1>1. /\ ups[u].phase = "preparing" /\ EndsEarly(u)
      /\ UNCHANGED <<started, store, bucket, requests, restore, restores, lostAborts>>
  BY DEF PreparedTooLate
<1>2. /\ store' = [store EXCEPT ![u] = store[u]] /\ store[u] \in Objects
      /\ store[u].parts = {} /\ store[u].state = "none"
  BY <1>1, Facts DEF UploadInv, Fresh, Early
<1> QED
  BY <1>1, <1>2, EndsEarlyKeeps

LEMMA PresignFailsKeeps ==
  ASSUME IInv, NEW u \in Uploads, PresignFails(u) PROVE IInv'
<1>1. /\ ups[u].phase = "presigning" /\ EndsEarly(u)
      /\ UNCHANGED <<started, store, bucket, requests, restore, restores, lostAborts>>
  BY DEF PresignFails
<1>2. /\ store' = [store EXCEPT ![u] = store[u]] /\ store[u] \in Objects
      /\ store[u].parts = {} /\ <<u, "init">> \notin requests'
  BY <1>1, Facts DEF UploadInv, Fresh, Early, Opening
<1> QED
  BY <1>1, <1>2, EndsEarlyKeeps

\* The store serves the request that opens an upload, heard of or not.
LEMMA InitServedKeeps ==
  ASSUME IInv, NEW u \in Uploads, NEW opens \in BOOLEAN, NEW hears \in BOOLEAN, InitServed(u, opens, hears)
  PROVE  IInv'
<1> DEFINE s == IF opens THEN [store[u] EXCEPT !.state = "open"] ELSE store[u]
<1>1. /\ Opening(u) /\ requests' = requests \ {<<u, "init">>}
      /\ store' = IF opens THEN [store EXCEPT ![u].state = "open"] ELSE store
      /\ UNCHANGED <<started, bucket, restore, restores, lostAborts>>
  BY DEF InitServed, Opening
<1>2. /\ UploadInv(u) /\ RestOK /\ ups[u] \in Upload /\ store[u] \in Objects
      /\ ups \in [Uploads -> Upload] /\ store \in [Uploads -> Objects]
  BY Facts
<1>3. /\ Fresh(u) /\ store[u].state = "none" /\ ups[u].phase \in {"initialising", "ended", "gone"}
      /\ u \notin Range(bucket) /\ ~(u > started)
  <2>1. Fresh(u) /\ store[u].state = "none" /\ ups[u].phase \in {"initialising", "ended", "gone"}
    BY <1>1, <1>2 DEF UploadInv
  <2> QED
    BY <1>1, <1>2, <2>1 DEF UploadInv
<1>4. s \in Objects /\ s.parts = {} /\ s.state \in {"open", "none"}
  BY <1>2, <1>3 DEF Objects, Fresh
<1>5. store' = [store EXCEPT ![u] = s]
  BY <1>1, <1>2
<1> HIDE DEF s
<1>6. CASE ups[u].phase = "initialising" /\ ~(opens /\ hears)
  <2>1. EndsEarly(u)
    BY <1>6 DEF InitServed
  <2>2. <<u, "init">> \notin requests' /\ requests' \in SUBSET requests
    BY <1>1
  <2> QED
    BY <1>1, <1>3, <1>4, <1>5, <1>6, <2>1, <2>2, EndsEarlyKeeps
<1>7. CASE ~(ups[u].phase = "initialising" /\ ~(opens /\ hears))
  <2>1. UNCHANGED <<page, handle>>
    BY <1>7 DEF InitServed
  <2>2. PICK up \in Upload :
          /\ ups' = [ups EXCEPT ![u] = up] /\ up.workers = ups[u].workers /\ up.metrics = ups[u].metrics
          /\ up.phase = "presigning" \/ up.phase \in {"ended", "gone"}
          /\ up.phase \in {"ended", "gone"} => up = ups[u]
    <3>1. CASE ups[u].phase = "initialising"
      <4> DEFINE x == [ups[u] EXCEPT !.phase = "presigning"]
      <4>1. x \in Upload /\ x.phase = "presigning" /\ x.workers = ups[u].workers /\ x.metrics = ups[u].metrics
        BY <1>2, PhaseOnly DEF Waiting
      <4>2. ups' = [ups EXCEPT ![u] = x]
        BY <1>2, <1>7, <3>1 DEF InitServed
      <4> QED
        BY <4>1, <4>2
    <3>2. CASE ups[u].phase # "initialising"
      <4>1. ups' = ups
        BY <3>2 DEF InitServed
      <4> QED
        BY <1>2, <1>3, <3>2, <4>1
    <3> QED
      BY <3>1, <3>2
  <2>3. RestOK'
    BY <1>1, <1>2, <2>1 DEF RestOK
  <2>4. UploadInv(u)'
    <3>1. ups'[u] = up /\ store'[u] = s /\ ~Opening(u)'
      BY <1>1, <1>2, <1>5, <2>2 DEF Opening
    <3>2. Fresh(u)'
      BY <1>3, <1>4, <2>2, <3>1 DEF Fresh
    <3>3. up.metrics # "completed"
      BY <1>2, <1>3, <2>2 DEF UploadInv
    <3> QED
      BY <1>1, <1>3, <2>2, <3>1, <3>2, <3>3 DEF UploadInv, Early
  <2>5. /\ page'.last # NoSnapshot => page'.last \in Range(bucket')
        /\ started <= started' /\ lostAborts \subseteq lostAborts'
        /\ \A v \in Uploads : v # u => (<<v, "init">> \in requests' => <<v, "init">> \in requests)
        /\ \A v \in Uploads : v # u => (v \in Range(bucket') <=> v \in Range(bucket))
    BY <1>1, <1>2, <2>1 DEF IInv, RestOK
  <2> QED
    BY <1>4, <1>5, <2>2, <2>3, <2>4, <2>5, OneUpload
<1> QED
  BY <1>6, <1>7

\* The workers get their first parts.
LEMMA PresignedKeeps ==
  ASSUME IInv, NEW u \in Uploads, Presigned(u) PROVE IInv'
<1> DEFINE up == [ups[u] EXCEPT !.phase = "sending", !.queue = WorkerCount + 1,
                               !.workers = [w \in Workers |-> [part |-> w, attempt |-> 1]]]
<1>1. /\ ups[u].phase = "presigning" /\ ups' = [ups EXCEPT ![u] = up]
      /\ page' = [page EXCEPT !.status = "uploading"]
      /\ UNCHANGED <<handle, started, store, bucket, requests, restore, restores, lostAborts>>
  BY Facts DEF Presigned
<1>2. /\ UploadInv(u) /\ RestOK /\ ups[u] \in Upload /\ ups \in [Uploads -> Upload]
  BY Facts
<1>3. up \in Upload /\ up.phase = "sending" /\ up.metrics = ups[u].metrics
  BY <1>2, PresignedFields
<1> HIDE DEF up
<1>4. page' \in Pages /\ page'.last = page.last
  BY <1>1, StatusIsTyped DEF Busy
<1>5. RestOK'
  BY <1>1, <1>2, <1>4 DEF RestOK
<1>6. UploadInv(u)'
  <2>1. ups'[u] = up
    BY <1>1, <1>2
  <2> QED
    BY <1>1, <1>2, <1>3, <2>1 DEF UploadInv, Opening, Early
<1> QED
  BY <1>1, <1>3, <1>4, <1>5, <1>6, OnlyUpload

\* URLs are missing and the upload is aborted.
LEMMA PresignIncompleteKeeps ==
  ASSUME IInv, NEW u \in Uploads, PresignIncomplete(u) PROVE IInv'
<1> DEFINE up == [ups[u] EXCEPT !.phase = "aborting"]
<1>1. /\ ups[u].phase = "presigning" /\ requests' = requests \cup {<<u, "abort">>}
      /\ UNCHANGED <<page, handle, started, store, bucket, restore, restores, lostAborts>>
  BY DEF PresignIncomplete
<1>2. /\ UploadInv(u) /\ RestOK /\ ups[u] \in Upload /\ ups \in [Uploads -> Upload]
  BY Facts
<1>3. up \in Upload /\ up.phase = "aborting" /\ up.metrics = ups[u].metrics
  BY <1>2, PhaseOnly DEF Waiting
<1>4. ups' = [ups EXCEPT ![u] = up]
  BY <1>2 DEF PresignIncomplete
<1> HIDE DEF up
<1>5. RestOK'
  BY <1>1, <1>2 DEF RestOK
<1>6. UploadInv(u)'
  <2>1. ups'[u] = up
    BY <1>2, <1>4
  <2> QED
    BY <1>1, <1>2, <1>3, <2>1 DEF UploadInv, Opening, Early
<1>7. \A v \in Uploads : <<v, "init">> \in requests' => <<v, "init">> \in requests
  BY <1>1
<1> QED
  BY <1>1, <1>3, <1>4, <1>5, <1>6, <1>7, OnlyUpload

-----------------------------------------------------------------------------
(* The workers *)

\* A worker that has a part works for an upload that was opened.
LEMMA Sending ==
  ASSUME IInv, NEW u \in Uploads, NEW w \in Workers, Sends(u, w)
  PROVE  ~Fresh(u) /\ ups[u].phase \notin Early /\ ~Opening(u) /\ ~(u > started)
<1>1. UploadInv(u) /\ ~Fresh(u)
  BY Facts DEF Sends, Fresh
<1> QED
  BY <1>1 DEF UploadInv, Early

\* Another part of the vault is in the store.
LEMMA WithPart ==
  ASSUME NEW s \in Objects, NEW p \in Parts, NEW x, x = [s EXCEPT !.parts = @ \cup {p}]
  PROVE  x \in Objects /\ x.state = s.state
  BY DEF Objects

LEMMA PartPutKeeps ==
  ASSUME IInv, NEW u \in Uploads, NEW w \in Workers, PartPut(u, w) PROVE IInv'
<1> DEFINE up == Advanced(ups[u], w)
           s == [store[u] EXCEPT !.parts = @ \cup {ups[u].workers[w].part}]
           status == IF ups'[u].done = Parts THEN "finalizing" ELSE "uploading"
<1>1. /\ Sends(u, w) /\ store[u].state = "open" /\ ups' = [ups EXCEPT ![u] = up]
      /\ page' = [page EXCEPT !.status = status]
      /\ requests' = requests \/ requests' = requests \cup {<<u, "complete">>}
      /\ UNCHANGED <<handle, started, bucket, restore, restores, lostAborts>>
  BY DEF PartPut
<1>2. /\ UploadInv(u) /\ RestOK /\ ups[u] \in Upload /\ store[u] \in Objects
      /\ ups \in [Uploads -> Upload] /\ store \in [Uploads -> Objects]
  BY Facts
<1>3. ~Fresh(u) /\ ups[u].phase \notin Early /\ ~Opening(u) /\ ~(u > started)
  BY <1>1, Sending
<1>4. ups[u].workers[w].part \in Parts
  BY <1>1, <1>2, UploadFields, PartCountIsPositive DEF Sends, Assignments, Parts
<1>5. /\ up \in Upload /\ up.metrics = ups[u].metrics
      /\ up.phase = ups[u].phase \/ (ups[u].phase = "sending" /\ up.phase = "completing")
  BY <1>1, <1>2, AdvancedFields DEF Sends
<1>6. s \in Objects /\ s.state = "open"
  BY <1>1, <1>2, <1>4, WithPart
<1>7. store' = [store EXCEPT ![u] = s]
  BY <1>2 DEF PartPut
<1>8. page' \in Pages /\ page'.last = page.last
  BY <1>1, StatusIsTyped DEF Busy
<1> HIDE DEF up, s
<1>9. RestOK'
  BY <1>1, <1>2, <1>8 DEF RestOK
<1>10. UploadInv(u)'
  <2>1. ups'[u] = up /\ store'[u] = s /\ ~Opening(u)'
    BY <1>1, <1>2, <1>3, <1>7 DEF Opening
  <2>2. u \notin Range(bucket) /\ up.metrics # "completed"
    BY <1>1, <1>2, <1>5 DEF UploadInv
  <2>3. up.phase \notin Early /\ (up.phase = "ended" => u \in lostAborts) /\ up.phase # "reporting"
    BY <1>1, <1>2, <1>3, <1>5, <2>2 DEF UploadInv, Early
  <2> QED
    BY <1>1, <1>3, <2>1, <2>2, <2>3 DEF UploadInv, Early
<1>11. /\ page'.last # NoSnapshot => page'.last \in Range(bucket')
       /\ started <= started' /\ lostAborts \subseteq lostAborts'
       /\ \A v \in Uploads : v # u => (<<v, "init">> \in requests' => <<v, "init">> \in requests)
       /\ \A v \in Uploads : v # u => (v \in Range(bucket') <=> v \in Range(bucket))
  BY <1>1, <1>2, <1>8 DEF IInv, RestOK
<1> QED
  BY <1>1, <1>5, <1>6, <1>7, <1>9, <1>10, <1>11, OneUpload

LEMMA PartFailsKeeps ==
  ASSUME IInv, NEW u \in Uploads, NEW w \in Workers, NEW stored \in BOOLEAN, NEW retryable \in BOOLEAN,
         PartFails(u, w, stored, retryable)
  PROVE  IInv'
<1> DEFINE again == retryable /\ ups[u].workers[w].attempt < MaxAttempts
           up == IF again THEN Retries(ups[u], w) ELSE Throws(ups[u], w)
           s == IF stored THEN [store[u] EXCEPT !.parts = @ \cup {ups[u].workers[w].part}] ELSE store[u]
<1>1. /\ Sends(u, w) /\ (stored => store[u].state = "open")
      /\ requests' = requests \/ requests' = requests \cup {<<u, "abort">>}
      /\ UNCHANGED <<page, handle, started, bucket, restore, restores, lostAborts>>
  BY DEF PartFails
<1>2. /\ UploadInv(u) /\ RestOK /\ ups[u] \in Upload /\ store[u] \in Objects
      /\ ups \in [Uploads -> Upload] /\ store \in [Uploads -> Objects]
  BY Facts
<1>3. ~Fresh(u) /\ ups[u].phase \notin Early /\ ~Opening(u) /\ ~(u > started)
  BY <1>1, Sending
<1>4. ups[u].workers[w].part \in Parts
  BY <1>1, <1>2, UploadFields, PartCountIsPositive DEF Sends, Assignments, Parts
<1>5. /\ up \in Upload
      /\ \/ up.phase = ups[u].phase /\ up.metrics = ups[u].metrics
         \/ up.phase = "aborting" /\ up.metrics = "failed"
  <2>1. CASE again
    BY <1>2, <2>1, RetriesFields
  <2>2. CASE ~again
    BY <1>2, <2>2, ThrowsFields
  <2> QED
    BY <2>1, <2>2
<1>6. s \in Objects /\ s.state = store[u].state /\ (s = store[u] \/ s.state = "open")
  BY <1>1, <1>2, <1>4, WithPart
<1>7. store' = [store EXCEPT ![u] = s]
  BY <1>2 DEF PartFails
<1>8. ups' = [ups EXCEPT ![u] = up]
  BY <1>2 DEF PartFails
<1> HIDE DEF up, s
<1>9. RestOK'
  BY <1>1, <1>2 DEF RestOK
<1>10. UploadInv(u)'
  <2>1. ups'[u] = up /\ store'[u] = s /\ ~Opening(u)'
    BY <1>1, <1>2, <1>3, <1>7, <1>8 DEF Opening
  <2>2. u \in Range(bucket) => s.state = "completed" /\ s.parts = Parts
    BY <1>2, <1>6 DEF UploadInv
  <2>3. /\ up.phase \notin Early /\ (up.phase = "reporting" => up.metrics = "completed")
        /\ up.metrics = "completed" => u \in Range(bucket)
        /\ up.phase = "ended" => u \in lostAborts \/ s.state # "open"
    BY <1>2, <1>3, <1>5, <1>6 DEF UploadInv, Early
  <2> QED
    BY <1>1, <1>3, <2>1, <2>2, <2>3 DEF UploadInv, Early
<1>11. /\ page'.last # NoSnapshot => page'.last \in Range(bucket')
       /\ started <= started' /\ lostAborts \subseteq lostAborts'
       /\ \A v \in Uploads : v # u => (<<v, "init">> \in requests' => <<v, "init">> \in requests)
       /\ \A v \in Uploads : v # u => (v \in Range(bucket') <=> v \in Range(bucket))
  BY <1>1, <1>2 DEF IInv, RestOK
<1> QED
  BY <1>5, <1>6, <1>7, <1>8, <1>9, <1>10, <1>11, OneUpload

-----------------------------------------------------------------------------
(* Completion, abortion and the report *)

\* A snapshot is added to the bucket.
LEMMA AppendRange ==
  ASSUME NEW S, NEW b \in Seq(S), NEW u \in S
  PROVE  Append(b, u) \in Seq(S) /\ Range(Append(b, u)) = Range(b) \cup {u}
<1>1. /\ Append(b, u) \in Seq(S) /\ Len(Append(b, u)) = Len(b) + 1 /\ Len(b) \in Nat
      /\ \A i \in 1 .. Len(b) : Append(b, u)[i] = b[i]
      /\ Append(b, u)[Len(b) + 1] = u
  OBVIOUS
<1>2. DOMAIN b = 1 .. Len(b) /\ DOMAIN Append(b, u) = 1 .. Len(b) + 1
  BY <1>1
<1>3. ASSUME NEW x \in Range(b) PROVE x \in Range(Append(b, u))
  BY <1>1, <1>2 DEF Range
<1>4. u \in Range(Append(b, u))
  BY <1>1, <1>2 DEF Range
<1>5. ASSUME NEW x \in Range(Append(b, u)) PROVE x \in Range(b) \cup {u}
  <2>1. PICK i \in 1 .. Len(b) + 1 : x = Append(b, u)[i]
    BY <1>2 DEF Range
  <2>2. CASE i \in 1 .. Len(b)
    BY <1>1, <1>2, <2>1, <2>2 DEF Range
  <2>3. CASE i \notin 1 .. Len(b)
    BY <1>1, <2>1, <2>3
  <2> QED
    BY <2>2, <2>3
<1> QED
  BY <1>1, <1>3, <1>4, <1>5

\* Only a whole upload is completed, and it is in the bucket from then on.
LEMMA CompleteServedKeeps ==
  ASSUME IInv, NEW u \in Uploads, NEW carriedOut \in BOOLEAN, NEW hears \in BOOLEAN,
         CompleteServed(u, carriedOut, hears)
  PROVE  IInv'
<1> DEFINE s == IF carriedOut THEN [store[u] EXCEPT !.state = "completed"] ELSE store[u]
<1>1. /\ carriedOut => store[u].state = "open" /\ Parts \subseteq store[u].parts
      /\ store' = IF carriedOut THEN [store EXCEPT ![u].state = "completed"] ELSE store
      /\ bucket' = IF carriedOut THEN Append(bucket, u) ELSE bucket
      /\ UNCHANGED <<handle, started, restore, restores, lostAborts>>
  BY DEF CompleteServed, Contiguous
<1>2. /\ UploadInv(u) /\ RestOK /\ ups[u] \in Upload /\ store[u] \in Objects
      /\ ups \in [Uploads -> Upload] /\ store \in [Uploads -> Objects]
  BY Facts
<1>3. /\ s \in Objects /\ (carriedOut => s.state = "completed" /\ s.parts = Parts)
      /\ ~carriedOut => s = store[u]
  BY <1>1, <1>2 DEF Objects
<1>4. store' = [store EXCEPT ![u] = s]
  BY <1>1, <1>2
<1> HIDE DEF s
<1>5. /\ bucket' \in Seq(Uploads)
      /\ Range(bucket') = IF carriedOut THEN Range(bucket) \cup {u} ELSE Range(bucket)
  <2>1. Append(bucket, u) \in Seq(Uploads) /\ Range(Append(bucket, u)) = Range(bucket) \cup {u}
    BY <1>2, AppendRange DEF RestOK
  <2>2. CASE carriedOut
    <3>1. bucket' = Append(bucket, u)
      BY <1>1, <2>2
    <3> QED
      BY <2>1, <2>2, <3>1
  <2>3. CASE ~carriedOut
    <3>1. bucket' = bucket
      BY <1>1, <2>3
    <3> QED
      BY <1>2, <2>3, <3>1 DEF RestOK
  <2> QED
    BY <2>2, <2>3
<1>6. carriedOut => ~Fresh(u) /\ ~Opening(u) /\ ups[u].phase \notin Early /\ ~(u > started)
  <2>1. carriedOut => ~Fresh(u)
    BY <1>1, SomePart DEF Fresh
  <2> QED
    BY <1>2, <2>1 DEF UploadInv, Early
<1>7. PICK up \in Upload :
        /\ ups' = [ups EXCEPT ![u] = up]
        /\ \/ up = ups[u]
           \/ ups[u].phase = "completing" /\ up.phase = "reporting" /\ up.metrics = "completed" /\ carriedOut
           \/ ups[u].phase = "completing" /\ up.phase = "aborting" /\ up.metrics = "failed"
        /\ requests' \in SUBSET (requests \cup {<<u, "abort">>})
        /\ page' = page \/ page' = [page EXCEPT !.status = "finalizing"]
  <2>1. CASE ups[u].phase = "completing" /\ carriedOut /\ hears
    <3>1. ups' = [ups EXCEPT ![u] = Reporting(ups[u])] /\ requests' = requests \ {<<u, "complete">>}
          /\ page' = [page EXCEPT !.status = "finalizing"]
      BY <1>2, <2>1 DEF CompleteServed
    <3> QED
      BY <1>2, <2>1, <3>1, ReportingFields
  <2>2. CASE ups[u].phase = "completing" /\ ~(carriedOut /\ hears)
    <3>1. /\ ups' = [ups EXCEPT ![u] = Failed(ups[u])] /\ page' = page
          /\ requests' = (requests \ {<<u, "complete">>}) \cup {<<u, "abort">>}
      BY <1>2, <2>2 DEF CompleteServed
    <3> QED
      BY <1>2, <2>2, <3>1, FailedFields
  <2>3. CASE ups[u].phase # "completing"
    <3>1. ups' = ups /\ page' = page /\ requests' = requests \ {<<u, "complete">>}
      BY <2>3 DEF CompleteServed
    <3>2. ups' = [ups EXCEPT ![u] = ups[u]]
      BY <1>2, <3>1
    <3> QED
      BY <1>2, <3>1, <3>2
  <2> QED
    BY <2>1, <2>2, <2>3
<1>8. page' \in Pages /\ page'.last = page.last
  BY <1>2, <1>7 DEF RestOK, Pages, Busy
<1>9. RestOK'
  BY <1>1, <1>2, <1>5, <1>7, <1>8 DEF RestOK
<1>10. UploadInv(u)'
  <2>1. ups'[u] = up /\ store'[u] = s /\ (Opening(u)' => Opening(u))
    BY <1>2, <1>4, <1>7 DEF Opening
  <2>2. up.phase \notin Early \/ up = ups[u]
    BY <1>7 DEF Early
  <2>3. CASE carriedOut
    BY <1>1, <1>2, <1>3, <1>5, <1>6, <1>7, <2>1, <2>2, <2>3 DEF UploadInv, Early
  <2>4. CASE ~carriedOut /\ up = ups[u]
    BY <1>1, <1>2, <1>3, <1>5, <1>7, <2>1, <2>4 DEF UploadInv, Fresh
  <2>5. CASE ~carriedOut /\ up # ups[u]
    BY <1>1, <1>2, <1>3, <1>5, <1>7, <2>1, <2>5 DEF UploadInv, Early
  <2> QED
    BY <2>3, <2>4, <2>5
<1>11. /\ page'.last # NoSnapshot => page'.last \in Range(bucket')
       /\ started <= started' /\ lostAborts \subseteq lostAborts'
       /\ \A v \in Uploads : v # u => (<<v, "init">> \in requests' => <<v, "init">> \in requests)
       /\ \A v \in Uploads : v # u => (v \in Range(bucket') <=> v \in Range(bucket))
  BY <1>1, <1>2, <1>5, <1>7, <1>8 DEF IInv, RestOK
<1> QED
  BY <1>3, <1>4, <1>7, <1>9, <1>10, <1>11, OneUpload

\* An abort that is not carried out leaves an upload open, and is on record.
LEMMA AbortServedKeeps ==
  ASSUME IInv, NEW u \in Uploads, NEW carriedOut \in BOOLEAN, AbortServed(u, carriedOut)
  PROVE  IInv'
<1> DEFINE s == IF carriedOut THEN [state |-> "aborted", parts |-> {}] ELSE store[u]
<1>1. /\ requests' = requests \ {<<u, "abort">>} /\ (carriedOut => store[u].state = "open")
      /\ store' = IF carriedOut THEN [store EXCEPT ![u] = [state |-> "aborted", parts |-> {}]] ELSE store
      /\ lostAborts' = IF store'[u].state = "open" THEN lostAborts \cup {u} ELSE lostAborts
      /\ UNCHANGED <<started, bucket, restore, restores>>
  BY DEF AbortServed
<1>2. /\ UploadInv(u) /\ RestOK /\ ups[u] \in Upload /\ store[u] \in Objects
      /\ ups \in [Uploads -> Upload] /\ store \in [Uploads -> Objects]
  BY Facts
<1>3. /\ s \in Objects /\ (carriedOut => s.state = "aborted" /\ s.parts = {})
      /\ ~carriedOut => s = store[u]
  BY <1>2 DEF Objects
<1>4. store' = [store EXCEPT ![u] = s]
  BY <1>1, <1>2
<1> HIDE DEF s
<1>5. carriedOut => ~Opening(u) /\ ups[u].phase \notin {"none", "preparing"} /\ u \notin Range(bucket)
  BY <1>1, <1>2 DEF UploadInv
<1>6. /\ lostAborts' \subseteq Uploads /\ lostAborts \subseteq lostAborts'
      /\ s.state = "open" => u \in lostAborts'
  BY <1>1, <1>2, <1>4 DEF RestOK
<1>7. PICK up \in Upload :
        /\ ups' = [ups EXCEPT ![u] = up]
        /\ \/ up = ups[u]
           \/ /\ ups[u].phase = "aborting" /\ up.phase = "ended"
              /\ up.workers = ups[u].workers /\ up.metrics = ups[u].metrics
        /\ page' \in Pages /\ page'.last = page.last /\ handle' \in Uploads \cup {NoSnapshot}
  <2>1. CASE ups[u].phase = "aborting"
    <3>1. ups' = [ups EXCEPT ![u] = Over(ups[u], "ended")] /\ Ends(u)
      BY <1>2, <2>1 DEF AbortServed
    <3> QED
      BY <1>2, <2>1, <3>1, OverFields, EndsIsTyped
  <2>2. CASE ups[u].phase # "aborting"
    <3>1. ups' = ups /\ page' = page /\ handle' = handle
      BY <2>2 DEF AbortServed
    <3>2. ups' = [ups EXCEPT ![u] = ups[u]]
      BY <1>2, <3>1
    <3> QED
      BY <1>2, <3>1, <3>2 DEF RestOK
  <2> QED
    BY <2>1, <2>2
<1>8. RestOK'
  BY <1>1, <1>2, <1>6, <1>7 DEF RestOK
<1>9. UploadInv(u)'
  <2>1. ups'[u] = up /\ store'[u] = s /\ (Opening(u)' <=> Opening(u))
    BY <1>1, <1>2, <1>4, <1>7 DEF Opening
  <2>2. CASE up = ups[u]
    <3>1. Fresh(u) => Fresh(u)'
      BY <1>3, <2>1, <2>2 DEF Fresh
    <3> QED
      BY <1>1, <1>2, <1>3, <1>5, <1>6, <2>1, <2>2, <3>1 DEF UploadInv
  <2>3. CASE ups[u].phase = "aborting" /\ up.phase = "ended" /\ up.metrics = ups[u].metrics
    BY <1>1, <1>2, <1>3, <1>5, <1>6, <2>1, <2>3 DEF UploadInv, Early
  <2> QED
    BY <1>7, <2>2, <2>3
<1>10. /\ page'.last # NoSnapshot => page'.last \in Range(bucket')
       /\ started <= started'
       /\ \A v \in Uploads : v # u => (<<v, "init">> \in requests' => <<v, "init">> \in requests)
       /\ \A v \in Uploads : v # u => (v \in Range(bucket') <=> v \in Range(bucket))
  BY <1>1, <1>2, <1>7 DEF IInv, RestOK
<1> QED
  BY <1>3, <1>4, <1>6, <1>7, <1>8, <1>9, <1>10, OneUpload

\* What is reported is in the bucket.
LEMMA ReportsKeeps ==
  ASSUME IInv, NEW u \in Uploads, Reports(u) PROVE IInv'
<1> DEFINE up == Over(ups[u], "ended")
<1>1. /\ ups[u].phase = "reporting"
      /\ page' = [page EXCEPT !.status = "idle", !.last = u, !.error = FALSE, !.retryable = FALSE]
      /\ handle' = IF handle = u THEN NoSnapshot ELSE handle
      /\ UNCHANGED <<started, store, bucket, requests, restore, restores, lostAborts>>
  BY DEF Reports
<1>2. /\ UploadInv(u) /\ RestOK /\ ups[u] \in Upload /\ store[u] \in Objects
      /\ ups \in [Uploads -> Upload] /\ store \in [Uploads -> Objects]
  BY Facts
<1>3. up \in Upload /\ up.phase = "ended" /\ up.workers = ups[u].workers /\ up.metrics = ups[u].metrics
  BY <1>2, OverFields
<1>4. ups' = [ups EXCEPT ![u] = up] /\ store' = [store EXCEPT ![u] = store[u]]
  BY <1>1, <1>2 DEF Reports
<1> HIDE DEF up
<1>5. up.metrics = "completed" /\ u \in Range(bucket)
  BY <1>1, <1>2, <1>3 DEF UploadInv
<1>6. page' \in Pages /\ page'.last = u
  BY <1>1, <1>2 DEF RestOK, Pages, Busy
<1>7. RestOK'
  BY <1>1, <1>2, <1>6 DEF RestOK
<1>8. UploadInv(u)'
  <2>1. ups'[u] = up
    BY <1>2, <1>4
  <2> QED
    BY <1>1, <1>2, <1>3, <1>5, <2>1 DEF UploadInv, Opening, Early
<1>9. started <= started' /\ (page'.last # NoSnapshot => page'.last \in Range(bucket'))
  BY <1>1, <1>2, <1>5, <1>6 DEF RestOK
<1> QED
  BY <1>1, <1>2, <1>3, <1>4, <1>7, <1>8, <1>9, OneUpload

-----------------------------------------------------------------------------
(* Cancelling, switching off and on, reloading, restoring *)

LEMMA AbortsHandleKeeps ==
  ASSUME IInv, NEW status \in {"idle", "disabled"}, NEW error \in BOOLEAN, NEW enabled \in BOOLEAN,
         AbortsHandle(status, error, enabled)
  PROVE  IInv'
<1> DEFINE early == handle # NoSnapshot /\ ups[handle].phase \in {"initialising", "presigning"}
<1>1. /\ page' = [page EXCEPT !.enabled = enabled,
                              !.status = IF early THEN Resting(enabled) ELSE status,
                              !.error = error \/ early, !.retryable = FALSE]
      /\ handle' = NoSnapshot
      /\ UNCHANGED <<started, store, bucket, restore, restores, lostAborts>>
  BY DEF AbortsHandle
<1>2. early \in BOOLEAN
  OBVIOUS
<1>3. page' \in Pages /\ page'.last = page.last
  <2> HIDE DEF early
  <2>1. (IF early THEN Resting(enabled) ELSE status) \in Busy \cup {"disabled", "idle", "error"}
    BY RestingIsTyped
  <2>2. (error \/ early) \in BOOLEAN
    BY <1>2
  <2> QED
    BY <1>1, <2>1, <2>2, Types DEF IInv, RestOK, Pages
<1> HIDE DEF early
<1>4. CASE handle = NoSnapshot
  <2>1. ups' = ups /\ requests' = requests
    BY <1>4 DEF AbortsHandle
  <2>2. RestOK'
    BY <1>1, <1>3, <2>1, Types DEF IInv, RestOK
  <2> QED
    BY <1>1, <1>3, <2>1, <2>2, NoUpload
<1>5. CASE handle # NoSnapshot
  <2>1. PICK u \in Uploads : u = handle
    BY <1>5, Types DEF IInv, RestOK
  <2> DEFINE up == Aborted(ups[u])
  <2>2. /\ ups' = [ups EXCEPT ![u] = up]
        /\ requests' = IF ups[u].phase \in {"sending", "completing"}
                       THEN requests \cup {<<u, "abort">>} ELSE requests
    BY <1>5, <2>1, Facts DEF AbortsHandle
  <2>3. /\ UploadInv(u) /\ RestOK /\ ups[u] \in Upload /\ store[u] \in Objects
        /\ ups \in [Uploads -> Upload]
    BY Facts
  <2>4. ups[u].phase \in Early => Quitted(ups[u])
    BY <2>3 DEF UploadInv, Fresh, Quitted
  <2>5. /\ up \in Upload
        /\ up.phase = (CASE ups[u].phase \in {"initialising", "presigning"} -> "ended"
                         [] ups[u].phase \in {"sending", "completing"} -> "aborting"
                         [] OTHER -> ups[u].phase)
        /\ Quitted(ups[u]) => Quitted(up)
        /\ up.metrics = ups[u].metrics \/ up.metrics = "failed"
        /\ ups[u].phase = "reporting" => up.metrics = ups[u].metrics
    BY <2>3, <2>4, AbortedFields DEF Early
  <2> HIDE DEF up
  <2>6. RestOK'
    BY <1>1, <1>3, <2>2, <2>3 DEF RestOK
  <2>7. UploadInv(u)'
    <3>1. ups'[u] = up /\ (Opening(u)' <=> Opening(u)) /\ (Fresh(u) => Fresh(u)')
      BY <1>1, <2>2, <2>3, <2>5 DEF Opening, Fresh, Quitted
    <3>2. CASE ups[u].phase \in {"initialising", "presigning"}
      BY <1>1, <2>3, <2>5, <3>1, <3>2 DEF UploadInv, Early
    <3>3. CASE ups[u].phase \in {"sending", "completing"}
      BY <1>1, <2>3, <2>5, <3>1, <3>3 DEF UploadInv, Early
    <3>4. CASE ups[u].phase \notin {"initialising", "presigning", "sending", "completing"}
      BY <1>1, <2>3, <2>5, <3>1, <3>4 DEF UploadInv, Early
    <3> QED
      BY <3>2, <3>3, <3>4
  <2>8. \A v \in Uploads : <<v, "init">> \in requests' => <<v, "init">> \in requests
    BY <2>2
  <2> QED
    BY <1>1, <1>3, <2>2, <2>5, <2>6, <2>7, <2>8, OnlyUpload
<1> QED
  BY <1>4, <1>5

\* A reload forgets the uploads, not what the store was asked.
LEMMA ReloadsKeeps == IInv /\ Reloads => IInv'
<1> SUFFICES ASSUME IInv, Reloads PROVE IInv'
  OBVIOUS
<1>1. /\ ups' = [u \in Uploads |-> Gone(ups[u], <<u, "complete">> \in requests)]
      /\ page' = [enabled |-> page.enabled, status |-> Resting(page.enabled), error |-> FALSE,
                  retryable |-> FALSE, last |-> NoSnapshot]
      /\ handle' = NoSnapshot /\ restore' = NoRestore
      /\ UNCHANGED <<started, store, bucket, requests, restores, lostAborts>>
  BY DEF Reloads
<1>2. RestOK /\ ups \in [Uploads -> Upload] /\ store \in [Uploads -> Objects]
  BY Types DEF IInv
<1>3. page' \in Pages /\ page'.last = NoSnapshot
  BY <1>1, <1>2, RestingIsTyped DEF RestOK, Pages
<1>4. RestOK'
  BY <1>1, <1>2, <1>3 DEF RestOK, NoRestore
<1>5. ASSUME NEW u \in Uploads PROVE ups'[u] \in Upload /\ UploadInv(u)'
  <2>1. PICK completes \in BOOLEAN : ups'[u] = Gone(ups[u], completes)
    <3>1. ups'[u] = Gone(ups[u], <<u, "complete">> \in requests)
      BY <1>1
    <3>2. (<<u, "complete">> \in requests) \in BOOLEAN
      OBVIOUS
    <3> QED
      BY <3>1, <3>2
  <2>2. UploadInv(u) /\ ups[u] \in Upload
    BY Facts
  <2>3. /\ ups'[u] \in Upload /\ Quitted(ups'[u]) /\ ups'[u].metrics = ups[u].metrics
        /\ ups'[u].phase = IF ups[u].phase \in Waiting THEN "gone" ELSE ups[u].phase
    BY <2>1, <2>2, GoneFields
  <2>4. (Opening(u)' <=> Opening(u)) /\ (Fresh(u) => Fresh(u)')
    BY <1>1, <2>3 DEF Opening, Fresh, Quitted
  <2>5. CASE ups[u].phase \in Waiting
    <3>1. ups[u].phase # "none" /\ ups'[u].phase = "gone"
      BY <2>3, <2>5 DEF Waiting
    <3> QED
      BY <1>1, <2>2, <2>3, <2>4, <3>1 DEF UploadInv, Early
  <2>6. CASE ups[u].phase \notin Waiting
    BY <1>1, <2>2, <2>3, <2>4, <2>6 DEF UploadInv, Early
  <2> QED
    BY <2>3, <2>5, <2>6
<1>6. ups' \in [Uploads -> Upload]
  BY <1>1, <1>5
<1>7. TypeOK'
  BY <1>1, <1>2, <1>4, <1>6, TypesPrimed
<1> QED
  BY <1>3, <1>5, <1>7 DEF IInv

\* The other steps of the page touch no upload.
LEMMA PageKeeps ==
  ASSUME IInv,
         \/ \E r \in BOOLEAN : UploadRefused(r) \/ RestoreFails(r)
         \/ Enables \/ Dismisses \/ RestoreStarts \/ SnapshotRead \/ Restored
  PROVE  IInv'
<1>1. RestOK
  BY Types DEF IInv
<1>2. ASSUME NEW r \in BOOLEAN, UploadRefused(r) PROVE IInv'
  <2>1. Shows("error", TRUE, r) \/ Shows("disabled", TRUE, FALSE)
    BY <1>2 DEF UploadRefused
  <2>2. page' \in Pages /\ page'.last = page.last
    BY <2>1, ShowsIsTyped
  <2> QED
    BY <1>1, <1>2, <2>2, NoUpload DEF UploadRefused, RestOK
<1>3. ASSUME NEW r \in BOOLEAN, RestoreFails(r) PROVE IInv'
  <2>1. page' \in Pages /\ page'.last = page.last
    BY <1>3, ShowsIsTyped DEF RestoreFails
  <2> QED
    BY <1>1, <1>3, <2>1, NoUpload DEF RestoreFails, RestOK, NoRestore
<1>4. CASE Enables
  <2>1. page' \in Pages /\ page'.last = page.last
    BY <1>1, <1>4 DEF Enables, RestOK, Pages
  <2> QED
    BY <1>1, <1>4, <2>1, NoUpload DEF Enables, RestOK
<1>5. CASE Dismisses
  <2>1. page' \in Pages /\ page'.last = page.last
    BY <1>1, <1>5, ShowsIsTyped, RestingIsTyped DEF Dismisses, RestOK, Pages
  <2> QED
    BY <1>1, <1>5, <2>1, NoUpload DEF Dismisses, RestOK
<1>6. CASE RestoreStarts
  <2>1. page' \in Pages /\ page'.last = page.last
    BY <1>6, ShowsIsTyped DEF RestoreStarts, Busy
  <2>2. restores' \in 0 .. MaxRestores
    BY <1>1, <1>6, BackupAssumption DEF RestoreStarts, RestOK
  <2> QED
    BY <1>1, <1>6, <2>1, <2>2, NoUpload DEF RestoreStarts, RestOK
<1>7. CASE SnapshotRead
  <2>1. Newest \in Uploads
    <3>1. bucket \in Seq(Uploads) /\ bucket # <<>> /\ Newest = bucket[Len(bucket)]
      BY <1>1, <1>7 DEF SnapshotRead, Newest, Last, RestOK
    <3> QED
      BY <3>1
  <2>2. restore' \in [phase : {"idle", "fetching", "saving"}, snapshot : Uploads \cup {NoSnapshot}]
    BY <1>1, <1>7, <2>1 DEF SnapshotRead, RestOK
  <2> QED
    BY <1>1, <1>7, <2>2, NoUpload DEF SnapshotRead, RestOK
<1>8. CASE Restored
  <2>1. page' \in Pages /\ page'.last = page.last
    BY <1>8, ShowsIsTyped DEF Restored
  <2> QED
    BY <1>1, <1>8, <2>1, NoUpload DEF Restored, RestOK, NoRestore
<1> QED
  BY <1>2, <1>3, <1>4, <1>5, <1>6, <1>7, <1>8

-----------------------------------------------------------------------------
(* The theorems *)

LEMMA InitIsSound == Init => IInv
<1> SUFFICES ASSUME Init PROVE IInv
  OBVIOUS
<1>1. NotStarted \in Upload /\ NotStarted.phase = "none" /\ NotStarted.metrics = "none" /\ Quitted(NotStarted)
  <2> DEFINE off == [w \in Workers |-> Off]
  <2>1. off \in Assignments /\ \A w \in Workers : off[w].part = 0
    BY OffIsTyped DEF Assignments, Off
  <2>2. PartCount + 1 \in 1 .. PartCount + 1
    BY PartCountIsPositive
  <2>3. NotStarted = [phase |-> "none", cancelled |-> FALSE, queue |-> PartCount + 1, done |-> {},
                      workers |-> off, metrics |-> "none"]
    BY DEF NotStarted
  <2> HIDE DEF off
  <2> QED
    BY <2>1, <2>2, <2>3 DEF Upload, Assignments, Quitted
<1>2. Range(bucket) = {} /\ page.last = NoSnapshot /\ started = 0
  BY DEF Init, Range
<1>3. RestOK
  BY BackupAssumption DEF Init, RestOK, Pages, NoRestore
<1>4. ups \in [Uploads -> Upload] /\ store \in [Uploads -> Objects]
  BY <1>1 DEF Init, Objects
<1>5. ASSUME NEW u \in Uploads PROVE UploadInv(u)
  <2>1. ups[u] = NotStarted /\ store[u].parts = {} /\ store[u].state = "none" /\ ~Opening(u)
    BY DEF Init, Opening
  <2> QED
    BY <1>1, <1>2, <2>1 DEF UploadInv, Fresh, Quitted
<1> QED
  BY <1>2, <1>3, <1>4, <1>5, Types DEF IInv

\* Every step keeps the invariant.
LEMMA NextKeeps == IInv /\ [Next]_vars => IInv'
<1> SUFFICES ASSUME IInv, [Next]_vars PROVE IInv'
  OBVIOUS
<1>1. CASE UploadStarts
  BY <1>1, UploadStartsKeeps
<1>2. CASE Cancels
  <2>1. page.enabled \in BOOLEAN
    BY DEF IInv, TypeOK
  <2> QED
    BY <1>2, <2>1, AbortsHandleKeeps DEF Cancels
<1>3. CASE Disables
  BY <1>3, AbortsHandleKeeps DEF Disables
<1>4. CASE Reloads
  BY <1>4, ReloadsKeeps
<1>5. ASSUME NEW u \in Uploads, Steps(u) PROVE IInv'
  <2>1. ASSUME NEW opens \in BOOLEAN, NEW hears \in BOOLEAN, InitServed(u, opens, hears) PROVE IInv'
    BY <2>1, InitServedKeeps
  <2>2. ASSUME NEW done \in BOOLEAN, NEW hears \in BOOLEAN, CompleteServed(u, done, hears) PROVE IInv'
    BY <2>2, CompleteServedKeeps
  <2>3. ASSUME NEW done \in BOOLEAN, AbortServed(u, done) PROVE IInv'
    BY <2>3, AbortServedKeeps
  <2> QED
    BY <1>5, <2>1, <2>2, <2>3, PreparedKeeps, PreparedTooLateKeeps, PresignedKeeps,
       PresignIncompleteKeeps, PresignFailsKeeps, ReportsKeeps DEF Steps
<1>6. ASSUME NEW u \in Uploads, NEW w \in Workers, Puts(u, w) PROVE IInv'
  <2>1. ASSUME NEW stored \in BOOLEAN, NEW r \in BOOLEAN, PartFails(u, w, stored, r) PROVE IInv'
    BY <2>1, PartFailsKeeps
  <2> QED
    BY <1>6, <2>1, PartPutKeeps DEF Puts
<1>7. CASE UNCHANGED vars
  <2>1. RestOK'
    BY <1>7, Types DEF vars, RestOK, IInv
  <2> QED
    BY <1>7, <2>1, NoUpload DEF vars
<1> QED
  BY <1>1, <1>2, <1>3, <1>4, <1>5, <1>6, <1>7, PageKeeps DEF Next, Progress

\* The invariant holds throughout: an upload is opened once, before any worker
\* has a part, and what is in the bucket was completed with every part.
THEOREM UploadsAreSound == Spec => []IInv
  BY InitIsSound, NextKeeps, PTL DEF Spec

\* Every variable of the backup keeps its type.
THEOREM BackupTyping == Spec => []TypeOK
<1>1. IInv => TypeOK
  BY DEF IInv
<1> QED
  BY <1>1, UploadsAreSound, PTL

\* A snapshot in the bucket holds every byte of the encrypted vault
\* (computeMultipartPartCount, uploadEncryptedSnapshotMultipart).
THEOREM SnapshotsHoldEveryByte == Spec => []SnapshotsAreWhole
<1>1. IInv => SnapshotsAreWhole
  <2> SUFFICES ASSUME IInv, NEW u \in Range(bucket)
               PROVE  UNION { Slice(p) : p \in store[u].parts } = 0 .. Size - 1
    BY DEF SnapshotsAreWhole
  <2>1. u \in Uploads
    BY DEF IInv, TypeOK, Range
  <2>2. store[u].parts = Parts
    BY <2>1 DEF IInv, UploadInv
  <2> QED
    BY <2>2, SlicesCover
<1> QED
  BY <1>1, UploadsAreSound, PTL

\* What the page and the metrics report as backed up is in the bucket
\* (cloudBackupUpload, finishCloudBackupMetrics).
THEOREM ReportsAreTrue == Spec => []ReportedIsStored
<1>1. IInv => ReportedIsStored
  BY DEF IInv, UploadInv, ReportedIsStored
<1> QED
  BY <1>1, UploadsAreSound, PTL

\* An upload that ended leaves parts in an open upload only if its abort was
\* not carried out (uploadEncryptedSnapshotMultipart).
THEOREM NothingIsLeftBehind == Spec => []NoPartsAreLeftBehind
<1>1. IInv => NoPartsAreLeftBehind
  BY DEF IInv, UploadInv, Fresh, NoPartsAreLeftBehind
<1> QED
  BY <1>1, UploadsAreSound, PTL
=====
