--------------------------- MODULE CloudSyncProofs ---------------------------
(***************************************************************************)
(* What a cached cloud version is worth, for every number of devices,       *)
(* saves, pulls and lost answers, as long as no init has started the row    *)
(* again: it stands for one vault, and a push conditional on it replaces    *)
(* that vault and no other.                                                 *)
(*                                                                         *)
(* OneWinnerPerVersion is not inductive: a push could store a version some  *)
(* device already knows.  It cannot, because what devices know, hold in an  *)
(* answer or wait to replace is never ahead of the row (Behind), and a push *)
(* or pull in flight carries the row its version came from (Bookkeeping).   *)
(***************************************************************************)
EXTENDS CloudSync, TLAPS

KnownRows ==
  ({basis[d] : d \in Devices} \cup {push[d].seen : d \in Devices}
     \cup {manual[d].seen : d \in Devices}) \ {NoRow}

AllRows == KnownRows \cup ({row} \ {NoRow})

Distinct == \A x, y \in AllRows : x.version = y.version => x = y
Behind   == \A x \in KnownRows : row # NoRow /\ x.version <= row.version

Bookkeeping(d) ==
  /\ cached[d] = IF basis[d] = NoRow THEN 0 ELSE basis[d].version
  /\ push[d].stage = "patch" =>
       push[d].seen # NoRow /\ push[d].ifMatch = push[d].seen.version
  /\ push[d].stage = "stored" => push[d].seen # NoRow
  /\ push[d].stage # "idle" => queue[d] # <<>>
  /\ manual[d].stage \in {"stored", "pulled"} => manual[d].seen # NoRow

Books == \A d \in Devices : Bookkeeping(d)
Rows  == ~restarted => Distinct /\ Behind
CInv  == TypeOK /\ Books /\ Rows

-----------------------------------------------------------------------------
(* Rows *)

\* What devices know are rows.
LEMMA KnownAreRows == TypeOK => AllRows \subseteq Row
  BY DEF TypeOK, AllRows, KnownRows, Request

\* A device that moves alone learns only what its own part shows.
LEMMA LearnsOnly ==
  ASSUME NEW d \in Devices, NEW X,
         \A e \in Devices \ {d} :
           basis'[e] = basis[e] /\ push'[e].seen = push[e].seen /\ manual'[e].seen = manual[e].seen,
         basis'[d] \in {basis[d], push[d].seen, manual[d].seen, NoRow} \cup X,
         push'[d].seen \in {basis[d], push[d].seen, NoRow} \cup X,
         manual'[d].seen \in {manual[d].seen, NoRow} \cup X
  PROVE  KnownRows' \subseteq KnownRows \cup (X \ {NoRow})
  BY DEF KnownRows

\* Learning the row as it is.
LEMMA RowStays ==
  ASSUME Rows, row' = row, restarted' = restarted, KnownRows' \subseteq AllRows,
         TypeOK
  PROVE  Rows'
<1>1. AllRows' \subseteq AllRows
  BY DEF AllRows
<1>2. ASSUME ~restarted PROVE Distinct'
  BY <1>1, <1>2 DEF Rows, Distinct
<1>3. ASSUME ~restarted PROVE Behind'
  <2>1. ASSUME NEW x \in KnownRows' PROVE row # NoRow /\ x.version <= row.version
    <3>1. CASE x \in KnownRows
      BY <1>3, <3>1 DEF Rows, Behind
    <3>2. CASE x = row /\ row # NoRow
      BY <3>2 DEF TypeOK, Row
    <3> QED
      BY <2>1, <3>1, <3>2 DEF AllRows
  <2> QED
    BY <2>1 DEF Behind
<1> QED
  BY <1>2, <1>3 DEF Rows

\* Storing the next version.
LEMMA RowAdvances ==
  ASSUME Rows, TypeOK, row' \in Row, restarted' = restarted,
         row = NoRow \/ (row # NoRow /\ row'.version = row.version + 1),
         KnownRows' \subseteq KnownRows \cup {row'}
  PROVE  Rows'
<1>1. row' # NoRow /\ AllRows' \subseteq KnownRows \cup {row'}
  BY CloudAssumption DEF AllRows
<1>2. row'.version \in Nat /\ \A x \in KnownRows : x.version \in Nat
  BY KnownAreRows DEF AllRows, Row
<1>3. ASSUME ~restarted, NEW x \in KnownRows PROVE x.version < row'.version
  <2>1. row # NoRow /\ x.version <= row.version /\ row.version \in Nat
    BY <1>3 DEF Rows, Behind, TypeOK, Row
  <2> QED
    BY <1>2, <2>1
<1>4. ASSUME ~restarted PROVE Distinct'
  <2>1. ASSUME NEW x \in KnownRows \cup {row'}, NEW y \in KnownRows \cup {row'},
               x.version = y.version
        PROVE  x = y
    <3>1. CASE x \in KnownRows /\ y \in KnownRows
      BY <1>4, <2>1, <3>1 DEF Rows, Distinct, AllRows
    <3>2. CASE x = row' /\ y \in KnownRows
      BY <1>2, <1>3, <1>4, <2>1, <3>2
    <3>3. CASE y = row' /\ x \in KnownRows
      BY <1>2, <1>3, <1>4, <2>1, <3>3
    <3> QED
      BY <2>1, <3>1, <3>2, <3>3
  <2> QED
    BY <1>1, <2>1 DEF Distinct
<1>5. ASSUME ~restarted PROVE Behind'
  <2>1. \A x \in KnownRows \cup {row'} : x.version <= row'.version
    BY <1>2, <1>3, <1>5
  <2> QED
    BY <1>1, <2>1 DEF Behind
<1> QED
  BY <1>4, <1>5 DEF Rows

-----------------------------------------------------------------------------
(* Type correctness *)

\* Requests with parts replaced are requests.
LEMMA RequestsTyped ==
  ASSUME NEW S, NEW q \in Request(S), NEW s \in S, NEW r \in Row \cup {NoRow}
  PROVE  /\ [q EXCEPT !.stage = s, !.seen = r] \in Request(S)
         /\ [q EXCEPT !.stage = s, !.seen = r].stage = s
         /\ [q EXCEPT !.stage = s, !.seen = r].seen = r
         /\ [q EXCEPT !.stage = s, !.seen = r].ifMatch = q.ifMatch
         /\ [q EXCEPT !.stage = s, !.seen = r].data = q.data
  BY DEF Request

\* An idle request is a push and a manual request.
LEMMA IdleTyped == Idle \in Request(PushStages) /\ Idle \in Request(ManualStages)
  BY DEF Idle, Request, PushStages, ManualStages, Content

\* The parts of a request.
LEMMA RequestParts ==
  ASSUME NEW S, NEW q \in Request(S)
  PROVE  /\ q.stage \in S /\ q.data \in Content /\ q.ifMatch \in Nat
         /\ q.seen \in Row \cup {NoRow}
  BY DEF Request

\* The steps of a user keep every variable in its type.
LEMMA UserKeepsTypes ==
  ASSUME TypeOK, NEW d \in Devices, UserStep(d) \/ PushesAgain(d) PROVE TypeOK'
<1> USE DEF TypeOK, Status, history, counters
<1>0. /\ MaxEdits \in Nat /\ MaxToggles \in Nat /\ MaxPulls \in Nat /\ MaxFailures \in Nat
      /\ vault[d] \in Content /\ queue[d] \in Seq(Content)
  BY CloudAssumption
<1>1. CASE Saves(d)
  <2>1. edits' \in 0 .. MaxEdits /\ edits' \in 1 .. MaxEdits
    BY <1>0, <1>1 DEF Saves
  <2>2. vault[d] \cup {edits'} \in Content
    BY <1>0, <2>1 DEF Content
  <2>3. vault' \in [Devices -> Content] /\ vault'[d] \in Content
    BY <1>1, <2>2 DEF Saves
  <2>4. Append(queue[d], vault'[d]) \in Seq(Content)
    BY <1>0, <2>3
  <2>5. queue' \in [Devices -> Seq(Content)]
    BY <1>1, <2>4 DEF Saves
  <2> QED
    BY <1>1, <2>1, <2>3, <2>5 DEF Saves
<1>2. CASE Enables(d)
  <2>1. [Idle EXCEPT !.stage = "probe", !.data = vault[d]] \in Request(ManualStages)
    BY <1>0 DEF Idle, Request, ManualStages
  <2>2. manual' \in [Devices -> Request(ManualStages)]
    BY <1>2, <2>1 DEF Enables
  <2>3. Append(queue[d], vault[d]) \in Seq(Content)
    BY <1>0
  <2>4. queue' \in [Devices -> Seq(Content)]
    BY <1>2, <2>3 DEF Enables
  <2> QED
    BY <1>0, <1>2, <2>2, <2>4 DEF Enables
<1>3. CASE Disables(d)
  BY <1>0, <1>3 DEF Disables
<1>4. CASE Pulls(d)
  <2>1. [Idle EXCEPT !.stage = "fetch"] \in Request(ManualStages)
    BY IdleTyped DEF Idle, Request, ManualStages
  <2>2. manual' \in [Devices -> Request(ManualStages)]
    BY <1>4, <2>1 DEF Pulls
  <2> QED
    BY <1>0, <1>4, <2>2 DEF Pulls
<1>5. CASE PushesAgain(d)
  <2>1. <<vault[d]>> \in Seq(Content)
    BY <1>0
  <2>2. queue' \in [Devices -> Seq(Content)]
    BY <1>5, <2>1 DEF PushesAgain
  <2> QED
    BY <1>5, <2>2 DEF PushesAgain
<1> QED
  BY <1>1, <1>2, <1>3, <1>4, <1>5 DEF UserStep

\* The steps of a push keep every variable in its type.
LEMMA PushKeepsTypes ==
  ASSUME TypeOK, Books, NEW d \in Devices, PushStep(d) PROVE TypeOK'
<1> USE DEF TypeOK, Status, history, counters
<1>0. /\ MaxFailures \in Nat /\ queue[d] \in Seq(Content) /\ push[d] \in Request(PushStages)
      /\ push[d].data \in Content /\ push[d].ifMatch \in Nat
      /\ push[d].seen \in Row \cup {NoRow}
  BY CloudAssumption, RequestParts
<1>1. AnswerLost => failures' \in 0 .. MaxFailures
  BY <1>0 DEF AnswerLost
<1>2. ASSUME NEW s \in PushStages, s # "patch", NEW r \in Row \cup {NoRow}, PushTo(d, s, r)
      PROVE  /\ push' \in [Devices -> Request(PushStages)]
             /\ \A e \in Devices : push'[e].stage = "patch" => push'[e].ifMatch > 0
  <2> DEFINE q == [push[d] EXCEPT !.stage = s, !.seen = r]
  <2>1. push' = [push EXCEPT ![d] = q]
    BY <1>2 DEF PushTo
  <2>2. q \in Request(PushStages)
    BY <1>0, RequestsTyped
  <2>3. q.stage = s
    BY <1>0 DEF Request
  <2> HIDE DEF q
  <2> QED
    BY <1>2, <2>1, <2>2, <2>3
<1>3. ASSUME PushDropped(d), push[d].stage # "idle"
      PROVE  /\ push' \in [Devices -> Request(PushStages)]
             /\ \A e \in Devices : push'[e].stage = "patch" => push'[e].ifMatch > 0
             /\ queue' \in [Devices -> Seq(Content)]
             /\ syncing' \in [Devices -> BOOLEAN]
  <2>1. queue[d] # <<>>
    BY <1>3 DEF Books, Bookkeeping
  <2>2. Tail(queue[d]) \in Seq(Content)
    BY <1>0, <2>1
  <2>3. Idle.stage # "patch"
    BY DEF Idle
  <2> QED
    BY <1>3, <2>2, <2>3, IdleTyped DEF PushDropped
<1>4. \A n \in Nat : Stored(n + 1, push[d].data) \in Row /\ Stored(1, push[d].data) \in Row
  BY <1>0 DEF Stored, Row
<1>5. CASE PushStarts(d)
  <2>1. Head(queue[d]) \in Content
    BY <1>0, <1>5 DEF PushStarts
  <2> DEFINE q == [stage |-> IF cached[d] = 0 THEN "check" ELSE "patch",
                   data |-> Head(queue[d]), ifMatch |-> cached[d], seen |-> basis[d]]
  <2>2. q \in Request(PushStages) /\ (q.stage = "patch" => q.ifMatch > 0)
    BY <2>1 DEF Request, PushStages
  <2>3. push' = [push EXCEPT ![d] = q]
    BY <1>5 DEF PushStarts
  <2> HIDE DEF q
  <2>4. /\ push' \in [Devices -> Request(PushStages)]
        /\ \A e \in Devices : push'[e].stage = "patch" => push'[e].ifMatch > 0
    BY <2>2, <2>3
  <2> QED
    BY <1>5, <2>4 DEF PushStarts
<1>6. CASE ChecksForRow(d)
  <2>1. /\ push' \in [Devices -> Request(PushStages)]
        /\ \A e \in Devices : push'[e].stage = "patch" => push'[e].ifMatch > 0
    BY <1>2, <1>6 DEF ChecksForRow, PushStages
  <2> QED
    BY <1>6, <2>1 DEF ChecksForRow
<1>7. CASE InsertsRow(d)
  <2>1. CASE PushDropped(d) /\ UNCHANGED <<row, failures>>
    <3>1. push[d].stage # "idle"
      BY <1>7 DEF InsertsRow
    <3> QED
      BY <1>3, <1>7, <2>1, <3>1 DEF InsertsRow
  <2>2. CASE row' = Stored(1, push[d].data) /\ PushTo(d, "stored", row')
             /\ UNCHANGED <<failures, queue, syncing>>
    <3>1. row' \in Row
      BY <1>4, <2>2
    <3>2. /\ push' \in [Devices -> Request(PushStages)]
          /\ \A e \in Devices : push'[e].stage = "patch" => push'[e].ifMatch > 0
      BY <1>2, <2>2, <3>1 DEF PushStages
    <3> QED
      BY <1>7, <2>2, <3>1, <3>2 DEF InsertsRow
  <2>3. CASE row' = Stored(1, push[d].data) /\ AnswerLost /\ UNCHANGED <<push, queue, syncing>>
    BY <1>1, <1>4, <1>7, <2>3 DEF InsertsRow
  <2> QED
    BY <1>7, <2>1, <2>2, <2>3 DEF InsertsRow
<1>8. CASE PatchesRow(d)
  <2>1. CASE PushTo(d, "lookup", NoRow) /\ UNCHANGED <<row, failures>>
    <3>1. /\ push' \in [Devices -> Request(PushStages)]
          /\ \A e \in Devices : push'[e].stage = "patch" => push'[e].ifMatch > 0
      BY <1>2, <2>1 DEF PushStages
    <3> QED
      BY <1>8, <2>1, <3>1 DEF PatchesRow
  <2>2. CASE row' = Stored(push[d].ifMatch + 1, push[d].data) /\ PushTo(d, "stored", row')
             /\ UNCHANGED failures
    <3>1. row' \in Row
      BY <1>0, <1>4, <2>2
    <3>2. /\ push' \in [Devices -> Request(PushStages)]
          /\ \A e \in Devices : push'[e].stage = "patch" => push'[e].ifMatch > 0
      BY <1>2, <2>2, <3>1 DEF PushStages
    <3> QED
      BY <1>8, <2>2, <3>1, <3>2 DEF PatchesRow
  <2>3. CASE row' = Stored(push[d].ifMatch + 1, push[d].data) /\ AnswerLost /\ UNCHANGED push
    BY <1>0, <1>1, <1>4, <1>8, <2>3 DEF PatchesRow
  <2> QED
    BY <1>8, <2>1, <2>2, <2>3 DEF PatchesRow
<1>9. CASE LooksUpVersion(d)
  <2>1. /\ push' \in [Devices -> Request(PushStages)]
        /\ \A e \in Devices : push'[e].stage = "patch" => push'[e].ifMatch > 0
    BY <1>2, <1>9 DEF LooksUpVersion, PushStages
  <2> QED
    BY <1>1, <1>9, <2>1 DEF LooksUpVersion
<1>10. CASE PushFails(d)
  BY <1>1, <1>3, <1>10 DEF PushFails
<1>11. CASE PushSettles(d)
  <2>1. push[d].stage # "idle" /\ PushDropped(d)
    BY <1>11 DEF PushSettles
  <2>2. CASE Learns(d)
    <3>1. push[d].seen \in Row /\ push[d].seen.version \in Nat
      BY <1>0, <2>2 DEF Learns, Row
    <3> QED
      BY <1>3, <1>11, <2>1, <2>2, <3>1 DEF PushSettles
  <2>3. CASE ~Learns(d)
    BY <1>3, <1>11, <2>1, <2>3 DEF PushSettles
  <2> QED
    BY <2>2, <2>3
<1> QED
  BY <1>5, <1>6, <1>7, <1>8, <1>9, <1>10, <1>11 DEF PushStep

\* The steps of cloudInit and cloudPull keep every variable in its type.
LEMMA ManualKeepsTypes ==
  ASSUME TypeOK, Books, NEW d \in Devices, ManualStep(d) PROVE TypeOK'
<1> USE DEF TypeOK, Status, history, counters
<1>0. /\ MaxFailures \in Nat /\ manual[d] \in Request(ManualStages)
      /\ manual[d].data \in Content /\ manual[d].seen \in Row \cup {NoRow}
  BY CloudAssumption, RequestParts
<1>1. AnswerLost => failures' \in 0 .. MaxFailures
  BY <1>0 DEF AnswerLost
<1>2. ASSUME NEW s \in ManualStages, NEW r \in Row \cup {NoRow}, ManualTo(d, s, r)
      PROVE  manual' \in [Devices -> Request(ManualStages)]
  <2> DEFINE q == [manual[d] EXCEPT !.stage = s, !.seen = r]
  <2>1. manual' = [manual EXCEPT ![d] = q]
    BY <1>2 DEF ManualTo
  <2>2. q \in Request(ManualStages)
    BY <1>0, RequestsTyped
  <2> HIDE DEF q
  <2> QED
    BY <2>1, <2>2
<1>3. ASSUME ManualOver(d)
      PROVE  manual' \in [Devices -> Request(ManualStages)] /\ syncing' \in [Devices -> BOOLEAN]
  BY <1>3, IdleTyped DEF ManualOver
<1>4. Stored(1, manual[d].data) \in Row
  BY <1>0 DEF Stored, Row
<1>5. CASE Probes(d)
  <2>1. manual' \in [Devices -> Request(ManualStages)] /\ syncing' \in [Devices -> BOOLEAN]
    BY <1>2, <1>3, <1>5 DEF Probes, ManualStages
  <2> QED
    BY <1>5, <2>1 DEF Probes
<1>6. CASE InitOverwrites(d)
  <2>1. row' \in Row \cup {NoRow} /\ restarted' \in BOOLEAN /\ failures' \in 0 .. MaxFailures
    BY <1>1, <1>4, <1>6 DEF InitOverwrites
  <2>2. manual' \in [Devices -> Request(ManualStages)]
    BY <1>2, <1>6, <2>1 DEF InitOverwrites, ManualStages
  <2> QED
    BY <1>6, <2>1, <2>2 DEF InitOverwrites
<1>7. CASE InitCreates(d)
  <2>1. row' \in Row \cup {NoRow} /\ failures' \in 0 .. MaxFailures
    BY <1>1, <1>4, <1>7 DEF InitCreates
  <2>2. manual' \in [Devices -> Request(ManualStages)] /\ syncing' \in [Devices -> BOOLEAN]
    BY <1>2, <1>3, <1>7, <2>1 DEF InitCreates, ManualStages
  <2> QED
    BY <1>7, <2>1, <2>2 DEF InitCreates
<1>8. ASSUME manual[d].stage \in {"stored", "pulled"}
      PROVE  manual[d].seen \in Row /\ manual[d].seen.version \in Nat
             /\ manual[d].seen.content \in Content
  BY <1>0, <1>8 DEF Books, Bookkeeping, Row
<1>9. CASE InitSettles(d)
  BY <1>3, <1>8, <1>9 DEF InitSettles
<1>10. CASE Fetches(d)
  <2>1. manual' \in [Devices -> Request(ManualStages)] /\ syncing' \in [Devices -> BOOLEAN]
    BY <1>2, <1>3, <1>10 DEF Fetches, ManualStages
  <2> QED
    BY <1>10, <2>1 DEF Fetches
<1>11. CASE PullSettles(d)
  BY <1>3, <1>8, <1>11 DEF PullSettles
<1>12. CASE ManualFails(d)
  BY <1>1, <1>3, <1>12 DEF ManualFails
<1> QED
  BY <1>5, <1>6, <1>7, <1>9, <1>10, <1>11, <1>12 DEF ManualStep

-----------------------------------------------------------------------------
(* Bookkeeping *)

\* What one device does, the others' books do not notice.
LEMMA BooksOfOthers ==
  ASSUME Books, NEW d \in Devices, Bookkeeping(d)',
         \A e \in Devices \ {d} :
           /\ cached'[e] = cached[e] /\ basis'[e] = basis[e] /\ queue'[e] = queue[e]
           /\ push'[e] = push[e] /\ manual'[e] = manual[e]
  PROVE  Books'
  BY DEF Books, Bookkeeping

\* A user's steps touch no request but the new ones.
LEMMA UserKeepsBooks ==
  ASSUME TypeOK, Books, NEW d \in Devices, UserStep(d) \/ PushesAgain(d) PROVE Books'
<1> USE DEF TypeOK, history
<1>0. Bookkeeping(d)
  BY DEF Books
<1>1. queue[d] \in Seq(Content) /\ vault[d] \in Content
  OBVIOUS
<1>2. CASE Saves(d)
  <2>1. queue'[d] = queue[d] \/ queue'[d] = Append(queue[d], vault'[d])
    BY <1>2 DEF Saves
  <2>2. queue[d] # <<>> => queue'[d] # <<>>
    BY <1>1, <2>1
  <2>3. Bookkeeping(d)'
    BY <1>0, <1>2, <2>2 DEF Saves, Bookkeeping
  <2> QED
    BY <1>2, <2>3, BooksOfOthers DEF Saves
<1>3. CASE Enables(d)
  <2>1. queue'[d] # <<>>
    BY <1>1, <1>3 DEF Enables
  <2>2. manual'[d].stage = "probe"
    BY <1>3 DEF Enables, Idle
  <2>3. Bookkeeping(d)'
    BY <1>0, <1>3, <2>1, <2>2 DEF Enables, Bookkeeping
  <2> QED
    BY <1>3, <2>3, BooksOfOthers DEF Enables
<1>4. CASE Disables(d)
  BY <1>4 DEF Disables, Books, Bookkeeping
<1>5. CASE Pulls(d)
  <2>1. manual'[d].stage = "fetch"
    BY <1>5 DEF Pulls, Idle
  <2>2. Bookkeeping(d)'
    BY <1>0, <1>5, <2>1 DEF Pulls, Bookkeeping
  <2> QED
    BY <1>5, <2>2, BooksOfOthers DEF Pulls
<1>6. CASE PushesAgain(d)
  <2>1. queue'[d] # <<>>
    BY <1>6 DEF PushesAgain
  <2>2. Bookkeeping(d)'
    BY <1>0, <1>6, <2>1 DEF PushesAgain, Bookkeeping
  <2> QED
    BY <1>6, <2>2, BooksOfOthers DEF PushesAgain
<1> QED
  BY <1>2, <1>3, <1>4, <1>5, <1>6 DEF UserStep

\* A push carries the row its version came from until the database answers.
LEMMA PushKeepsBooks ==
  ASSUME TypeOK, Books, NEW d \in Devices, PushStep(d) PROVE Books'
<1> USE DEF TypeOK, history
<1>0. Bookkeeping(d)
  BY DEF Books
<1>1. push[d] \in Request(PushStages) /\ cached[d] \in Nat /\ basis[d] \in Row \cup {NoRow}
  OBVIOUS
<1>2. UNCHANGED manual
  BY DEF PushStep, PushStarts, ChecksForRow, InsertsRow, PatchesRow, LooksUpVersion,
         PushFails, PushSettles
<1>3. ASSUME NEW s \in PushStages \ {"idle", "patch"}, NEW r, PushTo(d, s, r),
             s = "stored" => r # NoRow, push[d].stage # "idle",
             UNCHANGED <<cached, basis, queue>>
      PROVE  Books'
  <2>1. push'[d].stage = s /\ push'[d].seen = r
    BY <1>1, <1>3 DEF PushTo, Request
  <2>2. Bookkeeping(d)'
    BY <1>0, <1>2, <1>3, <2>1 DEF Bookkeeping
  <2> QED
    BY <1>2, <1>3, <2>2, BooksOfOthers DEF PushTo
<1>4. ASSUME PushDropped(d), cached'[d] = IF basis'[d] = NoRow THEN 0 ELSE basis'[d].version,
             \A e \in Devices \ {d} : cached'[e] = cached[e] /\ basis'[e] = basis[e]
      PROVE  Books'
  <2>1. push'[d].stage = "idle"
    BY <1>4 DEF PushDropped, Idle
  <2>2. Bookkeeping(d)'
    BY <1>0, <1>2, <1>4, <2>1 DEF Bookkeeping
  <2> QED
    BY <1>2, <1>4, <2>2, BooksOfOthers DEF PushDropped
<1>5. ASSUME UNCHANGED <<cached, basis, queue, push>> PROVE Books'
  BY <1>2, <1>5 DEF Books, Bookkeeping
<1>6. CASE PushStarts(d)
  <2>1. push'[d] = [stage |-> IF cached[d] = 0 THEN "check" ELSE "patch",
                    data |-> Head(queue[d]), ifMatch |-> cached[d], seen |-> basis[d]]
    BY <1>6 DEF PushStarts
  <2>2. Bookkeeping(d)'
    BY <1>0, <1>1, <1>2, <1>6, <2>1 DEF PushStarts, Bookkeeping
  <2> QED
    BY <1>2, <1>6, <2>2, BooksOfOthers DEF PushStarts
<1>7. CASE ChecksForRow(d)
  BY <1>3, <1>7 DEF ChecksForRow, PushStages
<1>8. CASE InsertsRow(d)
  <2>1. CASE PushDropped(d)
    BY <1>0, <1>4, <1>8, <2>1 DEF InsertsRow, Bookkeeping
  <2>2. CASE row' = Stored(1, push[d].data) /\ PushTo(d, "stored", row') /\ UNCHANGED queue
    <3>1. row' # NoRow
      BY <1>1, <2>2, CloudAssumption DEF Stored, Row, Request
    <3> QED
      BY <1>3, <1>8, <2>2, <3>1 DEF InsertsRow, PushStages
  <2>3. CASE UNCHANGED <<push, queue>>
    BY <1>5, <1>8, <2>3 DEF InsertsRow
  <2> QED
    BY <1>8, <2>1, <2>2, <2>3 DEF InsertsRow
<1>9. CASE PatchesRow(d)
  <2>1. CASE PushTo(d, "lookup", NoRow)
    BY <1>3, <1>9, <2>1 DEF PatchesRow, PushStages
  <2>2. CASE row' = Stored(push[d].ifMatch + 1, push[d].data) /\ PushTo(d, "stored", row')
    <3>1. row' # NoRow
      BY <1>1, <2>2, CloudAssumption DEF Stored, Row, Request
    <3> QED
      BY <1>3, <1>9, <2>2, <3>1 DEF PatchesRow, PushStages
  <2>3. CASE UNCHANGED push
    BY <1>5, <1>9, <2>3 DEF PatchesRow
  <2> QED
    BY <1>9, <2>1, <2>2, <2>3 DEF PatchesRow
<1>10. CASE LooksUpVersion(d)
  BY <1>3, <1>10 DEF LooksUpVersion, PushStages
<1>11. CASE PushFails(d)
  BY <1>0, <1>4, <1>11 DEF PushFails, Bookkeeping
<1>12. CASE PushSettles(d)
  <2>1. CASE Learns(d)
    BY <1>1, <1>4, <1>12, <2>1 DEF PushSettles, Learns
  <2>2. CASE ~Learns(d)
    BY <1>0, <1>4, <1>12, <2>2 DEF PushSettles, Bookkeeping
  <2> QED
    BY <2>1, <2>2
<1> QED
  BY <1>6, <1>7, <1>8, <1>9, <1>10, <1>11, <1>12 DEF PushStep

\* What a device pulled or initialised is a row until it is cached.
LEMMA ManualKeepsBooks ==
  ASSUME TypeOK, Books, NEW d \in Devices, ManualStep(d) PROVE Books'
<1> USE DEF TypeOK, history
<1>0. Bookkeeping(d)
  BY DEF Books
<1>1. manual[d] \in Request(ManualStages)
  OBVIOUS
<1>2. UNCHANGED <<push, queue>>
  BY DEF ManualStep, Probes, InitOverwrites, InitCreates, InitSettles, Fetches, PullSettles,
         ManualFails
<1>3. ASSUME NEW s \in ManualStages, NEW r, ManualTo(d, s, r),
             s \in {"stored", "pulled"} => r # NoRow, UNCHANGED <<cached, basis>>
      PROVE  Books'
  <2>1. manual'[d].stage = s /\ manual'[d].seen = r
    BY <1>1, <1>3 DEF ManualTo, Request
  <2>2. Bookkeeping(d)'
    BY <1>0, <1>2, <1>3, <2>1 DEF Bookkeeping
  <2> QED
    BY <1>2, <1>3, <2>2, BooksOfOthers DEF ManualTo
<1>4. ASSUME ManualOver(d), cached'[d] = IF basis'[d] = NoRow THEN 0 ELSE basis'[d].version,
             \A e \in Devices \ {d} : cached'[e] = cached[e] /\ basis'[e] = basis[e]
      PROVE  Books'
  <2>1. manual'[d].stage = "idle"
    BY <1>4 DEF ManualOver, Idle
  <2>2. Bookkeeping(d)'
    BY <1>0, <1>2, <1>4, <2>1 DEF Bookkeeping
  <2> QED
    BY <1>2, <1>4, <2>2, BooksOfOthers DEF ManualOver
<1>5. ASSUME UNCHANGED <<cached, basis, manual>> PROVE Books'
  BY <1>2, <1>5 DEF Books, Bookkeeping
<1>6. ASSUME ManualOver(d), UNCHANGED <<cached, basis>> PROVE Books'
  BY <1>0, <1>4, <1>6 DEF Bookkeeping
<1>7. Stored(1, manual[d].data) # NoRow
  BY <1>1, CloudAssumption DEF Stored, Row, Request
<1>8. CASE Probes(d)
  BY <1>3, <1>6, <1>8 DEF Probes, ManualStages
<1>9. CASE InitOverwrites(d)
  BY <1>3, <1>5, <1>7, <1>9 DEF InitOverwrites, ManualStages
<1>10. CASE InitCreates(d)
  BY <1>3, <1>5, <1>6, <1>7, <1>10 DEF InitCreates, ManualStages
<1>11. CASE InitSettles(d)
  BY <1>0, <1>4, <1>11 DEF InitSettles, Bookkeeping
<1>12. CASE Fetches(d)
  BY <1>3, <1>6, <1>12 DEF Fetches, ManualStages
<1>13. CASE PullSettles(d)
  BY <1>0, <1>4, <1>13 DEF PullSettles, Bookkeeping
<1>14. CASE ManualFails(d)
  BY <1>6, <1>14 DEF ManualFails
<1> QED
  BY <1>8, <1>9, <1>10, <1>11, <1>12, <1>13, <1>14 DEF ManualStep

-----------------------------------------------------------------------------
(* The row and what is known of it *)

\* What is known at one device.
LEMMA OwnKnowledge ==
  ASSUME NEW d \in Devices
  PROVE  {basis[d], push[d].seen, manual[d].seen} \subseteq KnownRows \cup {NoRow}
  BY DEF KnownRows

\* A step that leaves row and restarted alone and shows a device at most the
\* row as it is.
LEMMA QuietStep ==
  ASSUME TypeOK, Rows, NEW d \in Devices, UNCHANGED <<row, restarted>>,
         \A e \in Devices \ {d} :
           basis'[e] = basis[e] /\ push'[e].seen = push[e].seen /\ manual'[e].seen = manual[e].seen,
         basis'[d] \in {basis[d], push[d].seen, manual[d].seen, NoRow},
         push'[d].seen \in {basis[d], push[d].seen, NoRow, row},
         manual'[d].seen \in {manual[d].seen, NoRow, row}
  PROVE  Rows'
<1>1. KnownRows' \subseteq KnownRows \cup ({row} \ {NoRow})
  BY LearnsOnly
<1> QED
  BY <1>1, RowStays DEF AllRows

\* A step that stores the next version and shows it to at most its device.
LEMMA StoringStep ==
  ASSUME TypeOK, Rows, NEW d \in Devices, UNCHANGED <<basis, restarted>>, row' \in Row,
         row = NoRow \/ (row # NoRow /\ row'.version = row.version + 1),
         \A e \in Devices \ {d} : push'[e].seen = push[e].seen /\ manual'[e].seen = manual[e].seen,
         push'[d].seen \in {push[d].seen, row'},
         manual'[d].seen \in {manual[d].seen, row'}
  PROVE  Rows'
<1>1. KnownRows' \subseteq KnownRows \cup ({row'} \ {NoRow})
  BY LearnsOnly
<1> QED
  BY <1>1, RowAdvances

\* A user's steps show no device anything.
LEMMA UserKeepsRows ==
  ASSUME TypeOK, Rows, NEW d \in Devices, UserStep(d) \/ PushesAgain(d) PROVE Rows'
<1> USE DEF TypeOK, history
<1>1. /\ UNCHANGED <<row, restarted, basis, push>>
      /\ \A e \in Devices \ {d} : manual'[e] = manual[e]
  BY DEF UserStep, PushesAgain, Saves, Enables, Disables, Pulls
<1>2. CASE Enables(d) \/ Pulls(d)
  <2>1. ASSUME Enables(d) PROVE manual'[d].seen = NoRow
    <3>1. manual'[d] = [Idle EXCEPT !.stage = "probe", !.data = vault[d]]
      BY <2>1 DEF Enables
    <3> QED
      BY <3>1 DEF Idle
  <2>2. ASSUME Pulls(d) PROVE manual'[d].seen = NoRow
    <3>1. manual'[d] = [Idle EXCEPT !.stage = "fetch"]
      BY <2>2 DEF Pulls
    <3> QED
      BY <3>1 DEF Idle
  <2>3. manual'[d].seen = NoRow
    BY <1>2, <2>1, <2>2
  <2> QED
    BY <1>1, <2>3, QuietStep
<1>3. CASE Saves(d) \/ Disables(d) \/ PushesAgain(d)
  <2>1. UNCHANGED manual
    BY <1>3 DEF Saves, Disables, PushesAgain
  <2> QED
    BY <1>1, <2>1, QuietStep
<1> QED
  BY <1>2, <1>3 DEF UserStep

\* A push stores the next version or none.
LEMMA PushKeepsRows ==
  ASSUME TypeOK, Books, Rows, NEW d \in Devices, PushStep(d) PROVE Rows'
<1> USE DEF TypeOK, history
<1>1. push[d] \in Request(PushStages) /\ push[d].data \in Content /\ push[d].ifMatch \in Nat
  BY RequestParts
<1>2. UNCHANGED <<manual, restarted>>
  BY DEF PushStep, PushStarts, ChecksForRow, InsertsRow, PatchesRow, LooksUpVersion,
         PushFails, PushSettles
<1>3. ASSUME NEW s, NEW r, PushTo(d, s, r)
      PROVE  push'[d].seen = r /\ \A e \in Devices \ {d} : push'[e] = push[e]
  BY <1>1, <1>3 DEF PushTo, Request
<1>4. ASSUME PushDropped(d)
      PROVE  push'[d].seen = NoRow /\ \A e \in Devices \ {d} : push'[e] = push[e]
  BY <1>4 DEF PushDropped, Idle
<1>5. CASE PushStarts(d)
  <2>1. push'[d].seen = basis[d] /\ \A e \in Devices \ {d} : push'[e] = push[e]
    BY <1>5 DEF PushStarts
  <2> QED
    BY <1>2, <1>5, <2>1, QuietStep DEF PushStarts
<1>6. CASE ChecksForRow(d)
  BY <1>2, <1>3, <1>6, QuietStep DEF ChecksForRow
<1>7. CASE InsertsRow(d)
  <2>1. CASE PushDropped(d) /\ UNCHANGED row
    BY <1>2, <1>4, <1>7, <2>1, QuietStep DEF InsertsRow
  <2>2. CASE row = NoRow /\ row' = Stored(1, push[d].data)
             /\ (PushTo(d, "stored", row') \/ UNCHANGED push)
    <3>1. row' \in Row
      BY <1>1, <2>2 DEF Stored, Row
    <3> QED
      BY <1>2, <1>3, <1>7, <2>2, <3>1, StoringStep DEF InsertsRow
  <2> QED
    BY <1>7, <2>1, <2>2 DEF InsertsRow
<1>8. CASE PatchesRow(d)
  <2>1. CASE PushTo(d, "lookup", NoRow) /\ UNCHANGED row
    BY <1>2, <1>3, <1>8, <2>1, QuietStep DEF PatchesRow
  <2>2. CASE row # NoRow /\ row.version = push[d].ifMatch
             /\ row' = Stored(push[d].ifMatch + 1, push[d].data)
             /\ (PushTo(d, "stored", row') \/ UNCHANGED push)
    <3>1. row' \in Row /\ row'.version = row.version + 1
      BY <1>1, <2>2 DEF Stored, Row
    <3> QED
      BY <1>2, <1>3, <1>8, <2>2, <3>1, StoringStep DEF PatchesRow
  <2> QED
    BY <1>8, <2>1, <2>2 DEF PatchesRow
<1>9. CASE LooksUpVersion(d)
  BY <1>2, <1>3, <1>9, QuietStep DEF LooksUpVersion
<1>10. CASE PushFails(d)
  BY <1>2, <1>4, <1>10, QuietStep DEF PushFails
<1>11. CASE PushSettles(d)
  <2>1. basis'[d] \in {basis[d], push[d].seen} /\ \A e \in Devices \ {d} : basis'[e] = basis[e]
    BY <1>11 DEF PushSettles
  <2> QED
    BY <1>2, <1>4, <1>11, <2>1, QuietStep DEF PushSettles
<1> QED
  BY <1>5, <1>6, <1>7, <1>8, <1>9, <1>10, <1>11 DEF PushStep

\* cloudInit creates the first row or starts the row again; a pull stores
\* nothing.
LEMMA ManualKeepsRows ==
  ASSUME TypeOK, Rows, NEW d \in Devices, ManualStep(d) PROVE Rows'
<1> USE DEF TypeOK, history
<1>1. manual[d] \in Request(ManualStages) /\ manual[d].data \in Content
  BY RequestParts
<1>2. UNCHANGED push
  BY DEF ManualStep, Probes, InitOverwrites, InitCreates, InitSettles, Fetches, PullSettles,
         ManualFails
<1>3. ASSUME NEW s, NEW r, ManualTo(d, s, r)
      PROVE  manual'[d].seen = r /\ \A e \in Devices \ {d} : manual'[e] = manual[e]
  BY <1>1, <1>3 DEF ManualTo, Request
<1>4. ASSUME ManualOver(d)
      PROVE  manual'[d].seen = NoRow /\ \A e \in Devices \ {d} : manual'[e] = manual[e]
  BY <1>4 DEF ManualOver, Idle
<1>5. CASE Probes(d)
  BY <1>2, <1>3, <1>4, <1>5, QuietStep DEF Probes
<1>6. CASE InitOverwrites(d)
  <2>1. CASE ManualTo(d, "create", NoRow) /\ UNCHANGED <<row, restarted>>
    BY <1>2, <1>3, <1>6, <2>1, QuietStep DEF InitOverwrites
  <2>2. CASE restarted' = TRUE
    BY <2>2 DEF Rows
  <2> QED
    BY <1>6, <2>1, <2>2 DEF InitOverwrites
<1>7. CASE InitCreates(d)
  <2>1. CASE ManualOver(d) /\ UNCHANGED row
    BY <1>2, <1>4, <1>7, <2>1, QuietStep DEF InitCreates
  <2>2. CASE row = NoRow /\ row' = Stored(1, manual[d].data)
             /\ (ManualTo(d, "stored", row') \/ UNCHANGED manual)
    <3>1. row' \in Row
      BY <1>1, <2>2 DEF Stored, Row
    <3> QED
      BY <1>2, <1>3, <1>7, <2>2, <3>1, StoringStep DEF InitCreates
  <2> QED
    BY <1>7, <2>1, <2>2 DEF InitCreates
<1>8. CASE InitSettles(d)
  BY <1>2, <1>4, <1>8, QuietStep DEF InitSettles
<1>9. CASE Fetches(d)
  BY <1>2, <1>3, <1>4, <1>9, QuietStep DEF Fetches
<1>10. CASE PullSettles(d)
  BY <1>2, <1>4, <1>10, QuietStep DEF PullSettles
<1>11. CASE ManualFails(d)
  BY <1>2, <1>4, <1>11, QuietStep DEF ManualFails
<1> QED
  BY <1>5, <1>6, <1>7, <1>8, <1>9, <1>10, <1>11 DEF ManualStep

-----------------------------------------------------------------------------
(* The theorems *)

\* At first nothing is known and nothing is stored.
LEMMA CInvInit == Init => CInv
<1> SUFFICES ASSUME Init PROVE CInv
  OBVIOUS
<1>1. TypeOK
  <2>1. {} \in Content /\ <<>> \in Seq(Content)
    BY DEF Content
  <2>2. /\ push \in [Devices -> Request(PushStages)]
        /\ manual \in [Devices -> Request(ManualStages)]
        /\ \A d \in Devices : push[d].stage # "patch"
    <3>1. Idle.stage # "patch"
      BY DEF Idle
    <3> QED
      BY <3>1, IdleTyped DEF Init
  <2>3. queue \in [Devices -> Seq(Content)] /\ vault \in [Devices -> Content]
    BY <2>1 DEF Init
  <2>4. /\ enabled \in [Devices -> BOOLEAN] /\ syncing \in [Devices -> BOOLEAN]
        /\ owed \in [Devices -> BOOLEAN] /\ warned \in [Devices -> BOOLEAN]
        /\ restarted \in BOOLEAN
    BY DEF Init
  <2>5. /\ cached \in [Devices -> Nat] /\ basis \in [Devices -> Row \cup {NoRow}]
        /\ row \in Row \cup {NoRow}
    BY DEF Init
  <2>6. /\ edits \in 0 .. MaxEdits /\ toggles \in 0 .. MaxToggles
        /\ pulls \in 0 .. MaxPulls /\ failures \in 0 .. MaxFailures
    BY CloudAssumption DEF Init
  <2> QED
    BY <2>2, <2>3, <2>4, <2>5, <2>6 DEF TypeOK
<1>2. Books
  BY DEF Init, Books, Bookkeeping, Idle
<1>3. KnownRows = {} /\ AllRows = {}
  BY DEF Init, KnownRows, AllRows, Idle
<1> QED
  BY <1>1, <1>2, <1>3 DEF CInv, Rows, Distinct, Behind

\* Every step keeps the invariant.
LEMMA CInvStep == CInv /\ [Next]_vars => CInv'
<1> SUFFICES ASSUME CInv, [Next]_vars PROVE CInv'
  OBVIOUS
<1>0. TypeOK /\ Books /\ Rows
  BY DEF CInv
<1>1. ASSUME NEW d \in Devices, UserStep(d) \/ PushesAgain(d) PROVE CInv'
  BY <1>0, <1>1, UserKeepsTypes, UserKeepsBooks, UserKeepsRows DEF CInv
<1>2. ASSUME NEW d \in Devices, PushStep(d) PROVE CInv'
  BY <1>0, <1>2, PushKeepsTypes, PushKeepsBooks, PushKeepsRows DEF CInv
<1>3. ASSUME NEW d \in Devices, ManualStep(d) PROVE CInv'
  BY <1>0, <1>3, ManualKeepsTypes, ManualKeepsBooks, ManualKeepsRows DEF CInv
<1>4. CASE UNCHANGED vars
  <2>1. TypeOK'
    BY <1>0, <1>4 DEF vars, TypeOK
  <2>2. Books'
    BY <1>0, <1>4 DEF vars, Books, Bookkeeping
  <2>3. KnownRows' = KnownRows /\ AllRows' = AllRows
    BY <1>4 DEF vars, KnownRows, AllRows
  <2>4. Rows'
    BY <1>0, <1>4, <2>3 DEF vars, Rows, Distinct, Behind
  <2> QED
    BY <2>1, <2>2, <2>4 DEF CInv
<1> QED
  BY <1>1, <1>2, <1>3, <1>4 DEF Next

\* What devices know of the cloud vault is never ahead of it and never
\* ambiguous, and a push in flight carries the row it may replace, for every
\* number of devices, saves, pulls and lost answers.
THEOREM KnowledgeIsSound == Spec => []CInv
  BY CInvInit, CInvStep, PTL DEF Spec

\* One version of the cloud vault is one vault to every device that knows it.
THEOREM VersionsNameVaults == Spec => []OneWinnerPerVersion
<1>1. CInv => OneWinnerPerVersion
  BY DEF CInv, Rows, Distinct, AllRows, KnownRows, OneWinnerPerVersion
<1> QED
  BY <1>1, KnowledgeIsSound, PTL

\* A step that replaces the cloud vault is a push of a device that knew the
\* vault it replaces.
LEMMA ReplacedWasKnown ==
  ASSUME CInv, Next, ~restarted', row # NoRow, row' # row
  PROVE  \E d \in Devices : push[d].stage = "patch" /\ push[d].data = row'.content
                            /\ push[d].seen = row
<1>1. TypeOK /\ Books /\ Rows
  BY DEF CInv
<1>2. PICK d \in Devices : PatchesRow(d) /\ UNCHANGED restarted
  BY DEF Next, UserStep, PushStep, ManualStep, Saves, Enables, Disables, Pulls, PushesAgain,
         PushStarts, ChecksForRow, InsertsRow, PatchesRow, LooksUpVersion, PushFails, PushSettles,
         Probes, InitOverwrites, InitCreates, InitSettles, Fetches, PullSettles, ManualFails,
         history
<1>3. push[d].stage = "patch" /\ row.version = push[d].ifMatch /\ row'.content = push[d].data
  BY <1>2 DEF PatchesRow, Stored
<1>4. push[d].seen # NoRow /\ push[d].seen.version = row.version
  BY <1>1, <1>3 DEF Books, Bookkeeping
<1>5. push[d].seen \in AllRows /\ row \in AllRows
  BY <1>4, OwnKnowledge DEF AllRows
<1>6. push[d].seen = row
  BY <1>1, <1>2, <1>4, <1>5 DEF Rows, Distinct
<1> QED
  BY <1>3, <1>6

\* No push replaces a cloud vault its device had not pulled, stored or been
\* warned of, whatever is lost, repeated or interleaved.
THEOREM PushesKnowWhatTheyReplace == Spec => NoBlindOverwrite
<1>1. CInv /\ [Next]_vars =>
        [~restarted' /\ row # NoRow /\ row' # row =>
           \E d \in Devices : push[d].stage = "patch" /\ push[d].data = row'.content
                              /\ push[d].seen = row]_vars
  BY ReplacedWasKnown
<1> QED
  BY <1>1, KnowledgeIsSound, PTL DEF Spec, NoBlindOverwrite
=============================================================================
