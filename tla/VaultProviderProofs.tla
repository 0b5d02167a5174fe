------------------------ MODULE VaultProviderProofs ------------------------
(***************************************************************************)
(* VaultProvider implements LocalFirst for every number of edits, writes of *)
(* other programs, failures and locks.                                      *)
(*                                                                         *)
(* What makes it true is an invariant about the answers still under way: a  *)
(* request tagged with the current epoch was sent after the last save was   *)
(* settled, so whatever it brings, the file has held it since then.         *)
(***************************************************************************)
EXTENDS VaultProvider, TLAPS

AnswersAreRecent ==
  /\ file \in recent
  /\ \A f \in fetches :
       f.epoch = epoch => queue = <<>> /\ (f.answer = "ok" => f.data \in recent)
  /\ \A f \in fetches : f.epoch <= epoch

PInv == TypeOK /\ AnswersAreRecent

\* A new request belongs to the current epoch and awaits its answer.
LEMMA NewFetchTyped ==
  ASSUME epoch \in 0 .. MaxEdits, NEW p \in Passes
  PROVE  /\ NewFetch(p) \in Fetch /\ NewFetch(p).epoch = epoch
         /\ NewFetch(p).answer = "awaited"
  BY DEF NewFetch, Fetch, Content

\* A blank screen is no content.
LEMMA NoContentIsNoVault == NoVault \notin Content
  BY ProviderAssumption DEF Content

\* refresh() with no save pending.
LEMMA RefreshKeeps ==
  ASSUME PInv, NEW p \in Passes, Refresh(queue, p),
         UNCHANGED <<file, epoch, queue, recent>>
  PROVE  /\ fetches' \subseteq Fetch /\ inFlight' \in 0 .. NoEpoch /\ needed' \in BOOLEAN
         /\ AnswersAreRecent'
<1> USE DEF PInv, TypeOK, AnswersAreRecent
<1>0. MaxEdits \in Nat /\ NoEpoch = MaxEdits + 1
  BY ProviderAssumption DEF NoEpoch
<1>1. CASE queue # <<>> /\ needed' = TRUE /\ UNCHANGED <<fetches, inFlight>>
  BY <1>1
<1>2. CASE UNCHANGED <<needed, fetches, inFlight>>
  BY <1>2
<1>3. CASE /\ queue = <<>> /\ fetches' = fetches \cup {NewFetch(p)}
           /\ inFlight' = epoch /\ UNCHANGED needed
  BY <1>0, <1>3, NewFetchTyped
<1> QED
  BY <1>1, <1>2, <1>3 DEF Refresh

\* Every PUT that settles removes the oldest save, and the refresh that
\* follows the last one is tagged with an epoch no other request has.
LEMMA PutSettlesKeeps ==
  ASSUME PInv, NEW p \in Passes, PutSettles(p), file' \in Content
  PROVE  /\ fetches' \subseteq Fetch /\ inFlight' \in 0 .. NoEpoch /\ needed' \in BOOLEAN
         /\ queue' \in Seq(Content) /\ sending' = "idle" /\ recent' = {file'}
         /\ AnswersAreRecent'
         /\ queue # <<>> /\ Head(queue) \in Content
<1> USE DEF PInv, TypeOK, AnswersAreRecent
<1>0. MaxEdits \in Nat /\ NoEpoch = MaxEdits + 1
  BY ProviderAssumption DEF NoEpoch
<1>1. /\ queue # <<>> /\ queue' = Tail(queue) /\ sending' = "idle" /\ recent' = {file'}
      /\ epoch' = epoch
  BY DEF PutSettles
<1>2. Head(queue) \in Content /\ Tail(queue) \in Seq(Content)
  BY <1>1
<1>3. \A f \in fetches : f.epoch # epoch
  BY <1>1
<1>4. CASE UNCHANGED <<fetches, inFlight>>
  <2>1. needed' \in BOOLEAN
    BY DEF PutSettles
  <2> QED
    BY <1>1, <1>2, <1>3, <1>4, <2>1
<1>5. CASE queue' = <<>> /\ inFlight' = epoch /\ fetches' = fetches \cup {NewFetch(p)}
  <2>1. needed' = FALSE
    BY <1>5 DEF PutSettles
  <2>2. \A f \in fetches' : f.epoch = epoch => f.answer = "awaited"
    BY <1>3, <1>5, NewFetchTyped
  <2>3. \A f \in fetches' : f \in Fetch /\ f.epoch <= epoch
    BY <1>0, <1>5, NewFetchTyped
  <2>4. AnswersAreRecent'
    BY <1>1, <1>5, <2>2, <2>3
  <2>5. fetches' \subseteq Fetch /\ inFlight' \in 0 .. NoEpoch
    BY <1>0, <1>5, <2>3
  <2> QED
    BY <1>1, <1>2, <2>1, <2>4, <2>5
<1> QED
  BY <1>4, <1>5 DEF PutSettles

\* A save starts: requests under way become stale.
LEMMA SavesKeeps ==
  ASSUME PInv, NEW c \in Content, Saves(c), epoch < MaxEdits,
         captured' \in {NoVault} \cup Content
  PROVE  PInv'
<1> USE DEF PInv, TypeOK, AnswersAreRecent
<1>0. MaxEdits \in Nat
  BY ProviderAssumption
<1>1. epoch + 1 \in 0 .. MaxEdits /\ Append(queue, c) \in Seq(Content) /\ Append(queue, c) # <<>>
  BY <1>0
<1>2. \A f \in fetches : f.epoch \in 0 .. MaxEdits /\ f.epoch < epoch + 1
  BY <1>0 DEF Fetch
<1> QED
  BY <1>0, <1>1, <1>2 DEF Saves, serverVars, fetchVars

\* The first request under way, if any, awaits its answer in epoch 0.
LEMMA PInvInit == Init => PInv
<1> SUFFICES ASSUME Init PROVE PInv
  OBVIOUS
<1> USE DEF Init
<1>1. MaxEdits \in Nat /\ MaxExternal \in Nat /\ MaxFailures \in Nat /\ MaxLocks \in Nat
  BY ProviderAssumption
<1>2. NewFetch("none") \in Fetch /\ NewFetch("none").answer = "awaited" /\ NewFetch("none").epoch = 0
  BY <1>1, NewFetchTyped DEF Passes
<1>3. TypeOK
  <2>1. {} \in Content /\ file \in Content
    BY DEF Content
  <2>2. recent \subseteq Content /\ fetches \subseteq Fetch /\ queue \in Seq(Content)
    BY <1>2, <2>1
  <2>3. /\ external \in 0 .. MaxExternal /\ failures \in 0 .. MaxFailures
        /\ locks \in 0 .. MaxLocks /\ epoch \in 0 .. MaxEdits /\ inFlight \in 0 .. NoEpoch
    BY <1>1 DEF NoEpoch
  <2> QED
    BY <2>1, <2>2, <2>3 DEF TypeOK, Passes
<1>4. AnswersAreRecent
  BY <1>2 DEF AnswersAreRecent
<1> QED
  BY <1>3, <1>4 DEF PInv

\* An answer arrives: only ok carries a content, and that is the file's.
LEMMA AnswerKeeps ==
  ASSUME PInv, NEW f \in fetches, NEW a \in {"ok", "locked", "failed"}, NEW d \in Content,
         a = "ok" => d = file, Answer(f, a, d), failures' \in 0 .. MaxFailures
  PROVE  PInv'
<1> USE DEF PInv
<1> DEFINE g == [f EXCEPT !.answer = a, !.data = d]
<1>1. g \in Fetch /\ g.epoch = f.epoch /\ g.answer = a /\ g.data = d
  BY DEF TypeOK, Fetch
<1>2. fetches' = (fetches \ {f}) \cup {g}
  BY DEF Answer
<1>3. UNCHANGED <<file, external, locks, pass, vault, locked, queue, sending, epoch, inFlight,
                  needed, retry, captured, recent>>
  BY DEF Answer, serverVars, screenVars, saveVars
<1>4. TypeOK'
  BY <1>1, <1>2, <1>3 DEF TypeOK
<1>5. AnswersAreRecent'
  BY <1>1, <1>2, <1>3 DEF AnswersAreRecent
<1> QED
  BY <1>4, <1>5

\* Every step of the provider keeps the invariant.
LEMMA PInvStep == PInv /\ [Next]_vars => PInv'
<1> SUFFICES ASSUME PInv, [Next]_vars PROVE PInv'
  OBVIOUS
<1> USE DEF PInv
<1>0. /\ MaxEdits \in Nat /\ MaxExternal \in Nat /\ MaxFailures \in Nat /\ MaxLocks \in Nat
      /\ {} \in Content
  BY ProviderAssumption DEF Content
<1>1. CASE Refreshes
  <2>1. /\ Refresh(queue, pass) /\ pass \in Passes
        /\ UNCHANGED <<file, external, failures, locks, pass, vault, locked, queue, sending,
                       epoch, retry, captured, recent>>
    BY <1>1 DEF Refreshes, serverVars, screenVars, saveVars, TypeOK
  <2> QED
    BY <2>1, RefreshKeeps DEF TypeOK
<1>2. CASE RetryFires
  <2>1. /\ retry' = FALSE
        /\ Refresh(queue, pass) \/ UNCHANGED <<fetches, inFlight, needed>>
        /\ UNCHANGED <<file, external, failures, locks, pass, vault, locked, queue, sending,
                       epoch, captured, recent>>
    BY <1>2 DEF RetryFires, serverVars, screenVars, saveVars
  <2>2. pass \in Passes
    BY DEF TypeOK
  <2>3. CASE Refresh(queue, pass)
    BY <2>1, <2>2, <2>3, RefreshKeeps DEF TypeOK
  <2>4. CASE UNCHANGED <<fetches, inFlight, needed>>
    BY <2>1, <2>4 DEF TypeOK, AnswersAreRecent
  <2> QED
    BY <2>1, <2>3, <2>4
<1>3. CASE PutStarts
  BY <1>3 DEF PutStarts, TypeOK, AnswersAreRecent, serverVars, screenVars, fetchVars
<1>4. CASE PutStored
  <2>1. file' \in Content
    <3>1. Head(queue) \in Content
      BY <1>4 DEF PutStored, TypeOK
    <3> QED
      BY <1>4, <3>1 DEF PutStored, TypeOK, Content
  <2>2. PutSettles(pass) /\ pass \in Passes /\ UNCHANGED <<failures, pass, locked>>
    BY <1>4 DEF PutStored, TypeOK
  <2>3. UNCHANGED <<external, locks, vault, epoch, retry, captured>>
    BY <2>2 DEF PutSettles
  <2> QED
    BY <2>1, <2>2, <2>3, PutSettlesKeeps DEF TypeOK
<1>5. CASE PutRefused
  <2>1. /\ PutSettles("none") /\ "none" \in Passes /\ pass' = "none" /\ locked' = TRUE
        /\ UNCHANGED <<file, failures>>
    BY <1>5 DEF PutRefused, Passes
  <2>2. UNCHANGED <<external, locks, vault, epoch, retry, captured>>
    BY <2>1 DEF PutSettles
  <2>3. file' \in Content
    BY <2>1 DEF TypeOK
  <2> QED
    BY <2>1, <2>2, <2>3, PutSettlesKeeps DEF TypeOK
<1>6. CASE PutFails
  <2>1. file' \in Content /\ failures' \in 0 .. MaxFailures
    <3>1. Head(queue) \in Content
      BY <1>6 DEF PutFails, TypeOK
    <3> QED
      BY <1>0, <1>6, <3>1 DEF PutFails, TypeOK
  <2>2. PutSettles(pass) /\ pass \in Passes /\ UNCHANGED <<pass, locked>>
    BY <1>6 DEF PutFails, TypeOK
  <2>3. UNCHANGED <<external, locks, vault, epoch, retry, captured>>
    BY <2>2 DEF PutSettles
  <2> QED
    BY <2>1, <2>2, <2>3, PutSettlesKeeps DEF TypeOK
<1>7. ASSUME NEW f \in fetches, ServerAnswers(f) PROVE PInv'
  <2>1. file \in Content /\ failures' \in 0 .. MaxFailures
    BY <1>7 DEF ServerAnswers, TypeOK
  <2> QED
    BY <1>0, <1>7, <2>1, AnswerKeeps DEF ServerAnswers
<1>8. ASSUME NEW f \in fetches, FetchFails(f) PROVE PInv'
  <2>1. failures' \in 0 .. MaxFailures /\ Answer(f, "failed", {})
    BY <1>0, <1>8 DEF FetchFails, TypeOK
  <2> QED
    BY <1>0, <2>1, AnswerKeeps
<1>9. ASSUME NEW f \in fetches, FetchSettles(f) PROVE PInv'
  <2>1. /\ fetches' = fetches \ {f}
        /\ UNCHANGED <<file, external, failures, locks, pass, queue, sending, epoch, needed,
                       captured, recent>>
    BY <1>9 DEF FetchSettles, serverVars, saveVars
  <2>2. inFlight' \in 0 .. NoEpoch
    BY <1>0, <1>9 DEF FetchSettles, ClearsInFlight, TypeOK, NoEpoch
  <2>3. vault' \in {NoVault} \cup Content /\ locked' \in BOOLEAN /\ retry' \in BOOLEAN
    <3>1. f.data \in Content
      BY DEF TypeOK, Fetch
    <3>2. CASE UNCHANGED <<screenVars, retry>>
      BY <3>2 DEF TypeOK, screenVars
    <3>3. CASE ShowsAnswer(f)
      BY <3>1, <3>3 DEF ShowsAnswer, TypeOK, screenVars
    <3> QED
      BY <1>9, <3>2, <3>3 DEF FetchSettles
  <2> QED
    BY <2>1, <2>2, <2>3 DEF TypeOK, AnswersAreRecent
<1>10. CASE Edits
  <2>1. epoch < MaxEdits /\ epoch \in Nat /\ vault \in Content
    BY <1>0, <1>10 DEF Edits, TypeOK
  <2>2. vault \cup {epoch + 1} \in Content
    BY <1>0, <2>1 DEF Content
  <2>3. Saves(vault \cup {epoch + 1}) /\ captured' \in {NoVault} \cup Content
    BY <1>10 DEF Edits, TypeOK
  <2> QED
    BY <2>1, <2>2, <2>3, SavesKeeps
<1>11. CASE ImportBegins
  BY <1>11 DEF ImportBegins, TypeOK, AnswersAreRecent, serverVars, screenVars, saveVars, fetchVars
<1>12. CASE ImportEnds
  <2>1. epoch < MaxEdits /\ epoch \in Nat /\ captured \in Content
    BY <1>0, <1>12 DEF ImportEnds, TypeOK
  <2>2. captured \cup {epoch + 1} \in Content
    BY <1>0, <2>1 DEF Content
  <2>3. Saves(captured \cup {epoch + 1}) /\ captured' \in {NoVault} \cup Content
    BY <1>12 DEF ImportEnds
  <2> QED
    BY <2>1, <2>2, <2>3, SavesKeeps
<1>13. CASE Locks
  BY <1>0, <1>13 DEF Locks, TypeOK, AnswersAreRecent, Passes, serverVars, saveVars, fetchVars
<1>14. ASSUME NEW p \in {"wrong", "right"}, Unlocks(p) PROVE PInv'
  <2>1. /\ Refresh(queue, p) /\ p \in Passes /\ pass' = p /\ locks' \in 0 .. MaxLocks
        /\ UNCHANGED <<file, external, failures, vault, locked, queue, sending,
                       epoch, retry, captured, recent>>
    BY <1>0, <1>14 DEF Unlocks, serverVars, screenVars, saveVars, TypeOK, Passes
  <2> QED
    BY <2>1, RefreshKeeps DEF TypeOK
<1>15. CASE OthersWrite
  <2>1. external' \in 0 .. MaxExternal /\ file' \in Content /\ recent' = recent \cup {file'}
    BY <1>0, <1>15 DEF OthersWrite, TypeOK, Content
  <2> QED
    BY <1>15, <2>1
    DEF OthersWrite, TypeOK, AnswersAreRecent, screenVars, saveVars, fetchVars
<1>16. CASE UNCHANGED vars
  BY <1>16 DEF vars, TypeOK, AnswersAreRecent
<1> QED
  BY <1>1, <1>2, <1>3, <1>4, <1>5, <1>6, <1>7, <1>8, <1>9, <1>10, <1>11, <1>12, <1>13, <1>14,
     <1>15, <1>16 DEF Next, Put, FetchStep, UserStep

\* No request is tagged with an epoch later than the store's, and one tagged
\* with the current epoch was sent with no save pending and can only bring a
\* content the file has had since the last save was settled.
THEOREM AnswersStayRecent == Spec => []PInv
<1>1. Init => PInv
  BY PInvInit
<1>2. PInv /\ [Next]_vars => PInv'
  BY PInvStep
<1> QED
  BY <1>1, <1>2, PTL DEF Spec

-----------------------------------------------------------------------------

\* The first state is a first state of LocalFirst.
LEMMA InitImplementsInit == Init => Screen!AbsInit
  BY DEF Init, Screen!AbsInit, Content

\* Every settled PUT is one SettlesEdit.
LEMMA PutImplementsSettlesEdit ==
  ASSUME PInv, Put PROVE Screen!SettlesEdit
<1>1. \E p \in Passes : PutSettles(p)
  BY DEF Put, PutStored, PutRefused, PutFails, PInv, TypeOK, Passes
<1>2. /\ queue # <<>> /\ queue' = Tail(queue) /\ recent' = {file'} /\ UNCHANGED vault
  BY <1>1 DEF PutSettles, PInv, TypeOK
<1>3. file' \in {file, Head(queue)}
  BY DEF Put, PutStored, PutRefused, PutFails
<1> QED
  BY <1>2, <1>3 DEF Screen!SettlesEdit

\* A settled request shows a recent content of the file, blanks the screen or
\* is not seen.
LEMMA FetchSettlesImplements ==
  ASSUME PInv, NEW f \in fetches, FetchSettles(f)
  PROVE  Screen!ShowsTheFile \/ Screen!Blanks \/ UNCHANGED Screen!absVars
<1>1. UNCHANGED <<queue, file, recent>>
  BY DEF FetchSettles, serverVars, saveVars
<1>2. CASE UNCHANGED vault
  BY <1>1, <1>2 DEF Screen!absVars
<1>3. CASE vault' = NoVault
  BY <1>1, <1>3 DEF Screen!Blanks
<1>4. CASE AnswerIsFresh(f) /\ f.answer = "ok" /\ vault' = f.data
  <2>1. queue = <<>> /\ vault' \in recent
    BY <1>4 DEF AnswerIsFresh, PInv, AnswersAreRecent
  <2> QED
    BY <1>1, <2>1 DEF Screen!ShowsTheFile
<1> QED
  BY <1>2, <1>3, <1>4 DEF FetchSettles, ShowsAnswer, screenVars

\* Every step is a step of LocalFirst or leaves its variables alone.
LEMMA StepImplementsStep == PInv /\ [Next]_vars => [Screen!AbsNext]_(Screen!absVars)
<1> SUFFICES ASSUME PInv, [Next]_vars PROVE [Screen!AbsNext]_(Screen!absVars)
  OBVIOUS
<1>1. CASE UNCHANGED <<vault, queue, file, recent>>
  BY <1>1 DEF Screen!absVars
<1>2. CASE Put
  BY <1>2, PutImplementsSettlesEdit DEF Screen!AbsNext
<1>3. ASSUME NEW f \in fetches, FetchSettles(f) PROVE [Screen!AbsNext]_(Screen!absVars)
  BY <1>3, FetchSettlesImplements DEF Screen!AbsNext
<1>4. ASSUME NEW c \in Content, Saves(c) PROVE [Screen!AbsNext]_(Screen!absVars)
  BY <1>4 DEF Saves, serverVars, Screen!AbsNext, Screen!MakesEdit
<1>5. CASE Edits \/ ImportEnds
  <2>1. MaxEdits \in Nat /\ MaxExternal \in Nat
    BY ProviderAssumption
  <2>2. epoch \in Nat /\ epoch < MaxEdits
    BY <1>5, <2>1 DEF Edits, ImportEnds, PInv, TypeOK
  <2>3. CASE Edits
    <3>1. vault \cup {epoch + 1} \in Content
      BY <2>1, <2>2, <2>3 DEF Edits, PInv, TypeOK, Content
    <3> QED
      BY <1>4, <2>3, <3>1 DEF Edits
  <2>4. CASE ImportEnds
    <3>1. captured \cup {epoch + 1} \in Content
      BY <2>1, <2>2, <2>4 DEF ImportEnds, PInv, TypeOK, Content
    <3> QED
      BY <1>4, <2>4, <3>1 DEF ImportEnds
  <2> QED
    BY <1>5, <2>3, <2>4
<1>6. CASE Locks
  BY <1>6 DEF Locks, serverVars, saveVars, Screen!AbsNext, Screen!Blanks
<1>7. CASE OthersWrite
  <2>1. file' \in Content
    <3>1. PInv'
      BY PInvStep
    <3> QED
      BY <3>1 DEF PInv, TypeOK
  <2> QED
    BY <1>7, <2>1
    DEF OthersWrite, screenVars, saveVars, Screen!AbsNext, Screen!SomeoneElseWrites
<1>8. CASE \/ Refreshes \/ RetryFires \/ PutStarts \/ ImportBegins
           \/ \E p \in {"wrong", "right"} : Unlocks(p)
           \/ \E f \in fetches : ServerAnswers(f) \/ FetchFails(f)
  BY <1>1, <1>8
  DEF Refreshes, RetryFires, PutStarts, ImportBegins, Unlocks, ServerAnswers, FetchFails, Answer,
      serverVars, screenVars, saveVars
<1>9. CASE UNCHANGED vars
  BY <1>1, <1>9 DEF vars
<1> QED
  BY <1>2, <1>3, <1>5, <1>6, <1>7, <1>8, <1>9 DEF Next, FetchStep, UserStep

\* The dashboard's store keeps the promise of LocalFirst: while saves are
\* queued the newest one is shown, saves reach the file in order, and no late
\* answer ever brings back a vault older than the last settled save, for any
\* number of saves, refreshes in flight, failures and other writers.
THEOREM Refinement == Spec => ImplementsLocalFirst
<1>1. Init => Screen!AbsInit
  BY InitImplementsInit
<1>2. PInv /\ [Next]_vars => [Screen!AbsNext]_(Screen!absVars)
  BY StepImplementsStep
<1> QED
  BY <1>1, <1>2, AnswersStayRecent, PTL DEF Spec, ImplementsLocalFirst, Screen!AbsSpec
=============================================================================
