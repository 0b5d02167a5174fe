--------------------------- MODULE VaultProvider ---------------------------
(***************************************************************************)
(* The dashboard's vault store (apps/web/src/lib/VaultProvider.tsx): one    *)
(* tab that shows a copy of the vault, saves optimistically through a       *)
(* serial queue and polls the server, whose answers may be late.            *)
(*                                                                         *)
(* The content of a vault is the set of edits it holds: the n-th save of    *)
(* this tab adds edit n, other programs add edits above MaxEdits.  What the *)
(* server does is external to the component: it serves and stores whole     *)
(* vaults and refuses a request whose passphrase does not open the file.    *)
(***************************************************************************)
EXTENDS Naturals, Sequences

CONSTANTS
  MaxEdits,     \* bound: saves of this tab
  MaxExternal,  \* bound: writes of other programs
  MaxFailures,  \* bound: requests that fail or whose answer is lost
  MaxLocks,     \* bound: times the user locks or enters a passphrase
  NoVault

ASSUME ProviderAssumption ==
  /\ MaxEdits \in Nat /\ MaxExternal \in Nat /\ MaxFailures \in Nat /\ MaxLocks \in Nat
  /\ \A c \in SUBSET (1 .. MaxEdits + MaxExternal) : NoVault # c

VARIABLES
  file,      \* external: the content the server holds
  external,  \* writes of other programs so far
  failures,  \* failed requests so far
  locks,     \* lock and unlock calls so far
  pass,      \* passphraseRef.current: "none", "wrong" or "right"
  vault,     \* the vault state, or NoVault for null
  locked,    \* the locked state
  queue,     \* pendingSavesRef and saveQueueRef: contents to be saved, oldest first
  sending,   \* the passphrase of the PUT in flight, or "idle"
  epoch,     \* saveEpochRef
  fetches,   \* refresh requests not yet settled
  inFlight,  \* refreshInFlightEpochRef, or NoEpoch
  needed,    \* refreshNeededRef
  retry,     \* a 500 ms retry timer is set
  captured,  \* the vault a running import closed over, or NoVault
  recent     \* history: contents of the file since the last save was settled

serverVars == <<file, external>>
screenVars == <<vault, locked>>
saveVars   == <<queue, sending, epoch>>
fetchVars  == <<fetches, inFlight, needed, retry>>
vars == <<file, external, failures, locks, pass, vault, locked, queue, sending, epoch,
          fetches, inFlight, needed, retry, captured, recent>>

Content == SUBSET (1 .. MaxEdits + MaxExternal)
NoEpoch == MaxEdits + 1
Passes  == {"none", "wrong", "right"}
Fetch   == [epoch : 0 .. MaxEdits, pass : Passes,
            answer : {"awaited", "ok", "locked", "failed"}, data : Content]

TypeOK ==
  /\ file \in Content /\ external \in 0 .. MaxExternal
  /\ failures \in 0 .. MaxFailures /\ locks \in 0 .. MaxLocks
  /\ pass \in Passes /\ locked \in BOOLEAN
  /\ vault \in {NoVault} \cup Content /\ captured \in {NoVault} \cup Content
  /\ queue \in Seq(Content) /\ sending \in Passes \cup {"idle"}
  /\ epoch \in 0 .. MaxEdits /\ inFlight \in 0 .. NoEpoch
  /\ fetches \subseteq Fetch
  /\ needed \in BOOLEAN /\ retry \in BOOLEAN
  /\ recent \subseteq Content
  /\ sending # "idle" => queue # <<>>   \* the save of a PUT in flight is still counted

NewFetch(p) == [epoch |-> epoch, pass |-> p, answer |-> "awaited", data |-> {}]

\* The mount effect has called refresh() once.
Init ==
  /\ file = {} /\ external = 0 /\ failures = 0 /\ locks = 0
  /\ pass = "none" /\ vault = NoVault /\ locked = FALSE
  /\ queue = <<>> /\ sending = "idle" /\ epoch = 0
  /\ fetches = {NewFetch("none")} /\ inFlight = 0
  /\ needed = FALSE /\ retry = FALSE /\ captured = NoVault
  /\ recent = {file}

-----------------------------------------------------------------------------
(* refresh *)

\* refresh() with q saves pending and p in passphraseRef: deferred behind the
\* saves, joined to the request in flight when that one is of this epoch, or
\* sent.
Refresh(q, p) ==
  \/ q # <<>> /\ needed' = TRUE /\ UNCHANGED <<fetches, inFlight>>
  \/ q = <<>> /\ inFlight = epoch /\ UNCHANGED <<needed, fetches, inFlight>>
  \/ /\ q = <<>> /\ inFlight # epoch
     /\ fetches' = fetches \cup {NewFetch(p)}
     /\ inFlight' = epoch
     /\ UNCHANGED needed

\* The interval, the tab becoming visible, or a page.
Refreshes ==
  /\ Refresh(queue, pass)
  /\ UNCHANGED <<serverVars, failures, locks, pass, screenVars, saveVars, retry, captured,
                 recent>>

Answer(f, answer, data) ==
  /\ f.answer = "awaited"
  /\ fetches' = (fetches \ {f}) \cup {[f EXCEPT !.answer = answer, !.data = data]}
  /\ UNCHANGED <<serverVars, locks, pass, screenVars, saveVars, inFlight, needed, retry,
                 captured, recent>>

\* external: the server reads the file.
ServerAnswers(f) ==
  /\ IF f.pass = "right" THEN Answer(f, "ok", file) ELSE Answer(f, "locked", {})
  /\ UNCHANGED failures

FetchFails(f) ==
  /\ failures < MaxFailures
  /\ Answer(f, "failed", {})
  /\ failures' = failures + 1

\* Mutant: only the pending saves are looked at.
AnswerAfterSaves(f) == queue = <<>>

\* The answer is not stale: no save has started since the request.
AnswerIsFresh(f) == f.epoch = epoch /\ queue = <<>>

ShowsAnswer(f) ==
  \/ f.answer = "ok" /\ vault' = f.data /\ locked' = FALSE /\ UNCHANGED retry
  \/ f.answer = "failed" /\ locked' = FALSE /\ UNCHANGED <<vault, retry>>
  \/ f.answer = "locked" /\ pass = "none" /\ vault' = NoVault /\ locked' = TRUE /\ UNCHANGED retry
  \/ f.answer = "locked" /\ pass # "none" /\ retry' = (retry \/ vault = NoVault) /\ UNCHANGED screenVars

\* Mutant: only a successful request is taken off the in-flight mark.
ClearsOnSuccess(f) == inFlight' = IF f.answer = "ok" /\ inFlight = f.epoch THEN NoEpoch ELSE inFlight

\* The finally block, unless a later request has taken the place of this one.
ClearsInFlight(f) == inFlight' = IF inFlight = f.epoch THEN NoEpoch ELSE inFlight

FetchSettles(f) ==
  /\ f.answer # "awaited"
  /\ fetches' = fetches \ {f}
  /\ ClearsInFlight(f)
  /\ IF AnswerIsFresh(f) THEN ShowsAnswer(f) ELSE UNCHANGED <<screenVars, retry>>
  /\ UNCHANGED <<serverVars, failures, locks, pass, saveVars, needed, captured, recent>>

RetryFires ==
  /\ retry /\ retry' = FALSE
  /\ IF vault = NoVault /\ pass # "none" THEN Refresh(queue, pass)
     ELSE UNCHANGED <<fetches, inFlight, needed>>
  /\ UNCHANGED <<serverVars, failures, locks, pass, screenVars, saveVars, captured, recent>>

-----------------------------------------------------------------------------
(* save *)

Saves(content) ==
  /\ vault' = content
  /\ epoch' = epoch + 1
  /\ queue' = Append(queue, content)
  /\ UNCHANGED <<serverVars, failures, locks, pass, locked, sending, fetchVars, recent>>

\* A page handler edits the vault it shows and saves it.
Edits ==
  /\ epoch < MaxEdits /\ vault # NoVault
  /\ Saves(vault \cup {epoch + 1})
  /\ UNCHANGED captured

\* Sources.applyGeneralLayerImport closes over the vault, awaits the
\* extraction workers and saves its merge with the vault it closed over.
ImportBegins ==
  /\ captured = NoVault /\ vault # NoVault
  /\ captured' = vault
  /\ UNCHANGED <<serverVars, failures, locks, pass, screenVars, saveVars, fetchVars, recent>>

ImportEnds ==
  /\ captured # NoVault /\ epoch < MaxEdits
  /\ Saves(captured \cup {epoch + 1})
  /\ captured' = NoVault

\* The next save of the queue reads the passphrase and sends its PUT.
PutStarts ==
  /\ queue # <<>> /\ sending = "idle"
  /\ sending' = pass
  /\ UNCHANGED <<serverVars, failures, locks, pass, screenVars, queue, epoch, fetchVars,
                 captured, recent>>

\* The finally block of a save: the last one of the queue refreshes.
PutSettles(p) ==
  /\ sending # "idle" /\ sending' = "idle"
  /\ queue' = Tail(queue)
  /\ recent' = {file'}
  /\ IF queue' # <<>> THEN needed' = TRUE /\ UNCHANGED <<fetches, inFlight>>
     ELSE /\ needed' = FALSE
          /\ \/ inFlight = epoch /\ UNCHANGED <<fetches, inFlight>>
             \/ /\ inFlight # epoch /\ inFlight' = epoch
                /\ fetches' = fetches \cup {NewFetch(p)}
  /\ UNCHANGED <<external, locks, vault, epoch, retry, captured>>

PutStored ==
  /\ sending = "right"
  /\ file' = Head(queue)
  /\ PutSettles(pass)
  /\ UNCHANGED <<failures, pass, locked>>

\* 401: the passphrase is forgotten; the copy on the screen stays.
PutRefused ==
  /\ sending \in {"none", "wrong"}
  /\ pass' = "none" /\ locked' = TRUE
  /\ UNCHANGED <<file, failures>>
  /\ PutSettles("none")

\* The request or its answer is lost.
PutFails ==
  /\ sending = "right" /\ failures < MaxFailures
  /\ failures' = failures + 1
  /\ file' \in {file, Head(queue)}
  /\ PutSettles(pass)
  /\ UNCHANGED <<pass, locked>>

-----------------------------------------------------------------------------
(* lock and unlock *)

Unlocks(p) ==
  /\ locks < MaxLocks /\ locks' = locks + 1
  /\ pass' = p
  /\ Refresh(queue, p)
  /\ UNCHANGED <<serverVars, failures, screenVars, saveVars, retry, captured, recent>>

Locks ==
  /\ locks < MaxLocks /\ locks' = locks + 1
  /\ pass' = "none" /\ vault' = NoVault /\ locked' = TRUE
  /\ UNCHANGED <<serverVars, failures, saveVars, fetchVars, captured, recent>>

\* external: another program adds to the vault.
OthersWrite ==
  /\ external < MaxExternal /\ external' = external + 1
  /\ file' = file \cup {MaxEdits + external'}
  /\ recent' = recent \cup {file'}
  /\ UNCHANGED <<failures, locks, pass, screenVars, saveVars, fetchVars, captured>>

-----------------------------------------------------------------------------

Put == PutStored \/ PutRefused \/ PutFails
FetchStep(f) == ServerAnswers(f) \/ FetchFails(f) \/ FetchSettles(f)
UserStep == Edits \/ ImportBegins \/ ImportEnds \/ Locks \/ \E p \in {"wrong", "right"} : Unlocks(p)

Next ==
  \/ Refreshes \/ RetryFires \/ PutStarts \/ Put
  \/ \E f \in fetches : FetchStep(f)
  \/ UserStep \/ OthersWrite

Spec == Init /\ [][Next]_vars

\* The interval keeps ticking and every request is answered or fails; nobody
\* has to edit, lock, unlock or write.
Fairness ==
  /\ WF_vars(Refreshes) /\ WF_vars(RetryFires) /\ WF_vars(PutStarts) /\ WF_vars(Put)
  /\ WF_vars(\E f \in fetches : FetchStep(f))

FairSpec == Spec /\ Fairness

-----------------------------------------------------------------------------
(* Properties *)

Screen == INSTANCE LocalFirst WITH
  Contents <- Content, Nothing <- NoVault,
  shown <- vault, pending <- queue, stored <- file, recent <- recent

\* The queue, the epochs and the deferred refreshes together implement
\* LocalFirst: a late answer never brings back a vault older than a save.
ImplementsLocalFirst == Screen!AbsSpec

\* Once users, other programs and the network have settled, the screen shows
\* the file, unless the right passphrase is not in memory: no interleaving of
\* saves, failures and late answers starves the polling.
Converges == <>[](vault = file \/ pass # "right")
=============================================================================
