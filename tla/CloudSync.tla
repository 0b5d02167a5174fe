------------------------------ MODULE CloudSync ------------------------------
(***************************************************************************)
(* Cloud sync of one user's vault.                                         *)
(*                                                                         *)
(* Every device keeps its own vault and the last cloud version it was told  *)
(* of (cloudSync.ts); each save queues a push of the saved vault, one at a  *)
(* time (VaultProvider.enqueueCloudPush), while enabling sync and pulling   *)
(* run beside that queue.  The API handlers and supabaseProvider.ts keep    *)
(* one versioned row per user and work on it in several requests to the     *)
(* database, which is external: it applies each request atomically, refuses *)
(* a second row of one owner, and may lose an answer it has acted on.       *)
(*                                                                         *)
(* The content of a vault is the set of edits it holds.  The history        *)
(* variables basis, warned and restarted are not in the code.               *)
(***************************************************************************)
EXTENDS Naturals, Sequences

CONSTANTS
  Devices,
  MaxEdits,     \* bound: saves of all devices
  MaxToggles,   \* bound: times sync is switched on or off
  MaxPulls,     \* bound: pulls the users ask for
  MaxFailures,  \* bound: requests that fail or whose answer is lost
  NoRow

Content == SUBSET (1 .. MaxEdits)
Row     == [version : Nat \ {0}, content : Content]

ASSUME CloudAssumption ==
  /\ MaxEdits \in Nat /\ MaxToggles \in Nat /\ MaxPulls \in Nat /\ MaxFailures \in Nat
  /\ NoRow \notin Row

VARIABLES
  row,        \* external: the user's row of the vaults table, or NoRow
  vault,      \* per device: vaultRef.current
  enabled,    \* per device: cloudEnabledRef
  syncing,    \* per device: the status shown is 'syncing'
  cached,     \* per device: personafy_cloud_version, 0 for none
  queue,      \* per device: cloudQueueRef, vaults to be pushed, oldest first
  push,       \* per device: the push in flight
  manual,     \* per device: the cloudInit or cloudPull in flight
  edits, toggles, pulls, failures,
  owed,       \* per device: a saved edit has not been reported in the cloud
  basis,      \* history, per device: the row whose version is cached
  warned,     \* history, per device: that version comes from a refused push
  restarted   \* history: an init has replaced a row

history  == <<basis, warned, restarted>>
counters == <<edits, toggles, pulls, failures>>
vars == <<row, vault, enabled, syncing, cached, queue, push, manual,
          edits, toggles, pulls, failures, owed, basis, warned, restarted>>

FormatVersion == 1   \* parseFloat of the vault's own version, "1.0"

PushStages   == {"idle", "check", "insert", "patch", "lookup", "ask", "stored", "refused"}
ManualStages == {"idle", "probe", "overwrite", "create", "fetch", "stored", "pulled"}
Request(stages) == [stage : stages, data : Content, ifMatch : Nat, seen : Row \cup {NoRow}]
Idle == [stage |-> "idle", data |-> {}, ifMatch |-> 0, seen |-> NoRow]

TypeOK ==
  /\ row \in Row \cup {NoRow}
  /\ vault \in [Devices -> Content]
  /\ enabled \in [Devices -> BOOLEAN] /\ syncing \in [Devices -> BOOLEAN]
  /\ owed \in [Devices -> BOOLEAN]
  /\ cached \in [Devices -> Nat]
  /\ queue \in [Devices -> Seq(Content)]
  /\ push \in [Devices -> Request(PushStages)]
  /\ manual \in [Devices -> Request(ManualStages)]
  /\ edits \in 0 .. MaxEdits /\ toggles \in 0 .. MaxToggles
  /\ pulls \in 0 .. MaxPulls /\ failures \in 0 .. MaxFailures
  /\ basis \in [Devices -> Row \cup {NoRow}]
  /\ warned \in [Devices -> BOOLEAN] /\ restarted \in BOOLEAN
  /\ \A d \in Devices : push[d].stage = "patch" => push[d].ifMatch > 0

Init ==
  /\ row = NoRow
  /\ vault = [d \in Devices |-> {}]
  /\ enabled = [d \in Devices |-> FALSE] /\ syncing = [d \in Devices |-> FALSE]
  /\ owed = [d \in Devices |-> FALSE]
  /\ cached = [d \in Devices |-> 0]
  /\ queue = [d \in Devices |-> <<>>]
  /\ push = [d \in Devices |-> Idle] /\ manual = [d \in Devices |-> Idle]
  /\ edits = 0 /\ toggles = 0 /\ pulls = 0 /\ failures = 0
  /\ basis = [d \in Devices |-> NoRow] /\ warned = [d \in Devices |-> FALSE]
  /\ restarted = FALSE

-----------------------------------------------------------------------------
(* The user of a device *)

Status(d, s) == syncing' = [syncing EXCEPT ![d] = s]

\* VaultProvider.save, once stored locally: a push of the saved vault.
Saves(d) ==
  /\ edits < MaxEdits /\ edits' = edits + 1
  /\ vault' = [vault EXCEPT ![d] = @ \cup {edits'}]
  /\ queue' = IF enabled[d] THEN [queue EXCEPT ![d] = Append(@, vault'[d])] ELSE queue
  /\ owed' = [owed EXCEPT ![d] = TRUE]
  /\ UNCHANGED <<row, enabled, syncing, cached, push, manual, toggles, pulls, failures, history>>

\* Settings.handleToggleCloud, on: saving the setting pushes the vault, and
\* cloudInit starts beside that push with the vault it has now.
Enables(d) ==
  /\ toggles < MaxToggles /\ toggles' = toggles + 1
  /\ ~enabled[d] /\ enabled' = [enabled EXCEPT ![d] = TRUE] /\ Status(d, TRUE)
  /\ manual[d].stage = "idle"   \* bound: one manual request of a device at a time
  /\ manual' = [manual EXCEPT ![d] = [Idle EXCEPT !.stage = "probe", !.data = vault[d]]]
  /\ queue' = [queue EXCEPT ![d] = Append(@, vault[d])]
  /\ owed' = [owed EXCEPT ![d] = TRUE]
  /\ UNCHANGED <<row, vault, cached, push, edits, pulls, failures, history>>

\* Off: requests already under way or queued still go out.
Disables(d) ==
  /\ toggles < MaxToggles /\ toggles' = toggles + 1
  /\ enabled[d] /\ enabled' = [enabled EXCEPT ![d] = FALSE] /\ Status(d, FALSE)
  /\ UNCHANGED <<row, vault, cached, queue, push, manual, edits, pulls, failures, owed, history>>

\* The buttons of the settings page (cloudActionsDisabled).
MayAsk(d) == enabled[d] /\ ~syncing[d] /\ manual[d].stage = "idle"

\* Settings.handleCloudPush, after a failure.
PushesAgain(d) ==
  /\ MayAsk(d) /\ owed[d] /\ queue[d] = <<>>
  /\ queue' = [queue EXCEPT ![d] = <<vault[d]>>]
  /\ UNCHANGED <<row, vault, enabled, syncing, cached, push, manual, counters, owed, history>>

\* Settings.handleCloudPull
Pulls(d) ==
  /\ pulls < MaxPulls /\ pulls' = pulls + 1
  /\ MayAsk(d) /\ Status(d, TRUE)
  /\ manual' = [manual EXCEPT ![d] = [Idle EXCEPT !.stage = "fetch"]]
  /\ UNCHANGED <<row, vault, enabled, cached, queue, push, edits, toggles, failures, owed, history>>

-----------------------------------------------------------------------------
(* A push *)

PushTo(d, stage, r) == push' = [push EXCEPT ![d].stage = stage, ![d].seen = r]

\* The handler answers 500, or no answer reaches the device.
PushDropped(d) ==
  /\ push' = [push EXCEPT ![d] = Idle] /\ Status(d, FALSE)
  /\ queue' = [queue EXCEPT ![d] = Tail(@)]

\* pushCloudVault: the cached version is read when the request is sent.  Until
\* the database answers, seen is the row that version stands for.
PushStarts(d) ==
  /\ queue[d] # <<>> /\ push[d].stage = "idle" /\ Status(d, TRUE)
  /\ push' = [push EXCEPT ![d] =
       [stage |-> IF cached[d] = 0 THEN "check" ELSE "patch",
        data |-> Head(queue[d]), ifMatch |-> cached[d], seen |-> basis[d]]]
  /\ UNCHANGED <<row, vault, enabled, cached, queue, manual, counters, owed, history>>

\* ifMatchVersion 0: is there a row?
ChecksForRow(d) ==
  /\ push[d].stage = "check"
  /\ PushTo(d, IF row = NoRow THEN "insert" ELSE "ask", NoRow)
  /\ UNCHANGED <<row, vault, enabled, syncing, cached, queue, manual, counters, owed, history>>

\* supabaseRest repeats a request whose answer is lost.
AnswerLost == failures < MaxFailures /\ failures' = failures + 1

Stored(version, data) == [version |-> version, content |-> data]

\* Mutant: an upsert in place of the insert.
UpsertsRow(d) ==
  /\ push[d].stage = "insert"
  /\ row' = Stored(1, push[d].data) /\ PushTo(d, "stored", row')
  /\ UNCHANGED <<vault, enabled, syncing, cached, queue, manual, counters, owed, history>>

InsertsRow(d) ==
  /\ push[d].stage = "insert"
  /\ \/ row # NoRow /\ PushDropped(d) /\ UNCHANGED <<row, failures>>   \* one row per owner
     \/ /\ row = NoRow /\ row' = Stored(1, push[d].data)
        /\ \/ PushTo(d, "stored", row') /\ UNCHANGED failures
           \/ AnswerLost /\ UNCHANGED push
        /\ UNCHANGED <<queue, syncing>>
  /\ UNCHANGED <<vault, enabled, cached, manual, edits, toggles, pulls, owed, history>>

\* Mutant: the version is not part of the condition.
PatchesAnyRow(d) ==
  /\ push[d].stage = "patch"
  /\ row' = Stored(push[d].ifMatch + 1, push[d].data) /\ PushTo(d, "stored", row')
  /\ UNCHANGED <<vault, enabled, syncing, cached, queue, manual, counters, owed, history>>

\* PATCH ... version=eq.ifMatchVersion, repeated when its answer is lost.
PatchesRow(d) ==
  /\ push[d].stage = "patch"
  /\ \/ /\ row = NoRow \/ row.version # push[d].ifMatch
        /\ PushTo(d, "lookup", NoRow) /\ UNCHANGED <<row, failures>>
     \/ /\ row # NoRow /\ row.version = push[d].ifMatch
        /\ row' = Stored(push[d].ifMatch + 1, push[d].data)
        /\ \/ PushTo(d, "stored", row') /\ UNCHANGED failures
           \/ AnswerLost /\ UNCHANGED push
  /\ UNCHANGED <<vault, enabled, syncing, cached, queue, manual,
                 edits, toggles, pulls, owed, history>>

\* The version reported with a conflict: looked up by the handler or, when it
\* could not say, asked for by the client; both may fail.
LooksUpVersion(d) ==
  /\ push[d].stage \in {"lookup", "ask"}
  /\ \/ PushTo(d, "refused", row) /\ UNCHANGED failures
     \/ AnswerLost /\ PushTo(d, IF push[d].stage = "lookup" THEN "ask" ELSE "refused", NoRow)
  /\ UNCHANGED <<row, vault, enabled, syncing, cached, queue, manual,
                 edits, toggles, pulls, owed, history>>

PushFails(d) ==
  /\ push[d].stage # "idle"
  /\ AnswerLost /\ PushDropped(d)
  /\ UNCHANGED <<row, vault, enabled, cached, manual, edits, toggles, pulls, owed, history>>

\* Mutant: a conflict leaves the cached version alone.
LearnsIfStored(d) == push[d].stage = "stored"

\* The version cached when a push is answered: the one stored, or the one
\* reported with the conflict.
Learns(d) == push[d].seen # NoRow

PushSettles(d) ==
  /\ push[d].stage \in {"stored", "refused"} /\ PushDropped(d)
  /\ IF Learns(d)
     THEN /\ cached' = [cached EXCEPT ![d] = push[d].seen.version]
          /\ basis' = [basis EXCEPT ![d] = push[d].seen]
          /\ warned' = [warned EXCEPT ![d] = push[d].stage = "refused"]
     ELSE UNCHANGED <<cached, basis, warned>>
  /\ owed' = [owed EXCEPT ![d] = @ /\ ~(push[d].stage = "stored" /\ push[d].data = vault[d])]
  /\ UNCHANGED <<row, vault, enabled, manual, counters, restarted>>

-----------------------------------------------------------------------------
(* cloudInit and cloudPull *)

ManualTo(d, stage, r) == manual' = [manual EXCEPT ![d].stage = stage, ![d].seen = r]
ManualOver(d) == manual' = [manual EXCEPT ![d] = Idle] /\ Status(d, FALSE)

\* fetchCloudEnvelope: an existing cloud vault ends cloudInit.
Probes(d) ==
  /\ manual[d].stage = "probe"
  /\ IF row = NoRow THEN ManualTo(d, "overwrite", NoRow) /\ UNCHANGED syncing ELSE ManualOver(d)
  /\ UNCHANGED <<row, vault, enabled, cached, queue, push, counters, owed, history>>

\* initVault: PATCH whatever row the user has by now, then INSERT if none.
InitOverwrites(d) ==
  /\ manual[d].stage = "overwrite"
  /\ \/ row = NoRow /\ ManualTo(d, "create", NoRow) /\ UNCHANGED <<row, failures, restarted>>
     \/ /\ row # NoRow /\ row' = Stored(1, manual[d].data) /\ restarted' = TRUE
        /\ \/ ManualTo(d, "stored", row') /\ UNCHANGED failures
           \/ AnswerLost /\ UNCHANGED manual
  /\ UNCHANGED <<vault, enabled, syncing, cached, queue, push,
                 edits, toggles, pulls, owed, basis, warned>>

InitCreates(d) ==
  /\ manual[d].stage = "create"
  /\ \/ row # NoRow /\ ManualOver(d) /\ UNCHANGED <<row, failures>>   \* one row per owner
     \/ /\ row = NoRow /\ row' = Stored(1, manual[d].data)
        /\ \/ ManualTo(d, "stored", row') /\ UNCHANGED failures
           \/ AnswerLost /\ UNCHANGED manual
        /\ UNCHANGED syncing
  /\ UNCHANGED <<vault, enabled, cached, queue, push, edits, toggles, pulls, owed, history>>

InitSettles(d) ==
  /\ manual[d].stage = "stored" /\ ManualOver(d)
  /\ cached' = [cached EXCEPT ![d] = manual[d].seen.version]
  /\ basis' = [basis EXCEPT ![d] = manual[d].seen]
  /\ warned' = [warned EXCEPT ![d] = FALSE]
  /\ UNCHANGED <<row, vault, enabled, queue, push, counters, owed, restarted>>

\* pull.ts: 404 when there is no row.
Fetches(d) ==
  /\ manual[d].stage = "fetch"
  /\ IF row = NoRow THEN ManualOver(d) ELSE ManualTo(d, "pulled", row) /\ UNCHANGED syncing
  /\ UNCHANGED <<row, vault, enabled, cached, queue, push, counters, owed, history>>

\* cloudPull: the version is cached; the vault is applied, without a push,
\* unless the format version of the local vault reaches the cloud's version.
\* Vaults are pushed with sync switched on, so applying one switches it on.
PullSettles(d) ==
  /\ manual[d].stage = "pulled" /\ ManualOver(d)
  /\ cached' = [cached EXCEPT ![d] = manual[d].seen.version]
  /\ basis' = [basis EXCEPT ![d] = manual[d].seen]
  /\ warned' = [warned EXCEPT ![d] = FALSE]
  /\ IF FormatVersion >= manual[d].seen.version THEN UNCHANGED <<vault, enabled, owed>>
     ELSE /\ vault' = [vault EXCEPT ![d] = manual[d].seen.content]
          /\ enabled' = [enabled EXCEPT ![d] = TRUE]
          /\ owed' = [owed EXCEPT ![d] = FALSE]
  /\ UNCHANGED <<row, queue, push, counters, restarted>>

\* The handler answers 500, or no answer reaches the device.
ManualFails(d) ==
  /\ manual[d].stage # "idle"
  /\ AnswerLost /\ ManualOver(d)
  /\ UNCHANGED <<row, vault, enabled, cached, queue, push, edits, toggles, pulls, owed, history>>

-----------------------------------------------------------------------------

UserStep(d) == Saves(d) \/ Enables(d) \/ Disables(d) \/ Pulls(d)

PushStep(d) ==
  \/ PushStarts(d) \/ ChecksForRow(d) \/ InsertsRow(d) \/ PatchesRow(d)
  \/ LooksUpVersion(d) \/ PushFails(d) \/ PushSettles(d)

ManualStep(d) ==
  \/ Probes(d) \/ InitOverwrites(d) \/ InitCreates(d) \/ InitSettles(d)
  \/ Fetches(d) \/ PullSettles(d) \/ ManualFails(d)

Next == \E d \in Devices : UserStep(d) \/ PushesAgain(d) \/ PushStep(d) \/ ManualStep(d)

Spec == Init /\ [][Next]_vars

\* Every request is answered or fails, and a user whose vault is not in the
\* cloud pushes again, as the error on the settings page asks.
Fairness == \A d \in Devices :
  WF_vars(PushStep(d)) /\ WF_vars(ManualStep(d)) /\ WF_vars(PushesAgain(d))

FairSpec == Spec /\ Fairness

-----------------------------------------------------------------------------
(* Properties *)

\* A cached version is a safe precondition: unless an init has started the
\* row again, devices that know the same version of the cloud vault know the
\* same vault, even when answers are lost and the database sees a request
\* twice, so that two pushes never both win.
OneWinnerPerVersion ==
  LET known == ({basis[d] : d \in Devices} \cup {push[d].seen : d \in Devices}
                \cup {manual[d].seen : d \in Devices} \cup {row}) \ {NoRow}
  IN  ~restarted => \A x, y \in known : x.version = y.version => x = y

\* No push replaces a cloud vault behind its device's back: whoever replaces
\* it had pulled it, had stored it, or had been warned of it by a refused
\* push before this one was sent.
NoBlindOverwrite ==
  [][ ~restarted' /\ row # NoRow /\ row' # row =>
        \E d \in Devices : push[d].stage = "patch" /\ push[d].data = row'.content
                           /\ push[d].seen = row ]_vars

\* Lost answers and conflicts starve nobody: once users only repeat what
\* failed, every enabled device gets its vault acknowledged by the cloud, or
\* has it replaced by a pull.
EveryVaultGetsThrough ==
  <>[](\A d \in Devices : enabled[d] => ~owed[d])

\* VaultProvider.tsx: "Pull from cloud, resolve conflicts, then push again."
\* A push that drops edits from the cloud vault comes from a device that has
\* pulled or stored that vault: the warning alone does not let it through.
PullBeforePushAgain ==
  [][ ~restarted' /\ row # NoRow /\ row' # row =>
        \/ row.content \subseteq row'.content
        \/ \E d \in Devices : push[d].stage = "patch" /\ push[d].data = row'.content
                              /\ ~warned[d] ]_vars
=============================================================================
