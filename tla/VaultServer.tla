----------------------------- MODULE VaultServer -----------------------------
(***************************************************************************)
(* The vault file and the programs that write it: the desktop's HTTP server *)
(* (vault-server.ts) or the development server (vite.config.ts), and the    *)
(* agent plugin.  A write first reads what is there, to know whether it is  *)
(* encrypted and under which passphrase, and much later renames a temporary *)
(* file over it; requests overlap, and the plugin is another process.       *)
(*                                                                         *)
(* The file holds one vault, named by the edit that produced it, encrypted  *)
(* under a passphrase or, with NoKey, in plain text.  Encryption is ideal:  *)
(* only its passphrase opens a vault.  The history variables sender,        *)
(* basis, forced and crashed are not in the code.                           *)
(***************************************************************************)
EXTENDS Naturals

CONSTANTS
  Requests,      \* bound: PUT requests a server handles at once
  Passphrases,
  Servers,       \* the servers considered: "desktop", "development"
  MaxEdits,      \* bound: vaults that are written
  MaxFailures,   \* bound: reads, writes and fetches that fail, and crashes
  NoKey, NoVault

Keys  == Passphrases \cup {NoKey}
Vault == [key : Keys, edit : 1 .. MaxEdits]

ASSUME ServerAssumption ==
  /\ Servers \subseteq {"desktop", "development"}
  /\ MaxEdits \in Nat /\ MaxFailures \in Nat
  /\ NoKey \notin Passphrases
  /\ NoVault \notin Vault

VARIABLES
  server,     \* which server runs
  file,       \* the vault file, or NoVault
  temp,       \* the edits for which a temporary file lies beside it
  put,        \* per slot: the PUT in progress
  pluginKey,  \* PERSONAFY_VAULT_PASSPHRASE of the agent
  work,       \* what the plugin has loaded and may write back, or NoVault
  edits, failures,
  sender,     \* history, per edit: the passphrase its writer used
  basis,      \* history: what the last writer had read before it wrote
  forced,     \* history: the last write was a force-create
  crashed     \* history: the server has stopped with requests under way

history == <<sender, basis, forced, crashed>>
vars == <<server, file, temp, put, pluginKey, work, edits, failures, sender, basis, forced,
          crashed>>

Put  == [stage : {"idle", "sent", "writing"}, key : Keys, force : BOOLEAN,
         edit : 0 .. MaxEdits, seen : Vault \cup {NoVault}]
Idle == [stage |-> "idle", key |-> NoKey, force |-> FALSE, edit |-> 0, seen |-> NoVault]

TypeOK ==
  /\ server \in Servers
  /\ file \in Vault \cup {NoVault}
  /\ temp \subseteq 1 .. MaxEdits
  /\ put \in [Requests -> Put]
  /\ \A r \in Requests : put[r].stage # "idle" => put[r].edit > 0
  /\ pluginKey \in Keys
  /\ work \in Vault \cup {NoVault}
  /\ edits \in 0 .. MaxEdits /\ failures \in 0 .. MaxFailures
  /\ sender \in [1 .. MaxEdits -> Keys]
  /\ basis \in Vault \cup {NoVault}
  /\ forced \in BOOLEAN /\ crashed \in BOOLEAN

Init ==
  /\ server \in Servers
  /\ file = NoVault /\ temp = {}
  /\ put = [r \in Requests |-> Idle]
  /\ pluginKey \in Keys
  /\ work = NoVault
  /\ edits = 0 /\ failures = 0
  /\ sender = [e \in 1 .. MaxEdits |-> NoKey]
  /\ basis = NoVault /\ forced = FALSE /\ crashed = FALSE

Fails == failures < MaxFailures /\ failures' = failures + 1

-----------------------------------------------------------------------------
(* Reading *)

isEncryptedEnvelope(v) == v # NoVault /\ v.key # NoKey

\* decryptVaultData: AES-GCM accepts no other passphrase.
Opens(k, v) == v.key = k

\* The GET handlers: a file that cannot be read counts as missing.
DesktopAnswers(k) ==
  CASE file = NoVault                                  -> "notFound"
    [] isEncryptedEnvelope(file) /\ ~Opens(k, file)    -> "locked"
    [] OTHER                                           -> "ok"

DevelopmentAnswers(k) ==
  CASE file = NoVault -> "notFound"
    [] isEncryptedEnvelope(file) /\ (k = NoKey \/ ~Opens(k, file)) -> "locked"
    [] OTHER -> "ok"

fetchVault(k) == IF server = "desktop" THEN DesktopAnswers(k) ELSE DevelopmentAnswers(k)

-----------------------------------------------------------------------------
(* The dashboard *)

\* saveVault: one more vault is on its way to the server.
Sent(r, k, force) ==
  /\ put[r].stage = "idle"
  /\ edits < MaxEdits /\ edits' = edits + 1
  /\ put' = [put EXCEPT ![r] =
       [stage |-> "sent", key |-> k, force |-> force, edit |-> edits', seen |-> NoVault]]
  /\ sender' = [sender EXCEPT ![edits'] = k]

\* VaultProvider.save of a tab that was given passphrase k, or none.
Saves(r, k) ==
  /\ Sent(r, k, FALSE)
  /\ UNCHANGED <<server, file, temp, pluginKey, work, failures, basis, forced, crashed>>

\* App.handleVaultCreated: what the vault is asked for decides how it is
\* created; any failure but a 401 is taken for a missing vault.
SetsUp(r, k) ==
  /\ \/ fetchVault(k) = "ok"       /\ Sent(r, k, FALSE) /\ UNCHANGED failures
     \/ fetchVault(k) = "notFound" /\ Sent(r, k, TRUE)  /\ UNCHANGED failures
     \/ Fails                      /\ Sent(r, k, TRUE)
  /\ UNCHANGED <<server, file, temp, pluginKey, work, basis, forced, crashed>>

-----------------------------------------------------------------------------
(* The server *)

\* Mutant: a force-create needs no passphrase at all.
DesktopRefusesUnlessForced(p, seen) ==
  isEncryptedEnvelope(seen) /\ ~p.force /\ ~Opens(p.key, seen)

\* handleWrite of the desktop: force-create skips the check of the passphrase.
DesktopRefuses(p, seen) ==
  \/ isEncryptedEnvelope(seen) /\ ~p.force /\ ~Opens(p.key, seen)
  \/ isEncryptedEnvelope(seen) /\ p.key = NoKey

\* The development server also answers 409 to force-create.
DevelopmentRefuses(p, seen) ==
  \/ isEncryptedEnvelope(seen) /\ p.force
  \/ isEncryptedEnvelope(seen) /\ ~p.force /\ ~Opens(p.key, seen)
  \/ isEncryptedEnvelope(seen) /\ p.key = NoKey

Refuses(p, seen) == IF server = "desktop" THEN DesktopRefuses(p, seen) ELSE DevelopmentRefuses(p, seen)

\* The handler reads the file and decides; what it has read is soon old.  A
\* read that fails counts as "no existing vault".
Considers(r, seen) ==
  /\ put[r].stage = "sent"
  /\ IF Refuses(put[r], seen)
     THEN put' = [put EXCEPT ![r] = Idle] /\ UNCHANGED temp
     ELSE /\ put' = [put EXCEPT ![r].stage = "writing", ![r].seen = seen]
          /\ temp' = temp \cup {put[r].edit}
  /\ UNCHANGED <<server, file, pluginKey, work, edits, history>>

PutReads(r)     == Considers(r, file) /\ UNCHANGED failures
PutFailsRead(r) == Fails /\ Considers(r, NoVault)

\* Mutant: encrypted only if the file was, as the plugin does.
PayloadLikeFile(p) ==
  [key |-> IF isEncryptedEnvelope(p.seen) THEN p.key ELSE NoKey, edit |-> p.edit]

\* encryptVaultData: with a passphrase the payload is encrypted, else plain.
Payload(p) == [key |-> p.key, edit |-> p.edit]

\* The rename puts the whole vault in place.
PutRenames(r) ==
  /\ put[r].stage = "writing"
  /\ file' = Payload(put[r])
  /\ temp' = temp \ {put[r].edit}
  /\ basis' = put[r].seen /\ forced' = put[r].force
  /\ put' = [put EXCEPT ![r] = Idle]
  /\ UNCHANGED <<server, pluginKey, work, edits, failures, sender, crashed>>

\* Writing or renaming fails: the temporary file is removed, the answer is 500.
PutFails(r) ==
  /\ put[r].stage = "writing" /\ Fails
  /\ temp' = temp \ {put[r].edit}
  /\ put' = [put EXCEPT ![r] = Idle]
  /\ UNCHANGED <<server, file, pluginKey, work, edits, history>>

\* The server stops; requests under way are never answered.
ServerCrashes ==
  /\ \E r \in Requests : put[r].stage # "idle"
  /\ Fails
  /\ put' = [r \in Requests |-> Idle]
  /\ crashed' = TRUE
  /\ UNCHANGED <<server, file, temp, pluginKey, work, edits, sender, basis, forced>>

-----------------------------------------------------------------------------
(* The agent plugin *)

\* loadVault at the start of a call.
PluginLoads ==
  /\ file # NoVault
  /\ isEncryptedEnvelope(file) => Opens(pluginKey, file)
  /\ work' = file
  /\ UNCHANGED <<server, file, temp, put, pluginKey, edits, failures, history>>

\* saveVault at its end: encrypted if and only if the loaded vault was.
PluginSaves ==
  /\ work # NoVault
  /\ edits < MaxEdits /\ edits' = edits + 1
  /\ file' = [key |-> IF isEncryptedEnvelope(work) THEN pluginKey ELSE NoKey, edit |-> edits']
  /\ sender' = [sender EXCEPT ![edits'] = pluginKey]
  /\ basis' = work /\ forced' = FALSE
  /\ work' = NoVault
  /\ UNCHANGED <<server, temp, put, pluginKey, failures, crashed>>

\* The call changed nothing, or its process died.
PluginStops ==
  /\ work # NoVault /\ work' = NoVault
  /\ UNCHANGED <<server, file, temp, put, pluginKey, edits, failures, history>>

Next ==
  \/ \E r \in Requests :
       \/ \E k \in Keys : Saves(r, k) \/ SetsUp(r, k)
       \/ PutReads(r) \/ PutFailsRead(r) \/ PutRenames(r) \/ PutFails(r)
  \/ ServerCrashes
  \/ PluginLoads \/ PluginSaves \/ PluginStops

Spec == Init /\ [][Next]_vars

-----------------------------------------------------------------------------
(* Properties *)

\* A write that was computed from the very vault it replaces keeps it encrypted,
\* and under the same passphrase, whatever other requests, failures and calls of
\* the agent there were since; only the desktop's force-create, which must
\* bring a passphrase, may change which (refusals of handleWrite).
EncryptionIsKept ==
  [][(file' # file /\ isEncryptedEnvelope(file) /\ basis' = file)
     => /\ file'.key # NoKey
        /\ file'.key = file.key \/ (forced' /\ server = "desktop")]_vars

\* Who saved a vault can open it again: it is under the passphrase it was sent
\* with, and only the plugin, which follows what it has loaded, writes plain
\* text when it has a passphrase (encryptVaultData, saveVault).
StoredForItsSender ==
  file # NoVault =>
    \/ file.key = sender[file.edit]
    \/ file.key = NoKey /\ sender[file.edit] = pluginKey

\* A temporary file belongs to a request under way, unless the server has
\* stopped amid one: a write that fails leaves none behind (handleWrite's
\* clean-up), and no request removes another's.
LeftoversOnlyFromCrashes ==
  ~crashed => temp = {put[r].edit : r \in {q \in Requests : put[q].stage = "writing"}}
=============================================================================
