-------------------------- MODULE VaultServerProofs --------------------------
(***************************************************************************)
(* The vault file keeps its encryption, its readers and no leftovers, for   *)
(* any number of overlapping requests, passphrases and failures.            *)
(***************************************************************************)
EXTENDS VaultServer, TLAPS

\* Edits are handed out once: every request under way has one of its own, sent
\* with the passphrase of that edit.
Numbered ==
  /\ \A r \in Requests : put[r].stage # "idle" =>
       put[r].edit \in 1 .. edits /\ sender[put[r].edit] = put[r].key
  /\ \A r, q \in Requests :
       r # q /\ put[r].stage # "idle" /\ put[q].stage # "idle" => put[r].edit # put[q].edit
  /\ file # NoVault => file.edit \in 1 .. edits

\* What is going to be written was allowed by what had been read.
Admitted ==
  /\ \A r \in Requests : put[r].stage = "writing" => ~Refuses(put[r], put[r].seen)
  /\ isEncryptedEnvelope(work) => Opens(pluginKey, work)

\* The inductive invariant.
Sound == TypeOK /\ Numbered /\ Admitted /\ StoredForItsSender /\ LeftoversOnlyFromCrashes

-----------------------------------------------------------------------------
(* Types *)

LEMMA InitTyped == Init => TypeOK
<1> SUFFICES ASSUME Init PROVE TypeOK
  OBVIOUS
<1> USE ServerAssumption
<1>1. Idle \in Put /\ Idle.stage = "idle"
  BY DEF Idle, Put, Keys
<1>2. temp \subseteq 1 .. MaxEdits /\ edits \in 0 .. MaxEdits /\ failures \in 0 .. MaxFailures
  BY DEF Init
<1>3. put \in [Requests -> Put] /\ \A r \in Requests : put[r].stage = "idle"
  BY <1>1 DEF Init
<1>4. sender \in [1 .. MaxEdits -> Keys]
  BY DEF Init, Keys
<1> QED
  BY <1>2, <1>3, <1>4 DEF Init, TypeOK

LEMMA SentTyped ==
  ASSUME TypeOK, NEW r \in Requests, NEW k \in Keys, NEW force \in BOOLEAN, Sent(r, k, force)
  PROVE  /\ put' \in [Requests -> Put]
         /\ \A q \in Requests : put'[q].stage # "idle" => put'[q].edit > 0
         /\ sender' \in [1 .. MaxEdits -> Keys]
         /\ edits' \in 0 .. MaxEdits
<1>1. edits' \in 1 .. MaxEdits
  BY ServerAssumption DEF TypeOK, Sent
<1>2. [stage |-> "sent", key |-> k, force |-> force, edit |-> edits', seen |-> NoVault] \in Put
  BY <1>1 DEF Put
<1> QED
  BY <1>1, <1>2 DEF TypeOK, Sent

LEMMA ConsidersTyped ==
  ASSUME TypeOK, NEW r \in Requests, NEW seen \in Vault \cup {NoVault}, Considers(r, seen)
  PROVE  /\ put' \in [Requests -> Put]
         /\ \A q \in Requests : put'[q].stage # "idle" => put'[q].edit > 0
         /\ temp' \subseteq 1 .. MaxEdits
<1>1. Idle \in Put /\ Idle.stage = "idle"
  BY ServerAssumption DEF Idle, Put, Keys
<1>2. put[r] \in Put /\ put[r].stage = "sent" /\ put[r].edit \in 1 .. MaxEdits
  BY ServerAssumption DEF TypeOK, Considers, Put
<1>3. [put[r] EXCEPT !.stage = "writing", !.seen = seen] \in Put
  BY <1>2 DEF Put
<1>4. CASE Refuses(put[r], seen)
  BY <1>1, <1>4 DEF TypeOK, Considers
<1>5. CASE ~Refuses(put[r], seen)
  <2>1. put' = [put EXCEPT ![r] = [put[r] EXCEPT !.stage = "writing", !.seen = seen]]
    BY <1>5 DEF TypeOK, Considers
  <2> QED
    BY <1>2, <1>3, <1>5, <2>1 DEF TypeOK, Considers, Put
<1> QED
  BY <1>4, <1>5

LEMMA NextTyped == TypeOK /\ [Next]_vars => TypeOK'
<1> SUFFICES ASSUME TypeOK, [Next]_vars PROVE TypeOK'
  OBVIOUS
<1> USE ServerAssumption
<1>i. Idle \in Put /\ Idle.stage = "idle"
  BY DEF Idle, Put, Keys
<1>1. ASSUME NEW r \in Requests, NEW k \in Keys, Saves(r, k) PROVE TypeOK'
  BY <1>1, SentTyped DEF TypeOK, Saves
<1>2. ASSUME NEW r \in Requests, NEW k \in Keys, SetsUp(r, k) PROVE TypeOK'
  <2>1. PICK force \in BOOLEAN : Sent(r, k, force)
    BY <1>2 DEF SetsUp
  <2>0. failures' = failures \/ Fails
    BY <1>2 DEF SetsUp
  <2>2. failures' \in 0 .. MaxFailures
    BY <2>0 DEF TypeOK, Fails
  <2> QED
    BY <1>2, <2>1, <2>2, SentTyped DEF TypeOK, SetsUp
<1>3. ASSUME NEW r \in Requests, PutReads(r) PROVE TypeOK'
  BY <1>3, ConsidersTyped DEF TypeOK, PutReads, Considers, history
<1>4. ASSUME NEW r \in Requests, PutFailsRead(r) PROVE TypeOK'
  BY <1>4, ConsidersTyped DEF TypeOK, PutFailsRead, Considers, Fails, history
<1>5. ASSUME NEW r \in Requests, PutRenames(r) PROVE TypeOK'
  <2>1. put[r] \in Put /\ put[r].edit \in 1 .. MaxEdits
    BY <1>5 DEF TypeOK, PutRenames, Put
  <2>2. Payload(put[r]) \in Vault /\ put[r].seen \in Vault \cup {NoVault} /\ put[r].force \in BOOLEAN
    BY <2>1 DEF Payload, Vault, Put
  <2> QED
    BY <1>5, <1>i, <2>1, <2>2 DEF TypeOK, PutRenames, Idle
<1>6. ASSUME NEW r \in Requests, PutFails(r) PROVE TypeOK'
  <2>1. /\ put' \in [Requests -> Put]
        /\ \A q \in Requests : put'[q].stage # "idle" => put'[q].edit > 0
    BY <1>6, <1>i DEF TypeOK, PutFails
  <2>2. temp' \subseteq 1 .. MaxEdits
    BY <1>6 DEF TypeOK, PutFails
  <2>3. failures' \in 0 .. MaxFailures
    BY <1>6 DEF TypeOK, PutFails, Fails
  <2> QED
    BY <1>6, <2>1, <2>2, <2>3 DEF TypeOK, PutFails, history
<1>7. ASSUME ServerCrashes PROVE TypeOK'
  BY <1>7, <1>i DEF TypeOK, ServerCrashes, Fails, Idle
<1>8. ASSUME PluginLoads PROVE TypeOK'
  BY <1>8 DEF TypeOK, PluginLoads, history
<1>9. ASSUME PluginSaves PROVE TypeOK'
  <2>1. edits' \in 1 .. MaxEdits
    BY <1>9 DEF TypeOK, PluginSaves
  <2>2. file' \in Vault
    BY <1>9, <2>1 DEF TypeOK, PluginSaves, Vault, Keys
  <2>3. sender' \in [1 .. MaxEdits -> Keys]
    BY <1>9, <2>1 DEF TypeOK, PluginSaves
  <2>4. /\ basis' \in Vault \cup {NoVault} /\ forced' = FALSE /\ work' = NoVault
        /\ UNCHANGED <<server, temp, put, pluginKey, failures, crashed>>
    BY <1>9 DEF TypeOK, PluginSaves
  <2>5. /\ put' \in [Requests -> Put]
        /\ \A r \in Requests : put'[r].stage # "idle" => put'[r].edit > 0
    BY <2>4 DEF TypeOK
  <2>6. forced' \in BOOLEAN /\ crashed' \in BOOLEAN
    BY <2>4 DEF TypeOK
  <2>7. edits' \in 0 .. MaxEdits
    BY <2>1
  <2> QED
    BY <2>2, <2>3, <2>4, <2>5, <2>6, <2>7 DEF TypeOK
<1>10. ASSUME PluginStops PROVE TypeOK'
  BY <1>10 DEF TypeOK, PluginStops, history
<1>11. CASE UNCHANGED vars
  BY <1>11 DEF TypeOK, vars
<1> QED
  BY <1>1, <1>2, <1>3, <1>4, <1>5, <1>6, <1>7, <1>8, <1>9, <1>10, <1>11 DEF Next

\* Every variable of the vault server keeps its type, for every set of requests
\* and passphrases and every bound.
THEOREM Typing == Spec => []TypeOK
BY InitTyped, NextTyped, PTL DEF Spec

-----------------------------------------------------------------------------
(* The inductive invariant *)

LEMMA InitSound == Init => Sound
<1> SUFFICES ASSUME Init PROVE Sound
  OBVIOUS
<1> QED
  BY InitTyped DEF Init, Sound, Numbered, Admitted, StoredForItsSender, LeftoversOnlyFromCrashes,
     Idle, isEncryptedEnvelope

\* A request that is sent has a new edit and has not been considered.
LEMMA SentSound ==
  ASSUME Sound, NEW r \in Requests, NEW k \in Keys, NEW force \in BOOLEAN, Sent(r, k, force),
         TypeOK', UNCHANGED <<server, file, temp, pluginKey, work, crashed>>
  PROVE  Sound'
<1> USE ServerAssumption
<1>1. /\ edits' = edits + 1 /\ edits \in Nat /\ edits' \in 1 .. MaxEdits
      /\ put[r].stage = "idle" /\ put'[r].stage = "sent" /\ put'[r].edit = edits' /\ put'[r].key = k
      /\ \A q \in Requests \ {r} : put'[q] = put[q]
  BY DEF Sound, TypeOK, Sent
<1>2. sender'[edits'] = k /\ \A e \in 1 .. edits : sender'[e] = sender[e]
  BY <1>1 DEF Sound, TypeOK, Sent
<1>3. Numbered'
  BY <1>1, <1>2 DEF Sound, Numbered
<1>4. Admitted'
  BY <1>1 DEF Sound, Admitted, Refuses, DesktopRefuses, DevelopmentRefuses, isEncryptedEnvelope, Opens
<1>5. StoredForItsSender'
  BY <1>2 DEF Sound, Numbered, StoredForItsSender
<1>6. {q \in Requests : put[q].stage = "writing"} = {q \in Requests : put'[q].stage = "writing"}
  BY <1>1
<1>7. {put[q].edit : q \in {s \in Requests : put[s].stage = "writing"}}
      = {put'[q].edit : q \in {s \in Requests : put'[s].stage = "writing"}}
  BY <1>1, <1>6
<1>8. LeftoversOnlyFromCrashes'
  BY <1>7 DEF Sound, LeftoversOnlyFromCrashes
<1> QED
  BY <1>3, <1>4, <1>5, <1>8 DEF Sound

\* A request that is considered is refused, or goes on as one that is allowed.
LEMMA ConsidersSound ==
  ASSUME Sound, NEW r \in Requests, NEW seen \in Vault \cup {NoVault}, Considers(r, seen), TypeOK'
  PROVE  Sound'
<1> USE ServerAssumption
<1>1. CASE Refuses(put[r], seen)
  <2>1. /\ put[r].stage = "sent" /\ put'[r].stage = "idle" /\ \A q \in Requests \ {r} : put'[q] = put[q]
        /\ UNCHANGED <<server, file, temp, pluginKey, work, edits, sender, crashed>>
    BY <1>1 DEF Sound, TypeOK, Considers, Idle, history
  <2>2. Numbered' /\ StoredForItsSender'
    BY <2>1 DEF Sound, Numbered, StoredForItsSender
  <2>3. Admitted'
    BY <2>1 DEF Sound, Admitted, Refuses, DesktopRefuses, DevelopmentRefuses, isEncryptedEnvelope, Opens
  <2>4. {put[q].edit : q \in {s \in Requests : put[s].stage = "writing"}}
        = {put'[q].edit : q \in {s \in Requests : put'[s].stage = "writing"}}
    BY <2>1
  <2> QED
    BY <2>1, <2>2, <2>3, <2>4 DEF Sound, LeftoversOnlyFromCrashes
<1>2. CASE ~Refuses(put[r], seen)
  <2>0. put[r] \in Put
    BY DEF Sound, TypeOK
  <2>1. /\ put[r].stage = "sent"
        /\ \A q \in Requests \ {r} : put'[q] = put[q]
        /\ temp' = temp \cup {put[r].edit}
        /\ UNCHANGED <<server, file, pluginKey, work, edits, sender, crashed>>
    BY <1>2 DEF Sound, TypeOK, Considers, history
  <2>r. put'[r] = [put[r] EXCEPT !.stage = "writing", !.seen = seen]
    BY <1>2 DEF Sound, TypeOK, Considers
  <2>2. /\ put'[r].stage = "writing" /\ put'[r].seen = seen
        /\ put'[r].key = put[r].key /\ put'[r].force = put[r].force /\ put'[r].edit = put[r].edit
    BY <2>0, <2>r DEF Put
  <2>3. Numbered' /\ StoredForItsSender'
    BY <2>1, <2>2 DEF Sound, Numbered, StoredForItsSender
  <2>4. Admitted'
    BY <1>2, <2>1, <2>2
    DEF Sound, Admitted, Refuses, DesktopRefuses, DevelopmentRefuses, isEncryptedEnvelope, Opens
  <2>5. {put[q].edit : q \in {s \in Requests : put[s].stage = "writing"}} \cup {put[r].edit}
        = {put'[q].edit : q \in {s \in Requests : put'[s].stage = "writing"}}
    BY <2>1, <2>2
  <2> QED
    BY <2>1, <2>3, <2>4, <2>5 DEF Sound, LeftoversOnlyFromCrashes
<1> QED
  BY <1>1, <1>2

LEMMA NextSound == Sound /\ [Next]_vars => Sound'
<1> SUFFICES ASSUME Sound, [Next]_vars PROVE Sound'
  OBVIOUS
<1> USE ServerAssumption
<1>t. TypeOK'
  BY NextTyped DEF Sound
<1>f. file \in Vault \cup {NoVault} /\ NoVault \in Vault \cup {NoVault}
  BY DEF Sound, TypeOK
<1>1. ASSUME NEW r \in Requests, NEW k \in Keys, Saves(r, k) PROVE Sound'
  BY <1>1, <1>t, SentSound DEF Saves
<1>2. ASSUME NEW r \in Requests, NEW k \in Keys, SetsUp(r, k) PROVE Sound'
  <2>1. PICK force \in BOOLEAN : Sent(r, k, force)
    BY <1>2 DEF SetsUp
  <2> QED
    BY <1>2, <1>t, <2>1, SentSound DEF SetsUp
<1>3. ASSUME NEW r \in Requests, PutReads(r) PROVE Sound'
  BY <1>3, <1>t, <1>f, ConsidersSound DEF PutReads
<1>4. ASSUME NEW r \in Requests, PutFailsRead(r) PROVE Sound'
  BY <1>4, <1>t, <1>f, ConsidersSound DEF PutFailsRead
<1>5. ASSUME NEW r \in Requests,
             PutRenames(r) \/ PutFails(r)
      PROVE  Sound'
  <2>0. put[r] \in Put /\ put[r].edit \in 1 .. edits /\ sender[put[r].edit] = put[r].key
    BY <1>5 DEF Sound, TypeOK, Numbered, PutRenames, PutFails
  <2>1. /\ put[r].stage = "writing" /\ put'[r].stage = "idle"
        /\ \A q \in Requests \ {r} : put'[q] = put[q]
        /\ temp' = temp \ {put[r].edit}
        /\ UNCHANGED <<server, pluginKey, work, edits, sender, crashed>>
        /\ file' = file \/ file' = [key |-> put[r].key, edit |-> put[r].edit]
    BY <1>5 DEF Sound, TypeOK, PutRenames, PutFails, Payload, Idle, history
  <2>2. Numbered'
    BY <2>0, <2>1 DEF Sound, Numbered
  <2>3. StoredForItsSender'
    BY <2>0, <2>1 DEF Sound, StoredForItsSender
  <2>4. Admitted'
    BY <2>1 DEF Sound, Admitted, Refuses, DesktopRefuses, DevelopmentRefuses, isEncryptedEnvelope, Opens
  <2>5. {put[q].edit : q \in {s \in Requests : put[s].stage = "writing"}} \ {put[r].edit}
        = {put'[q].edit : q \in {s \in Requests : put'[s].stage = "writing"}}
    BY <2>1 DEF Sound, Numbered
  <2> QED
    BY <1>t, <2>1, <2>2, <2>3, <2>4, <2>5 DEF Sound, LeftoversOnlyFromCrashes
<1>7. ASSUME ServerCrashes PROVE Sound'
  <2>1. /\ \A q \in Requests : put'[q].stage = "idle"
        /\ crashed' /\ UNCHANGED <<server, file, pluginKey, work, edits, sender>>
    BY <1>7 DEF ServerCrashes, Idle
  <2>2. Numbered' /\ StoredForItsSender' /\ LeftoversOnlyFromCrashes'
    BY <2>1 DEF Sound, Numbered, StoredForItsSender, LeftoversOnlyFromCrashes
  <2>3. Admitted'
    BY <2>1 DEF Sound, Admitted, isEncryptedEnvelope, Opens
  <2> QED
    BY <1>t, <2>2, <2>3 DEF Sound
<1>8. ASSUME PluginLoads \/ PluginStops PROVE Sound'
  <2>1. /\ UNCHANGED <<server, file, temp, put, pluginKey, edits, sender, crashed>>
        /\ isEncryptedEnvelope(work') => Opens(pluginKey, work')
    BY <1>8 DEF PluginLoads, PluginStops, history, isEncryptedEnvelope
  <2>2. Numbered' /\ StoredForItsSender' /\ LeftoversOnlyFromCrashes'
    BY <2>1 DEF Sound, Numbered, StoredForItsSender, LeftoversOnlyFromCrashes
  <2>3. Admitted'
    BY <2>1 DEF Sound, Admitted, Refuses, DesktopRefuses, DevelopmentRefuses, isEncryptedEnvelope, Opens
  <2> QED
    BY <1>t, <2>2, <2>3 DEF Sound
<1>9. ASSUME PluginSaves PROVE Sound'
  <2>1. /\ edits' = edits + 1 /\ edits \in Nat /\ edits' \in 1 .. MaxEdits
        /\ file'.edit = edits' /\ file'.key \in {pluginKey, NoKey}
        /\ sender'[edits'] = pluginKey /\ \A e \in 1 .. edits : sender'[e] = sender[e]
        /\ work' = NoVault /\ UNCHANGED <<server, temp, put, pluginKey, crashed>>
    BY <1>9 DEF Sound, TypeOK, PluginSaves
  <2>2. Numbered'
    BY <2>1 DEF Sound, Numbered
  <2>3. StoredForItsSender' /\ LeftoversOnlyFromCrashes'
    BY <2>1 DEF Sound, StoredForItsSender, LeftoversOnlyFromCrashes
  <2>4. Admitted'
    BY <2>1 DEF Sound, Admitted, Refuses, DesktopRefuses, DevelopmentRefuses, isEncryptedEnvelope, Opens
  <2> QED
    BY <1>t, <2>2, <2>3, <2>4 DEF Sound
<1>11. CASE UNCHANGED vars
  BY <1>11, <1>t DEF vars, Sound, Numbered, Admitted, StoredForItsSender, LeftoversOnlyFromCrashes,
     Refuses, DesktopRefuses, DevelopmentRefuses, isEncryptedEnvelope, Opens
<1> QED
  BY <1>1, <1>2, <1>3, <1>4, <1>5, <1>7, <1>8, <1>9, <1>11 DEF Next

\* The inductive invariant holds: what is about to be written was admitted, and
\* edits, temporary files and senders belong together.
THEOREM WritesAreAdmitted == Spec => []Sound
BY InitSound, NextSound, PTL DEF Spec

\* Who saved a vault can open it again.
THEOREM SendersCanRead == Spec => []StoredForItsSender
BY WritesAreAdmitted, PTL DEF Sound

\* Only a server that stopped leaves temporary files behind.
THEOREM NoLeftovers == Spec => []LeftoversOnlyFromCrashes
BY WritesAreAdmitted, PTL DEF Sound

-----------------------------------------------------------------------------
(* Encryption *)

\* One step that replaces an encrypted vault it was computed from.
LEMMA StepKeepsEncryption ==
  ASSUME Sound, [Next]_vars, file' # file, isEncryptedEnvelope(file), basis' = file
  PROVE  /\ file'.key # NoKey
         /\ file'.key = file.key \/ (forced' /\ server = "desktop")
<1>1. ASSUME NEW r \in Requests, PutRenames(r) PROVE
        /\ file'.key # NoKey
        /\ file'.key = file.key \/ (forced' /\ server = "desktop")
  <2>1. /\ put[r].seen = file /\ ~Refuses(put[r], file)
        /\ file'.key = put[r].key /\ forced' = put[r].force
    BY <1>1 DEF Sound, Admitted, PutRenames, Payload
  <2> QED
    BY <2>1 DEF Refuses, DesktopRefuses, DevelopmentRefuses, Opens
<1>2. ASSUME PluginSaves PROVE file'.key # NoKey /\ file'.key = file.key
  <2>1. work = file /\ pluginKey = file.key
    BY <1>2 DEF Sound, Admitted, PluginSaves, Opens
  <2> QED
    BY <1>2, <2>1 DEF PluginSaves, isEncryptedEnvelope
<1>3. (\E r \in Requests : PutRenames(r)) \/ PluginSaves
  BY DEF Next, vars, Saves, SetsUp, PutReads, PutFailsRead, Considers, PutFails, ServerCrashes,
     PluginLoads, PluginStops
<1> QED
  BY <1>1, <1>2, <1>3

\* An encrypted vault is only replaced by one encrypted under the same
\* passphrase, unless the writer had read something older or the desktop's
\* force-create brought a passphrase of its own.
THEOREM EncryptionStays == Spec => EncryptionIsKept
<1>1. Sound /\ [Next]_vars =>
        [(file' # file /\ isEncryptedEnvelope(file) /\ basis' = file)
         => /\ file'.key # NoKey
            /\ file'.key = file.key \/ (forced' /\ server = "desktop")]_vars
  BY StepKeepsEncryption
<1> QED
  BY <1>1, WritesAreAdmitted, PTL DEF Spec, EncryptionIsKept
=============================================================================
