---------------------------- MODULE ApprovalFlow ----------------------------
(***************************************************************************)
(* One vault file and the two programs that change it.                     *)
(*                                                                         *)
(* The agent plugin (packages/openclaw-plugin/index.ts) answers each tool   *)
(* call by reading the file, deciding, writing the whole file back (temp    *)
(* file + rename) and replying.  Its code has no await, so the calls of one *)
(* plugin process never overlap, but the read and the write are two steps   *)
(* to every other process: work holds the vault it is about to write.       *)
(*                                                                         *)
(* The dashboard (apps/web) keeps a copy of the vault in memory.  Each page *)
(* handler edits the copy at once and queues a PUT of the whole edited      *)
(* vault (VaultProvider.save); the PUTs of a tab reach the file in order.   *)
(* The plugin never sees the tab's copy and the tab never sees the plugin's *)
(* writes until it refreshes.                                               *)
(*                                                                         *)
(* The history variables asked, released and intact are not in the code.    *)
(***************************************************************************)
EXTENDS DisclosurePolicy

CONSTANTS
  Tabs,          \* dashboard tabs
  Requests,      \* the new requests agents may send
  RuleOffers,    \* arguments agents may pass to personafy_create_rule
  InitialVaults, \* vaults the setup wizard may have left
  FactLists,     \* fact lists the persona page may save
  DashboardOps,  \* which dashboard handlers this instance exercises
  MaxId,         \* bound: request and rule ids handed out
  ApprovalTTL,   \* life of a pending request (15 minutes), in ticks
  RuleTTL,       \* life of a rule (90 or 180 days), in ticks
  MaxTime,       \* bound: the clock
  MaxEdits,      \* bound: dashboard saves
  MaxReleases,   \* bound: releases recorded
  NoVault

VARIABLES
  file,      \* the vault file
  work,      \* the vault the plugin has computed and not yet written, or NoVault
  reply,     \* the release the plugin returns after the write, or NoReply
  web,       \* per tab: vaultRef.current, or NoVault before the first fetch
  outbox,    \* per tab: the vaults of saveQueueRef, oldest first
  edits,     \* dashboard saves so far
  nextId,    \* randomUUID abstracted to a counter
  now,       \* Date.now()
  asked,     \* history: every challenge computed, as it was put to the user
  released,  \* history: every release returned to an agent, oldest first
  fresh,     \* history: "plugin" or a tab has seen every write to the file
  intact     \* history: no write has yet overwritten an unseen write, and
             \* the user has not erased the log or the vault

vars == <<file, work, reply, web, outbox, edits, nextId, now, asked, released, fresh, intact>>
pluginVars == <<work, reply>>
tabVars    == <<web, outbox, edits>>

Ids     == 1 .. MaxId
Writers == {"plugin"} \cup Tabs

Entry == [id : Ids, status : {"pending", "approved", "denied"}, expires : Nat,
          req : Request, persona : SUBSET Personas, facts : SUBSET Fact]
Event == [id : Ids, decision : {"allow", "rule_created", "ask_approved", "ask_denied"},
          domain : Domains, purpose : RulePurposes, keys : SUBSET Keys]
Vault == [posture : Postures, personas : [Personas -> Persona], rules : SUBSET Rule,
          queue : SUBSET Entry, audit : SUBSET Event]

Release == [id : Ids, facts : SUBSET Fact, via : {"auto", "approved"}, at : Nat]
NoReply == [id |-> 0, facts |-> {}, via |-> "none", at |-> 0]

ASSUME ApprovalAssumption ==
  /\ "plugin" \notin Tabs
  /\ Requests \subseteq Request
  /\ InitialVaults \subseteq {v \in Vault : v.queue = {} /\ v.audit = {}}
  /\ FactLists \subseteq Seq(Fact)
  /\ NoVault \notin Vault
  /\ MaxId \in Nat /\ MaxTime \in Nat /\ ApprovalTTL \in Nat /\ RuleTTL \in Nat
  /\ \A o \in RuleOffers :
       o \in [domain : Domains, purpose : Purposes, maxSensitivity : Sensitivities,
              allowedFields : SUBSET Field]

TypeOK ==
  /\ file \in Vault
  /\ work \in Vault \cup {NoVault}
  /\ reply \in Release \cup {NoReply}
  /\ web \in [Tabs -> Vault \cup {NoVault}]
  /\ outbox \in [Tabs -> Seq(Vault)]
  /\ edits \in Nat /\ nextId \in Nat \ {0}
  /\ now \in Nat
  /\ asked \subseteq Entry
  /\ released \in Seq(Release)
  /\ fresh \subseteq Writers
  /\ intact \in BOOLEAN

Init ==
  /\ file \in InitialVaults
  /\ work = NoVault /\ reply = NoReply
  /\ web = [t \in Tabs |-> NoVault]
  /\ outbox = [t \in Tabs |-> <<>>]
  /\ edits = 0 /\ nextId = 1 /\ now = 0
  /\ asked = {} /\ released = <<>>
  /\ fresh = {} /\ intact = TRUE

-----------------------------------------------------------------------------
(* Helpers *)

KeysOf(facts) == {f.key : f \in facts}

AuditEvent(id, decision, domain, purpose, keys) ==
  [id |-> id, decision |-> decision, domain |-> domain, purpose |-> purpose, keys |-> keys]

\* Mutant: resolving a request also stamps the time on it.
ResolveStamping(queue, id, status) ==
  {IF e.id = id THEN [e EXCEPT !.status = status, !.expires = now] ELSE e : e \in queue}

Resolve(queue, id, status) ==
  {IF e.id = id THEN [e EXCEPT !.status = status] ELSE e : e \in queue}

\* What every request call does to the vault it has just read: pending
\* requests that have expired are dropped, resolved ones are kept.
LivePending(vault) ==
  [vault EXCEPT !.queue = {e \in @ : e.status = "pending" => e.expires > now}]

-----------------------------------------------------------------------------
(* The agent plugin *)

PluginIdle == work = NoVault /\ reply = NoReply

\* The plugin has read the file and will write v; the answer out follows.
Compute(v, out) ==
  /\ work' = v
  /\ reply' = out
  /\ fresh' = fresh \cup {"plugin"}

\* A new request that checkAutoAllow lets through.
RequestAutoAllowed(req) ==
  /\ PluginIdle /\ nextId <= MaxId
  /\ LET v == LivePending(file)
         d == Decide(v, req, now)
     IN  /\ d.kind = "allow"
         /\ Compute([v EXCEPT !.audit = @ \cup
                       {AuditEvent(nextId, "allow", req.domain, req.purpose, KeysOf(d.facts))}],
                    [id |-> nextId, facts |-> d.facts, via |-> "auto", at |-> now])
  /\ nextId' = nextId + 1
  /\ UNCHANGED <<file, tabVars, now, asked, released, intact>>

\* A new request the user must decide: the matched facts are stored with it.
RequestAsks(req) ==
  /\ PluginIdle /\ nextId <= MaxId
  /\ LET v == LivePending(file)
         d == Decide(v, req, now)
         e == [id |-> nextId, status |-> "pending", expires |-> now + ApprovalTTL,
               req |-> req, persona |-> d.persona, facts |-> d.facts]
     IN  /\ d.kind = "ask"
         /\ Compute([v EXCEPT !.queue = @ \cup {e}], NoReply)
         /\ asked' = asked \cup {e}
  /\ nextId' = nextId + 1
  /\ UNCHANGED <<file, tabVars, now, released, intact>>

\* Mutant: the facts are matched again when the approval arrives.
ApproveReleasingCurrentFacts(e) ==
  /\ PluginIdle
  /\ LET v == LivePending(file)
         d == Decide(v, e.req, now)
     IN  /\ e \in v.queue /\ e.status = "pending" /\ d.facts # {}
         /\ Compute([v EXCEPT !.queue = Resolve(@, e.id, "approved"), !.audit = @ \cup
                      {AuditEvent(e.id, "ask_approved", e.req.domain, e.req.purpose, KeysOf(d.facts))}],
                    [id |-> e.id, facts |-> d.facts, via |-> "approved", at |-> now])
  /\ UNCHANGED <<file, tabVars, nextId, now, asked, released, intact>>

\* Mutant: the approved entry is left pending.
ApproveLeavingPending(e) ==
  /\ PluginIdle
  /\ LET v == LivePending(file)
     IN  /\ e \in v.queue /\ e.status = "pending"
         /\ Compute([v EXCEPT !.audit = @ \cup
                      {AuditEvent(e.id, "ask_approved", e.req.domain, e.req.purpose, KeysOf(e.facts))}],
                    [id |-> e.id, facts |-> e.facts, via |-> "approved", at |-> now])
  /\ UNCHANGED <<file, tabVars, nextId, now, asked, released, intact>>

\* approve = true with a request_id: the stored facts are released, with no
\* second look at the posture, the persona's visibility or its facts.
AgentApproves(e) ==
  /\ PluginIdle
  /\ LET v == LivePending(file)
     IN  /\ e \in v.queue /\ e.status = "pending"
         /\ Compute([v EXCEPT !.queue = Resolve(@, e.id, "approved"), !.audit = @ \cup
                      {AuditEvent(e.id, "ask_approved", e.req.domain, e.req.purpose, KeysOf(e.facts))}],
                    [id |-> e.id, facts |-> e.facts, via |-> "approved", at |-> now])
  /\ UNCHANGED <<file, tabVars, nextId, now, asked, released, intact>>

\* approve = false with a request_id.
AgentDenies(e) ==
  /\ PluginIdle
  /\ LET v == LivePending(file)
     IN  /\ e \in v.queue /\ e.status = "pending"
         /\ Compute([v EXCEPT !.queue = Resolve(@, e.id, "denied"), !.audit = @ \cup
                      {AuditEvent(e.id, "ask_denied", e.req.domain, e.req.purpose, {})}],
                    NoReply)
  /\ UNCHANGED <<file, tabVars, nextId, now, asked, released, intact>>

NewRule(id, domain, purpose, maxSensitivity, allowedFields) ==
  [id |-> id, domain |-> domain, purpose |-> purpose, maxSensitivity |-> maxSensitivity,
   allowedFields |-> allowedFields, expires |-> now + RuleTTL, enabled |-> TRUE]

\* personafy_create_rule; an enabled rule for the same recipient and purpose,
\* expired or not, makes it answer rule.exists and change nothing.
AgentCreatesRule(o) ==
  /\ PluginIdle /\ nextId <= MaxId
  /\ ~ \E r \in file.rules : r.enabled /\ r.domain = o.domain /\ r.purpose = o.purpose
  /\ Compute([file EXCEPT
        !.rules = @ \cup {NewRule(nextId, o.domain, o.purpose, o.maxSensitivity, o.allowedFields)},
        !.audit = @ \cup {AuditEvent(nextId, "rule_created", o.domain, o.purpose,
                                     {f.path : f \in o.allowedFields})}],
             NoReply)
  /\ nextId' = nextId + 1
  /\ UNCHANGED <<file, tabVars, now, asked, released, intact>>

\* saveVault: the rename replaces whatever the file holds by now.
PluginSaves ==
  /\ work # NoVault
  /\ file' = work
  /\ work' = NoVault
  /\ fresh' = {}
  /\ intact' = (intact /\ "plugin" \in fresh)
  /\ UNCHANGED <<reply, tabVars, nextId, now, asked, released>>

\* Mutant: the answer does not wait for the write.
PluginRepliesEarly ==
  /\ reply # NoReply /\ Len(released) < MaxReleases
  /\ released' = Append(released, reply)
  /\ reply' = NoReply
  /\ UNCHANGED <<file, work, tabVars, nextId, now, asked, fresh, intact>>

PluginReplies ==
  /\ work = NoVault
  /\ reply # NoReply /\ Len(released) < MaxReleases
  /\ released' = Append(released, reply)
  /\ reply' = NoReply
  /\ UNCHANGED <<file, work, tabVars, nextId, now, asked, fresh, intact>>

\* The agent's process dies during a call.
PluginCrashes ==
  /\ ~PluginIdle
  /\ work' = NoVault /\ reply' = NoReply
  /\ fresh' = fresh \ {"plugin"}
  /\ UNCHANGED <<file, tabVars, nextId, now, asked, released, intact>>

-----------------------------------------------------------------------------
(* The dashboard *)

\* VaultProvider.refresh: deferred while a save of the tab is pending.
TabRefreshes(t) ==
  /\ outbox[t] = <<>>
  /\ web' = [web EXCEPT ![t] = file]
  /\ fresh' = fresh \cup {t}
  /\ UNCHANGED <<file, pluginVars, outbox, edits, nextId, now, asked, released, intact>>

\* VaultProvider.save(v): the copy changes at once, the PUT is queued.
TabSaves(t, v) ==
  /\ edits < MaxEdits
  /\ edits' = edits + 1
  /\ web' = [web EXCEPT ![t] = v]
  /\ outbox' = [outbox EXCEPT ![t] = Append(@, v)]
  /\ UNCHANGED <<file, pluginVars, now, asked, released, fresh>>

TabHas(t, op) == op \in DashboardOps /\ web[t] # NoVault

Undecided(v, e) == e \in v.queue /\ ~ \E a \in v.audit : a.id = e.id

\* The rule and the audit event of "remember" on the approval page.
Remembered(e, shown) ==
  {NewRule(nextId, e.req.domain, [category |-> p, action |-> JoinedAction], "medium",
           {[path |-> k, wild |-> FALSE] : k \in shown}) : p \in e.persona}
RememberedEvents(e, rules) ==
  {AuditEvent(e.id, "rule_created", r.domain, r.purpose, {f.path : f \in r.allowedFields}) :
     r \in rules}

\* ApprovalDetail.handleApprove; neither the expiry nor the status is looked at.
ApprovesOnDetailPage(t, e, shown, remember) ==
  /\ TabHas(t, "approve") /\ Undecided(web[t], e)
  /\ shown # {} /\ shown \subseteq KeysOf(e.facts)
  /\ remember => nextId <= MaxId
  /\ LET rules == IF remember THEN Remembered(e, shown) ELSE {}
     IN  TabSaves(t, [web[t] EXCEPT
           !.queue = Resolve(@, e.id, "approved"),
           !.rules = @ \cup rules,
           !.audit = @ \cup RememberedEvents(e, rules) \cup
             {AuditEvent(e.id, "ask_approved", e.req.domain, e.req.purpose, shown)}])
  /\ nextId' = IF remember THEN nextId + 1 ELSE nextId
  /\ UNCHANGED intact

\* ApprovalDetail.handleDeny: only the audit log changes.
DeniesOnDetailPage(t, e) ==
  /\ TabHas(t, "deny") /\ Undecided(web[t], e)
  /\ TabSaves(t, [web[t] EXCEPT
        !.audit = @ \cup {AuditEvent(e.id, "ask_denied", e.req.domain, e.req.purpose, {})}])
  /\ UNCHANGED <<nextId, intact>>

\* Approvals.createRuleFromApproval, offered on approved requests only.
CreatesRuleFromApproval(t, a) ==
  /\ TabHas(t, "rules") /\ nextId <= MaxId
  /\ a \in web[t].audit /\ a.decision = "ask_approved"
  /\ LET allowed == {[path |-> k, wild |-> FALSE] : k \in a.keys}
     IN  TabSaves(t, [web[t] EXCEPT
           !.rules = @ \cup {NewRule(nextId, a.domain, a.purpose, "medium", allowed)},
           !.audit = @ \cup {AuditEvent(nextId, "rule_created", a.domain, a.purpose, a.keys)}])
  /\ nextId' = nextId + 1
  /\ UNCHANGED intact

\* Rules.createRule, from the form.
CreatesRule(t, o) ==
  /\ TabHas(t, "rules") /\ nextId <= MaxId
  /\ TabSaves(t, [web[t] EXCEPT
        !.rules = @ \cup {NewRule(nextId, o.domain, o.purpose, o.maxSensitivity, o.allowedFields)},
        !.audit = @ \cup {AuditEvent(nextId, "rule_created", o.domain, o.purpose,
                                     {f.path : f \in o.allowedFields})}])
  /\ nextId' = nextId + 1
  /\ UNCHANGED intact

TogglesRule(t, r) ==
  /\ TabHas(t, "rules") /\ r \in web[t].rules
  /\ TabSaves(t, [web[t] EXCEPT !.rules = (@ \ {r}) \cup {[r EXCEPT !.enabled = ~@]}])
  /\ UNCHANGED <<nextId, intact>>

DeletesRules(t, gone) ==
  /\ TabHas(t, "rules") /\ gone # {} /\ gone \subseteq web[t].rules
  /\ TabSaves(t, [web[t] EXCEPT !.rules = @ \ gone])
  /\ UNCHANGED <<nextId, intact>>

\* Rules.updateRule: the edit form sets label and fields, and may extend the rule.
UpdatesRule(t, r, o, extended) ==
  /\ TabHas(t, "rules") /\ r \in web[t].rules
  /\ LET new == [r EXCEPT !.maxSensitivity = o.maxSensitivity, !.allowedFields = o.allowedFields,
                          !.expires = IF extended THEN now + RuleTTL ELSE @]
     IN  TabSaves(t, [web[t] EXCEPT !.rules = (@ \ {r}) \cup {new}])
  /\ UNCHANGED <<nextId, intact>>

\* Settings.changePosture
ChangesPosture(t, p) ==
  /\ TabHas(t, "posture") /\ p # web[t].posture
  /\ TabSaves(t, [web[t] EXCEPT !.posture = p])
  /\ UNCHANGED <<nextId, intact>>

\* To a request, a persona that is not there is one that it cannot see.
NoPersona == [settings |-> [visible |-> FALSE, autoRelease |-> "follow_posture"], facts |-> <<>>]

\* Personas.handleCreate
CreatesPersona(t, p) ==
  /\ TabHas(t, "persona") /\ web[t].personas[p] = NoPersona
  /\ TabSaves(t, [web[t] EXCEPT !.personas[p].settings.visible = TRUE])
  /\ UNCHANGED <<nextId, intact>>

\* PersonaDetail.handleDeletePersona
DeletesPersona(t, p) ==
  /\ TabHas(t, "persona") /\ web[t].personas[p] # NoPersona
  /\ TabSaves(t, [web[t] EXCEPT !.personas[p] = NoPersona])
  /\ UNCHANGED <<nextId, intact>>

\* PersonaDetail.handleSavePersonaSettings and updatePersonaFacts
EditsPersona(t, p, settings, facts) ==
  /\ TabHas(t, "persona") /\ web[t].personas[p] # NoPersona
  /\ LET was == web[t].personas[p]
         new == [settings |-> settings, facts |-> facts]
     IN  /\ new # was
         /\ new.settings = was.settings \/ new.facts = was.facts
         /\ TabSaves(t, [web[t] EXCEPT !.personas[p] = new])
  /\ UNCHANGED <<nextId, intact>>

\* Settings.clearAuditLog
ClearsAuditLog(t) ==
  /\ TabHas(t, "erase")
  /\ TabSaves(t, [web[t] EXCEPT !.audit = {}])
  /\ intact' = FALSE
  /\ UNCHANGED nextId

\* Settings.destroyVault
BlankVault ==
  [posture |-> "alarm_system", personas |-> [p \in Personas |-> NoPersona],
   rules |-> {}, queue |-> {}, audit |-> {}]

DestroysVault(t) ==
  /\ TabHas(t, "erase")
  /\ TabSaves(t, BlankVault)
  /\ intact' = FALSE
  /\ UNCHANGED nextId

\* Settings.importVault (bound: of a vault exported right after the setup).
ImportsVault(t, v) ==
  /\ TabHas(t, "erase")
  /\ TabSaves(t, v)
  /\ intact' = FALSE
  /\ UNCHANGED nextId

\* The server stores the oldest queued vault over whatever the file holds.
PutArrives(t) ==
  /\ outbox[t] # <<>>
  /\ file' = Head(outbox[t])
  /\ outbox' = [outbox EXCEPT ![t] = Tail(@)]
  /\ fresh' = fresh \cap {t}
  /\ intact' = (intact /\ t \in fresh)
  /\ UNCHANGED <<pluginVars, web, edits, nextId, now, asked, released>>

\* The PUT fails; the tab keeps showing its edited copy.
PutFails(t) ==
  /\ outbox[t] # <<>>
  /\ outbox' = [outbox EXCEPT ![t] = Tail(@)]
  /\ UNCHANGED <<file, pluginVars, web, edits, nextId, now, asked, released, fresh, intact>>

Tick ==
  /\ now < MaxTime
  /\ now' = now + 1
  /\ UNCHANGED <<file, pluginVars, tabVars, nextId, asked, released, fresh, intact>>

-----------------------------------------------------------------------------

PluginNext ==
  \/ \E req \in Requests : RequestAutoAllowed(req) \/ RequestAsks(req)
  \/ \E e \in file.queue : AgentApproves(e) \/ AgentDenies(e)
  \/ \E o \in RuleOffers : AgentCreatesRule(o)
  \/ PluginSaves
  \/ PluginReplies
  \/ PluginCrashes

TabEdits(t) ==
  /\ web[t] # NoVault
  /\ \/ \E e \in web[t].queue :
          \/ \E shown \in SUBSET KeysOf(e.facts), remember \in BOOLEAN :
               ApprovesOnDetailPage(t, e, shown, remember)
          \/ DeniesOnDetailPage(t, e)
     \/ \E a \in web[t].audit : CreatesRuleFromApproval(t, a)
     \/ \E o \in RuleOffers : CreatesRule(t, o)
     \/ \E r \in web[t].rules : TogglesRule(t, r)
     \/ \E r \in web[t].rules, o \in RuleOffers, extended \in BOOLEAN : UpdatesRule(t, r, o, extended)
     \/ \E gone \in SUBSET web[t].rules : DeletesRules(t, gone)
     \/ \E p \in Postures : ChangesPosture(t, p)
     \/ \E p \in Personas, s \in Settings, facts \in FactLists : EditsPersona(t, p, s, facts)
     \/ \E p \in Personas : CreatesPersona(t, p) \/ DeletesPersona(t, p)
     \/ ClearsAuditLog(t) \/ DestroysVault(t)
     \/ \E v \in InitialVaults : ImportsVault(t, v)

TabNext(t) == TabRefreshes(t) \/ TabEdits(t) \/ PutArrives(t) \/ PutFails(t)

Next == PluginNext \/ (\E t \in Tabs : TabNext(t)) \/ Tick

Spec == Init /\ [][Next]_vars

-----------------------------------------------------------------------------
(* Properties *)

Vaults == ({file, work} \cup {web[t] : t \in Tabs}
             \cup UNION {{outbox[t][i] : i \in DOMAIN outbox[t]} : t \in Tabs}) \ {NoVault}

\* No copy of the vault, however stale, holds a request that was not put to
\* the user with exactly these facts and this deadline: only the status of an
\* entry ever differs from the challenge.
Provenance ==
  \A v \in Vaults : \A e \in v.queue : [e EXCEPT !.status = "pending"] \in asked

\* What an approval releases is what the user was shown, whatever happened to
\* the persona, the posture and the other copies of the vault in between, and
\* the approval came before the challenge expired.
ReleasedAsShown ==
  \A i \in DOMAIN released : released[i].via = "approved" =>
    \E e \in asked : /\ e.id = released[i].id
                     /\ e.facts = released[i].facts
                     /\ released[i].at < e.expires

\* As long as no write has overwritten another that its writer had not seen,
\* one approval releases data at most once.
ApprovedOnce ==
  intact => \A i, j \in DOMAIN released :
    released[i].id = released[j].id => i = j

\* Under the same condition data never leaves before the audit log on disk
\* says so, with exactly the released keys, even when the plugin dies between
\* its write and its answer.
EveryReleaseIsAudited ==
  intact => \A i \in DOMAIN released : \E a \in file.audit :
    /\ a.id = released[i].id
    /\ a.decision = IF released[i].via = "auto" THEN "allow" ELSE "ask_approved"
    /\ a.keys = KeysOf(released[i].facts)

\* The dashboard reports a denial with "Request successfully denied. No data
\* was shared."; the plugin's tests hold that a denied request cannot be
\* approved any more.
DeniedIsNeverReleased ==
  intact => \A i \in DOMAIN released :
    ~ \E a \in file.audit : a.id = released[i].id /\ a.decision = "ask_denied"
=============================================================================
