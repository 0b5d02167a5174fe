---------------------------- MODULE ContextEngine ----------------------------
(***************************************************************************)
(* The OpenClaw extension (extensions/personafy): a vault in memory that    *)
(* tools, gateway methods and HTTP routes change at once, a maintenance     *)
(* timer, and a file that is read when the service starts and written when  *)
(* maintenance found something to do and when the service stops.            *)
(*                                                                         *)
(* Calls are synchronous, so only the writes overlap with them.  writeFile  *)
(* truncates the file and fills it; a crash in between leaves it Torn.      *)
(* The values of a persona's fields, which the tools edit, are left out.    *)
(* The history variables released, decided, withdrawn, lossy and neglected  *)
(* are not in the code.                                                     *)
(***************************************************************************)
EXTENDS Naturals, FiniteSets

CONSTANTS
  Agents, Personas, Fields, Sources, Purposes,
  Patterns,        \* purpose patterns of rules
  Mentions,        \* the pairs <<purpose, pattern>> that match
  Requests,        \* the requests agents may make
  RuleOffers,      \* the rules the gateway may be asked to add
  Postures,        \* the postures it may be asked to set
  MaxId,           \* bound: requests and rules
  MaxTime,         \* bound: the clock
  MaxFailures,     \* bound: writes that fail, and crashes
  MaxStarts,       \* bound: times the service starts
  ApprovalTTL, RuleTTL, Interval, Retention, Day, \* in ticks
  Keep,            \* resolved approvals that are kept (100)
  NoOne,           \* no agent, source or purpose pattern given
  NoWindow, NoVault, Torn

VARIABLES
  mem,       \* activeVault, or NoVault
  stage,     \* of the service
  due,       \* when the maintenance timer fires next, or 0 while it is not set
  disk,      \* the vault file: a vault, NoVault or Torn
  writing,   \* the saves under way: their kinds and what they write
  now, nextId, failures, starts,
  released,  \* history: what was returned to agents
  decided,   \* history: how approvals were resolved
  withdrawn, \* history: ids of the rules that were removed
  lossy,     \* history: a crash, a failed or overlapping save, or a change
             \* made during the last save
  neglected  \* history: the service has run without its timer

history == <<released, decided, withdrawn>>
vars == <<mem, stage, due, disk, writing, now, nextId, failures, starts,
          released, decided, withdrawn, lossy, neglected>>

Ids    == 1 .. MaxId
Window == [from : 0 .. Day - 1, to : 0 .. Day - 1]

Request == [agent : Agents, type : {"message", "cron", "heartbeat"},
            source : Sources \cup {NoOne}, purpose : Purposes, persona : Personas,
            fields : SUBSET Fields]
Rule    == [id : Ids, agent : Agents \cup {NoOne}, purpose : Patterns \cup {NoOne},
            persona : Personas, fields : SUBSET Fields]
Scheduled == [id : Ids, kind : {"cron", "heartbeat"}, agent : Agents \cup {NoOne},
              source : Sources \cup {NoOne}, persona : Personas, fields : SUBSET Fields,
              window : Window \cup {NoWindow}, expires : Nat]
Offer   == [kind : {"standard", "cron", "heartbeat"}, agent : Agents \cup {NoOne},
            purpose : Patterns \cup {NoOne}, source : Sources \cup {NoOne},
            persona : Personas, fields : SUBSET Fields, window : Window \cup {NoWindow}]
Entry   == [id : Ids, request : Request, status : {"pending", "approved", "denied", "expired"},
            expires : Nat, resolved : Nat]
Audit   == [id : Ids, agent : Agents, fields : SUBSET Fields,
            decision : {"approved", "denied", "pending"}, at : Nat]
Vault   == [posture : {"open", "guarded", "locked"}, rules : SUBSET Rule,
            scheduled : SUBSET Scheduled, queue : SUBSET Entry, audit : SUBSET Audit]

ASSUME EngineAssumption ==
  /\ Requests \subseteq Request /\ RuleOffers \subseteq Offer
  /\ Postures \subseteq {"open", "guarded", "locked"}
  /\ Mentions \subseteq Purposes \X Patterns
  /\ NoOne \notin Agents \cup Sources \cup Patterns
  /\ NoVault \notin Vault /\ Torn \notin Vault /\ Torn # NoVault
  /\ \A n \in {MaxId, MaxTime, MaxFailures, MaxStarts, RuleTTL, Retention, Keep} : n \in Nat
  /\ \A n \in {ApprovalTTL, Interval, Day} : n \in Nat \ {0}

NoWrite == [kinds |-> {}, snaps |-> {}, mixed |-> FALSE]

TypeOK ==
  /\ mem \in Vault \cup {NoVault}
  /\ stage \in {"off", "starting", "on", "stopping"}
  /\ due \in Nat
  /\ disk \in Vault \cup {NoVault, Torn}
  /\ writing \in [kinds : SUBSET {"start", "interval", "stop"}, snaps : SUBSET Vault, mixed : BOOLEAN]
  /\ now \in 0 .. MaxTime /\ nextId \in 1 .. MaxId + 1
  /\ failures \in 0 .. MaxFailures /\ starts \in 0 .. MaxStarts
  /\ released \subseteq [id : Ids, fields : SUBSET Fields, at : Nat]
  /\ decided \subseteq [id : Ids, status : {"approved", "denied"}]
  /\ withdrawn \subseteq Ids
  /\ lossy \in BOOLEAN /\ neglected \in BOOLEAN

Init ==
  /\ mem = NoVault /\ stage = "off" /\ due = 0
  /\ disk = NoVault /\ writing = NoWrite
  /\ now = 0 /\ nextId = 1 /\ failures = 0 /\ starts = 0
  /\ released = {} /\ decided = {} /\ withdrawn = {}
  /\ lossy = FALSE /\ neglected = FALSE

Fails == failures < MaxFailures /\ failures' = failures + 1

-----------------------------------------------------------------------------
(* Rules *)

\* A rule is for one persona, and for one agent or any.
ForRequest(rule, req) == rule.persona = req.persona /\ rule.agent \in {NoOne, req.agent}

matchesStandardRule(rule, req) ==
  ForRequest(rule, req) /\ (rule.purpose = NoOne \/ <<req.purpose, rule.purpose>> \in Mentions)

\* A window may wrap around midnight; both ends belong to it.
isWithinTimeWindow(w, t) ==
  LET minutes == t % Day
  IN  IF w.from <= w.to THEN w.from <= minutes /\ minutes <= w.to
                        ELSE w.from <= minutes \/ minutes <= w.to

isScheduledRuleActive(rule) ==
  now <= rule.expires /\ (rule.window = NoWindow \/ isWithinTimeWindow(rule.window, now))

\* A request that names no source is taken for any.
MatchesScheduled(rule, req) ==
  /\ isScheduledRuleActive(rule) /\ ForRequest(rule, req)
  /\ req.source \in {NoOne, rule.source}
  /\ rule.kind = req.type

evaluateRules(v, req)          == {r \in v.rules : matchesStandardRule(r, req)}
evaluateScheduledRules(v, req) == {r \in v.scheduled : MatchesScheduled(r, req)}

Covered(rules, req) == (UNION {r.fields : r \in rules}) \cap req.fields

\* In the open posture one matching rule approves every field of the request.
Approved(v, req) ==
  LET standard == evaluateRules(v, req)
  IN  IF v.posture = "open" /\ standard # {} THEN req.fields
      ELSE Covered(standard \cup evaluateScheduledRules(v, req), req)

\* A rule for a heartbeat has no window.
createHeartbeatRule(id, o, ttl) ==
  [id |-> id, kind |-> "heartbeat", agent |-> o.agent, source |-> o.source,
   persona |-> o.persona, fields |-> o.fields, window |-> NoWindow, expires |-> now + ttl]

createCronRule(id, o) ==
  [id |-> id, kind |-> "cron", agent |-> o.agent, source |-> o.source,
   persona |-> o.persona, fields |-> o.fields, window |-> o.window, expires |-> now + RuleTTL]

addRule(v, rule)          == [v EXCEPT !.rules = @ \cup {rule}]
addScheduledRule(v, rule) == [v EXCEPT !.scheduled = @ \cup {rule}]

-----------------------------------------------------------------------------
(* Tools, gateway methods and HTTP routes *)

\* The vault in memory changes; the last save of the service misses it.
Sets(v) ==
  /\ mem' = v
  /\ lossy' = (lossy \/ stage = "stopping")

Logged(v, id, agent, fields, decision) ==
  [v EXCEPT !.audit = @ \cup
     {[id |-> id, agent |-> agent, fields |-> fields, decision |-> decision, at |-> now]}]

\* requestContext of a locked vault.
RequestDenied(req) ==
  /\ mem # NoVault /\ mem.posture = "locked" /\ nextId <= MaxId
  /\ Sets(Logged(mem, nextId, req.agent, req.fields, "denied"))
  /\ nextId' = nextId + 1
  /\ UNCHANGED <<stage, due, disk, writing, now, failures, starts, history, neglected>>

\* Mutant: a request that is released at once is not logged.
RequestReleasedUnlogged(req) ==
  /\ mem # NoVault /\ mem.posture # "locked" /\ nextId <= MaxId
  /\ req.fields = Approved(mem, req)
  /\ Sets(mem)
  /\ released' = released \cup {[id |-> nextId, fields |-> req.fields, at |-> now]}
  /\ nextId' = nextId + 1
  /\ UNCHANGED <<stage, due, disk, writing, now, failures, starts, decided, withdrawn, neglected>>

\* Every field is approved.
RequestReleased(req) ==
  /\ mem # NoVault /\ mem.posture # "locked" /\ nextId <= MaxId
  /\ req.fields = Approved(mem, req)
  /\ Sets(Logged(mem, nextId, req.agent, req.fields, "approved"))
  /\ released' = released \cup {[id |-> nextId, fields |-> req.fields, at |-> now]}
  /\ nextId' = nextId + 1
  /\ UNCHANGED <<stage, due, disk, writing, now, failures, starts, decided, withdrawn, neglected>>

\* Some field is not: the whole request is queued, what is approved is
\* returned, and the log entry names every requested field.
RequestQueued(req) ==
  LET approved == Approved(mem, req)
      entry == [id |-> nextId, request |-> req, status |-> "pending",
                expires |-> now + ApprovalTTL, resolved |-> 0]
  IN
  /\ mem # NoVault /\ mem.posture # "locked" /\ nextId <= MaxId
  /\ req.fields # approved
  /\ Sets(Logged([mem EXCEPT !.queue = @ \cup {entry}], nextId, req.agent, req.fields,
                 IF approved = {} THEN "pending" ELSE "approved"))
  /\ released' = IF approved = {} THEN released
                 ELSE released \cup {[id |-> nextId, fields |-> approved, at |-> now]}
  /\ nextId' = nextId + 1
  /\ UNCHANGED <<stage, due, disk, writing, now, failures, starts, decided, withdrawn, neglected>>

Resolved(v, e, status) ==
  [v EXCEPT !.queue = (@ \ {e}) \cup {[e EXCEPT !.status = status, !.resolved = now]}]

\* Mutant: whatever its status.
resolveApprovalAnyStatus(v, e, status) == Resolved(v, e, status)

\* The status decides, not the deadline.
resolveApproval(v, e, status) == IF e.status = "pending" THEN Resolved(v, e, status) ELSE v

\* approvals.resolve; a standing rule is added whatever resolveApproval said.
Resolves(e, status, standing) ==
  /\ mem # NoVault /\ e \in mem.queue
  /\ standing => status = "approved" /\ nextId <= MaxId
  /\ LET v == resolveApproval(mem, e, status)
         rule == [id |-> nextId, agent |-> e.request.agent, purpose |-> NoOne,
                  persona |-> e.request.persona, fields |-> e.request.fields]
     IN  /\ Sets(IF standing THEN addRule(v, rule) ELSE v)
         /\ decided' = IF e.status = "pending" THEN decided \cup {[id |-> e.id, status |-> status]}
                       ELSE decided
  /\ nextId' = IF standing THEN nextId + 1 ELSE nextId
  /\ UNCHANGED <<stage, due, disk, writing, now, failures, starts, released, withdrawn, neglected>>

\* POST /personafy/approve/:id answers ok even when nothing was resolved.
ApprovesByHttp(e) == Resolves(e, "approved", FALSE)

\* rules.add; what is neither standard nor a heartbeat is a cron.
AddsRule(o) ==
  /\ mem # NoVault /\ nextId <= MaxId
  /\ Sets(CASE o.kind = "standard"  -> addRule(mem, [id |-> nextId, agent |-> o.agent, purpose |-> o.purpose,
                                                     persona |-> o.persona, fields |-> o.fields])
            [] o.kind = "heartbeat" -> addScheduledRule(mem, createHeartbeatRule(nextId, o, RuleTTL))
            [] o.kind = "cron"      -> addScheduledRule(mem, createCronRule(nextId, o)))
  /\ nextId' = nextId + 1
  /\ UNCHANGED <<stage, due, disk, writing, now, failures, starts, history, neglected>>

\* rules.remove looks in both lists.
Without(v, id) ==
  [v EXCEPT !.rules = {r \in @ : r.id # id}, !.scheduled = {r \in @ : r.id # id}]

RemovesRule(id) ==
  /\ mem # NoVault
  /\ \E r \in mem.rules \cup mem.scheduled : r.id = id
  /\ Sets(Without(mem, id))
  /\ withdrawn' = withdrawn \cup {id}
  /\ UNCHANGED <<stage, due, disk, writing, now, nextId, failures, starts, released, decided, neglected>>

\* vault.posture and the agent's own personafy_manage_vault set_posture.
SetsPosture(p) ==
  /\ mem # NoVault /\ p # mem.posture
  /\ Sets([mem EXCEPT !.posture = p])
  /\ UNCHANGED <<stage, due, disk, writing, now, nextId, failures, starts, history, neglected>>

-----------------------------------------------------------------------------
(* Maintenance and the life of the service *)

\* Mutant: an approval lives through the tick of its deadline.
ExpiredAfter(e) == e.status = "pending" /\ now > e.expires

Expired(e) == e.status = "pending" /\ now >= e.expires

\* expireStaleApprovals and expireScheduledRules.
Maintained(v) ==
  [v EXCEPT
     !.queue = {IF Expired(e) THEN [e EXCEPT !.status = "expired", !.resolved = now] ELSE e : e \in @},
     !.scheduled = {r \in @ : now <= r.expires}]

\* pruneAuditLog
PrunedAudit(v) == [v EXCEPT !.audit = {a \in @ : now <= a.at + Retention}]

\* pruneResolvedApprovals: the oldest go.
PrunedApprovals(v) ==
  LET resolved == {e \in v.queue : e.status # "pending"}
      newer(e) == {x \in resolved : x.id > e.id}
  IN  [v EXCEPT !.queue = @ \ {e \in resolved : Cardinality(newer(e)) >= Keep}]

\* saveVault up to its first await: what is written is the vault of now.
Begins(kind, v) ==
  /\ writing' = [kinds |-> writing.kinds \cup {kind}, snaps |-> writing.snaps \cup {v},
                 mixed |-> writing.mixed \/ writing.kinds # {}]
  /\ disk' = Torn

EmptyVault == [posture |-> "guarded", rules |-> {}, scheduled |-> {}, queue |-> {}, audit |-> {}]

\* start: a missing file is an empty vault, an unreadable one stops the start.
Loaded == IF disk = NoVault THEN EmptyVault ELSE disk

Starts ==
  LET m == PrunedAudit(Maintained(Loaded)) IN
  /\ stage = "off" /\ disk # Torn
  /\ starts < MaxStarts /\ starts' = starts + 1
  /\ mem' = PrunedApprovals(m)
  /\ IF m # Loaded
     THEN stage' = "starting" /\ Begins("start", mem') /\ due' = 0
     ELSE stage' = "on" /\ due' = now + Interval /\ UNCHANGED <<disk, writing>>
  /\ UNCHANGED <<now, nextId, failures, history, lossy, neglected>>

\* The interval; it saves only if something has expired.
Maintains ==
  /\ stage = "on" /\ due # 0 /\ now = due
  /\ due' = now + Interval
  /\ Sets(Maintained(mem))
  /\ IF mem' # mem THEN Begins("interval", mem') ELSE UNCHANGED <<disk, writing>>
  /\ UNCHANGED <<stage, now, nextId, failures, starts, history, neglected>>

\* The gateway_start hook maintains without saving.
GatewayStarts ==
  /\ mem # NoVault
  /\ Sets(Maintained(mem))
  /\ UNCHANGED <<stage, due, disk, writing, now, nextId, failures, starts, history, neglected>>

\* Mutant: the service stops without a save.
StopsUnsaved ==
  /\ stage = "on" /\ writing.kinds = {}
  /\ stage' = "off" /\ mem' = NoVault
  /\ UNCHANGED <<disk, writing, due, now, nextId, failures, starts, history, lossy, neglected>>

Stops ==
  /\ stage = "on"
  /\ stage' = "stopping" /\ due' = 0
  /\ Begins("stop", mem)
  /\ lossy' = (lossy \/ writing.kinds # {})
  /\ UNCHANGED <<mem, now, nextId, failures, starts, history, neglected>>

\* What follows a save of each kind; the process ends after its last one.
After(kind, ok) ==
  IF writing'.kinds = {} /\ stage = "stopping"
  THEN stage' = "off" /\ mem' = NoVault /\ UNCHANGED <<due, neglected>>
  ELSE /\ stage' = IF kind = "start" THEN "on" ELSE stage
       /\ due' = IF kind = "start" /\ ok THEN now + Interval ELSE due
       /\ neglected' = (neglected \/ (kind = "start" /\ ~ok))
       /\ UNCHANGED mem

\* writeFile ends.  Of saves that overlapped the file holds either, or a
\* mixture that cannot be parsed.
Ends(kind, results) ==
  LET kinds == writing.kinds \ {kind} IN
  /\ kind \in writing.kinds
  /\ IF kinds = {}
     THEN writing' = NoWrite /\ disk' \in results
     ELSE writing' = [writing EXCEPT !.kinds = kinds] /\ UNCHANGED disk

WriteLands(kind) ==
  /\ Ends(kind, IF writing.mixed THEN writing.snaps \cup {Torn} ELSE writing.snaps)
  /\ After(kind, TRUE)
  /\ UNCHANGED <<now, nextId, failures, starts, history, lossy>>

\* A failed save is logged; at the start it ends start before the timer.
WriteFails(kind) ==
  /\ Fails
  /\ Ends(kind, {Torn})
  /\ After(kind, FALSE)
  /\ lossy' = TRUE
  /\ UNCHANGED <<now, nextId, starts, history>>

Crashes ==
  /\ mem # NoVault /\ Fails
  /\ mem' = NoVault /\ stage' = "off" /\ writing' = NoWrite
  /\ lossy' = TRUE
  /\ UNCHANGED <<due, disk, now, nextId, starts, history, neglected>>

\* A save takes less than a tick, and the timer is not late.
Tick ==
  /\ now < MaxTime /\ writing.kinds = {}
  /\ stage = "on" /\ due # 0 => now < due
  /\ now' = now + 1
  /\ UNCHANGED <<mem, stage, due, disk, writing, nextId, failures, starts, history, lossy, neglected>>

-----------------------------------------------------------------------------

Calls ==
  \/ \E req \in Requests : RequestDenied(req) \/ RequestReleased(req) \/ RequestQueued(req)
  \/ mem # NoVault /\ \E e \in mem.queue :
       \/ \E status \in {"approved", "denied"}, standing \in BOOLEAN : Resolves(e, status, standing)
       \/ ApprovesByHttp(e)
  \/ \E o \in RuleOffers : AddsRule(o)
  \/ \E id \in Ids : RemovesRule(id)
  \/ \E p \in Postures : SetsPosture(p)

Service ==
  \/ Starts \/ Maintains \/ GatewayStarts \/ Stops \/ Crashes
  \/ \E kind \in writing.kinds : WriteLands(kind) \/ WriteFails(kind)

Next == Calls \/ Service \/ Tick

Spec == Init /\ [][Next]_vars

-----------------------------------------------------------------------------
(* Properties *)

\* The vault as far as it is known: in memory or, between runs, on disk.
Current == IF mem # NoVault THEN mem ELSE IF disk \in {NoVault, Torn} THEN EmptyVault ELSE disk

\* resolveApproval does not look at the deadline; maintenance still bounds how
\* late an approval can be granted, across restarts and crashes: never a whole
\* interval after the deadline, unless a start failed before it set the timer.
GrantedInTime ==
  ~neglected => \A e \in Current.queue :
    e.status = "approved" => e.resolved < e.expires + Interval

\* Unless something was lost, what has been resolved stays resolved that way,
\* over maintenance, pruning and restarts (resolveApproval).
SettledStaysSettled ==
  ~lossy => \A d \in decided : \A e \in Current.queue : e.id = d.id => e.status = d.status

\* Unless something was lost, every release of the retention period is on the
\* audit log with at least the released fields (requestContext, pruneAuditLog).
ReleasesAreAudited ==
  ~lossy => \A r \in released :
    \/ now > r.at + Retention
    \/ \E a \in Current.audit : a.id = r.id /\ a.decision = "approved" /\ r.fields \subseteq a.fields

\* Unless something was lost, a rule that was removed is not in force again.
\* A crash, a failed or overlapping save or a change made while the service
\* stops are the only ways to lose a removal (saveVault, stop).
WithdrawnStaysWithdrawn ==
  ~lossy => \A r \in Current.rules \cup Current.scheduled : r.id \notin withdrawn
=============================================================================
