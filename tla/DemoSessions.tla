---------------------------- MODULE DemoSessions ----------------------------
(***************************************************************************)
(* The demo of the OpenClaw extension (demo.ts, the /personafy/demo route): *)
(* every visitor has a vault of his own in memory, which he may change with *)
(* the engine's calls, and on a copy of which he may run five scenarios.    *)
(* Each step of a scenario is shown beside a highlight that says what it    *)
(* demonstrates.  A session ends after a time, or when it is the oldest and *)
(* another visitor needs its place.                                         *)
(*                                                                         *)
(* The demo shares the operators and the clock of the engine, not its       *)
(* vault.  The history field changed is not in the code: the visitor has    *)
(* changed the posture or the rules.                                        *)
(***************************************************************************)
EXTENDS ContextEngine, Arrays

CONSTANTS
  Visitors,      \* values of the x-demo-session header
  DemoRequests,  \* the requests visitors make; the demo passes no source on
  DemoRules,     \* the rules they add: [agent, purpose, persona, fields]
  MaxSessions, SessionTTL

VARIABLE sessions  \* of the visitors that have one

ASSUME DemoAssumption ==
  /\ MaxSessions \in Nat \ {0} /\ SessionTTL \in Nat
  /\ \A req \in DemoRequests : req.source = NoOne /\ req.fields # {}
  /\ \A o \in DemoRules : o.fields # {}

-----------------------------------------------------------------------------
(* The engine's calls on a vault of the demo *)

WithRule(v, id, agent, purpose, persona, fields) ==
  addRule(v, [id |-> id, agent |-> agent, purpose |-> purpose, persona |-> persona, fields |-> fields])

\* requestContext: the answer, and the vault after it.
requestContext(v, req, id) ==
  LET approved == IF v.posture = "locked" THEN {} ELSE Approved(v, req)
      queued   == v.posture # "locked" /\ approved # req.fields
      decision == IF v.posture = "locked" THEN "denied" ELSE IF approved = {} THEN "pending" ELSE "approved"
      entry    == [id |-> id, request |-> req, status |-> "pending",
                   expires |-> now + ApprovalTTL, resolved |-> 0]
  IN  [vault  |-> Logged([v EXCEPT !.queue = IF queued THEN @ \cup {entry} ELSE @],
                         id, req.agent, req.fields, decision),
       queued |-> queued,
       answer |-> [decision |-> decision, approved |-> approved]]

\* Two starter rules; their ids, and those a scenario gives, are above those of
\* the visitors' calls.
createDemoVault ==
  WithRule(WithRule(EmptyVault, MaxId + 1, NoOne, NoOne, "work", {"tools", "communication_style"}),
           MaxId + 2, "personal-assistant", NoOne, "personal", {"name"})

-----------------------------------------------------------------------------
(* Scenarios: their steps, a request with what its highlight claims *)

Wants(agent, persona, fields) ==
  [agent |-> agent, type |-> "message", source |-> NoOne, purpose |-> "demo",
   persona |-> persona, fields |-> fields]

Beats(agent, beat, fields) ==
  [Wants(agent, "work", fields) EXCEPT !.type = "heartbeat", !.source = beat]

Asks(req, decision, approved) ==
  [does |-> "ask", req |-> req, claim |-> [decision |-> decision, approved |-> approved]]
Sees(req)            == Asks(req, "approved", req.fields)
Waits(req)           == Asks(req, "pending", {})
Switches(posture)    == [does |-> "switch", posture |-> posture]
Adds(agent, persona, fields) == [does |-> "rule", agent |-> agent, persona |-> persona, fields |-> fields]
Grants(persona, fields)      == [does |-> "grant", persona |-> persona, fields |-> fields]
Schedules(agent, beat, fields, ttl) ==
  [does |-> "schedule", agent |-> agent, source |-> beat, persona |-> "work", fields |-> fields, ttl |-> ttl]
Outlives             == [does |-> "outlive"]

Tools == {"tools", "communication_style"}

runBasicApproval ==
  LET review == Wants("coder", "work", {"review_preferences"})
  IN  << Sees(Wants("coder", "work", Tools)),
         Waits(review), Grants("work", {"review_preferences"}), Sees(review) >>

runPostureShowcase ==
  LET setup == Wants("demo-agent", "work", Tools \cup {"timezone"})
  IN  << Asks(setup, "approved", Tools),
         Switches("open"), Sees(setup),
         Switches("locked"), Asks(setup, "denied", {}), Switches("guarded") >>

runMultiAgent ==
  LET sizes == {"clothing_size", "shoe_size", "preferred_brands"}
  IN  << Sees(Wants("personal-assistant", "personal", {"name"})),
         Adds("shopping-bot", "shopping", sizes),
         Sees(Wants("shopping-bot", "shopping", sizes)),
         Waits(Wants("shopping-bot", "personal", {"email", "birthday"})),
         Waits(Wants("personal-assistant", "shopping", {"payment_method"})) >>

\* After the rule has expired a standard rule still covers the tools.
runScheduledRules ==
  LET status == Beats("monitor-bot", "hb-status", {"tools", "role"})
  IN  << Schedules("monitor-bot", "hb-status", {"tools", "role"}, 2), Sees(status),
         Outlives, Asks(status, "approved", {"tools"}) >>

runFullLifecycle ==
  LET later == {"timezone", "role"}
  IN  << Sees(Wants("coder", "work", {"tools"})),
         Waits(Wants("coder", "work", later)), Grants("work", later),
         Switches("open"),
         Sees(Wants("coder", "work", Tools \cup later \cup {"review_preferences"})),
         Switches("guarded"), Schedules("coder", "hb-coding", {"tools", "role"}, 1) >>

scenarios == {runBasicApproval, runPostureShowcase, runMultiAgent, runScheduledRules, runFullLifecycle}

\* The user approves what the last request left, if it left something, and a
\* standing rule is added whatever came of that.
Granted(v, id) ==
  LET left == {e \in v.queue : e.id = id}
  IN  IF left = {} THEN v ELSE resolveApproval(v, CHOOSE e \in left : TRUE, "approved")

Performed(s, step) ==
  LET v == s.vault
      asked == requestContext(v, step.req, s.next)
      n == [s EXCEPT !.next = @ + 1]
  IN CASE step.does = "ask" ->
            [n EXCEPT !.vault = asked.vault, !.approval = IF asked.queued THEN s.next ELSE 0,
                      !.shown = @ \cup {[answer |-> asked.answer, claim |-> step.claim]}]
       [] step.does = "switch" -> [s EXCEPT !.vault.posture = step.posture]
       [] step.does = "rule" ->
            [n EXCEPT !.vault = WithRule(v, s.next, step.agent, NoOne, step.persona, step.fields)]
       [] step.does = "grant" ->
            [n EXCEPT !.vault = WithRule(Granted(v, s.approval), s.next, NoOne, NoOne, step.persona, step.fields)]
       [] step.does = "schedule" ->
            [n EXCEPT !.beat = s.next,
                      !.vault = addScheduledRule(v, createHeartbeatRule(s.next, step, step.ttl))]
       [] step.does = "outlive" -> [s EXCEPT !.vault.scheduled = {r \in @ : r.id # s.beat /\ now <= r.expires}]

Shown(scenario, v) ==
  Reduce(Performed, [vault |-> v, next |-> MaxId + 3, approval |-> 0, beat |-> 0, shown |-> {}], scenario)

\* Mutant: the scenario runs on the visitor's vault.
RunInPlace(scenario, v) == [vault |-> Shown(scenario, v).vault, shown |-> Shown(scenario, v).shown]

\* On a copy: the vault stays.
runDemoScenario(scenario, v) == [vault |-> v, shown |-> Shown(scenario, v).shown]

-----------------------------------------------------------------------------
(* Sessions *)

DemoInit == sessions = <<>>

\* cleanExpiredSessions
Live == { id \in DOMAIN sessions : now <= sessions[id].createdAt + SessionTTL }

NewSession == [vault |-> createDemoVault, createdAt |-> now, changed |-> FALSE]

SessionOf(id) == IF id \in Live THEN sessions[id] ELSE NewSession

\* The sessions there may be: of several oldest ones any makes room.
getOrCreateSession(id) ==
  LET oldest == { o \in Live : \A s \in Live : sessions[o].createdAt <= sessions[s].createdAt }
      kept   == IF id \in Live \/ Cardinality(Live) < MaxSessions THEN {Live} ELSE { Live \ {o} : o \in oldest }
  IN  { [s \in k \cup {id} |-> SessionOf(s)] : k \in kept }

\* A call of the API finds or makes the visitor's session and leaves it as s.
Posts(id, s) ==
  /\ \E all \in getOrCreateSession(id) : sessions' = [all EXCEPT ![id] = s]
  /\ UNCHANGED <<mem, stage, due, disk, writing, now, failures, starts, history, lossy, neglected>>

CreatesVault(id) == Posts(id, [SessionOf(id) EXCEPT !.vault = createDemoVault, !.changed = FALSE]) /\ UNCHANGED nextId

\* list_scenarios, get_state, and actions that are refused.
Looks(id) == Posts(id, SessionOf(id)) /\ UNCHANGED nextId

RunsScenario(id, scenario) ==
  Posts(id, [SessionOf(id) EXCEPT !.vault = runDemoScenario(scenario, @).vault]) /\ UNCHANGED nextId

\* execute_action
ExecutesRequest(id, req) ==
  /\ nextId <= MaxId /\ nextId' = nextId + 1
  /\ Posts(id, [SessionOf(id) EXCEPT !.vault = requestContext(@, req, nextId).vault])

ExecutesPosture(id, p) ==
  Posts(id, [SessionOf(id) EXCEPT !.vault.posture = p, !.changed = TRUE]) /\ UNCHANGED nextId

ExecutesAddRule(id, o) ==
  /\ nextId <= MaxId /\ nextId' = nextId + 1
  /\ Posts(id, [SessionOf(id) EXCEPT !.vault = WithRule(@, nextId, o.agent, o.purpose, o.persona, o.fields),
                                     !.changed = TRUE])

\* remove_rule looks in the standard rules only.
ExecutesRemoveRule(id, rule) ==
  LET s == SessionOf(id) IN
  /\ Posts(id, IF rule \notin {r.id : r \in s.vault.rules} THEN s
               ELSE [s EXCEPT !.vault.rules = {r \in @ : r.id # rule}, !.changed = TRUE])
  /\ UNCHANGED nextId

\* A standing rule, for any agent, is added only if something was resolved.
Settled(s, e, status, standing) ==
  LET v == resolveApproval(s.vault, e, status)
  IN  IF e \notin s.vault.queue \/ e.status # "pending" THEN s
      ELSE IF ~standing THEN [s EXCEPT !.vault = v]
      ELSE [s EXCEPT !.vault = WithRule(v, nextId, NoOne, NoOne, e.request.persona, e.request.fields),
                     !.changed = TRUE]

ExecutesResolve(id, e, status, standing) ==
  /\ standing => status = "approved" /\ nextId <= MaxId
  /\ Posts(id, Settled(SessionOf(id), e, status, standing))
  /\ nextId' = IF standing THEN nextId + 1 ELSE nextId

DemoCalls(id) ==
  \/ CreatesVault(id) \/ Looks(id)
  \/ \E scenario \in scenarios : RunsScenario(id, scenario)
  \/ \E req \in DemoRequests : ExecutesRequest(id, req)
  \/ \E p \in Postures : ExecutesPosture(id, p)
  \/ \E o \in DemoRules : ExecutesAddRule(id, o)
  \/ \E rule \in 1 .. MaxId + 2 : ExecutesRemoveRule(id, rule)
  \/ id \in DOMAIN sessions /\ \E e \in sessions[id].vault.queue,
       status \in {"approved", "denied"}, standing \in BOOLEAN : ExecutesResolve(id, e, status, standing)

DemoNext ==
  \/ \E id \in Visitors : DemoCalls(id)
  \/ Tick /\ UNCHANGED sessions

DemoSpec == Init /\ DemoInit /\ [][DemoNext]_<<vars, sessions>>

-----------------------------------------------------------------------------
(* Properties *)

\* Until a visitor changes the posture or the rules, every request of every
\* scenario is answered as the highlight beside it claims, whatever he has asked
\* for and resolved, whatever scenarios he has run before, and whoever came and
\* went meanwhile (runDemoScenario works on a copy, getOrCreateSession).
ScenariosShowWhatTheyClaim ==
  \A id \in DOMAIN sessions : ~sessions[id].changed =>
    \A scenario \in scenarios :
      \A step \in runDemoScenario(scenario, sessions[id].vault).shown : step.answer = step.claim
=============================================================================
