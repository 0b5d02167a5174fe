--------------------------- MODULE MCContextEngine ---------------------------
(***************************************************************************)
(* An instance of ContextEngine and DemoSessions for TLC.  In the service   *)
(* scene one agent asks for two fields, in a message or for a cron job;     *)
(* there are rules for one field, one of them scheduled with a window       *)
(* around midnight.  In the demo scene two visitors share one place.        *)
(***************************************************************************)
EXTENDS DemoSessions

CONSTANTS a, f, g, job, shop, pattern, home, office

VARIABLE scene

MCRequests ==
  {[agent |-> a, type |-> "message", source |-> NoOne, purpose |-> shop, persona |-> home, fields |-> {f, g}],
   [agent |-> a, type |-> "cron", source |-> job, purpose |-> shop, persona |-> home, fields |-> {f}]}

MCRuleOffers ==
  {[kind |-> "standard", agent |-> NoOne, purpose |-> pattern, source |-> NoOne,
    persona |-> home, fields |-> {f}, window |-> NoWindow],
   [kind |-> "cron", agent |-> a, purpose |-> NoOne, source |-> job,
    persona |-> home, fields |-> {f}, window |-> [from |-> 2, to |-> 0]]}

MCMentions == {<<shop, pattern>>}

MCDemoRequests == {[Wants("coder", "work", {"tools", "timezone"}) EXCEPT !.purpose = shop]}
MCDemoRules == {[agent |-> NoOne, purpose |-> pattern, persona |-> "work", fields |-> {"timezone"}]}

MCInit == Init /\ DemoInit /\ scene \in {"service", "demo"}

MCNext ==
  /\ UNCHANGED scene
  /\ \/ scene = "service" /\ Next /\ UNCHANGED sessions
     \/ scene = "demo" /\ DemoNext

MCSpec == MCInit /\ [][MCNext]_<<vars, sessions, scene>>
=============================================================================
