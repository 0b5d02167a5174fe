--------------------------- MODULE DisclosureCall ---------------------------
(***************************************************************************)
(* One call of personafy_request_context: a vault is loaded, a request is   *)
(* decided on it.  What is correct is stated from the privacy postures the  *)
(* README promises and from the persona's list of facts, not from the shape *)
(* of checkAutoAllow and matchFacts.                                        *)
(***************************************************************************)
EXTENDS DisclosurePolicy

CONSTANTS
  CallVaults,    \* vaults without rules
  CallRules,     \* the sets of rules such a vault may hold
  CallRequests,
  CallTime,      \* the clock
  NoRequest

ASSUME CallAssumption ==
  /\ CallVaults \subseteq [posture : Postures, personas : [Personas -> Persona], rules : SUBSET Rule]
  /\ CallRules \subseteq SUBSET Rule
  /\ CallRequests \subseteq Request
  /\ CallTime \in Nat

VARIABLES vault, request, answer

callVars == <<vault, request, answer>>

Unanswered == [kind |-> "none", facts |-> {}, persona |-> {}]

CallInit == vault \in CallVaults /\ request = NoRequest /\ answer = Unanswered

Ask ==
  /\ answer = Unanswered
  /\ \E rules \in CallRules, req \in CallRequests :
       /\ vault' = [vault EXCEPT !.rules = rules]
       /\ request' = req
       /\ answer' = Decide(vault', req, CallTime)

CallSpec == CallInit /\ [][Ask]_callVars

-----------------------------------------------------------------------------
(* Reference definitions *)

\* The first visible persona of the vault that the request selects.
Eligible(p) == p \in Selects[request.selector] /\ vault.personas[p].settings.visible

Answers(p) ==
  \E i \in DOMAIN PersonaOrder :
    /\ PersonaOrder[i] = p /\ Eligible(p)
    /\ \A j \in DOMAIN PersonaOrder : j < i => ~Eligible(PersonaOrder[j])

\* The label of a released value: of the first of the persona's facts that
\* carry it, under whatever spelling of its key.
Labels(p, f) ==
  LET facts == vault.personas[p].facts
      same == {i \in DOMAIN facts : SameAfterNormalisation(f, facts[i])}
  IN  {facts[i].sensitivity : i \in {i \in same : \A j \in same : i <= j}}

Released  == IF answer.kind = "allow" THEN answer.facts ELSE {}
AllLow(p) == \A f \in Released : Labels(p, f) = {"low"}

\* A field names a key, or a part of the tree of keys.
Names(field, key) ==
  LET path == normalizeFactKey(field.path)
  IN  IF field.wild THEN IsPathPrefix(path, key) ELSE path = key

\* A live rule the user made for this recipient and purpose that names every
\* released field and tolerates every released label.
CoveringRule(p) ==
  \E rule \in vault.rules :
    /\ rule.enabled /\ rule.expires >= CallTime
    /\ rule.domain = request.domain /\ rule.purpose = request.purpose
    /\ \A f \in Released :
         /\ \A label \in Labels(p, f) : Level(label) <= Level(rule.maxSensitivity)
         /\ rule.allowedFields # {} => \E field \in rule.allowedFields : Names(field, f.key)

\* What leaves without asking is permitted by the posture: nothing in Safe
\* Room; only low facts in Alarm System, whatever the rules say; and in every
\* posture the release is covered by a live rule unless the facts are low and
\* the posture or the persona releases low facts; a persona set to always ask
\* releases nothing by itself.
AutoReleaseIsPermitted ==
  answer.kind = "allow" =>
    \E p \in Personas :
      LET auto == vault.personas[p].settings.autoRelease IN
      /\ Answers(p)
      /\ vault.posture # "safe_room" /\ auto # "always_ask"
      /\ vault.posture = "alarm_system" => AllLow(p)
      /\ \/ CoveringRule(p)
         \/ AllLow(p) /\ (vault.posture = "simple_lock" \/ auto = "auto_low")

\* Whether released or put in front of the user, facts come from the persona
\* that answers and from the fields the agent named: naming none yields none,
\* and one value never appears under two spellings of its key.
AnswerIsWhatWasAsked ==
  answer.kind \in {"allow", "ask"} =>
    /\ request.fields # {}
    /\ \E p \in Personas :
         /\ Answers(p)
         /\ \A f \in answer.facts : \E i \in DOMAIN vault.personas[p].facts :
              SameAfterNormalisation(f, vault.personas[p].facts[i])
    /\ \A f \in answer.facts : \E field \in request.fields : Names(field, f.key)
    /\ \A f, g \in answer.facts : SameAfterNormalisation(f, g) => f = g

\* Asking for less never needs more approval: a request that is released at
\* once is still released at once when it names only some of its fields and
\* still matches something.
NarrowerRequestIsNoHarder ==
  answer.kind = "allow" =>
    \A fields \in SUBSET request.fields :
      Decide(vault, [request EXCEPT !.fields = fields], CallTime).kind # "ask"
=============================================================================
