-------------------------- MODULE DisclosurePolicy --------------------------
(***************************************************************************)
(* The pure decision logic of the agent plugin                             *)
(* (packages/openclaw-plugin/lib.ts): which persona answers a request,     *)
(* which of its facts match the requested fields, and whether they may be  *)
(* released without asking the user.                                       *)
(*                                                                         *)
(* A dotted fact key such as apparel.pants.waist is the sequence of its    *)
(* segments; a requested field is [path, wild], where wild stands for a    *)
(* trailing ".*".  Values are told apart up to letter case only, which is  *)
(* how matchFacts compares them.                                           *)
(***************************************************************************)
EXTENDS Integers, Sequences, FiniteSets

CONSTANTS
  Keys,          \* fact keys, legacy spellings included: non-empty sequences
  LegacyKeyMap,  \* legacy key -> canonical key (LEGACY_FACT_KEY_MAP)
  Values,        \* fact values up to letter case
  Personas,      \* persona ids
  PersonaOrder,  \* the vault's personas array: a sequence of all persona ids
  Selectors,     \* persona hints and purpose categories an agent may send
  Selects,       \* selector -> the personas whose id, name or category it matches
  Domains,       \* recipient domains
  Categories,    \* purpose categories
  ActionNames    \* purpose actions

ASSUME KeysAreCanonicalised ==
  /\ DOMAIN LegacyKeyMap \subseteq Keys
  /\ \A k \in DOMAIN LegacyKeyMap : LegacyKeyMap[k] \in Keys \ DOMAIN LegacyKeyMap

ASSUME PersonasAreListed ==
  /\ PersonaOrder \in Seq(Personas)
  /\ \A p \in Personas : \E i \in DOMAIN PersonaOrder : PersonaOrder[i] = p
  /\ Selects \in [Selectors -> SUBSET Personas]

Postures      == {"simple_lock", "alarm_system", "safe_room"}
Sensitivities == {"low", "medium", "high", "unlabelled"}
AutoRelease   == {"follow_posture", "always_ask", "auto_low"}
Purposes      == [category : Categories, action : ActionNames]
JoinedAction  == "category/action"   \* a queue entry's purpose: both in one string
NoDate        == -1   \* Date.parse of an empty or invalid expiry

Fact     == [key : Keys, value : Values, sensitivity : Sensitivities]
Field    == [path : Keys, wild : BOOLEAN]
Settings == [visible : BOOLEAN, autoRelease : AutoRelease]
Persona  == [settings : Settings, facts : Seq(Fact)]
\* A rule remembered on the approval page names the persona as category and
\* the joined purpose as action.
RulePurposes == Purposes \cup [category : Personas, action : {JoinedAction}]
Rule     == [id : Nat, domain : Domains, purpose : RulePurposes,
             maxSensitivity : Sensitivities, allowedFields : SUBSET Field, expires : Nat \cup {NoDate},
             enabled : BOOLEAN]

-----------------------------------------------------------------------------
(* Keys and field patterns *)

normalizeFactKey(k) == IF k \in DOMAIN LegacyKeyMap THEN LegacyKeyMap[k] ELSE k

IsPathPrefix(p, k) == Len(p) <= Len(k) /\ SubSeq(k, 1, Len(p)) = p

fieldMatchesPattern(key, pattern) ==
  LET k == normalizeFactKey(key)
      p == normalizeFactKey(pattern.path)
  IN  IF pattern.wild THEN IsPathPrefix(p, k) ELSE k = p

-----------------------------------------------------------------------------
(* The persona that answers *)

isPersonaVisible(persona) == persona.settings.visible

\* The first visible persona of the array that the hint (or, without a hint,
\* the purpose category) matches; {} when there is none.
findMatchingPersona(personas, selector) ==
  LET hits == {i \in DOMAIN PersonaOrder :
                 /\ PersonaOrder[i] \in Selects[selector]
                 /\ isPersonaVisible(personas[PersonaOrder[i]])}
  IN  {PersonaOrder[i] : i \in {i \in hits : \A j \in hits : i <= j}}

-----------------------------------------------------------------------------
(* The facts a request matches.  The order of the result is irrelevant to   *)
(* every caller, so it is a set; the order of the persona's facts is not:    *)
(* of two facts with one canonical key and value the first is kept.          *)

Canonical(fact) == [fact EXCEPT !.key = normalizeFactKey(@)]

SameAfterNormalisation(f, g) ==
  normalizeFactKey(f.key) = normalizeFactKey(g.key) /\ f.value = g.value

MatchingPositions(persona, fields) ==
  {i \in DOMAIN persona.facts :
     \E field \in fields : fieldMatchesPattern(persona.facts[i].key, field)}

\* Mutant: no fields requested taken to mean every field.
matchFactsNoFieldsMeansAll(persona, fields) ==
  LET hits == IF fields = {} THEN DOMAIN persona.facts
                             ELSE MatchingPositions(persona, fields)
  IN  {Canonical(persona.facts[i]) : i \in hits}

matchFacts(persona, fields) ==
  LET hits == MatchingPositions(persona, fields)
      kept == {i \in hits : ~ \E j \in hits :
                 j < i /\ SameAfterNormalisation(persona.facts[i], persona.facts[j])}
  IN  {Canonical(persona.facts[i]) : i \in kept}

-----------------------------------------------------------------------------
(* Automatic release *)

\* levels[s] || 2: a label outside the table counts as medium.
Level(sensitivity) ==
  CASE sensitivity = "low"  -> 1
    [] sensitivity = "high" -> 3
    [] OTHER                -> 2

AtMost(facts, level) == \A f \in facts : Level(f.sensitivity) <= level

\* Strict expiration: an invalid date counts as expired.
RuleIsLive(rule, now) == rule.enabled /\ rule.expires # NoDate /\ rule.expires >= now

\* Mutant: one covered fact is enough.
RuleCoversSome(rule, facts) ==
  \/ rule.allowedFields = {}
  \/ \E f \in facts : \E field \in rule.allowedFields : fieldMatchesPattern(f.key, field)

RuleCovers(rule, facts) ==
  \/ rule.allowedFields = {}
  \/ \A f \in facts : \E field \in rule.allowedFields : fieldMatchesPattern(f.key, field)

RuleApplies(rule, domain, purpose, facts, now) ==
  /\ RuleIsLive(rule, now)
  /\ rule.domain = domain
  /\ rule.purpose = purpose
  /\ AtMost(facts, Level(rule.maxSensitivity))
  /\ RuleCovers(rule, facts)

\* Mutant: the rules are consulted before the posture.
checkAutoAllowRulesFirst(posture, settings, rules, domain, purpose, facts, now) ==
  /\ settings.autoRelease # "always_ask"
  /\ facts # {}
  /\ \/ \E rule \in rules : RuleApplies(rule, domain, purpose, facts, now)
     \/ posture # "safe_room" /\ settings.autoRelease = "auto_low" /\ AtMost(facts, 1)
     \/ posture = "simple_lock" /\ AtMost(facts, 1)

\* The early returns of checkAutoAllow, in their order: each later disjunct
\* is reached only when no earlier return was taken.
checkAutoAllow(posture, settings, rules, domain, purpose, facts, now) ==
  /\ posture # "safe_room"
  /\ settings.autoRelease # "always_ask"
  /\ facts # {}
  /\ \/ settings.autoRelease = "auto_low" /\ AtMost(facts, 1)
     \/ posture = "simple_lock" /\ AtMost(facts, 1)
     \/ /\ ~(posture = "alarm_system" /\ ~AtMost(facts, 1))
        /\ \E rule \in rules : RuleApplies(rule, domain, purpose, facts, now)

-----------------------------------------------------------------------------
(* The answer to a new request: no data, released at once, or the user is    *)
(* asked.  A vault is a record with at least posture, personas and rules; a  *)
(* request is [selector, domain, purpose, fields].                           *)

Request == [selector : Selectors, domain : Domains, purpose : Purposes,
            fields : SUBSET Field]

NoData == [kind |-> "no_data", facts |-> {}, persona |-> {}]

Decide(vault, req, now) ==
  LET found == findMatchingPersona(vault.personas, req.selector)
      facts == UNION {matchFacts(vault.personas[p], req.fields) : p \in found}
  IN  IF facts = {} THEN NoData
      ELSE [kind  |-> IF \E p \in found :
                           checkAutoAllow(vault.posture, vault.personas[p].settings,
                                          vault.rules, req.domain, req.purpose, facts, now)
                      THEN "allow" ELSE "ask",
            facts |-> facts, persona |-> found]
=============================================================================
