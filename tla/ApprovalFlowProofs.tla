------------------------- MODULE ApprovalFlowProofs -------------------------
(***************************************************************************)
(* Proofs about ApprovalFlow, for every number of tabs, requests, vaults    *)
(* and clock ticks: the vault keeps its shape in every copy; an approval    *)
(* releases exactly what the user was shown, in time; and as long as no     *)
(* write overwrites an unseen one, a request releases data at most once and *)
(* only after the audit log says so.  And about one call of the policy      *)
(* (DisclosureCall), for every vault, rule, field and key: what it releases *)
(* or asks about is permitted and was asked for.                            *)
(***************************************************************************)
EXTENDS ApprovalFlow, DisclosureCall, TLAPS

(* What the policy operators return *)

\* normalizeFactKey stays among the fact keys.
LEMMA KeyStaysKey ==
  ASSUME NEW k \in Keys PROVE normalizeFactKey(k) \in Keys
  BY KeysAreCanonicalised DEF normalizeFactKey

\* matchFacts returns facts of the persona, under canonical keys.
LEMMA MatchedFactsAreFacts ==
  ASSUME NEW persona \in Persona, NEW fields
  PROVE  matchFacts(persona, fields) \subseteq Fact
<1>1. persona.facts \in Seq(Fact)
  BY DEF Persona
<1>2. ASSUME NEW i \in DOMAIN persona.facts PROVE Canonical(persona.facts[i]) \in Fact
  <2>1. persona.facts[i] \in Fact
    BY <1>1, <1>2
  <2>2. normalizeFactKey(persona.facts[i].key) \in Keys
    BY <2>1, KeyStaysKey DEF Fact
  <2> QED
    BY <2>1, <2>2 DEF Canonical, Fact
<1> QED
  BY <1>2 DEF matchFacts, MatchingPositions

\* findMatchingPersona returns persona ids.
LEMMA FoundPersonasExist ==
  ASSUME NEW personas, NEW selector
  PROVE  findMatchingPersona(personas, selector) \subseteq Personas
<1>1. PersonaOrder \in Seq(Personas)
  BY PersonasAreListed
<1> QED
  BY <1>1 DEF findMatchingPersona

\* A decision carries facts and personas of the vault it was made on.
LEMMA DecisionIsTyped ==
  ASSUME NEW v \in Vault, NEW req, NEW n
  PROVE  /\ Decide(v, req, n).facts \subseteq Fact
         /\ Decide(v, req, n).persona \subseteq Personas
<1> DEFINE found == findMatchingPersona(v.personas, req.selector)
           facts == UNION {matchFacts(v.personas[p], req.fields) : p \in found}
<1>1. found \subseteq Personas
  BY FoundPersonasExist
<1>2. \A p \in found : v.personas[p] \in Persona
  BY <1>1 DEF Vault
<1>3. \A p \in found : matchFacts(v.personas[p], req.fields) \subseteq Fact
  BY <1>2, MatchedFactsAreFacts
<1>4. facts \subseteq Fact
  BY <1>3
<1>5. Decide(v, req, n).facts \in {facts, {}} /\ Decide(v, req, n).persona \in {found, {}}
  BY DEF Decide, NoData
<1> QED
  BY <1>1, <1>4, <1>5

\* The keys of facts are fact keys.
LEMMA KeysOfFacts ==
  ASSUME NEW facts \in SUBSET Fact PROVE KeysOf(facts) \subseteq Keys
  BY DEF KeysOf, Fact

-----------------------------------------------------------------------------
(* The decision itself *)

\* Keys are normalised once.
LEMMA Normalised ==
  ASSUME NEW k \in Keys PROVE normalizeFactKey(normalizeFactKey(k)) = normalizeFactKey(k)
  BY KeysAreCanonicalised DEF normalizeFactKey

\* The normal form of a fact differs in the spelling of its key.
LEMMA CanonicalFact ==
  ASSUME NEW f \in Fact
  PROVE  /\ Canonical(f) \in Fact /\ Canonical(f).key = normalizeFactKey(f.key)
         /\ Canonical(f).value = f.value /\ Canonical(f).sensitivity = f.sensitivity
  BY KeyStaysKey DEF Canonical, Fact

\* A field matches both spellings of a key or neither.
LEMMA SameFieldsMatch ==
  ASSUME NEW f \in Fact, NEW g \in Fact, SameAfterNormalisation(f, g), NEW field
  PROVE  fieldMatchesPattern(f.key, field) <=> fieldMatchesPattern(g.key, field)
  BY DEF SameAfterNormalisation, fieldMatchesPattern

\* A fact that matches a request stems from the first of the persona's facts
\* with its key and value, and the request names it.
LEMMA MatchedFact ==
  ASSUME NEW persona \in Persona, NEW fields \in SUBSET Field, NEW f \in matchFacts(persona, fields)
  PROVE  \E i \in DOMAIN persona.facts :
           /\ i \in MatchingPositions(persona, fields)
           /\ f = Canonical(persona.facts[i])
           /\ SameAfterNormalisation(f, persona.facts[i])
           /\ \A j \in DOMAIN persona.facts :
                SameAfterNormalisation(f, persona.facts[j]) => i <= j
<1>1. PICK i \in MatchingPositions(persona, fields) :
        /\ f = Canonical(persona.facts[i])
        /\ ~ \E j \in MatchingPositions(persona, fields) :
               j < i /\ SameAfterNormalisation(persona.facts[i], persona.facts[j])
  BY DEF matchFacts
<1>2. /\ i \in DOMAIN persona.facts
      /\ \A j \in DOMAIN persona.facts : j \in Nat /\ persona.facts[j] \in Fact
  BY DEF MatchingPositions, Persona
<1>3. /\ SameAfterNormalisation(f, persona.facts[i])
      /\ \A j \in DOMAIN persona.facts :
           SameAfterNormalisation(f, persona.facts[j]) <=> SameAfterNormalisation(persona.facts[i], persona.facts[j])
  <2>1. normalizeFactKey(f.key) = normalizeFactKey(persona.facts[i].key) /\ f.value = persona.facts[i].value
    BY <1>1, <1>2, CanonicalFact, Normalised DEF Fact
  <2> QED
    BY <2>1 DEF SameAfterNormalisation
<1>4. ASSUME NEW j \in DOMAIN persona.facts, SameAfterNormalisation(persona.facts[i], persona.facts[j])
      PROVE  j \in MatchingPositions(persona, fields)
  <2>1. PICK field \in fields : fieldMatchesPattern(persona.facts[i].key, field)
    BY DEF MatchingPositions
  <2>2. fieldMatchesPattern(persona.facts[j].key, field)
    BY <1>2, <1>4, <2>1, SameFieldsMatch
  <2> QED
    BY <2>2 DEF MatchingPositions
<1>5. ASSUME NEW j \in DOMAIN persona.facts, SameAfterNormalisation(f, persona.facts[j]) PROVE i <= j
  <2>1. ~(j < i)
    BY <1>1, <1>3, <1>4, <1>5
  <2> QED
    BY <1>2, <2>1
<1> QED
  BY <1>1, <1>2, <1>3, <1>5

\* The fields of a fact that matches name its key.
LEMMA MatchedIsNamed ==
  ASSUME NEW k \in Keys, NEW field \in Field
  PROVE  fieldMatchesPattern(k, field) <=> Names(field, normalizeFactKey(k))
  BY DEF fieldMatchesPattern, Names

\* A label is that of the fact kept.
LEMMA KeptLabel ==
  ASSUME NEW p, NEW f, vault.personas[p] \in Persona,
         NEW i \in DOMAIN vault.personas[p].facts,
         SameAfterNormalisation(f, vault.personas[p].facts[i]),
         \A j \in DOMAIN vault.personas[p].facts :
           SameAfterNormalisation(f, vault.personas[p].facts[j]) => i <= j
  PROVE  Labels(p, f) = {vault.personas[p].facts[i].sensitivity}
<1> DEFINE facts == vault.personas[p].facts
           same == {j \in DOMAIN facts : SameAfterNormalisation(f, facts[j])}
           firsts == {j \in same : \A l \in same : j <= l}
<1>1. \A j \in DOMAIN facts : j \in Nat
  BY DEF Persona
<1>2. firsts = {i}
  <2>1. i \in firsts
    OBVIOUS
  <2>2. ASSUME NEW j \in firsts PROVE j = i
    BY <1>1, <2>2
  <2> QED
    BY <2>1, <2>2
<1>3. Labels(p, f) = {facts[j].sensitivity : j \in firsts}
  BY DEF Labels
<1> QED
  BY <1>2, <1>3

\* The persona that is found is the first eligible one.
LEMMA FoundAnswers ==
  ASSUME NEW p \in findMatchingPersona(vault.personas, request.selector)
  PROVE  p \in Personas /\ Answers(p)
<1> DEFINE hits == {i \in DOMAIN PersonaOrder :
                      /\ PersonaOrder[i] \in Selects[request.selector]
                      /\ isPersonaVisible(vault.personas[PersonaOrder[i]])}
<1>1. PICK i \in hits : p = PersonaOrder[i] /\ \A j \in hits : i <= j
  BY DEF findMatchingPersona
<1>2. \A j \in DOMAIN PersonaOrder : j \in Nat /\ PersonaOrder[j] \in Personas
  BY PersonasAreListed
<1>3. \A j \in DOMAIN PersonaOrder : j \in hits <=> Eligible(PersonaOrder[j])
  BY DEF Eligible, isPersonaVisible
<1>4. \A j \in DOMAIN PersonaOrder : j < i => ~Eligible(PersonaOrder[j])
  BY <1>1, <1>2, <1>3
<1>5. i \in DOMAIN PersonaOrder /\ Eligible(p)
  BY <1>1, <1>3
<1> QED
  BY <1>1, <1>2, <1>4, <1>5 DEF Answers

\* Only one persona is found.
LEMMA OneIsFound ==
  ASSUME NEW personas, NEW selector, NEW p \in findMatchingPersona(personas, selector),
         NEW q \in findMatchingPersona(personas, selector)
  PROVE  p = q
<1> DEFINE hits == {i \in DOMAIN PersonaOrder :
                      /\ PersonaOrder[i] \in Selects[selector]
                      /\ isPersonaVisible(personas[PersonaOrder[i]])}
<1>1. PICK i \in hits : p = PersonaOrder[i] /\ \A j \in hits : i <= j
  BY DEF findMatchingPersona
<1>2. PICK k \in hits : q = PersonaOrder[k] /\ \A j \in hits : k <= j
  BY DEF findMatchingPersona
<1>3. i \in Nat /\ k \in Nat
  BY PersonasAreListed
<1> QED
  BY <1>1, <1>2, <1>3

CallInv ==
  \/ answer = Unanswered /\ vault \in CallVaults
  \/ /\ answer = Decide(vault, request, CallTime) /\ request \in Request
     /\ vault.personas \in [Personas -> Persona] /\ vault.rules \subseteq Rule

\* What a decision that was made rests on.
LEMMA Decided ==
  ASSUME CallInv, answer.kind \in {"allow", "ask"}
  PROVE  \E p \in findMatchingPersona(vault.personas, request.selector) :
           /\ vault.personas[p] \in Persona /\ request \in Request /\ vault.rules \subseteq Rule
           /\ answer.facts = matchFacts(vault.personas[p], request.fields)
           /\ answer.facts # {}
           /\ answer.kind = "allow" =>
                checkAutoAllow(vault.posture, vault.personas[p].settings, vault.rules,
                               request.domain, request.purpose, answer.facts, CallTime)
<1> DEFINE found == findMatchingPersona(vault.personas, request.selector)
           facts == UNION {matchFacts(vault.personas[p], request.fields) : p \in found}
           lets(p) == checkAutoAllow(vault.posture, vault.personas[p].settings, vault.rules,
                                     request.domain, request.purpose, facts, CallTime)
<1>1. /\ answer = Decide(vault, request, CallTime) /\ request \in Request
      /\ vault.personas \in [Personas -> Persona] /\ vault.rules \subseteq Rule
  BY DEF CallInv, Unanswered
<1>2. /\ facts # {} /\ answer.facts = facts
      /\ answer.kind = IF \E p \in found : lets(p) THEN "allow" ELSE "ask"
  BY <1>1 DEF Decide, NoData
<1>3. PICK p \in found : matchFacts(vault.personas[p], request.fields) # {}
  BY <1>2
<1>4. found = {p}
  BY OneIsFound
<1>5. facts = matchFacts(vault.personas[p], request.fields)
  BY <1>4
<1>6. answer.kind = "allow" => lets(p)
  BY <1>2, <1>4
<1>7. vault.personas[p] \in Persona
  BY <1>1, FoundPersonasExist
<1> QED
  BY <1>1, <1>2, <1>5, <1>6, <1>7

\* A decision has one of three answers.
LEMMA DecisionIsAnAnswer ==
  ASSUME NEW v, NEW req, NEW time PROVE Decide(v, req, time) # Unanswered
  BY DEF Decide, NoData, Unanswered

\* A call decides on the vault that was loaded, with the rules it holds.
LEMMA CallStep ==
  /\ CallInit => CallInv
  /\ CallInv /\ [Ask]_callVars => CallInv'
<1>1. CallInit => CallInv
  BY DEF CallInit, CallInv
<1>2. ASSUME CallInv, [Ask]_callVars PROVE CallInv'
  <2>1. CASE UNCHANGED callVars
    BY <1>2, <2>1 DEF callVars, CallInv
  <2>2. CASE Ask
    <3>1. vault \in CallVaults
      BY <1>2, <2>2, DecisionIsAnAnswer DEF Ask, CallInv
    <3>2. PICK rules \in CallRules, req \in CallRequests :
            vault' = [vault EXCEPT !.rules = rules] /\ request' = req /\ answer' = Decide(vault', req, CallTime)
      BY <2>2 DEF Ask
    <3>3. vault \in [posture : Postures, personas : [Personas -> Persona], rules : SUBSET Rule]
      BY <3>1, CallAssumption
    <3>4. vault'.personas \in [Personas -> Persona] /\ vault'.rules = rules
      BY <3>2, <3>3
    <3>5. rules \subseteq Rule /\ req \in Request
      BY CallAssumption
    <3> QED
      BY <3>2, <3>4, <3>5 DEF CallInv
  <2> QED
    BY <1>2, <2>1, <2>2
<1> QED
  BY <1>1, <1>2

\* The invariant the next three theorems read off.
THEOREM CallsAreDecided == CallSpec => []CallInv
  BY CallStep, PTL DEF CallSpec

\* Labels of matched facts are those of the facts themselves.
LEMMA MatchedLabel ==
  ASSUME NEW p, vault.personas[p] \in Persona, NEW fields \in SUBSET Field,
         NEW f \in matchFacts(vault.personas[p], fields)
  PROVE  f \in Fact /\ Labels(p, f) = {f.sensitivity}
<1> DEFINE facts == vault.personas[p].facts
<1>1. PICK i \in DOMAIN facts :
        /\ f = Canonical(facts[i])
        /\ SameAfterNormalisation(f, facts[i])
        /\ \A j \in DOMAIN facts : SameAfterNormalisation(f, facts[j]) => i <= j
  BY MatchedFact
<1>2. facts[i] \in Fact
  BY DEF Persona
<1>3. Labels(p, f) = {facts[i].sensitivity}
  BY <1>1, KeptLabel
<1> QED
  BY <1>1, <1>2, <1>3, CanonicalFact

\* A matched fact has its key in normal form.
LEMMA MatchedKey ==
  ASSUME NEW persona \in Persona, NEW fields \in SUBSET Field, NEW f \in matchFacts(persona, fields)
  PROVE  f.key \in Keys /\ normalizeFactKey(f.key) = f.key
<1>1. PICK i \in DOMAIN persona.facts : f = Canonical(persona.facts[i])
  BY MatchedFact
<1>2. persona.facts[i] \in Fact
  BY DEF Persona
<1>3. persona.facts[i].key \in Keys
  BY <1>2 DEF Fact
<1> QED
  BY <1>1, <1>2, <1>3, CanonicalFact, Normalised, KeyStaysKey

\* What leaves without asking the user is permitted by the posture, by the
\* persona's own setting and, unless only low facts leave, by a live rule for
\* this recipient and purpose that names every fact: for any personas, facts,
\* labels, rules and requests.
THEOREM ReleasesArePermitted == CallSpec => []AutoReleaseIsPermitted
<1>1. ASSUME CallInv, answer.kind = "allow" PROVE AutoReleaseIsPermitted
  <2>1. PICK p \in findMatchingPersona(vault.personas, request.selector) :
          /\ vault.personas[p] \in Persona /\ request \in Request /\ vault.rules \subseteq Rule
          /\ answer.facts = matchFacts(vault.personas[p], request.fields)
          /\ checkAutoAllow(vault.posture, vault.personas[p].settings, vault.rules,
                            request.domain, request.purpose, answer.facts, CallTime)
    BY <1>1, Decided
  <2> DEFINE auto == vault.personas[p].settings.autoRelease
  <2>2. p \in Personas /\ Answers(p)
    BY FoundAnswers
  <2>3. request.fields \in SUBSET Field
    BY <2>1 DEF Request
  <2>4. Released = answer.facts
    BY <1>1 DEF Released
  <2>5. \A f \in Released : f \in Fact /\ Labels(p, f) = {f.sensitivity}
    <3>1. ASSUME NEW f \in matchFacts(vault.personas[p], request.fields)
          PROVE  f \in Fact /\ Labels(p, f) = {f.sensitivity}
      BY <2>1, <2>3, MatchedLabel
    <3> QED
      BY <2>1, <2>4, <3>1
  <2>6. ASSUME AtMost(answer.facts, 1) PROVE AllLow(p)
    <3>1. \A f \in Released : Level(f.sensitivity) <= 1
      BY <2>4, <2>6 DEF AtMost
    <3>2. \A s \in Sensitivities : Level(s) <= 1 => s = "low"
      BY DEF Level, Sensitivities
    <3>3. \A f \in Released : f.sensitivity \in Sensitivities
      BY <2>5 DEF Fact
    <3> QED
      BY <2>5, <3>1, <3>2, <3>3 DEF AllLow
  <2>7. ASSUME NEW rule \in vault.rules,
               RuleApplies(rule, request.domain, request.purpose, answer.facts, CallTime)
        PROVE  CoveringRule(p)
    <3>1. /\ rule.enabled /\ rule.expires >= CallTime
          /\ rule.domain = request.domain /\ rule.purpose = request.purpose
      BY <2>7 DEF RuleApplies, RuleIsLive
    <3>2. rule \in Rule /\ rule.allowedFields \in SUBSET Field
      BY <2>1 DEF Rule
    <3>3. ASSUME NEW f \in Released
          PROVE  /\ \A label \in Labels(p, f) : Level(label) <= Level(rule.maxSensitivity)
                 /\ rule.allowedFields # {} => \E field \in rule.allowedFields : Names(field, f.key)
      <4>1. Level(f.sensitivity) <= Level(rule.maxSensitivity)
        BY <2>4, <2>7 DEF RuleApplies, AtMost
      <4>2. f.key \in Keys /\ normalizeFactKey(f.key) = f.key
        BY <2>1, <2>3, <2>4, MatchedKey
      <4>3. rule.allowedFields # {} =>
              \E field \in rule.allowedFields : fieldMatchesPattern(f.key, field)
        BY <2>4, <2>7 DEF RuleApplies, RuleCovers
      <4>4. rule.allowedFields # {} => \E field \in rule.allowedFields : Names(field, f.key)
        BY <3>2, <4>2, <4>3, MatchedIsNamed
      <4> QED
        BY <2>5, <4>1, <4>4
    <3> QED
      BY <3>1, <3>3 DEF CoveringRule
  <2>8. /\ vault.posture # "safe_room" /\ auto # "always_ask"
        /\ \/ auto = "auto_low" /\ AllLow(p)
           \/ vault.posture = "simple_lock" /\ AllLow(p)
           \/ /\ vault.posture = "alarm_system" => AllLow(p)
              /\ CoveringRule(p)
    BY <2>1, <2>6, <2>7 DEF checkAutoAllow
  <2> QED
    BY <2>2, <2>8 DEF AutoReleaseIsPermitted
<1>2. CallInv => AutoReleaseIsPermitted
  BY <1>1 DEF AutoReleaseIsPermitted
<1> QED
  BY <1>2, CallsAreDecided, PTL

\* What is released, or put in front of the user, comes from the persona that
\* answers and from the fields the agent named, each value once, however the
\* persona spells its keys.
THEOREM AnswersAreAsked == CallSpec => []AnswerIsWhatWasAsked
<1>1. ASSUME CallInv, answer.kind \in {"allow", "ask"} PROVE AnswerIsWhatWasAsked
  <2>1. PICK p \in findMatchingPersona(vault.personas, request.selector) :
          /\ vault.personas[p] \in Persona /\ request \in Request
          /\ answer.facts = matchFacts(vault.personas[p], request.fields)
          /\ answer.facts # {}
    BY <1>1, Decided
  <2> DEFINE facts == vault.personas[p].facts
  <2>2. p \in Personas /\ Answers(p)
    BY FoundAnswers
  <2>3. request.fields \in SUBSET Field
    BY <2>1 DEF Request
  <2>4. ASSUME NEW f \in answer.facts
        PROVE  \E i \in DOMAIN facts :
                 /\ i \in MatchingPositions(vault.personas[p], request.fields)
                 /\ f = Canonical(facts[i]) /\ SameAfterNormalisation(f, facts[i])
                 /\ \A j \in DOMAIN facts : SameAfterNormalisation(f, facts[j]) => i <= j
    BY <2>1, <2>3, MatchedFact
  <2>5. ASSUME NEW f \in answer.facts PROVE \E field \in request.fields : Names(field, f.key)
    <3>1. PICK i \in DOMAIN facts :
            i \in MatchingPositions(vault.personas[p], request.fields) /\ f = Canonical(facts[i])
      BY <2>4
    <3>2. facts[i] \in Fact
      BY <2>1 DEF Persona
    <3>a. facts[i].key \in Keys
      BY <3>2 DEF Fact
    <3>3. PICK field \in request.fields : fieldMatchesPattern(facts[i].key, field)
      BY <3>1 DEF MatchingPositions
    <3> QED
      BY <2>3, <3>1, <3>2, <3>3, <3>a, CanonicalFact, MatchedIsNamed
  <2>6. request.fields # {}
    BY <2>1, <2>5
  <2>7. ASSUME NEW f \in answer.facts, NEW g \in answer.facts, SameAfterNormalisation(f, g)
        PROVE  f = g
    <3>1. PICK i \in DOMAIN facts :
            /\ f = Canonical(facts[i]) /\ SameAfterNormalisation(f, facts[i])
            /\ \A j \in DOMAIN facts : SameAfterNormalisation(f, facts[j]) => i <= j
      BY <2>4
    <3>2. PICK k \in DOMAIN facts :
            /\ g = Canonical(facts[k]) /\ SameAfterNormalisation(g, facts[k])
            /\ \A j \in DOMAIN facts : SameAfterNormalisation(g, facts[j]) => k <= j
      BY <2>4
    <3>3. i <= k /\ k <= i
      BY <2>7, <3>1, <3>2 DEF SameAfterNormalisation
    <3>4. i \in Nat /\ k \in Nat
      BY <2>1 DEF Persona
    <3> QED
      BY <3>1, <3>2, <3>3, <3>4
  <2> QED
    BY <2>2, <2>4, <2>5, <2>6, <2>7 DEF AnswerIsWhatWasAsked
<1>2. CallInv => AnswerIsWhatWasAsked
  BY <1>1 DEF AnswerIsWhatWasAsked
<1> QED
  BY <1>2, CallsAreDecided, PTL

\* Fewer fields match fewer facts: the fact kept for a value is the same one,
\* since both spellings of its key match the same fields.
LEMMA FewerFieldsMatchLess ==
  ASSUME NEW persona \in Persona, NEW fields \in SUBSET Field, NEW fewer \in SUBSET fields
  PROVE  matchFacts(persona, fewer) \subseteq matchFacts(persona, fields)
<1>1. ASSUME NEW f \in matchFacts(persona, fewer) PROVE f \in matchFacts(persona, fields)
  <2>1. PICK i \in DOMAIN persona.facts :
          /\ i \in MatchingPositions(persona, fewer) /\ f = Canonical(persona.facts[i])
          /\ SameAfterNormalisation(f, persona.facts[i])
          /\ \A j \in DOMAIN persona.facts : SameAfterNormalisation(f, persona.facts[j]) => i <= j
    BY MatchedFact
  <2>2. i \in MatchingPositions(persona, fields)
    BY <2>1 DEF MatchingPositions
  <2>3. \A j \in MatchingPositions(persona, fields) :
          SameAfterNormalisation(persona.facts[i], persona.facts[j]) => ~(j < i)
    <3>1. ASSUME NEW j \in DOMAIN persona.facts,
                 SameAfterNormalisation(persona.facts[i], persona.facts[j])
          PROVE  i <= j
      BY <2>1, <3>1 DEF SameAfterNormalisation
    <3>2. \A j \in DOMAIN persona.facts : j \in Nat
      BY DEF Persona
    <3> QED
      BY <3>1, <3>2 DEF MatchingPositions
  <2> QED
    BY <2>1, <2>2, <2>3 DEF matchFacts
<1> QED
  BY <1>1

\* What may be released at once may be released at once in part.
LEMMA PartIsAllowed ==
  ASSUME NEW posture, NEW settings, NEW rules, NEW domain, NEW purpose, NEW facts, NEW time,
         NEW part \in SUBSET facts, part # {},
         checkAutoAllow(posture, settings, rules, domain, purpose, facts, time)
  PROVE  checkAutoAllow(posture, settings, rules, domain, purpose, part, time)
<1>1. \A level : AtMost(facts, level) => AtMost(part, level)
  BY DEF AtMost
<1>2. \A rule \in rules : RuleApplies(rule, domain, purpose, facts, time) =>
                          RuleApplies(rule, domain, purpose, part, time)
  BY <1>1 DEF RuleApplies, RuleCovers
<1> QED
  BY <1>1, <1>2 DEF checkAutoAllow

\* Asking for less never needs more approval, whatever the rules.
THEOREM LessIsNoHarder == CallSpec => []NarrowerRequestIsNoHarder
<1>1. ASSUME CallInv, answer.kind = "allow", NEW fewer \in SUBSET request.fields
      PROVE  Decide(vault, [request EXCEPT !.fields = fewer], CallTime).kind # "ask"
  <2> DEFINE req == [request EXCEPT !.fields = fewer]
             found == findMatchingPersona(vault.personas, request.selector)
  <2>1. PICK p \in found :
          /\ vault.personas[p] \in Persona /\ request \in Request
          /\ answer.facts = matchFacts(vault.personas[p], request.fields)
          /\ checkAutoAllow(vault.posture, vault.personas[p].settings, vault.rules,
                            request.domain, request.purpose, answer.facts, CallTime)
    BY <1>1, Decided
  <2>2. /\ req.selector = request.selector /\ req.domain = request.domain
        /\ req.purpose = request.purpose /\ req.fields = fewer
        /\ request.fields \in SUBSET Field
    BY <2>1 DEF Request
  <2> DEFINE part == matchFacts(vault.personas[p], fewer)
  <2>3. part \subseteq answer.facts
    BY <2>1, <2>2, FewerFieldsMatchLess
  <2>4. found = {p}
    BY OneIsFound
  <2>5. UNION {matchFacts(vault.personas[q], fewer) : q \in found} = part
    BY <2>4
  <2>6. CASE part = {}
    <3>1. Decide(vault, req, CallTime) = NoData
      BY <2>2, <2>5, <2>6 DEF Decide
    <3> QED
      BY <3>1 DEF NoData
  <2>7. CASE part # {}
    <3>1. checkAutoAllow(vault.posture, vault.personas[p].settings, vault.rules,
                         request.domain, request.purpose, part, CallTime)
      BY <2>1, <2>3, <2>7, PartIsAllowed
    <3> HIDE DEF part, req
    <3>2. Decide(vault, req, CallTime).kind = "allow"
      BY <2>2, <2>5, <2>7, <3>1 DEF Decide
    <3> QED
      BY <3>2 DEF req
  <2> QED
    BY <2>6, <2>7
<1>2. CallInv => NarrowerRequestIsNoHarder
  BY <1>1 DEF NarrowerRequestIsNoHarder
<1> QED
  BY <1>2, CallsAreDecided, PTL

-----------------------------------------------------------------------------
(* Pieces of a vault that the actions build *)

\* Every access to a part of a vault is typed.
LEMMA VaultParts ==
  ASSUME NEW v \in Vault
  PROVE  /\ v.posture \in Postures /\ v.personas \in [Personas -> Persona]
         /\ v.rules \subseteq Rule /\ v.queue \subseteq Entry /\ v.audit \subseteq Event
  BY DEF Vault

\* A vault with a typed part in place of its own is a vault.
LEMMA VaultWithQueue ==
  ASSUME NEW v \in Vault, NEW q \in SUBSET Entry PROVE [v EXCEPT !.queue = q] \in Vault
  BY DEF Vault
\* The same of new rules.
LEMMA VaultWithRules ==
  ASSUME NEW v \in Vault, NEW r \in SUBSET Rule PROVE [v EXCEPT !.rules = r] \in Vault
  BY DEF Vault
\* The same of a new audit log.
LEMMA VaultWithAudit ==
  ASSUME NEW v \in Vault, NEW a \in SUBSET Event PROVE [v EXCEPT !.audit = a] \in Vault
  BY DEF Vault
\* The same of a queue and an audit log.
LEMMA VaultWithQueueAudit ==
  ASSUME NEW v \in Vault, NEW q \in SUBSET Entry, NEW a \in SUBSET Event
  PROVE  [v EXCEPT !.queue = q, !.audit = a] \in Vault
  BY DEF Vault
\* The same of rules and an audit log.
LEMMA VaultWithRulesAudit ==
  ASSUME NEW v \in Vault, NEW r \in SUBSET Rule, NEW a \in SUBSET Event
  PROVE  [v EXCEPT !.rules = r, !.audit = a] \in Vault
  BY DEF Vault
\* The same of all three.
LEMMA VaultWithQueueRulesAudit ==
  ASSUME NEW v \in Vault, NEW q \in SUBSET Entry, NEW r \in SUBSET Rule,
         NEW a \in SUBSET Event
  PROVE  [v EXCEPT !.queue = q, !.rules = r, !.audit = a] \in Vault
  BY DEF Vault

\* Dropping the pending requests that have expired leaves a vault.
LEMMA LivePendingIsVault ==
  ASSUME NEW v \in Vault
  PROVE  /\ LivePending(v) \in Vault
         /\ LivePending(v).queue \subseteq v.queue
         /\ LivePending(v).queue \subseteq Entry
         /\ \A e \in LivePending(v).queue : e.status = "pending" => e.expires > now
         /\ LivePending(v).audit = v.audit /\ LivePending(v).rules = v.rules
<1> DEFINE q == {e \in v.queue : e.status = "pending" => e.expires > now}
<1>1. q \subseteq Entry
  BY VaultParts
<1>2. LivePending(v) = [v EXCEPT !.queue = q]
  BY DEF LivePending
<1>3. [v EXCEPT !.queue = q] \in Vault
  BY <1>1, VaultWithQueue
<1> QED
  BY <1>1, <1>2, <1>3 DEF Vault

\* Resolving a request leaves a queue.
LEMMA ResolveTyped ==
  ASSUME NEW q \in SUBSET Entry, NEW id, NEW status \in {"approved", "denied"}
  PROVE  Resolve(q, id, status) \subseteq Entry
  BY DEF Resolve, Entry

\* An audit event is one.
LEMMA EventTyped ==
  ASSUME NEW id \in Ids, NEW d \in {"allow", "rule_created", "ask_approved", "ask_denied"},
         NEW dom \in Domains, NEW p \in RulePurposes, NEW keys \in SUBSET Keys
  PROVE  AuditEvent(id, d, dom, p, keys) \in Event
  BY DEF AuditEvent, Event

\* A rule made now for any life is a rule.
LEMMA NewRuleTyped ==
  ASSUME now \in Nat, NEW id \in Ids, NEW dom \in Domains, NEW p \in RulePurposes,
         NEW s \in Sensitivities, NEW fields \in SUBSET Field
  PROVE  NewRule(id, dom, p, s, fields) \in Rule
<1>1. now + RuleTTL \in Nat /\ id \in Nat
  BY ApprovalAssumption DEF Ids
<1> QED
  BY <1>1 DEF NewRule, Rule

\* Field patterns name fact keys.
LEMMA FieldPathsAreKeys ==
  ASSUME NEW fields \in SUBSET Field PROVE {f.path : f \in fields} \subseteq Keys
  BY DEF Field

\* Exact field patterns of keys, as the dashboard writes them into a rule.
LEMMA FieldsOfKeys ==
  ASSUME NEW ks \in SUBSET Keys
  PROVE  {[path |-> k, wild |-> FALSE] : k \in ks} \subseteq Field
<1>1. FALSE \in BOOLEAN
  OBVIOUS
<1>2. ASSUME NEW k \in ks PROVE [path |-> k, wild |-> FALSE] \in Field
  BY <1>1 DEF Field
<1> QED
  BY <1>2

\* The parts of an entry and of its request.
LEMMA EntryParts ==
  ASSUME NEW e \in Entry
  PROVE  /\ e.id \in Ids /\ e.expires \in Nat /\ e.facts \subseteq Fact
         /\ e.persona \subseteq Personas /\ e.req \in Request
         /\ e.req.domain \in Domains /\ e.req.purpose \in RulePurposes
         /\ KeysOf(e.facts) \subseteq Keys
  BY KeysOfFacts DEF Entry, Request, RulePurposes

-----------------------------------------------------------------------------
(* Type correctness *)

\* The steps of the plugin keep every variable in its type.
LEMMA PluginKeepsTypes == TypeOK /\ PluginNext => TypeOK'
<1> SUFFICES ASSUME TypeOK, PluginNext PROVE TypeOK'
  OBVIOUS
<1> USE DEF TypeOK
<1> DEFINE v == LivePending(file)
<1>0. /\ v \in Vault /\ v.queue \subseteq Entry /\ v.audit \subseteq Event
      /\ file.rules \subseteq Rule /\ file.audit \subseteq Event
      /\ "plugin" \in Writers /\ nextId + 1 \in Nat \ {0}
  BY LivePendingIsVault, VaultParts DEF Writers
<1>1. ASSUME NEW req \in Requests, RequestAutoAllowed(req) PROVE TypeOK'
  <2> DEFINE d == Decide(v, req, now)
             ev == AuditEvent(nextId, "allow", req.domain, req.purpose, KeysOf(d.facts))
             out == [id |-> nextId, facts |-> d.facts, via |-> "auto", at |-> now]
  <2>0. d.facts \subseteq Fact
    BY <1>0, DecisionIsTyped
  <2>a. req \in Request /\ nextId \in Ids
    BY <1>1, ApprovalAssumption DEF Ids, RequestAutoAllowed
  <2>1. /\ req.domain \in Domains /\ req.purpose \in RulePurposes /\ nextId \in Ids
        /\ d.facts \subseteq Fact /\ KeysOf(d.facts) \subseteq Keys
    BY <2>0, <2>a, KeysOfFacts DEF Request, RulePurposes
  <2>2. ev \in Event
    BY <2>1, EventTyped
  <2>3. [v EXCEPT !.audit = @ \cup {ev}] \in Vault
    BY <1>0, <2>2, VaultWithAudit
  <2>4. out \in Release
    BY <2>1 DEF Release
  <2>5. work' = [v EXCEPT !.audit = @ \cup {ev}] /\ reply' = out
    BY <1>1 DEF RequestAutoAllowed, Compute
  <2> QED
    BY <1>0, <1>1, <2>3, <2>4, <2>5 DEF RequestAutoAllowed, Compute, tabVars
<1>2. ASSUME NEW req \in Requests, RequestAsks(req) PROVE TypeOK'
  <2> DEFINE d == Decide(v, req, now)
             e == [id |-> nextId, status |-> "pending", expires |-> now + ApprovalTTL,
                   req |-> req, persona |-> d.persona, facts |-> d.facts]
  <2>1. req \in Request /\ nextId \in Ids /\ now + ApprovalTTL \in Nat
    BY <1>2, ApprovalAssumption DEF Ids, RequestAsks
  <2>2. d.facts \subseteq Fact /\ d.persona \subseteq Personas
    BY <1>0, DecisionIsTyped
  <2>3. e \in Entry
    BY <2>1, <2>2 DEF Entry
  <2>4. [v EXCEPT !.queue = @ \cup {e}] \in Vault
    BY <1>0, <2>3, VaultWithQueue
  <2>5. work' = [v EXCEPT !.queue = @ \cup {e}] /\ reply' = NoReply /\ asked' = asked \cup {e}
    BY <1>2 DEF RequestAsks, Compute
  <2> QED
    BY <1>0, <1>2, <2>3, <2>4, <2>5 DEF RequestAsks, Compute, tabVars
<1>3. ASSUME NEW e \in file.queue, AgentApproves(e) PROVE TypeOK'
  <2> DEFINE ev == AuditEvent(e.id, "ask_approved", e.req.domain, e.req.purpose, KeysOf(e.facts))
             out == [id |-> e.id, facts |-> e.facts, via |-> "approved", at |-> now]
             nv == [v EXCEPT !.queue = Resolve(@, e.id, "approved"), !.audit = @ \cup {ev}]
  <2>1. e \in Entry
    BY VaultParts
  <2>2. ev \in Event /\ out \in Release
    BY <2>1, EntryParts, EventTyped DEF Release
  <2>3. Resolve(v.queue, e.id, "approved") \subseteq Entry
    BY <1>0, ResolveTyped
  <2>4. nv \in Vault
    BY <1>0, <2>2, <2>3, VaultWithQueueAudit
  <2>5. work' = nv /\ reply' = out
    BY <1>3 DEF AgentApproves, Compute
  <2> QED
    BY <1>0, <1>3, <2>2, <2>4, <2>5 DEF AgentApproves, Compute, tabVars
<1>4. ASSUME NEW e \in file.queue, AgentDenies(e) PROVE TypeOK'
  <2> DEFINE ev == AuditEvent(e.id, "ask_denied", e.req.domain, e.req.purpose, {})
             nv == [v EXCEPT !.queue = Resolve(@, e.id, "denied"), !.audit = @ \cup {ev}]
  <2>1. e \in Entry
    BY VaultParts
  <2>2. ev \in Event
    BY <2>1, EntryParts, EventTyped
  <2>3. Resolve(v.queue, e.id, "denied") \subseteq Entry
    BY <1>0, ResolveTyped
  <2>4. nv \in Vault
    BY <1>0, <2>2, <2>3, VaultWithQueueAudit
  <2>5. work' = nv /\ reply' = NoReply
    BY <1>4 DEF AgentDenies, Compute
  <2> QED
    BY <1>0, <1>4, <2>4, <2>5 DEF AgentDenies, Compute, tabVars
<1>5. ASSUME NEW o \in RuleOffers, AgentCreatesRule(o) PROVE TypeOK'
  <2> DEFINE r == NewRule(nextId, o.domain, o.purpose, o.maxSensitivity, o.allowedFields)
             ev == AuditEvent(nextId, "rule_created", o.domain, o.purpose,
                              {f.path : f \in o.allowedFields})
             nv == [file EXCEPT !.rules = @ \cup {r}, !.audit = @ \cup {ev}]
  <2>1. /\ nextId \in Ids /\ o.domain \in Domains /\ o.purpose \in RulePurposes
        /\ o.maxSensitivity \in Sensitivities /\ o.allowedFields \subseteq Field
    BY <1>5, ApprovalAssumption DEF Ids, AgentCreatesRule, RulePurposes
  <2>2. r \in Rule
    BY <2>1, NewRuleTyped
  <2>3. ev \in Event
    BY <2>1, FieldPathsAreKeys, EventTyped
  <2>4. nv \in Vault
    BY <1>0, <2>2, <2>3, VaultWithRulesAudit
  <2>5. work' = nv /\ reply' = NoReply
    BY <1>5 DEF AgentCreatesRule, Compute
  <2> QED
    BY <1>0, <1>5, <2>4, <2>5 DEF AgentCreatesRule, Compute, tabVars
<1>6. CASE PluginSaves
  BY <1>6 DEF PluginSaves, tabVars
<1>7. CASE PluginReplies
  <2>1. reply \in Release
    BY <1>7 DEF PluginReplies
  <2> QED
    BY <1>7, <2>1 DEF PluginReplies, tabVars
<1>8. CASE PluginCrashes
  BY <1>8 DEF PluginCrashes, tabVars
<1> QED
  BY <1>1, <1>2, <1>3, <1>4, <1>5, <1>6, <1>7, <1>8 DEF PluginNext

\* What a tab saves is a vault when the edit is one.
LEMMA TabSavesTyped ==
  ASSUME TypeOK, NEW t \in Tabs, NEW v \in Vault, TabSaves(t, v)
  PROVE  /\ web' \in [Tabs -> Vault \cup {NoVault}]
         /\ outbox' \in [Tabs -> Seq(Vault)]
         /\ edits' \in Nat
         /\ UNCHANGED <<file, pluginVars, now, asked, released, fresh>>
<1>1. Append(outbox[t], v) \in Seq(Vault)
  BY DEF TypeOK
<1> QED
  BY <1>1 DEF TypeOK, TabSaves

\* Every handler of a page saves a vault.
LEMMA TabEditsKeepTypes ==
  ASSUME TypeOK, NEW t \in Tabs, TabEdits(t) PROVE TypeOK'
<1> DEFINE v == web[t]
<1>0. v \in Vault /\ v.queue \subseteq Entry /\ v.audit \subseteq Event /\ v.rules \subseteq Rule
  <2>1. v \in Vault
    BY DEF TypeOK, TabEdits
  <2> QED
    BY <2>1, VaultParts
<1>1. ASSUME NEW nv \in Vault, TabSaves(t, nv), nextId' \in Nat \ {0}, intact' \in BOOLEAN
      PROVE  TypeOK'
  BY <1>1, TabSavesTyped DEF TypeOK, pluginVars
<1>2. ASSUME NEW e \in v.queue, NEW shown \in SUBSET KeysOf(e.facts), NEW remember \in BOOLEAN,
             ApprovesOnDetailPage(t, e, shown, remember)
      PROVE  TypeOK'
  <2> DEFINE rules == IF remember THEN Remembered(e, shown) ELSE {}
             ev == AuditEvent(e.id, "ask_approved", e.req.domain, e.req.purpose, shown)
             nv == [v EXCEPT !.queue = Resolve(@, e.id, "approved"), !.rules = @ \cup rules,
                             !.audit = @ \cup RememberedEvents(e, rules) \cup {ev}]
  <2>1. e \in Entry /\ shown \subseteq Keys
    BY <1>0, EntryParts
  <2>2. rules \subseteq Rule
    <3>1. CASE remember
      <4>1. nextId \in Ids /\ now \in Nat
        BY <1>2, <3>1, ApprovalAssumption DEF ApprovesOnDetailPage, TypeOK, Ids
      <4>2. {[path |-> k, wild |-> FALSE] : k \in shown} \subseteq Field
        BY <2>1, FieldsOfKeys
      <4>3. \A p \in e.persona :
              [category |-> p, action |-> JoinedAction] \in RulePurposes
        BY <2>1, EntryParts DEF RulePurposes
      <4>4. "medium" \in Sensitivities
        BY DEF Sensitivities
      <4>5. \A p \in e.persona :
              NewRule(nextId, e.req.domain, [category |-> p, action |-> JoinedAction], "medium",
                      {[path |-> k, wild |-> FALSE] : k \in shown}) \in Rule
        BY <2>1, <4>1, <4>2, <4>3, <4>4, EntryParts, NewRuleTyped
      <4> QED
        BY <3>1, <4>5 DEF Remembered
    <3>2. CASE ~remember
      BY <3>2
    <3> QED
      BY <3>1, <3>2
  <2>3. RememberedEvents(e, rules) \subseteq Event
    <3>1. ASSUME NEW r \in rules
          PROVE  AuditEvent(e.id, "rule_created", r.domain, r.purpose,
                            {f.path : f \in r.allowedFields}) \in Event
      <4>1. r.domain \in Domains /\ r.purpose \in RulePurposes /\ r.allowedFields \subseteq Field
        BY <2>2, <3>1 DEF Rule
      <4>2. {f.path : f \in r.allowedFields} \subseteq Keys
        BY <4>1, FieldPathsAreKeys
      <4> QED
        BY <2>1, <4>1, <4>2, EntryParts, EventTyped
    <3> QED
      BY <3>1 DEF RememberedEvents
  <2>4. ev \in Event
    BY <2>1, EntryParts, EventTyped
  <2>5. Resolve(v.queue, e.id, "approved") \subseteq Entry
    BY <1>0, ResolveTyped
  <2>6. v.rules \cup rules \subseteq Rule /\ v.audit \cup RememberedEvents(e, rules) \cup {ev} \subseteq Event
    BY <1>0, <2>2, <2>3, <2>4
  <2>7. nv \in Vault
    BY <1>0, <2>5, <2>6, VaultWithQueueRulesAudit
  <2>8. nextId' \in Nat \ {0} /\ intact' \in BOOLEAN /\ TabSaves(t, nv)
    BY <1>2 DEF ApprovesOnDetailPage, TypeOK
  <2> QED
    BY <1>1, <2>7, <2>8
<1>3. ASSUME NEW e \in v.queue, DeniesOnDetailPage(t, e) PROVE TypeOK'
  <2> DEFINE ev == AuditEvent(e.id, "ask_denied", e.req.domain, e.req.purpose, {})
             nv == [v EXCEPT !.audit = @ \cup {ev}]
  <2>1. ev \in Event
    BY <1>0, EntryParts, EventTyped
  <2>2. nv \in Vault
    BY <1>0, <2>1, VaultWithAudit
  <2>3. nextId' \in Nat \ {0} /\ intact' \in BOOLEAN /\ TabSaves(t, nv)
    BY <1>3 DEF DeniesOnDetailPage, TypeOK
  <2> QED
    BY <1>1, <2>2, <2>3
<1>4. ASSUME NEW a \in v.audit, CreatesRuleFromApproval(t, a) PROVE TypeOK'
  <2> DEFINE allowed == {[path |-> k, wild |-> FALSE] : k \in a.keys}
             r == NewRule(nextId, a.domain, a.purpose, "medium", allowed)
             ev == AuditEvent(nextId, "rule_created", a.domain, a.purpose, a.keys)
             nv == [v EXCEPT !.rules = @ \cup {r}, !.audit = @ \cup {ev}]
  <2>1. a.domain \in Domains /\ a.purpose \in RulePurposes /\ a.keys \subseteq Keys
    BY <1>0 DEF Event
  <2>a. nextId \in Ids /\ now \in Nat
    BY <1>4, ApprovalAssumption DEF CreatesRuleFromApproval, TypeOK, Ids
  <2>b. allowed \subseteq Field
    BY <2>1, FieldsOfKeys
  <2>2. nextId \in Ids /\ now \in Nat /\ "medium" \in Sensitivities /\ allowed \subseteq Field
    BY <2>a, <2>b DEF Sensitivities
  <2>3. r \in Rule
    BY <2>1, <2>2, NewRuleTyped
  <2>4. ev \in Event
    BY <2>1, <2>2, EventTyped
  <2>5. nv \in Vault
    BY <1>0, <2>3, <2>4, VaultWithRulesAudit
  <2>6. nextId' \in Nat \ {0} /\ intact' \in BOOLEAN /\ TabSaves(t, nv)
    BY <1>4 DEF CreatesRuleFromApproval, TypeOK
  <2> QED
    BY <1>1, <2>5, <2>6
<1>5. ASSUME NEW o \in RuleOffers, CreatesRule(t, o) PROVE TypeOK'
  <2> DEFINE r == NewRule(nextId, o.domain, o.purpose, o.maxSensitivity, o.allowedFields)
             ev == AuditEvent(nextId, "rule_created", o.domain, o.purpose,
                              {f.path : f \in o.allowedFields})
             nv == [v EXCEPT !.rules = @ \cup {r}, !.audit = @ \cup {ev}]
  <2>1. /\ nextId \in Ids /\ now \in Nat /\ o.domain \in Domains
        /\ o.purpose \in RulePurposes /\ o.maxSensitivity \in Sensitivities
        /\ o.allowedFields \subseteq Field
    BY <1>5, ApprovalAssumption DEF Ids, CreatesRule, RulePurposes, TypeOK
  <2>2. r \in Rule
    BY <2>1, NewRuleTyped
  <2>3. ev \in Event
    BY <2>1, FieldPathsAreKeys, EventTyped
  <2>4. nv \in Vault
    BY <1>0, <2>2, <2>3, VaultWithRulesAudit
  <2>5. nextId' \in Nat \ {0} /\ intact' \in BOOLEAN /\ TabSaves(t, nv)
    BY <1>5 DEF CreatesRule, TypeOK
  <2> QED
    BY <1>1, <2>4, <2>5
<1>6. ASSUME NEW r \in v.rules, TogglesRule(t, r) PROVE TypeOK'
  <2> DEFINE nv == [v EXCEPT !.rules = (@ \ {r}) \cup {[r EXCEPT !.enabled = ~@]}]
  <2>1. [r EXCEPT !.enabled = ~@] \in Rule
    BY <1>0 DEF Rule
  <2>2. nv \in Vault
    BY <1>0, <2>1, VaultWithRules
  <2>3. nextId' \in Nat \ {0} /\ intact' \in BOOLEAN /\ TabSaves(t, nv)
    BY <1>6 DEF TogglesRule, TypeOK
  <2> QED
    BY <1>1, <2>2, <2>3
<1>7. ASSUME NEW gone \in SUBSET v.rules, DeletesRules(t, gone) PROVE TypeOK'
  <2>1. [v EXCEPT !.rules = @ \ gone] \in Vault
    BY <1>0, VaultWithRules
  <2>2. nextId' \in Nat \ {0} /\ intact' \in BOOLEAN /\ TabSaves(t, [v EXCEPT !.rules = @ \ gone])
    BY <1>7 DEF DeletesRules, TypeOK
  <2> QED
    BY <1>1, <2>1, <2>2
<1>8. ASSUME NEW p \in Postures, ChangesPosture(t, p) PROVE TypeOK'
  <2>1. [v EXCEPT !.posture = p] \in Vault
    BY <1>0 DEF Vault
  <2>2. nextId' \in Nat \ {0} /\ intact' \in BOOLEAN /\ TabSaves(t, [v EXCEPT !.posture = p])
    BY <1>8 DEF ChangesPosture, TypeOK
  <2> QED
    BY <1>1, <2>1, <2>2
<1>9. ASSUME NEW p \in Personas, NEW s \in Settings, NEW facts \in FactLists,
             EditsPersona(t, p, s, facts)
      PROVE  TypeOK'
  <2> DEFINE new == [settings |-> s, facts |-> facts]
             nv == [v EXCEPT !.personas[p] = new]
  <2>1. new \in Persona
    BY ApprovalAssumption DEF Persona
  <2>2. nv \in Vault
    BY <1>0, <2>1 DEF Vault
  <2>3. nextId' \in Nat \ {0} /\ intact' \in BOOLEAN /\ TabSaves(t, nv)
    BY <1>9 DEF EditsPersona, TypeOK
  <2> QED
    BY <1>1, <2>2, <2>3
<1>10. ASSUME ClearsAuditLog(t) PROVE TypeOK'
  <2>1. [v EXCEPT !.audit = {}] \in Vault
    BY <1>0, VaultWithAudit
  <2>2. nextId' \in Nat \ {0} /\ intact' \in BOOLEAN /\ TabSaves(t, [v EXCEPT !.audit = {}])
    BY <1>10 DEF ClearsAuditLog, TypeOK
  <2> QED
    BY <1>1, <2>1, <2>2
<1>11. ASSUME NEW r \in v.rules, NEW o \in RuleOffers, NEW extended \in BOOLEAN,
              UpdatesRule(t, r, o, extended)
       PROVE  TypeOK'
  <2> DEFINE new == [r EXCEPT !.maxSensitivity = o.maxSensitivity, !.allowedFields = o.allowedFields,
                             !.expires = IF extended THEN now + RuleTTL ELSE @]
             nv == [v EXCEPT !.rules = (@ \ {r}) \cup {new}]
  <2>1. /\ o.maxSensitivity \in Sensitivities /\ o.allowedFields \subseteq Field
        /\ now + RuleTTL \in Nat
    BY ApprovalAssumption DEF TypeOK
  <2>2. new \in Rule
    BY <1>0, <2>1 DEF Rule
  <2>3. nv \in Vault
    BY <1>0, <2>2, VaultWithRules
  <2>4. nextId' \in Nat \ {0} /\ intact' \in BOOLEAN /\ TabSaves(t, nv)
    BY <1>11 DEF UpdatesRule, TypeOK
  <2> QED
    BY <1>1, <2>3, <2>4
<1>a. NoPersona \in Persona
  BY DEF NoPersona, Persona, Settings, AutoRelease
<1>12. ASSUME NEW p \in Personas, CreatesPersona(t, p) PROVE TypeOK'
  <2> DEFINE nv == [v EXCEPT !.personas[p].settings.visible = TRUE]
  <2>1. nv \in Vault
    BY <1>0 DEF Vault, Persona, Settings
  <2>2. nextId' \in Nat \ {0} /\ intact' \in BOOLEAN /\ TabSaves(t, nv)
    BY <1>12 DEF CreatesPersona, TypeOK
  <2> QED
    BY <1>1, <2>1, <2>2
<1>13. ASSUME NEW p \in Personas, DeletesPersona(t, p) PROVE TypeOK'
  <2>1. [v EXCEPT !.personas[p] = NoPersona] \in Vault
    BY <1>0, <1>a DEF Vault
  <2>2. /\ nextId' \in Nat \ {0} /\ intact' \in BOOLEAN
        /\ TabSaves(t, [v EXCEPT !.personas[p] = NoPersona])
    BY <1>13 DEF DeletesPersona, TypeOK
  <2> QED
    BY <1>1, <2>1, <2>2
<1>14. ASSUME DestroysVault(t) PROVE TypeOK'
  <2>1. BlankVault \in Vault
    BY <1>a DEF BlankVault, Vault, Postures
  <2>2. nextId' \in Nat \ {0} /\ intact' \in BOOLEAN /\ TabSaves(t, BlankVault)
    BY <1>14 DEF DestroysVault, TypeOK
  <2> QED
    BY <1>1, <2>1, <2>2
<1>15. ASSUME NEW nv \in InitialVaults, ImportsVault(t, nv) PROVE TypeOK'
  <2>1. nv \in Vault
    BY ApprovalAssumption
  <2>2. nextId' \in Nat \ {0} /\ intact' \in BOOLEAN /\ TabSaves(t, nv)
    BY <1>15 DEF ImportsVault, TypeOK
  <2> QED
    BY <1>1, <2>1, <2>2
<1> QED
  BY <1>2, <1>3, <1>4, <1>5, <1>6, <1>7, <1>8, <1>9, <1>10, <1>11, <1>12, <1>13, <1>14, <1>15 DEF TabEdits

\* Every step keeps every variable in its type.
LEMMA TypeStep == TypeOK /\ [Next]_vars => TypeOK'
<1> SUFFICES ASSUME TypeOK, [Next]_vars PROVE TypeOK'
  OBVIOUS
<1>1. CASE PluginNext
  BY <1>1, PluginKeepsTypes
<1>2. ASSUME NEW t \in Tabs, TabNext(t) PROVE TypeOK'
  <2>1. CASE TabRefreshes(t)
    BY <2>1 DEF TabRefreshes, TypeOK, pluginVars, Writers
  <2>2. CASE TabEdits(t)
    BY <2>2, TabEditsKeepTypes
  <2>3. CASE PutArrives(t)
    <3>1. Head(outbox[t]) \in Vault /\ Tail(outbox[t]) \in Seq(Vault)
      BY <2>3 DEF PutArrives, TypeOK
    <3> QED
      BY <2>3, <3>1 DEF PutArrives, TypeOK, pluginVars, Writers
  <2>4. CASE PutFails(t)
    <3>1. Tail(outbox[t]) \in Seq(Vault)
      BY <2>4 DEF PutFails, TypeOK
    <3> QED
      BY <2>4, <3>1 DEF PutFails, TypeOK, pluginVars
  <2> QED
    BY <1>2, <2>1, <2>2, <2>3, <2>4 DEF TabNext
<1>3. CASE Tick
  BY <1>3 DEF Tick, TypeOK, pluginVars, tabVars
<1>4. CASE UNCHANGED vars
  BY <1>4 DEF vars, TypeOK, pluginVars, tabVars
<1> QED
  BY <1>1, <1>2, <1>3, <1>4 DEF Next

\* The vaults the setup wizard leaves have the right shape.
LEMMA TypeInit == Init => TypeOK
  BY ApprovalAssumption DEF Init, TypeOK

\* Type correctness: whatever the interleaving of the plugin and the tabs,
\* every copy of the vault has the shape the code assumes when it parses one.
THEOREM Typing == Spec => []TypeOK
<1>1. Init => TypeOK
  BY TypeInit
<1>2. TypeOK /\ [Next]_vars => TypeOK'
  BY TypeStep
<1> QED
  BY <1>1, <1>2, PTL DEF Spec

-----------------------------------------------------------------------------
(* What an approval releases                                               *)
(*                                                                         *)
(* ReleasedAsShown is not inductive: the facts travel from the challenge    *)
(* to the answer through the file, the plugin's unwritten vault, the copies *)
(* of the tabs and their queued writes, any of which may be written over    *)
(* any other.  Faithful follows them: every entry of every copy differs     *)
(* from a challenge in its status only, and the answer that waits for the   *)
(* write is already as shown.                                               *)

Challenge(e) == [e EXCEPT !.status = "pending"]

Genuine(queue, challenges) == \A e \in queue : Challenge(e) \in challenges

AsShown(r, challenges) ==
  r.via = "approved" =>
    \E e \in challenges : e.id = r.id /\ e.facts = r.facts /\ r.at < e.expires

Faithful ==
  /\ Genuine(file.queue, asked)
  /\ work # NoVault => Genuine(work.queue, asked)
  /\ \A t \in Tabs : web[t] # NoVault => Genuine(web[t].queue, asked)
  /\ \A t \in Tabs : \A i \in DOMAIN outbox[t] : Genuine(outbox[t][i].queue, asked)
  /\ AsShown(reply, asked)
  /\ \A i \in DOMAIN released : AsShown(released[i], asked)

\* Challenges are only ever added.
LEMMA GenuineGrows ==
  ASSUME NEW a, NEW b, a \subseteq b, NEW q, Genuine(q, a) PROVE Genuine(q, b)
  BY DEF Genuine
\* A reply that was shown stays shown when challenges are added.
LEMMA AsShownGrows ==
  ASSUME NEW a, NEW b, a \subseteq b, NEW r, AsShown(r, a) PROVE AsShown(r, b)
  BY DEF AsShown

\* A pending entry is its own challenge, and resolving it keeps its challenge.
LEMMA PendingIsChallenge ==
  ASSUME NEW e \in Entry, e.status = "pending" PROVE Challenge(e) = e
  BY DEF Challenge, Entry

\* Resolving a request leaves every entry with its challenge.
LEMMA ResolvedStaysGenuine ==
  ASSUME NEW a, NEW q \in SUBSET Entry, Genuine(q, a), NEW id, NEW status
  PROVE  Genuine(Resolve(q, id, status), a)
<1>1. ASSUME NEW e \in q PROVE Challenge([e EXCEPT !.status = status]) = Challenge(e)
  BY DEF Challenge, Entry
<1> QED
  BY <1>1 DEF Genuine, Resolve

\* Nothing but the plugin's own variables and the challenges moves.
LEMMA PluginComputes ==
  ASSUME TypeOK, Faithful, NEW v, NEW out, Compute(v, out), asked \subseteq asked',
         UNCHANGED <<file, tabVars, released>>,
         Genuine(v.queue, asked'), AsShown(out, asked')
  PROVE  Faithful'
<1>1. UNCHANGED <<file, web, outbox, released>> /\ work' = v /\ reply' = out
  BY DEF tabVars, Compute
<1>2. Genuine(file.queue, asked') /\ AsShown(reply', asked')
  BY <1>1, GenuineGrows DEF Faithful
<1>3. ASSUME NEW t \in Tabs, web[t] # NoVault PROVE Genuine(web[t].queue, asked')
  BY <1>3, GenuineGrows DEF Faithful
<1>4. ASSUME NEW t \in Tabs, NEW i \in DOMAIN outbox[t] PROVE Genuine(outbox[t][i].queue, asked')
  BY <1>4, GenuineGrows DEF Faithful
<1>5. ASSUME NEW i \in DOMAIN released PROVE AsShown(released[i], asked')
  BY <1>5, AsShownGrows DEF Faithful
<1> QED
  BY <1>1, <1>2, <1>3, <1>4, <1>5 DEF Faithful

\* An answer that is not an approval is as shown.
LEMMA OtherAnswers ==
  ASSUME NEW a, NEW r, r.via # "approved" PROVE AsShown(r, a)
  BY DEF AsShown

\* No reply releases nothing.
LEMMA NoReplyIsShown == ASSUME NEW a PROVE AsShown(NoReply, a)
  BY DEF AsShown, NoReply

\* Every step of the plugin keeps the copies faithful.
LEMMA PluginIsFaithful == TypeOK /\ Faithful /\ PluginNext => Faithful'
<1> SUFFICES ASSUME TypeOK, Faithful, PluginNext PROVE Faithful'
  OBVIOUS
<1> DEFINE v == LivePending(file)
<1>0. /\ file \in Vault /\ v \in Vault /\ v.queue \subseteq Entry /\ v.queue \subseteq file.queue
      /\ \A e \in v.queue : e.status = "pending" => e.expires > now
  BY LivePendingIsVault DEF TypeOK
<1>a. Genuine(v.queue, asked)
  BY <1>0 DEF Faithful, Genuine
<1>1. ASSUME NEW req \in Requests, RequestAutoAllowed(req) PROVE Faithful'
  <2> DEFINE d == Decide(v, req, now)
             ev == AuditEvent(nextId, "allow", req.domain, req.purpose, KeysOf(d.facts))
             out == [id |-> nextId, facts |-> d.facts, via |-> "auto", at |-> now]
             nv == [v EXCEPT !.audit = @ \cup {ev}]
  <2>1. nv.queue = v.queue
    BY <1>0 DEF Vault
  <2>2. AsShown(out, asked)
    BY OtherAnswers
  <2>3. Compute(nv, out) /\ UNCHANGED <<file, tabVars, released, asked>>
    BY <1>1 DEF RequestAutoAllowed
  <2> QED
    BY <1>a, <2>1, <2>2, <2>3, PluginComputes
<1>2. ASSUME NEW req \in Requests, RequestAsks(req) PROVE Faithful'
  <2> DEFINE d == Decide(v, req, now)
             e == [id |-> nextId, status |-> "pending", expires |-> now + ApprovalTTL,
                   req |-> req, persona |-> d.persona, facts |-> d.facts]
             nv == [v EXCEPT !.queue = @ \cup {e}]
  <2>1. nv.queue = v.queue \cup {e}
    BY <1>0 DEF Vault
  <2>2. Challenge(e) = e
    BY DEF Challenge
  <2>3. /\ Compute(nv, NoReply) /\ UNCHANGED <<file, tabVars, released>>
        /\ asked' = asked \cup {e}
    BY <1>2 DEF RequestAsks
  <2>4. Genuine(nv.queue, asked')
    BY <1>a, <2>1, <2>2, <2>3 DEF Genuine
  <2>5. asked \subseteq asked'
    BY <2>3
  <2> QED
    BY <2>3, <2>4, <2>5, NoReplyIsShown, PluginComputes
<1>3. ASSUME NEW e \in file.queue, AgentApproves(e) PROVE Faithful'
  <2> DEFINE ev == AuditEvent(e.id, "ask_approved", e.req.domain, e.req.purpose, KeysOf(e.facts))
             out == [id |-> e.id, facts |-> e.facts, via |-> "approved", at |-> now]
             nv == [v EXCEPT !.queue = Resolve(@, e.id, "approved"), !.audit = @ \cup {ev}]
  <2>1. nv.queue = Resolve(v.queue, e.id, "approved")
    BY <1>0 DEF Vault
  <2>2. Genuine(nv.queue, asked)
    BY <1>0, <1>a, <2>1, ResolvedStaysGenuine
  <2>3. e \in v.queue /\ e.status = "pending"
    BY <1>3 DEF AgentApproves
  <2>4. e \in asked
    BY <1>0, <1>a, <2>3, PendingIsChallenge DEF Genuine
  <2>5. now < e.expires
    <3>1. e.expires > now /\ e.expires \in Nat /\ now \in Nat
      BY <1>0, <2>3, EntryParts DEF TypeOK
    <3> QED
      BY <3>1
  <2>6. AsShown(out, asked)
    BY <2>4, <2>5 DEF AsShown
  <2>7. Compute(nv, out) /\ UNCHANGED <<file, tabVars, released, asked>>
    BY <1>3 DEF AgentApproves
  <2> QED
    BY <2>2, <2>6, <2>7, PluginComputes
<1>4. ASSUME NEW e \in file.queue, AgentDenies(e) PROVE Faithful'
  <2> DEFINE ev == AuditEvent(e.id, "ask_denied", e.req.domain, e.req.purpose, {})
             nv == [v EXCEPT !.queue = Resolve(@, e.id, "denied"), !.audit = @ \cup {ev}]
  <2>1. nv.queue = Resolve(v.queue, e.id, "denied")
    BY <1>0 DEF Vault
  <2>2. Genuine(nv.queue, asked)
    BY <1>0, <1>a, <2>1, ResolvedStaysGenuine
  <2>3. Compute(nv, NoReply) /\ UNCHANGED <<file, tabVars, released, asked>>
    BY <1>4 DEF AgentDenies
  <2> QED
    BY <2>2, <2>3, NoReplyIsShown, PluginComputes
<1>5. ASSUME NEW o \in RuleOffers, AgentCreatesRule(o) PROVE Faithful'
  <2> DEFINE nv == [file EXCEPT
        !.rules = @ \cup {NewRule(nextId, o.domain, o.purpose, o.maxSensitivity, o.allowedFields)},
        !.audit = @ \cup {AuditEvent(nextId, "rule_created", o.domain, o.purpose,
                                     {f.path : f \in o.allowedFields})}]
  <2>1. nv.queue = file.queue
    BY <1>0 DEF Vault
  <2>2. Genuine(nv.queue, asked)
    BY <2>1 DEF Faithful
  <2>3. Compute(nv, NoReply) /\ UNCHANGED <<file, tabVars, released, asked>>
    BY <1>5 DEF AgentCreatesRule
  <2> QED
    BY <2>2, <2>3, NoReplyIsShown, PluginComputes
<1>6. CASE PluginSaves
  BY <1>6 DEF PluginSaves, Faithful, tabVars
<1>7. CASE PluginReplies
  <2>1. /\ released' = Append(released, reply) /\ reply' = NoReply
        /\ UNCHANGED <<file, work, web, outbox, asked>>
    BY <1>7 DEF PluginReplies, tabVars
  <2>2. released \in Seq(Release) /\ reply \in Release
    BY <1>7 DEF PluginReplies, TypeOK
  <2>3. ASSUME NEW i \in DOMAIN released' PROVE AsShown(released'[i], asked)
    <3>1. released'[i] = reply \/ (i \in DOMAIN released /\ released'[i] = released[i])
      BY <2>1, <2>2
    <3> QED
      BY <3>1 DEF Faithful
  <2> QED
    BY <2>1, <2>3, NoReplyIsShown DEF Faithful
<1>8. CASE PluginCrashes
  BY <1>8, NoReplyIsShown DEF PluginCrashes, Faithful, tabVars
<1> QED
  BY <1>1, <1>2, <1>3, <1>4, <1>5, <1>6, <1>7, <1>8 DEF PluginNext

\* Saving a copy whose queue is genuine.
LEMMA TabSavesGenuine ==
  ASSUME TypeOK, Faithful, NEW t \in Tabs, NEW nv, TabSaves(t, nv), Genuine(nv.queue, asked)
  PROVE  Faithful'
<1>1. /\ web' = [web EXCEPT ![t] = nv] /\ outbox' = [outbox EXCEPT ![t] = Append(@, nv)]
      /\ UNCHANGED <<file, work, reply, released, asked>>
      /\ web \in [Tabs -> Vault \cup {NoVault}] /\ outbox \in [Tabs -> Seq(Vault)]
  BY DEF TabSaves, TypeOK, pluginVars
<1>2. ASSUME NEW u \in Tabs, web'[u] # NoVault PROVE Genuine(web'[u].queue, asked)
  BY <1>1, <1>2 DEF Faithful
<1>3. ASSUME NEW u \in Tabs, NEW i \in DOMAIN outbox'[u]
      PROVE  Genuine(outbox'[u][i].queue, asked)
  <2>1. CASE u = t
    <3>1. outbox'[u] = Append(outbox[t], nv) /\ outbox[t] \in Seq(Vault)
      BY <1>1, <2>1
    <3>2. outbox'[u][i] = nv \/ (i \in DOMAIN outbox[t] /\ outbox'[u][i] = outbox[t][i])
      BY <1>3, <3>1
    <3> QED
      BY <3>2 DEF Faithful
  <2>2. CASE u # t
    BY <1>1, <1>3, <2>2 DEF Faithful
  <2> QED
    BY <2>1, <2>2
<1> QED
  BY <1>1, <1>2, <1>3 DEF Faithful

\* The pages resolve entries or leave the queue alone.
LEMMA TabEditsAreFaithful ==
  ASSUME TypeOK, Faithful, NEW t \in Tabs, TabEdits(t) PROVE Faithful'
<1> DEFINE v == web[t]
<1>0. v \in Vault /\ v.queue \subseteq Entry /\ Genuine(v.queue, asked)
  <2>1. v # NoVault /\ v \in Vault
    BY DEF TypeOK, TabEdits
  <2> QED
    BY <2>1, VaultParts DEF Faithful
<1>a. ASSUME NEW nv, TabSaves(t, nv), nv.queue = v.queue PROVE Faithful'
  BY <1>0, <1>a, TabSavesGenuine
<1>1. ASSUME NEW e \in v.queue, NEW shown \in SUBSET KeysOf(e.facts), NEW remember \in BOOLEAN,
             ApprovesOnDetailPage(t, e, shown, remember)
      PROVE  Faithful'
  <2> DEFINE rules == IF remember THEN Remembered(e, shown) ELSE {}
             nv == [v EXCEPT !.queue = Resolve(@, e.id, "approved"), !.rules = @ \cup rules,
                      !.audit = @ \cup RememberedEvents(e, rules) \cup
                        {AuditEvent(e.id, "ask_approved", e.req.domain, e.req.purpose, shown)}]
  <2>1. nv.queue = Resolve(v.queue, e.id, "approved")
    BY <1>0 DEF Vault
  <2>2. Genuine(nv.queue, asked)
    BY <1>0, <2>1, ResolvedStaysGenuine
  <2>3. TabSaves(t, nv)
    BY <1>1 DEF ApprovesOnDetailPage
  <2> QED
    BY <2>2, <2>3, TabSavesGenuine
<1>2. ASSUME NEW e \in v.queue, DeniesOnDetailPage(t, e) PROVE Faithful'
  <2> DEFINE nv == [v EXCEPT !.audit = @ \cup
                {AuditEvent(e.id, "ask_denied", e.req.domain, e.req.purpose, {})}]
  <2>1. nv.queue = v.queue
    BY <1>0 DEF Vault
  <2> QED
    BY <1>2, <1>a, <2>1 DEF DeniesOnDetailPage
<1>3. ASSUME NEW a \in v.audit, CreatesRuleFromApproval(t, a) PROVE Faithful'
  <2> DEFINE allowed == {[path |-> k, wild |-> FALSE] : k \in a.keys}
             nv == [v EXCEPT !.rules = @ \cup {NewRule(nextId, a.domain, a.purpose, "medium", allowed)},
                      !.audit = @ \cup {AuditEvent(nextId, "rule_created", a.domain, a.purpose, a.keys)}]
  <2>1. nv.queue = v.queue
    BY <1>0 DEF Vault
  <2> QED
    BY <1>3, <1>a, <2>1 DEF CreatesRuleFromApproval
<1>4. ASSUME NEW o \in RuleOffers, CreatesRule(t, o) PROVE Faithful'
  <2> DEFINE nv == [v EXCEPT
        !.rules = @ \cup {NewRule(nextId, o.domain, o.purpose, o.maxSensitivity, o.allowedFields)},
        !.audit = @ \cup {AuditEvent(nextId, "rule_created", o.domain, o.purpose,
                                     {f.path : f \in o.allowedFields})}]
  <2>1. nv.queue = v.queue
    BY <1>0 DEF Vault
  <2> QED
    BY <1>4, <1>a, <2>1 DEF CreatesRule
<1>5. ASSUME NEW r \in v.rules, TogglesRule(t, r) PROVE Faithful'
  <2> DEFINE nv == [v EXCEPT !.rules = (@ \ {r}) \cup {[r EXCEPT !.enabled = ~@]}]
  <2>1. nv.queue = v.queue
    BY <1>0 DEF Vault
  <2> QED
    BY <1>5, <1>a, <2>1 DEF TogglesRule
<1>6. ASSUME NEW gone \in SUBSET v.rules, DeletesRules(t, gone) PROVE Faithful'
  <2>1. [v EXCEPT !.rules = @ \ gone].queue = v.queue
    BY <1>0 DEF Vault
  <2> QED
    BY <1>6, <1>a, <2>1 DEF DeletesRules
<1>7. ASSUME NEW p \in Postures, ChangesPosture(t, p) PROVE Faithful'
  <2>1. [v EXCEPT !.posture = p].queue = v.queue
    BY <1>0 DEF Vault
  <2> QED
    BY <1>7, <1>a, <2>1 DEF ChangesPosture
<1>8. ASSUME NEW p \in Personas, NEW s \in Settings, NEW facts \in FactLists,
             EditsPersona(t, p, s, facts)
      PROVE  Faithful'
  <2> DEFINE new == [settings |-> s, facts |-> facts]
             nv == [v EXCEPT !.personas[p] = new]
  <2>1. nv.queue = v.queue
    BY <1>0 DEF Vault
  <2>2. TabSaves(t, nv)
    BY <1>8 DEF EditsPersona
  <2> QED
    BY <1>a, <2>1, <2>2
<1>9. ASSUME ClearsAuditLog(t) PROVE Faithful'
  <2>1. [v EXCEPT !.audit = {}].queue = v.queue
    BY <1>0 DEF Vault
  <2> QED
    BY <1>9, <1>a, <2>1 DEF ClearsAuditLog
<1>10. ASSUME NEW r \in v.rules, NEW o \in RuleOffers, NEW extended \in BOOLEAN,
              UpdatesRule(t, r, o, extended)
       PROVE  Faithful'
  <2> DEFINE new == [r EXCEPT !.maxSensitivity = o.maxSensitivity, !.allowedFields = o.allowedFields,
                             !.expires = IF extended THEN now + RuleTTL ELSE @]
             nv == [v EXCEPT !.rules = (@ \ {r}) \cup {new}]
  <2>1. nv.queue = v.queue
    BY <1>0 DEF Vault
  <2> QED
    BY <1>10, <1>a, <2>1 DEF UpdatesRule
<1>11. ASSUME NEW p \in Personas, CreatesPersona(t, p) PROVE Faithful'
  <2>1. [v EXCEPT !.personas[p].settings.visible = TRUE].queue = v.queue
    BY <1>0 DEF Vault
  <2> QED
    BY <1>11, <1>a, <2>1 DEF CreatesPersona
<1>12. ASSUME NEW p \in Personas, DeletesPersona(t, p) PROVE Faithful'
  <2>1. [v EXCEPT !.personas[p] = NoPersona].queue = v.queue
    BY <1>0 DEF Vault
  <2> QED
    BY <1>12, <1>a, <2>1 DEF DeletesPersona
<1>13. ASSUME DestroysVault(t) PROVE Faithful'
  <2>1. Genuine(BlankVault.queue, asked)
    BY DEF BlankVault, Genuine
  <2> QED
    BY <1>13, <2>1, TabSavesGenuine DEF DestroysVault
<1>14. ASSUME NEW nv \in InitialVaults, ImportsVault(t, nv) PROVE Faithful'
  <2>1. nv \in Vault /\ Genuine(nv.queue, asked)
    BY ApprovalAssumption DEF Genuine
  <2> QED
    BY <1>14, <2>1, TabSavesGenuine DEF ImportsVault
<1> QED
  BY <1>1, <1>2, <1>3, <1>4, <1>5, <1>6, <1>7, <1>8, <1>9, <1>10, <1>11, <1>12, <1>13, <1>14 DEF TabEdits

\* Removing the oldest queued vault leaves the others in their order.
LEMMA TailIsSuffix ==
  ASSUME NEW S, NEW s \in Seq(S), s # <<>>
  PROVE  \A i \in DOMAIN Tail(s) : i + 1 \in DOMAIN s /\ Tail(s)[i] = s[i + 1]
  OBVIOUS

\* Taking the oldest write off a queue keeps the rest faithful.
LEMMA DequeueIsFaithful ==
  ASSUME TypeOK, Faithful, NEW t \in Tabs, outbox[t] # <<>>,
         outbox' = [outbox EXCEPT ![t] = Tail(@)], UNCHANGED asked
  PROVE  /\ Genuine(Head(outbox[t]).queue, asked)
         /\ \A u \in Tabs : \A i \in DOMAIN outbox'[u] : Genuine(outbox'[u][i].queue, asked)
<1>1. outbox \in [Tabs -> Seq(Vault)] /\ outbox[t] \in Seq(Vault)
  BY DEF TypeOK
<1>2. Head(outbox[t]) = outbox[t][1] /\ 1 \in DOMAIN outbox[t]
  BY <1>1
<1>3. ASSUME NEW u \in Tabs, NEW i \in DOMAIN outbox'[u]
      PROVE  Genuine(outbox'[u][i].queue, asked)
  <2>1. CASE u = t
    <3>1. outbox'[u] = Tail(outbox[t])
      BY <1>1, <2>1
    <3>2. i + 1 \in DOMAIN outbox[t] /\ outbox'[u][i] = outbox[t][i + 1]
      BY <1>1, <1>3, <3>1, TailIsSuffix
    <3> QED
      BY <3>2 DEF Faithful
  <2>2. CASE u # t
    BY <1>1, <1>3, <2>2 DEF Faithful
  <2> QED
    BY <2>1, <2>2
<1> QED
  BY <1>2, <1>3 DEF Faithful

\* Every step keeps every copy faithful.
LEMMA FaithfulStep == TypeOK /\ Faithful /\ [Next]_vars => Faithful'
<1> SUFFICES ASSUME TypeOK, Faithful, [Next]_vars PROVE Faithful'
  OBVIOUS
<1>1. CASE PluginNext
  BY <1>1, PluginIsFaithful
<1>2. ASSUME NEW t \in Tabs, TabNext(t) PROVE Faithful'
  <2>1. CASE TabRefreshes(t)
    BY <2>1 DEF TabRefreshes, TypeOK, Faithful, pluginVars
  <2>2. CASE TabEdits(t)
    BY <2>2, TabEditsAreFaithful
  <2>3. CASE PutArrives(t)
    BY <2>3, DequeueIsFaithful DEF PutArrives, Faithful, pluginVars
  <2>4. CASE PutFails(t)
    BY <2>4, DequeueIsFaithful DEF PutFails, Faithful, pluginVars
  <2> QED
    BY <1>2, <2>1, <2>2, <2>3, <2>4 DEF TabNext
<1>3. CASE Tick
  BY <1>3 DEF Tick, Faithful, pluginVars, tabVars
<1>4. CASE UNCHANGED vars
  BY <1>4 DEF vars, Faithful
<1> QED
  BY <1>1, <1>2, <1>3, <1>4 DEF Next

\* No request exists at first.
LEMMA FaithfulInit == Init => Faithful
<1> SUFFICES ASSUME Init PROVE Faithful
  OBVIOUS
<1>1. file.queue = {} /\ work = NoVault /\ reply = NoReply /\ released = <<>>
  BY ApprovalAssumption DEF Init
<1>2. \A t \in Tabs : web[t] = NoVault /\ outbox[t] = <<>>
  BY DEF Init
<1> QED
  BY <1>1, <1>2, NoReplyIsShown DEF Faithful, Genuine

\* Every copy of the vault is faithful to the challenges, always.
THEOREM CopiesAreFaithful == Spec => [](TypeOK /\ Faithful)
<1>1. Init => TypeOK /\ Faithful
  BY TypeInit, FaithfulInit
<1>2. TypeOK /\ Faithful /\ [Next]_vars => (TypeOK /\ Faithful)'
  BY TypeStep, FaithfulStep
<1> QED
  BY <1>1, <1>2, PTL DEF Spec

\* No copy of the vault, however stale, in any tab or queue, holds a request
\* the user was not asked with these facts and this deadline.
THEOREM NoForgedRequest == Spec => []Provenance
<1>1. ASSUME Faithful PROVE Provenance
  <2>1. ASSUME NEW v \in Vaults PROVE Genuine(v.queue, asked)
    <3>1. CASE v = file \/ v = work
      BY <1>1, <2>1, <3>1 DEF Faithful, Vaults
    <3>2. CASE v \in {web[t] : t \in Tabs}
      BY <1>1, <2>1, <3>2 DEF Faithful, Vaults
    <3>3. CASE v \in UNION {{outbox[t][i] : i \in DOMAIN outbox[t]} : t \in Tabs}
      BY <1>1, <3>3 DEF Faithful
    <3> QED
      BY <2>1, <3>1, <3>2, <3>3 DEF Vaults
  <2> QED
    BY <2>1 DEF Provenance, Genuine, Challenge
<1> QED
  BY <1>1, CopiesAreFaithful, PTL

\* Approval is consent to what was shown: the plugin returns the facts of the
\* challenge and nothing else, before it expires, whatever the tabs save, the
\* order the writes reach the file in, and wherever the plugin crashes.
THEOREM ApprovalIsConsent == Spec => []ReleasedAsShown
<1>1. Faithful => ReleasedAsShown
  BY DEF Faithful, ReleasedAsShown, AsShown
<1> QED
  BY <1>1, CopiesAreFaithful, PTL

-----------------------------------------------------------------------------
(* Data leaves once, and on record                                         *)
(*                                                                         *)
(* Neither property says why it holds: that a request is not approved twice *)
(* follows from the log, because no vault, however stale, has an event of a *)
(* release and the request still pending (Settled), and that the log holds  *)
(* the event follows from every writer only adding to the log it has seen   *)
(* (LogOnlyGrows).  Settled holds of all copies at all times; the rest only *)
(* as long as no write has overwritten one its writer had not seen.         *)

Releasing == {"allow", "ask_approved"}

\* Every id a vault holds has been handed out, and no request that some
\* release is on record for is still pending in it.
Numbered(v, n) ==
  /\ \A e \in v.queue : e.id < n
  /\ \A a \in v.audit : a.decision \in Releasing => a.id < n

Settled(v) ==
  \A e \in v.queue : \A a \in v.audit :
    a.id = e.id /\ a.decision \in Releasing => e.status # "pending"

Sound(v, n) == Numbered(v, n) /\ Settled(v)

Recorded(r, v) ==
  \E a \in v.audit : /\ a.id = r.id
                     /\ a.decision = IF r.via = "auto" THEN "allow" ELSE "ask_approved"
                     /\ a.keys = KeysOf(r.facts)

CopiesAreSound ==
  /\ Sound(file, nextId)
  /\ work # NoVault => Sound(work, nextId)
  /\ \A t \in Tabs : web[t] # NoVault => Sound(web[t], nextId)
  /\ \A t \in Tabs : \A i \in DOMAIN outbox[t] : Sound(outbox[t][i], nextId)
  /\ \A i \in DOMAIN released : released[i].id < nextId
  /\ reply.id < nextId

\* The tab's writes only add to the log, and, if it has seen every write, to
\* the log on file.
TabOnlyAdds(t) ==
  /\ t \in fresh => web[t] # NoVault
  /\ \A i \in DOMAIN outbox[t] :
       /\ web[t] # NoVault /\ outbox[t][i].audit \subseteq web[t].audit
       /\ \A j \in DOMAIN outbox[t] : i < j => outbox[t][i].audit \subseteq outbox[t][j].audit
       /\ t \in fresh => file.audit \subseteq outbox[t][i].audit
  /\ t \in fresh => file.audit \subseteq web[t].audit

LogOnlyGrows ==
  /\ "plugin" \in fresh /\ work # NoVault => file.audit \subseteq work.audit
  /\ \A t \in Tabs : TabOnlyAdds(t)

OnRecord ==
  /\ \A i \in DOMAIN released : Recorded(released[i], file)
  /\ \A i, j \in DOMAIN released : released[i].id = released[j].id => i = j
  /\ reply # NoReply =>
       /\ Recorded(reply, IF work = NoVault THEN file ELSE work)
       /\ \A i \in DOMAIN released : released[i].id # reply.id

AuditInv == CopiesAreSound /\ (intact => LogOnlyGrows /\ OnRecord)

-----------------------------------------------------------------------------
(* Vaults the actions build *)

\* Handing out more ids keeps a vault sound.
LEMMA SoundLater ==
  ASSUME NEW v \in Vault, NEW n \in Nat, NEW m \in Nat, n <= m, Sound(v, n)
  PROVE  Sound(v, m)
<1>1. ASSUME NEW i \in Ids, i < n PROVE i < m
  BY <1>1 DEF Ids
<1> QED
  BY <1>1 DEF Sound, Numbered, Vault, Entry, Event

\* A vault with no new request and no new record of a release is as sound.
LEMMA SoundWithout ==
  ASSUME NEW v, NEW w, NEW n, Sound(v, n), w.queue \subseteq v.queue,
         \A a \in w.audit : a.decision \in Releasing => a \in v.audit
  PROVE  Sound(w, n)
  BY DEF Sound, Numbered, Settled

\* Resolving a request while its release is recorded keeps the vault sound.
LEMMA SoundResolved ==
  ASSUME NEW v \in Vault, NEW n \in Nat, Sound(v, n), NEW id \in Ids, id < n,
         NEW status \in {"approved", "denied"}, NEW w,
         w.queue = Resolve(v.queue, id, status),
         \A a \in w.audit : a.decision \in Releasing => a \in v.audit \/ a.id = id
  PROVE  Sound(w, n)
<1>1. ASSUME NEW e \in w.queue
      PROVE  \/ e \in v.queue /\ e.id # id
             \/ e.id = id /\ e.status = status
  BY DEF Resolve, Vault, Entry
<1>2. Numbered(w, n)
  BY <1>1 DEF Sound, Numbered
<1>3. Settled(w)
  BY <1>1 DEF Sound, Settled
<1> QED
  BY <1>2, <1>3 DEF Sound

\* What was released has an id.
LEMMA ReleasesHaveIds ==
  ASSUME TypeOK, NEW i \in DOMAIN released PROVE released[i].id \in Nat
<1>1. released \in Seq(Release)
  BY DEF TypeOK
<1>2. released[i] \in Release
  BY <1>1
<1> QED
  BY <1>2 DEF Release, Ids

-----------------------------------------------------------------------------
(* The plugin *)

\* What the plugin computes from the file it has just read.
LEMMA PluginKeepsRecord ==
  ASSUME TypeOK, AuditInv, NEW v, NEW out, PluginIdle, Compute(v, out),
         UNCHANGED <<file, tabVars, released, intact>>,
         nextId' \in Nat, nextId <= nextId', Sound(v, nextId'), out.id < nextId',
         file.audit \subseteq v.audit,
         out # NoReply =>
           /\ v # NoVault /\ Recorded(out, v)
           /\ intact => \A i \in DOMAIN released : released[i].id # out.id
  PROVE  AuditInv'
<1>1. /\ work' = v /\ reply' = out /\ fresh' = fresh \cup {"plugin"}
      /\ UNCHANGED <<file, web, outbox, released, intact>>
      /\ "plugin" \notin Tabs /\ nextId \in Nat
  BY ApprovalAssumption DEF Compute, tabVars, TypeOK
<1>2. CopiesAreSound'
  <2>1. Sound(file, nextId') /\ Sound(work', nextId') /\ reply'.id < nextId'
    BY <1>1, SoundLater DEF AuditInv, CopiesAreSound, TypeOK
  <2>2. ASSUME NEW t \in Tabs, web[t] # NoVault PROVE Sound(web[t], nextId')
    BY <1>1, <2>2, SoundLater DEF AuditInv, CopiesAreSound, TypeOK
  <2>3. ASSUME NEW t \in Tabs, NEW i \in DOMAIN outbox[t] PROVE Sound(outbox[t][i], nextId')
    <3>1. outbox[t][i] \in Vault
      BY <2>3 DEF TypeOK
    <3> QED
      BY <1>1, <2>3, <3>1, SoundLater DEF AuditInv, CopiesAreSound
  <2>4. ASSUME NEW i \in DOMAIN released PROVE released[i].id < nextId'
    <3>1. released[i].id \in Nat /\ released[i].id < nextId
      BY <2>4, ReleasesHaveIds DEF AuditInv, CopiesAreSound
    <3> QED
      BY <1>1, <3>1
  <2> QED
    BY <1>1, <2>1, <2>2, <2>3, <2>4 DEF CopiesAreSound
<1>3. ASSUME intact PROVE LogOnlyGrows'
  BY <1>1, <1>3 DEF AuditInv, LogOnlyGrows, TabOnlyAdds
<1>4. ASSUME intact PROVE OnRecord'
  <2>1. (reply # NoReply)' => v # NoVault /\ Recorded(out, v)
    BY <1>1
  <2> QED
    BY <1>1, <1>4, <2>1 DEF AuditInv, OnRecord, Recorded
<1> QED
  BY <1>1, <1>2, <1>3, <1>4 DEF AuditInv

\* A new id is none of those whose release was recorded or returned.
LEMMA NewIdIsUnused ==
  ASSUME TypeOK, AuditInv
  PROVE  \A i \in DOMAIN released : released[i].id # nextId
<1>1. ASSUME NEW i \in DOMAIN released PROVE released[i].id # nextId
  <2>1. released[i].id < nextId /\ nextId \in Nat /\ released[i].id \in Nat
    BY <1>1, ReleasesHaveIds DEF AuditInv, CopiesAreSound, TypeOK
  <2> QED
    BY <2>1
<1> QED
  BY <1>1

\* Every step of the plugin keeps the record.
LEMMA PluginStepsKeepRecord == TypeOK /\ AuditInv /\ PluginNext => AuditInv'
<1> SUFFICES ASSUME TypeOK, AuditInv, PluginNext PROVE AuditInv'
  OBVIOUS
<1> DEFINE v == LivePending(file)
<1>0. /\ file \in Vault /\ v \in Vault /\ v.queue \subseteq file.queue /\ v.audit = file.audit
      /\ nextId \in Nat \ {0} /\ nextId <= nextId + 1 /\ NoReply.id = 0
      /\ Sound(file, nextId) /\ NoVault \notin Vault
  BY LivePendingIsVault, ApprovalAssumption DEF TypeOK, NoReply, AuditInv, CopiesAreSound
<1>a. Sound(v, nextId) /\ Sound(v, nextId + 1) /\ Sound(file, nextId + 1)
  <2>1. Sound(v, nextId)
    BY <1>0, SoundWithout
  <2> QED
    BY <1>0, <2>1, SoundLater
<1>1. ASSUME NEW req \in Requests, RequestAutoAllowed(req) PROVE AuditInv'
  <2> DEFINE d == Decide(v, req, now)
             ev == AuditEvent(nextId, "allow", req.domain, req.purpose, KeysOf(d.facts))
             out == [id |-> nextId, facts |-> d.facts, via |-> "auto", at |-> now]
             nv == [v EXCEPT !.audit = @ \cup {ev}]
  <2>1. nv.queue = v.queue /\ nv.audit = v.audit \cup {ev}
    BY <1>0 DEF Vault
  <2>2. Sound(nv, nextId + 1)
    <3>1. ASSUME NEW e \in v.queue PROVE e.id \in Nat /\ e.id < nextId
      BY <1>0, <1>a DEF Sound, Numbered, Vault, Entry, Ids
    <3>2. ev.id = nextId
      BY DEF AuditEvent
    <3> QED
      BY <1>0, <1>a, <2>1, <3>1, <3>2 DEF Sound, Numbered, Settled
  <2>3. Recorded(out, nv)
    <3>1. ev.id = out.id /\ ev.decision = "allow" /\ ev.keys = KeysOf(out.facts) /\ out.via = "auto"
      BY DEF AuditEvent
    <3> QED
      BY <2>1, <3>1 DEF Recorded
  <2>4. nv # NoVault
    <3>1. req \in Request /\ nextId \in Ids /\ d.facts \subseteq Fact
      BY <1>0, <1>1, DecisionIsTyped, ApprovalAssumption DEF Ids, RequestAutoAllowed
    <3>2. ev \in Event
      BY <3>1, KeysOfFacts, EventTyped DEF Request, RulePurposes
    <3>3. nv \in Vault
      BY <1>0, <3>2, VaultParts, VaultWithAudit
    <3> QED
      BY <1>0, <3>3
  <2>5. /\ PluginIdle /\ Compute(nv, out) /\ nextId' = nextId + 1
        /\ UNCHANGED <<file, tabVars, released, intact>>
    BY <1>1 DEF RequestAutoAllowed
  <2> QED
    <3>1. /\ nextId' \in Nat /\ nextId <= nextId' /\ out.id < nextId' /\ Sound(nv, nextId')
          /\ file.audit \subseteq nv.audit
      BY <1>0, <2>1, <2>2, <2>5
    <3>2. \A i \in DOMAIN released : released[i].id # out.id
      BY NewIdIsUnused
    <3> HIDE DEF nv, out
    <3> QED
      BY <2>3, <2>4, <2>5, <3>1, <3>2, PluginKeepsRecord
<1>2. ASSUME NEW req \in Requests, RequestAsks(req) PROVE AuditInv'
  <2> DEFINE d == Decide(v, req, now)
             e == [id |-> nextId, status |-> "pending", expires |-> now + ApprovalTTL,
                   req |-> req, persona |-> d.persona, facts |-> d.facts]
             nv == [v EXCEPT !.queue = @ \cup {e}]
  <2>1. nv.queue = v.queue \cup {e} /\ nv.audit = v.audit
    BY <1>0 DEF Vault
  <2>2. Sound(nv, nextId + 1)
    <3>1. ASSUME NEW a \in v.audit, a.decision \in Releasing PROVE a.id \in Nat /\ a.id < nextId
      BY <1>0, <1>a, <3>1 DEF Sound, Numbered, Vault, Event, Ids
    <3> QED
      BY <1>0, <1>a, <2>1, <3>1 DEF Sound, Numbered, Settled
  <2>3. /\ PluginIdle /\ Compute(nv, NoReply) /\ nextId' = nextId + 1
        /\ UNCHANGED <<file, tabVars, released, intact>>
    BY <1>2 DEF RequestAsks
  <2> QED
    <3>1. /\ nextId' \in Nat /\ nextId <= nextId' /\ NoReply.id < nextId' /\ Sound(nv, nextId')
          /\ file.audit \subseteq nv.audit
      BY <1>0, <2>1, <2>2, <2>3
    <3> HIDE DEF nv
    <3> QED
      BY <2>3, <3>1, PluginKeepsRecord
<1>3. ASSUME NEW e \in file.queue, AgentApproves(e) PROVE AuditInv'
  <2> DEFINE ev == AuditEvent(e.id, "ask_approved", e.req.domain, e.req.purpose, KeysOf(e.facts))
             out == [id |-> e.id, facts |-> e.facts, via |-> "approved", at |-> now]
             nv == [v EXCEPT !.queue = Resolve(@, e.id, "approved"), !.audit = @ \cup {ev}]
  <2>1. nv.queue = Resolve(v.queue, e.id, "approved") /\ nv.audit = v.audit \cup {ev}
    BY <1>0 DEF Vault
  <2>2. e \in Entry /\ e.id < nextId /\ ev.id = e.id
    BY <1>0, VaultParts DEF Sound, Numbered, AuditEvent
  <2>3. Sound(nv, nextId)
    BY <1>0, <1>a, <2>1, <2>2, EntryParts, SoundResolved
  <2>4. Recorded(out, nv)
    <3>1. /\ ev.id = out.id /\ ev.decision = "ask_approved" /\ ev.keys = KeysOf(out.facts)
          /\ out.via = "approved"
      BY DEF AuditEvent
    <3> QED
      BY <2>1, <3>1 DEF Recorded
  <2>5. nv # NoVault
    <3>1. ev \in Event
      BY <2>2, EntryParts, EventTyped
    <3>2. nv \in Vault
      BY <1>0, <3>1, VaultParts, ResolveTyped, VaultWithQueueAudit
    <3> QED
      BY <1>0, <3>2
  <2>6. ASSUME intact, NEW i \in DOMAIN released PROVE released[i].id # e.id
    <3>1. PICK a \in file.audit :
            a.id = released[i].id /\ a.decision \in Releasing
      BY <2>6 DEF AuditInv, OnRecord, Recorded, Releasing
    <3>2. e.status = "pending"
      BY <1>3 DEF AgentApproves
    <3> QED
      BY <1>0, <3>1, <3>2 DEF Sound, Settled
  <2>7. /\ PluginIdle /\ Compute(nv, out) /\ nextId' = nextId
        /\ UNCHANGED <<file, tabVars, released, intact>>
    BY <1>3 DEF AgentApproves
  <2> QED
    <3>1. /\ nextId' \in Nat /\ nextId <= nextId' /\ out.id < nextId' /\ Sound(nv, nextId')
          /\ file.audit \subseteq nv.audit
      BY <1>0, <2>1, <2>2, <2>3, <2>7
    <3>2. intact => \A i \in DOMAIN released : released[i].id # out.id
      BY <2>6
    <3> HIDE DEF nv, out
    <3> QED
      BY <2>4, <2>5, <2>7, <3>1, <3>2, PluginKeepsRecord
<1>4. ASSUME NEW e \in file.queue, AgentDenies(e) PROVE AuditInv'
  <2> DEFINE ev == AuditEvent(e.id, "ask_denied", e.req.domain, e.req.purpose, {})
             nv == [v EXCEPT !.queue = Resolve(@, e.id, "denied"), !.audit = @ \cup {ev}]
  <2>1. nv.queue = Resolve(v.queue, e.id, "denied") /\ nv.audit = v.audit \cup {ev}
    BY <1>0 DEF Vault
  <2>2. e \in Entry /\ e.id < nextId /\ ev.id = e.id
    BY <1>0, VaultParts DEF Sound, Numbered, AuditEvent
  <2>3. Sound(nv, nextId)
    BY <1>0, <1>a, <2>1, <2>2, EntryParts, SoundResolved
  <2>4. /\ PluginIdle /\ Compute(nv, NoReply) /\ nextId' = nextId
        /\ UNCHANGED <<file, tabVars, released, intact>>
    BY <1>4 DEF AgentDenies
  <2> QED
    <3>1. /\ nextId' \in Nat /\ nextId <= nextId' /\ NoReply.id < nextId' /\ Sound(nv, nextId')
          /\ file.audit \subseteq nv.audit
      BY <1>0, <2>1, <2>3, <2>4
    <3> HIDE DEF nv
    <3> QED
      BY <2>4, <3>1, PluginKeepsRecord
<1>5. ASSUME NEW o \in RuleOffers, AgentCreatesRule(o) PROVE AuditInv'
  <2> DEFINE ev == AuditEvent(nextId, "rule_created", o.domain, o.purpose,
                              {f.path : f \in o.allowedFields})
             nv == [file EXCEPT
        !.rules = @ \cup {NewRule(nextId, o.domain, o.purpose, o.maxSensitivity, o.allowedFields)},
        !.audit = @ \cup {ev}]
  <2>1. nv.queue = file.queue /\ nv.audit = file.audit \cup {ev}
    BY <1>0 DEF Vault
  <2>2. ev.decision \notin Releasing
    BY DEF AuditEvent, Releasing
  <2>3. Sound(nv, nextId + 1)
    BY <1>a, <2>1, <2>2, SoundWithout
  <2>4. /\ PluginIdle /\ Compute(nv, NoReply) /\ nextId' = nextId + 1
        /\ UNCHANGED <<file, tabVars, released, intact>>
    BY <1>5 DEF AgentCreatesRule
  <2> QED
    <3>1. /\ nextId' \in Nat /\ nextId <= nextId' /\ NoReply.id < nextId' /\ Sound(nv, nextId')
          /\ file.audit \subseteq nv.audit
      BY <1>0, <2>1, <2>3, <2>4
    <3> HIDE DEF nv
    <3> QED
      BY <2>4, <3>1, PluginKeepsRecord
<1>6. CASE PluginSaves
  <2>1. /\ file' = work /\ work' = NoVault /\ work # NoVault /\ fresh' = {}
        /\ intact' => intact /\ "plugin" \in fresh
        /\ UNCHANGED <<reply, web, outbox, nextId, released>>
    BY <1>6 DEF PluginSaves, tabVars
  <2>2. CopiesAreSound'
    BY <2>1 DEF AuditInv, CopiesAreSound
  <2>3. ASSUME intact' PROVE LogOnlyGrows'
    BY <2>1, <2>3 DEF AuditInv, LogOnlyGrows, TabOnlyAdds
  <2>4. ASSUME intact' PROVE OnRecord'
    <3>1. file.audit \subseteq work.audit
      BY <2>1, <2>4 DEF AuditInv, LogOnlyGrows
    <3> QED
      BY <2>1, <2>4, <3>1 DEF AuditInv, OnRecord, Recorded
  <2> QED
    BY <2>2, <2>3, <2>4 DEF AuditInv
<1>7. CASE PluginReplies
  <2>1. /\ work = NoVault /\ reply # NoReply /\ reply' = NoReply
        /\ released' = Append(released, reply) /\ released \in Seq(Release) /\ reply \in Release
        /\ UNCHANGED <<file, work, web, outbox, nextId, fresh, intact>>
    BY <1>7 DEF PluginReplies, tabVars, TypeOK
  <2>2. ASSUME NEW i \in DOMAIN released'
        PROVE  \/ i \in DOMAIN released /\ released'[i] = released[i]
               \/ i = Len(released) + 1 /\ released'[i] = reply
    BY <2>1
  <2>3. CopiesAreSound'
    BY <1>0, <2>1, <2>2 DEF AuditInv, CopiesAreSound
  <2>4. ASSUME intact PROVE LogOnlyGrows'
    BY <2>1, <2>4 DEF AuditInv, LogOnlyGrows, TabOnlyAdds
  <2>5. ASSUME intact PROVE OnRecord'
    <3>1. Recorded(reply, file) /\ \A i \in DOMAIN released : released[i].id # reply.id
      BY <2>1, <2>5 DEF AuditInv, OnRecord
    <3>2. \A i \in DOMAIN released' : Recorded(released'[i], file)
      BY <2>2, <2>5, <3>1 DEF AuditInv, OnRecord
    <3>3. \A i, j \in DOMAIN released' : released'[i].id = released'[j].id => i = j
      BY <2>2, <2>5, <3>1 DEF AuditInv, OnRecord
    <3> QED
      BY <2>1, <3>2, <3>3 DEF OnRecord, Recorded
  <2> QED
    BY <2>1, <2>3, <2>4, <2>5 DEF AuditInv
<1>8. CASE PluginCrashes
  <2>1. /\ work' = NoVault /\ reply' = NoReply /\ fresh' = fresh \ {"plugin"}
        /\ UNCHANGED <<file, web, outbox, nextId, released, intact>>
        /\ "plugin" \notin Tabs
    BY <1>8, ApprovalAssumption DEF PluginCrashes, tabVars
  <2>2. CopiesAreSound'
    BY <1>0, <2>1 DEF AuditInv, CopiesAreSound
  <2>3. ASSUME intact PROVE LogOnlyGrows' /\ OnRecord'
    BY <2>1, <2>3 DEF AuditInv, LogOnlyGrows, TabOnlyAdds, OnRecord, Recorded
  <2> QED
    BY <2>1, <2>2, <2>3 DEF AuditInv
<1> QED
  BY <1>1, <1>2, <1>3, <1>4, <1>5, <1>6, <1>7, <1>8 DEF PluginNext

-----------------------------------------------------------------------------
(* The tabs *)

\* A page saves a sound vault that, unless the user erased the log, keeps the
\* log of the copy it edits.
LEMMA TabSavesKeepRecord ==
  ASSUME TypeOK, AuditInv, NEW t \in Tabs, NEW v \in Vault, TabSaves(t, v), web[t] # NoVault,
         nextId' \in Nat, nextId <= nextId', Sound(v, nextId'),
         intact' => intact /\ web[t].audit \subseteq v.audit
  PROVE  AuditInv'
<1>1. /\ web' = [web EXCEPT ![t] = v] /\ outbox' = [outbox EXCEPT ![t] = Append(@, v)]
      /\ UNCHANGED <<file, work, reply, released, fresh>>
      /\ web \in [Tabs -> Vault \cup {NoVault}] /\ outbox \in [Tabs -> Seq(Vault)]
      /\ v # NoVault /\ nextId \in Nat
  BY ApprovalAssumption DEF TabSaves, pluginVars, TypeOK
<1>2. ASSUME NEW i \in DOMAIN outbox'[t]
      PROVE  \/ i \in DOMAIN outbox[t] /\ outbox'[t][i] = outbox[t][i] /\ i <= Len(outbox[t])
             \/ i = Len(outbox[t]) + 1 /\ outbox'[t][i] = v
  BY <1>1
<1>a. \A u \in Tabs : u # t => outbox'[u] = outbox[u] /\ web'[u] = web[u]
  BY <1>1
<1>b. web'[t] = v
  BY <1>1
<1>c. Len(outbox[t]) \in Nat /\ DOMAIN outbox'[t] \subseteq Nat /\ DOMAIN outbox[t] \subseteq Nat
  BY <1>1
<1>3. CopiesAreSound'
  <2>1. Sound(file, nextId') /\ (work # NoVault => Sound(work, nextId'))
    BY <1>1, SoundLater DEF AuditInv, CopiesAreSound, TypeOK
  <2>2. ASSUME NEW u \in Tabs, web'[u] # NoVault PROVE Sound(web'[u], nextId')
    BY <1>1, <1>a, <1>b, <2>2, SoundLater DEF AuditInv, CopiesAreSound
  <2>3. ASSUME NEW u \in Tabs, NEW i \in DOMAIN outbox[u] PROVE Sound(outbox[u][i], nextId')
    <3>1. outbox[u][i] \in Vault
      BY <1>1, <2>3
    <3> QED
      BY <1>1, <2>3, <3>1, SoundLater DEF AuditInv, CopiesAreSound
  <2>4. ASSUME NEW u \in Tabs, NEW i \in DOMAIN outbox'[u] PROVE Sound(outbox'[u][i], nextId')
    BY <1>2, <1>a, <2>3, <2>4
  <2>5. ASSUME NEW i \in DOMAIN released PROVE released[i].id < nextId'
    BY <1>1, <2>5, ReleasesHaveIds DEF AuditInv, CopiesAreSound
  <2>6. reply.id < nextId'
    <3>1. reply.id \in Nat
      BY DEF TypeOK, Release, Ids, NoReply
    <3> QED
      BY <1>1, <3>1 DEF AuditInv, CopiesAreSound
  <2> QED
    BY <1>1, <2>1, <2>2, <2>4, <2>5, <2>6 DEF CopiesAreSound
<1>4. ASSUME intact' PROVE LogOnlyGrows'
  <2>0. intact /\ web[t].audit \subseteq v.audit /\ TabOnlyAdds(t)
    BY <1>4 DEF AuditInv, LogOnlyGrows
  <2>1. TabOnlyAdds(t)'
    <3>1. ASSUME NEW i \in DOMAIN outbox'[t]
          PROVE  /\ outbox'[t][i].audit \subseteq v.audit
                 /\ t \in fresh => file.audit \subseteq outbox'[t][i].audit
      BY <1>2, <2>0 DEF TabOnlyAdds
    <3>2. ASSUME NEW i \in DOMAIN outbox'[t], NEW j \in DOMAIN outbox'[t], i < j
          PROVE  outbox'[t][i].audit \subseteq outbox'[t][j].audit
      <4>1. i \in DOMAIN outbox[t] /\ outbox'[t][i] = outbox[t][i]
        BY <1>2, <1>c, <3>2
      <4> QED
        BY <1>2, <2>0, <3>1, <3>2, <4>1 DEF TabOnlyAdds
    <3>3. t \in fresh => file.audit \subseteq v.audit
      BY <2>0 DEF TabOnlyAdds
    <3> QED
      BY <1>1, <1>b, <3>1, <3>2, <3>3 DEF TabOnlyAdds
  <2>2. ASSUME NEW u \in Tabs, u # t PROVE TabOnlyAdds(u)'
    BY <1>1, <1>a, <2>0, <2>2 DEF AuditInv, LogOnlyGrows, TabOnlyAdds
  <2> QED
    BY <1>1, <2>0, <2>1, <2>2 DEF AuditInv, LogOnlyGrows
<1>5. ASSUME intact' PROVE OnRecord'
  BY <1>1, <1>5 DEF AuditInv, OnRecord, Recorded
<1> QED
  BY <1>3, <1>4, <1>5 DEF AuditInv

\* What a tab queues is a vault, so what it saves was one.
LEMMA SavedIsVault ==
  ASSUME TypeOK, TypeOK', NEW t \in Tabs, NEW v, TabSaves(t, v) PROVE v \in Vault
<1>1. outbox'[t] = Append(outbox[t], v) /\ outbox[t] \in Seq(Vault) /\ outbox'[t] \in Seq(Vault)
  BY DEF TypeOK, TabSaves
<1>2. Len(outbox[t]) + 1 \in DOMAIN outbox'[t] /\ outbox'[t][Len(outbox[t]) + 1] = v
  BY <1>1
<1> QED
  BY <1>1, <1>2

\* Every handler of a page keeps the record.
LEMMA TabEditsKeepRecord ==
  ASSUME TypeOK, TypeOK', AuditInv, NEW t \in Tabs, TabEdits(t) PROVE AuditInv'
<1> DEFINE v == web[t]
<1>0. /\ v \in Vault /\ v # NoVault /\ v.queue \subseteq Entry /\ v.audit \subseteq Event
      /\ nextId \in Nat \ {0} /\ nextId + 1 \in Nat /\ nextId <= nextId + 1 /\ nextId <= nextId
      /\ Sound(v, nextId)
  <2>1. v \in Vault /\ v # NoVault /\ nextId \in Nat \ {0}
    BY DEF TypeOK, TabEdits
  <2> QED
    BY <2>1, VaultParts DEF AuditInv, CopiesAreSound
<1>a. ASSUME NEW nv, TabSaves(t, nv), nextId' \in {nextId, nextId + 1}, nv.queue = v.queue,
             v.audit \subseteq nv.audit, intact' = intact,
             \A a \in nv.audit : a.decision \in Releasing => a \in v.audit
      PROVE  AuditInv'
  <2>1. nextId' \in Nat /\ nextId <= nextId'
    BY <1>0, <1>a
  <2>2. Sound(v, nextId')
    BY <1>0, <2>1, SoundLater
  <2>3. Sound(nv, nextId')
    BY <1>a, <2>2, SoundWithout
  <2> QED
    BY <1>0, <1>a, <2>1, <2>3, SavedIsVault, TabSavesKeepRecord
<1>1. ASSUME NEW e \in v.queue, NEW shown \in SUBSET KeysOf(e.facts), NEW remember \in BOOLEAN,
             ApprovesOnDetailPage(t, e, shown, remember)
      PROVE  AuditInv'
  <2> DEFINE rules == IF remember THEN Remembered(e, shown) ELSE {}
             ev == AuditEvent(e.id, "ask_approved", e.req.domain, e.req.purpose, shown)
             nv == [v EXCEPT !.queue = Resolve(@, e.id, "approved"), !.rules = @ \cup rules,
                      !.audit = @ \cup RememberedEvents(e, rules) \cup {ev}]
  <2>1. /\ nv.queue = Resolve(v.queue, e.id, "approved")
        /\ nv.audit = v.audit \cup RememberedEvents(e, rules) \cup {ev}
    BY <1>0 DEF Vault
  <2>2. \A a \in RememberedEvents(e, rules) \cup {ev} : a.id = e.id
    BY DEF RememberedEvents, AuditEvent
  <2>3. TabSaves(t, nv) /\ nextId' \in {nextId, nextId + 1} /\ intact' = intact
    BY <1>1 DEF ApprovesOnDetailPage
  <2>4. e \in Entry /\ e.id \in Ids /\ e.id < nextId
    BY <1>0, EntryParts DEF Sound, Numbered
  <2> HIDE DEF nv, ev, rules
  <2>5. Sound(nv, nextId)
    BY <1>0, <2>1, <2>2, <2>4, SoundResolved
  <2>6. nextId' \in Nat /\ nextId <= nextId' /\ Sound(nv, nextId') /\ nv \in Vault
    BY <1>0, <2>3, <2>5, SavedIsVault, SoundLater
  <2> QED
    BY <1>0, <2>1, <2>3, <2>6, TabSavesKeepRecord
<1>2. ASSUME NEW e \in v.queue, DeniesOnDetailPage(t, e) PROVE AuditInv'
  <2> DEFINE ev == AuditEvent(e.id, "ask_denied", e.req.domain, e.req.purpose, {})
             nv == [v EXCEPT !.audit = @ \cup {ev}]
  <2>1. nv.queue = v.queue /\ nv.audit = v.audit \cup {ev} /\ ev.decision \notin Releasing
    BY <1>0 DEF Vault, AuditEvent, Releasing
  <2>2. TabSaves(t, nv) /\ nextId' \in {nextId, nextId + 1} /\ intact' = intact
    BY <1>2 DEF DeniesOnDetailPage
  <2> HIDE DEF nv, ev
  <2> QED
    BY <1>a, <2>1, <2>2
<1>3. ASSUME NEW a \in v.audit, CreatesRuleFromApproval(t, a) PROVE AuditInv'
  <2> DEFINE allowed == {[path |-> k, wild |-> FALSE] : k \in a.keys}
             ev == AuditEvent(nextId, "rule_created", a.domain, a.purpose, a.keys)
             nv == [v EXCEPT !.rules = @ \cup {NewRule(nextId, a.domain, a.purpose, "medium", allowed)},
                             !.audit = @ \cup {ev}]
  <2>1. nv.queue = v.queue /\ nv.audit = v.audit \cup {ev} /\ ev.decision \notin Releasing
    BY <1>0 DEF Vault, AuditEvent, Releasing
  <2>2. TabSaves(t, nv) /\ nextId' \in {nextId, nextId + 1} /\ intact' = intact
    BY <1>3 DEF CreatesRuleFromApproval
  <2> HIDE DEF nv, ev
  <2> QED
    BY <1>a, <2>1, <2>2
<1>4. ASSUME NEW o \in RuleOffers, CreatesRule(t, o) PROVE AuditInv'
  <2> DEFINE ev == AuditEvent(nextId, "rule_created", o.domain, o.purpose,
                              {f.path : f \in o.allowedFields})
             nv == [v EXCEPT
        !.rules = @ \cup {NewRule(nextId, o.domain, o.purpose, o.maxSensitivity, o.allowedFields)},
        !.audit = @ \cup {ev}]
  <2>1. nv.queue = v.queue /\ nv.audit = v.audit \cup {ev} /\ ev.decision \notin Releasing
    BY <1>0 DEF Vault, AuditEvent, Releasing
  <2>2. TabSaves(t, nv) /\ nextId' \in {nextId, nextId + 1} /\ intact' = intact
    BY <1>4 DEF CreatesRule
  <2> HIDE DEF nv, ev
  <2> QED
    BY <1>a, <2>1, <2>2
<1>5. ASSUME NEW r \in v.rules, TogglesRule(t, r) PROVE AuditInv'
  <2> DEFINE nv == [v EXCEPT !.rules = (@ \ {r}) \cup {[r EXCEPT !.enabled = ~@]}]
  <2>1. nv.queue = v.queue /\ nv.audit = v.audit
    BY <1>0 DEF Vault, AuditEvent, Releasing
  <2>2. TabSaves(t, nv) /\ nextId' \in {nextId, nextId + 1} /\ intact' = intact
    BY <1>5 DEF TogglesRule
  <2> HIDE DEF nv
  <2> QED
    BY <1>a, <2>1, <2>2
<1>6. ASSUME NEW gone \in SUBSET v.rules, DeletesRules(t, gone) PROVE AuditInv'
  <2> DEFINE nv == [v EXCEPT !.rules = @ \ gone]
  <2>1. nv.queue = v.queue /\ nv.audit = v.audit
    BY <1>0 DEF Vault, AuditEvent, Releasing
  <2>2. TabSaves(t, nv) /\ nextId' \in {nextId, nextId + 1} /\ intact' = intact
    BY <1>6 DEF DeletesRules
  <2> HIDE DEF nv
  <2> QED
    BY <1>a, <2>1, <2>2
<1>7. ASSUME NEW p \in Postures, ChangesPosture(t, p) PROVE AuditInv'
  <2> DEFINE nv == [v EXCEPT !.posture = p]
  <2>1. nv.queue = v.queue /\ nv.audit = v.audit
    BY <1>0 DEF Vault, AuditEvent, Releasing
  <2>2. TabSaves(t, nv) /\ nextId' \in {nextId, nextId + 1} /\ intact' = intact
    BY <1>7 DEF ChangesPosture
  <2> HIDE DEF nv
  <2> QED
    BY <1>a, <2>1, <2>2
<1>8. ASSUME NEW p \in Personas, NEW s \in Settings, NEW facts \in FactLists,
             EditsPersona(t, p, s, facts)
      PROVE AuditInv'
  <2> DEFINE nv == [v EXCEPT !.personas[p] = [settings |-> s, facts |-> facts]]
  <2>1. nv.queue = v.queue /\ nv.audit = v.audit
    BY <1>0 DEF Vault, AuditEvent, Releasing
  <2>2. TabSaves(t, nv) /\ nextId' \in {nextId, nextId + 1} /\ intact' = intact
    BY <1>8 DEF EditsPersona
  <2> HIDE DEF nv
  <2> QED
    BY <1>a, <2>1, <2>2
<1>9. ASSUME NEW r \in v.rules, NEW o \in RuleOffers, NEW extended \in BOOLEAN,
             UpdatesRule(t, r, o, extended)
      PROVE AuditInv'
  <2> DEFINE nv == [v EXCEPT !.rules = (@ \ {r}) \cup
               {[r EXCEPT !.maxSensitivity = o.maxSensitivity, !.allowedFields = o.allowedFields,
                          !.expires = IF extended THEN now + RuleTTL ELSE @]}]
  <2>1. nv.queue = v.queue /\ nv.audit = v.audit
    BY <1>0 DEF Vault, AuditEvent, Releasing
  <2>2. TabSaves(t, nv) /\ nextId' \in {nextId, nextId + 1} /\ intact' = intact
    BY <1>9 DEF UpdatesRule
  <2> HIDE DEF nv
  <2> QED
    BY <1>a, <2>1, <2>2
<1>10. ASSUME NEW p \in Personas, CreatesPersona(t, p) PROVE AuditInv'
  <2> DEFINE nv == [v EXCEPT !.personas[p].settings.visible = TRUE]
  <2>1. nv.queue = v.queue /\ nv.audit = v.audit
    BY <1>0 DEF Vault, AuditEvent, Releasing
  <2>2. TabSaves(t, nv) /\ nextId' \in {nextId, nextId + 1} /\ intact' = intact
    BY <1>10 DEF CreatesPersona
  <2> HIDE DEF nv
  <2> QED
    BY <1>a, <2>1, <2>2
<1>11. ASSUME NEW p \in Personas, DeletesPersona(t, p) PROVE AuditInv'
  <2> DEFINE nv == [v EXCEPT !.personas[p] = NoPersona]
  <2>1. nv.queue = v.queue /\ nv.audit = v.audit
    BY <1>0 DEF Vault, AuditEvent, Releasing
  <2>2. TabSaves(t, nv) /\ nextId' \in {nextId, nextId + 1} /\ intact' = intact
    BY <1>11 DEF DeletesPersona
  <2> HIDE DEF nv
  <2> QED
    BY <1>a, <2>1, <2>2
<1>12. ASSUME ClearsAuditLog(t) PROVE AuditInv'
  <2> DEFINE nv == [v EXCEPT !.audit = {}]
  <2>1. nv.queue = v.queue /\ nv.audit = {}
    BY <1>0 DEF Vault
  <2>2. TabSaves(t, nv) /\ nextId' = nextId /\ ~intact'
    BY <1>12 DEF ClearsAuditLog
  <2> HIDE DEF nv
  <2>3. Sound(nv, nextId')
    BY <1>0, <2>1, <2>2, SoundWithout
  <2> QED
    BY <1>0, <2>2, <2>3, SavedIsVault, TabSavesKeepRecord
<1>13. ASSUME DestroysVault(t) PROVE AuditInv'
  <2>1. TabSaves(t, BlankVault) /\ nextId' = nextId /\ ~intact'
    BY <1>13 DEF DestroysVault
  <2>2. Sound(BlankVault, nextId')
    BY DEF Sound, Numbered, Settled, BlankVault
  <2> QED
    BY <1>0, <2>1, <2>2, SavedIsVault, TabSavesKeepRecord
<1>14. ASSUME NEW nv \in InitialVaults, ImportsVault(t, nv) PROVE AuditInv'
  <2>1. TabSaves(t, nv) /\ nextId' = nextId /\ ~intact'
    BY <1>14 DEF ImportsVault
  <2>2. Sound(nv, nextId')
    BY ApprovalAssumption DEF Sound, Numbered, Settled
  <2> QED
    BY <1>0, <2>1, <2>2, SavedIsVault, TabSavesKeepRecord
<1> QED
  BY <1>1, <1>2, <1>3, <1>4, <1>5, <1>6, <1>7, <1>8, <1>9, <1>10, <1>11, <1>12, <1>13, <1>14
     DEF TabEdits

-----------------------------------------------------------------------------
(* The writes of a tab *)

\* The rest of a queue is in the order it was in.
LEMMA TailKeepsOrder ==
  ASSUME TypeOK, NEW t \in Tabs, outbox[t] # <<>>, outbox' = [outbox EXCEPT ![t] = Tail(@)]
  PROVE  /\ \A i \in DOMAIN outbox'[t] :
              /\ i \in Nat /\ 1 < i + 1 /\ 1 \in DOMAIN outbox[t] /\ i + 1 \in DOMAIN outbox[t]
              /\ outbox'[t][i] = outbox[t][i + 1]
         /\ Head(outbox[t]) = outbox[t][1] /\ 1 \in DOMAIN outbox[t]
         /\ \A u \in Tabs : u # t => outbox'[u] = outbox[u]
<1>1. outbox[t] \in Seq(Vault) /\ outbox'[t] = Tail(outbox[t]) /\ outbox \in [Tabs -> Seq(Vault)]
  BY DEF TypeOK
<1>2. \A i \in DOMAIN Tail(outbox[t]) :
        i \in Nat /\ 1 < i + 1 /\ i + 1 \in DOMAIN outbox[t] /\ Tail(outbox[t])[i] = outbox[t][i + 1]
  BY <1>1
<1>3. Head(outbox[t]) = outbox[t][1] /\ 1 \in DOMAIN outbox[t]
  BY <1>1
<1> QED
  BY <1>1, <1>2, <1>3

\* Taking the oldest write off a queue keeps the others in order.
LEMMA DequeueKeepsRecord ==
  ASSUME TypeOK, AuditInv, NEW t \in Tabs, outbox[t] # <<>>,
         outbox' = [outbox EXCEPT ![t] = Tail(@)],
         UNCHANGED <<web, work, reply, released, nextId>>,
         \/ UNCHANGED <<file, fresh, intact>>
         \/ /\ file' = Head(outbox[t]) /\ fresh' = fresh \cap {t}
            /\ intact' = (intact /\ t \in fresh)
  PROVE  AuditInv'
<1>1. CopiesAreSound'
  <2>1. Sound(file', nextId)
    <3>1. 1 \in DOMAIN outbox[t] /\ file' \in {file, outbox[t][1]}
      BY TailKeepsOrder
    <3> QED
      BY <3>1 DEF AuditInv, CopiesAreSound
  <2>2. ASSUME NEW u \in Tabs, NEW i \in DOMAIN outbox'[u] PROVE Sound(outbox'[u][i], nextId)
    BY <2>2, TailKeepsOrder DEF AuditInv, CopiesAreSound
  <2> QED
    BY <2>1, <2>2 DEF AuditInv, CopiesAreSound
<1>2. ASSUME intact' PROVE file.audit \subseteq file'.audit /\ intact /\ fresh' \subseteq fresh
  <2>1. CASE UNCHANGED <<file, fresh, intact>>
    BY <1>2, <2>1
  <2>2. CASE file' = Head(outbox[t]) /\ fresh' = fresh \cap {t} /\ intact' = (intact /\ t \in fresh)
    <3>1. file' = outbox[t][1] /\ 1 \in DOMAIN outbox[t] /\ intact /\ t \in fresh
      BY <1>2, <2>2, TailKeepsOrder
    <3>2. TabOnlyAdds(t)
      BY <3>1 DEF AuditInv, LogOnlyGrows
    <3> QED
      BY <2>2, <3>1, <3>2 DEF TabOnlyAdds
  <2> QED
    BY <2>1, <2>2
<1>3. ASSUME intact' PROVE LogOnlyGrows'
  <2>1. TabOnlyAdds(t) /\ LogOnlyGrows /\ "plugin" \notin Tabs
    BY <1>2, <1>3, ApprovalAssumption DEF AuditInv, LogOnlyGrows
  <2>2. ASSUME NEW i \in DOMAIN outbox'[t]
        PROVE  /\ web[t] # NoVault /\ outbox'[t][i].audit \subseteq web[t].audit
               /\ t \in fresh' => file'.audit \subseteq outbox'[t][i].audit
    <3>1. /\ i + 1 \in DOMAIN outbox[t] /\ 1 \in DOMAIN outbox[t] /\ 1 < i + 1
          /\ outbox'[t][i] = outbox[t][i + 1] /\ Head(outbox[t]) = outbox[t][1]
      BY <2>2, TailKeepsOrder
    <3>2. web[t] # NoVault /\ outbox[t][i + 1].audit \subseteq web[t].audit
      BY <2>1, <3>1 DEF TabOnlyAdds
    <3>3. outbox[t][1].audit \subseteq outbox[t][i + 1].audit
      BY <2>1, <3>1 DEF TabOnlyAdds
    <3>4. t \in fresh => file.audit \subseteq outbox[t][i + 1].audit
      BY <2>1, <3>1 DEF TabOnlyAdds
    <3> QED
      BY <1>2, <1>3, <3>1, <3>2, <3>3, <3>4
  <2>3. ASSUME NEW i \in DOMAIN outbox'[t], NEW j \in DOMAIN outbox'[t], i < j
        PROVE  outbox'[t][i].audit \subseteq outbox'[t][j].audit
    <3>1. /\ i + 1 \in DOMAIN outbox[t] /\ j + 1 \in DOMAIN outbox[t] /\ i + 1 < j + 1
          /\ outbox'[t][i] = outbox[t][i + 1] /\ outbox'[t][j] = outbox[t][j + 1]
      <4>1. /\ i \in Nat /\ i + 1 \in DOMAIN outbox[t] /\ outbox'[t][i] = outbox[t][i + 1]
            /\ j \in Nat /\ j + 1 \in DOMAIN outbox[t] /\ outbox'[t][j] = outbox[t][j + 1]
        BY <2>3, TailKeepsOrder
      <4>2. i + 1 < j + 1
        BY <2>3, <4>1
      <4> QED
        BY <4>1, <4>2
    <3> QED
      BY <2>1, <3>1 DEF TabOnlyAdds
  <2>4. t \in fresh' => web[t] # NoVault /\ file'.audit \subseteq web[t].audit
    BY <1>2, <1>3, <2>1, TailKeepsOrder DEF TabOnlyAdds
  <2>5. TabOnlyAdds(t)'
    BY <2>2, <2>3, <2>4 DEF TabOnlyAdds
  <2>6. ASSUME NEW u \in Tabs, u # t PROVE TabOnlyAdds(u)'
    BY <2>1, <2>6, TailKeepsOrder DEF LogOnlyGrows, TabOnlyAdds
  <2>7. ("plugin" \in fresh /\ work # NoVault => file.audit \subseteq work.audit)'
    BY <2>1 DEF LogOnlyGrows
  <2> QED
    BY <2>5, <2>6, <2>7 DEF LogOnlyGrows
<1>4. ASSUME intact' PROVE OnRecord'
  BY <1>2, <1>4 DEF AuditInv, OnRecord, Recorded
<1> QED
  BY <1>1, <1>3, <1>4 DEF AuditInv

\* Every step keeps the record.
LEMMA AuditStep == TypeOK /\ AuditInv /\ [Next]_vars => AuditInv'
<1> SUFFICES ASSUME TypeOK, AuditInv, [Next]_vars PROVE AuditInv'
  OBVIOUS
<1>1. CASE PluginNext
  BY <1>1, PluginStepsKeepRecord
<1>2. ASSUME NEW t \in Tabs, TabNext(t) PROVE AuditInv'
  <2>1. CASE TabRefreshes(t)
    <3>1. /\ web' = [web EXCEPT ![t] = file] /\ fresh' = fresh \cup {t} /\ outbox[t] = <<>>
          /\ UNCHANGED <<file, work, reply, outbox, released, nextId, intact>>
          /\ web \in [Tabs -> Vault \cup {NoVault}] /\ file # NoVault /\ t # "plugin"
      BY <2>1, ApprovalAssumption DEF TabRefreshes, pluginVars, TypeOK
    <3>2. web'[t] = file /\ \A u \in Tabs : u # t => web'[u] = web[u]
      BY <3>1
    <3>3. CopiesAreSound'
      BY <3>1, <3>2 DEF AuditInv, CopiesAreSound
    <3>4. ASSUME intact PROVE LogOnlyGrows'
      BY <3>1, <3>2, <3>4 DEF AuditInv, LogOnlyGrows, TabOnlyAdds
    <3>5. ASSUME intact PROVE OnRecord'
      BY <3>1, <3>5 DEF AuditInv, OnRecord, Recorded
    <3> QED
      BY <3>1, <3>3, <3>4, <3>5 DEF AuditInv
  <2>2. CASE TabEdits(t)
    BY <2>2, TypeStep, TabEditsKeepRecord
  <2>3. CASE PutArrives(t)
    BY <2>3, DequeueKeepsRecord DEF PutArrives, pluginVars
  <2>4. CASE PutFails(t)
    BY <2>4, DequeueKeepsRecord DEF PutFails, pluginVars
  <2> QED
    BY <1>2, <2>1, <2>2, <2>3, <2>4 DEF TabNext
<1>3. CASE UNCHANGED <<file, work, reply, web, outbox, nextId, released, fresh, intact>>
  BY <1>3 DEF AuditInv, CopiesAreSound, LogOnlyGrows, TabOnlyAdds, OnRecord, Recorded
<1>4. CASE Tick
  BY <1>3, <1>4 DEF Tick, pluginVars, tabVars
<1>5. CASE UNCHANGED vars
  BY <1>3, <1>5 DEF vars
<1> QED
  BY <1>1, <1>2, <1>4, <1>5 DEF Next

\* Nothing has been asked or released at first.
LEMMA AuditInit == Init => AuditInv
<1> SUFFICES ASSUME Init PROVE AuditInv
  OBVIOUS
<1>1. /\ file.queue = {} /\ file.audit = {} /\ work = NoVault /\ reply = NoReply
      /\ released = <<>> /\ fresh = {} /\ nextId = 1 /\ NoReply.id = 0
      /\ \A t \in Tabs : web[t] = NoVault /\ outbox[t] = <<>>
  BY ApprovalAssumption DEF Init, NoReply
<1> QED
  BY <1>1 DEF AuditInv, CopiesAreSound, LogOnlyGrows, TabOnlyAdds, OnRecord, Sound, Numbered, Settled

\* The record that the next two theorems read off.
THEOREM RecordIsKept == Spec => [](TypeOK /\ AuditInv)
<1>1. Init => TypeOK /\ AuditInv
  BY TypeInit, AuditInit
<1>2. TypeOK /\ AuditInv /\ [Next]_vars => (TypeOK /\ AuditInv)'
  BY TypeStep, AuditStep
<1> QED
  BY <1>1, <1>2, PTL DEF Spec

\* One approval, or one automatic decision, releases data at most once: a
\* crash between the write and the answer, a second approval of the agent or a
\* page that still shows the request as pending cannot make it leave again,
\* unless a write overwrote one its writer had not seen.
THEOREM OneReleasePerRequest == Spec => []ApprovedOnce
<1>1. AuditInv => ApprovedOnce
  BY DEF AuditInv, OnRecord, ApprovedOnce
<1> QED
  BY <1>1, RecordIsKept, PTL

\* Under the same condition no data has left that the log on file does not
\* name, with the same id, decision and keys.
THEOREM ReleasesAreOnFile == Spec => []EveryReleaseIsAudited
<1>1. AuditInv => EveryReleaseIsAudited
  BY DEF AuditInv, OnRecord, Recorded, EveryReleaseIsAudited
<1> QED
  BY <1>1, RecordIsKept, PTL
=============================================================================
