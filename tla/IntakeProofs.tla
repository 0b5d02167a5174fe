---------------------------- MODULE IntakeProofs ----------------------------
(***************************************************************************)
(* How facts enter the vault.  FactImport: nothing sensitive enters a       *)
(* persona unasked, and decisions on reviews stand, for any number of       *)
(* overlapping imports, facts and edits, whatever an extraction finds.      *)
(* SourcesPage: an extraction finds what it can quote, for any records,     *)
(* patterns, limits and answers of the model, by induction on what is read. *)
(* SetupFlow: a setup ends with the vault that was confirmed, keeps the     *)
(* rules and log of a vault it finds, and shows every question, for any     *)
(* questionnaires, files and passphrases.                                   *)
(* DataBrowser: what is shown is what is chosen, for any items and runs.    *)
(***************************************************************************)
EXTENDS SourcesPage, SetupFlow, DataBrowser, FiniteSetTheorems, WellFoundedInduction, TLAPS

\* OnlyConfirmedFacts of one copy of the vault.
Confirmed(v) ==
  \A s \in Signatures :
    v.facts[s] # {} /\ (s \in Guarded \/ "high" \in v.facts[s]) => s \in byHand

\* DecisionsStand of one copy, but for the signatures decided since it was made.
StandsBut(v, later) ==
  /\ \A r \in accepted : r.sig \in Home /\ r.sig \notin later =>
       v.facts[r.sig] # {} /\ (r.label = "high" => "high" \in v.facts[r.sig])
  /\ \A o \in v.queue : o.sig \notin later => o.sig \notin rejected

\* Of the vault, and of every vault an import is going to merge into.
CopiesConfirmed ==
  Confirmed(vault) /\ \A i \in Importers : importing[i] # Idle => Confirmed(importing[i])

CopiesStand ==
  /\ StandsBut(vault, {})
  /\ \A i \in Importers : importing[i] # Idle => StandsBut(importing[i], since[i])

\* What an extraction may find: one occurrence of a fact; and a step of imports
\* that find anything of the kind.
Findable(batch) == batch \subseteq Occurrence /\ \A o, p \in batch : o.sig = p.sig => o = p

ImportStep ==
  \/ \E i \in Importers : \/ ImportBegins(i) \/ ImportFails(i)
                          \/ \E b \in SUBSET Occurrence : Findable(b) /\ ImportSaves(i, b)
  \/ UserDecides

LEMMA FoundByImports == Next => ImportStep
BY ImportAssumption DEF Next, ImportStep, Findable

-----------------------------------------------------------------------------
(* What the merges return *)

\* A merge keeps the facts that were there and the strictness of their labels,
\* and adds nothing but the facts it is given.
LEMMA MergedFacts ==
  ASSUME NEW facts \in [Signatures -> SUBSET Labels], NEW new \in SUBSET Occurrence
  PROVE  LET m == mergeImportedPersonas(facts, new) IN
         /\ m \in [Signatures -> SUBSET Labels]
         /\ \A s \in Signatures :
              /\ facts[s] # {} => m[s] # {}
              /\ "high" \in facts[s] => "high" \in m[s]
              /\ m[s] # {} => facts[s] # {} \/ \E o \in new : o.sig = s
              /\ "high" \in m[s] => "high" \in facts[s] \/ \E o \in new : o.sig = s /\ o.label = "high"
         /\ \A o \in new : o.sig \in Home =>
              m[o.sig] # {} /\ (o.label = "high" => "high" \in m[o.sig])
<1> DEFINE m == mergeImportedPersonas(facts, new)
           labels(s) == facts[s] \cup { o.label : o \in { n \in generatePersonas(new) : n.sig = s } }
<1>1. \A s \in Signatures : labels(s) \subseteq Labels
  BY DEF Occurrence, generatePersonas
<1>2. \A L \in SUBSET Labels :
        /\ chooseHigherSensitivity(L) \in SUBSET Labels
        /\ chooseHigherSensitivity(L) # {} <=> L # {}
        /\ "high" \in chooseHigherSensitivity(L) <=> "high" \in L
  BY DEF chooseHigherSensitivity, Labels
<1>3. m = [s \in Signatures |-> chooseHigherSensitivity(labels(s))]
  BY DEF mergeImportedPersonas
<1>4. m \in [Signatures -> SUBSET Labels]
  BY <1>1, <1>2, <1>3
<1>5. \A s \in Signatures :
        /\ m[s] # {} <=> labels(s) # {}
        /\ "high" \in m[s] <=> "high" \in labels(s)
  <2> HIDE DEF labels, m
  <2>1. \A s \in Signatures : m[s] = chooseHigherSensitivity(labels(s))
    BY <1>3
  <2>2. TAKE s \in Signatures
  <2>3. labels(s) \in SUBSET Labels
    BY <1>1
  <2> QED
    BY <1>2, <2>1, <2>3
<1>6. \A s \in Signatures : facts[s] \subseteq labels(s)
  OBVIOUS
<1>7. \A s \in Signatures : \A l \in labels(s) :
        l \in facts[s] \/ \E o \in new : o.sig = s /\ o.label = l
  BY DEF generatePersonas
<1>8. \A o \in new : o.sig \in Home => o.label \in labels(o.sig)
  BY DEF generatePersonas
<1>9. \A o \in new : o.sig \in Signatures
  BY DEF Occurrence
<1> HIDE DEF m, labels
<1> QED
  BY <1>4, <1>5, <1>6, <1>7, <1>8, <1>9 DEF m

\* The review queue stays free of duplicates, and gains only what was found.
LEMMA MergedQueue ==
  ASSUME NEW queue \in SUBSET Occurrence, NEW new \in SUBSET Occurrence,
         OneReviewPerFact(queue), OneReviewPerFact(new)
  PROVE  /\ mergePendingFactReviews(queue, new) \subseteq queue \cup new
         /\ OneReviewPerFact(mergePendingFactReviews(queue, new))
BY DEF mergePendingFactReviews, OneReviewPerFact

LEMMA ImportedVault ==
  ASSUME NEW base \in Vault, OneReviewPerFact(base.queue), NEW batch, Findable(batch)
  PROVE  /\ Imported(base, batch) \in Vault
         /\ OneReviewPerFact(Imported(base, batch).queue)
         /\ Imported(base, batch).facts = mergeImportedPersonas(base.facts, AcceptedFacts(batch))
         /\ Imported(base, batch).queue \subseteq base.queue \cup batch
<1>1. /\ AcceptedFacts(batch) \in SUBSET Occurrence
      /\ PendingReviews(batch) \in SUBSET Occurrence /\ PendingReviews(batch) \subseteq batch
      /\ OneReviewPerFact(PendingReviews(batch))
  BY DEF Findable, AcceptedFacts, PendingReviews, OneReviewPerFact
<1>2. base.facts \in [Signatures -> SUBSET Labels] /\ base.queue \in SUBSET Occurrence
  BY DEF Vault
<1>3. mergeImportedPersonas(base.facts, AcceptedFacts(batch)) \in [Signatures -> SUBSET Labels]
  BY <1>1, <1>2, MergedFacts
<1>4. /\ mergePendingFactReviews(base.queue, PendingReviews(batch)) \subseteq base.queue \cup batch
      /\ OneReviewPerFact(mergePendingFactReviews(base.queue, PendingReviews(batch)))
      /\ mergePendingFactReviews(base.queue, PendingReviews(batch)) \in SUBSET Occurrence
  BY <1>1, <1>2, MergedQueue
<1> QED
  BY <1>3, <1>4 DEF Imported, Vault

\* What an import takes without asking is neither guarded nor of a high label.
LEMMA TakenUnasked ==
  ASSUME NEW batch, NEW o \in AcceptedFacts(batch)
  PROVE  o.sig \notin Guarded /\ o.label # "high"
BY DEF AcceptedFacts, requiresManualConfirmation

LEMMA ImportConfirmed ==
  ASSUME NEW base \in Vault, OneReviewPerFact(base.queue), NEW batch, Findable(batch), Confirmed(base)
  PROVE  Confirmed(Imported(base, batch))
<1>1. base.facts \in [Signatures -> SUBSET Labels] /\ AcceptedFacts(batch) \in SUBSET Occurrence
  BY DEF Findable, Vault, AcceptedFacts
<1> DEFINE m == mergeImportedPersonas(base.facts, AcceptedFacts(batch))
<1>2. \A s \in Signatures :
        /\ m[s] # {} => base.facts[s] # {} \/ \E o \in AcceptedFacts(batch) : o.sig = s
        /\ "high" \in m[s] =>
             "high" \in base.facts[s] \/ \E o \in AcceptedFacts(batch) : o.sig = s /\ o.label = "high"
  BY <1>1, MergedFacts
<1>3. \A o \in AcceptedFacts(batch) : o.sig \notin Guarded /\ o.label # "high"
  BY TakenUnasked
<1>4. Imported(base, batch).facts = m
  BY ImportedVault
<1> HIDE DEF m
<1> QED
  BY <1>2, <1>3, <1>4 DEF Confirmed

-----------------------------------------------------------------------------
(* Types *)

LEMMA InitTyped == Init => TypeOK
<1> SUFFICES ASSUME Init PROVE TypeOK
  OBVIOUS
<1>1. vault \in Vault /\ OneReviewPerFact(vault.queue)
  BY DEF Init, Vault, NoFacts, OneReviewPerFact
<1> QED
  BY <1>1, ImportAssumption DEF Init, TypeOK

\* A review that is accepted or rejected leaves the queue.
LEMMA QueueShrinks ==
  ASSUME NEW queue \in SUBSET Occurrence, OneReviewPerFact(queue), NEW r
  PROVE  /\ WithoutReview(queue, r) \in SUBSET Occurrence
         /\ OneReviewPerFact(WithoutReview(queue, r))
         /\ WithoutReview(queue, r) \subseteq queue
         /\ \A o \in WithoutReview(queue, r) : o.sig # r.sig
BY DEF WithoutReview, OneReviewPerFact

LEMMA NextTyped == TypeOK /\ [ImportStep]_vars => TypeOK'
<1> SUFFICES ASSUME TypeOK, [ImportStep]_vars PROVE TypeOK'
  OBVIOUS
<1> USE ImportAssumption
<1>v. /\ vault \in Vault /\ vault.facts \in [Signatures -> SUBSET Labels]
      /\ vault.queue \in SUBSET Occurrence /\ OneReviewPerFact(vault.queue)
  BY DEF TypeOK, Vault
<1>1. ASSUME NEW i \in Importers, ImportBegins(i) PROVE TypeOK'
  <2>1. importing' \in [Importers -> Vault \cup {Idle}]
    BY <1>1, <1>v DEF TypeOK, ImportBegins
  <2>2. \A j \in Importers : importing'[j] # Idle => OneReviewPerFact(importing'[j].queue)
    BY <1>1, <1>v DEF TypeOK, ImportBegins
  <2>3. begun' \in 0 .. MaxImports /\ since' \in [Importers -> SUBSET Signatures]
    BY <1>1 DEF TypeOK, ImportBegins
  <2> QED
    BY <1>1, <2>1, <2>2, <2>3 DEF TypeOK, ImportBegins
<1>2. ASSUME NEW i \in Importers, NEW b \in SUBSET Occurrence, Findable(b), ImportSaves(i, b) PROVE TypeOK'
  <2>1. importing[i] \in Vault /\ OneReviewPerFact(importing[i].queue)
    BY <1>2 DEF TypeOK, ImportSaves
  <2>2. vault' \in Vault /\ OneReviewPerFact(vault'.queue)
    BY <1>2, <2>1, ImportedVault DEF ImportSaves
  <2>3. /\ importing' \in [Importers -> Vault \cup {Idle}]
        /\ \A j \in Importers : importing'[j] # Idle => OneReviewPerFact(importing'[j].queue)
    BY <1>2 DEF TypeOK, ImportSaves
  <2>4. /\ accepted' \subseteq [sig : Signatures, label : Labels] /\ rejected' \subseteq Signatures
        /\ since' \in [Importers -> SUBSET Signatures]
    BY <1>2 DEF TypeOK, ImportSaves
  <2> QED
    BY <1>2, <2>2, <2>3, <2>4 DEF TypeOK, ImportSaves
<1>3. ASSUME NEW i \in Importers, ImportFails(i) PROVE TypeOK'
  BY <1>3 DEF TypeOK, ImportFails
<1>n. ASSUME NEW s \in Signatures, NotedAs(s) PROVE since' \in [Importers -> SUBSET Signatures]
  BY <1>n DEF TypeOK, NotedAs
<1>4. ASSUME NEW r \in vault.queue, Accepts(r) PROVE TypeOK'
  <2>1. r \in Occurrence /\ r.sig \in Signatures /\ r.label \in Labels /\ {r} \in SUBSET Occurrence
    BY <1>v DEF Occurrence
  <2>2. mergeImportedPersonas(vault.facts, {r}) \in [Signatures -> SUBSET Labels]
    BY <1>v, <2>1, MergedFacts
  <2>3. vault' \in Vault /\ OneReviewPerFact(vault'.queue)
    BY <1>4, <1>v, <2>2, QueueShrinks DEF Accepts, Vault
  <2> QED
    BY <1>4, <1>n, <2>1, <2>3 DEF TypeOK, Accepts
<1>5. ASSUME NEW r \in vault.queue, Rejects(r) PROVE TypeOK'
  <2>1. r.sig \in Signatures
    BY <1>v DEF Occurrence
  <2>2. vault' = [facts |-> vault.facts, queue |-> WithoutReview(vault.queue, r)]
    BY <1>5, <1>v DEF Rejects, Vault
  <2>3. vault' \in Vault /\ OneReviewPerFact(vault'.queue)
    BY <1>v, <2>2, QueueShrinks DEF Vault
  <2> QED
    BY <1>5, <1>n, <2>1, <2>3 DEF TypeOK, Rejects
<1>6. ASSUME NEW s \in Home, NEW l \in Labels, AddsFact(s, l) PROVE TypeOK'
  <2>1. vault' = [facts |-> [vault.facts EXCEPT ![s] = @ \cup {l}], queue |-> vault.queue]
    BY <1>6, <1>v DEF AddsFact, Vault
  <2>2. vault' \in Vault /\ OneReviewPerFact(vault'.queue)
    BY <1>v, <2>1 DEF Vault
  <2>3. edits' \in 0 .. MaxEdits
    BY <1>6 DEF TypeOK, AddsFact
  <2> QED
    BY <1>6, <1>n, <2>2, <2>3 DEF TypeOK, AddsFact
<1>7. ASSUME NEW s \in Home, NEW l \in Labels, DeletesFact(s, l) PROVE TypeOK'
  <2>1. vault' = [facts |-> [vault.facts EXCEPT ![s] = @ \ {l}], queue |-> vault.queue]
    BY <1>7, <1>v DEF DeletesFact, Vault
  <2>2. vault' \in Vault /\ OneReviewPerFact(vault'.queue)
    BY <1>v, <2>1 DEF Vault
  <2> QED
    BY <1>7, <1>n, <2>2 DEF TypeOK, DeletesFact
<1>8. ASSUME NEW s \in Home, NEW l \in Labels, NEW t \in Home, EditsFact(s, l, t) PROVE TypeOK'
  <2>1. vault' = [facts |-> [vault.facts EXCEPT ![s] = @ \ {l}, ![t] = @ \cup {l}], queue |-> vault.queue]
    BY <1>8, <1>v DEF EditsFact, Vault
  <2>2. vault' \in Vault /\ OneReviewPerFact(vault'.queue)
    BY <1>v, <2>1 DEF Vault
  <2>3. edits' \in 0 .. MaxEdits
    BY <1>8 DEF TypeOK, EditsFact
  <2>4. since' \in [Importers -> SUBSET Signatures]
    BY <1>8 DEF TypeOK, EditsFact
  <2> QED
    BY <1>8, <2>2, <2>3, <2>4 DEF TypeOK, EditsFact
<1>9. ASSUME DeletesPersona PROVE TypeOK'
  <2>1. vault' = [facts |-> NoFacts, queue |-> vault.queue]
    BY <1>9, <1>v DEF DeletesPersona, Vault
  <2>2. vault' \in Vault /\ OneReviewPerFact(vault'.queue)
    BY <1>v, <2>1 DEF Vault, NoFacts
  <2> QED
    BY <1>9, <2>2 DEF TypeOK, DeletesPersona
<1>10. CASE UNCHANGED vars
  BY <1>10 DEF TypeOK, vars
<1> QED
  BY <1>1, <1>2, <1>3, <1>4, <1>5, <1>6, <1>7, <1>8, <1>9, <1>10 DEF ImportStep, UserDecides

\* Every variable of the import keeps its type, and no fact is queued for review
\* twice, whatever imports overlap.
THEOREM Typing == Spec => []TypeOK
BY InitTyped, NextTyped, FoundByImports, PTL DEF Spec

-----------------------------------------------------------------------------
(* Only confirmed facts *)

\* Confirmed, with the signatures confirmed by hand as an argument.
ConfirmedBy(v, hand) ==
  \A s \in Signatures :
    v.facts[s] # {} /\ (s \in Guarded \/ "high" \in v.facts[s]) => s \in hand

\* A step keeps the copies confirmed if it takes back no confirmation, copies
\* nothing but the vault, and leaves the vault confirmed.
LEMMA ConfirmedStep ==
  ASSUME CopiesConfirmed, byHand \subseteq byHand', ConfirmedBy(vault', byHand'),
         \A i \in Importers : importing'[i] \in {Idle, vault, importing[i]}
  PROVE  CopiesConfirmed'
<1>1. \A i \in Importers : importing'[i] # Idle => ConfirmedBy(importing'[i], byHand)
  BY DEF CopiesConfirmed, Confirmed, ConfirmedBy
<1>2. \A i \in Importers : importing'[i] # Idle => ConfirmedBy(importing'[i], byHand')
  BY <1>1 DEF ConfirmedBy
<1> QED
  BY <1>2 DEF CopiesConfirmed, Confirmed, ConfirmedBy

LEMMA NextConfirmed == TypeOK /\ CopiesConfirmed /\ [ImportStep]_vars => CopiesConfirmed'
<1> SUFFICES ASSUME TypeOK, CopiesConfirmed, [ImportStep]_vars PROVE CopiesConfirmed'
  OBVIOUS
<1> USE ImportAssumption
<1>v. /\ vault \in Vault /\ vault.facts \in [Signatures -> SUBSET Labels]
      /\ vault.queue \in SUBSET Occurrence
  BY DEF TypeOK, Vault
<1>c. ConfirmedBy(vault, byHand)
  BY DEF CopiesConfirmed, Confirmed, ConfirmedBy
<1>1. ASSUME NEW i \in Importers, ImportBegins(i) PROVE CopiesConfirmed'
  BY <1>1, <1>c, ConfirmedStep DEF TypeOK, ImportBegins
<1>2. ASSUME NEW i \in Importers, NEW b \in SUBSET Occurrence, Findable(b), ImportSaves(i, b) PROVE CopiesConfirmed'
  <2>1. importing[i] \in Vault /\ OneReviewPerFact(importing[i].queue) /\ Confirmed(importing[i])
    BY <1>2 DEF TypeOK, ImportSaves, CopiesConfirmed
  <2>2. Confirmed(Imported(importing[i], b))
    BY <1>2, <2>1, ImportConfirmed
  <2>3. ConfirmedBy(vault', byHand') /\ byHand' = byHand
    BY <1>2, <2>2 DEF Confirmed, ConfirmedBy, ImportSaves
  <2> QED
    BY <1>2, <2>3, ConfirmedStep DEF TypeOK, ImportSaves
<1>3. ASSUME NEW i \in Importers, ImportFails(i) PROVE CopiesConfirmed'
  BY <1>3, <1>c, ConfirmedStep DEF TypeOK, ImportFails
<1>4. ASSUME NEW r \in vault.queue, Accepts(r) PROVE CopiesConfirmed'
  <2>1. r \in Occurrence /\ {r} \in SUBSET Occurrence
    BY <1>v
  <2>2. \A s \in Signatures :
          /\ vault'.facts[s] # {} => vault.facts[s] # {} \/ s = r.sig
          /\ "high" \in vault'.facts[s] => "high" \in vault.facts[s] \/ s = r.sig
    BY <1>4, <1>v, <2>1, MergedFacts DEF Accepts
  <2>3. ConfirmedBy(vault', byHand')
    BY <1>4, <1>c, <2>2 DEF ConfirmedBy, Accepts
  <2> QED
    BY <1>4, <2>3, ConfirmedStep DEF Accepts
<1>5. ASSUME NEW r \in vault.queue, Rejects(r) PROVE CopiesConfirmed'
  <2>1. vault'.facts = vault.facts
    BY <1>5, <1>v DEF Rejects, Vault
  <2> QED
    BY <1>5, <1>c, <2>1, ConfirmedStep DEF ConfirmedBy, Rejects
<1>6. ASSUME NEW s \in Home, NEW l \in Labels, AddsFact(s, l) PROVE CopiesConfirmed'
  <2>1. \A x \in Signatures \ {s} : vault'.facts[x] = vault.facts[x]
    BY <1>6, <1>v DEF AddsFact, Vault
  <2>2. ConfirmedBy(vault', byHand')
    BY <1>6, <1>c, <2>1 DEF ConfirmedBy, AddsFact
  <2> QED
    BY <1>6, <2>2, ConfirmedStep DEF AddsFact
<1>7. ASSUME NEW s \in Home, NEW l \in Labels, DeletesFact(s, l) PROVE CopiesConfirmed'
  <2>1. \A x \in Signatures : vault'.facts[x] \subseteq vault.facts[x]
    BY <1>7, <1>v DEF DeletesFact, Vault
  <2>2. ConfirmedBy(vault', byHand')
    BY <1>7, <1>c, <2>1 DEF ConfirmedBy, DeletesFact
  <2> QED
    BY <1>7, <2>2, ConfirmedStep DEF DeletesFact
<1>8. ASSUME NEW s \in Home, NEW l \in Labels, NEW t \in Home, EditsFact(s, l, t) PROVE CopiesConfirmed'
  <2>1. \A x \in Signatures \ {t} : vault'.facts[x] \subseteq vault.facts[x]
    BY <1>8, <1>v DEF EditsFact, Vault
  <2>2. ConfirmedBy(vault', byHand')
    BY <1>8, <1>c, <2>1 DEF ConfirmedBy, EditsFact
  <2> QED
    BY <1>8, <2>2, ConfirmedStep DEF EditsFact
<1>9. ASSUME DeletesPersona PROVE CopiesConfirmed'
  <2>1. \A x \in Signatures : vault'.facts[x] = {}
    BY <1>9, <1>v DEF DeletesPersona, Vault, NoFacts
  <2>2. ConfirmedBy(vault', byHand')
    BY <2>1 DEF ConfirmedBy
  <2> QED
    BY <1>9, <2>2, ConfirmedStep DEF DeletesPersona
<1>10. CASE UNCHANGED vars
  BY <1>10 DEF vars, CopiesConfirmed, Confirmed
<1> QED
  BY <1>1, <1>2, <1>3, <1>4, <1>5, <1>6, <1>7, <1>8, <1>9, <1>10 DEF ImportStep, UserDecides

\* A guarded or high fact is in a persona only if the user accepted or added it:
\* the same must hold of what every import under way is going to merge into.
THEOREM NothingSensitiveUnasked == Spec => []OnlyConfirmedFacts
<1>1. Init => CopiesConfirmed
  BY DEF Init, CopiesConfirmed, Confirmed, NoFacts
<1>2. CopiesConfirmed => OnlyConfirmedFacts
  BY DEF CopiesConfirmed, Confirmed, OnlyConfirmedFacts
<1> QED
  BY <1>1, <1>2, NextConfirmed, FoundByImports, Typing, PTL DEF Spec

-----------------------------------------------------------------------------
(* Decisions *)

\* The bookkeeping of a decision on a signature: it is later than every copy.
LEMMA DecidedLater ==
  ASSUME TypeOK, NEW s, NotedAs(s), UNCHANGED importing, NEW i \in Importers, importing[i] # Idle
  PROVE  since'[i] = since[i] \cup {s}
BY DEF TypeOK, NotedAs

\* Decisions that are added concern signatures noted as decided later.
LEMMA StandsStep ==
  ASSUME CopiesStand, UNCHANGED importing, StandsBut(vault, {})',
         \A r \in accepted' : r \in accepted \/ \A i \in Importers : importing[i] # Idle => r.sig \in since'[i],
         \A s \in rejected' : s \in rejected \/ \A i \in Importers : importing[i] # Idle => s \in since'[i],
         \A i \in Importers : importing[i] # Idle => since[i] \subseteq since'[i]
  PROVE  CopiesStand'
<1> SUFFICES ASSUME NEW i \in Importers, importing[i] # Idle
             PROVE  StandsBut(importing[i], since[i])'
  BY DEF CopiesStand
<1>1. StandsBut(importing[i], since[i]) /\ importing'[i] = importing[i]
  BY DEF CopiesStand
<1> QED
  BY <1>1 DEF StandsBut

LEMMA NextStands == TypeOK /\ CopiesStand /\ [ImportStep]_vars => CopiesStand'
<1> SUFFICES ASSUME TypeOK, CopiesStand, [ImportStep]_vars PROVE CopiesStand'
  OBVIOUS
<1> USE ImportAssumption
<1>v. /\ vault \in Vault /\ vault.facts \in [Signatures -> SUBSET Labels]
      /\ vault.queue \in SUBSET Occurrence /\ OneReviewPerFact(vault.queue)
      /\ StandsBut(vault, {})
  BY DEF TypeOK, Vault, CopiesStand
<1>t. /\ \A r \in accepted : r.sig \in Signatures
      /\ Home \subseteq Signatures
  BY DEF TypeOK
<1>1. ASSUME NEW i \in Importers, ImportBegins(i) PROVE CopiesStand'
  <2>1. /\ importing' = [importing EXCEPT ![i] = vault] /\ since' = [since EXCEPT ![i] = {}]
        /\ UNCHANGED <<vault, accepted, rejected>>
    BY <1>1 DEF ImportBegins
  <2>2. StandsBut(vault, {})'
    BY <1>v, <2>1 DEF StandsBut
  <2>3. ASSUME NEW j \in Importers, importing'[j] # Idle PROVE StandsBut(importing[j], since[j])'
    <3>1. CASE j = i
      <4>1. importing'[j] = vault /\ since'[j] = {}
        BY <2>1, <3>1 DEF TypeOK
      <4> QED
        BY <1>v, <2>1, <4>1 DEF StandsBut
    <3>2. CASE j # i
      <4>1. importing'[j] = importing[j] /\ since'[j] = since[j] /\ StandsBut(importing[j], since[j])
        BY <2>1, <2>3, <3>2 DEF TypeOK, CopiesStand
      <4> QED
        BY <2>1, <4>1 DEF StandsBut
    <3> QED
      BY <3>1, <3>2
  <2> QED
    BY <2>2, <2>3 DEF CopiesStand
<1>2. ASSUME NEW i \in Importers, NEW b \in SUBSET Occurrence, Findable(b), ImportSaves(i, b) PROVE CopiesStand'
  <2>1. /\ importing[i] \in Vault /\ OneReviewPerFact(importing[i].queue)
        /\ StandsBut(importing[i], since[i])
    BY <1>2 DEF TypeOK, ImportSaves, CopiesStand
  <2>2. /\ accepted' = {r \in accepted : r.sig \notin since[i]}
        /\ rejected' = {s \in rejected : s \notin since[i] /\ \A o \in b : o.sig # s}
        /\ vault' = Imported(importing[i], b)
    BY <1>2 DEF ImportSaves
  <2>3. /\ importing[i].facts \in [Signatures -> SUBSET Labels]
        /\ AcceptedFacts(b) \in SUBSET Occurrence
    BY <2>1 DEF Vault, AcceptedFacts
  <2>4. \A s \in Signatures :
          /\ importing[i].facts[s] # {} => vault'.facts[s] # {}
          /\ "high" \in importing[i].facts[s] => "high" \in vault'.facts[s]
    BY <1>2, <2>1, <2>2, <2>3, ImportedVault, MergedFacts
  <2>5. vault'.queue \subseteq importing[i].queue \cup b
    BY <1>2, <2>1, <2>2, ImportedVault
  <2>6. \A r \in accepted' : r.sig \in Home =>
          vault'.facts[r.sig] # {} /\ (r.label = "high" => "high" \in vault'.facts[r.sig])
    BY <1>t, <2>1, <2>2, <2>4 DEF StandsBut
  <2>7. \A o \in vault'.queue : o.sig \notin rejected'
    BY <2>1, <2>2, <2>5 DEF StandsBut
  <2>8. ASSUME NEW j \in Importers, importing'[j] # Idle PROVE StandsBut(importing[j], since[j])'
    <3>1. j # i /\ importing'[j] = importing[j] /\ since'[j] = since[j]
      BY <1>2, <2>8 DEF TypeOK, ImportSaves
    <3>2. StandsBut(importing[j], since[j])
      BY <2>8, <3>1 DEF CopiesStand
    <3> QED
      BY <2>2, <3>1, <3>2 DEF StandsBut
  <2>9. StandsBut(vault, {})'
    BY <2>6, <2>7 DEF StandsBut
  <2> QED
    BY <2>8, <2>9 DEF CopiesStand
<1>3. ASSUME NEW i \in Importers, ImportFails(i) PROVE CopiesStand'
  <2>1. UNCHANGED <<vault, accepted, rejected>>
    BY <1>3 DEF ImportFails
  <2>2. ASSUME NEW j \in Importers, importing'[j] # Idle PROVE StandsBut(importing[j], since[j])'
    <3>1. j # i /\ importing'[j] = importing[j] /\ since'[j] = since[j]
      BY <1>3, <2>2 DEF TypeOK, ImportFails
    <3>2. StandsBut(importing[j], since[j])
      BY <2>2, <3>1 DEF CopiesStand
    <3> QED
      BY <2>1, <3>1, <3>2 DEF StandsBut
  <2>3. StandsBut(vault, {})'
    BY <1>v, <2>1 DEF StandsBut
  <2> QED
    BY <2>2, <2>3 DEF CopiesStand
<1>4. ASSUME NEW r \in vault.queue, Accepts(r) PROVE CopiesStand'
  <2>1. r \in Occurrence /\ {r} \in SUBSET Occurrence /\ r.sig \in Signatures
    BY <1>v DEF Occurrence
  <2>2. /\ vault'.facts = mergeImportedPersonas(vault.facts, {r})
        /\ vault'.queue = WithoutReview(vault.queue, r)
        /\ accepted' = accepted \cup {[sig |-> r.sig, label |-> r.label]}
        /\ UNCHANGED <<importing, rejected>> /\ NotedAs(r.sig)
    BY <1>4 DEF Accepts
  <2>3. /\ \A s \in Signatures :
             /\ vault.facts[s] # {} => vault'.facts[s] # {}
             /\ "high" \in vault.facts[s] => "high" \in vault'.facts[s]
        /\ r.sig \in Home => vault'.facts[r.sig] # {} /\ (r.label = "high" => "high" \in vault'.facts[r.sig])
    BY <1>v, <2>1, <2>2, MergedFacts
  <2>4. vault'.queue \subseteq vault.queue
    BY <1>v, <2>2, QueueShrinks
  <2>5. \A x \in accepted' : x.sig \in Home =>
          vault'.facts[x.sig] # {} /\ (x.label = "high" => "high" \in vault'.facts[x.sig])
    <3>1. \A x \in accepted : x.sig \in Home =>
            vault'.facts[x.sig] # {} /\ (x.label = "high" => "high" \in vault'.facts[x.sig])
      BY <1>v, <1>t, <2>3 DEF StandsBut
    <3>2. \A x \in accepted' : x \in accepted \/ (x.sig = r.sig /\ x.label = r.label)
      BY <2>2
    <3> QED
      BY <2>3, <3>1, <3>2
  <2>6. \A o \in vault'.queue : o.sig \notin rejected'
    BY <1>v, <2>2, <2>4 DEF StandsBut
  <2>7. StandsBut(vault, {})'
    BY <2>5, <2>6 DEF StandsBut
  <2> QED
    BY <2>2, <2>7, DecidedLater, StandsStep
<1>5. ASSUME NEW r \in vault.queue, Rejects(r) PROVE CopiesStand'
  <2>1. /\ vault'.facts = vault.facts /\ vault'.queue = WithoutReview(vault.queue, r)
        /\ rejected' = rejected \cup {r.sig}
        /\ UNCHANGED <<importing, accepted>> /\ NotedAs(r.sig)
    BY <1>5, <1>v DEF Rejects, Vault
  <2>2. vault'.queue \subseteq vault.queue /\ \A o \in vault'.queue : o.sig # r.sig
    BY <1>v, <2>1, QueueShrinks
  <2>3. StandsBut(vault, {})'
    BY <1>v, <2>1, <2>2 DEF StandsBut
  <2> QED
    BY <2>1, <2>3, DecidedLater, StandsStep
<1>6. ASSUME NEW s \in Home, NEW l \in Labels, AddsFact(s, l) PROVE CopiesStand'
  <2>1. /\ vault'.queue = vault.queue /\ vault'.facts = [vault.facts EXCEPT ![s] = @ \cup {l}]
        /\ UNCHANGED <<importing, accepted, rejected>> /\ NotedAs(s)
    BY <1>6, <1>v DEF AddsFact, Vault
  <2>2. \A x \in Signatures : vault.facts[x] \subseteq vault'.facts[x]
    BY <1>v, <2>1
  <2>3. StandsBut(vault, {})'
    BY <1>v, <1>t, <2>1, <2>2 DEF StandsBut
  <2> QED
    BY <2>1, <2>3, DecidedLater, StandsStep
<1>7. ASSUME NEW s \in Home, NEW l \in Labels, DeletesFact(s, l) PROVE CopiesStand'
  <2>1. /\ vault'.queue = vault.queue /\ \A x \in Signatures \ {s} : vault'.facts[x] = vault.facts[x]
        /\ accepted' = {r \in accepted : r.sig # s}
        /\ UNCHANGED <<importing, rejected>> /\ NotedAs(s)
    BY <1>7, <1>v DEF DeletesFact, Vault
  <2>2. StandsBut(vault, {})'
    BY <1>v, <1>t, <2>1 DEF StandsBut
  <2> QED
    BY <2>1, <2>2, DecidedLater, StandsStep
<1>8. ASSUME NEW s \in Home, NEW l \in Labels, NEW t \in Home, EditsFact(s, l, t) PROVE CopiesStand'
  <2>1. /\ vault'.queue = vault.queue
        /\ \A x \in Signatures \ {s} : vault.facts[x] \subseteq vault'.facts[x]
    BY <1>8, <1>v DEF EditsFact, Vault
  <2>2. /\ accepted' = {r \in accepted : r.sig # s} /\ UNCHANGED <<importing, rejected>>
        /\ \A i \in Importers : importing[i] # Idle => since'[i] = since[i] \cup {s, t}
    BY <1>8 DEF EditsFact
  <2>3. StandsBut(vault, {})'
    BY <1>v, <1>t, <2>1, <2>2 DEF StandsBut
  <2> QED
    BY <2>2, <2>3, StandsStep
<1>9. ASSUME DeletesPersona PROVE CopiesStand'
  <2>1. /\ vault'.queue = vault.queue /\ accepted' = {} /\ UNCHANGED <<importing, rejected>>
        /\ \A i \in Importers : importing[i] # Idle => since'[i] = Signatures
    BY <1>9, <1>v DEF DeletesPersona, Vault
  <2>2. StandsBut(vault, {})'
    BY <1>v, <2>1 DEF StandsBut
  <2>3. \A i \in Importers : since[i] \subseteq Signatures
    BY DEF TypeOK
  <2> QED
    BY <2>1, <2>2, <2>3, StandsStep
<1>10. CASE UNCHANGED vars
  BY <1>10 DEF vars, CopiesStand, StandsBut
<1> QED
  BY <1>1, <1>2, <1>3, <1>4, <1>5, <1>6, <1>7, <1>8, <1>9, <1>10 DEF ImportStep, UserDecides

\* Only an import that began before a decision and saves after it undoes it:
\* every copy an import holds respects all decisions but the later ones.
THEOREM ReviewsStand == Spec => []DecisionsStand
<1>1. Init => CopiesStand
  BY DEF Init, CopiesStand, StandsBut
<1>2. CopiesStand => DecisionsStand
  BY DEF CopiesStand, StandsBut, DecisionsStand
<1> QED
  BY <1>1, <1>2, NextStands, FoundByImports, Typing, PTL DEF Spec

-----------------------------------------------------------------------------
(* Induction on the steps of a computation *)

\* The first of some numbers.
LEMMA FirstOf ==
  ASSUME NEW T \in SUBSET Nat, T # {}
  PROVE  \E n \in T : \A m \in T : n <= m
<1> DEFINE R == {ss \in Nat \X Nat : ss[1] < ss[2]}
<1>1. IsWellFoundedOn(R, Nat)
  BY NatLessThanWellFounded DEF OpToRel
<1>2. \A x \in T, y \in T : y < x => <<y, x>> \in R
  OBVIOUS
<1> HIDE DEF R
<1>3. PICK x \in T : \A y \in T : <<y, x>> \notin R
  BY <1>1, WFMin
<1>4. \A y \in T : ~(y < x)
  BY <1>2, <1>3
<1> QED
  BY <1>4

\* Induction on what a function tells of the numbers up to n.
LEMMA StepByStep ==
  ASSUME NEW n \in Nat, NEW P, P \in [0 .. n -> BOOLEAN], P[0], \A i \in 1 .. n : P[i - 1] => P[i]
  PROVE  \A i \in 0 .. n : P[i]
<1> DEFINE T == {i \in 0 .. n : ~P[i]}
<1> SUFFICES ASSUME T # {} PROVE FALSE
  OBVIOUS
<1>1. T \in SUBSET Nat
  OBVIOUS
<1>2. PICK i \in T : \A m \in T : i <= m
  <2> HIDE DEF T
  <2> QED BY FirstOf, <1>1
<1>3. i \in 1 .. n /\ i - 1 \in 0 .. n /\ i - 1 \notin T
  BY <1>2
<1> QED
  BY <1>2, <1>3

\* g is what n steps of F make of base, one after the other.
Stepped(g, A, base, n, F) ==
  /\ g[0] = base /\ \A m \in 0 .. n : g[m] \in A
  /\ \A m \in 1 .. n : g[m] = F[<<g[m - 1], m>>]

LEMMA Place ==
  ASSUME NEW n \in Nat
  PROVE  /\ 0 \in 0 .. n /\ n \in 0 .. n
         /\ \A m \in 0 .. n : m # 0 => m \in 1 .. n
         /\ \A m \in 1 .. n : m # 0 /\ m \in 0 .. n /\ m - 1 \in 0 .. n
OBVIOUS

LEMMA StepsExist ==
  ASSUME NEW A, NEW base \in A, NEW n \in Nat, NEW F \in [A \X (1 .. n) -> A]
  PROVE  \E g \in [0 .. n -> A] : Stepped(g, A, base, n, F)
<1> DEFINE P == [m \in 0 .. n |-> \E g \in [0 .. m -> A] : Stepped(g, A, base, m, F)]
<1>1. P[0]
  <2> DEFINE g == [m \in 0 .. 0 |-> base]
  <2>1. g \in [0 .. 0 -> A] /\ Stepped(g, A, base, 0, F)
    BY DEF Stepped
  <2> HIDE DEF g
  <2> QED BY <2>1
<1>2. ASSUME NEW m \in 1 .. n, P[m - 1] PROVE P[m]
  <2>1. PICK g \in [0 .. m - 1 -> A] : Stepped(g, A, base, m - 1, F)
    <3>1. m - 1 \in 0 .. n
      OBVIOUS
    <3> QED BY <1>2, <3>1
  <2> DEFINE h == [k \in 0 .. m |-> IF k = m THEN F[<<g[m - 1], m>>] ELSE g[k]]
  <2>2. m - 1 \in 0 .. m - 1 /\ g[m - 1] \in A /\ F[<<g[m - 1], m>>] \in A
    BY <2>1
  <2>3. \A k \in 0 .. m : k # m => k \in 0 .. m - 1
    OBVIOUS
  <2>4. h \in [0 .. m -> A] /\ h[0] = base
    BY <2>1, <2>2, <2>3 DEF Stepped
  <2>5. ASSUME NEW k \in 1 .. m PROVE h[k] = F[<<h[k - 1], k>>]
    <3>1. k \in 0 .. m /\ k - 1 \in 0 .. m /\ k - 1 # m
      OBVIOUS
    <3>2. h[k - 1] = g[k - 1]
      BY <3>1
    <3>3. CASE k = m
      BY <3>1, <3>2, <3>3
    <3>4. CASE k # m
      <4>1. k \in 1 .. m - 1 /\ h[k] = g[k]
        BY <3>1, <3>4
      <4> QED BY <3>2, <4>1, <2>1 DEF Stepped
    <3> QED BY <3>3, <3>4
  <2>6. Stepped(h, A, base, m, F)
    BY <2>4, <2>5 DEF Stepped
  <2> HIDE DEF h
  <2> QED BY <2>4, <2>6
<1>3. P \in [0 .. n -> BOOLEAN]
  OBVIOUS
<1>4. P[n]
  <2> HIDE DEF P
  <2> QED BY <1>1, <1>2, <1>3, StepByStep
<1> QED
  BY <1>4

\* What is computed by such steps as long as it stays in A does stay there.
LEMMA StepsStay ==
  ASSUME NEW A, NEW base \in A, NEW n \in Nat, NEW F \in [A \X (1 .. n) -> A], NEW g, g[0] = base,
         \A m \in 1 .. n : g[m - 1] \in A => g[m] = F[<<g[m - 1], m>>]
  PROVE  Stepped(g, A, base, n, F)
<1> DEFINE P == [m \in 0 .. n |-> g[m] \in A]
<1>1. P \in [0 .. n -> BOOLEAN]
  OBVIOUS
<1>p. P[0]
  BY Place
<1>2. ASSUME NEW m \in 1 .. n, P[m - 1] PROVE P[m]
  <2>1. m - 1 \in 0 .. n /\ m \in 0 .. n
    BY Place
  <2>2. g[m - 1] \in A
    BY <1>2, <2>1
  <2> QED BY <2>1, <2>2
<1>3. \A m \in 0 .. n : P[m]
  <2> HIDE DEF P
  <2> QED BY <1>1, <1>p, <1>2, StepByStep
<1>4. \A m \in 0 .. n : g[m] \in A
  BY <1>3
<1> QED
  BY <1>4, Place DEF Stepped

-----------------------------------------------------------------------------
(* Folds *)

\* What is kept are items at the positions that are asked for.
LEMMA KeptItems ==
  ASSUME NEW S, NEW items \in Seq(S), NEW which
  PROVE  Kept(items, which) \in Seq({ items[n] : n \in { k \in 1 .. Len(items) : k \in which } })
<1> DEFINE n == Len(items)
           A == Seq({ items[m] : m \in { k \in 1 .. Len(items) : k \in which } })
           op(a, m) == IF m \in which THEN Append(a, items[m]) ELSE a
           Is(g) == g = [m \in 0 .. n |-> IF m = 0 THEN <<>> ELSE op(g[m - 1], m)]
           g0 == CHOOSE g : Is(g)
           F == [p \in A \X (1 .. n) |-> op(p[1], p[2])]
<1>1. Kept(items, which) = g0[n]
  BY DEF Kept, ReduceIndices
<1>2. n \in Nat /\ <<>> \in A
  OBVIOUS
<1>3. F \in [A \X (1 .. n) -> A] /\ \A a \in A, m \in 1 .. n : F[<<a, m>>] = op(a, m)
  OBVIOUS
<1> HIDE DEF F, op, n, A
<1>4. PICK g \in [0 .. n -> A] : Stepped(g, A, <<>>, n, F)
  BY <1>2, <1>3, StepsExist
<1>5. Is(g)
  <2>1. \A m \in 0 .. n : m # 0 => g[m] = op(g[m - 1], m)
    BY <1>2, <1>3, <1>4, Place DEF Stepped
  <2> QED BY <1>4, <2>1 DEF Stepped
<1>6. Is(g0)
  <2> HIDE DEF Is
  <2> QED BY <1>5
<1> HIDE DEF g0
<1>7. g0[0] = <<>> /\ \A m \in 1 .. n : g0[m] = op(g0[m - 1], m)
  BY <1>2, <1>6, Place
<1>8. Stepped(g0, A, <<>>, n, F)
  BY <1>2, <1>3, <1>7, StepsStay
<1>9. g0[n] \in A
  BY <1>2, <1>8, Place DEF Stepped
<1> QED
  BY <1>1, <1>9 DEF A

\* The length of a text is a number.
LEMMA Lengths ==
  ASSUME NEW text \in Seq(Sentences)
  PROVE  LengthOf(text) \in Nat /\ (text = <<>> => LengthOf(text) = 0)
<1> DEFINE n == Len(text)
           A == Nat
           op(a, m) == a + text[m].length + 1
           Is(g) == g = [m \in 0 .. n |-> IF m = 0 THEN 0 ELSE op(g[m - 1], m)]
           g0 == CHOOSE g : Is(g)
           F == [p \in A \X (1 .. n) |-> op(p[1], p[2])]
<1>1. LengthOf(text) = g0[n]
  BY DEF LengthOf, Reduce
<1>l. \A m \in 1 .. n : text[m].length \in Nat
  BY ExtractionAssumption
<1>2. n \in Nat /\ 0 \in A
  OBVIOUS
<1>3. F \in [A \X (1 .. n) -> A] /\ \A a \in A, m \in 1 .. n : F[<<a, m>>] = op(a, m)
  BY <1>l
<1> HIDE DEF F, op, n, A
<1>4. PICK g \in [0 .. n -> A] : Stepped(g, A, 0, n, F)
  BY <1>2, <1>3, StepsExist
<1>5. Is(g)
  <2>1. \A m \in 0 .. n : m # 0 => g[m] = op(g[m - 1], m)
    BY <1>2, <1>3, <1>4, Place DEF Stepped
  <2> QED BY <1>4, <2>1 DEF Stepped
<1>6. Is(g0)
  <2> HIDE DEF Is
  <2> QED BY <1>5
<1> HIDE DEF g0
<1>7. g0[0] = 0 /\ \A m \in 1 .. n : g0[m] = op(g0[m - 1], m)
  BY <1>2, <1>6, Place
<1>8. Stepped(g0, A, 0, n, F)
  BY <1>2, <1>3, <1>7, StepsStay
<1>9. g0[n] \in A
  BY <1>2, <1>8, Place DEF Stepped
<1>10. text = <<>> => n = 0
  BY DEF n
<1> QED
  BY <1>1, <1>7, <1>9, <1>10 DEF A

-----------------------------------------------------------------------------
(* Facts and the quotes they are taken from *)

\* Facts that are quoted from some of the quotes Q.
Entry(Q)       == [confidence : 0 .. 100, label : Labels, quotes : SUBSET Q]
Collections(Q) == { k \in UNION { [D -> Entry(Q)] : D \in SUBSET Signatures } : IsFiniteSet(DOMAIN k) }

LEMMA CollectionParts ==
  ASSUME NEW Q, NEW k
  PROVE  k \in Collections(Q) <=>
           /\ k = [x \in DOMAIN k |-> k[x]] /\ DOMAIN k \subseteq Signatures /\ IsFiniteSet(DOMAIN k)
           /\ \A x \in DOMAIN k : k[x] \in Entry(Q)
BY DEF Collections

LEMMA NothingCollected == ASSUME NEW Q PROVE Nothing \in Collections(Q) /\ DOMAIN Nothing = {}
<1>1. DOMAIN Nothing = {} /\ Nothing = [x \in DOMAIN Nothing |-> Nothing[x]]
  BY DEF Nothing
<1> HIDE DEF Nothing
<1> QED
  BY <1>1, FS_EmptySet, CollectionParts

\* What the patterns find in a sentence, one finding for each fact.
LEMMA Findings ==
  ASSUME NEW s \in Sentences
  PROVE  /\ FactsOf(s) \subseteq Signatures /\ IsFiniteSet(FactsOf(s))
         /\ \A x \in FactsOf(s) : LET f == CHOOSE g \in s.says : g.fact = x IN
              f \in s.says /\ f.fact = x /\ f.confidence \in 0 .. 100 /\ f.label \in Labels
<1>1. s.says \subseteq Finding /\ IsFiniteSet(s.says)
  BY ExtractionAssumption
<1>2. FactsOf(s) \subseteq Signatures
  BY PageAssumption
<1>3. IsFiniteSet(FactsOf(s))
  <2> DEFINE name == [f \in s.says |-> f.fact]
  <2>1. name \in Surjection(s.says, FactsOf(s))
    BY DEF FactsOf, Surjection
  <2> QED BY <1>1, <2>1, FS_Surjection
<1>4. ASSUME NEW x \in FactsOf(s) PROVE \E g \in s.says : g.fact = x
  BY <1>4 DEF FactsOf
<1> QED
  BY <1>1, <1>2, <1>3, <1>4 DEF Finding, Labels

Grown(Q, k, s, after) ==
  /\ after \in Collections(Q)
  /\ DOMAIN after = DOMAIN k \cup FactsOf(s)
  /\ \A x \in DOMAIN after \ DOMAIN k : after[x].quotes = {}
  /\ \A x \in DOMAIN k : after[x].quotes = k[x].quotes /\ (x \notin FactsOf(s) => after[x] = k[x])

\* A sentence adds its facts, and makes those that are known no less typed.
LEMMA StableFacts ==
  ASSUME NEW Q, NEW k \in Collections(Q), NEW s \in Sentences
  PROVE  Grown(Q, k, s, extractStableFacts(k, s))
<1> DEFINE after == extractStableFacts(k, s)
           f(x) == CHOOSE g \in s.says : g.fact = x
<1>1. /\ after = [x \in DOMAIN after |-> after[x]] /\ DOMAIN after = DOMAIN k \cup FactsOf(s)
      /\ \A x \in DOMAIN after : after[x] = IF x \in FactsOf(s) THEN addSourceFact(k, f(x)) ELSE k[x]
  BY DEF extractStableFacts
<1>2. /\ k = [x \in DOMAIN k |-> k[x]] /\ DOMAIN k \subseteq Signatures /\ IsFiniteSet(DOMAIN k)
      /\ \A x \in DOMAIN k : k[x] \in Entry(Q)
  BY CollectionParts
<1>3. /\ FactsOf(s) \subseteq Signatures /\ IsFiniteSet(FactsOf(s))
      /\ \A x \in FactsOf(s) : f(x).fact = x /\ f(x).confidence \in 0 .. 100 /\ f(x).label \in Labels
  BY Findings
<1> HIDE DEF after, f
<1>4. ASSUME NEW x \in FactsOf(s), x \in DOMAIN k
      PROVE  after[x] \in Entry(Q) /\ after[x].quotes = k[x].quotes
  <2>1. after[x] = [k[x] EXCEPT !.confidence = Smaller(95, @ + 10)]
    BY <1>1, <1>3, <1>4 DEF addSourceFact
  <2>2. k[x] \in Entry(Q) /\ k[x].confidence \in 0 .. 100
    BY <1>2, <1>4 DEF Entry
  <2>3. Smaller(95, k[x].confidence + 10) \in 0 .. 100
    BY <2>2 DEF Smaller
  <2> QED BY <2>1, <2>2, <2>3 DEF Entry
<1>5. ASSUME NEW x \in FactsOf(s), x \notin DOMAIN k
      PROVE  after[x] \in Entry(Q) /\ after[x].quotes = {}
  <2>1. after[x] = [confidence |-> f(x).confidence, label |-> f(x).label, quotes |-> {}]
    BY <1>1, <1>3, <1>5 DEF addSourceFact
  <2> QED BY <1>3, <2>1 DEF Entry
<1>6. \A x \in DOMAIN k \ FactsOf(s) : after[x] = k[x] /\ after[x] \in Entry(Q)
  BY <1>1, <1>2
<1>7. \A x \in DOMAIN after : after[x] \in Entry(Q)
  BY <1>1, <1>4, <1>5, <1>6
<1>8. DOMAIN after \subseteq Signatures /\ IsFiniteSet(DOMAIN after)
  <2>1. IsFiniteSet(DOMAIN k \cup FactsOf(s))
    BY <1>2, <1>3, FS_Union
  <2> QED BY <1>1, <1>2, <1>3, <2>1
<1>9. after \in Collections(Q)
  BY <1>1, <1>7, <1>8, CollectionParts
<1>10. \A x \in DOMAIN k : after[x].quotes = k[x].quotes
  BY <1>4, <1>6
<1> QED
  BY <1>1, <1>5, <1>6, <1>9, <1>10 DEF Grown, after

-----------------------------------------------------------------------------
(* What the page finds itself *)

Records(recs) ==
  /\ recs \in Seq(ToSet(recs))
  /\ \A r \in ToSet(recs) : r \in [id : {r.id}, name : {r.name}, text : Seq(Sentences)]

\* A statement of the user, in one of the records, that says a fact.
Stated(recs, q, x) ==
  \E r \in ToSet(recs) : r.id = q.source /\ \E s \in ToSet(r.text) :
    s \in q.text /\ x \in FactsOf(s) /\ ~s.asks

StatedQuotes(recs) == [source : Ids(recs), text : SUBSET Sentences]

Baselines(recs) ==
  { k \in Collections(StatedQuotes(recs)) :
      \A x \in DOMAIN k : k[x].quotes # {} /\ \A q \in k[x].quotes : Stated(recs, q, x) }

\* A statement that is read is quoted for what it says.
LEMMA StatementRead ==
  ASSUME NEW recs, NEW k \in Baselines(recs), NEW r \in ToSet(recs), NEW s \in ToSet(r.text), s \in Sentences,
         isLikelyStablePreference(s)
  PROVE  captureEvidenceDelta(k, extractStableFacts(k, s), [source |-> r.id, text |-> {s}]) \in Baselines(recs)
<1> DEFINE Q == StatedQuotes(recs)
           quote == [source |-> r.id, text |-> {s}]
           after == extractStableFacts(k, s)
           new == captureEvidenceDelta(k, after, quote)
           Due(x) == /\ x \in DOMAIN k => after[x].confidence > k[x].confidence
                     /\ Cardinality(after[x].quotes) < MaxEvidence
<1>1. k \in Collections(Q) /\ \A x \in DOMAIN k : k[x].quotes # {} /\ \A q \in k[x].quotes : Stated(recs, q, x)
  BY DEF Baselines
<1>2. /\ after \in Collections(Q) /\ DOMAIN after = DOMAIN k \cup FactsOf(s)
      /\ \A x \in DOMAIN after \ DOMAIN k : after[x].quotes = {}
      /\ \A x \in DOMAIN k : after[x].quotes = k[x].quotes /\ (x \notin FactsOf(s) => after[x] = k[x])
  <2>1. Grown(Q, k, s, extractStableFacts(k, s))
    BY <1>1, StableFacts
  <2> QED BY <2>1 DEF Grown
<1>3. DOMAIN after \subseteq Signatures /\ IsFiniteSet(DOMAIN after) /\ \A x \in DOMAIN after : after[x] \in Entry(Q)
  BY <1>2, CollectionParts
<1>4. quote \in Q /\ quote.source = r.id /\ quote.text = {s}
  <2>1. quote \in Q
    BY DEF StatedQuotes, Ids
  <2> QED BY <2>1
<1>5. \A x \in FactsOf(s) : Stated(recs, quote, x)
  BY <1>4 DEF Stated, isLikelyStablePreference
<1>6. /\ new = [x \in DOMAIN new |-> new[x]] /\ DOMAIN new = DOMAIN after
      /\ \A x \in DOMAIN after : new[x] = IF Due(x) THEN [after[x] EXCEPT !.quotes = @ \cup {quote}] ELSE after[x]
  BY DEF captureEvidenceDelta
<1>7. ASSUME NEW x \in DOMAIN k, x \notin FactsOf(s) PROVE ~Due(x)
  <2>1. after[x] = k[x] /\ k[x].confidence \in 0 .. 100
    BY <1>1, <1>2, <1>7, CollectionParts DEF Entry
  <2> QED BY <1>7, <2>1
<1>8. ASSUME NEW x \in DOMAIN after, x \notin DOMAIN k PROVE Due(x) /\ x \in FactsOf(s)
  <2>1. after[x].quotes = {} /\ Cardinality({}) = 0
    BY <1>2, <1>8, FS_EmptySet
  <2> QED BY <1>2, <1>8, <2>1, ExtractionAssumption
<1> HIDE DEF Due, new, after, quote, Q
<1>9. \A x \in DOMAIN new : new[x] \in Entry(Q)
  <2>1. ASSUME NEW x \in DOMAIN after
        PROVE  [after[x] EXCEPT !.quotes = @ \cup {quote}] \in Entry(Q) /\ after[x] \in Entry(Q)
    BY <1>3, <1>4 DEF Entry
  <2> QED BY <1>6, <2>1
<1>10. new \in Collections(Q)
  BY <1>3, <1>6, <1>9, CollectionParts
<1>11. ASSUME NEW x \in DOMAIN new PROVE new[x].quotes # {} /\ \A q \in new[x].quotes : Stated(recs, q, x)
  <2>1. CASE Due(x)
    <3>1. x \in FactsOf(s)
      BY <1>2, <1>6, <1>7, <1>11, <2>1
    <3>2. after[x] \in Entry(Q) /\ new[x] = [after[x] EXCEPT !.quotes = @ \cup {quote}]
      BY <1>3, <1>6, <1>11, <2>1
    <3>3. new[x].quotes = after[x].quotes \cup {quote}
      BY <3>2 DEF Entry
    <3>4. \A q \in after[x].quotes : Stated(recs, q, x)
      BY <1>1, <1>2, <1>6, <1>11
    <3> QED BY <1>5, <3>1, <3>3, <3>4
  <2>2. CASE ~Due(x)
    <3>1. x \in DOMAIN k /\ new[x] = after[x]
      BY <1>6, <1>8, <1>11, <2>2
    <3> QED BY <1>1, <1>2, <3>1
  <2> QED BY <2>1, <2>2
<1> QED
  BY <1>10, <1>11 DEF Baselines, Q, new, after, quote

LEMMA RecordRead ==
  ASSUME NEW recs, Records(recs), NEW known \in Baselines(recs), NEW record \in ToSet(recs)
  PROVE  extractRecord(known, record) \in Baselines(recs)
<1>t. record.text \in Seq(Sentences) /\ \A m \in 1 .. Len(record.text) :
        record.text[m] \in Sentences /\ record.text[m] \in ToSet(record.text)
  <2>1. record.text \in Seq(Sentences)
    BY DEF Records
  <2> QED BY <2>1 DEF ToSet
<1> DEFINE n == Len(record.text)
           A == Baselines(recs)
           op(a, m) == IF isLikelyStablePreference(record.text[m])
                       THEN captureEvidenceDelta(a, extractStableFacts(a, record.text[m]),
                                                 [source |-> record.id, text |-> {record.text[m]}])
                       ELSE a
           Is(g) == g = [m \in 0 .. n |-> IF m = 0 THEN known ELSE op(g[m - 1], m)]
           g0 == CHOOSE g : Is(g)
           F == [p \in A \X (1 .. n) |-> op(p[1], p[2])]
<1>1. extractRecord(known, record) = g0[n]
  BY DEF extractRecord, ReduceIndices
<1>2. n \in Nat /\ known \in A
  BY <1>t
<1>3. F \in [A \X (1 .. n) -> A] /\ \A a \in A, m \in 1 .. n : F[<<a, m>>] = op(a, m)
  BY <1>t, StatementRead
<1> HIDE DEF F, op, n, A
<1>4. PICK g \in [0 .. n -> A] : Stepped(g, A, known, n, F)
  BY <1>2, <1>3, StepsExist
<1>5. Is(g)
  <2>1. \A m \in 0 .. n : m # 0 => g[m] = op(g[m - 1], m)
    BY <1>2, <1>3, <1>4, Place DEF Stepped
  <2> QED BY <1>4, <2>1 DEF Stepped
<1>6. Is(g0)
  <2> HIDE DEF Is
  <2> QED BY <1>5
<1> HIDE DEF g0
<1>7. g0[0] = known /\ \A m \in 1 .. n : g0[m] = op(g0[m - 1], m)
  BY <1>2, <1>6, Place
<1>8. Stepped(g0, A, known, n, F)
  BY <1>2, <1>3, <1>7, StepsStay
<1>9. g0[n] \in A
  BY <1>2, <1>8, Place DEF Stepped
<1> QED
  BY <1>1, <1>9 DEF A

\* Whatever is uploaded, a fact the page finds is quoted from statements that say it.
LEMMA BaselineRead ==
  ASSUME NEW recs, Records(recs)
  PROVE  extractGeneralFactsWithEvidence(recs) \in Baselines(recs)
<1>t. recs \in Seq(ToSet(recs)) /\ \A m \in 1 .. Len(recs) : recs[m] \in ToSet(recs)
  BY DEF Records, ToSet
<1>e. Nothing \in Baselines(recs)
  BY NothingCollected DEF Baselines
<1> DEFINE n == Len(recs)
           A == Baselines(recs)
           op(a, m) == extractRecord(a, recs[m])
           Is(g) == g = [m \in 0 .. n |-> IF m = 0 THEN Nothing ELSE op(g[m - 1], m)]
           g0 == CHOOSE g : Is(g)
           F == [p \in A \X (1 .. n) |-> op(p[1], p[2])]
<1>1. extractGeneralFactsWithEvidence(recs) = g0[n]
  BY DEF extractGeneralFactsWithEvidence, Reduce
<1>2. n \in Nat /\ Nothing \in A
  BY <1>t, <1>e
<1>3. F \in [A \X (1 .. n) -> A] /\ \A a \in A, m \in 1 .. n : F[<<a, m>>] = op(a, m)
  BY <1>t, RecordRead
<1> HIDE DEF F, op, n, A
<1>4. PICK g \in [0 .. n -> A] : Stepped(g, A, Nothing, n, F)
  BY <1>2, <1>3, StepsExist
<1>5. Is(g)
  <2>1. \A m \in 0 .. n : m # 0 => g[m] = op(g[m - 1], m)
    BY <1>2, <1>3, <1>4, Place DEF Stepped
  <2> QED BY <1>4, <2>1 DEF Stepped
<1>6. Is(g0)
  <2> HIDE DEF Is
  <2> QED BY <1>5
<1> HIDE DEF g0
<1>7. g0[0] = Nothing /\ \A m \in 1 .. n : g0[m] = op(g0[m - 1], m)
  BY <1>2, <1>6, Place
<1>8. Stepped(g0, A, Nothing, n, F)
  BY <1>2, <1>3, <1>7, StepsStay
<1>9. g0[n] \in A
  BY <1>2, <1>8, Place DEF Stepped
<1> QED
  BY <1>1, <1>9 DEF A

-----------------------------------------------------------------------------
(* What is taken from the model *)

\* Of a contract that is well formed, the fields a fact is made of.
FieldsOf(c) == c.wellFormed => c.fact \in Signatures /\ c.confidence \in 0 .. 100 /\ c.label \in Labels

\* What the guardrails leave is quoted from the texts they are given.
Sourced(records, q) == sourceContainsEvidence(TextOf(records, q.source), q.text)

Founds(records, Q) ==
  { k \in Collections(Q) : \A x \in DOMAIN k : k[x].quotes # {} /\ \A q \in k[x].quotes : Sourced(records, q) }

LEMMA AdmittedContracts ==
  ASSUME NEW contracts, contracts \in Seq(ToSet(contracts)), NEW records
  PROVE  Admitted(contracts, records) \in
           Seq({ c \in ToSet(contracts) : validateSemanticContract(c, TextOf(records, c.source)) })
<1> DEFINE S == ToSet(contracts)
           which == { n \in DOMAIN contracts :
             validateSemanticContract(contracts[n], TextOf(records, contracts[n].source)) /\ contracts[n].current }
           T == { contracts[n] : n \in { k \in 1 .. Len(contracts) : k \in which } }
           V == { c \in S : validateSemanticContract(c, TextOf(records, c.source)) }
<1>1. Admitted(contracts, records) = Kept(contracts, which)
  BY DEF Admitted
<1>2. Kept(contracts, which) \in Seq(T)
  BY KeptItems
<1>3. T \subseteq V
  BY DEF ToSet
<1>4. Seq(T) \subseteq Seq(V)
  <2> HIDE DEF T, V
  <2> QED BY <1>3
<1> QED
  BY <1>1, <1>2, <1>4

\* Two accounts of a fact become one, with the quotes of both.
LEMMA Deduped ==
  ASSUME NEW records, NEW Q, NEW k \in Founds(records, Q), NEW c, FieldsOf(c),
         validateSemanticContract(c, TextOf(records, c.source)), [source |-> c.source, text |-> c.quote] \in Q
  PROVE  dedupeFacts(k, c) \in Founds(records, Q)
<1> DEFINE quote == [source |-> c.source, text |-> c.quote]
           old == IF c.fact \in DOMAIN k THEN k[c.fact] ELSE [confidence |-> 0, quotes |-> {}]
           both == old.quotes \cup {quote}
           entry == IF c.confidence >= old.confidence
                    THEN [confidence |-> c.confidence, label |-> c.label, quotes |-> both]
                    ELSE [old EXCEPT !.quotes = both]
           new == dedupeFacts(k, c)
<1>1. /\ k \in Collections(Q)
      /\ \A x \in DOMAIN k : k[x].quotes # {} /\ \A q \in k[x].quotes : Sourced(records, q)
  BY DEF Founds
<1>2. /\ k = [x \in DOMAIN k |-> k[x]] /\ DOMAIN k \subseteq Signatures /\ IsFiniteSet(DOMAIN k)
      /\ \A x \in DOMAIN k : k[x] \in Entry(Q)
  BY <1>1, CollectionParts
<1>3. c.fact \in Signatures /\ c.confidence \in 0 .. 100 /\ c.label \in Labels /\ Sourced(records, quote)
  BY DEF FieldsOf, validateSemanticContract, Sourced
<1>4. old.quotes \in SUBSET Q /\ \A q \in old.quotes : Sourced(records, q)
  <2>1. CASE c.fact \in DOMAIN k
    BY <1>1, <1>2, <2>1 DEF Entry
  <2>2. CASE c.fact \notin DOMAIN k
    BY <2>2
  <2> QED BY <2>1, <2>2
<1>5. both \in SUBSET Q /\ both # {} /\ \A q \in both : Sourced(records, q)
  <2> HIDE DEF old
  <2>1. quote \in Q
    OBVIOUS
  <2> HIDE DEF quote
  <2> QED BY <1>3, <1>4, <2>1
<1>6. /\ new = [x \in DOMAIN new |-> new[x]] /\ DOMAIN new = DOMAIN k \cup {c.fact}
      /\ \A x \in DOMAIN k : x # c.fact => new[x] = k[x]
      /\ new[c.fact] = entry
  BY DEF dedupeFacts
<1> HIDE DEF both
<1>7. entry \in Entry(Q) /\ entry.quotes = both
  <2>1. CASE c.confidence >= old.confidence
    <3> HIDE DEF old
    <3> QED BY <1>3, <1>5, <2>1 DEF Entry
  <2>2. CASE ~(c.confidence >= old.confidence)
    <3>1. c.fact \in DOMAIN k /\ old = k[c.fact]
      BY <1>3, <2>2
    <3>2. old \in Entry(Q) /\ entry = [old EXCEPT !.quotes = both]
      BY <1>2, <2>2, <3>1
    <3> HIDE DEF old, entry
    <3> QED BY <1>5, <3>2 DEF Entry
  <2> QED BY <2>1, <2>2
<1> HIDE DEF entry, new, old, quote
<1>8. \A x \in DOMAIN new : new[x] \in Entry(Q)
  BY <1>2, <1>6, <1>7
<1>9. DOMAIN new \subseteq Signatures /\ IsFiniteSet(DOMAIN new)
  <2>1. IsFiniteSet(DOMAIN k \cup {c.fact})
    BY <1>2, FS_AddElement
  <2> QED BY <1>2, <1>3, <1>6, <2>1
<1>10. new \in Collections(Q)
  BY <1>6, <1>8, <1>9, CollectionParts
<1>11. ASSUME NEW x \in DOMAIN new PROVE new[x].quotes # {} /\ \A q \in new[x].quotes : Sourced(records, q)
  <2>1. CASE x = c.fact
    BY <1>5, <1>6, <1>7, <2>1
  <2>2. CASE x # c.fact
    BY <1>1, <1>6, <1>11, <2>2
  <2> QED BY <2>1, <2>2
<1> QED
  BY <1>10, <1>11 DEF Founds, new

\* Whatever contracts there are, the guardrails leave facts quoted from the records.
LEMMA GuardrailsHold ==
  ASSUME NEW contracts, contracts \in Seq(ToSet(contracts)), \A c \in ToSet(contracts) : FieldsOf(c), NEW records
  PROVE  \E Q : applySemanticJsonGuardrails(contracts, records) \in Founds(records, Q)
<1> DEFINE some == Admitted(contracts, records)
           V == { c \in ToSet(contracts) : validateSemanticContract(c, TextOf(records, c.source)) }
           Q == { [source |-> c.source, text |-> c.quote] : c \in V }
<1>t. some \in Seq(V)
  BY AdmittedContracts
<1>v. \A c \in V : /\ FieldsOf(c) /\ validateSemanticContract(c, TextOf(records, c.source))
                   /\ [source |-> c.source, text |-> c.quote] \in Q
  OBVIOUS
<1>e. Nothing \in Founds(records, Q)
  BY NothingCollected DEF Founds
<1>d. applySemanticJsonGuardrails(contracts, records) = Reduce(dedupeFacts, Nothing, some)
  BY DEF applySemanticJsonGuardrails
<1> HIDE DEF some, V, Q
<1>m. \A m \in 1 .. Len(some) : some[m] \in V
  BY <1>t
<1> DEFINE n == Len(some)
           A == Founds(records, Q)
           op(a, m) == dedupeFacts(a, some[m])
           Is(g) == g = [m \in 0 .. n |-> IF m = 0 THEN Nothing ELSE op(g[m - 1], m)]
           g0 == CHOOSE g : Is(g)
           F == [p \in A \X (1 .. n) |-> op(p[1], p[2])]
<1>1. Reduce(dedupeFacts, Nothing, some) = g0[n]
  BY DEF Reduce
<1>2. n \in Nat /\ Nothing \in A
  BY <1>t, <1>e
<1>3. F \in [A \X (1 .. n) -> A] /\ \A a \in A, m \in 1 .. n : F[<<a, m>>] = op(a, m)
  BY <1>m, <1>v, Deduped
<1> HIDE DEF F, op, n, A
<1>4. PICK g \in [0 .. n -> A] : Stepped(g, A, Nothing, n, F)
  BY <1>2, <1>3, StepsExist
<1>5. Is(g)
  <2>1. \A m \in 0 .. n : m # 0 => g[m] = op(g[m - 1], m)
    BY <1>2, <1>3, <1>4, Place DEF Stepped
  <2> QED BY <1>4, <2>1 DEF Stepped
<1>6. Is(g0)
  <2> HIDE DEF Is
  <2> QED BY <1>5
<1> HIDE DEF g0
<1>7. g0[0] = Nothing /\ \A m \in 1 .. n : g0[m] = op(g0[m - 1], m)
  BY <1>2, <1>6, Place
<1>8. Stepped(g0, A, Nothing, n, F)
  BY <1>2, <1>3, <1>7, StepsStay
<1>9. g0[n] \in A
  BY <1>2, <1>8, Place DEF Stepped
<1> QED
  BY <1>1, <1>9, <1>d DEF A

\* A contract whose source or quote is put right keeps its fields.
LEMMA Normalized ==
  ASSUME NEW c, IsContract(c), NEW records
  PROVE  FieldsOf(normalizeRawCandidateForValidation(c, records))
<1> DEFINE d == normalizeRawCandidateForValidation(c, records)
<1>1. \E source, quote : d = [c EXCEPT !.source = source, !.quote = quote]
  BY DEF normalizeRawCandidateForValidation
<1>2. /\ c \in [source : {c.source}, name : {c.name}, quote : SUBSET Sentences, fact : {c.fact},
                confidence : {c.confidence}, label : {c.label}, wellFormed : BOOLEAN, current : BOOLEAN]
      /\ FieldsOf(c)
  BY DEF IsContract, FieldsOf
<1>3. \A source, quote : LET e == [c EXCEPT !.source = source, !.quote = quote] IN
        e.wellFormed = c.wellFormed /\ e.fact = c.fact /\ e.confidence = c.confidence /\ e.label = c.label
  BY <1>2
<1> HIDE DEF d
<1>4. d.wellFormed = c.wellFormed /\ d.fact = c.fact /\ d.confidence = c.confidence /\ d.label = c.label
  BY <1>1, <1>3
<1> QED
  BY <1>2, <1>4 DEF FieldsOf, d

Contracts == UNION { ToSet(a) : a \in Replied }

LEMMA RepliedContracts ==
  /\ \A a \in Replied : a \in Seq(Contracts)
  /\ \A c \in Contracts : IsContract(c)
<1>1. ASSUME NEW a \in Replied PROVE a \in Seq(Contracts)
  <2>1. a \in Seq(ToSet(a)) /\ ToSet(a) \subseteq Contracts
    BY PageAssumption DEF Contracts
  <2> QED BY <2>1
<1> QED
  BY <1>1, PageAssumption DEF Contracts

\* Whatever the model has answered, what is made of it is quoted from the records.
LEMMA AnswersAreSourced ==
  ASSUME NEW answers \in Seq(Contracts), NEW records
  PROVE  \E Q : applySemanticJsonGuardrails(acceptedContracts(answers, records), records) \in Founds(records, Q)
<1> DEFINE S == { normalizeRawCandidateForValidation(c, records) : c \in Contracts }
           all == [n \in 1 .. Len(answers) |-> normalizeRawCandidateForValidation(answers[n], records)]
           left == acceptedContracts(answers, records)
           V == { c \in ToSet(all) : validateSemanticContract(c, TextOf(records, c.source)) }
<1>1. all \in Seq(S) /\ \A n \in 1 .. Len(answers) : answers[n] \in Contracts
  OBVIOUS
<1>2. all \in Seq(ToSet(all)) /\ ToSet(all) \subseteq S
  <2> HIDE DEF S, all
  <2> QED BY <1>1 DEF ToSet
<1>3. left = Admitted(all, records)
  BY DEF acceptedContracts
<1>4. \A c \in S : FieldsOf(c)
  BY Normalized, RepliedContracts
<1> HIDE DEF all, left, S
<1>5. left \in Seq(V)
  BY <1>2, <1>3, AdmittedContracts
<1>6. V \subseteq ToSet(all)
  OBVIOUS
<1> HIDE DEF V
<1>7. left \in Seq(ToSet(left)) /\ ToSet(left) \subseteq V
  BY <1>5 DEF ToSet
<1>8. \A c \in ToSet(left) : FieldsOf(c)
  BY <1>2, <1>4, <1>6, <1>7
<1> QED
  BY <1>7, <1>8, GuardrailsHold DEF left

-----------------------------------------------------------------------------
(* Groups *)

\* The groups, one after the other, are the first items; before group g there are start[g] of them.
Tiled(items, groups, start, upto) ==
  /\ start[1] = 0 /\ start[Len(groups) + 1] = upto
  /\ \A g \in 1 .. Len(groups) + 1 : start[g] \in 0 .. upto
  /\ \A g \in 1 .. Len(groups) :
       /\ start[g + 1] = start[g] + Len(groups[g])
       /\ \A n \in 1 .. Len(groups[g]) : groups[g][n] = items[start[g] + n]

LEMMA OneGroupMore ==
  ASSUME NEW S, NEW items \in Seq(S), NEW groups \in Seq(Seq(S)), NEW start, NEW upto \in Nat,
         Tiled(items, groups, start, upto), NEW now \in Seq(S),
         \A n \in 1 .. Len(now) : now[n] = items[upto + n]
  PROVE  \E new : Tiled(items, Append(groups, now), new, upto + Len(now))
<1> DEFINE k == Len(groups)
           all == Append(groups, now)
           new == [g \in 1 .. k + 2 |-> IF g = k + 2 THEN upto + Len(now) ELSE start[g]]
<1>1. k \in Nat /\ Len(now) \in Nat /\ Len(all) = k + 1 /\ all[k + 1] = now
      /\ \A g \in 1 .. k : all[g] = groups[g]
  OBVIOUS
<1>2. /\ new[k + 2] = upto + Len(now) /\ \A g \in 1 .. k + 1 : new[g] = start[g]
  BY <1>1
<1> HIDE DEF new, all, k
<1>3. new[1] = 0 /\ new[Len(all) + 1] = upto + Len(now)
  BY <1>1, <1>2 DEF Tiled
<1>4. ASSUME NEW g \in 1 .. Len(all) + 1 PROVE new[g] \in 0 .. upto + Len(now)
  <2>1. CASE g = k + 2
    BY <1>1, <1>2, <2>1
  <2>2. CASE g # k + 2
    <3>1. g \in 1 .. k + 1
      BY <1>1, <2>2
    <3>2. start[g] \in 0 .. upto
      BY <3>1 DEF Tiled, k
    <3> QED BY <1>1, <1>2, <3>1, <3>2
  <2> QED BY <2>1, <2>2
<1>5. ASSUME NEW g \in 1 .. Len(all)
      PROVE  /\ new[g + 1] = new[g] + Len(all[g])
             /\ \A n \in 1 .. Len(all[g]) : all[g][n] = items[new[g] + n]
  <2>1. CASE g = k + 1
    <3>1. new[g] = upto /\ new[g + 1] = upto + Len(now) /\ all[g] = now
      <4>1. start[k + 1] = upto /\ g + 1 = k + 2 /\ k + 1 \in 1 .. k + 1
        BY <1>1, <2>1 DEF Tiled, k
      <4> QED BY <1>1, <1>2, <2>1, <4>1
    <3> QED BY <1>1, <3>1
  <2>2. CASE g # k + 1
    <3>1. g \in 1 .. k /\ g \in 1 .. k + 1 /\ g + 1 \in 1 .. k + 1
      BY <1>1, <2>2
    <3>2. new[g] = start[g] /\ new[g + 1] = start[g + 1] /\ all[g] = groups[g]
      BY <1>1, <1>2, <3>1
    <3>3. /\ start[g + 1] = start[g] + Len(groups[g])
          /\ \A n \in 1 .. Len(groups[g]) : groups[g][n] = items[start[g] + n]
      BY <3>1 DEF Tiled, k
    <3> QED BY <3>2, <3>3
  <2> QED BY <2>1, <2>2
<1>6. Tiled(items, all, new, upto + Len(now))
  BY <1>3, <1>4, <1>5 DEF Tiled
<1> QED
  BY <1>6 DEF all

\* A grouping that is under way after the first m items.
UnderWay(S)     == [done : Seq(Seq(S)), now : Seq(S), size : Nat]
Tiles(items, acc, m) ==
  /\ Len(acc.now) <= m /\ (m # 0 => acc.now # <<>>)
  /\ \A n \in 1 .. Len(acc.now) : acc.now[n] = items[m - Len(acc.now) + n]
  /\ \E start : Tiled(items, acc.done, start, m - Len(acc.now))

LEMMA JoinsTyped ==
  ASSUME NEW S, NEW acc \in UnderWay(S), NEW x \in S, NEW size \in Nat, NEW gap \in Nat, NEW most, NEW widest
  PROVE  Joins(acc, x, size, gap, most, widest) \in UnderWay(S)
<1>t. acc.done \in Seq(Seq(S)) /\ acc.now \in Seq(S)
  BY DEF UnderWay
<1>1. [done |-> Append(acc.done, acc.now), now |-> <<x>>, size |-> size] \in UnderWay(S)
  <2>1. Append(acc.done, acc.now) \in Seq(Seq(S)) /\ <<x>> \in Seq(S)
    BY <1>t
  <2> QED BY <2>1 DEF UnderWay
<1>2. /\ [acc EXCEPT !.now = Append(@, x), !.size = @ + size + 0] \in UnderWay(S)
      /\ [acc EXCEPT !.now = Append(@, x), !.size = @ + size + gap] \in UnderWay(S)
  <2>1. Append(acc.now, x) \in Seq(S)
    BY <1>t
  <2>2. acc.size + size + 0 \in Nat /\ acc.size + size + gap \in Nat
    BY DEF UnderWay
  <2> QED BY <2>1, <2>2 DEF UnderWay
<1> QED
  BY <1>1, <1>2 DEF Joins

LEMMA JoinsTiles ==
  ASSUME NEW S, NEW items \in Seq(S), NEW m \in 1 .. Len(items), NEW acc \in UnderWay(S), Tiles(items, acc, m - 1),
         NEW size, NEW gap, NEW most, NEW widest
  PROVE  Tiles(items, Joins(acc, items[m], size, gap, most, widest), m)
<1> DEFINE new == Joins(acc, items[m], size, gap, most, widest)
<1>1. acc.done \in Seq(Seq(S)) /\ acc.now \in Seq(S) /\ Len(acc.now) \in Nat /\ Len(acc.now) <= m - 1 /\ m \in Nat
  BY DEF UnderWay, Tiles
<1>2. PICK start : Tiled(items, acc.done, start, m - 1 - Len(acc.now))
  BY DEF Tiles
<1>3. \A n \in 1 .. Len(acc.now) : acc.now[n] = items[m - 1 - Len(acc.now) + n]
  BY DEF Tiles
<1>4. CASE new = [done |-> Append(acc.done, acc.now), now |-> <<items[m]>>, size |-> size]
  <2>1. new.done = Append(acc.done, acc.now) /\ new.now = <<items[m]>> /\ Len(new.now) = 1
    BY <1>4
  <2>2. m - 1 - Len(acc.now) \in Nat /\ (m - 1 - Len(acc.now)) + Len(acc.now) = m - Len(new.now)
    BY <1>1, <2>1
  <2>3. \E next : Tiled(items, new.done, next, m - Len(new.now))
    BY <1>1, <1>2, <1>3, <2>1, <2>2, OneGroupMore, ZenonT(60)
  <2>4. \A n \in 1 .. Len(new.now) : new.now[n] = items[m - Len(new.now) + n]
    BY <1>1, <2>1
  <2> QED BY <1>1, <2>1, <2>3, <2>4 DEF Tiles
<1>5. CASE \E s : new = [acc EXCEPT !.now = Append(@, items[m]), !.size = s]
  <2>1. new.done = acc.done /\ new.now = Append(acc.now, items[m]) /\ Len(new.now) = Len(acc.now) + 1
    BY <1>1, <1>5 DEF UnderWay
  <2> HIDE DEF new
  <2>2. new.now[Len(acc.now) + 1] = items[m] /\ \A n \in 1 .. Len(acc.now) : new.now[n] = acc.now[n]
    BY <1>1, <2>1
  <2>3. ASSUME NEW n \in 1 .. Len(new.now) PROVE new.now[n] = items[m - Len(new.now) + n]
    <3>1. CASE n = Len(acc.now) + 1
      BY <1>1, <2>1, <2>2, <3>1
    <3>2. CASE n # Len(acc.now) + 1
      <4>1. n \in 1 .. Len(acc.now) /\ m - 1 - Len(acc.now) + n = m - Len(new.now) + n
        BY <1>1, <2>1, <3>2
      <4> QED BY <1>3, <2>2, <4>1
    <3> QED BY <3>1, <3>2
  <2>4. m - Len(new.now) = m - 1 - Len(acc.now) /\ Len(new.now) <= m
    BY <1>1, <2>1
  <2>5. new.now # <<>>
    <3>1. Len(new.now) # 0 /\ Len(<<>>) = 0
      BY <1>1, <2>1
    <3> QED BY <3>1
  <2>6. Tiled(items, new.done, start, m - Len(new.now))
    BY <1>2, <2>1, <2>4
  <2> HIDE DEF Tiled
  <2>7. Tiles(items, new, m)
    BY <2>3, <2>4, <2>5, <2>6 DEF Tiles
  <2> QED BY <2>7 DEF new
<1> QED
  BY <1>4, <1>5 DEF Joins

\* Grouping loses no item, repeats none and keeps their order.
LEMMA GroupsTile ==
  ASSUME NEW S, NEW items \in Seq(S), NEW sizes, \A n \in 1 .. Len(items) : sizes[n] \in Nat,
         NEW gap \in Nat, NEW most, NEW widest
  PROVE  LET groups == Grouped(items, sizes, gap, most, widest) IN
         /\ groups \in Seq(Seq(S))
         /\ \E start : Tiled(items, groups, start, Len(items))
<1> DEFINE none == [done |-> <<>>, now |-> <<>>, size |-> 0]
<1> DEFINE n == Len(items)
           A == UnderWay(S)
           op(a, m) == Joins(a, items[m], sizes[m], gap, most, widest)
           Is(g) == g = [m \in 0 .. n |-> IF m = 0 THEN none ELSE op(g[m - 1], m)]
           g0 == CHOOSE g : Is(g)
           F == [p \in A \X (1 .. n) |-> op(p[1], p[2])]
<1>1. Grouped(items, sizes, gap, most, widest)
        = IF g0[n].now = <<>> THEN g0[n].done ELSE Append(g0[n].done, g0[n].now)
  BY DEF Grouped, ReduceIndices
<1>2. n \in Nat /\ none \in A
  BY DEF UnderWay
<1>3. F \in [A \X (1 .. n) -> A] /\ \A a \in A, m \in 1 .. n : F[<<a, m>>] = op(a, m)
  BY JoinsTyped
<1> HIDE DEF F, op, n, A
<1>4. PICK g \in [0 .. n -> A] : Stepped(g, A, none, n, F)
  BY <1>2, <1>3, StepsExist
<1>5. Is(g)
  <2>1. \A m \in 0 .. n : m # 0 => g[m] = op(g[m - 1], m)
    BY <1>2, <1>3, <1>4, Place DEF Stepped
  <2> QED BY <1>4, <2>1 DEF Stepped
<1>6. Is(g0)
  <2> HIDE DEF Is
  <2> QED BY <1>5
<1> HIDE DEF g0
<1>7. g0[0] = none /\ \A m \in 1 .. n : g0[m] = op(g0[m - 1], m)
  BY <1>2, <1>6, Place
<1>8. Stepped(g0, A, none, n, F)
  BY <1>2, <1>3, <1>7, StepsStay, ZenonT(60)
<1>9. g0[n] \in A
  BY <1>2, <1>8, Place DEF Stepped
<1> DEFINE P == [m \in 0 .. n |-> Tiles(items, g0[m], m)]
<1>10. P \in [0 .. n -> BOOLEAN]
  BY DEF Tiles
<1>11. Tiles(items, g0[0], 0)
  <2>1. Tiled(items, <<>>, [m \in {1} |-> 0], 0)
    BY DEF Tiled
  <2>2. none.now = <<>> /\ none.done = <<>> /\ Len(<<>>) = 0
    OBVIOUS
  <2> HIDE DEF none
  <2> QED BY <1>7, <2>1, <2>2 DEF Tiles
<1>12. ASSUME NEW m \in 1 .. n, Tiles(items, g0[m - 1], m - 1) PROVE Tiles(items, g0[m], m)
  <2>1. g0[m - 1] \in UnderWay(S)
    BY <1>2, <1>8, Place DEF Stepped, A
  <2>2. g0[m] = Joins(g0[m - 1], items[m], sizes[m], gap, most, widest)
    BY <1>7 DEF op
  <2> QED BY <1>12, <2>1, <2>2, JoinsTiles DEF n
<1>13. \A m \in 0 .. n : P[m]
  <2>1. P[0]
    BY <1>2, <1>11, Place
  <2>2. ASSUME NEW m \in 1 .. n, P[m - 1] PROVE P[m]
    BY <1>2, <1>12, <2>2, Place
  <2> HIDE DEF P
  <2> QED BY <1>2, <1>10, <2>1, <2>2, StepByStep
<1>14. Tiles(items, g0[n], n)
  BY <1>2, <1>13, Place
<1> DEFINE end == g0[n]
<1>15. /\ end.done \in Seq(Seq(S)) /\ end.now \in Seq(S) /\ Len(end.now) \in Nat /\ Len(end.now) <= n
       /\ \A k \in 1 .. Len(end.now) : end.now[k] = items[n - Len(end.now) + k]
  BY <1>9, <1>14 DEF Tiles, UnderWay, A
<1>16. PICK start : Tiled(items, end.done, start, n - Len(end.now))
  BY <1>14 DEF Tiles
<1> HIDE DEF end
<1> DEFINE groups == Grouped(items, sizes, gap, most, widest)
<1>17. groups = IF end.now = <<>> THEN end.done ELSE Append(end.done, end.now)
  BY <1>1 DEF end
<1> HIDE DEF groups
<1>18. CASE end.now = <<>>
  <2>1. n - Len(end.now) = n
    BY <1>2, <1>18
  <2> QED BY <1>15, <1>16, <1>17, <1>18, <2>1 DEF groups, n
<1>19. CASE end.now # <<>>
  <2>1. n - Len(end.now) \in Nat /\ (n - Len(end.now)) + Len(end.now) = n
    BY <1>2, <1>15
  <2>2. \E new : Tiled(items, Append(end.done, end.now), new, n)
    BY <1>15, <1>16, <2>1, OneGroupMore
  <2> QED BY <1>15, <1>17, <1>19, <2>2 DEF groups, n
<1> QED
  BY <1>18, <1>19

-----------------------------------------------------------------------------
(* The sieve and the prompts *)

LEMMA SievedSentences ==
  ASSUME NEW text \in Seq(Sentences), NEW budget \in Nat
  PROVE  createRecordSentences(text, budget) \in Seq(Sentences)
<1> DEFINE limited == SubSeq(text, 1, Smaller(MaxPerRecord, Len(text)))
           which == { n \in DOMAIN limited : limited[n].length >= MinSentence /\ ~isLikelyNoise(limited[n]) }
           kept == Kept(limited, which)
           T == { limited[n] : n \in { k \in 1 .. Len(limited) : k \in which } }
<1>1. Smaller(MaxPerRecord, Len(text)) \in 0 .. Len(text)
  BY ExtractionAssumption DEF Smaller
<1>2. limited \in Seq(Sentences)
  BY <1>1
<1>3. createRecordSentences(text, budget) = SubSeq(kept, 1, Smaller(budget, Len(kept)))
  BY DEF createRecordSentences
<1> HIDE DEF limited
<1>4. kept \in Seq(T) /\ T \subseteq Sentences
  BY <1>2, KeptItems
<1> HIDE DEF kept, T
<1>5. kept \in Seq(Sentences)
  BY <1>4
<1>6. Smaller(budget, Len(kept)) \in 0 .. Len(kept)
  BY <1>5 DEF Smaller
<1> QED
  BY <1>3, <1>5, <1>6

LEMMA TrailingMerged ==
  ASSUME NEW groups \in Seq(Seq(Sentences))
  PROVE  mergeTrailingSmallChunk(groups) \in Seq(Seq(Sentences))
<1>1. CASE Len(groups) < 2 \/ Len(Last(groups)) >= MinPerChunk
  BY <1>1 DEF mergeTrailingSmallChunk
<1>2. CASE ~(Len(groups) < 2 \/ Len(Last(groups)) >= MinPerChunk)
  <2>1. Len(groups) \in Nat /\ Len(groups) >= 2 /\ Len(groups) - 1 \in 1 .. Len(groups)
    BY <1>2
  <2>2. groups[Len(groups) - 1] \in Seq(Sentences) /\ Last(groups) \in Seq(Sentences)
    BY <2>1 DEF Last
  <2>3. groups[Len(groups) - 1] \o Last(groups) \in Seq(Sentences)
    BY <2>2
  <2>4. SubSeq(groups, 1, Len(groups) - 2) \in Seq(Seq(Sentences))
    BY <2>1
  <2>5. mergeTrailingSmallChunk(groups)
          = Append(SubSeq(groups, 1, Len(groups) - 2), groups[Len(groups) - 1] \o Last(groups))
    BY <1>2 DEF mergeTrailingSmallChunk
  <2> QED BY <2>3, <2>4, <2>5
<1> QED
  BY <1>1, <1>2

\* The chunks that may be cut from some records.
ChunkIds(record) == { record.id \o <<"chunk", n>> : n \in Nat }
Chunk(recs) == [id : UNION { ChunkIds(r) : r \in ToSet(recs) }, name : { r.name : r \in ToSet(recs) },
                text : Seq(Sentences)]

LEMMA ChunksTyped ==
  ASSUME NEW recs, NEW record \in ToSet(recs), NEW kept \in Seq(Sentences), NEW count \in Nat
  PROVE  toChunksForRecord(record, kept, count) \in Seq(Chunk(recs))
<1> DEFINE sizes == [n \in DOMAIN kept |-> kept[n].length]
           all == Grouped(kept, sizes, 1, MaxPerChunk, MaxChunkChars)
           groups == mergeTrailingSmallChunk(all)
<1>1. \A n \in 1 .. Len(kept) : sizes[n] \in Nat
  BY ExtractionAssumption
<1>2. all \in Seq(Seq(Sentences))
  <2> HIDE DEF sizes
  <2> QED BY <1>1, GroupsTile
<1>3. groups \in Seq(Seq(Sentences))
  <2> HIDE DEF all
  <2> QED BY <1>2, TrailingMerged
<1> DEFINE ids == UNION { ChunkIds(r) : r \in ToSet(recs) }
           chunk(i) == [id |-> record.id \o <<"chunk", count + i>>, name |-> record.name, text |-> groups[i]]
<1>4. toChunksForRecord(record, kept, count) = [ i \in 1 .. Len(groups) |-> chunk(i) ]
  BY DEF toChunksForRecord
<1> HIDE DEF groups
<1>5. ASSUME NEW i \in 1 .. Len(groups) PROVE chunk(i) \in Chunk(recs)
  <2>1. count + i \in Nat /\ groups[i] \in Seq(Sentences)
    BY <1>3
  <2>2. record.id \o <<"chunk", count + i>> \in ids
    <3>1. record.id \o <<"chunk", count + i>> \in ChunkIds(record)
      BY <2>1 DEF ChunkIds
    <3> QED BY <3>1
  <2> HIDE DEF ids
  <2>3. chunk(i) \in [id : ids, name : { r.name : r \in ToSet(recs) }, text : Seq(Sentences)]
    BY <2>1, <2>2
  <2> QED BY <2>3 DEF Chunk, ids
<1> HIDE DEF chunk
<1> QED
  BY <1>3, <1>4, <1>5

\* What the sieve leaves are records too.
LEMMA SieveTyped ==
  ASSUME NEW recs, Records(recs)
  PROVE  runAtomicSieve(recs) \in Seq(Chunk(recs))
<1> DEFINE none == [retained |-> 0, chunks |-> <<>>]
           Sieved == [retained : Nat, chunks : Seq(Chunk(recs))]
           sentences(a, r) == createRecordSentences(r.text, MaxSentences - a.retained)
           chunks(a, r) == a.chunks \o toChunksForRecord(r, sentences(a, r), Len(a.chunks))
           more(a, r) == [retained |-> a.retained + Len(sentences(a, r)),
                          chunks |-> SubSeq(chunks(a, r), 1, Smaller(MaxChunks, Len(chunks(a, r))))]
<1>t. \A m \in 1 .. Len(recs) : recs[m] \in ToSet(recs) /\ recs[m].text \in Seq(Sentences)
  BY DEF Records, ToSet
<1>q. recs \in Seq(ToSet(recs))
  BY DEF Records
<1>s. ASSUME NEW a \in Sieved, NEW m \in 1 .. Len(recs), ~(a.retained >= MaxSentences)
      PROVE  more(a, recs[m]) \in Sieved
  <2>1. MaxSentences - a.retained \in Nat /\ a.retained \in Nat /\ a.chunks \in Seq(Chunk(recs)) /\ Len(a.chunks) \in Nat
    BY <1>s, ExtractionAssumption
  <2>2. sentences(a, recs[m]) \in Seq(Sentences)
    BY <1>t, <2>1, SievedSentences
  <2> HIDE DEF sentences
  <2>3. toChunksForRecord(recs[m], sentences(a, recs[m]), Len(a.chunks)) \in Seq(Chunk(recs))
    BY <1>t, <2>1, <2>2, ChunksTyped
  <2>4. chunks(a, recs[m]) \in Seq(Chunk(recs))
    BY <2>1, <2>3
  <2> HIDE DEF chunks
  <2>5. Smaller(MaxChunks, Len(chunks(a, recs[m]))) \in 0 .. Len(chunks(a, recs[m]))
    BY <2>4, ExtractionAssumption DEF Smaller
  <2>6. SubSeq(chunks(a, recs[m]), 1, Smaller(MaxChunks, Len(chunks(a, recs[m])))) \in Seq(Chunk(recs))
    BY <2>4, <2>5
  <2>7. a.retained + Len(sentences(a, recs[m])) \in Nat
    BY <2>1, <2>2
  <2> QED BY <2>6, <2>7
<1> DEFINE n == Len(recs)
           A == Sieved
           op(a, m) == IF recs[m].text = <<>> \/ a.retained >= MaxSentences \/ Len(a.chunks) >= MaxChunks THEN a
                       ELSE more(a, recs[m])
           Is(g) == g = [m \in 0 .. n |-> IF m = 0 THEN none ELSE op(g[m - 1], m)]
           g0 == CHOOSE g : Is(g)
           F == [p \in A \X (1 .. n) |-> op(p[1], p[2])]
<1>1. runAtomicSieve(recs) = g0[n].chunks
  BY DEF runAtomicSieve, Reduce
<1>2. n \in Nat /\ none \in A
  BY <1>q
<1>3. F \in [A \X (1 .. n) -> A] /\ \A a \in A, m \in 1 .. n : F[<<a, m>>] = op(a, m)
  <2> HIDE DEF more, Sieved
  <2> QED BY <1>s
<1> HIDE DEF F, op, n, A
<1>4. PICK g \in [0 .. n -> A] : Stepped(g, A, none, n, F)
  BY <1>2, <1>3, StepsExist
<1>5. Is(g)
  <2>1. \A m \in 0 .. n : m # 0 => g[m] = op(g[m - 1], m)
    BY <1>2, <1>3, <1>4, Place DEF Stepped
  <2> QED BY <1>4, <2>1 DEF Stepped
<1>6. Is(g0)
  <2> HIDE DEF Is
  <2> QED BY <1>5
<1> HIDE DEF g0
<1>7. g0[0] = none /\ \A m \in 1 .. n : g0[m] = op(g0[m - 1], m)
  BY <1>2, <1>6, Place
<1>8. Stepped(g0, A, none, n, F)
  BY <1>2, <1>3, <1>7, StepsStay
<1>9. g0[n] \in A
  BY <1>2, <1>8, Place DEF Stepped
<1> QED
  BY <1>1, <1>9 DEF A

LEMMA SemanticInput ==
  ASSUME NEW recs, Records(recs)
  PROVE  Records(toSemanticInputRecords(recs))
<1> DEFINE s == runAtomicSieve(recs)
<1>1. s \in Seq(Chunk(recs))
  BY SieveTyped
<1> HIDE DEF s
<1>2. s \in Seq(ToSet(s)) /\ ToSet(s) \subseteq Chunk(recs)
  BY <1>1 DEF ToSet
<1>3. Records(s)
  BY <1>2 DEF Records, Chunk
<1> QED
  BY <1>3 DEF toSemanticInputRecords, s

\* The longest beginning that fits: there is one, since nothing fits.
LEMMA CutTyped ==
  ASSUME NEW text \in Seq(Sentences), NEW limit \in Nat
  PROVE  Cut(text, limit) \in Seq(Sentences)
<1> DEFINE fits == { n \in 0 .. Len(text) : LengthOf(SubSeq(text, 1, n)) <= limit + 1 }
           left == { k \in Nat : Len(text) - k \in fits }
           best == CHOOSE n \in fits : \A m \in fits : m <= n
<1>1. 0 \in fits
  <2>1. SubSeq(text, 1, 0) = <<>> /\ <<>> \in Seq(Sentences)
    OBVIOUS
  <2>2. LengthOf(SubSeq(text, 1, 0)) = 0
    BY <2>1, Lengths
  <2> QED BY <2>2
<1>2. Len(text) \in Nat /\ fits \subseteq 0 .. Len(text)
  OBVIOUS
<1>3. Cut(text, limit) = SubSeq(text, 1, best)
  BY DEF Cut
<1> HIDE DEF fits
<1>4. left \in SUBSET Nat /\ Len(text) \in left
  BY <1>1, <1>2
<1>5. PICK k \in left : \A m \in left : k <= m
  <2> HIDE DEF left
  <2> QED BY <1>4, FirstOf
<1>6. Len(text) - k \in fits /\ \A m \in fits : m <= Len(text) - k
  <2>1. \A m \in fits : Len(text) - m \in left
    BY <1>2
  <2> QED BY <1>2, <1>5, <2>1
<1>7. best \in fits
  BY <1>6
<1> HIDE DEF best
<1>8. best \in 0 .. Len(text)
  BY <1>2, <1>7
<1> QED
  BY <1>3, <1>8

Prompt(recs) == [id : Ids(recs), name : { r.name : r \in ToSet(recs) }, text : Seq(Sentences)]

\* The first records, each with its id, in prompts that lose none of them.
LEMMA PromptsTile ==
  ASSUME NEW recs, Records(recs), NEW limit \in Nat
  PROVE  LET prompts == toPromptRecords(recs, limit)
             groups  == partitionPromptRecords(prompts)
         IN  /\ Len(prompts) = Smaller(MaxPromptRecords, Len(recs)) /\ prompts \in Seq(Prompt(recs))
             /\ \A n \in 1 .. Len(prompts) : prompts[n].id = recs[n].id
             /\ groups \in Seq(Seq(Prompt(recs)))
             /\ \E start : Tiled(prompts, groups, start, Len(prompts))
<1> DEFINE k == Smaller(MaxPromptRecords, Len(recs))
           prompts == toPromptRecords(recs, limit)
           sizes == [n \in DOMAIN prompts |-> promptRecordSize(prompts[n])]
           prompt(i) == [recs[i] EXCEPT !.text = Cut(recs[i].text, limit)]
<1>1. recs \in Seq(ToSet(recs)) /\ k \in 0 .. Len(recs)
  BY ExtractionAssumption DEF Records, Smaller
<1>2. prompts = [i \in 1 .. k |-> prompt(i)]
  BY DEF toPromptRecords
<1>3. ASSUME NEW i \in 1 .. k
      PROVE  prompt(i) \in Prompt(recs) /\ prompt(i).id = recs[i].id
  <2>1. i \in 1 .. Len(recs) /\ recs[i] \in ToSet(recs)
    BY <1>1 DEF ToSet
  <2>2. recs[i] \in [id : {recs[i].id}, name : {recs[i].name}, text : Seq(Sentences)]
    BY <2>1 DEF Records
  <2>3. Cut(recs[i].text, limit) \in Seq(Sentences)
    BY <2>2, CutTyped
  <2>4. prompt(i) = [id |-> recs[i].id, name |-> recs[i].name, text |-> Cut(recs[i].text, limit)]
    BY <2>2
  <2>5. recs[i].id \in Ids(recs) /\ recs[i].name \in { r.name : r \in ToSet(recs) }
    BY <2>1 DEF Ids
  <2> HIDE DEF prompt
  <2> QED BY <2>3, <2>4, <2>5 DEF Prompt
<1> HIDE DEF k, prompt, prompts
<1>4. prompts \in Seq(Prompt(recs)) /\ Len(prompts) = k
  BY <1>1, <1>2, <1>3
<1>5. \A n \in 1 .. Len(prompts) : prompts[n].id = recs[n].id
  BY <1>2, <1>3, <1>4
<1>6. \A n \in 1 .. Len(prompts) : sizes[n] \in Nat
  <2>1. ASSUME NEW n \in 1 .. Len(prompts) PROVE promptRecordSize(prompts[n]) \in Nat
    <3>1. prompts[n] \in Prompt(recs)
      BY <1>4
    <3>2. LengthOf(prompts[n].text) \in Nat
      BY <3>1, Lengths DEF Prompt
    <3> QED BY <3>2, ExtractionAssumption DEF promptRecordSize
  <2>2. \A n \in 1 .. Len(prompts) : sizes[n] = promptRecordSize(prompts[n])
    BY <1>4
  <2> QED BY <2>1, <2>2
<1>7. partitionPromptRecords(prompts) = Grouped(prompts, sizes, 0, MaxBatchRecords, MaxBatchChars)
  BY DEF partitionPromptRecords
<1> HIDE DEF sizes
<1>8. LET groups == partitionPromptRecords(prompts) IN
      groups \in Seq(Seq(Prompt(recs))) /\ \E start : Tiled(prompts, groups, start, Len(prompts))
  BY <1>4, <1>6, <1>7, GroupsTile
<1> QED
  BY <1>4, <1>5, <1>8 DEF k, prompts

-----------------------------------------------------------------------------
(* What is found without the model *)

CandidateIds(record) == { record.id \o <<"sem", n>> : n \in Nat }
Candidate(recs) == [id : UNION { CandidateIds(r) : r \in ToSet(recs) }, name : { r.name : r \in ToSet(recs) },
                    text : Seq(Sentences)]

LEMMA Neighbours ==
  ASSUME NEW recs, Records(recs), NEW r \in ToSet(recs), NEW before \in Seq(Candidate(recs))
  PROVE  CandidatesOf(r, before) \in Seq(Candidate(recs))
<1>t. r.text \in Seq(Sentences)
  BY DEF Records
<1> DEFINE from(m) == IF m = 1 THEN 1 ELSE m - 1
           around(m) == SubSeq(r.text, from(m), Smaller(m + 1, Len(r.text)))
           candidate(m) == [id |-> r.id \o <<"sem", m>>, name |-> r.name, text |-> around(m)]
<1>c. ASSUME NEW m \in 1 .. Len(r.text) PROVE candidate(m) \in Candidate(recs)
  <2>1. from(m) \in 1 .. Len(r.text) /\ Smaller(m + 1, Len(r.text)) \in 1 .. Len(r.text)
    BY <1>t DEF Smaller
  <2>2. around(m) \in Seq(Sentences)
    <3> HIDE DEF from
    <3> QED BY <1>t, <2>1
  <2>3. r.id \o <<"sem", m>> \in CandidateIds(r)
    <3>1. m \in Nat
      BY <1>t
    <3> QED BY <3>1 DEF CandidateIds
  <2>4. r.id \o <<"sem", m>> \in UNION { CandidateIds(l) : l \in ToSet(recs) }
    BY <2>3
  <2> HIDE DEF around
  <2> QED BY <2>2, <2>4 DEF Candidate
<1> DEFINE n == Len(r.text)
           A == Seq(Candidate(recs))
           op(a, m) == IF ~r.text[m].personal \/ r.text[m].asks THEN a ELSE Append(a, candidate(m))
           Is(g) == g = [m \in 0 .. n |-> IF m = 0 THEN before ELSE op(g[m - 1], m)]
           g0 == CHOOSE g : Is(g)
           F == [p \in A \X (1 .. n) |-> op(p[1], p[2])]
<1>1. CandidatesOf(r, before) = g0[n]
  BY DEF CandidatesOf, ReduceIndices
<1>2. n \in Nat /\ before \in A
  BY <1>t
<1>3. F \in [A \X (1 .. n) -> A] /\ \A a \in A, m \in 1 .. n : F[<<a, m>>] = op(a, m)
  <2> HIDE DEF candidate
  <2> QED BY <1>c
<1> HIDE DEF F, op, n, A, candidate
<1>4. PICK g \in [0 .. n -> A] : Stepped(g, A, before, n, F)
  BY <1>2, <1>3, StepsExist
<1>5. Is(g)
  <2>1. \A m \in 0 .. n : m # 0 => g[m] = op(g[m - 1], m)
    BY <1>2, <1>3, <1>4, Place DEF Stepped
  <2> QED BY <1>4, <2>1 DEF Stepped
<1>6. Is(g0)
  <2> HIDE DEF Is
  <2> QED BY <1>5
<1> HIDE DEF g0
<1>7. g0[0] = before /\ \A m \in 1 .. n : g0[m] = op(g0[m - 1], m)
  BY <1>2, <1>6, Place
<1>8. Stepped(g0, A, before, n, F)
  BY <1>2, <1>3, <1>7, StepsStay
<1>9. g0[n] \in A
  BY <1>2, <1>8, Place DEF Stepped
<1> QED
  BY <1>1, <1>9 DEF A

LEMMA CandidatesTyped ==
  ASSUME NEW recs, Records(recs)
  PROVE  CandidateRecords(recs) \in Seq(Candidate(recs))
<1>t. recs \in Seq(ToSet(recs)) /\ \A m \in 1 .. Len(recs) : recs[m] \in ToSet(recs)
  BY DEF Records, ToSet
<1> DEFINE n == Len(recs)
           A == Seq(Candidate(recs))
           op(a, m) == CandidatesOf(recs[m], a)
           Is(g) == g = [m \in 0 .. n |-> IF m = 0 THEN <<>> ELSE op(g[m - 1], m)]
           g0 == CHOOSE g : Is(g)
           F == [p \in A \X (1 .. n) |-> op(p[1], p[2])]
<1>1. CandidateRecords(recs) = g0[n]
  BY DEF CandidateRecords, Reduce
<1>2. n \in Nat /\ <<>> \in A
  BY <1>t
<1>3. F \in [A \X (1 .. n) -> A] /\ \A a \in A, m \in 1 .. n : F[<<a, m>>] = op(a, m)
  BY <1>t, Neighbours
<1> HIDE DEF F, op, n, A
<1>4. PICK g \in [0 .. n -> A] : Stepped(g, A, <<>>, n, F)
  BY <1>2, <1>3, StepsExist
<1>5. Is(g)
  <2>1. \A m \in 0 .. n : m # 0 => g[m] = op(g[m - 1], m)
    BY <1>2, <1>3, <1>4, Place DEF Stepped
  <2> QED BY <1>4, <2>1 DEF Stepped
<1>6. Is(g0)
  <2> HIDE DEF Is
  <2> QED BY <1>5
<1> HIDE DEF g0
<1>7. g0[0] = <<>> /\ \A m \in 1 .. n : g0[m] = op(g0[m - 1], m)
  BY <1>2, <1>6, Place
<1>8. Stepped(g0, A, <<>>, n, F)
  BY <1>2, <1>3, <1>7, StepsStay
<1>9. g0[n] \in A
  BY <1>2, <1>8, Place DEF Stepped
<1> QED
  BY <1>1, <1>9 DEF A

\* The patterns find facts that are quoted from nothing yet.
LEMMA SaidTyped ==
  ASSUME NEW known \in Collections({}), NEW r, r.text \in Seq(Sentences)
  PROVE  SaidIn(known, r) \in Collections({})
<1>t. \A m \in 1 .. Len(r.text) : r.text[m] \in Sentences
  OBVIOUS
<1> DEFINE n == Len(r.text)
           A == Collections({})
           op(a, m) == extractStableFacts(a, r.text[m])
           Is(g) == g = [m \in 0 .. n |-> IF m = 0 THEN known ELSE op(g[m - 1], m)]
           g0 == CHOOSE g : Is(g)
           F == [p \in A \X (1 .. n) |-> op(p[1], p[2])]
<1>1. SaidIn(known, r) = g0[n]
  BY DEF SaidIn, Reduce
<1>2. n \in Nat /\ known \in A
  OBVIOUS
<1>3. F \in [A \X (1 .. n) -> A] /\ \A a \in A, m \in 1 .. n : F[<<a, m>>] = op(a, m)
  BY <1>t, StableFacts DEF Grown
<1> HIDE DEF F, op, n, A
<1>4. PICK g \in [0 .. n -> A] : Stepped(g, A, known, n, F)
  BY <1>2, <1>3, StepsExist
<1>5. Is(g)
  <2>1. \A m \in 0 .. n : m # 0 => g[m] = op(g[m - 1], m)
    BY <1>2, <1>3, <1>4, Place DEF Stepped
  <2> QED BY <1>4, <2>1 DEF Stepped
<1>6. Is(g0)
  <2> HIDE DEF Is
  <2> QED BY <1>5
<1> HIDE DEF g0
<1>7. g0[0] = known /\ \A m \in 1 .. n : g0[m] = op(g0[m - 1], m)
  BY <1>2, <1>6, Place
<1>8. Stepped(g0, A, known, n, F)
  BY <1>2, <1>3, <1>7, StepsStay
<1>9. g0[n] \in A
  BY <1>2, <1>8, Place DEF Stepped
<1> QED
  BY <1>1, <1>9 DEF A

LEMMA AllSaid ==
  ASSUME NEW candidates, NEW C, candidates \in Seq(C), \A r \in C : r.text \in Seq(Sentences)
  PROVE  Reduce(SaidIn, Nothing, candidates) \in Collections({})
<1>t. \A m \in 1 .. Len(candidates) : candidates[m].text \in Seq(Sentences)
  OBVIOUS
<1>e. Nothing \in Collections({})
  BY NothingCollected
<1> DEFINE n == Len(candidates)
           A == Collections({})
           op(a, m) == SaidIn(a, candidates[m])
           Is(g) == g = [m \in 0 .. n |-> IF m = 0 THEN Nothing ELSE op(g[m - 1], m)]
           g0 == CHOOSE g : Is(g)
           F == [p \in A \X (1 .. n) |-> op(p[1], p[2])]
<1>1. Reduce(SaidIn, Nothing, candidates) = g0[n]
  BY DEF Reduce
<1>2. n \in Nat /\ Nothing \in A
  BY <1>e
<1>3. F \in [A \X (1 .. n) -> A] /\ \A a \in A, m \in 1 .. n : F[<<a, m>>] = op(a, m)
  BY <1>t, SaidTyped
<1> HIDE DEF F, op, n, A
<1>4. PICK g \in [0 .. n -> A] : Stepped(g, A, Nothing, n, F)
  BY <1>2, <1>3, StepsExist
<1>5. Is(g)
  <2>1. \A m \in 0 .. n : m # 0 => g[m] = op(g[m - 1], m)
    BY <1>2, <1>3, <1>4, Place DEF Stepped
  <2> QED BY <1>4, <2>1 DEF Stepped
<1>6. Is(g0)
  <2> HIDE DEF Is
  <2> QED BY <1>5
<1> HIDE DEF g0
<1>7. g0[0] = Nothing /\ \A m \in 1 .. n : g0[m] = op(g0[m - 1], m)
  BY <1>2, <1>6, Place
<1>8. Stepped(g0, A, Nothing, n, F)
  BY <1>2, <1>3, <1>7, StepsStay
<1>9. g0[n] \in A
  BY <1>2, <1>8, Place DEF Stepped
<1> QED
  BY <1>1, <1>9 DEF A

LEMMA InSomeOrder ==
  ASSUME NEW S, IsFiniteSet(S)
  PROVE  SetToSeq(S) \in Seq(S)
<1>1. Cardinality(S) \in Nat /\ ExistsBijection(1 .. Cardinality(S), S)
  BY FS_CardinalityType
<1>2. \E f \in [1 .. Cardinality(S) -> S] : IsInjective(f)
  BY <1>1 DEF ExistsBijection, Bijection, Injection, IsInjective
<1>3. SetToSeq(S) \in [1 .. Cardinality(S) -> S]
  BY <1>2 DEF SetToSeq
<1> QED
  BY <1>1, <1>3

\* What the patterns find is no contract the guardrails could not read, and what
\* they leave of it is quoted from the records too.
LEMMA FallbackIsSourced ==
  ASSUME NEW recs, Records(recs)
  PROVE  \E Q : applySemanticJsonGuardrails(extractSemanticFacts(recs), recs) \in Founds(recs, Q)
<1> DEFINE candidates == CandidateRecords(recs)
           said == Reduce(SaidIn, Nothing, candidates)
           First(x) == FirstToSay(x, candidates)
           contract(x) == [source |-> First(x).id, name |-> First(x).name, quote |-> ToSet(First(x).text), fact |-> x,
                           confidence |-> said[x].confidence, label |-> said[x].label,
                           wellFormed |-> TRUE, current |-> TRUE]
           S == { contract(x) : x \in DOMAIN said }
<1>1. extractSemanticFacts(recs) = SetToSeq(S)
  BY DEF extractSemanticFacts
<1>2. said \in Collections({})
  <2>1. candidates \in Seq(Candidate(recs)) /\ \A r \in Candidate(recs) : r.text \in Seq(Sentences)
    BY CandidatesTyped DEF Candidate
  <2> HIDE DEF candidates
  <2> QED BY <2>1, AllSaid
<1> HIDE DEF First, said
<1>3. DOMAIN said \subseteq Signatures /\ IsFiniteSet(DOMAIN said) /\ \A x \in DOMAIN said : said[x] \in Entry({})
  BY <1>2, CollectionParts
<1>4. \A c \in S : FieldsOf(c)
  BY <1>3 DEF FieldsOf, Entry
<1>5. IsFiniteSet(S)
  <2> DEFINE f == [x \in DOMAIN said |-> contract(x)]
  <2>1. f \in Surjection(DOMAIN said, S)
    <3> HIDE DEF contract
    <3> QED BY DEF Surjection
  <2> QED BY <1>3, <2>1, FS_Surjection
<1> HIDE DEF S, contract
<1>6. SetToSeq(S) \in Seq(S)
  BY <1>5, InSomeOrder
<1> DEFINE all == SetToSeq(S)
<1>7. all \in Seq(S)
  BY <1>6
<1> HIDE DEF all
<1>8. all \in Seq(ToSet(all)) /\ ToSet(all) \subseteq S
  BY <1>7 DEF ToSet
<1>9. \E Q : applySemanticJsonGuardrails(all, recs) \in Founds(recs, Q)
  BY <1>4, <1>8, GuardrailsHold
<1> QED
  BY <1>1, <1>9 DEF all

-----------------------------------------------------------------------------
(* The work of an import *)

Stages == {"sieving", "loading", "asking", "recovering", "extracted"}

\* The ids of the first records: what an attempt has shown when it ends.
AllShown(j) == j.shown = [n \in 1 .. Smaller(MaxPromptRecords, Len(j.input)) |-> j.input[n].id]

\* An attempt has shown the prompts of the batches before the one it has reached.
ShownSoFar(j) ==
  LET prompts == toPromptRecords(j.input, ContentLimits[j.attempt]) IN
  \E start :
    /\ Tiled(prompts, BatchesOf(j), start, Len(prompts))
    /\ j.batch \in 1 .. Len(BatchesOf(j))
    /\ Len(j.shown) = start[j.batch] /\ j.shown \in Seq(Ids(j.input))
    /\ \A n \in 1 .. Len(j.shown) : j.shown[n] = j.input[n].id

\* The fields a step may set.
WorkFields == {"stage", "baseline", "input", "attempt", "batch", "answers", "shown", "answered", "found"}

Working(i, j) ==
  /\ DOMAIN j = WorkFields
  /\ j.stage \in Stages /\ j.answered \in BOOLEAN /\ j.attempt \in 1 .. Len(ContentLimits) /\ j.batch \in Nat \ {0}
  /\ j.baseline \in Baselines(Uploads[i]) /\ j.answers \in Seq(Contracts)
  /\ Records(j.input) /\ \E Q : j.found \in Founds(j.input, Q)

\* What has been shown and answered, and what has been found of it.
WorkSound(i, j) ==
  /\ Working(i, j)
  /\ j.stage # "extracted" => ~j.answered /\ j.found = Nothing
  /\ j.stage \in {"sieving", "loading"} => j.attempt = 1 /\ j.batch = 1 /\ j.answers = <<>> /\ j.shown = <<>>
  /\ j.stage \in {"asking", "recovering"} => j.input # <<>> /\ ShownSoFar(j)
  /\ j.stage = "extracted" /\ j.answered => AllShown(j)

WorkIsSound ==
  /\ work = [i \in Importers |-> work[i]]
  /\ \A i \in Importers : work[i] = NoWork \/ WorkSound(i, work[i])

LEMMA WorkStep ==
  ASSUME WorkIsSound, NEW i \in Importers, NEW next, next = NoWork \/ WorkSound(i, next),
         work' = [work EXCEPT ![i] = next]
  PROVE  WorkIsSound'
<1>1. work' = [k \in Importers |-> IF k = i THEN next ELSE work[k]]
  BY DEF WorkIsSound
<1>2. work' = [k \in Importers |-> work'[k]]
  BY <1>1
<1>3. ASSUME NEW k \in Importers PROVE work'[k] = NoWork \/ WorkSound(k, work'[k])
  <2>1. CASE k = i
    BY <1>1, <2>1
  <2>2. CASE k # i
    <3>1. work'[k] = work[k]
      BY <1>1, <2>2
    <3> QED BY <3>1 DEF WorkIsSound
  <2> QED BY <2>1, <2>2
<1> QED
  BY <1>2, <1>3 DEF WorkIsSound

LEMMA UploadedRecords == ASSUME NEW i \in Importers PROVE Records(Uploads[i])
BY PageAssumption DEF Records

LEMMA NothingFound == ASSUME NEW recs PROVE \E Q : Nothing \in Founds(recs, Q)
BY NothingCollected DEF Founds

LEMMA LimitsAreNumbers ==
  /\ Len(ContentLimits) \in Nat \ {0}
  /\ \A n \in 1 .. Len(ContentLimits) : ContentLimits[n] \in Nat
BY PageAssumption

LEMMA NewWorkSound == ASSUME NEW i \in Importers PROVE WorkSound(i, NewWork(Uploads[i]))
<1> DEFINE j == NewWork(Uploads[i])
<1>1. extractGeneralFactsWithEvidence(Uploads[i]) \in Baselines(Uploads[i])
  BY UploadedRecords, BaselineRead
<1>2. /\ j.stage \in {"sieving", "extracted"} /\ j.baseline = extractGeneralFactsWithEvidence(Uploads[i])
      /\ j.input = Uploads[i] /\ j.attempt = 1 /\ j.batch = 1 /\ j.answers = <<>> /\ j.shown = <<>>
      /\ j.answered = FALSE /\ j.found = Nothing /\ DOMAIN j = WorkFields
  BY DEF NewWork, WorkFields
<1>3. 1 \in 1 .. Len(ContentLimits) /\ <<>> \in Seq(Contracts)
  BY LimitsAreNumbers
<1> HIDE DEF j
<1>4. Working(i, j)
  <2>1. Records(j.input)
    BY <1>2, UploadedRecords
  <2>2. \E Q : j.found \in Founds(j.input, Q)
    BY <1>2, NothingFound
  <2>3. j.stage \in Stages /\ j.batch \in Nat \ {0} /\ j.attempt \in 1 .. Len(ContentLimits)
    BY <1>2, <1>3 DEF Stages
  <2>5. j.answered \in BOOLEAN
    BY <1>2
  <2>4. j.baseline \in Baselines(Uploads[i]) /\ j.answers \in Seq(Contracts)
    BY <1>1, <1>2, <1>3
  <2> QED BY <1>2, <2>1, <2>2, <2>3, <2>4, <2>5 DEF Working
<1>5. WorkSound(i, j)
  BY <1>2, <1>4 DEF WorkSound
<1> QED
  BY <1>5 DEF j

\* What is found of the records ends the work.
LEMMA ExtractedSound ==
  ASSUME NEW i \in Importers, NEW j, Working(i, j), NEW found, \E Q : found \in Founds(j.input, Q),
         j.answered => AllShown(j)
  PROVE  WorkSound(i, Extracted(j, found))
<1> DEFINE d == Extracted(j, found)
<1>1. 1 \in 1 .. Len(ContentLimits) /\ <<>> \in Seq(Contracts)
  BY LimitsAreNumbers
<1>2. /\ d.stage = "extracted" /\ d.baseline = j.baseline /\ d.input = j.input /\ d.shown = j.shown
      /\ d.answered = j.answered /\ d.found = found /\ d.attempt = 1 /\ d.batch = 1 /\ d.answers = <<>>
      /\ DOMAIN d = WorkFields
  BY DEF Working, WorkFields, Extracted
<1>3. Working(i, d)
  <2> HIDE DEF d
  <2> QED BY <1>1, <1>2 DEF Working, Stages
<1>4. d.answered => AllShown(d)
  BY <1>2 DEF AllShown
<1> HIDE DEF d
<1>5. WorkSound(i, d)
  BY <1>2, <1>3, <1>4 DEF WorkSound
<1> QED
  BY <1>5 DEF d

\* What the answers are worth is taken from them when all has been shown.
LEMMA ReturnsSound ==
  ASSUME NEW i \in Importers, NEW j, Working(i, j), AllShown(j)
  PROVE  WorkSound(i, Returns(j))
<1> DEFINE k == [j EXCEPT !.answered = TRUE]
           found == applySemanticJsonGuardrails(acceptedContracts(j.answers, j.input), j.input)
<1>1. Returns(j) = Extracted(k, applySemanticJsonGuardrails(acceptedContracts(k.answers, k.input), k.input))
  BY DEF Returns, Working, WorkFields
<1>2. /\ k.input = j.input /\ k.answered = TRUE /\ k.shown = j.shown /\ k.found = j.found /\ k.answers = j.answers
      /\ k.stage = j.stage /\ k.baseline = j.baseline /\ k.attempt = j.attempt /\ k.batch = j.batch
      /\ DOMAIN k = WorkFields
  BY DEF Working, WorkFields
<1> HIDE DEF k
<1>3. Working(i, k) /\ AllShown(k)
  BY <1>2 DEF Working, AllShown
<1>4. \E Q : found \in Founds(j.input, Q)
  BY AnswersAreSourced DEF Working
<1>5. Returns(j) = Extracted(k, found) /\ \E Q : found \in Founds(k.input, Q)
  BY <1>1, <1>2, <1>4
<1> HIDE DEF found
<1> QED
  BY <1>3, <1>5, ExtractedSound

LEMMA FallbackSound ==
  ASSUME NEW i \in Importers, NEW j, WorkSound(i, j), j.stage # "extracted"
  PROVE  WorkSound(i, Fallback(j))
<1>1. \E Q : applySemanticJsonGuardrails(extractSemanticFacts(j.input), j.input) \in Founds(j.input, Q)
  BY FallbackIsSourced DEF WorkSound, Working
<1> DEFINE found == applySemanticJsonGuardrails(extractSemanticFacts(j.input), j.input)
<1>2. \E Q : found \in Founds(j.input, Q)
  BY <1>1
<1>3. Fallback(j) = Extracted(j, found)
  BY DEF Fallback
<1> HIDE DEF found
<1> QED
  BY <1>2, <1>3, ExtractedSound DEF WorkSound

\* The prompts of an attempt, in batches.
LEMMA AttemptTiles ==
  ASSUME NEW j, Records(j.input), j.attempt \in 1 .. Len(ContentLimits)
  PROVE  LET prompts == toPromptRecords(j.input, ContentLimits[j.attempt]) IN
         /\ Len(prompts) = Smaller(MaxPromptRecords, Len(j.input)) /\ prompts \in Seq(Prompt(j.input))
         /\ \A n \in 1 .. Len(prompts) : prompts[n].id = j.input[n].id
         /\ BatchesOf(j) \in Seq(Seq(Prompt(j.input)))
         /\ \E start : Tiled(prompts, BatchesOf(j), start, Len(prompts))
<1> DEFINE limit == ContentLimits[j.attempt]
<1>1. limit \in Nat
  BY LimitsAreNumbers
<1>2. BatchesOf(j) = partitionPromptRecords(toPromptRecords(j.input, limit))
  BY DEF BatchesOf
<1> HIDE DEF limit
<1> QED
  BY <1>1, <1>2, PromptsTile DEF limit

\* An attempt begins with its first batch: there is one when there are records.
LEMMA AttemptBegins ==
  ASSUME NEW j, Records(j.input), j.attempt \in 1 .. Len(ContentLimits), j.input # <<>>, j.batch = 1, j.shown = <<>>
  PROVE  ShownSoFar(j)
<1> DEFINE prompts == toPromptRecords(j.input, ContentLimits[j.attempt])
           groups == BatchesOf(j)
<1>1. PICK start : Tiled(prompts, groups, start, Len(prompts))
  BY AttemptTiles
<1>2. Len(prompts) = Smaller(MaxPromptRecords, Len(j.input)) /\ groups \in Seq(Seq(Prompt(j.input)))
  BY AttemptTiles
<1> HIDE DEF prompts, groups
<1>3. Len(prompts) >= 1
  <2>1. j.input \in Seq(ToSet(j.input)) /\ Len(j.input) \in Nat /\ Len(j.input) # 0
    BY DEF Records
  <2> QED BY <1>2, <2>1, ExtractionAssumption DEF Smaller
<1>4. Len(groups) \in Nat /\ start[1] = 0 /\ start[Len(groups) + 1] = Len(prompts)
  BY <1>1, <1>2 DEF Tiled
<1>5. Len(groups) # 0
  BY <1>3, <1>4
<1>6. j.batch \in 1 .. Len(groups) /\ Len(j.shown) = start[j.batch] /\ j.shown \in Seq(Ids(j.input))
  <2>1. Len(<<>>) = 0 /\ <<>> \in Seq(Ids(j.input))
    OBVIOUS
  <2> QED BY <1>4, <1>5, <2>1
<1>7. \A n \in 1 .. Len(j.shown) : j.shown[n] = j.input[n].id
  BY <1>4, <1>6
<1> QED
  BY <1>1, <1>6, <1>7 DEF ShownSoFar, prompts, groups

LEMMA Joined ==
  ASSUME NEW S, NEW s \in Seq(S), NEW t \in Seq(S)
  PROVE  /\ s \o t \in Seq(S) /\ Len(s \o t) = Len(s) + Len(t)
         /\ \A n \in 1 .. Len(s) : (s \o t)[n] = s[n]
         /\ \A n \in 1 .. Len(t) : (s \o t)[Len(s) + n] = t[n]
OBVIOUS

\* A batch is answered: its prompts have been shown too.
LEMMA BatchShown ==
  ASSUME NEW j, Records(j.input), j.attempt \in 1 .. Len(ContentLimits), ShownSoFar(j)
  PROVE  LET prompts == toPromptRecords(j.input, ContentLimits[j.attempt])
             groups  == BatchesOf(j)
             shown   == j.shown \o [n \in DOMAIN groups[j.batch] |-> groups[j.batch][n].id]
         IN  \E start :
               /\ Tiled(prompts, groups, start, Len(prompts)) /\ Len(groups) \in Nat /\ j.batch \in 1 .. Len(groups)
               /\ Len(shown) = start[j.batch + 1] /\ shown \in Seq(Ids(j.input))
               /\ \A n \in 1 .. Len(shown) : shown[n] = j.input[n].id
<1> DEFINE prompts == toPromptRecords(j.input, ContentLimits[j.attempt])
           groups == BatchesOf(j)
           group == groups[j.batch]
           ids == [n \in DOMAIN group |-> group[n].id]
           shown == j.shown \o ids
<1>1. PICK start :
        /\ Tiled(prompts, groups, start, Len(prompts)) /\ j.batch \in 1 .. Len(groups)
        /\ Len(j.shown) = start[j.batch] /\ j.shown \in Seq(Ids(j.input))
        /\ \A n \in 1 .. Len(j.shown) : j.shown[n] = j.input[n].id
  BY DEF ShownSoFar
<1>2. /\ prompts \in Seq(Prompt(j.input)) /\ groups \in Seq(Seq(Prompt(j.input)))
      /\ \A n \in 1 .. Len(prompts) : prompts[n].id = j.input[n].id
  BY AttemptTiles
<1> HIDE DEF prompts, groups
<1>3. group \in Seq(Prompt(j.input)) /\ Len(group) \in Nat /\ Len(groups) \in Nat /\ Len(prompts) \in Nat
  BY <1>1, <1>2
<1>4. /\ start[j.batch + 1] = start[j.batch] + Len(group)
      /\ \A n \in 1 .. Len(group) : group[n] = prompts[start[j.batch] + n]
      /\ start[j.batch] \in 0 .. Len(prompts) /\ start[j.batch + 1] \in 0 .. Len(prompts)
  <2>1. j.batch \in 1 .. Len(groups) + 1 /\ j.batch + 1 \in 1 .. Len(groups) + 1
    BY <1>1, <1>3
  <2> QED BY <1>1, <2>1 DEF Tiled
<1> HIDE DEF group
<1>5. ids \in Seq(Ids(j.input)) /\ Len(ids) = Len(group) /\ \A n \in 1 .. Len(group) : ids[n] = group[n].id
  <2>1. ASSUME NEW n \in 1 .. Len(group) PROVE group[n].id \in Ids(j.input)
    <3>1. group[n] \in Prompt(j.input)
      BY <1>3
    <3> QED BY <3>1 DEF Prompt
  <2>2. ids = [n \in 1 .. Len(group) |-> group[n].id]
    BY <1>3
  <2> QED BY <1>3, <2>1, <2>2
<1> HIDE DEF ids
<1> DEFINE before == j.shown
<1>b. before \in Seq(Ids(j.input)) /\ shown = before \o ids
  BY <1>1
<1> HIDE DEF shown, before
<1>6. shown \in Seq(Ids(j.input)) /\ Len(shown) = Len(before) + Len(ids)
  BY <1>5, <1>b, Joined
<1>7. ASSUME NEW n \in 1 .. Len(shown) PROVE shown[n] = j.input[n].id
  <2>1. CASE n \in 1 .. Len(before)
    <3>1. shown[n] = before[n]
      BY <1>5, <1>b, <2>1
    <3> QED BY <1>1, <2>1, <3>1 DEF before
  <2>2. CASE n \notin 1 .. Len(before)
    <3>1. Len(before) \in Nat /\ n \in Nat /\ n > Len(before) /\ n <= Len(before) + Len(ids)
      BY <1>b, <1>6, <2>2
    <3>2. n - Len(before) \in 1 .. Len(group)
      BY <1>3, <1>5, <3>1
    <3>3. shown[n] = ids[n - Len(before)]
      BY <1>5, <1>b, <3>1
    <3>4. start[j.batch] = Len(before) /\ start[j.batch] + (n - Len(before)) = n
      BY <1>1, <3>1 DEF before
    <3>5. group[n - Len(before)] = prompts[n]
      BY <1>4, <3>2, <3>4
    <3>6. n \in 1 .. Len(prompts)
      BY <1>3, <1>4, <1>5, <3>1, <3>4
    <3> QED BY <1>2, <1>5, <3>2, <3>3, <3>5, <3>6
  <2> QED BY <2>1, <2>2
<1>8. Len(shown) = start[j.batch + 1]
  BY <1>1, <1>4, <1>5, <1>6 DEF before
<1>9. /\ Tiled(prompts, groups, start, Len(prompts)) /\ Len(groups) \in Nat /\ j.batch \in 1 .. Len(groups)
      /\ Len(shown) = start[j.batch + 1] /\ shown \in Seq(Ids(j.input))
      /\ \A n \in 1 .. Len(shown) : shown[n] = j.input[n].id
  BY <1>1, <1>3, <1>6, <1>7, <1>8
<1> QED
  BY <1>9 DEF prompts, groups, group, ids, shown

\* After the last batch all has been shown.
LEMMA LastBatchShown ==
  ASSUME NEW j, Records(j.input), j.attempt \in 1 .. Len(ContentLimits), NEW shown,
         shown \in Seq(Ids(j.input)), \A n \in 1 .. Len(shown) : shown[n] = j.input[n].id,
         NEW start, Tiled(toPromptRecords(j.input, ContentLimits[j.attempt]), BatchesOf(j), start,
                          Len(toPromptRecords(j.input, ContentLimits[j.attempt]))),
         Len(shown) = start[Len(BatchesOf(j)) + 1]
  PROVE  shown = [n \in 1 .. Smaller(MaxPromptRecords, Len(j.input)) |-> j.input[n].id]
<1> DEFINE k == Smaller(MaxPromptRecords, Len(j.input))
<1>1. Len(shown) = k
  BY AttemptTiles DEF Tiled
<1>2. shown = [n \in 1 .. Len(shown) |-> shown[n]]
  OBVIOUS
<1> HIDE DEF k
<1> QED
  BY <1>1, <1>2 DEF k

\* The next batch, or the end of the answers.
LEMMA RepliesSound ==
  ASSUME WorkIsSound, NEW i \in Importers, NEW a \in Replied, Replies(i, a)
  PROVE  WorkIsSound'
<1> DEFINE j == work[i]
           group == BatchesOf(j)[j.batch]
           shown == j.shown \o [n \in DOMAIN group |-> group[n].id]
           next == [j EXCEPT !.stage = "asking", !.batch = @ + 1, !.answers = @ \o a, !.shown = shown]
           again == [j EXCEPT !.stage = "recovering"]
<1>1. j.stage \in {"asking", "recovering"} /\ WorkSound(i, j)
  BY DEF WorkIsSound, NoWork, Replies
<1>2. /\ Working(i, j) /\ j.input # <<>> /\ ShownSoFar(j) /\ j.answered = FALSE /\ j.found = Nothing
      /\ Records(j.input) /\ j.attempt \in 1 .. Len(ContentLimits) /\ j.answers \in Seq(Contracts)
  BY <1>1 DEF WorkSound, Working
<1>3. work' = [work EXCEPT ![i] = IF a = <<>> /\ j.stage = "asking" THEN again
                                  ELSE IF next.batch > Len(BatchesOf(j)) THEN Returns(next) ELSE next]
  BY <1>2 DEF Replies, Goes, Working, WorkFields
<1>4. PICK start :
        /\ Tiled(toPromptRecords(j.input, ContentLimits[j.attempt]), BatchesOf(j), start,
                 Len(toPromptRecords(j.input, ContentLimits[j.attempt])))
        /\ Len(BatchesOf(j)) \in Nat /\ j.batch \in 1 .. Len(BatchesOf(j))
        /\ Len(shown) = start[j.batch + 1] /\ shown \in Seq(Ids(j.input))
        /\ \A n \in 1 .. Len(shown) : shown[n] = j.input[n].id
  BY <1>2, BatchShown
<1> HIDE DEF shown
<1>5. WorkSound(i, again)
  <2>1. /\ again.stage = "recovering" /\ again.baseline = j.baseline /\ again.input = j.input /\ again.shown = j.shown
        /\ again.answered = j.answered /\ again.found = j.found /\ again.attempt = j.attempt
        /\ again.batch = j.batch /\ again.answers = j.answers /\ DOMAIN again = WorkFields
    BY <1>2 DEF Working, WorkFields
  <2> HIDE DEF again
  <2>2. Working(i, again)
    BY <1>2, <2>1 DEF Working, Stages
  <2>3. ShownSoFar(again)
    BY <1>2, <2>1 DEF ShownSoFar, BatchesOf
  <2> QED BY <1>2, <2>1, <2>2, <2>3 DEF WorkSound
<1>6. /\ next.stage = "asking" /\ next.baseline = j.baseline /\ next.input = j.input /\ next.shown = shown
      /\ next.answered = j.answered /\ next.found = j.found /\ next.attempt = j.attempt
      /\ next.batch = j.batch + 1 /\ next.answers = j.answers \o a /\ DOMAIN next = WorkFields
  BY <1>2 DEF Working, WorkFields
<1> HIDE DEF next, again
<1>7. Working(i, next)
  <2>1. j.answers \o a \in Seq(Contracts)
    BY <1>2, RepliedContracts, Joined
  <2> QED BY <1>2, <1>6, <2>1 DEF Working, Stages
<1>8. BatchesOf(next) = BatchesOf(j)
  BY <1>6 DEF BatchesOf
<1>9. CASE next.batch > Len(BatchesOf(j))
  <2>1. j.batch = Len(BatchesOf(j))
    BY <1>4, <1>6, <1>9
  <2>2. shown = [n \in 1 .. Smaller(MaxPromptRecords, Len(j.input)) |-> j.input[n].id]
    <3>1. Len(shown) = start[Len(BatchesOf(j)) + 1]
      BY <1>4, <2>1
    <3> HIDE DEF j
    <3> QED BY <1>2, <1>4, <3>1, LastBatchShown
  <2>3. AllShown(next)
    BY <1>6, <2>2 DEF AllShown
  <2>4. WorkSound(i, Returns(next))
    BY <1>7, <2>3, ReturnsSound
  <2> HIDE DEF j
  <2> QED BY <1>3, <1>5, <1>9, <2>4, WorkStep
<1>10. CASE ~(next.batch > Len(BatchesOf(j)))
  <2>1. next.batch \in 1 .. Len(BatchesOf(next)) /\ Len(next.shown) = start[next.batch]
    BY <1>4, <1>6, <1>8, <1>10
  <2>2. ShownSoFar(next)
    BY <1>4, <1>6, <1>8, <2>1 DEF ShownSoFar
  <2>3. WorkSound(i, next)
    BY <1>2, <1>6, <1>7, <2>2 DEF WorkSound
  <2> HIDE DEF j
  <2> QED BY <1>3, <1>5, <1>10, <2>3, WorkStep
<1> QED
  BY <1>9, <1>10

LEMMA OverflowsSound == ASSUME WorkIsSound, NEW i \in Importers, Overflows(i) PROVE WorkIsSound'
<1> DEFINE j == work[i]
           next == NextAttempt(j)
<1>1. j.stage \in {"asking", "recovering"} /\ WorkSound(i, j)
  BY DEF WorkIsSound, NoWork, Overflows
<1>2. Working(i, j) /\ j.input # <<>> /\ j.answered = FALSE /\ j.found = Nothing
  BY <1>1 DEF WorkSound, Working
<1>3. work' = [work EXCEPT ![i] = IF j.attempt = Len(ContentLimits) THEN Fallback(j) ELSE next]
  BY DEF Overflows, Goes
<1>4. CASE j.attempt = Len(ContentLimits)
  <2>1. WorkSound(i, Fallback(j))
    BY <1>1, FallbackSound
  <2> QED BY <1>3, <1>4, <2>1, WorkStep
<1>5. CASE j.attempt # Len(ContentLimits)
  <2>1. /\ next.stage = "asking" /\ next.baseline = j.baseline /\ next.input = j.input /\ next.shown = <<>>
        /\ next.answered = j.answered /\ next.found = j.found /\ next.attempt = j.attempt + 1
        /\ next.batch = 1 /\ next.answers = <<>> /\ DOMAIN next = WorkFields
    BY <1>2 DEF Working, WorkFields, NextAttempt
  <2> HIDE DEF next
  <2>2. next.attempt \in 1 .. Len(ContentLimits) /\ <<>> \in Seq(Contracts)
    BY <1>2, <1>5, <2>1, LimitsAreNumbers DEF Working
  <2>3. Working(i, next)
    BY <1>2, <2>1, <2>2 DEF Working, Stages
  <2>4. ShownSoFar(next)
    BY <1>2, <2>1, <2>3, AttemptBegins DEF Working
  <2>5. WorkSound(i, next)
    BY <1>2, <2>1, <2>3, <2>4 DEF WorkSound
  <2> QED BY <1>3, <1>5, <2>5, WorkStep
<1> QED
  BY <1>4, <1>5

LEMMA EngineSound == ASSUME WorkIsSound, NEW i \in Importers, EngineReady(i) PROVE WorkIsSound'
<1> DEFINE j == work[i]
           next == [j EXCEPT !.stage = "asking"]
<1>1. j.stage = "loading" /\ WorkSound(i, j)
  BY DEF WorkIsSound, NoWork, EngineReady
<1>2. /\ Working(i, j) /\ j.attempt = 1 /\ j.batch = 1 /\ j.shown = <<>> /\ j.answered = FALSE /\ j.found = Nothing
  BY <1>1 DEF WorkSound, Working
<1>3. work' = [work EXCEPT ![i] = IF j.input = <<>> THEN Returns(j) ELSE next]
  BY DEF EngineReady, Goes
<1>4. CASE j.input = <<>>
  <2>1. Smaller(MaxPromptRecords, Len(j.input)) = 0
    BY <1>4, ExtractionAssumption DEF Smaller
  <2>2. AllShown(j)
    <3>1. \A s : [n \in 1 .. 0 |-> s[n].id] = <<>>
      OBVIOUS
    <3> QED BY <1>2, <2>1, <3>1 DEF AllShown
  <2>3. WorkSound(i, Returns(j))
    BY <1>2, <2>2, ReturnsSound
  <2> QED BY <1>3, <1>4, <2>3, WorkStep
<1>5. CASE j.input # <<>>
  <2>1. /\ next.stage = "asking" /\ next.baseline = j.baseline /\ next.input = j.input /\ next.shown = <<>>
        /\ next.answered = j.answered /\ next.found = j.found /\ next.attempt = j.attempt
        /\ next.batch = 1 /\ next.answers = j.answers /\ DOMAIN next = WorkFields
    BY <1>2 DEF Working, WorkFields
  <2> HIDE DEF next
  <2>2. Working(i, next)
    BY <1>2, <2>1 DEF Working, Stages
  <2>3. ShownSoFar(next)
    BY <1>5, <2>1, <2>2, AttemptBegins DEF Working
  <2>4. WorkSound(i, next)
    BY <1>2, <1>5, <2>1, <2>2, <2>3 DEF WorkSound
  <2> QED BY <1>3, <1>5, <2>4, WorkStep
<1> QED
  BY <1>4, <1>5

LEMMA SieveSound ==
  ASSUME WorkIsSound, NEW i \in Importers, SieveAnswers(i) \/ SieveFails(i)
  PROVE  WorkIsSound'
<1> DEFINE j == work[i]
           sieved == [j EXCEPT !.stage = "loading", !.input = toSemanticInputRecords(j.input)]
           asIs == [j EXCEPT !.stage = "loading"]
<1>1. j.stage = "sieving" /\ WorkSound(i, j)
  BY DEF WorkIsSound, NoWork, SieveAnswers, SieveFails
<1>2. /\ Working(i, j) /\ j.attempt = 1 /\ j.batch = 1 /\ j.shown = <<>> /\ j.answers = <<>>
      /\ j.answered = FALSE /\ j.found = Nothing
  BY <1>1 DEF WorkSound, Working
<1>3. \E next \in {sieved, asIs} : work' = [work EXCEPT ![i] = next]
  BY <1>2 DEF SieveAnswers, SieveFails, Goes, Working, WorkFields
<1>4. ASSUME NEW next \in {sieved, asIs} PROVE WorkSound(i, next)
  <2>1. /\ next.stage = "loading" /\ next.baseline = j.baseline /\ next.shown = <<>>
        /\ next.answered = j.answered /\ next.found = j.found /\ next.attempt = 1
        /\ next.batch = 1 /\ next.answers = <<>> /\ DOMAIN next = WorkFields
        /\ next.input = j.input \/ next.input = toSemanticInputRecords(j.input)
    BY <1>2 DEF Working, WorkFields
  <2>2. Records(next.input)
    BY <1>2, <2>1, SemanticInput DEF Working
  <2>3. \E Q : next.found \in Founds(next.input, Q)
    BY <1>2, <2>1, NothingFound
  <2> HIDE DEF sieved, asIs
  <2>4. Working(i, next)
    BY <1>2, <2>1, <2>2, <2>3 DEF Working, Stages
  <2> QED BY <1>2, <2>1, <2>4 DEF WorkSound
<1> HIDE DEF sieved, asIs, j
<1> QED
  BY <1>3, <1>4, WorkStep

LEMMA AbandonedSound ==
  ASSUME WorkIsSound, NEW i \in Importers, FallsBack(i) \/ WorkerTimesOut(i)
  PROVE  WorkIsSound'
<1> DEFINE j == work[i]
<1>1. j.stage # "extracted" /\ WorkSound(i, j)
  BY DEF WorkIsSound, NoWork, FallsBack, WorkerTimesOut
<1>2. \E next \in {Fallback(j), Extracted(j, Nothing)} : work' = [work EXCEPT ![i] = next]
  BY DEF FallsBack, WorkerTimesOut, Goes
<1>3. WorkSound(i, Fallback(j))
  BY <1>1, FallbackSound
<1>4. WorkSound(i, Extracted(j, Nothing))
  BY <1>1, NothingFound, ExtractedSound DEF WorkSound
<1> QED
  BY <1>2, <1>3, <1>4, WorkStep

LEMMA NextWorkSound == WorkIsSound /\ [PageNext]_pageVars => WorkIsSound'
<1> SUFFICES ASSUME WorkIsSound, [PageNext]_pageVars PROVE WorkIsSound'
  OBVIOUS
<1>1. ASSUME NEW i \in Importers, Starts(i) PROVE WorkIsSound'
  BY <1>1, NewWorkSound, WorkStep DEF Starts
<1>2. ASSUME NEW i \in Importers, Saves(i) \/ SaveFails(i) PROVE WorkIsSound'
  BY <1>2, WorkStep DEF Saves, SaveFails
<1>3. CASE UserDecides /\ UNCHANGED <<rollout, work>>
  BY <1>3 DEF WorkIsSound
<1>4. CASE UNCHANGED pageVars
  BY <1>4 DEF WorkIsSound, pageVars
<1> QED
  BY <1>1, <1>2, <1>3, <1>4, SieveSound, EngineSound, AbandonedSound, RepliesSound, OverflowsSound DEF PageNext

\* At every stage the work of an import holds no fact without its quotes, and has
\* shown the model each record of the batches it has answered.
THEOREM WorkStaysSound == PageSpec => []WorkIsSound
<1>1. PageInit => WorkIsSound
  BY DEF PageInit, WorkIsSound
<1> QED
  BY <1>1, NextWorkSound, PTL DEF PageSpec

\* However often the model answers, fails or is shortened, an import that is done
\* has facts that are quoted: those of the model from a text it was given, those of
\* the page from a statement of the user that says them.
THEOREM FactsAreQuoted == PageSpec => []EveryFactIsQuoted
<1>1. WorkIsSound => EveryFactIsQuoted
  <2> SUFFICES ASSUME WorkIsSound, NEW i \in Importers, Done(i)
               PROVE  LET j == work[i] IN
                      /\ \A x \in DOMAIN j.found : j.found[x].quotes # {} /\ \A q \in j.found[x].quotes :
                           Sourced(j.input, q)
                      /\ \A x \in DOMAIN j.baseline : j.baseline[x].quotes # {} /\ \A q \in j.baseline[x].quotes :
                           Stated(Uploads[i], q, x)
    BY DEF EveryFactIsQuoted, Sourced, Stated
  <2> DEFINE j == work[i]
  <2>1. Working(i, j)
    BY DEF WorkIsSound, NoWork, Done, WorkSound
  <2>2. PICK Q : j.found \in Founds(j.input, Q)
    BY <2>1 DEF Working
  <2>3. j.baseline \in Baselines(Uploads[i])
    BY <2>1 DEF Working
  <2> HIDE DEF j
  <2>4. \A x \in DOMAIN j.found : j.found[x].quotes # {} /\ \A q \in j.found[x].quotes : Sourced(j.input, q)
    BY <2>2 DEF Founds
  <2>5. \A x \in DOMAIN j.baseline : j.baseline[x].quotes # {} /\ \A q \in j.baseline[x].quotes :
          Stated(Uploads[i], q, x)
    BY <2>3 DEF Baselines
  <2> QED BY <2>4, <2>5 DEF j
<1> QED
  BY <1>1, WorkStaysSound, PTL

\* The answers that are used come from one attempt, which has shown each of the
\* first records once and in order, whatever the batches and the limits.
THEOREM RecordsAreShown == PageSpec => []PromptsCoverRecords
<1>1. WorkIsSound => PromptsCoverRecords
  BY DEF WorkIsSound, NoWork, WorkSound, AllShown, Done, PromptsCoverRecords
<1> QED
  BY <1>1, WorkStaysSound, PTL

\* Of two accounts the surer one is kept, under the stricter label.
LEMMA MergedCollections ==
  ASSUME NEW P, NEW old \in Collections(P), NEW Q, NEW new \in Collections(Q)
  PROVE  LET all == mergeFactCollections(old, new) IN
         /\ DOMAIN all = DOMAIN old \cup DOMAIN new /\ DOMAIN all \subseteq Signatures
         /\ \A x \in DOMAIN all : all[x] \in Entry(P \cup Q)
         /\ \A x \in DOMAIN old :
              /\ all[x].confidence >= old[x].confidence
              /\ old[x].label = "high" => all[x].label = "high"
<1> DEFINE all == mergeFactCollections(old, new)
           surer(x) == IF new[x].confidence >= old[x].confidence THEN new[x] ELSE old[x]
<1>1. /\ DOMAIN old \subseteq Signatures /\ DOMAIN new \subseteq Signatures
      /\ \A x \in DOMAIN old : old[x] \in Entry(P)
      /\ \A x \in DOMAIN new : new[x] \in Entry(Q)
  BY CollectionParts
<1>2. /\ DOMAIN all = DOMAIN old \cup DOMAIN new
      /\ \A x \in DOMAIN all :
           all[x] = IF x \notin DOMAIN new THEN old[x] ELSE IF x \notin DOMAIN old THEN new[x]
                    ELSE [surer(x) EXCEPT !.label = Stricter(old[x].label, new[x].label)]
  BY DEF mergeFactCollections
<1>3. Entry(P) \subseteq Entry(P \cup Q) /\ Entry(Q) \subseteq Entry(P \cup Q)
  BY DEF Entry
<1> HIDE DEF all
<1>4. ASSUME NEW x \in DOMAIN old, x \in DOMAIN new
      PROVE  /\ all[x] \in Entry(P \cup Q) /\ all[x].confidence >= old[x].confidence
             /\ old[x].label = "high" => all[x].label = "high"
  <2>1. all[x] = [surer(x) EXCEPT !.label = Stricter(old[x].label, new[x].label)]
    BY <1>2, <1>4
  <2>2. old[x] \in Entry(P \cup Q) /\ new[x] \in Entry(P \cup Q) /\ old[x].confidence \in 0 .. 100
    BY <1>1, <1>3, <1>4 DEF Entry
  <2>3. surer(x) \in Entry(P \cup Q) /\ surer(x).confidence >= old[x].confidence
    <3>1. new[x].confidence \in 0 .. 100
      BY <1>1, <1>4 DEF Entry
    <3> QED BY <2>2, <3>1
  <2>4. Stricter(old[x].label, new[x].label) \in Labels
        /\ (old[x].label = "high" => Stricter(old[x].label, new[x].label) = "high")
    BY DEF Stricter, Labels
  <2> HIDE DEF surer
  <2> QED BY <2>1, <2>3, <2>4 DEF Entry
<1>5. ASSUME NEW x \in DOMAIN old, x \notin DOMAIN new
      PROVE  all[x] = old[x] /\ all[x] \in Entry(P \cup Q) /\ all[x].confidence >= old[x].confidence
  <2>1. all[x] = old[x]
    BY <1>2, <1>5
  <2>2. old[x] \in Entry(P \cup Q) /\ old[x].confidence \in 0 .. 100
    BY <1>1, <1>3 DEF Entry
  <2> QED BY <2>1, <2>2
<1>6. \A x \in DOMAIN new \ DOMAIN old : all[x] \in Entry(P \cup Q)
  BY <1>1, <1>2, <1>3
<1> QED
  BY <1>1, <1>2, <1>4, <1>5, <1>6 DEF all

\* The facts of an import that is done, of which none of the page's own is lost.
LEMMA GeneralFacts ==
  ASSUME NEW i \in Importers, NEW j, Working(i, j)
  PROVE  LET all == generalFacts(j) IN
         /\ DOMAIN j.baseline \subseteq DOMAIN all /\ DOMAIN all \subseteq Signatures
         /\ \E Q : \A x \in DOMAIN all : all[x] \in Entry(Q)
         /\ \A x \in DOMAIN j.baseline :
              /\ all[x].confidence >= j.baseline[x].confidence
              /\ j.baseline[x].label = "high" => all[x].label = "high"
<1> DEFINE P == StatedQuotes(Uploads[i])
<1>1. j.baseline \in Collections(P)
  BY DEF Working, Baselines
<1>2. PICK Q : j.found \in Collections(Q)
  BY DEF Working, Founds
<1> HIDE DEF P
<1>3. CASE generalFacts(j) = mergeFactCollections(j.baseline, j.found)
  <2> DEFINE old == j.baseline
             new == j.found
             all == mergeFactCollections(old, new)
  <2>1. old \in Collections(P) /\ new \in Collections(Q) /\ generalFacts(j) = all
    BY <1>1, <1>2, <1>3
  <2> HIDE DEF old, new
  <2>2. /\ DOMAIN all = DOMAIN old \cup DOMAIN new /\ DOMAIN all \subseteq Signatures
        /\ \A x \in DOMAIN all : all[x] \in Entry(P \cup Q)
        /\ \A x \in DOMAIN old :
             /\ all[x].confidence >= old[x].confidence
             /\ old[x].label = "high" => all[x].label = "high"
    BY <2>1, MergedCollections
  <2> HIDE DEF all
  <2> QED BY <2>1, <2>2 DEF old
<1>4. CASE generalFacts(j) = j.baseline
  <2>1. DOMAIN j.baseline \subseteq Signatures /\ \A x \in DOMAIN j.baseline : j.baseline[x] \in Entry(P)
    BY <1>1, CollectionParts
  <2>2. \A x \in DOMAIN j.baseline : j.baseline[x].confidence \in 0 .. 100
    BY <2>1 DEF Entry
  <2>3. \A x \in DOMAIN j.baseline : j.baseline[x].confidence >= j.baseline[x].confidence
    BY <2>2
  <2> QED BY <1>4, <2>1, <2>3
<1> QED
  BY <1>3, <1>4 DEF generalFacts

\* What the page finds itself survives every answer: no fact is lost, none less
\* sure and no label weaker.
THEOREM BaselineStays == PageSpec => []BaselineSurvives
<1>1. WorkIsSound => BaselineSurvives
  <2> SUFFICES ASSUME WorkIsSound, NEW i \in Importers, Done(i)
               PROVE  LET base == work[i].baseline
                          all  == generalFacts(work[i])
                      IN  \A x \in DOMAIN base :
                            /\ x \in DOMAIN all /\ all[x].confidence >= base[x].confidence
                            /\ base[x].label = "high" => all[x].label = "high"
    BY DEF BaselineSurvives
  <2>1. Working(i, work[i])
    BY DEF WorkIsSound, NoWork, Done, WorkSound
  <2> QED BY <2>1, GeneralFacts
<1> QED
  BY <1>1, WorkStaysSound, PTL

\* What a save takes: one occurrence of each fact.
LEMMA BatchFound ==
  ASSUME NEW i \in Importers, NEW j, Working(i, j)
  PROVE  /\ Batch(generalFacts(j)) \subseteq Occurrence
         /\ \A o, p \in Batch(generalFacts(j)) : o.sig = p.sig => o = p
<1> DEFINE all == generalFacts(j)
           occurrence(x) == [sig |-> x, label |-> all[x].label,
                             sure |-> all[x].confidence >= SureFrom, backed |-> all[x].quotes # {}]
<1>1. PICK Q : \A x \in DOMAIN all : all[x] \in Entry(Q)
  BY GeneralFacts
<1>2. DOMAIN all \subseteq Signatures
  BY GeneralFacts
<1>3. Batch(all) = { occurrence(x) : x \in DOMAIN all }
  BY DEF Batch
<1> HIDE DEF all
<1>4. ASSUME NEW x \in DOMAIN all PROVE occurrence(x) \in Occurrence /\ occurrence(x).sig = x
  <2>1. all[x].label \in Labels /\ x \in Signatures
    BY <1>1, <1>2 DEF Entry
  <2>2. (all[x].confidence >= SureFrom) \in BOOLEAN /\ (all[x].quotes # {}) \in BOOLEAN
    OBVIOUS
  <2> QED BY <2>1, <2>2 DEF Occurrence
<1> HIDE DEF occurrence
<1>5. Batch(all) \subseteq Occurrence /\ \A o, p \in Batch(all) : o.sig = p.sig => o = p
  BY <1>3, <1>4
<1> QED
  BY <1>5 DEF all

\* Every step of the page is a step of imports that find one occurrence of a fact.
LEMMA PageImports == WorkIsSound /\ [PageNext]_pageVars => [ImportStep]_vars
<1> SUFFICES ASSUME WorkIsSound, [PageNext]_pageVars PROVE [ImportStep]_vars
  OBVIOUS
<1>1. ASSUME NEW i \in Importers, Saves(i) PROVE ImportStep
  <2>1. Working(i, work[i])
    BY <1>1 DEF WorkIsSound, NoWork, WorkSound, Saves
  <2>2. Findable(Batch(generalFacts(work[i])))
    BY <2>1, BatchFound DEF Findable
  <2>3. ImportSaves(i, Batch(generalFacts(work[i])))
    BY <1>1 DEF Saves
  <2> QED BY <2>2, <2>3 DEF ImportStep, Findable
<1>2. ASSUME NEW i \in Importers, Starts(i) \/ SaveFails(i) PROVE ImportStep
  BY <1>2 DEF Starts, SaveFails, ImportStep
<1>3. ASSUME NEW i \in Importers,
             \/ SieveAnswers(i) \/ SieveFails(i) \/ EngineReady(i) \/ FallsBack(i) \/ WorkerTimesOut(i) \/ Overflows(i)
             \/ \E a \in Replied : Replies(i, a)
      PROVE  UNCHANGED vars
  BY <1>3 DEF SieveAnswers, SieveFails, EngineReady, FallsBack, WorkerTimesOut, Overflows, Replies, Goes
<1>4. CASE UserDecides /\ UNCHANGED <<rollout, work>>
  BY <1>4 DEF ImportStep
<1>5. CASE UNCHANGED pageVars
  BY <1>5 DEF pageVars
<1> QED
  BY <1>1, <1>2, <1>3, <1>4, <1>5 DEF PageNext

\* The types of the imports, whatever their workers find.
THEOREM PageTyping == PageSpec => []TypeOK
<1>1. PageInit => Init
  BY DEF PageInit
<1> QED
  BY <1>1, InitTyped, NextTyped, PageImports, WorkStaysSound, PTL DEF PageSpec

\* Nothing guarded or high is in a persona unasked, whatever the model answers.
THEOREM NothingFoundUnasked == PageSpec => []OnlyConfirmedFacts
<1>1. PageInit => CopiesConfirmed
  BY DEF PageInit, Init, CopiesConfirmed, Confirmed, NoFacts
<1>2. CopiesConfirmed => OnlyConfirmedFacts
  BY DEF CopiesConfirmed, Confirmed, OnlyConfirmedFacts
<1> QED
  BY <1>1, <1>2, NextConfirmed, PageImports, PageTyping, WorkStaysSound, PTL DEF PageSpec

\* Decisions stand, whatever the model answers while they are made.
THEOREM DecisionsOutlastFindings == PageSpec => []DecisionsStand
<1>1. PageInit => CopiesStand
  BY DEF PageInit, Init, CopiesStand, StandsBut
<1>2. CopiesStand => DecisionsStand
  BY DEF CopiesStand, StandsBut, DecisionsStand
<1> QED
  BY <1>1, <1>2, NextStands, PageImports, PageTyping, WorkStaysSound, PTL DEF PageSpec

-----------------------------------------------------------------------------
(* The questionnaire *)

\* What of a form has been on the screen: all questions before the one it is at,
\* that one too unless the form is waiting for the next frame, and all of them
\* when it is finished.
OnScreen(f) ==
  /\ 1 .. f.at - 1 \subseteq f.painted
  /\ ~f.advancing => f.at \in f.painted
  /\ f.finished => DOMAIN f.types \subseteq f.painted

\* The parts of a form.
LEMMA FormParts ==
  ASSUME NEW types \in Seq(QuestionTypes) \ {<<>>}, NEW f \in FormOf(types)
  PROVE  /\ f.types = types /\ f.at \in DOMAIN types /\ f.at \in Nat
         /\ DOMAIN types = 1 .. Len(types) /\ Len(types) \in Nat /\ 1 \in DOMAIN types
         /\ f.answers \in [DOMAIN types -> Answer] /\ f.answers[f.at] \in Answer
         /\ f.selected \in Answer /\ f.advancing \in BOOLEAN /\ f.finished \in BOOLEAN
         /\ f.painted \in SUBSET DOMAIN types
<1>1. f.types = types /\ f.at \in DOMAIN types /\ f.answers \in [DOMAIN types -> Answer]
  BY DEF FormOf
<1>2. DOMAIN types = 1 .. Len(types) /\ Len(types) \in Nat /\ types # <<>>
  OBVIOUS
<1>3. Len(types) # 0
  BY <1>2
<1> QED
  BY <1>1, <1>2, <1>3 DEF FormOf

\* What leaves place, guard and history alone leaves what was on the screen.
SamePlace(f, g) ==
  /\ g.types = f.types /\ g.at = f.at /\ g.advancing = f.advancing
  /\ g.finished = f.finished /\ g.painted = f.painted

\* Saving an answer leaves the form at its place.
LEMMA SavedAnswer ==
  ASSUME NEW types \in Seq(QuestionTypes) \ {<<>>}, NEW f \in FormOf(types), NEW value \in Answer
  PROVE  saveAnswer(f, value) \in FormOf(types) /\ SamePlace(f, saveAnswer(f, value))
<1>1. [f.answers EXCEPT ![f.at] = value] \in [DOMAIN types -> Answer]
  BY FormParts
<1>2. saveAnswer(f, value) = [f EXCEPT !.answers = [f.answers EXCEPT ![f.at] = value]]
  BY DEF saveAnswer, FormOf
<1> HIDE DEF saveAnswer
<1>3. SamePlace(f, saveAnswer(f, value))
  BY <1>2 DEF SamePlace, FormOf
<1> QED
  BY <1>1, <1>2, <1>3 DEF FormOf

\* So does ticking an option.
LEMMA NewTicks ==
  ASSUME NEW types \in Seq(QuestionTypes) \ {<<>>}, NEW f \in FormOf(types), NEW ticks \in Answer
  PROVE  [f EXCEPT !.selected = ticks] \in FormOf(types) /\ SamePlace(f, [f EXCEPT !.selected = ticks])
  BY DEF SamePlace, FormOf

\* And so does what is added before the form moves on.
LEMMA LatestAnswers ==
  ASSUME NEW types \in Seq(QuestionTypes) \ {<<>>}, NEW f \in FormOf(types), NEW pending \in Answer
  PROVE  Latest(f, pending) \in FormOf(types) /\ SamePlace(f, Latest(f, pending))
<1>1. f.selected \in Answer /\ {} \in Answer
  BY FormParts DEF Answer
<1>2. saveAnswer(f, f.selected) \in FormOf(types) /\ SamePlace(f, saveAnswer(f, f.selected))
  BY <1>1, SavedAnswer
<1>3. /\ [saveAnswer(f, f.selected) EXCEPT !.selected = {}] \in FormOf(types)
      /\ SamePlace(saveAnswer(f, f.selected), [saveAnswer(f, f.selected) EXCEPT !.selected = {}])
  BY <1>1, <1>2, NewTicks
<1>4. saveAnswer(f, pending) \in FormOf(types) /\ SamePlace(f, saveAnswer(f, pending))
  BY SavedAnswer
<1>5. SamePlace(f, f)
  BY DEF SamePlace
<1>6. SamePlace(f, [saveAnswer(f, f.selected) EXCEPT !.selected = {}])
  BY <1>2, <1>3 DEF SamePlace
<1> QED
  BY <1>2, <1>3, <1>4, <1>5, <1>6 DEF Latest

\* A form at the same place has shown the same.
LEMMA SamePlaceOnScreen ==
  ASSUME NEW f, NEW g, SamePlace(f, g), OnScreen(f) PROVE OnScreen(g)
  BY DEF SamePlace, OnScreen

\* A click moves the form on only if its question has been painted.
LEMMA AdvanceOnScreen ==
  ASSUME NEW types \in Seq(QuestionTypes) \ {<<>>}, NEW f \in FormOf(types), NEW pending \in Answer,
         OnScreen(f)
  PROVE  advance(f, pending).form \in FormOf(types) /\ OnScreen(advance(f, pending).form)
<1>1. CASE f.advancing
  BY <1>1 DEF advance
<1>2. CASE ~f.advancing
  <2> DEFINE g == Latest(f, pending)
  <2>1. g \in FormOf(types) /\ SamePlace(f, g)
    BY LatestAnswers
  <2>2. g.at = f.at /\ g.painted = f.painted /\ g.types = f.types /\ g.finished = f.finished
    BY <2>1 DEF SamePlace
  <2>3. /\ f.types = types /\ f.at \in 1 .. Len(types) /\ DOMAIN types = 1 .. Len(types)
        /\ Len(types) \in Nat
    BY FormParts
  <2>4. 1 .. f.at \subseteq f.painted
    BY <1>2, <2>3 DEF OnScreen
  <2> HIDE DEF g
  <2>5. CASE IsLast(f)
    <3> DEFINE h == [g EXCEPT !.advancing = TRUE, !.finished = TRUE]
    <3>1. h \in FormOf(types)
      BY <2>1 DEF FormOf
    <3>2. h.at = f.at /\ h.painted = f.painted /\ h.types = f.types /\ h.advancing
      BY <2>1, <2>2 DEF FormOf
    <3>3. advance(f, pending).form = h
      BY <1>2, <2>5 DEF advance, g
    <3> HIDE DEF h
    <3>4. OnScreen(h)
      BY <2>3, <2>4, <2>5, <3>2 DEF OnScreen, IsLast
    <3> QED
      BY <3>1, <3>3, <3>4
  <2>6. CASE ~IsLast(f)
    <3> DEFINE h == [g EXCEPT !.at = @ + 1, !.advancing = TRUE]
    <3>1. g.at + 1 \in DOMAIN types
      BY <2>2, <2>3, <2>6 DEF IsLast
    <3>2. h \in FormOf(types)
      BY <2>1, <3>1 DEF FormOf
    <3>3. h.at = f.at + 1 /\ h.painted = f.painted /\ h.types = f.types /\ h.advancing
          /\ h.finished = f.finished
      BY <2>1, <2>2 DEF FormOf
    <3>4. advance(f, pending).form = h
      BY <1>2, <2>6 DEF advance, g
    <3> HIDE DEF h
    <3>5. OnScreen(h)
      BY <2>3, <2>4, <3>3 DEF OnScreen
    <3> QED
      BY <3>2, <3>4, <3>5
  <2> QED
    BY <2>5, <2>6
<1> QED
  BY <1>1, <1>2, FormParts

\* Whatever is done with a form, it stays one, and no question is passed over.
LEMMA FormStepOnScreen ==
  ASSUME NEW types \in Seq(QuestionTypes) \ {<<>>}, NEW f \in FormOf(types), OnScreen(f),
         NEW step \in FormSteps(f)
  PROVE  step.form \in FormOf(types) /\ OnScreen(step.form)
<1>0. {} \in Answer /\ \A o \in Options \cup {NoneOption} : {o} \in Answer
  BY DEF Answer
<1>1. ASSUME NEW value \in Answer, step = Only(saveAnswer(f, value))
      PROVE  step.form \in FormOf(types) /\ OnScreen(step.form)
  BY <1>1, SavedAnswer, SamePlaceOnScreen DEF Only
<1>2. CASE step \in Chooses(f)
  <2>1. PICK o \in Options :
          step = IF IsLast(f) THEN Only(saveAnswer(f, {o})) ELSE advance(saveAnswer(f, {o}), {o})
    BY <1>2 DEF Chooses
  <2>2. saveAnswer(f, {o}) \in FormOf(types) /\ OnScreen(saveAnswer(f, {o}))
    BY <1>0, SavedAnswer, SamePlaceOnScreen
  <2> QED
    BY <1>0, <1>1, <2>1, <2>2, AdvanceOnScreen
<1>3. CASE step \in Types(f)
  BY <1>0, <1>1, <1>3 DEF Types
<1>4. CASE step \in Toggles(f)
  <2>1. PICK o \in Options \cup {NoneOption} : step = Only(Toggled(f, o))
    BY <1>4 DEF Toggles
  <2>2. PICK ticks \in Answer : Toggled(f, o) = [f EXCEPT !.selected = ticks]
    BY FormParts DEF Toggled, Answer
  <2> QED
    BY <2>1, <2>2, NewTicks, SamePlaceOnScreen DEF Only
<1>5. CASE step \in Skips(f) \cup PressesNext(f)
  <2>1. step = advance(f, {})
    BY <1>5 DEF Skips, PressesNext
  <2> QED
    BY <1>0, <2>1, AdvanceOnScreen
<1>6. CASE step \in GoesBack(f)
  <2> DEFINE i == f.at - 1
             g == [f EXCEPT !.at = i, !.selected = IF f.types[i] = "multi" THEN f.answers[i] ELSE {}]
  <2>1. step.form = g /\ f.at # 1
    BY <1>6 DEF GoesBack, Only, goBack
  <2>2. /\ i \in DOMAIN types /\ i \in f.painted /\ 1 .. i - 1 \subseteq f.painted
    BY <2>1, FormParts DEF OnScreen
  <2>3. f.answers[i] \in Answer
    BY <2>2, FormParts
  <2>4. g \in FormOf(types)
    BY <1>0, <2>2, <2>3 DEF FormOf
  <2>5. g.at = i /\ g.painted = f.painted /\ g.types = f.types /\ g.finished = f.finished
    BY DEF FormOf
  <2> HIDE DEF g, i
  <2> QED
    BY <2>1, <2>2, <2>4, <2>5 DEF OnScreen
<1>7. CASE step = Only(Painted(f))
  <2> DEFINE g == [f EXCEPT !.advancing = FALSE, !.painted = @ \cup {f.at}]
  <2>1. step.form = g
    BY <1>7 DEF Only, Painted
  <2>2. g \in FormOf(types)
    BY DEF FormOf
  <2>3. g.at = f.at /\ g.painted = f.painted \cup {f.at} /\ g.types = f.types /\ g.finished = f.finished
    BY DEF FormOf
  <2> HIDE DEF g
  <2> QED
    BY <2>1, <2>2, <2>3 DEF OnScreen
<1> QED
  BY <1>2, <1>3, <1>4, <1>5, <1>6, <1>7 DEF FormSteps

\* A form that is mounted shows its first question.
LEMMA NewFormOnScreen ==
  ASSUME NEW types \in Seq(QuestionTypes) \ {<<>>}
  PROVE  NewForm(types) \in FormOf(types) /\ OnScreen(NewForm(types))
<1>1. DOMAIN types = 1 .. Len(types) /\ Len(types) \in Nat /\ types # <<>>
  OBVIOUS
<1>2. 1 \in DOMAIN types
  BY <1>1
<1>3. [i \in DOMAIN types |-> {}] \in [DOMAIN types -> Answer] /\ {} \in Answer
  BY DEF Answer
<1>4. NewForm(types) \in FormOf(types)
  BY <1>2, <1>3 DEF NewForm, FormOf
<1> QED
  BY <1>4 DEF NewForm, OnScreen


-----------------------------------------------------------------------------
(* The types of the setup *)

Job == [at : {"idle", "parsing", "fallback", "redirecting", "showing"},
        kind : {"none", "json", "package"}, picked : Picked \cup {NoFile},
        facts : SUBSET AllFacts, mounted : BOOLEAN]
OneCreation == [at : Begun \cup {"idle"}, key : Keys, facts : SUBSET AllFacts, rest : BOOLEAN,
                force : BOOLEAN, blind : BOOLEAN, confirmed : SUBSET AllFacts]

JobTyped(j)  == j \in Job /\ (j.at \in {"parsing", "fallback"} => j.picked \in Picked)
FormTyped(f) == f \in Forms \cup {NoForm} /\ (f # NoForm => OnScreen(f))
PageTyped(p, v) == p \in SetupPages \cup PostPages /\ v \in {"chooser", "questions", "import"}

\* The type invariant with what the forms have shown, in the parts the steps change.
SetupInv ==
  /\ disk \in Stored \cup {NoVault} /\ loaded \in Stored \cup {NoVault}
  /\ flag \in BOOLEAN /\ checking \in BOOLEAN /\ complete \in BOOLEAN /\ summary \in BOOLEAN
  /\ celebration \in BOOLEAN /\ reloaded \in BOOLEAN
  /\ config \in Keys /\ pass \in Keys /\ personas \in SUBSET AllFacts
  /\ PageTyped(page, view) /\ FormTyped(form) /\ JobTyped(job)
  /\ creation \in [Creations -> OneCreation]
  /\ started \in 0 .. MaxBegun /\ failures \in 0 .. MaxFailures /\ overlapped \in SUBSET Creations

\* Every route leads to a page.
LEMMA RouteTyped ==
  ASSUME NEW p, NEW done, NEW reviewed PROVE Route(p, done, reviewed) \in SetupPages \cup PostPages
  BY DEF Route, SetupPages, PostPages

\* Facts of a setup.
LEMMA FactsTyped ==
  /\ {} \in SUBSET AllFacts /\ {OldFact} \in SUBSET AllFacts
  /\ \A x \in Picked : x.facts \in SUBSET AllFacts
  BY DEF AllFacts

\* A new form, and one that a step was taken with.
LEMMA MountedForm ==
  /\ FormTyped(NoForm) /\ FormTyped(NewForm(QuickFive)) /\ FormTyped(NewForm(AllQuestions))
  /\ NoForm \notin Forms
<1>1. /\ NewForm(QuickFive) \in FormOf(QuickFive) /\ OnScreen(NewForm(QuickFive))
      /\ NewForm(AllQuestions) \in FormOf(AllQuestions) /\ OnScreen(NewForm(AllQuestions))
  BY SetupAssumption, NewFormOnScreen
<1> QED
  BY <1>1, SetupAssumption DEF FormTyped, Forms

\* A step with a form leaves one, whose answers are facts.
LEMMA SteppedForm ==
  ASSUME NEW f, FormTyped(f), f # NoForm, NEW step \in FormSteps(f)
  PROVE  /\ FormTyped(step.form)
         /\ convertQuickStartToPersonas(step.form) \in SUBSET AllFacts
<1>1. PICK types \in Seq(QuestionTypes) \ {<<>>} : f \in FormOf(types) /\ FormOf(types) \subseteq Forms
  BY SetupAssumption DEF FormTyped, Forms
<1>2. step.form \in FormOf(types) /\ OnScreen(step.form)
  BY <1>1, FormStepOnScreen DEF FormTyped
<1>3. /\ step.form.types = types /\ DOMAIN types \subseteq Nat
      /\ step.form.answers \in [DOMAIN types -> Answer]
  BY <1>1, <1>2, FormParts
<1>4. convertQuickStartToPersonas(step.form) \in SUBSET (Nat \X Answer)
  BY <1>3 DEF convertQuickStartToPersonas
<1> QED
  BY <1>1, <1>2, <1>4 DEF FormTyped, AllFacts

\* Letting go of an import, and starting none.
LEMMA JobsTyped ==
  /\ JobTyped(NoJob)
  /\ \A j : JobTyped(j) => JobTyped([j EXCEPT !.mounted = FALSE])
<1>1. JobTyped(NoJob)
  BY FactsTyped DEF NoJob, JobTyped, Job
<1>2. ASSUME NEW j, JobTyped(j) PROVE JobTyped([j EXCEPT !.mounted = FALSE])
  BY <1>2 DEF JobTyped, Job
<1> QED
  BY <1>1, <1>2

\* Showing a page mounts its form.
LEMMA ShownPageTyped ==
  ASSUME JobTyped(job), NEW p \in SetupPages \cup PostPages, ShowsPage(p)
  PROVE  PageTyped(page', view') /\ FormTyped(form') /\ JobTyped(job')
<1>1. PageTyped(page', view')
  BY DEF ShowsPage, PageTyped
<1>2. FormTyped(form')
  BY MountedForm DEF ShowsPage
<1>3. JobTyped(job')
  BY JobsTyped DEF ShowsPage
<1> QED
  BY <1>1, <1>2, <1>3

\* No creation is one.
LEMMA NoCreationTyped == NoCreation \in OneCreation /\ NoKey \in Keys
  BY FactsTyped DEF NoCreation, OneCreation, Keys

\* A creation that begins keeps the types.
LEMMA BegunTyped ==
  ASSUME SetupInv, NEW c \in Creations, NEW facts \in SUBSET AllFacts, NEW key \in Keys,
         NEW at \in Begun, NEW rest \in BOOLEAN, NEW confirmed \in SUBSET AllFacts,
         Begins(c, facts, key, at, rest, confirmed)
  PROVE  /\ creation' \in [Creations -> OneCreation] /\ started' \in 0 .. MaxBegun
         /\ overlapped' \in SUBSET Creations
<1> DEFINE new == [NoCreation EXCEPT !.at = at, !.key = key, !.facts = facts, !.rest = rest,
                                     !.confirmed = confirmed]
<1>1. new \in OneCreation
  BY NoCreationTyped DEF OneCreation
<1>2. creation' = [creation EXCEPT ![c] = new] /\ creation \in [Creations -> OneCreation]
  BY DEF SetupInv, Begins
<1>3. started' = started + 1 /\ started < MaxBegun /\ started \in 0 .. MaxBegun
  BY DEF SetupInv, Begins
<1>4. overlapped' \in {overlapped, Creations} /\ overlapped \in SUBSET Creations
  BY DEF SetupInv, Begins
<1> HIDE DEF new
<1> QED
  BY <1>1, <1>2, <1>3, <1>4, SetupAssumption

\* A failure is counted.
LEMMA FailureTyped ==
  ASSUME SetupInv PROVE (Fails \/ failures' = failures) => failures' \in 0 .. MaxFailures
<1>1. failures \in 0 .. MaxFailures /\ MaxFailures \in Nat
  BY SetupAssumption DEF SetupInv
<1> QED
  BY <1>1 DEF Fails

\* The pages and the provider keep the types.
LEMMA PagesTyped ==
  ASSUME SetupInv,
         \/ \E p \in SetupPages \cup PostPages : Visits(p)
         \/ \E k \in Passphrases : handlePasswordSet(k) \/ Unlocks(k)
         \/ \E v \in {"chooser", "questions", "import"} : Opens(v)
         \/ EndsCelebration \/ ChecksFlag \/ Reloads
  PROVE  SetupInv'
<1> USE DEF app, screen, counts
<1>0. /\ JobTyped(job) /\ PageTyped(page, view) /\ FormTyped(form)
      /\ \A p, done, reviewed : Route(p, done, reviewed) \in SetupPages \cup PostPages
  BY RouteTyped DEF SetupInv
<1>1. ASSUME NEW p \in SetupPages \cup PostPages, Visits(p) PROVE SetupInv'
  <2>1. PageTyped(page', view') /\ FormTyped(form') /\ JobTyped(job')
    BY <1>0, <1>1, ShownPageTyped DEF Visits
  <2> QED
    BY <1>1, <2>1 DEF SetupInv, Visits
<1>2. ASSUME NEW k \in Passphrases, handlePasswordSet(k) PROVE SetupInv'
  <2>1. PageTyped(page', view') /\ FormTyped(form') /\ JobTyped(job')
    BY <1>0, <1>2, ShownPageTyped DEF handlePasswordSet, SetupPages
  <2>2. k \in Keys
    BY DEF Keys
  <2> QED
    BY <1>2, <2>1, <2>2 DEF SetupInv, handlePasswordSet
<1>3. ASSUME NEW k \in Passphrases, Unlocks(k) PROVE SetupInv'
  <2>1. k \in Keys
    BY DEF Keys
  <2> QED
    BY <1>3, <2>1 DEF SetupInv, Unlocks
<1>4. ASSUME NEW v \in {"chooser", "questions", "import"}, Opens(v) PROVE SetupInv'
  <2>1. PageTyped(page', view') /\ FormTyped(form')
    BY <1>0, <1>4, MountedForm DEF Opens, PageTyped
  <2> QED
    BY <1>4, <2>1 DEF SetupInv, Opens
<1>5. CASE EndsCelebration
  <2>1. PageTyped(page', view') /\ FormTyped(form') /\ JobTyped(job')
    BY <1>0, <1>5, ShownPageTyped DEF EndsCelebration
  <2> QED
    BY <1>5, <2>1 DEF SetupInv, EndsCelebration
<1>6. CASE ChecksFlag
  <2>1. PageTyped(page', view') /\ FormTyped(form') /\ JobTyped(job')
    BY <1>0, <1>6, ShownPageTyped DEF ChecksFlag
  <2>2. failures' \in 0 .. MaxFailures
    BY <1>6, FailureTyped DEF ChecksFlag
  <2>3. flag' \in BOOLEAN /\ complete' \in BOOLEAN
    BY <1>6 DEF SetupInv, ChecksFlag
  <2> QED
    BY <1>6, <2>1, <2>2, <2>3 DEF SetupInv, ChecksFlag
<1>7. CASE Reloads
  <2>1. /\ failures' \in 0 .. MaxFailures /\ reloaded' = TRUE
        /\ checking' = flag /\ complete' = flag /\ config' = NoKey /\ personas' = {} /\ summary' = FALSE
        /\ celebration' = FALSE /\ pass' = NoKey
        /\ UNCHANGED <<disk, flag, started, overlapped>>
    BY <1>7, FailureTyped DEF Reloads
  <2>2. PageTyped(page', view') /\ FormTyped(form') /\ JobTyped(job')
    BY <1>0, <1>7, MountedForm, JobsTyped DEF Reloads, PageTyped
  <2>3. loaded' \in Stored \cup {NoVault}
    BY <1>7 DEF SetupInv, Reloads
  <2>4. creation' \in [Creations -> OneCreation]
    <3>1. ASSUME NEW c \in Creations
          PROVE  (IF creation[c].at \in {"sent", "orphan", "merging"}
                  THEN [creation[c] EXCEPT !.at = "orphan"] ELSE NoCreation) \in OneCreation
      <4>1. creation[c] \in OneCreation
        BY DEF SetupInv
      <4> QED
        BY <4>1, NoCreationTyped DEF OneCreation, Begun
    <3> QED
      BY <1>7, <3>1 DEF Reloads
  <2> QED
    BY <2>1, <2>2, <2>3, <2>4, NoCreationTyped, FactsTyped DEF SetupInv
<1> QED
  BY <1>1, <1>2, <1>3, <1>4, <1>5, <1>6, <1>7

\* The vault a creation sends.
LEMMA SentTyped ==
  ASSUME NEW n \in OneCreation
  PROVE  /\ [key |-> n.key, facts |-> n.facts, rest |-> n.rest] \in Stored
         /\ \A at \in Begun : [n EXCEPT !.at = at] \in OneCreation
  BY DEF OneCreation, Stored

\* The creations keep the types.
LEMMA CreationsTyped ==
  ASSUME SetupInv, NEW c \in Creations,
         \/ handleVaultCreated(c) \/ Fetches(c) \/ Lands(c) \/ Finishes(c)
         \/ handlePostSetupVaultCreated(c) \/ Answers(c)
  PROVE  SetupInv'
<1> USE DEF app, screen, counts
<1>0. /\ JobTyped(job) /\ PageTyped(page, view) /\ FormTyped(form)
      /\ \A p, done, reviewed : Route(p, done, reviewed) \in SetupPages \cup PostPages
      /\ creation \in [Creations -> OneCreation] /\ creation[c] \in OneCreation
      /\ personas \in SUBSET AllFacts /\ {} \in SUBSET AllFacts
      /\ config \in Keys /\ pass \in Keys /\ {"fetching", "merging"} \subseteq Begun
  BY RouteTyped, FactsTyped DEF SetupInv, Begun
<1>a. ASSUME NEW facts \in SUBSET AllFacts, Creates(c, facts)
      PROVE  /\ creation' \in [Creations -> OneCreation] /\ started' \in 0 .. MaxBegun
             /\ overlapped' \in SUBSET Creations
  BY <1>0, <1>a, BegunTyped DEF Creates, personasToSave
<1>1. CASE handleVaultCreated(c)
  <2>1. PICK facts \in SUBSET AllFacts : Creates(c, facts)
    BY <1>0, <1>1 DEF handleVaultCreated
  <2> QED
    BY <1>1, <1>a, <2>1 DEF SetupInv, handleVaultCreated
<1>2. CASE Fetches(c)
  <2>1. failures' \in 0 .. MaxFailures
    BY <1>2, FailureTyped DEF Fetches
  <2>2. PICK answer : FetchAnswers(c, answer)
    BY <1>2 DEF Fetches
  <2> DEFINE n == [creation[c] EXCEPT !.at = "sent", !.force = (answer # "ok"),
                     !.blind = (answer = "failed"), !.rest = (answer = "ok" /\ disk.rest)]
  <2>3. n \in OneCreation
    <3>1. (answer # "ok") \in BOOLEAN /\ (answer = "failed") \in BOOLEAN
          /\ (answer = "ok" /\ disk.rest) \in BOOLEAN /\ "sent" \in Begun
      BY DEF Begun
    <3> QED
      BY <1>0, <3>1 DEF OneCreation
  <2>4. creation' = [creation EXCEPT ![c] = IF answer = "locked" THEN NoCreation ELSE n]
    BY <2>2 DEF FetchAnswers
  <2> HIDE DEF n
  <2>5. creation' \in [Creations -> OneCreation]
    BY <1>0, <2>3, <2>4, NoCreationTyped
  <2> QED
    BY <1>2, <2>1, <2>5 DEF SetupInv, Fetches
<1>3. CASE Lands(c)
  <2> DEFINE v == [key |-> creation[c].key, facts |-> creation[c].facts, rest |-> creation[c].rest]
  <2>1. v \in Stored
    BY <1>0, SentTyped
  <2>2. /\ disk' \in {disk, v} /\ loaded' \in {loaded, v}
        /\ \E stored \in BOOLEAN : Answered(c, stored)
        /\ failures' = failures \/ Fails
        /\ UNCHANGED <<screen, job>> \/ ShowsPage(Route("/", complete, summary))
        /\ UNCHANGED <<flag, checking, app, celebration, pass, started, reloaded, overlapped>>
    BY <1>3 DEF Lands
  <2> HIDE DEF v
  <2>3. failures' \in 0 .. MaxFailures
    BY <2>2, FailureTyped
  <2>4. PageTyped(page', view') /\ FormTyped(form') /\ JobTyped(job')
    <3>1. CASE UNCHANGED <<screen, job>>
      BY <1>0, <3>1
    <3>2. CASE ShowsPage(Route("/", complete, summary))
      BY <1>0, <3>2, ShownPageTyped
    <3> QED
      BY <2>2, <3>1, <3>2
  <2>5. creation' \in [Creations -> OneCreation]
    <3>1. [creation[c] EXCEPT !.at = "stored"] \in OneCreation
      BY <1>0, SentTyped DEF Begun
    <3> QED
      BY <1>0, <2>2, <3>1, NoCreationTyped DEF Answered
  <2> QED
    BY <2>1, <2>2, <2>3, <2>4, <2>5 DEF SetupInv
<1>4. CASE Finishes(c)
  <2>1. PageTyped(page', view') /\ FormTyped(form') /\ JobTyped(job')
    BY <1>0, <1>4, ShownPageTyped DEF Finishes
  <2>2. creation' \in [Creations -> OneCreation]
    BY <1>0, <1>4, NoCreationTyped DEF Finishes
  <2>3. pass' \in Keys
    <3>1. creation[c].key \in Keys
      BY <1>0 DEF OneCreation
    <3> QED
      BY <1>0, <1>4, <3>1 DEF Finishes
  <2>4. loaded' \in Stored \cup {NoVault}
    BY <1>4 DEF SetupInv, Finishes
  <2>5. /\ flag' = TRUE /\ complete' = TRUE /\ config' = NoKey /\ celebration' = TRUE
        /\ UNCHANGED <<disk, checking, personas, summary, counts, overlapped>>
    BY <1>4 DEF Finishes
  <2> QED
    BY <2>1, <2>2, <2>3, <2>4, <2>5, NoCreationTyped DEF SetupInv
<1>5. CASE handlePostSetupVaultCreated(c)
  <2>1. loaded.facts \in SUBSET AllFacts /\ loaded.rest \in BOOLEAN
    BY <1>5 DEF SetupInv, handlePostSetupVaultCreated, Stored
  <2>2. loaded.facts \cup personas \in SUBSET AllFacts
    BY <1>0, <2>1
  <2>3. /\ creation' \in [Creations -> OneCreation] /\ started' \in 0 .. MaxBegun
        /\ overlapped' \in SUBSET Creations
    BY <1>0, <1>5, <2>1, <2>2, BegunTyped, ZenonT(60) DEF handlePostSetupVaultCreated
  <2> QED
    BY <1>5, <2>3 DEF SetupInv, handlePostSetupVaultCreated
<1>6. CASE Answers(c)
  <2>1. PICK step \in FormSteps(form) :
          LET facts == convertQuickStartToPersonas(step.form)
          IN  \/ /\ form' = step.form
                 /\ UNCHANGED <<app, page, view, job, creation, started, overlapped>>
              \/ /\ form' = step.form /\ personas' = facts
                 /\ Creates(c, facts)
                 /\ UNCHANGED <<complete, config, summary, page, view, job>>
              \/ /\ personas' = facts /\ summary' = TRUE
                 /\ ShowsPage("/setup/review")
                 /\ UNCHANGED <<complete, config, creation, started, overlapped>>
    BY <1>6 DEF Answers
  <2> DEFINE facts == convertQuickStartToPersonas(step.form)
  <2>2. FormTyped(step.form) /\ facts \in SUBSET AllFacts
    BY <1>0, <1>6, SteppedForm DEF Answers
  <2> HIDE DEF facts
  <2>3. UNCHANGED <<disk, flag, checking, celebration, pass, loaded, reloaded, failures>>
    BY <1>6 DEF Answers
  <2>4. CASE form' = step.form /\ UNCHANGED <<app, page, view, job, creation, started, overlapped>>
    BY <2>2, <2>3, <2>4 DEF SetupInv
  <2>5. CASE /\ form' = step.form /\ personas' = facts /\ Creates(c, facts)
             /\ UNCHANGED <<complete, config, summary, page, view, job>>
    <3>1. /\ creation' \in [Creations -> OneCreation] /\ started' \in 0 .. MaxBegun
          /\ overlapped' \in SUBSET Creations
      BY <1>a, <2>2, <2>5
    <3> QED
      BY <2>2, <2>3, <2>5, <3>1 DEF SetupInv
  <2>6. CASE /\ personas' = facts /\ summary' = TRUE /\ ShowsPage("/setup/review")
             /\ UNCHANGED <<complete, config, creation, started, overlapped>>
    <3>1. PageTyped(page', view') /\ FormTyped(form') /\ JobTyped(job')
      BY <1>0, <2>6, ShownPageTyped DEF SetupPages
    <3> QED
      BY <2>2, <2>3, <2>6, <3>1 DEF SetupInv
  <2> QED
    BY <2>1, <2>4, <2>5, <2>6 DEF facts
<1> QED
  BY <1>1, <1>2, <1>3, <1>4, <1>5, <1>6

\* The imports keep the types.
LEMMA ImportsTyped ==
  ASSUME SetupInv,
         (\E x \in Picked : PicksFile(x)) \/ WorkerAnswers \/ WorkerFails \/ PageProgress
  PROVE  SetupInv'
<1> USE DEF app, screen, counts
<1>0. /\ JobTyped(job) /\ PageTyped(page, view) /\ FormTyped(form)
      /\ \A p, done, reviewed : Route(p, done, reviewed) \in SetupPages \cup PostPages
  BY RouteTyped DEF SetupInv
<1>1. ASSUME NEW x \in Picked, PicksFile(x) PROVE SetupInv'
  <2>1. ImportZone # "none" /\ ImportZone \in {"none", "json", "package"}
    BY <1>1 DEF PicksFile, ImportZone
  <2>2. JobTyped([NoJob EXCEPT !.at = "parsing", !.kind = ImportZone, !.picked = x, !.mounted = TRUE])
    BY <2>1, JobsTyped DEF JobTyped, Job
  <2>3. started' \in 0 .. MaxBegun
    <3>1. started \in 0 .. MaxBegun /\ MaxBegun \in Nat
      BY SetupAssumption DEF SetupInv
    <3>2. started < MaxBegun /\ started' = started + 1
      BY <1>1 DEF PicksFile
    <3> QED
      BY <3>1, <3>2
  <2> QED
    BY <1>1, <2>2, <2>3 DEF SetupInv, PicksFile
<1>a. ASSUME job.picked \in Picked PROVE JobTyped(Shown) /\ \A parsed : JobTyped(Outcome(parsed))
  <2>1. job.picked.facts \in SUBSET AllFacts /\ job.mounted \in BOOLEAN
    BY <1>0, <1>a, FactsTyped DEF JobTyped, Job
  <2>2. JobTyped(Shown)
    BY <2>1, JobsTyped DEF JobTyped, Job, Shown
  <2>3. JobTyped([NoJob EXCEPT !.at = "redirecting", !.mounted = job.mounted])
    BY <2>1, JobsTyped DEF JobTyped, Job
  <2> QED
    BY <2>2, <2>3, JobsTyped DEF Outcome
<1>b. ASSUME JobTyped(job'), JobStep, UNCHANGED <<app, screen>>, failures' = failures \/ Fails
      PROVE  SetupInv'
  <2>1. failures' \in 0 .. MaxFailures
    BY <1>b, FailureTyped
  <2> QED
    BY <1>b, <2>1 DEF SetupInv, JobStep
<1>2. CASE WorkerAnswers
  <2>1. JobTyped(job')
    BY <1>0, <1>2, <1>a DEF WorkerAnswers, JobTyped
  <2> QED
    BY <1>2, <1>b, <2>1 DEF WorkerAnswers
<1>3. CASE WorkerFails
  <2>1. JobTyped(job')
    BY <1>0, <1>3 DEF WorkerFails, JobTyped, Job
  <2> QED
    BY <1>3, <1>b, <2>1 DEF WorkerFails
<1>4. CASE ParsesJson
  <2>1. JobTyped(job')
    BY <1>0, <1>4, <1>a, JobsTyped DEF ParsesJson, JobTyped
  <2> QED
    BY <1>4, <1>b, <2>1 DEF ParsesJson
<1>5. CASE FallbackParses
  <2>1. JobTyped(job')
    BY <1>0, <1>5, <1>a DEF FallbackParses, JobTyped
  <2> QED
    BY <1>5, <1>b, <2>1 DEF FallbackParses
<1>6. CASE TimesOut
  BY <1>6, <1>b, JobsTyped DEF TimesOut
<1>7. CASE Redirects
  <2>1. PageTyped(page', view') /\ FormTyped(form') /\ JobTyped(job')
    BY <1>0, <1>7, MountedForm, JobsTyped DEF Redirects, PageTyped
  <2> QED
    BY <1>7, <2>1 DEF SetupInv, Redirects, JobStep
<1>8. CASE ShowsResult
  <2>1. PageTyped(page', view') /\ FormTyped(form') /\ JobTyped(job')
    BY <1>8, MountedForm, JobsTyped DEF ShowsResult, PageTyped, SetupPages
  <2>2. job.facts \in SUBSET AllFacts
    BY <1>0 DEF JobTyped, Job
  <2> QED
    BY <1>8, <2>1, <2>2 DEF SetupInv, ShowsResult, JobStep
<1> QED
  BY <1>1, <1>2, <1>3, <1>4, <1>5, <1>6, <1>7, <1>8 DEF PageProgress

\* The setup starts typed, with no form.
LEMMA SetupInitTyped == SetupInit => SetupInv
<1> SUFFICES ASSUME SetupInit PROVE SetupInv
  OBVIOUS
<1>1. disk \in Stored \cup {NoVault}
  <2>1. ASSUME NEW k \in OldKeys PROVE [key |-> k, facts |-> {OldFact}, rest |-> TRUE] \in Stored
    BY FactsTyped DEF Stored, Keys
  <2> QED
    BY <2>1 DEF SetupInit
<1>2. loaded \in Stored \cup {NoVault}
  BY <1>1 DEF SetupInit
<1>3. PageTyped(page, view) /\ FormTyped(form) /\ JobTyped(job)
  BY MountedForm, JobsTyped DEF SetupInit, PageTyped, SetupPages, PostPages
<1>4. creation \in [Creations -> OneCreation]
  BY NoCreationTyped DEF SetupInit
<1>5. started \in 0 .. MaxBegun /\ failures \in 0 .. MaxFailures
  BY SetupAssumption DEF SetupInit
<1> QED
  BY <1>1, <1>2, <1>3, <1>4, <1>5, NoCreationTyped, FactsTyped DEF SetupInv, SetupInit

\* Every step of the setup keeps the types and passes over no question.
LEMMA SetupStepTyped == SetupInv /\ [SetupNext]_setupVars => SetupInv'
<1> SUFFICES ASSUME SetupInv, [SetupNext]_setupVars PROVE SetupInv'
  OBVIOUS
<1>1. CASE UNCHANGED setupVars
  BY <1>1 DEF SetupInv, setupVars
<1> QED
  BY <1>1, PagesTyped, CreationsTyped, ImportsTyped DEF SetupNext

\* Every variable of the setup keeps its type.
THEOREM SetupTyping == SetupSpec => []SetupTypeOK
<1>1. SetupInv => SetupTypeOK
  BY DEF SetupInv, SetupTypeOK, PageTyped, FormTyped, JobTyped, Job, OneCreation
<1> QED
  BY <1>1, SetupInitTyped, SetupStepTyped, PTL DEF SetupSpec

\* However fast the user clicks, goes back and skips, no question of the
\* questionnaire is passed over unseen, whatever its questions.
THEOREM QuestionsAreSeen == SetupSpec => []EveryQuestionIsSeen
<1>1. ASSUME SetupInv, form # NoForm PROVE QuestionsSeen(form)
  <2>1. form \in Forms /\ OnScreen(form)
    BY <1>1 DEF SetupInv, FormTyped
  <2> QED
    BY <2>1 DEF OnScreen, QuestionsSeen
<1>2. SetupInv => EveryQuestionIsSeen
  BY <1>1 DEF EveryQuestionIsSeen
<1> QED
  BY <1>2, SetupInitTyped, SetupStepTyped, PTL DEF SetupSpec


-----------------------------------------------------------------------------
(* What a creation saves *)

\* No two creations have been under way at once.
Alone == Creations \ overlapped # {}

OneAtATime ==
  /\ overlapped \in {{}, Creations}
  /\ Alone => \A b, c \in Busy : b = c

\* A creation saves what was confirmed, and the disk holds what was stored.
HoldsWhatItStored(c) ==
  LET n == creation[c]
  IN  /\ n.at \in {"fetching", "sent", "stored"} => n.facts = n.confirmed
      /\ n.at = "stored" => disk # NoVault /\ disk.facts = n.facts /\ disk.key = n.key

\* A creation that could fetch carries the rules and log of the vault on disk
\* and does not force its way; a setup is not complete while its vault is made.
KeepsWhatItFound(c) ==
  LET n == creation[c]
  IN  /\ n.at \in {"sent", "orphan", "merging"} /\ ~n.blind /\ disk # NoVault =>
           n.rest = disk.rest /\ ~n.force
      /\ n.at = "fetching" => ~n.blind
      /\ n.at \in {"fetching", "sent", "stored"} \/ (n.at # "idle" /\ n.blind) => ~complete

CreationInv ==
  /\ flag = complete
  /\ OneAtATime
  /\ loaded # NoVault => disk # NoVault
  /\ Alone =>
       /\ \A c \in Creations : HoldsWhatItStored(c) /\ KeepsWhatItFound(c)
       /\ complete /\ loaded # NoVault => loaded.rest = disk.rest

\* No creation needs nothing of the disk.
LEMMA NoCreationParts ==
  /\ NoCreation.at = "idle" /\ NoCreation.force = FALSE /\ NoCreation.blind = FALSE
  BY DEF NoCreation

\* Steps that leave disk, creations and completion alone.
LEMMA OthersKeepCreations ==
  ASSUME CreationInv, UNCHANGED <<disk, creation, overlapped>>,
         flag' = complete', complete' => complete, loaded' \in {loaded, disk}
  PROVE  CreationInv'
  BY DEF CreationInv, OneAtATime, Alone, Busy, HoldsWhatItStored, KeepsWhatItFound

\* A creation that begins.
LEMMA BeginKeepsCreations ==
  ASSUME SetupInv, CreationInv, NEW c \in Creations, NEW facts, NEW key, NEW at \in {"fetching", "merging"},
         NEW rest, NEW confirmed, Begins(c, facts, key, at, rest, confirmed),
         at = "fetching" => facts = confirmed /\ ~complete,
         at = "merging" => complete /\ loaded # NoVault /\ rest = loaded.rest,
         UNCHANGED <<disk, loaded, flag, complete>>
  PROVE  CreationInv'
<1> DEFINE new == [NoCreation EXCEPT !.at = at, !.key = key, !.facts = facts, !.rest = rest,
                                     !.confirmed = confirmed]
<1>1. /\ new.at = at /\ new.facts = facts /\ new.confirmed = confirmed /\ new.rest = rest
      /\ new.force = FALSE /\ new.blind = FALSE
  BY DEF NoCreation
<1>2. creation'[c] = new /\ \A d \in Creations \ {c} : creation'[d] = creation[d]
  BY DEF Begins, SetupInv
<1> HIDE DEF new
<1>3. c \notin Busy /\ overlapped' = IF Busy = {} THEN overlapped ELSE Creations
  BY DEF Begins
<1>4. ASSUME Alone' PROVE Alone /\ Busy = {} /\ Busy' = {c}
  <2>1. Alone /\ Busy = {}
    BY <1>3, <1>4 DEF CreationInv, OneAtATime, Alone
  <2>2. Busy' = {c}
    BY <1>1, <1>2, <2>1 DEF Busy
  <2> QED
    BY <2>1, <2>2
<1>5. OneAtATime'
  BY <1>3, <1>4 DEF CreationInv, OneAtATime
<1>6. ASSUME Alone', NEW d \in Creations PROVE (HoldsWhatItStored(d) /\ KeepsWhatItFound(d))'
  <2>1. CASE d = c
    BY <1>1, <1>2, <1>4, <1>6, <2>1 DEF CreationInv, HoldsWhatItStored, KeepsWhatItFound
  <2>2. CASE d # c
    BY <1>2, <1>4, <1>6, <2>2 DEF CreationInv, HoldsWhatItStored, KeepsWhatItFound
  <2> QED
    BY <2>1, <2>2
<1> QED
  BY <1>4, <1>5, <1>6 DEF CreationInv

\* The creations that are under way.
LEMMA BusyOnes ==
  ASSUME SetupInv, NEW c \in Creations, NEW n, creation' = [creation EXCEPT ![c] = n]
  PROVE  /\ creation'[c] = n /\ \A d \in Creations : d # c => creation'[d] = creation[d]
         /\ Busy' = IF n.at = "idle" THEN Busy \ {c} ELSE Busy \cup {c}
<1>1. creation'[c] = n /\ \A d \in Creations : d # c => creation'[d] = creation[d]
  BY DEF SetupInv
<1> QED
  BY <1>1 DEF Busy

\* One creation at a time goes on so.
LEMMA OneStaysOne ==
  ASSUME CreationInv, NEW c \in Busy, Busy' \subseteq Busy, overlapped' = overlapped
  PROVE  OneAtATime' /\ (Alone' <=> Alone)
  BY DEF CreationInv, OneAtATime, Alone

\* The answer to the fetch.
LEMMA FetchKeepsCreations ==
  ASSUME SetupInv, CreationInv, NEW c \in Creations, Fetches(c) PROVE CreationInv'
<1>1. PICK answer : FetchAnswers(c, answer) /\ answer \in {fetchVault(creation[c].key), "failed"}
  BY DEF Fetches
<1> DEFINE n == IF answer = "locked" THEN NoCreation
                ELSE [creation[c] EXCEPT !.at = "sent", !.force = (answer # "ok"),
                        !.blind = (answer = "failed"), !.rest = (answer = "ok" /\ disk.rest)]
<1>2. /\ creation' = [creation EXCEPT ![c] = n] /\ creation[c].at = "fetching"
      /\ creation[c] \in OneCreation
      /\ UNCHANGED <<disk, flag, complete, loaded, overlapped>>
  BY <1>1 DEF FetchAnswers, Fetches, SetupInv, app
<1>3. CASE answer = "locked"
  <2>1. n.at = "idle" /\ n.blind = FALSE
    BY <1>3, NoCreationParts
  <2> HIDE DEF n
  <2>2. /\ creation'[c] = n /\ Busy' = Busy \ {c} /\ c \in Busy
        /\ \A d \in Creations : d # c => creation'[d] = creation[d]
    BY <1>2, <2>1, BusyOnes DEF Busy
  <2>3. OneAtATime' /\ (Alone' <=> Alone)
    BY <1>2, <2>2, OneStaysOne
  <2>4. ASSUME Alone, NEW d \in Creations PROVE (HoldsWhatItStored(d) /\ KeepsWhatItFound(d))'
    <3>1. CASE d = c
      BY <2>1, <2>2, <3>1 DEF HoldsWhatItStored, KeepsWhatItFound
    <3>2. CASE d # c
      BY <1>2, <2>2, <2>4, <3>2 DEF CreationInv, HoldsWhatItStored, KeepsWhatItFound
    <3> QED
      BY <3>1, <3>2
  <2> QED
    BY <1>2, <2>3, <2>4 DEF CreationInv
<1>4. CASE answer # "locked"
  <2>1. /\ n.at = "sent" /\ n.force = (answer # "ok") /\ n.blind = (answer = "failed")
        /\ n.rest = (answer = "ok" /\ disk.rest)
        /\ n.facts = creation[c].facts /\ n.confirmed = creation[c].confirmed
    BY <1>2, <1>4 DEF OneCreation
  <2> HIDE DEF n
  <2>2. /\ creation'[c] = n /\ Busy' \subseteq Busy /\ c \in Busy
        /\ \A d \in Creations : d # c => creation'[d] = creation[d]
    BY <1>2, <2>1, BusyOnes DEF Busy
  <2>3. OneAtATime' /\ (Alone' <=> Alone)
    BY <1>2, <2>2, OneStaysOne
  <2>4. ASSUME disk # NoVault, answer # "failed" PROVE answer = "ok"
    BY <1>1, <1>4, <2>4 DEF fetchVault
  <2>a. disk # NoVault => disk.rest \in BOOLEAN
    BY DEF SetupInv, Stored
  <2>5. ASSUME Alone, NEW d \in Creations PROVE (HoldsWhatItStored(d) /\ KeepsWhatItFound(d))'
    <3>1. CASE d = c
      <4>1. /\ creation[c].facts = creation[c].confirmed /\ ~complete
        BY <1>2, <2>5 DEF CreationInv, HoldsWhatItStored, KeepsWhatItFound
      <4>2. HoldsWhatItStored(c)'
        BY <1>2, <2>1, <2>2, <4>1 DEF HoldsWhatItStored
      <4>3. KeepsWhatItFound(c)'
        BY <1>2, <2>1, <2>2, <2>4, <2>a, <4>1 DEF KeepsWhatItFound
      <4> QED
        BY <3>1, <4>2, <4>3
    <3>2. CASE d # c
      BY <1>2, <2>2, <2>5, <3>2 DEF CreationInv, HoldsWhatItStored, KeepsWhatItFound
    <3> QED
      BY <3>1, <3>2
  <2> QED
    BY <1>2, <2>3, <2>5 DEF CreationInv
<1> QED
  BY <1>3, <1>4

\* What a step of the PUT does.
LEMMA Landing ==
  ASSUME SetupInv, NEW c \in Creations, Lands(c)
  PROVE  LET v == [key |-> creation[c].key, facts |-> creation[c].facts, rest |-> creation[c].rest]
         IN  /\ creation[c].at \in {"sent", "orphan", "merging"} /\ c \in Busy
             /\ \E stored \in BOOLEAN :
                  /\ Answered(c, stored)
                  /\ stored => disk' = v
             /\ disk' = disk \/ (disk' = v /\ ~Refuses(creation[c].key, creation[c].force))
             /\ loaded' \in {loaded, disk'} /\ (loaded' # loaded => disk' = v)
             /\ UNCHANGED <<flag, complete, overlapped>>
             /\ v \in Stored
<1>1. [key |-> creation[c].key, facts |-> creation[c].facts, rest |-> creation[c].rest] \in Stored
  BY SentTyped DEF SetupInv
<1> QED
  BY <1>1 DEF Lands, Busy, app

\* The vault that lands.
LEMMA LandKeepsCreations ==
  ASSUME SetupInv, CreationInv, NEW c \in Creations, Lands(c) PROVE CreationInv'
<1> DEFINE m == creation[c]
           v == [key |-> m.key, facts |-> m.facts, rest |-> m.rest]
<1>1. /\ m.at \in {"sent", "orphan", "merging"} /\ c \in Busy /\ m \in OneCreation
      /\ v.key = m.key /\ v.facts = m.facts /\ v.rest = m.rest /\ v # NoVault
      /\ disk' \in {disk, v} /\ loaded' \in {loaded, disk'} /\ (loaded' # loaded => disk' = v)
      /\ UNCHANGED <<flag, complete, overlapped>>
  BY Landing, SetupAssumption DEF SetupInv
<1>2. PICK stored \in BOOLEAN : Answered(c, stored) /\ (stored => disk' = v)
  BY Landing
<1> DEFINE n == IF stored /\ m.at = "sent" THEN [m EXCEPT !.at = "stored"] ELSE NoCreation
<1>3. creation' = [creation EXCEPT ![c] = n]
  BY <1>2 DEF Answered
<1>4. /\ n.at \in {"idle", "stored"}
      /\ n.at = "stored" => /\ disk' = v /\ m.at = "sent" /\ n.facts = m.facts /\ n.key = m.key
                            /\ n.confirmed = m.confirmed /\ n.blind = m.blind
      /\ n.at = "idle" => n.blind = FALSE
  BY <1>1, <1>2, NoCreationParts DEF OneCreation
<1> HIDE DEF n, v
<1>5. /\ creation'[c] = n /\ Busy' \subseteq Busy
      /\ \A d \in Creations : d # c => creation'[d] = creation[d]
  BY <1>1, <1>3, BusyOnes, ZenonT(60)
<1>6. OneAtATime' /\ (Alone' <=> Alone)
  BY <1>1, <1>5, OneStaysOne
<1>7. ASSUME Alone, NEW d \in Creations PROVE (HoldsWhatItStored(d) /\ KeepsWhatItFound(d))'
  <2>0. HoldsWhatItStored(c) /\ KeepsWhatItFound(c)
    BY <1>7 DEF CreationInv
  <2>1. CASE d = c
    <3>1. HoldsWhatItStored(c)'
      BY <1>1, <1>4, <1>5, <2>0 DEF HoldsWhatItStored
    <3>2. KeepsWhatItFound(c)'
      BY <1>1, <1>4, <1>5, <2>0 DEF KeepsWhatItFound
    <3> QED
      BY <2>1, <3>1, <3>2
  <2>2. CASE d # c
    <3>1. d \notin Busy
      BY <1>1, <1>7, <2>2 DEF CreationInv, OneAtATime
    <3>2. creation'[d].at = "idle" /\ creation'[d] = creation[d]
      BY <1>5, <2>2, <3>1 DEF Busy
    <3>3. KeepsWhatItFound(d)
      BY <1>7 DEF CreationInv
    <3> QED
      BY <1>1, <3>2, <3>3 DEF HoldsWhatItStored, KeepsWhatItFound
  <2> QED
    BY <2>1, <2>2
<1>8. ASSUME Alone, complete, loaded' # NoVault PROVE loaded'.rest = disk'.rest
  <2>1. CASE loaded' = disk'
    BY <2>1
  <2>2. CASE loaded' = loaded /\ disk' = disk
    BY <1>8, <2>2 DEF CreationInv
  <2>3. CASE loaded' = loaded /\ disk' = v
    <3>1. disk # NoVault /\ loaded.rest = disk.rest
      BY <1>8, <2>3 DEF CreationInv
    <3>2. KeepsWhatItFound(c)
      BY <1>8 DEF CreationInv
    <3>3. ~m.blind /\ m.rest = disk.rest
      BY <1>1, <1>8, <3>1, <3>2 DEF KeepsWhatItFound
    <3> QED
      BY <1>1, <2>3, <3>1, <3>3
  <2> QED
    BY <1>1, <2>1, <2>2, <2>3
<1>9. loaded' # NoVault => disk' # NoVault
  BY <1>1 DEF CreationInv
<1> QED
  BY <1>1, <1>6, <1>7, <1>8, <1>9 DEF CreationInv

\* The setup is marked complete.
LEMMA FinishKeepsCreations ==
  ASSUME SetupInv, CreationInv, NEW c \in Creations, Finishes(c) PROVE CreationInv'
<1>1. /\ creation' = [creation EXCEPT ![c] = NoCreation] /\ c \in Busy
      /\ flag' = TRUE /\ complete' = TRUE /\ loaded' \in {disk, NoVault}
      /\ disk' = disk /\ overlapped' = overlapped
  BY DEF Finishes, Busy
<1>2. /\ creation'[c] = NoCreation /\ Busy' = Busy \ {c}
      /\ \A d \in Creations : d # c => creation'[d] = creation[d]
  BY <1>1, NoCreationParts, BusyOnes
<1>3. OneAtATime' /\ (Alone' <=> Alone)
  BY <1>1, <1>2, OneStaysOne
<1>4. ASSUME Alone, NEW d \in Creations PROVE (HoldsWhatItStored(d) /\ KeepsWhatItFound(d))'
  <2>1. CASE d = c
    BY <1>2, <2>1, NoCreationParts DEF HoldsWhatItStored, KeepsWhatItFound
  <2>2. CASE d # c
    <3>1. creation'[d].at = "idle" /\ creation'[d] = creation[d]
      BY <1>1, <1>2, <1>4, <2>2 DEF CreationInv, OneAtATime, Busy
    <3> QED
      BY <3>1 DEF HoldsWhatItStored, KeepsWhatItFound
  <2> QED
    BY <2>1, <2>2
<1> QED
  BY <1>1, <1>3, <1>4 DEF CreationInv

\* A reload.
LEMMA ReloadKeepsCreations ==
  ASSUME SetupInv, CreationInv, Reloads PROVE CreationInv'
<1>1. /\ complete' = flag /\ UNCHANGED <<disk, flag, overlapped>> /\ loaded' \in {disk, NoVault}
      /\ flag = complete
  BY DEF Reloads, CreationInv
<1>2. ASSUME NEW c \in Creations
      PROVE  \/ /\ creation[c].at \in {"sent", "orphan", "merging"} /\ creation'[c].at = "orphan"
                /\ creation'[c].rest = creation[c].rest /\ creation'[c].force = creation[c].force
                /\ creation'[c].blind = creation[c].blind
             \/ creation'[c].at = "idle"
  <2>1. creation[c] \in OneCreation
    BY DEF SetupInv
  <2>2. creation'[c] = IF creation[c].at \in {"sent", "orphan", "merging"}
                       THEN [creation[c] EXCEPT !.at = "orphan"] ELSE NoCreation
    BY DEF Reloads
  <2> QED
    BY <2>1, <2>2, NoCreationParts DEF OneCreation
<1>3. Busy' \subseteq Busy
  BY <1>2 DEF Busy
<1>4. OneAtATime' /\ (Alone' <=> Alone)
  BY <1>1, <1>3 DEF CreationInv, OneAtATime, Alone
<1>5. ASSUME Alone, NEW c \in Creations PROVE (HoldsWhatItStored(c) /\ KeepsWhatItFound(c))'
  <2>1. KeepsWhatItFound(c)
    BY <1>5 DEF CreationInv
  <2> QED
    BY <1>1, <1>2, <2>1 DEF HoldsWhatItStored, KeepsWhatItFound
<1> QED
  BY <1>1, <1>4, <1>5 DEF CreationInv

\* Every step keeps what the creations rest on.
LEMMA SetupStepKeepsCreations ==
  SetupInv /\ CreationInv /\ [SetupNext]_setupVars => CreationInv'
<1> SUFFICES ASSUME SetupInv, CreationInv, [SetupNext]_setupVars PROVE CreationInv'
  OBVIOUS
<1> USE DEF app
<1>0. flag = complete /\ complete \in BOOLEAN
  BY DEF CreationInv, SetupInv
<1>1. CASE \/ UNCHANGED setupVars \/ EndsCelebration
           \/ \E p \in SetupPages \cup PostPages : Visits(p)
           \/ \E k \in Passphrases : handlePasswordSet(k) \/ Unlocks(k)
           \/ \E v \in {"chooser", "questions", "import"} : Opens(v)
  BY <1>0, <1>1, OthersKeepCreations
     DEF setupVars, EndsCelebration, Visits, handlePasswordSet, Unlocks, Opens
<1>2. CASE ChecksFlag
  <2>1. /\ UNCHANGED <<disk, creation, overlapped, loaded>>
        /\ \/ flag' = FALSE /\ complete' = FALSE
           \/ flag' = flag /\ complete' = complete
    BY <1>0, <1>2 DEF ChecksFlag, CreationInv
  <2>2. flag' = complete' /\ (complete' => complete)
    <3>1. CASE flag' = FALSE /\ complete' = FALSE
      BY <3>1
    <3>2. CASE flag' = flag /\ complete' = complete
      BY <1>0, <3>2
    <3> QED
      BY <2>1, <3>1, <3>2
  <2> QED
    BY <2>1, <2>2, OthersKeepCreations
<1>3. CASE Reloads
  BY <1>3, ReloadKeepsCreations
<1>4. CASE \/ \E x \in Picked : PicksFile(x)
           \/ WorkerAnswers \/ WorkerFails \/ PageProgress
  <2>1. UNCHANGED <<disk, creation, overlapped, loaded, flag, complete>>
    BY <1>4 DEF PicksFile, WorkerAnswers, WorkerFails, PageProgress, ParsesJson, FallbackParses,
         TimesOut, Redirects, ShowsResult, JobStep
  <2> QED
    BY <1>0, <2>1, OthersKeepCreations
<1>5. ASSUME NEW c \in Creations, NEW facts, Creates(c, facts), ~complete,
             UNCHANGED <<disk, loaded, flag, complete>>
      PROVE  CreationInv'
  BY <1>5, BeginKeepsCreations DEF Creates, personasToSave
<1>6. ASSUME NEW c \in Creations, handleVaultCreated(c) PROVE CreationInv'
  <2>1. \E facts : Creates(c, facts)
    BY <1>6 DEF handleVaultCreated
  <2> QED
    BY <1>5, <1>6, <2>1 DEF handleVaultCreated
<1>7. ASSUME NEW c \in Creations, handlePostSetupVaultCreated(c) PROVE CreationInv'
  BY <1>7, BeginKeepsCreations DEF handlePostSetupVaultCreated
<1>8. ASSUME NEW c \in Creations, Answers(c) PROVE CreationInv'
  <2>1. /\ UNCHANGED <<disk, loaded, flag, complete>>
        /\ \/ UNCHANGED <<creation, overlapped>>
           \/ ~complete /\ \E facts : Creates(c, facts)
    BY <1>8 DEF Answers
  <2> QED
    BY <1>0, <1>5, <2>1, OthersKeepCreations
<1> QED
  BY <1>1, <1>2, <1>3, <1>4, <1>6, <1>7, <1>8, FetchKeepsCreations, LandKeepsCreations,
     FinishKeepsCreations
     DEF SetupNext

\* Nothing is under way at first.
LEMMA SetupInitCreations == SetupInit => CreationInv
  BY NoCreationParts
     DEF SetupInit, CreationInv, OneAtATime, Busy, HoldsWhatItStored, KeepsWhatItFound

\* The invariant the next two theorems read off.
THEOREM CreationsAreSound == SetupSpec => [](SetupInv /\ CreationInv)
<1>1. SetupInit => SetupInv /\ CreationInv
  BY SetupInitTyped, SetupInitCreations
<1>2. (SetupInv /\ CreationInv) /\ [SetupNext]_setupVars => (SetupInv /\ CreationInv)'
  BY SetupStepTyped, SetupStepKeepsCreations
<1> QED
  BY <1>1, <1>2, PTL DEF SetupSpec

\* A setup that is marked complete leaves the vault that was confirmed, under
\* the passphrase that was set, unless another creation was under way: for any
\* answers, imports, reloads and failures.
THEOREM SetupsEndWell == SetupSpec => SetupEndsWithItsVault
<1>1. ASSUME CreationInv
      PROVE  \A c \in Creations \ overlapped :
               creation[c].at = "stored" /\ creation'[c].at = "idle" /\ flag'
                 => /\ disk.facts = creation[c].confirmed
                    /\ disk.key = creation[c].key
  <2>1. ASSUME NEW c \in Creations \ overlapped, creation[c].at = "stored"
        PROVE  disk.facts = creation[c].confirmed /\ disk.key = creation[c].key
    BY <1>1, <2>1 DEF CreationInv, Alone, HoldsWhatItStored
  <2> QED
    BY <2>1
<1> QED
  BY <1>1, CreationsAreSound, PTL DEF SetupEndsWithItsVault, SetupSpec

\* No setup drops the rules, devices and log of a vault it finds, and none
\* replaces a vault it cannot open, unless its fetch failed or another creation
\* was under way: whether it creates, merges, or lands after a reload.
THEOREM SetupsKeepVaults == SetupSpec => SetupKeepsAVault
<1>1. ASSUME SetupInv, CreationInv, [SetupNext]_setupVars,
             NEW c \in Creations \ overlapped, disk # NoVault, disk' # disk,
             creation[c] # creation'[c], ~creation[c].blind
      PROVE  (disk.rest => disk'.rest) /\ disk.key \in {NoKey, disk'.key}
  <2>1. PICK d \in Creations : Lands(d)
    BY <1>1 DEF SetupNext, setupVars, Visits, handlePasswordSet, Unlocks, Opens, EndsCelebration,
         ChecksFlag, Reloads, handleVaultCreated, Fetches, Finishes, handlePostSetupVaultCreated,
         Answers, PicksFile, WorkerAnswers, WorkerFails, PageProgress, ParsesJson, FallbackParses,
         TimesOut, Redirects, ShowsResult, JobStep
  <2>2. d = c
    BY <1>1, <2>1 DEF Lands, Answered, SetupInv
  <2> DEFINE m == creation[c]
             v == [key |-> m.key, facts |-> m.facts, rest |-> m.rest]
  <2>3. /\ m.at \in {"sent", "orphan", "merging"} /\ disk' = v
        /\ ~Refuses(m.key, m.force) /\ v.key = m.key /\ v.rest = m.rest
    BY <1>1, <2>1, <2>2, Landing
  <2> HIDE DEF v
  <2>4. m.rest = disk.rest /\ ~m.force
    BY <1>1, <2>3 DEF CreationInv, Alone, KeepsWhatItFound
  <2>5. disk.key \in {NoKey, m.key}
    BY <1>1, <2>3, <2>4 DEF Refuses
  <2> QED
    BY <2>3, <2>4, <2>5
<1>2. ASSUME SetupInv, CreationInv, [SetupNext]_setupVars
      PROVE  \A c \in Creations \ overlapped :
               disk # NoVault /\ disk' # disk /\ creation[c] # creation'[c] /\ ~creation[c].blind
                 => /\ disk.rest => disk'.rest
                    /\ disk.key \in {NoKey, disk'.key}
  BY <1>1, <1>2
<1> QED
  BY <1>2, CreationsAreSound, PTL DEF SetupKeepsAVault, SetupSpec

-----------------------------------------------------------------------------
(* The data browser: what is shown *)

\* Sorting keeps the items.
LEMMA SortedItems ==
  ASSUME NEW S, NEW items \in Seq(S), NEW before
  PROVE  Sorted(items, before) \in Seq(S)
<1> DEFINE n == Len(items)
           A == Seq(S)
           op(a, m) == InsertAt(a, 1 + Cardinality({ k \in DOMAIN a : <<items[m], a[k]>> \notin before }), items[m])
           Is(g) == g = [m \in 0 .. n |-> IF m = 0 THEN <<>> ELSE op(g[m - 1], m)]
           g0 == CHOOSE g : Is(g)
           F == [p \in A \X (1 .. n) |-> op(p[1], p[2])]
<1>1. Sorted(items, before) = g0[n]
  BY DEF Sorted, ReduceIndices
<1>2. n \in Nat /\ <<>> \in A
  OBVIOUS
<1>3. ASSUME NEW a \in A, NEW m \in 1 .. n PROVE op(a, m) \in A
  <2> DEFINE later == { k \in DOMAIN a : <<items[m], a[k]>> \notin before }
             at == 1 + Cardinality(later)
  <2>1. IsFiniteSet(1 .. Len(a)) /\ Cardinality(1 .. Len(a)) = Len(a)
    <3>1. Len(a) \in Nat /\ Len(a) \in Int /\ 1 \in Int
      OBVIOUS
    <3>2. IsFiniteSet(1 .. Len(a)) /\ Cardinality(1 .. Len(a)) = IF 1 > Len(a) THEN 0 ELSE Len(a) - 1 + 1
      BY <3>1, FS_Interval
    <3> QED BY <3>1, <3>2
  <2>2. later \subseteq 1 .. Len(a)
    OBVIOUS
  <2> HIDE DEF later
  <2>3. Cardinality(later) \in Nat /\ Cardinality(later) <= Len(a)
    BY <2>1, <2>2, FS_Subset, FS_CardinalityType
  <2>4. at \in 1 .. Len(a) + 1
    BY <2>3
  <2> HIDE DEF at
  <2>5. SubSeq(a, 1, at - 1) \in A /\ SubSeq(a, at, Len(a)) \in A /\ <<items[m]>> \in A
    BY <2>4
  <2>6. InsertAt(a, at, items[m]) \in A
    BY <2>5 DEF InsertAt
  <2> QED BY <2>6 DEF at, later
<1>4. F \in [A \X (1 .. n) -> A] /\ \A a \in A, m \in 1 .. n : F[<<a, m>>] = op(a, m)
  <2> HIDE DEF op, A
  <2> QED BY <1>3
<1> HIDE DEF F, op, n, A
<1>5. PICK g \in [0 .. n -> A] : Stepped(g, A, <<>>, n, F)
  BY <1>2, <1>4, StepsExist
<1>6. Is(g)
  <2>1. \A m \in 0 .. n : m # 0 => g[m] = op(g[m - 1], m)
    BY <1>2, <1>4, <1>5, Place DEF Stepped
  <2> QED BY <1>5, <2>1 DEF Stepped
<1>7. Is(g0)
  <2> HIDE DEF Is
  <2> QED BY <1>6
<1> HIDE DEF g0
<1>8. g0[0] = <<>> /\ \A m \in 1 .. n : g0[m] = op(g0[m - 1], m)
  BY <1>2, <1>7, Place
<1>9. Stepped(g0, A, <<>>, n, F)
  BY <1>2, <1>4, <1>8, StepsStay
<1>10. g0[n] \in A
  BY <1>2, <1>9, Place DEF Stepped
<1> QED
  BY <1>1, <1>10 DEF A

\* A tab lists the items of its source, and shows some of them.
LEMMA ListedItems ==
  ASSUME NEW t \in Tabs
  PROVE  Listed[t] \in Seq(ToSet(Items[t]))
<1>1. Items[t] \in Seq(ToSet(Items[t]))
  BY BrowserAssumption
<1>2. ASSUME NEW first PROVE InOrder(Items[t], first) \in Seq(ToSet(Items[t]))
  BY <1>1, SortedItems DEF InOrder
<1> QED
  BY <1>1, <1>2 DEF Listed

LEMMA ShownItems ==
  ASSUME tab \in Tabs
  PROVE  Visible \in Seq(ToSet(Items[tab]))
<1> DEFINE l == Listed[tab]
           S == ToSet(Items[tab])
           which == { n \in DOMAIN l : l[n] \in ToSet(data) /\ Shows(l[n]) }
           T == { l[n] : n \in { k \in 1 .. Len(l) : k \in which } }
<1>1. l \in Seq(S) /\ Visible = Kept(l, which)
  BY ListedItems DEF Visible, Passing
<1> HIDE DEF l, S, which
<1>2. Kept(l, which) \in Seq(T)
  BY <1>1, KeptItems
<1>3. T \subseteq S
  BY <1>1
<1> QED
  BY <1>1, <1>2, <1>3 DEF S

\* Items of one source with the same ids are the same.
LEMMA SignaturesTell ==
  ASSUME NEW t \in Tabs, NEW s \in Seq(ToSet(Items[t])), NEW u \in Seq(ToSet(Items[t])),
         Signature(s) = Signature(u)
  PROVE  s = u
<1>1. \A x, y \in ToSet(Items[t]) : x.id = y.id => x = y
  BY BrowserAssumption
<1>2. DOMAIN s = DOMAIN u /\ \A i \in DOMAIN s : s[i].id = u[i].id
  BY DEF Signature
<1>3. Len(s) = Len(u) /\ \A i \in 1 .. Len(s) : s[i] = u[i]
  BY <1>1, <1>2
<1> QED
  BY <1>3

LEMMA DatasetItems ==
  ASSUME NEW t \in Tabs, NEW who
  PROVE  Dataset(t, who) \in Seq(ToSet(Items[t]))
<1> DEFINE which == { n \in DOMAIN Items[t] : who \in {"all", Items[t][n].owner} }
           S == ToSet(Items[t])
           T == { Items[t][n] : n \in { k \in 1 .. Len(Items[t]) : k \in which } }
<1>1. Items[t] \in Seq(S)
  BY BrowserAssumption
<1>2. T \subseteq S
  BY <1>1
<1> HIDE DEF which, S
<1>3. Kept(Items[t], which) \in Seq(T)
  BY <1>1, KeptItems
<1>4. Kept(Items[t], which) \in Seq(S)
  BY <1>2, <1>3
<1> QED
  BY <1>4 DEF Dataset, which, S

-----------------------------------------------------------------------------
(* The data browser: runs *)

RunFields == {"mails", "next", "facts", "aborted"}

\* A run of these mails that has not been aborted.
RunOf(r, mails) ==
  r = [mails |-> mails, next |-> r.next, facts |-> r.facts, aborted |-> FALSE] /\ r.next \in Nat \ {0}

LEMMA ChunkRead ==
  ASSUME NEW S, NEW mails \in Seq(S), NEW r, RunOf(r, mails), ~Over(r)
  PROVE  RunOf(ReadChunk(r), mails) /\ ReadChunk(r).next > r.next
<1> DEFINE upto  == Smaller(Len(r.mails), r.next + ChunkSize - 1)
           batch == FlattenSeq([i \in 1 .. upto - r.next + 1 |-> buildGmailGeneralRecords(r.mails[r.next + i - 1])])
           facts == dedupeFacts_Scope(r.facts, extractBrowseFactsFromRecords(batch))
<1>1. ReadChunk(r) = [r EXCEPT !.next = upto + 1, !.facts = facts]
  BY DEF ReadChunk
<1>2. /\ r = [mails |-> mails, next |-> r.next, facts |-> r.facts, aborted |-> FALSE]
      /\ r.next \in Nat \ {0} /\ r.next <= Len(mails) /\ Len(mails) \in Nat /\ ChunkSize \in Nat \ {0}
      /\ r.mails = mails
  BY BrowserAssumption DEF RunOf, Over
<1>3. upto \in Nat /\ upto >= r.next
  BY <1>2 DEF Smaller
<1> HIDE DEF upto, facts
<1>4. ReadChunk(r) = [mails |-> mails, next |-> upto + 1, facts |-> facts, aborted |-> FALSE]
  <2> DEFINE a == r.next
             b == r.facts
  <2>1. r = [mails |-> mails, next |-> a, facts |-> b, aborted |-> FALSE]
    BY <1>2
  <2> HIDE DEF a, b
  <2> QED BY <1>1, <2>1
<1>5. ReadChunk(r).next = upto + 1 /\ ReadChunk(r).facts = facts
  BY <1>4
<1>6. upto + 1 \in Nat \ {0} /\ upto + 1 > r.next
  BY <1>2, <1>3
<1> QED
  BY <1>4, <1>5, <1>6 DEF RunOf

ReadsOn(g, mails, upto) ==
  /\ g[0] = Unread(mails)
  /\ \A m \in 1 .. upto : g[m] = IF Over(g[m - 1]) THEN g[m - 1] ELSE ReadChunk(g[m - 1])

\* What the recursive function is.
LEMMA RunsGo ==
  ASSUME NEW mails, Len(mails) \in Nat
  PROVE  ReadsOn(Going(mails), mails, Len(mails))
<1> DEFINE n == Len(mails)
           next(r) == IF Over(r) THEN r ELSE ReadChunk(r)
           Is(g) == g = [m \in 0 .. n |-> IF m = 0 THEN Unread(mails)
                                          ELSE IF Over(g[m - 1]) THEN g[m - 1] ELSE ReadChunk(g[m - 1])]
           g0 == CHOOSE g : Is(g)
           upTo(m) == \E g : g = [k \in 0 .. m |-> g[k]] /\ ReadsOn(g, mails, m)
           P == [m \in 0 .. n |-> IF upTo(m) THEN TRUE ELSE FALSE]
<1>1. Going(mails) = g0
  BY DEF Going
<1>2. n \in Nat
  OBVIOUS
<1>3. upTo(0)
  <2> DEFINE g == [k \in 0 .. 0 |-> Unread(mails)]
  <2>1. g = [k \in 0 .. 0 |-> g[k]] /\ ReadsOn(g, mails, 0)
    BY DEF ReadsOn
  <2> HIDE DEF g
  <2> QED BY <2>1
<1>4. ASSUME NEW m \in 1 .. n, upTo(m - 1) PROVE upTo(m)
  <2>1. PICK g : g = [k \in 0 .. m - 1 |-> g[k]] /\ ReadsOn(g, mails, m - 1)
    BY <1>4
  <2> DEFINE h == [k \in 0 .. m |-> IF k = m THEN next(g[m - 1]) ELSE g[k]]
  <2> HIDE DEF next
  <2>2. h = [k \in 0 .. m |-> h[k]] /\ h[0] = Unread(mails)
    BY <2>1 DEF ReadsOn
  <2>3. ASSUME NEW k \in 1 .. m PROVE h[k] = next(h[k - 1])
    <3>1. k \in 0 .. m /\ k - 1 \in 0 .. m /\ k - 1 # m
      OBVIOUS
    <3>2. h[k - 1] = g[k - 1]
      BY <3>1
    <3>3. CASE k = m
      BY <3>1, <3>2, <3>3
    <3>4. CASE k # m
      <4>1. k \in 1 .. m - 1 /\ h[k] = g[k]
        BY <3>1, <3>4
      <4>2. g[k] = next(g[k - 1])
        BY <4>1, <2>1 DEF ReadsOn, next
      <4> QED BY <3>2, <4>1, <4>2
    <3> QED BY <3>3, <3>4
  <2> HIDE DEF h
  <2>4. ReadsOn(h, mails, m)
    BY <2>2, <2>3 DEF ReadsOn, next
  <2> QED BY <2>2, <2>4
<1>5. P \in [0 .. n -> BOOLEAN] /\ P[0] /\ \A m \in 1 .. n : P[m - 1] => P[m]
  <2> HIDE DEF upTo
  <2>1. P \in [0 .. n -> BOOLEAN]
    OBVIOUS
  <2>p. P[0]
    BY <1>2, <1>3, Place
  <2>2. ASSUME NEW m \in 1 .. n, P[m - 1] PROVE P[m]
    <3>1. m - 1 \in 0 .. n /\ m \in 0 .. n
      BY <1>2
    <3>2. upTo(m - 1)
      BY <3>1, <2>2
    <3> QED BY <3>1, <3>2, <1>4
  <2> QED BY <2>1, <2>p, <2>2
<1>6. P[n]
  <2> HIDE DEF P, n
  <2>1. \A m \in 0 .. n : P[m]
    BY <1>2, <1>5, StepByStep
  <2> QED BY <1>2, <2>1, Place
<1>7. PICK g : g = [k \in 0 .. n |-> g[k]] /\ ReadsOn(g, mails, n)
  <2>1. n \in 0 .. n
    BY <1>2
  <2> HIDE DEF upTo
  <2>2. upTo(n)
    BY <1>6, <2>1
  <2> QED BY <2>2 DEF upTo
<1>8. Is(g)
  <2>1. \A m \in 0 .. n : m # 0 => m \in 1 .. n
    BY <1>2
  <2> QED BY <1>7, <2>1 DEF ReadsOn
<1>9. Is(g0)
  <2> HIDE DEF Is
  <2> QED BY <1>8
<1> HIDE DEF g0
<1>10. ReadsOn(g0, mails, n)
  <2>1. g0[0] = Unread(mails)
    BY <1>2, <1>9
  <2>2. ASSUME NEW m \in 1 .. n PROVE g0[m] = IF Over(g0[m - 1]) THEN g0[m - 1] ELSE ReadChunk(g0[m - 1])
    <3>1. m \in 0 .. n /\ m # 0
      BY <1>2
    <3> QED BY <1>9, <3>1
  <2> QED BY <2>1, <2>2 DEF ReadsOn
<1> QED
  BY <1>1, <1>10

\* A run is over by the time it has read as many chunks as there are mails, and
\* what it has found then stays.
LEMMA RunsEnd ==
  ASSUME NEW S, NEW mails \in Seq(S)
  PROVE  LET g == Going(mails) IN
         /\ \A m \in 0 .. Len(mails) : RunOf(g[m], mails)
         /\ Over(g[Len(mails)])
         /\ \A m \in 0 .. Len(mails) : Over(g[m]) => g[Len(mails)] = g[m]
<1> DEFINE g == Going(mails)
           n == Len(mails)
<1>1. n \in Nat /\ ReadsOn(g, mails, n)
  BY RunsGo
<1> HIDE DEF g
<1>2. \A m \in 1 .. n : g[m] = IF Over(g[m - 1]) THEN g[m - 1] ELSE ReadChunk(g[m - 1])
  BY <1>1 DEF ReadsOn
<1>3. RunOf(g[0], mails) /\ g[0].next > 0
  BY <1>1 DEF ReadsOn, Unread, RunOf
<1> DEFINE good(m) == RunOf(g[m], mails) /\ (Over(g[m]) \/ g[m].next > m)
           P == [m \in 0 .. n |-> good(m)]
<1>4. ASSUME NEW m \in 1 .. n, good(m - 1) PROVE good(m)
  <2>1. CASE Over(g[m - 1])
    BY <1>2, <1>4, <2>1
  <2>2. CASE ~Over(g[m - 1])
    <3>1. g[m] = ReadChunk(g[m - 1])
      BY <1>2, <2>2
    <3>2. RunOf(g[m], mails) /\ g[m].next > g[m - 1].next
      BY <3>1, <2>2, <1>4, ChunkRead
    <3>3. g[m].next \in Nat /\ g[m - 1].next \in Nat /\ g[m - 1].next > m - 1
      BY <3>2, <2>2, <1>4 DEF RunOf
    <3> QED BY <3>2, <3>3
  <2> QED BY <2>1, <2>2
<1>5. \A m \in 0 .. n : good(m)
  <2>1. P \in [0 .. n -> BOOLEAN]
    OBVIOUS
  <2>p. P[0]
    BY <1>1, <1>3, Place
  <2>2. ASSUME NEW m \in 1 .. n, P[m - 1] PROVE P[m]
    <3>1. m - 1 \in 0 .. n /\ m \in 0 .. n
      BY <1>1
    <3> QED BY <3>1, <2>2, <1>4
  <2>3. \A m \in 0 .. n : P[m]
    <3> HIDE DEF P, n
    <3> QED BY <1>1, <2>1, <2>p, <2>2, StepByStep
  <2> QED BY <2>3
<1>6. Over(g[n])
  <2>1. n \in 0 .. n
    BY <1>1
  <2>2. RunOf(g[n], mails) /\ (Over(g[n]) \/ g[n].next > n)
    BY <2>1, <1>5
  <2>3. g[n].mails = mails
    BY <2>2 DEF RunOf
  <2> QED BY <2>2, <2>3 DEF Over
<1>7. ASSUME NEW m \in 0 .. n, Over(g[m]) PROVE g[n] = g[m]
  <2> DEFINE same(k) == k >= m => g[k] = g[m]
             Q == [k \in 0 .. n |-> same(k)]
  <2>1. ASSUME NEW k \in 1 .. n, same(k - 1) PROVE same(k)
    <3>1. CASE k <= m
      BY <3>1, <1>1
    <3>2. CASE k > m
      <4>1. g[k - 1] = g[m]
        BY <2>1, <3>2, <1>1
      <4> QED BY <4>1, <1>2, <1>7
    <3> QED BY <3>1, <3>2, <1>1
  <2>2. Q \in [0 .. n -> BOOLEAN]
    OBVIOUS
  <2>q. Q[0]
    <3>1. same(0)
      BY <1>1
    <3> QED BY <3>1, <1>1, Place
  <2>3. ASSUME NEW k \in 1 .. n, Q[k - 1] PROVE Q[k]
    <3>1. k - 1 \in 0 .. n /\ k \in 0 .. n
      BY <1>1
    <3>2. same(k - 1)
      BY <3>1, <2>3
    <3>3. same(k)
      BY <3>2, <2>1
    <3> QED BY <3>1, <3>3
  <2>4. \A k \in 0 .. n : Q[k]
    <3> HIDE DEF Q, n
    <3> QED BY <1>1, <2>2, <2>q, <2>3, StepByStep
  <2>5. n \in 0 .. n /\ n >= m
    BY <1>1
  <2>6. same(n)
    BY <2>4, <2>5
  <2> QED BY <2>5, <2>6
<1> QED
  BY <1>5, <1>6, <1>7 DEF g

\* A run of these mails that goes on.
Underway(r, mails) == ~Over(r) /\ \E m \in 0 .. Len(mails) : r = Going(mails)[m]

LEMMA GoesOn ==
  ASSUME NEW S, NEW mails \in Seq(S), NEW r, Underway(r, mails)
  PROVE  /\ RunOf(r, mails) /\ RunOf(ReadChunk(r), mails)
         /\ IF Over(ReadChunk(r)) THEN ReadChunk(r).facts = Going(mails)[Len(mails)].facts
                              ELSE Underway(ReadChunk(r), mails)
<1> DEFINE g == Going(mails)
           n == Len(mails)
<1>1. n \in Nat /\ ReadsOn(g, mails, n)
  BY RunsGo
<1>2. PICK m \in 0 .. n : r = g[m]
  BY DEF Underway
<1>3. /\ \A k \in 0 .. n : RunOf(g[k], mails)
      /\ Over(g[n]) /\ \A k \in 0 .. n : Over(g[k]) => g[n] = g[k]
  BY RunsEnd
<1> HIDE DEF g, n
<1>4. ~Over(g[m])
  BY <1>2 DEF Underway
<1>5. m + 1 \in 1 .. n /\ m + 1 \in 0 .. n /\ (m + 1) - 1 = m
  BY <1>1, <1>3, <1>4
<1>6. ReadChunk(r) = g[m + 1]
  BY <1>1, <1>2, <1>4, <1>5 DEF ReadsOn
<1>7. RunOf(r, mails) /\ RunOf(ReadChunk(r), mails)
  BY <1>2, <1>3, <1>5, <1>6
<1>8. CASE Over(ReadChunk(r))
  BY <1>3, <1>5, <1>6, <1>7, <1>8 DEF g, n
<1>9. CASE ~Over(ReadChunk(r))
  BY <1>5, <1>6, <1>7, <1>9 DEF g, n, Underway
<1> QED
  BY <1>7, <1>8, <1>9

LEMMA BeginsUnderway ==
  ASSUME NEW S, NEW mails \in Seq(S), mails # <<>>
  PROVE  Underway(Unread(mails), mails)
<1>1. Len(mails) \in Nat \ {0}
  OBVIOUS
<1>2. ~Over(Unread(mails))
  BY <1>1 DEF Unread, Over
<1>3. Unread(mails) = Going(mails)[0] /\ 0 \in 0 .. Len(mails)
  BY <1>1, RunsGo DEF ReadsOn
<1> QED
  BY <1>2, <1>3 DEF Underway

-----------------------------------------------------------------------------
(* The data browser: the invariant *)

RunsSound ==
  /\ runs = [i \in DOMAIN runs |-> runs[i]] /\ runs \in Seq(ToSet(runs))
  /\ \A i \in DOMAIN runs :
       /\ DOMAIN runs[i] = RunFields /\ runs[i] = [x \in RunFields |-> runs[i][x]]
       /\ ~Over(runs[i]) /\ ~runs[i].aborted => i = current
  /\ \A i, j \in DOMAIN runs : ~Over(runs[i]) /\ ~Over(runs[j]) => i = j
  /\ status = "running" <=> current # 0
  /\ current # 0 => current \in DOMAIN runs /\ Underway(runs[current], Visible)
  /\ status = "complete" => results = Expected /\ \A i \in DOMAIN runs : Over(runs[i])
  /\ status # "complete" => results = Nothing

LoadsSound ==
  /\ tab \in Tabs /\ persona \in Personas /\ loading \in BOOLEAN
  /\ loads \subseteq [of : Personas, cancelled : BOOLEAN]
  /\ \A l \in loads : ~l.cancelled => l.of = persona
  /\ data = <<>> \/ \E who \in Personas : data = Dataset(tab, who)
  /\ ~loading => data \in {<<>>, Dataset(tab, persona)}
  /\ tab \notin {"gmail", "amazon"} => selected \in Nat \ {0}

BrowserSound == LoadsSound /\ (~raced => RunsSound)

\* What is shown depends on the tab, the data and the filters.
LEMMA SameShown == UNCHANGED <<tab, data, filter>> => Visible' = Visible /\ Expected' = Expected
<1> SUFFICES ASSUME UNCHANGED <<tab, data, filter>> PROVE Visible' = Visible /\ Expected' = Expected
  OBVIOUS
<1>1. Visible' = Visible
  BY DEF Visible, Passing, Shows, ListsMail, ListsOrder, ListsChat, ListsConversation, ListsPage, Searched
<1> QED
  BY <1>1 DEF Expected

LEMMA LoadsStart == BrowserInit => LoadsSound
<1> SUFFICES ASSUME BrowserInit PROVE LoadsSound
  OBVIOUS
<1> QED
  BY BrowserAssumption DEF BrowserInit, LoadsSound, Personas

LEMMA LoadsStep == LoadsSound /\ [BrowserNext]_browserVars => LoadsSound'
<1> SUFFICES ASSUME LoadsSound, [BrowserNext]_browserVars PROVE LoadsSound'
  OBVIOUS
<1> USE DEF LoadsSound
<1>1. ASSUME NEW t \in Tabs, OpensTab(t) PROVE LoadsSound'
  BY <1>1 DEF OpensTab, Fresh
<1>2. ASSUME NEW who \in Personas, ChoosesPersona(who) PROVE LoadsSound'
  <2> DEFINE old == { [l EXCEPT !.cancelled = TRUE] : l \in loads }
  <2>1. old \subseteq [of : Personas, cancelled : BOOLEAN] /\ \A l \in old : l.cancelled
    OBVIOUS
  <2>2. loads' = old \cup {[of |-> who, cancelled |-> FALSE]}
    BY <1>2 DEF ChoosesPersona
  <2> HIDE DEF old
  <2>3. loads' \subseteq [of : Personas, cancelled : BOOLEAN] /\ \A l \in loads' : ~l.cancelled => l.of = who
    <3>1. [of |-> who, cancelled |-> FALSE] \in [of : Personas, cancelled : BOOLEAN]
      OBVIOUS
    <3>2. [of |-> who, cancelled |-> FALSE].of = who
      OBVIOUS
    <3>3. \A l \in loads' : l \in old \/ l = [of |-> who, cancelled |-> FALSE]
      BY <2>2
    <3>4. \A l \in loads' : l \in [of : Personas, cancelled : BOOLEAN] /\ (~l.cancelled => l.of = who)
      BY <2>1, <3>1, <3>2, <3>3
    <3> QED BY <3>4
  <2>4. tab' = tab /\ persona' = who /\ loading' = TRUE /\ data' = data /\ selected' = selected
    BY <1>2 DEF ChoosesPersona, chosen
  <2> QED BY <2>3, <2>4
<1>3. ASSUME NEW l \in loads, LoadAnswers(l) \/ LoadFails(l) PROVE LoadsSound'
  <2>1. PICK items \in {<<>>, Dataset(tab, l.of)} : LoadSettles(l, items)
    BY <1>3 DEF LoadAnswers, LoadFails
  <2>2. /\ loads' \subseteq loads /\ UNCHANGED <<tab, persona, selected>>
        /\ IF l.cancelled THEN UNCHANGED <<loading, data>> ELSE loading' = FALSE /\ data' = items
    BY <2>1 DEF LoadSettles
  <2>3. l.of \in Personas /\ l.cancelled \in BOOLEAN
    OBVIOUS
  <2> QED BY <2>1, <2>2, <2>3
<1>4. CASE Filters
  <2>1. UNCHANGED <<tab, persona, loading, data, selected, loads>>
    BY <1>4 DEF Filters
  <2> QED BY <2>1
<1>5. CASE Selects
  <2>1. UNCHANGED <<tab, persona, loading, data, loads>>
    BY <1>5 DEF Selects
  <2>2. tab \notin {"gmail", "amazon"} => selected' \in DOMAIN Visible
    BY <1>5 DEF Selects
  <2>3. DOMAIN Visible \subseteq Nat \ {0}
    BY ShownItems
  <2> QED BY <2>1, <2>2, <2>3
<1>6. CASE BeginsRun \/ CancelsRun \/ \E i \in DOMAIN runs : Wakes(i)
  <2>1. UNCHANGED <<tab, persona, loading, data, selected, loads>>
    BY <1>6 DEF BeginsRun, CancelsRun, Wakes, chosen
  <2> QED BY <2>1
<1>7. CASE UNCHANGED browserVars
  BY <1>7 DEF browserVars, chosen
<1> QED
  BY <1>1, <1>2, <1>3, <1>4, <1>5, <1>6, <1>7 DEF BrowserNext

LEMMA SequenceOf == ASSUME NEW S, NEW n \in Nat, NEW s \in [1 .. n -> S] PROVE s \in Seq(S)
OBVIOUS

LEMMA AppendedIs ==
  ASSUME NEW S, NEW s \in Seq(S), NEW x
  PROVE  Append(s, x) = [i \in 1 .. Len(s) + 1 |-> Append(s, x)[i]]
<1>1. Append(s, x) \in Seq(S \cup {x}) /\ Len(Append(s, x)) = Len(s) + 1
  OBVIOUS
<1>2. \A u \in Seq(S \cup {x}) : u = [i \in 1 .. Len(u) |-> u[i]]
  OBVIOUS
<1> QED
  BY <1>1, <1>2

\* What a mount, a load or a filter does to the runs.
LEMMA FreshRuns == \A t, who : Fresh(t, who) => RunsSound'
<1> SUFFICES ASSUME NEW t, NEW who, Fresh(t, who) PROVE RunsSound'
  OBVIOUS
<1>1. runs' = <<>> /\ current' = 0 /\ status' = "idle" /\ results' = Nothing
  BY DEF Fresh
<1>2. <<>> = [i \in DOMAIN <<>> |-> <<>>[i]] /\ <<>> \in Seq(ToSet(<<>>)) /\ DOMAIN <<>> = {}
  BY DEF ToSet
<1> QED
  BY <1>1, <1>2 DEF RunsSound

\* Aborting the current run, if there is one, leaves none that goes on.
LEMMA AbortsCurrent ==
  ASSUME RunsSound, current # 0,
         runs' = [runs EXCEPT ![current].aborted = TRUE], current' = 0
  PROVE  /\ runs' = [i \in DOMAIN runs' |-> runs'[i]] /\ runs' \in Seq(ToSet(runs'))
         /\ DOMAIN runs' = DOMAIN runs
         /\ \A i \in DOMAIN runs' :
              /\ DOMAIN runs'[i] = RunFields /\ runs'[i] = [x \in RunFields |-> runs'[i][x]]
              /\ Over(runs'[i]) <=> Over(runs[i])
              /\ ~Over(runs'[i]) => runs'[i].aborted
<1>1. current \in DOMAIN runs /\ runs \in Seq(ToSet(runs))
  BY DEF RunsSound
<1>2. DOMAIN runs' = DOMAIN runs /\ DOMAIN runs = 1 .. Len(runs) /\ Len(runs) \in Nat
  BY <1>1
<1>3. runs'[current] = [runs[current] EXCEPT !.aborted = TRUE] /\ \A i \in DOMAIN runs : i # current => runs'[i] = runs[i]
  BY <1>1
<1>4. runs' = [i \in 1 .. Len(runs) |-> runs'[i]]
  BY <1>1, <1>2
<1>5. runs' \in Seq(ToSet(runs'))
  <2>1. \A i \in 1 .. Len(runs) : runs'[i] \in ToSet(runs')
    BY <1>2 DEF ToSet
  <2> DEFINE S == ToSet(runs')
             n == Len(runs)
  <2>2. n \in Nat /\ \A i \in 1 .. n : runs'[i] \in S
    BY <1>2, <2>1
  <2> HIDE DEF S, n
  <2>3. runs' \in [1 .. n -> S]
    BY <1>4, <2>2 DEF n
  <2>4. runs' \in Seq(S)
    BY <2>2, <2>3, SequenceOf
  <2> QED BY <2>4 DEF S
<1>6. ASSUME NEW i \in DOMAIN runs
      PROVE  /\ DOMAIN runs'[i] = RunFields /\ runs'[i] = [x \in RunFields |-> runs'[i][x]]
             /\ Over(runs'[i]) <=> Over(runs[i])
             /\ ~Over(runs'[i]) => runs'[i].aborted
  <2>1. DOMAIN runs[i] = RunFields /\ runs[i] = [x \in RunFields |-> runs[i][x]]
    BY DEF RunsSound
  <2>2. CASE i = current
    <3> DEFINE r == runs[current]
    <3>1. runs'[i] = [r EXCEPT !.aborted = TRUE]
      BY <1>3, <2>2
    <3>2. DOMAIN r = RunFields /\ r = [x \in RunFields |-> r[x]]
      BY <2>1, <2>2
    <3> HIDE DEF r
    <3>3. DOMAIN runs'[i] = RunFields /\ runs'[i] = [x \in RunFields |-> runs'[i][x]]
      BY <3>1, <3>2
    <3>4. runs'[i].aborted = TRUE /\ runs'[i].next = r.next /\ runs'[i].mails = r.mails
      BY <3>1, <3>2 DEF RunFields
    <3> QED BY <3>3, <3>4, <2>2 DEF Over, r
  <2>3. CASE i # current
    BY <1>3, <2>1, <2>3 DEF RunsSound
  <2> QED BY <2>2, <2>3
<1> QED
  BY <1>2, <1>4, <1>5, <1>6

LEMMA ForgetsRuns == RunsSound /\ ForgetsRun => RunsSound'
<1> SUFFICES ASSUME RunsSound, ForgetsRun PROVE RunsSound'
  OBVIOUS
<1>1. current' = 0 /\ status' = "idle" /\ results' = Nothing
  BY DEF ForgetsRun
<1>2. CASE current = 0
  <2>1. runs' = runs
    BY <1>2 DEF ForgetsRun
  <2>2. \A i \in DOMAIN runs : i # 0
    BY DEF RunsSound
  <2> QED BY <1>1, <1>2, <2>1, <2>2 DEF RunsSound, Over
<1>3. CASE current # 0
  <2>1. runs' = [runs EXCEPT ![current].aborted = TRUE]
    BY <1>3 DEF ForgetsRun
  <2> QED BY <1>1, <1>3, <2>1, AbortsCurrent DEF RunsSound
<1> QED
  BY <1>2, <1>3

\* When what is shown changes, by its ids, nothing is left of the run.
LEMMA ResignsRuns == LoadsSound /\ LoadsSound' /\ tab' = tab /\ RunsSound /\ Resigns => RunsSound'
<1> SUFFICES ASSUME LoadsSound, LoadsSound', tab' = tab, RunsSound, Resigns PROVE RunsSound'
  OBVIOUS
<1>1. CASE Signature(Visible') = Signature(Visible)
  <2>1. UNCHANGED run
    BY <1>1 DEF Resigns
  <2>2. Visible \in Seq(ToSet(Items[tab])) /\ tab \in Tabs
    BY ShownItems DEF LoadsSound
  <2>3. (tab \in Tabs)' => (Visible \in Seq(ToSet(Items[tab])))'
    BY ShownItems, PTL
  <2>4. Visible' \in Seq(ToSet(Items[tab]))
    BY <2>2, <2>3
  <2>5. Visible' = Visible
    BY <1>1, <2>2, <2>4, SignaturesTell
  <2>6. Expected' = Expected
    BY <2>5 DEF Expected
  <2> QED BY <2>1, <2>5, <2>6 DEF RunsSound, run, Over
<1>2. CASE Signature(Visible') # Signature(Visible)
  <2>1. ForgetsRun
    BY <1>2 DEF Resigns
  <2> QED BY <2>1, ForgetsRuns
<1> QED
  BY <1>1, <1>2

\* A run is begun.
LEMMA BeginsRuns == LoadsSound /\ (~raced => RunsSound) /\ BeginsRun => (~raced' => RunsSound')
<1> SUFFICES ASSUME LoadsSound, RunsSound, BeginsRun, ~raced' PROVE RunsSound'
  BY DEF BeginsRun
<1> DEFINE mails == Visible
           r == ReadChunk(Unread(mails))
           new == IF Over(r) THEN EndedRun ELSE r
<1>1. /\ mails # <<>> /\ runs' = Append(runs, new)
      /\ IF Over(r) THEN Completes(r) /\ current' = 0
         ELSE status' = "running" /\ results' = Nothing /\ current' = Len(runs')
      /\ UNCHANGED <<tab, data, filter>>
  BY DEF BeginsRun, chosen
<1>2. \A i \in DOMAIN runs : Over(runs[i])
  BY DEF BeginsRun
<1>3. mails \in Seq(ToSet(Items[tab]))
  BY ShownItems DEF LoadsSound
<1>4. Visible' = mails /\ Expected' = Expected /\ Expected = Going(mails)[Len(mails)].facts
  BY <1>1, SameShown DEF Expected
<1> HIDE DEF mails
<1>5. Underway(Unread(mails), mails)
  BY <1>1, <1>3, BeginsUnderway
<1>6. /\ RunOf(r, mails)
      /\ IF Over(r) THEN r.facts = Going(mails)[Len(mails)].facts ELSE Underway(r, mails)
  BY <1>3, <1>5, GoesOn
<1> HIDE DEF r
<1>7. DOMAIN new = RunFields /\ new = [x \in RunFields |-> new[x]]
  <2>1. CASE Over(r)
    BY <2>1 DEF EndedRun, RunFields
  <2>2. CASE ~Over(r)
    BY <1>6, <2>2 DEF RunOf, RunFields
  <2> QED BY <2>1, <2>2
<1>8. Over(EndedRun)
  BY DEF EndedRun, Over
<1> DEFINE n == Len(runs)
<1>9. Over(new) <=> Over(r)
  BY <1>8
<1> HIDE DEF new
<1>10. /\ runs \in Seq(ToSet(runs)) /\ n \in Nat /\ DOMAIN runs = 1 .. n
       /\ runs = [i \in 1 .. n |-> runs[i]]
  BY DEF RunsSound
<1>11. /\ DOMAIN runs' = 1 .. n + 1 /\ Len(runs') = n + 1
       /\ runs'[n + 1] = new /\ \A i \in 1 .. n : runs'[i] = runs[i]
  BY <1>1, <1>10
<1>12. runs' \in Seq(ToSet(runs')) /\ runs' = [i \in DOMAIN runs' |-> runs'[i]]
  <2> DEFINE S == ToSet(runs')
  <2>1. runs' = [i \in 1 .. n + 1 |-> runs'[i]]
    <3>1. Append(runs, new) = [i \in 1 .. n + 1 |-> Append(runs, new)[i]]
      BY <1>10, AppendedIs
    <3> QED BY <1>1, <3>1
  <2>2. \A i \in 1 .. n + 1 : runs'[i] \in S
    BY <1>11 DEF ToSet
  <2> HIDE DEF S, n
  <2>3. runs' \in [1 .. n + 1 -> S] /\ n + 1 \in Nat
    BY <2>1, <2>2, <1>10
  <2>4. runs' \in Seq(S)
    BY <2>3, SequenceOf
  <2> QED BY <2>1, <2>4, <1>11 DEF S
<1>13. ASSUME NEW i \in DOMAIN runs'
       PROVE  /\ DOMAIN runs'[i] = RunFields /\ runs'[i] = [x \in RunFields |-> runs'[i][x]]
              /\ ~Over(runs'[i]) => i = n + 1 /\ ~Over(r)
  <2>1. i \in 1 .. n \/ i = n + 1
    BY <1>10, <1>11
  <2>2. CASE i \in 1 .. n
    <3>1. i \in DOMAIN runs /\ runs'[i] = runs[i]
      BY <2>2, <1>10, <1>11
    <3> QED BY <3>1, <1>2 DEF RunsSound
  <2>3. CASE i = n + 1
    BY <2>3, <1>7, <1>9, <1>11
  <2> QED BY <2>1, <2>2, <2>3
<1>14. CASE Over(r)
  <2>1. status' = "complete" /\ results' = Expected' /\ current' = 0
    BY <1>1, <1>4, <1>6, <1>14 DEF Completes
  <2> HIDE DEF n
  <2>2. \A i \in DOMAIN runs' : Over(runs'[i])
    BY <1>13, <1>14
  <2> QED BY <1>12, <1>13, <2>1, <2>2 DEF RunsSound
<1>15. CASE ~Over(r)
  <2>1. status' = "running" /\ results' = Nothing /\ current' = n + 1 /\ n + 1 # 0 /\ n + 1 \in DOMAIN runs'
    BY <1>1, <1>10, <1>11, <1>15
  <2>2. runs'[n + 1] = r
    BY <1>11, <1>15 DEF new
  <2> HIDE DEF n
  <2>3. Underway(runs'[current'], Visible')
    BY <1>4, <1>6, <1>15, <2>1, <2>2
  <2> QED BY <1>12, <1>13, <2>1, <2>3 DEF RunsSound, Underway
<1> QED
  BY <1>14, <1>15

\* A pause is over.
LEMMA WakesRuns == LoadsSound /\ RunsSound /\ (\E i \in DOMAIN runs : Wakes(i)) => RunsSound'
<1> SUFFICES ASSUME LoadsSound, RunsSound, NEW w \in DOMAIN runs, Wakes(w) PROVE RunsSound'
  OBVIOUS
<1> DEFINE mails == Visible
           r == ReadChunk(runs[w])
           new == IF runs[w].aborted \/ Over(r) THEN EndedRun ELSE r
           n == Len(runs)
<1>1. /\ ~Over(runs[w]) /\ UNCHANGED <<tab, data, filter>>
      /\ runs' = [runs EXCEPT ![w] = new]
      /\ runs[w].aborted => status' = "cancelled" /\ UNCHANGED <<results, current>>
      /\ ~runs[w].aborted => IF Over(r) THEN Completes(r) /\ current' = (IF current = w THEN 0 ELSE current)
                             ELSE UNCHANGED <<status, results, current>>
  BY DEF Wakes, chosen
<1>2. mails \in Seq(ToSet(Items[tab]))
  BY ShownItems DEF LoadsSound
<1>3. Visible' = mails /\ Expected' = Expected /\ Expected = Going(mails)[Len(mails)].facts
  BY <1>1, SameShown DEF Expected
<1> HIDE DEF mails
<1>4. ~runs[w].aborted => w = current /\ current # 0 /\ Underway(runs[w], mails)
  BY <1>1 DEF RunsSound, mails
<1>5. ~runs[w].aborted =>
        /\ RunOf(r, mails)
        /\ IF Over(r) THEN r.facts = Going(mails)[Len(mails)].facts ELSE Underway(r, mails)
  BY <1>2, <1>4, GoesOn
<1> HIDE DEF r
<1>6. DOMAIN new = RunFields /\ new = [x \in RunFields |-> new[x]]
  <2>1. CASE runs[w].aborted \/ Over(r)
    BY <2>1 DEF EndedRun, RunFields
  <2>2. CASE ~(runs[w].aborted \/ Over(r))
    BY <1>5, <2>2 DEF RunOf, RunFields
  <2> QED BY <2>1, <2>2
<1>7. Over(new) <=> runs[w].aborted \/ Over(r)
  BY DEF EndedRun, Over
<1> HIDE DEF new
<1>8. /\ runs \in Seq(ToSet(runs)) /\ n \in Nat /\ DOMAIN runs = 1 .. n
      /\ runs = [i \in 1 .. n |-> runs[i]]
  BY DEF RunsSound
<1>9. DOMAIN runs' = 1 .. n /\ runs'[w] = new /\ \A i \in DOMAIN runs : i # w => runs'[i] = runs[i]
  BY <1>1, <1>8
<1>10. runs' = [i \in 1 .. n |-> runs'[i]]
  BY <1>1, <1>8
<1> HIDE DEF n
<1>11. runs' \in Seq(ToSet(runs')) /\ runs' = [i \in DOMAIN runs' |-> runs'[i]]
  <2> DEFINE S == ToSet(runs')
  <2>1. \A i \in 1 .. n : runs'[i] \in S
    BY <1>9 DEF ToSet
  <2> HIDE DEF S
  <2>2. runs' \in [1 .. n -> S]
    BY <2>1, <1>10
  <2>3. runs' \in Seq(S)
    BY <2>2, <1>8, SequenceOf
  <2> QED BY <2>3, <1>9, <1>10 DEF S
<1>12. \A i \in DOMAIN runs : i # w => Over(runs[i])
  BY <1>1 DEF RunsSound
<1>13. ASSUME NEW i \in DOMAIN runs'
       PROVE  /\ DOMAIN runs'[i] = RunFields /\ runs'[i] = [x \in RunFields |-> runs'[i][x]]
              /\ ~Over(runs'[i]) => i = w /\ ~Over(new)
  <2>1. CASE i = w
    BY <2>1, <1>6, <1>9
  <2>2. CASE i # w
    BY <2>2, <1>8, <1>9, <1>12 DEF RunsSound
  <2> QED BY <2>1, <2>2
<1>14. CASE runs[w].aborted
  <2>1. status' = "cancelled" /\ results' = results /\ current' = current /\ \A i \in DOMAIN runs' : Over(runs'[i])
    BY <1>1, <1>7, <1>13, <1>14
  <2>2. current = 0
    <3> SUFFICES ASSUME current # 0 PROVE FALSE
      OBVIOUS
    <3>1. current \in DOMAIN runs /\ Underway(runs[current], mails)
      BY DEF RunsSound, mails
    <3>2. current = w
      BY <3>1, <1>12 DEF Underway
    <3>3. RunOf(runs[w], mails)
      BY <3>1, <3>2, <1>2, GoesOn
    <3> QED BY <3>3, <1>14 DEF RunOf
  <2>3. results = Nothing
    BY <1>1 DEF RunsSound
  <2> QED BY <1>11, <1>13, <2>1, <2>2, <2>3 DEF RunsSound
<1>15. CASE ~runs[w].aborted /\ Over(r)
  <2>1. status' = "complete" /\ results' = Expected' /\ current' = 0 /\ \A i \in DOMAIN runs' : Over(runs'[i])
    BY <1>1, <1>3, <1>4, <1>5, <1>7, <1>13, <1>15 DEF Completes
  <2> QED BY <1>11, <1>13, <2>1 DEF RunsSound
<1>16. CASE ~runs[w].aborted /\ ~Over(r)
  <2>1. status' = status /\ results' = results /\ current' = current /\ current = w /\ current # 0
    BY <1>1, <1>4, <1>16
  <2>2. runs'[w] = r
    BY <1>9, <1>16 DEF new
  <2>3. Underway(runs'[current'], Visible') /\ current' \in DOMAIN runs'
    BY <1>3, <1>5, <1>8, <1>9, <1>16, <2>1, <2>2
  <2>4. status = "running" /\ results = Nothing
    BY <2>1 DEF RunsSound
  <2> QED BY <1>11, <1>13, <2>1, <2>3, <2>4 DEF RunsSound
<1> QED
  BY <1>14, <1>15, <1>16

LEMMA CancelsRuns == LoadsSound /\ RunsSound /\ CancelsRun => RunsSound'
<1> SUFFICES ASSUME LoadsSound, RunsSound, CancelsRun PROVE RunsSound'
  OBVIOUS
<1>1. /\ current # 0 /\ runs' = [runs EXCEPT ![current].aborted = TRUE] /\ current' = 0
      /\ status' = "cancelled" /\ results' = results /\ status = "running"
  BY DEF CancelsRun
<1>2. results' = Nothing
  BY <1>1 DEF RunsSound
<1> QED
  BY <1>1, <1>2, AbortsCurrent DEF RunsSound

\* The invariant is inductive.
LEMMA BrowserStart == BrowserInit => BrowserSound
<1> SUFFICES ASSUME BrowserInit PROVE BrowserSound
  OBVIOUS
<1>1. runs = <<>> /\ current = 0 /\ status = "idle" /\ results = Nothing
  BY DEF BrowserInit
<1>2. <<>> = [i \in DOMAIN <<>> |-> <<>>[i]] /\ <<>> \in Seq(ToSet(<<>>)) /\ DOMAIN <<>> = {}
  BY DEF ToSet
<1> QED
  BY <1>1, <1>2, LoadsStart DEF BrowserSound, RunsSound

LEMMA BrowserStep == BrowserSound /\ [BrowserNext]_browserVars => BrowserSound'
<1> SUFFICES ASSUME BrowserSound, [BrowserNext]_browserVars PROVE BrowserSound'
  OBVIOUS
<1>1. LoadsSound /\ LoadsSound'
  BY LoadsStep DEF BrowserSound
<1> SUFFICES ASSUME ~raced' PROVE RunsSound'
  BY <1>1 DEF BrowserSound
<1>2. CASE \E t \in Tabs : OpensTab(t)
  BY <1>2, FreshRuns DEF OpensTab
<1>3. CASE BeginsRun
  BY <1>1, <1>3, BeginsRuns DEF BrowserSound
<1>4. ASSUME ~(\E t \in Tabs : OpensTab(t)), ~BeginsRun PROVE ~raced /\ RunsSound
  <2>1. raced' = raced
    <3>1. Resigns => raced' = raced
      BY DEF Resigns, ForgetsRun, run
    <3> QED BY <3>1, <1>4 DEF BrowserNext, ChoosesPersona, LoadAnswers, LoadFails, LoadSettles, Filters, Selects, CancelsRun,
                 Wakes, run, browserVars
  <2> QED BY <2>1 DEF BrowserSound
<1>5. CASE (\E l \in loads : LoadAnswers(l) \/ LoadFails(l)) \/ Filters
  <2>1. Resigns /\ tab' = tab
    BY <1>5 DEF LoadAnswers, LoadFails, LoadSettles, Filters
  <2> QED BY <1>1, <1>2, <1>3, <1>4, <2>1, ResignsRuns
<1>6. CASE (\E who \in Personas : ChoosesPersona(who)) \/ Selects \/ UNCHANGED browserVars
  <2>1. UNCHANGED <<tab, data, filter, run>>
    BY <1>6 DEF ChoosesPersona, Selects, browserVars, chosen
  <2>2. Visible' = Visible /\ Expected' = Expected
    BY <2>1, SameShown
  <2> QED BY <1>2, <1>3, <1>4, <2>1, <2>2 DEF RunsSound, run, Over
<1>7. CASE CancelsRun \/ \E i \in DOMAIN runs : Wakes(i)
  BY <1>1, <1>2, <1>3, <1>4, <1>7, WakesRuns, CancelsRuns
<1> QED
  BY <1>2, <1>3, <1>5, <1>6, <1>7 DEF BrowserNext

\* One of what is shown is selected.
LEMMA ShownSelected ==
  ASSUME LoadsSound, tab # "amazon"
  PROVE  (Selected = {} <=> Visible = <<>>) /\ Selected \subseteq ToSet(Visible)
<1> DEFINE shown == Visible
           S == ToSet(Items[tab])
<1>1. shown \in Seq(S)
  BY ShownItems DEF LoadsSound
<1> HIDE DEF shown, S
<1>2. /\ Len(shown) \in Nat /\ (shown = <<>> <=> Len(shown) = 0) /\ DOMAIN shown = 1 .. Len(shown)
      /\ \A i \in 1 .. Len(shown) : shown[i] \in ToSet(shown)
  <2>1. Len(shown) \in Nat /\ (shown = <<>> <=> Len(shown) = 0) /\ DOMAIN shown = 1 .. Len(shown)
    BY <1>1
  <2> QED BY <2>1 DEF ToSet
<1>3. shown # <<>> => 1 \in 1 .. Len(shown)
  BY <1>2
<1>4. CASE tab = "gmail"
  <2> DEFINE I == {i \in 1 .. Len(shown) : shown[i].id = selected}
             here == SelectInSeq(shown, LAMBDA x : x.id = selected)
  <2>1. here = IF I # {} THEN Min(I) ELSE 0
    BY DEF SelectInSeq
  <2>2. I # {} => here \in I
    <3> SUFFICES ASSUME I # {} PROVE here \in I
      OBVIOUS
    <3>1. I \in SUBSET Nat
      OBVIOUS
    <3> HIDE DEF I
    <3>2. \E n \in I : \A m \in I : n <= m
      BY <3>1, FirstOf
    <3>3. Min(I) \in I
      BY <3>2 DEF Min
    <3> QED BY <2>1, <3>3
  <2>3. Selected = IF here # 0 THEN {shown[here]} ELSE IF shown = <<>> THEN {} ELSE {shown[1]}
    BY <1>4 DEF Selected, SelectedMail, shown
  <2>4. here # 0 => here \in 1 .. Len(shown)
    BY <2>1, <2>2
  <2> HIDE DEF here, I
  <2> QED BY <1>2, <1>3, <2>3, <2>4 DEF shown
<1>5. CASE tab # "gmail"
  <2>1. selected \in Nat \ {0}
    BY <1>5 DEF LoadsSound
  <2>2. Selected = IF shown = <<>> THEN {} ELSE {shown[Smaller(selected, Len(shown))]}
    BY <1>5 DEF Selected, SelectedByIndex, shown
  <2>3. shown # <<>> => Smaller(selected, Len(shown)) \in 1 .. Len(shown)
    BY <1>2, <2>1 DEF Smaller
  <2> QED BY <1>2, <2>2, <2>3 DEF shown
<1> QED
  BY <1>4, <1>5

LEMMA BrowserShows == BrowserSound => BrowserShowsWhatIsChosen
<1> SUFFICES ASSUME BrowserSound PROVE BrowserShowsWhatIsChosen
  OBVIOUS
<1>1. ~loading => data \in {<<>>, Dataset(tab, persona)}
  BY DEF BrowserSound, LoadsSound
<1>2. tab # "amazon" => LET shown == Visible IN (Selected = {} <=> shown = <<>>) /\ Selected \subseteq ToSet(shown)
  BY ShownSelected DEF BrowserSound
<1>3. ASSUME ~raced
      PROVE  /\ status = "complete" => results = Expected
             /\ status # "complete" => results = Nothing
             /\ status = "running" <=> \E i \in DOMAIN runs : ~Over(runs[i]) /\ ~runs[i].aborted
  <2>1. RunsSound
    BY <1>3 DEF BrowserSound
  <2>2. ASSUME current # 0 PROVE current \in DOMAIN runs /\ ~Over(runs[current]) /\ ~runs[current].aborted
    <3>1. current \in DOMAIN runs /\ Underway(runs[current], Visible)
      BY <2>1, <2>2 DEF RunsSound
    <3>2. Visible \in Seq(ToSet(Items[tab]))
      BY ShownItems DEF BrowserSound, LoadsSound
    <3>3. RunOf(runs[current], Visible)
      BY <3>1, <3>2, GoesOn
    <3>4. runs[current].aborted = FALSE
      BY <3>3 DEF RunOf
    <3> QED BY <3>1, <3>4 DEF Underway
  <2>3. \A i \in DOMAIN runs : i # 0
    BY <2>1 DEF RunsSound
  <2> QED BY <2>1, <2>2, <2>3 DEF RunsSound
<1> QED
  BY <1>1, <1>2, <1>3 DEF BrowserShowsWhatIsChosen

\* The browser shows the chosen persona's data and something of it selected, and
\* says that it has extracted from what is shown only when it has: for every
\* number of tabs, items, personas, runs and loads, and every size of a chunk.
THEOREM BrowserIsTrue == BrowserSpec => []BrowserShowsWhatIsChosen
<1> QED
  BY BrowserStart, BrowserStep, BrowserShows, PTL DEF BrowserSpec
=============================================================================
