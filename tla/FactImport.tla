----------------------------- MODULE FactImport -----------------------------
(***************************************************************************)
(* Importing facts from a source and reviewing them (pages/Sources.tsx,     *)
(* lib/fact-review-gate.ts, lib/source-merge.ts): an import extracts facts  *)
(* in workers for as long as it takes, passes some of them at once and      *)
(* queues the rest for review, while the user decides earlier reviews and   *)
(* edits the persona.                                                       *)
(*                                                                         *)
(* A signature stands for a key and a value.  A fact of a persona is kept   *)
(* as the set of its labels: two of them are two facts of one signature.    *)
(* Confidence and evidence are kept as above or below what the gate asks    *)
(* for; there is one persona.  A save that fails is undone by the refresh   *)
(* that follows, or carried out by the next save of what the page shows.    *)
(***************************************************************************)
EXTENDS Naturals, FiniteSets

CONSTANTS
  Signatures,
  Home,        \* those whose key belongs to a persona category
  Guarded,     \* those whose key is dynamic or has a sensitive prefix
  Importers,   \* imports that may be under way at once
  Batches,     \* the sets of facts an extraction may find
  MaxImports,  \* bound: imports that begin
  MaxEdits,    \* bound: facts the user adds or rewrites
  Idle         \* no import

Labels     == {"low", "high"}
Occurrence == [sig : Signatures, label : Labels, sure : BOOLEAN, backed : BOOLEAN]

\* mergeFactCollections leaves one occurrence of a signature.
ASSUME ImportAssumption ==
  /\ Home \subseteq Signatures /\ Guarded \subseteq Signatures
  /\ \A b \in Batches : b \subseteq Occurrence /\ \A o, p \in b : o.sig = p.sig => o = p
  /\ MaxImports \in Nat /\ MaxEdits \in Nat
  /\ Idle \notin [facts : [Signatures -> SUBSET Labels], queue : SUBSET Occurrence]

VARIABLES
  vault,      \* facts of the persona and the review queue, as the page shows them
  importing,  \* the vault each import began with, or that it is idle
  begun, edits,
  accepted,   \* history: reviews the user accepted, until the fact is deleted
  rejected,   \* history: signatures the user rejected, until found again
  byHand,     \* history: signatures the user added, or accepted
  since       \* history: signatures decided since each import began

vars == <<vault, importing, begun, edits, accepted, rejected, byHand, since>>

Vault == [facts : [Signatures -> SUBSET Labels], queue : SUBSET Occurrence]

NoFacts == [s \in Signatures |-> {}]

------------------------------------------------------------------------------
\* Mutant: the label that came last decides.
ChooseLower(labels) == IF "low" \in labels THEN {"low"} ELSE labels

(* source-merge.ts.  Every merge rewrites the whole persona, so that facts   *)
(* of one signature become one, with the stricter label.                     *)
chooseHigherSensitivity(labels) == IF "high" \in labels THEN {"high"} ELSE labels

\* A fact whose key belongs to no category is left out.
generatePersonas(new) == { o \in new : o.sig \in Home }

mergeImportedPersonas(facts, new) ==
  [s \in Signatures |->
    chooseHigherSensitivity(facts[s] \cup { o.label : o \in { n \in generatePersonas(new) : n.sig = s } })]

\* Mutant: the key is not looked at.
RequiresByLabel(o) == o.label = "high" \/ ~o.sure \/ ~o.backed

(* fact-review-gate.ts.                                                      *)
requiresManualConfirmation(o) ==
  o.sig \in Guarded \/ o.label = "high" \/ ~o.sure \/ ~o.backed

AcceptedFacts(batch)  == { o \in batch : ~requiresManualConfirmation(o) }
PendingReviews(batch) == { o \in batch : requiresManualConfirmation(o) }

\* Of two reviews of a fact the surer one stays, then the better backed one,
\* then the one that was there before.
Preferred(new, old) ==
  \/ new.sure /\ ~old.sure
  \/ new.sure = old.sure /\ new.backed /\ ~old.backed

mergePendingFactReviews(queue, new) ==
  { o \in queue : ~\E n \in new : n.sig = o.sig /\ Preferred(n, o) }
    \cup { n \in new : \A o \in queue : o.sig = n.sig => Preferred(n, o) }

------------------------------------------------------------------------------
(* applyGeneralLayerImport: the vault of the render that began the import    *)
(* is the one that is merged and saved.                                      *)
ImportBegins(i) ==
  /\ importing[i] = Idle /\ begun < MaxImports
  /\ importing' = [importing EXCEPT ![i] = vault]
  /\ begun' = begun + 1
  /\ since' = [since EXCEPT ![i] = {}]
  /\ UNCHANGED <<vault, edits, accepted, rejected, byHand>>

Imported(base, batch) ==
  [facts |-> mergeImportedPersonas(base.facts, AcceptedFacts(batch)),
   queue |-> mergePendingFactReviews(base.queue, PendingReviews(batch))]

\* What the user decided since the import began is overwritten, and what is
\* found again is asked again.
ImportSaves(i, batch) ==
  /\ importing[i] # Idle
  /\ vault' = Imported(importing[i], batch)
  /\ importing' = [importing EXCEPT ![i] = Idle]
  /\ accepted' = { r \in accepted : r.sig \notin since[i] }
  /\ rejected' = { s \in rejected : s \notin since[i] /\ \A o \in batch : o.sig # s }
  /\ since' = [j \in Importers |-> IF j = i THEN {} ELSE since[j]]
  /\ UNCHANGED <<begun, edits, byHand>>

\* The extraction or the save fails.
ImportFails(i) ==
  /\ importing[i] # Idle
  /\ importing' = [importing EXCEPT ![i] = Idle]
  /\ since' = [since EXCEPT ![i] = {}]
  /\ UNCHANGED <<vault, begun, edits, accepted, rejected, byHand>>

------------------------------------------------------------------------------
(* resolvePendingReview and the edits of PersonaDetail, which save at once.  *)
NotedAs(s) ==
  since' = [i \in Importers |-> IF importing[i] = Idle THEN {} ELSE since[i] \cup {s}]

\* A review leaves the queue by its id, which stands for the signature.
WithoutReview(queue, r) == { o \in queue : o.sig # r.sig }

Accepts(r) ==
  /\ r \in vault.queue
  /\ vault' = [facts |-> mergeImportedPersonas(vault.facts, {r}), queue |-> WithoutReview(vault.queue, r)]
  /\ accepted' = accepted \cup {[sig |-> r.sig, label |-> r.label]}
  /\ byHand' = byHand \cup {r.sig}
  /\ NotedAs(r.sig)
  /\ UNCHANGED <<importing, begun, edits, rejected>>

Rejects(r) ==
  /\ r \in vault.queue
  /\ vault' = [vault EXCEPT !.queue = WithoutReview(@, r)]
  /\ rejected' = rejected \cup {r.sig}
  /\ NotedAs(r.sig)
  /\ UNCHANGED <<importing, begun, edits, accepted, byHand>>

AddsFact(s, label) ==
  /\ edits < MaxEdits
  /\ vault' = [vault EXCEPT !.facts[s] = @ \cup {label}]
  /\ edits' = edits + 1
  /\ byHand' = byHand \cup {s}
  /\ NotedAs(s)
  /\ UNCHANGED <<importing, begun, accepted, rejected>>

DeletesFact(s, label) ==
  /\ label \in vault.facts[s]
  /\ vault' = [vault EXCEPT !.facts[s] = @ \ {label}]
  /\ accepted' = { r \in accepted : r.sig # s }
  /\ NotedAs(s)
  /\ UNCHANGED <<importing, begun, edits, rejected, byHand>>

\* A new value: another signature with the old label.
EditsFact(s, label, t) ==
  /\ label \in vault.facts[s] /\ t # s /\ edits < MaxEdits
  /\ vault' = [vault EXCEPT !.facts[s] = @ \ {label}, !.facts[t] = @ \cup {label}]
  /\ edits' = edits + 1
  /\ accepted' = { r \in accepted : r.sig # s }
  /\ byHand' = byHand \cup {t}
  /\ since' = [i \in Importers |-> IF importing[i] = Idle THEN {} ELSE since[i] \cup {s, t}]
  /\ UNCHANGED <<importing, begun, rejected>>

DeletesPersona ==
  /\ vault.facts # NoFacts
  /\ vault' = [vault EXCEPT !.facts = NoFacts]
  /\ accepted' = {}
  /\ since' = [i \in Importers |-> IF importing[i] = Idle THEN {} ELSE Signatures]
  /\ UNCHANGED <<importing, begun, edits, rejected, byHand>>

------------------------------------------------------------------------------
Init ==
  /\ vault = [facts |-> NoFacts, queue |-> {}]
  /\ importing = [i \in Importers |-> Idle]
  /\ begun = 0 /\ edits = 0
  /\ accepted = {} /\ rejected = {} /\ byHand = {}
  /\ since = [i \in Importers |-> {}]

\* What the user does meanwhile.
UserDecides ==
  \/ \E r \in vault.queue : Accepts(r) \/ Rejects(r)
  \/ \E s \in Home, l \in Labels : AddsFact(s, l) \/ DeletesFact(s, l) \/ \E t \in Home : EditsFact(s, l, t)
  \/ DeletesPersona

Next ==
  \/ \E i \in Importers : ImportBegins(i) \/ ImportFails(i) \/ \E b \in Batches : ImportSaves(i, b)
  \/ UserDecides

Spec == Init /\ [][Next]_vars

------------------------------------------------------------------------------
OneReviewPerFact(queue) == \A o, p \in queue : o.sig = p.sig => o = p

TypeOK ==
  /\ vault \in Vault /\ OneReviewPerFact(vault.queue)
  /\ importing \in [Importers -> Vault \cup {Idle}]
  /\ \A i \in Importers : importing[i] # Idle => OneReviewPerFact(importing[i].queue)
  /\ begun \in 0 .. MaxImports /\ edits \in 0 .. MaxEdits
  /\ accepted \subseteq [sig : Signatures, label : Labels]
  /\ rejected \subseteq Signatures /\ byHand \subseteq Signatures
  /\ since \in [Importers -> SUBSET Signatures]

\* A fact with a dynamic or sensitive key, or with a high label, is in a persona
\* only if the user accepted or added it, however many imports found it.
OnlyConfirmedFacts ==
  \A s \in Signatures :
    vault.facts[s] # {} /\ (s \in Guarded \/ "high" \in vault.facts[s]) => s \in byHand

\* A decision is undone only by an import that began before it and saved after
\* it: otherwise an accepted fact stays in the persona with a label at least as
\* strict, unless its key belongs to no persona (it is then lost), and a rejected
\* fact does not come back to the queue before an import finds it again.
DecisionsStand ==
  /\ \A r \in accepted : r.sig \in Home =>
       vault.facts[r.sig] # {} /\ (r.label = "high" => "high" \in vault.facts[r.sig])
  /\ \A o \in vault.queue : o.sig \notin rejected
=============================================================================
