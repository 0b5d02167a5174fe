---------------------------- MODULE SourcesPage -----------------------------
(***************************************************************************)
(* What happens between the beginning and the save of an import             *)
(* (pages/Sources.tsx, workers/*, lib/semantic-*.ts), composed with         *)
(* FactImport: the page finds facts itself, and a worker cuts the records   *)
(* into chunks, a second one loads a language model, shows it the chunks in *)
(* batches and shortens them when a prompt is too long.  The model may      *)
(* answer anything.  Each worker may fail or hang, and has a timer.  The    *)
(* metrics and the progress of the download, which are only shown, are left *)
(* out.                                                                     *)
(***************************************************************************)
EXTENDS FactImport, FactExtraction

CONSTANTS
  Uploads,        \* the records of each source; a source has one import at a time
  Replied,        \* the sequences of contracts the model may answer a prompt with
  ContentLimits,  \* lengths to which the prompts cut a record, one after the other
  SureFrom        \* LOW_CONFIDENCE_THRESHOLD

\* What the model may say: the validation refuses a contract whose fields are
\* missing or of another kind, and clamps the confidence.
IsContract(c) ==
  /\ c \in [source : {c.source}, name : {c.name}, quote : SUBSET Sentences, fact : {c.fact},
            confidence : {c.confidence}, label : {c.label}, wellFormed : BOOLEAN, current : BOOLEAN]
  /\ c.wellFormed => c.fact \in Signatures /\ c.confidence \in 0 .. 100 /\ c.label \in Labels

ASSUME PageAssumption ==
  /\ ContentLimits \in Seq(Nat) \ {<<>>} /\ SureFrom \in Nat
  /\ \A s \in Sentences : FactsOf(s) \subseteq Signatures
  /\ \A i \in Importers :
       /\ Uploads[i] \in Seq(ToSet(Uploads[i]))
       /\ \A r \in ToSet(Uploads[i]) : r \in [id : {r.id}, name : {r.name}, text : Seq(Sentences)]
  /\ \A a \in Replied : a \in Seq(ToSet(a)) /\ \A c \in ToSet(a) : IsContract(c)

VARIABLES
  rollout,  \* what is done with the answers of the model; no page changes it
  work      \* the workers of each import

pageVars == <<vars, rollout, work>>

NoWork == [stage |-> "none"]

(* The work: the facts the page finds at once, the records the model is asked *)
(* about, the attempt and the batch it has reached, what it has answered in   *)
(* this attempt, the ids it has been shown, and the facts taken from its      *)
(* answers.                                                                   *)
NewWork(upload) ==
  [stage |-> IF rollout = "off" THEN "extracted" ELSE "sieving",
   baseline |-> extractGeneralFactsWithEvidence(upload),
   input |-> upload, attempt |-> 1, batch |-> 1,
   answers |-> <<>>, shown |-> <<>>, answered |-> FALSE, found |-> Nothing]

Goes(i, next) == work' = [work EXCEPT ![i] = next] /\ UNCHANGED <<vars, rollout>>

BatchesOf(j) ==
  partitionPromptRecords(toPromptRecords(j.input, ContentLimits[j.attempt]))

------------------------------------------------------------------------------
Starts(i) ==
  /\ ImportBegins(i)
  /\ work' = [work EXCEPT ![i] = NewWork(Uploads[i])]
  /\ UNCHANGED rollout

SieveAnswers(i) ==
  /\ work[i].stage = "sieving"
  /\ Goes(i, [work[i] EXCEPT !.stage = "loading", !.input = toSemanticInputRecords(@)])

\* The sieve fails, or its timer fires: the records are used as they are.
SieveFails(i) ==
  /\ work[i].stage = "sieving"
  /\ Goes(i, [work[i] EXCEPT !.stage = "loading"])

\* What has led to it is forgotten.
Extracted(j, found) ==
  [j EXCEPT !.stage = "extracted", !.found = found, !.attempt = 1, !.batch = 1, !.answers = <<>>]

\* runWebGpuSemanticAdapter returns what the model has answered, the worker
\* passes it through the guardrails.
Returns(j) ==
  Extracted([j EXCEPT !.answered = TRUE],
    applySemanticJsonGuardrails(acceptedContracts(j.answers, j.input), j.input))

EngineReady(i) ==
  /\ work[i].stage = "loading"
  /\ Goes(i, IF work[i].input = <<>> THEN Returns(work[i]) ELSE [work[i] EXCEPT !.stage = "asking"])

\* The model is switched off, there is no GPU, the engine or a prompt fails: the
\* worker uses the patterns, and passes what they find through the guardrails,
\* which know none of their sources.
Fallback(j) ==
  Extracted(j, applySemanticJsonGuardrails(extractSemanticFacts(j.input), j.input))

FallsBack(i) ==
  /\ work[i].stage \in {"loading", "asking", "recovering"}
  /\ Goes(i, Fallback(work[i]))

\* An empty answer is asked again once, with another system prompt.
Replies(i, answer) ==
  LET j     == work[i]
      next  == [j EXCEPT !.stage = "asking", !.batch = @ + 1, !.answers = @ \o answer,
                         !.shown = @ \o [n \in DOMAIN BatchesOf(j)[j.batch] |-> BatchesOf(j)[j.batch][n].id]]
  IN  /\ j.stage \in {"asking", "recovering"}
      /\ Goes(i, IF answer = <<>> /\ j.stage = "asking" THEN [j EXCEPT !.stage = "recovering"]
                 ELSE IF next.batch > Len(BatchesOf(j)) THEN Returns(next) ELSE next)

\* Mutant: what an attempt has been answered is kept for the next.
NextAttemptKeeps(j) == [j EXCEPT !.stage = "asking", !.attempt = @ + 1, !.batch = 1]

\* A shorter attempt starts from nothing.
NextAttempt(j) ==
  [j EXCEPT !.stage = "asking", !.attempt = @ + 1, !.batch = 1, !.answers = <<>>, !.shown = <<>>]

Overflows(i) ==
  /\ work[i].stage \in {"asking", "recovering"}
  /\ Goes(i, IF work[i].attempt = Len(ContentLimits) THEN Fallback(work[i]) ELSE NextAttempt(work[i]))

\* Mutant: the timer is set when the model is loaded.
TimerOfPrompts(i) ==
  /\ work[i].stage \in {"asking", "recovering"}
  /\ Goes(i, Extracted(work[i], Nothing))

\* The worker fails, or its timer fires: there is nothing but the baseline.
WorkerTimesOut(i) ==
  /\ work[i].stage \in {"loading", "asking", "recovering"}
  /\ Goes(i, Extracted(work[i], Nothing))

------------------------------------------------------------------------------
\* The facts of an import, and what FactImport tells of them.
generalFacts(j) ==
  IF rollout = "merge" /\ j.found # Nothing THEN mergeFactCollections(j.baseline, j.found) ELSE j.baseline

Batch(facts) ==
  { [sig |-> x, label |-> facts[x].label,
     sure |-> facts[x].confidence >= SureFrom, backed |-> facts[x].quotes # {}] : x \in DOMAIN facts }

Saves(i) ==
  /\ work[i].stage = "extracted"
  /\ work' = [work EXCEPT ![i] = NoWork] /\ UNCHANGED rollout
  /\ ImportSaves(i, Batch(generalFacts(work[i])))

SaveFails(i) ==
  /\ work[i].stage = "extracted"
  /\ work' = [work EXCEPT ![i] = NoWork] /\ UNCHANGED rollout
  /\ ImportFails(i)

PageInit ==
  /\ Init
  /\ rollout \in {"off", "shadow", "merge"}
  /\ work = [i \in Importers |-> NoWork]

PageNext ==
  \/ \E i \in Importers :
       \/ Starts(i)
       \/ SieveAnswers(i) \/ SieveFails(i)
       \/ EngineReady(i) \/ FallsBack(i) \/ WorkerTimesOut(i)
       \/ \E a \in Replied : Replies(i, a)
       \/ Overflows(i)
       \/ Saves(i) \/ SaveFails(i)
  \/ UserDecides /\ UNCHANGED <<rollout, work>>

\* The timers fire, and a save is stored or fails; nothing else need happen.
Fairness ==
  \A i \in Importers : WF_pageVars(SieveFails(i) \/ WorkerTimesOut(i) \/ Saves(i) \/ SaveFails(i))

PageSpec == PageInit /\ [][PageNext]_pageVars /\ Fairness

------------------------------------------------------------------------------
Done(i) == work[i].stage = "extracted"

\* Whatever the model answers, each fact taken from it is quoted from a text the
\* model was given, and each fact the page finds from a statement of the user
\* that says it.
EveryFactIsQuoted ==
  \A i \in Importers : Done(i) =>
    LET j == work[i] IN
      /\ \A x \in DOMAIN j.found : j.found[x].quotes # {} /\ \A q \in j.found[x].quotes :
           sourceContainsEvidence(TextOf(j.input, q.source), q.text)
      /\ \A x \in DOMAIN j.baseline : j.baseline[x].quotes # {} /\ \A q \in j.baseline[x].quotes :
           \E r \in ToSet(Uploads[i]) : r.id = q.source /\ \E s \in ToSet(r.text) :
             s \in q.text /\ x \in FactsOf(s) /\ ~s.asks

\* The answers of the model take no fact from what the page finds itself, make
\* none less sure and weaken no label.
BaselineSurvives ==
  \A i \in Importers : Done(i) =>
    LET base == work[i].baseline
        all  == generalFacts(work[i])
    IN  \A x \in DOMAIN base :
          /\ x \in DOMAIN all /\ all[x].confidence >= base[x].confidence
          /\ base[x].label = "high" => all[x].label = "high"

\* The answers that are used are those of one attempt, in which each of the
\* first records was shown once and in order.
PromptsCoverRecords ==
  \A i \in Importers : Done(i) /\ work[i].answered =>
    work[i].shown = [n \in 1 .. Smaller(MaxPromptRecords, Len(work[i].input)) |-> work[i].input[n].id]

\* Every import ends, however often the workers hang.
EveryImportEnds == \A i \in Importers : importing[i] # Idle ~> importing[i] = Idle
=============================================================================
