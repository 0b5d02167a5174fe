--------------------------- MODULE FactExtraction ---------------------------
(***************************************************************************)
(* From records of text to facts (lib/general-extractor.ts,                 *)
(* lib/atomic-sieve.ts, lib/semantic-*.ts), as operators.                   *)
(*                                                                         *)
(* A sentence is what the patterns make of it: its length, whether it is    *)
(* about the user, asks something or is boilerplate, and the facts the      *)
(* categories' patterns find in it, with the confidence and label of the    *)
(* pattern.  The patterns themselves are the constant Sentences.  A fact    *)
(* stands for a key and a value; confidence is in percent.  The records of  *)
(* an import are of one source type.                                        *)
(***************************************************************************)
EXTENDS Arrays, FiniteSets

CONSTANTS
  Sentences,        \* what the patterns make of the sentences there are
  MinSegment,       \* lengths below which a sentence is not read: by the
  MinSentence,      \*   general extractor, and by the sieve
  MaxPerRecord,     \* DEFAULT_OPTIONS of the sieve
  MaxSentences,
  MaxPerChunk,
  MinPerChunk,
  MaxChunkChars,
  MaxChunks,
  MaxPromptRecords, \* limits of the prompts
  MaxBatchRecords,
  MaxBatchChars,
  PromptOverhead,   \* characters a record costs beside its content
  MaxEvidence       \* quotes kept for one fact

Finding == [fact : STRING, confidence : 0 .. 100, label : {"low", "high"}]

ASSUME ExtractionAssumption ==
  /\ \A s \in Sentences :
       /\ s.length \in Nat /\ {s.personal, s.asks, s.noise} \subseteq BOOLEAN
       /\ s.says \subseteq Finding /\ IsFiniteSet(s.says)
       /\ \A f, g \in s.says : f.fact = g.fact => f = g
  /\ {MinSegment, MinSentence, MaxPerRecord, MaxSentences, MaxChunkChars, MaxChunks,
      MaxBatchChars, PromptOverhead} \subseteq Nat
  /\ {MaxPerChunk, MinPerChunk, MaxPromptRecords, MaxBatchRecords, MaxEvidence} \subseteq Nat \ {0}

Smaller(m, n) == IF m < n THEN m ELSE n

FactsOf(s) == { f.fact : f \in s.says }

\* A text is a sequence of sentences, counted with the space behind each; a
\* record is a text with a name, and an id that begins with the id of the
\* record it was cut from.
LengthOf(text) == Reduce(LAMBDA sum, s : sum + s.length + 1, 0, text)
Ids(records)   == { r.id : r \in ToSet(records) }

\* The items at the positions which, in order.
Kept(items, which) ==
  ReduceIndices(LAMBDA kept, n : IF n \in which THEN Append(kept, items[n]) ELSE kept, <<>>, items)

------------------------------------------------------------------------------
(* base-extractor.ts and general-extractor.ts *)

\* addSourceFact: a fact that is said again is surer, and keeps its label.
addSourceFact(known, f) ==
  IF f.fact \in DOMAIN known
  THEN [known[f.fact] EXCEPT !.confidence = Smaller(95, @ + 10)]
  ELSE [confidence |-> f.confidence, label |-> f.label, quotes |-> {}]

\* extractStableFacts: all categories' patterns on one sentence.
extractStableFacts(known, s) ==
  [ x \in DOMAIN known \cup FactsOf(s) |->
      IF x \in FactsOf(s) THEN addSourceFact(known, CHOOSE f \in s.says : f.fact = x)
                          ELSE known[x] ]

\* A sentence is quoted for the facts it has made new or surer.
captureEvidenceDelta(before, after, quote) ==
  [ x \in DOMAIN after |->
      IF /\ x \in DOMAIN before => after[x].confidence > before[x].confidence
         /\ Cardinality(after[x].quotes) < MaxEvidence
      THEN [after[x] EXCEPT !.quotes = @ \cup {quote}] ELSE after[x] ]

isLikelyStablePreference(s) == s.length >= MinSegment /\ s.personal /\ ~s.asks

extractRecord(known, record) ==
  ReduceIndices(LAMBDA k, i :
      LET s == record.text[i] IN
        IF isLikelyStablePreference(s)
        THEN captureEvidenceDelta(k, extractStableFacts(k, s), [source |-> record.id, text |-> {s}])
        ELSE k,
    known, record.text)

Nothing == [x \in {} |-> 0]

extractGeneralFactsWithEvidence(records) == Reduce(extractRecord, Nothing, records)

Stricter(l, m) == IF "high" \in {l, m} THEN "high" ELSE "low"

\* Mutant: the surer fact brings its label.
MergeByConfidence(old, new) ==
  [ x \in DOMAIN old \cup DOMAIN new |->
      IF x \notin DOMAIN new THEN old[x]
      ELSE IF x \notin DOMAIN old \/ new[x].confidence >= old[x].confidence THEN new[x] ELSE old[x] ]

\* Of two accounts of a fact the surer one stays, the later of two equally
\* sure ones, under the stricter label.
mergeFactCollections(old, new) ==
  [ x \in DOMAIN old \cup DOMAIN new |->
      IF x \notin DOMAIN new THEN old[x]
      ELSE IF x \notin DOMAIN old THEN new[x]
      ELSE [(IF new[x].confidence >= old[x].confidence THEN new[x] ELSE old[x])
              EXCEPT !.label = Stricter(old[x].label, new[x].label)] ]

------------------------------------------------------------------------------
(* atomic-sieve.ts *)

isLikelyNoise(s) == s.noise /\ ~s.personal

\* createRecordSentences.
createRecordSentences(text, budget) ==
  LET limited == SubSeq(text, 1, Smaller(MaxPerRecord, Len(text)))
      kept    == Kept(limited, { n \in DOMAIN limited :
                   limited[n].length >= MinSentence /\ ~isLikelyNoise(limited[n]) })
  IN  SubSeq(kept, 1, Smaller(budget, Len(kept)))

\* Items in order, in groups that are closed when the next item is one too many
\* or makes them too large; an item that is too large has a group of its own.
Joins(acc, x, size, gap, most, widest) ==
  IF acc.now # <<>> /\ (Len(acc.now) >= most \/ acc.size + gap + size > widest)
  THEN [done |-> Append(acc.done, acc.now), now |-> <<x>>, size |-> size]
  ELSE [acc EXCEPT !.now = Append(@, x), !.size = @ + size + (IF acc.now = <<>> THEN 0 ELSE gap)]

Grouped(items, sizes, gap, most, widest) ==
  LET end == ReduceIndices(LAMBDA acc, n : Joins(acc, items[n], sizes[n], gap, most, widest),
               [done |-> <<>>, now |-> <<>>, size |-> 0], items)
  IN  IF end.now = <<>> THEN end.done ELSE Append(end.done, end.now)

\* A last group that is small joins the one before it, whatever their size.
mergeTrailingSmallChunk(groups) ==
  IF Len(groups) < 2 \/ Len(Last(groups)) >= MinPerChunk THEN groups
  ELSE Append(SubSeq(groups, 1, Len(groups) - 2), groups[Len(groups) - 1] \o Last(groups))

toChunksForRecord(record, kept, count) ==
  LET groups == mergeTrailingSmallChunk(Grouped(
                    kept, [n \in DOMAIN kept |-> kept[n].length], 1, MaxPerChunk, MaxChunkChars))
  IN  [ i \in 1 .. Len(groups) |-> [id |-> record.id \o <<"chunk", count + i>>, name |-> record.name, text |-> groups[i]] ]

\* The budgets hold for all records together; reading stops when one is used up.
runAtomicSieve(records) ==
  Reduce(LAMBDA acc, record :
      LET kept   == createRecordSentences(record.text, MaxSentences - acc.retained)
          chunks == acc.chunks \o toChunksForRecord(record, kept, Len(acc.chunks))
      IN  IF record.text = <<>> \/ acc.retained >= MaxSentences \/ Len(acc.chunks) >= MaxChunks THEN acc
          ELSE [retained |-> acc.retained + Len(kept),
                chunks   |-> SubSeq(chunks, 1, Smaller(MaxChunks, Len(chunks)))],
    [retained |-> 0, chunks |-> <<>>], records).chunks

\* Sources.tsx.
toSemanticInputRecords(records) ==
  IF runAtomicSieve(records) = <<>> THEN records ELSE runAtomicSieve(records)

------------------------------------------------------------------------------
(* semantic-webgpu-adapter.webllm.ts: prompts *)

\* The sentences that fit in whole: half a sentence says nothing.
Cut(text, limit) ==
  LET fits == { n \in 0 .. Len(text) : LengthOf(SubSeq(text, 1, n)) <= limit + 1 }
  IN  SubSeq(text, 1, CHOOSE n \in fits : \A m \in fits : m <= n)

toPromptRecords(records, limit) ==
  [ i \in 1 .. Smaller(MaxPromptRecords, Len(records)) |->
      [records[i] EXCEPT !.text = Cut(@, limit)] ]

promptRecordSize(record) == PromptOverhead + LengthOf(record.text)

partitionPromptRecords(records) ==
  Grouped(records, [n \in DOMAIN records |-> promptRecordSize(records[n])], 0, MaxBatchRecords, MaxBatchChars)

------------------------------------------------------------------------------
(* semantic-contracts.ts, semantic-webgpu-adapter.ts, the guardrails.  A quote is   *)
(* the set of sentences it occurs in, so that an invented one is empty.             *)

Says(fact) == { s \in Sentences : fact \in FactsOf(s) }

sourceContainsEvidence(text, quote) == ToSet(text) \cap quote # {}

TextOf(records, id) ==
  LET named == { r \in ToSet(records) : r.id = id }
  IN  IF named = {} THEN <<>> ELSE (CHOOSE r \in named : TRUE).text

\* A source the model does not name by its id is looked up by its name, and a
\* quote that is not in it is replaced by the value, if that is.
normalizeRawCandidateForValidation(c, records) ==
  LET named == SelectInSeq(records, LAMBDA r : r.name = c.name)
      id    == IF c.source \in Ids(records) \/ named = 0 THEN c.source ELSE records[named].id
      text  == TextOf(records, id)
  IN  [c EXCEPT !.source = id,
                !.quote  = IF ~sourceContainsEvidence(text, @) /\ sourceContainsEvidence(text, Says(c.fact))
                           THEN Says(c.fact) ELSE @]

\* Mutant: that the source is known is enough.
ValidIfSourceKnown(c, text) == c.wellFormed /\ text # <<>>

validateSemanticContract(c, text) == c.wellFormed /\ sourceContainsEvidence(text, c.quote)

Admitted(contracts, records) ==
  Kept(contracts, { n \in DOMAIN contracts :
    validateSemanticContract(contracts[n], TextOf(records, contracts[n].source)) /\ contracts[n].current })

\* runWebGpuSemanticAdapter: what is left of the answers of the model.
acceptedContracts(answers, records) ==
  Admitted([ n \in 1 .. Len(answers) |-> normalizeRawCandidateForValidation(answers[n], records) ], records)

\* contractToFact and dedupeFacts: the surer of two accounts stays, the later
\* of two equally sure ones, with its own label and both quotes.
dedupeFacts(known, c) ==
  LET old == IF c.fact \in DOMAIN known THEN known[c.fact] ELSE [confidence |-> 0, quotes |-> {}]
      new == [confidence |-> c.confidence, label |-> c.label,
              quotes |-> old.quotes \cup {[source |-> c.source, text |-> c.quote]}]
  IN  [ x \in DOMAIN known \cup {c.fact} |->
          IF x # c.fact THEN known[x]
          ELSE IF new.confidence >= old.confidence THEN new ELSE [old EXCEPT !.quotes = new.quotes] ]

applySemanticJsonGuardrails(contracts, records) ==
  Reduce(dedupeFacts, Nothing, Admitted(contracts, records))

\* buildCandidateRecords: each sentence about the user with its neighbours,
\* under an id of its own.
CandidatesOf(r, before) ==
  ReduceIndices(LAMBDA more, i :
      IF ~r.text[i].personal \/ r.text[i].asks THEN more
      ELSE Append(more, [id |-> r.id \o <<"sem", i>>, name |-> r.name,
                         text |-> SubSeq(r.text, IF i = 1 THEN 1 ELSE i - 1, Smaller(i + 1, Len(r.text)))]),
    before, r.text)

CandidateRecords(records) == Reduce(LAMBDA before, r : CandidatesOf(r, before), <<>>, records)

\* The engine's extractCandidate: the patterns on one of these.
SaidIn(known, r) == Reduce(extractStableFacts, known, r.text)

\* A fact is quoted from the candidate that made it new.
FirstToSay(x, candidates) ==
  candidates[SelectInSeq(candidates, LAMBDA r : Says(x) \cap ToSet(r.text) # {})]

extractSemanticFacts(records) ==
  LET candidates == CandidateRecords(records)
      said       == Reduce(SaidIn, Nothing, candidates)
      First(x)   == FirstToSay(x, candidates)
  IN  SetToSeq({ [source |-> First(x).id, name |-> First(x).name, quote |-> ToSet(First(x).text), fact |-> x,
                  confidence |-> said[x].confidence, label |-> said[x].label,
                  wellFormed |-> TRUE, current |-> TRUE] : x \in DOMAIN said })
=============================================================================
