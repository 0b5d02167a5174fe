# Personafy in TLA+

Personafy keeps a user's facts in one vault file and lets AI agents ask for
some of them.  This directory models the parts of the repository where order,
staleness, failure or a boundary decides whether that is safe: the agent
plugin and its approval protocol, the dashboard's vault store, the servers that
write the file, cloud sync, pairing and backup, the OpenClaw extension, and the
ways facts get into a vault (setup, package import, extraction, review).  TLC
checks small instances (`MC*.cfg`), TLAPS checks the theorems of the
`*Proofs.tla` modules, and `PROJECT.json` lists every run, theorem and hazard,
and the source lines behind every definition.

Paths below are relative to `src/`, and to `src/apps/web/src/` where they begin
with `lib/`, `pages/` or `App.tsx`.

## 1. The system

| Part | State it keeps | Operations | Hard behaviour | What makes it correct |
|---|---|---|---|---|
| **A. Agent plugin** `packages/openclaw-plugin` | none between calls; the vault file (posture, personas, rules, approval queue, audit log) | `personafy_request_context` (new request, approve, deny), `personafy_create_rule`, `/personafy` | reads the file, writes all of it back; other programs write in between; dies between write and answer; 15-minute deadline | releases only what posture, persona and rules permit, or exactly what the user approved; once; on the audit log |
| **B. Dashboard** `lib/VaultProvider.tsx`, `pages/` | a copy of the vault, a save queue, epochs, refresh marks | refresh, save, lock, unlock; the pages' read-modify-save handlers | late answers, failed PUTs, several saves queued, handlers that await before they save | what is shown is the newest save or what the file holds |
| **C. Vault servers** `apps/desktop/electron/vault-server.ts`, `apps/web/vite.config.ts` | the file on disk, plain or encrypted | GET, PUT, force-create | check, key derivation and rename are separate steps of overlapping requests | an encrypted vault stays encrypted; who saved a vault can open it |
| **D. Cloud sync** `lib/cloudSync.ts`, `api/sync`, `supabaseProvider.ts` | cached version per device; one versioned row per user | push, init, pull | optimistic locking over several database requests, repeated when an answer is lost | no push replaces a vault its device did not know of |
| **E. Pairing** `api/pair`, `pages/Devices.tsx` | pairing codes, devices and their tokens; the vault's entries | start, claim, status, revoke | check then insert then update; expiry by id; a poll answered for another dialog | one code connects one device, the one that claimed it |
| **F. Cloud backup** `lib/cloudBackup.ts`, `api/cloud-backup` | multipart upload, progress | upload, cancel, restore | parallel workers, retries, cancellation, abort | a snapshot is whole, a report is true, every upload ends |
| **G. OpenClaw extension** `extensions/personafy` | in-memory vault, queue, rules, audit; the demo's sessions | gateway methods, tools, timed maintenance, save on stop; the demo's calls and scenarios | saves are rare, resolving ignores the deadline, a crash tears the file; a scenario starts from whatever its visitor has left | grants in time; nothing decided is forgotten; the demo shows what it says |
| **H. Import and review** `pages/Sources.tsx`, `lib/fact-review-gate.ts`, `lib/source-merge.ts` | the review queue | import, accept, reject, edit | imports that run for minutes and save the vault they began with | nothing sensitive enters a persona unasked; decisions stand |
| **I. Extraction** `lib/general-extractor.ts`, `atomic-sieve.ts`, `semantic-*.ts`, `workers/` | the work of two workers | extract, sieve, prompt, validate, fall back | a language model that may answer anything, overflow or hang | a fact taken from the model is quoted from the records |
| **J. Setup** `App.tsx`, `pages/QuickStart.tsx`, `QuickPersonalize.tsx`, `Import.tsx` | the application state, a form, a browser mark | answer, import, create the vault | creations and imports outlive the page they were started from; reloads | a setup ends with the vault that was confirmed |
| **K. Package and upload readers** `lib/import/`, `lib/upload-anything.ts` | none | recognise, unpack, parse, chunk | nested archives and their limits, quoting, overlapping conditions | within the limits, as exported, accounted for |
| **L. Data browser** `pages/DataBrowser.tsx`, `pages/browse/` | tab, filters, selection, a run over mails | load, filter, select, extract | loads and runs that end after the choice has changed | what is shown is what is chosen |
| **M.** Hydration state, rendering, telemetry, desktop shell | none of the vault's | – | – | – |

How they interact: A, B (through C) and, where it is installed, G all change
a vault.  A is synchronous, so its calls never overlap each other, but its read
and its write are two steps to B.  B's pages edit an in-memory copy and send the
whole vault.  Every save of B is followed by a push of D; pulls come back
through B's save queue.  E and F use the cloud API of D and are reached from B's
pages.  H and J save through B what I and K have read; L only shows it.

## 2. The modules

Each module says in its header what it leaves out.  A `Mutant:` comment marks a
plausible bug kept beside the definition it changes; no specification uses it.

### DisclosurePolicy and DisclosureCall

`lib.ts` as operators: `normalizeFactKey`, `fieldMatchesPattern`,
`findMatchingPersona`, `matchFacts` (filter, canonical keys, first of duplicates
wins), `checkAutoAllow` (posture, persona setting, rules, in the code's order of
early returns) and `Decide`, the branch `personafy_request_context` takes.  A
key is the sequence of its dot-separated parts; labels outside low, medium and
high count as medium, as in the code, and are the member `"unlabelled"`.  A
selector's fuzzy match on persona names is the constant relation `Selects`.
`DisclosureCall` is one call: a vault is loaded, `Ask` decides a request on it.
Its properties are stated from the postures, not from `checkAutoAllow`.

### ApprovalFlow (extends DisclosurePolicy)

One vault file, the plugin, and dashboard tabs.

| Code | Model |
|---|---|
| one tool call: `loadVault`, decide, `saveVault` | `RequestAutoAllowed`, `RequestAsks`, `AgentApproves`, `AgentDenies`, `AgentCreatesRule` compute `work` from `file`; `PluginSaves` writes it; `PluginReplies` returns `reply`; `PluginCrashes` loses both |
| `pendingApprovals` clean-up at every call | `LivePending` |
| a page handler: edits `vault`, calls `save` | `ApprovesOnDetailPage`, `DeniesOnDetailPage`, `CreatesRuleFromApproval`, `CreatesRule`, `UpdatesRule`, `TogglesRule`, `DeletesRules`, `ChangesPosture`, `EditsPersona`, `CreatesPersona`, `DeletesPersona`, `ClearsAuditLog`, `DestroysVault`, `ImportsVault`, all through `TabSaves` |
| the PUT of a queued save | `PutArrives`, `PutFails` |
| `refresh` | `TabRefreshes` (its interleavings are VaultProvider's subject) |

`asked` and `released` record challenges and releases.  The file has no
locking, so a write can undo one its writer never saw; `fresh` and `intact`
record whether that has happened yet, or the user erased log or vault.
Properties that cannot survive a lost update are stated under `intact`;
`Provenance` and `ReleasedAsShown` are not.

### LocalFirst and VaultProvider

`LocalFirst` says what the dashboard promises about the vault it shows: an edit
shows at once, edits reach the file one at a time in order, while one is on its
way the newest is shown, and afterwards only contents the file has had since.
`VaultProvider` is `VaultProvider.tsx`: `saveQueueRef`/`pendingSavesRef`
(`queue`, `sending`), `saveEpochRef` (`epoch`), the request in flight and its
epoch, `refreshNeededRef`, the 500 ms retry, lock and unlock, the mount, interval
and visibility refreshes (`Refreshes`), and the import that saves what it
captured before awaiting its workers.  The content of a vault is the set of
edits it holds.  The server and other writers of the file are external.

### VaultServer

The file, the handlers of the desktop or the development server, and the plugin.
A PUT is `Saves` or `SetsUp` (force-create), `PutReads` (the check of what is
there), `PutRenames`; `PutFailsRead`, `PutFails` and `ServerCrashes` are its ways
to fail.  `PluginLoads` and `PluginSaves` encrypt only if the file was encrypted
when it was loaded.  `basis` is the vault a write was computed from; only a write
computed from the vault it replaces can promise anything about it.

### CloudSync

Devices of one user.  `Saves` queues a push; `Enables` queues one and starts
`cloudInit` beside it; `Pulls` starts `cloudPull`; `PushesAgain` is the settings
page's button.  A push is a sequence of database requests (`check`, `insert`;
or `patch`, `lookup`; and `ask`, the client's own look at the row), each one
atomic step.  A database request that was carried out but not answered is
repeated by `supabaseRest`: the step leaves the stage unchanged and will be
taken again.  `PushFails` and `ManualFails` are a handler that answers 500 or an
answer that never reaches the device.  `cached` is the version in
localStorage, read when a push starts and written when a push, init or pull
settles, whichever is last.  A push never retries by itself.  The history
`basis` is the row the cached version was taken from, `warned` says it came from
a refused push, and `restarted` that an init has overwritten a row.

Assumption on the database: one row per owner, so that a second INSERT fails.
The repository holds no schema; the provider's "fallback to insert if user row
does not exist" relies on it, and so do `InsertsRow` and `InitCreates`.
Encryption and sign-in fail before any request is sent and are left out.

### Pairing

The two tables behind `api/pair`, the agents that claim a code, the handlers of
the Devices page, and the plugin's `/personafy pair`.  An API handler is a
sequence of database requests that overlap with those of others; a page handler
captures the vault and the dialog of its render, awaits, and saves what it
captured.  `failures` records what excuses an orphaned device.

### CloudBackup

An upload is requested, initialised, cut into parts that workers put with
retries, and completed or aborted; `Progress` is everything the browser and the
store do by themselves, and the user may cancel, switch off, reload, dismiss and
restore.  Everything between two awaits is one step.  A request is served when
the store gets to it, perhaps after the page stopped waiting (`requests`);
`lostAborts` are the aborts the store did not carry out.

### ContextEngine

The extension's vault in memory, changed by tools, gateway methods and HTTP
routes (`Calls`), the file that is read at the start and written by maintenance
and by `stop` (`Service`), and the clock.  A `writeFile` in progress can be torn
by a crash; two can overlap.  `lossy` records a crash, a failed or overlapping
save, or a change made while the last save was under way; `neglected` a start
that failed before it set the maintenance timer.

`DemoSessions` (extends ContextEngine) is `/personafy/demo`: a vault per visitor
(`sessions`, `getOrCreateSession`), the engine's calls on it (`Executes...`), and
the five scenarios, sequences of steps that are performed on a copy of it
(`Performed`, `runDemoScenario`).  What a step's highlight says is its `claim`.
A visitor who changes the posture or the rules is `changed`: nobody promises what
a scenario then shows.  What he asks for, resolves or runs must make no
difference.

### FactImport, FactExtraction, SourcesPage

`FactImport` is an import as far as vault and review queue go: it captures the
vault, extracts for as long as it takes, and saves the merge; meanwhile the user
decides reviews and edits the persona.  `FactExtraction` is the extraction as
operators: the page's own extractor, the sieve, the cutting and batching of
prompts, the validation of contracts and quotes, the guardrails and the fallback
on patterns.  A sentence is what the patterns make of it.  `SourcesPage` composes
the two: each import has its `work`, which goes through the sieve worker, the
loading of the model (`Starts`), its batches and attempts, and the timers, and
hands `FactImport` the facts it ends with.  `Replied` is what the model may say:
any contract at all in shape (`IsContract`), since `validateSemanticContract`
refuses what lacks a field and clamps the confidence.

### DataBrowser (extends FactExtraction)

A tab per source with one persona's items, the filters, the selection, the facts
in what is selected, and the mail tab's run over all shown mails, a chunk at a
time (`BeginsRun`, `Wakes`, `CancelsRun`).  A tab sorts what it shows; sorting is
stable, so a source's items are put in order once (`Listed`) and what is loaded
and passes the filters is shown in that order.

### Arrays, ImportPackage, ExportParsers, NotionExport, ConversationExports, TextReaders, UploadAnything

Pure readers as operators.  `ImportPackage`: archives in archives, the budget of
entries, bytes and depth, unsafe paths, and the choice of an adapter.
`ExportParsers`: mail boxes, tables, orders and calendars; `NotionExport`: pages
with their metadata, databases and headings; `ConversationExports`: the messages
of ChatGPT and Claude, in every form the two adapters know, and what the app
takes from them.  Ids are strings there, as in the code, so that an id that is
made up (`msg-2`, `a-3`) can be one that another message carries.  Each comes
with what an export of it looks like, so that reading can be compared with what
was written.  `TextReaders`: what the upload reads from the bytes of one file, by
its extension (`extractTextFromExtension`); a word or a sign counts as one
character, entities and escapes are left out, and what `JSON.parse` and unzipping
give is external.  Each limit of the code is a constant.  `UploadAnything`: any
files, opened as archives or read by their extension, cut into records.  `Arrays`
holds the array methods they are written with.

### QuickStart and SetupFlow

`QuickStart` is the questionnaire: its buttons as operators on a form
(`FormSteps`), and what answers become.  `SetupFlow` is the rest: the routes
before and after setup (`Route`), the import with its worker, timer and fallback
(`PicksFile` to `ShowsResult`), and the creation of the vault, which fetches,
sends and, much later, sets the browser's mark (`handleVaultCreated`, `Fetches`,
`Lands`, `Finishes`).  A creation or import goes on when its page is left; a
reload keeps the address, the mark, and what is on its way to the server
(`Reloads`).  A picked file comes with what parsing it comes to; `MCSetup`
assumes of its files that this is what `ImportPackage` says, and TLC evaluates
the assumption.

## 3. The runs

| Run | Question | Bounds, and why they are enough |
|---|---|---|
| `policy` | is a decision permitted, about what was asked, and no harder for less? | all postures, visibilities and persona settings; up to two facts of three keys, one a legacy spelling of another, labels that may disagree; five field lists (none, exact, wildcard, legacy, parent); one rule over every label, scope and expiry before, at and after now. Every branch of `checkAutoAllow` looks at one rule and one request; a second persona makes the choice of a persona real; 283 thousand states |
| `approval` | consent to what was shown, once, on the log | two ids and two releases let one approval be used twice and two requests coexist; two dashboard saves let one queue behind another; crashes and failed PUTs; the clock moves from before the deadline to the deadline, and rules expire; 2.2 million states |
| `dashboard_deny` (violation) | see findings | the same instance |
| `vault_provider` | does the store implement `LocalFirst`, and converge? | two saves (one in flight, one queued), one outside write, two failures, two locks or unlocks: a late answer can be from before, between and after the saves, under a wrong, right or absent passphrase; 752 thousand states |
| `vault_server` | do overlapping writes keep a vault encrypted and readable? | two requests, two passphrases, both servers, three edits, two failures; 441 thousand states |
| `cloud_sync` | are versions a safe precondition, and does every vault get through? | two devices, one edit, two switches, one pull, one lost request or answer: enabling, editing and pushing again give up to five pushes, so versions are reached, lost and conflicted on by both devices; 880 thousand states |
| `cloud_conflict` (violation) | see findings | the same instance |
| `pairing` | does one code connect one device? | two claims, two page handlers, two codes, two devices, three requests by the user, one failure; 3.2 million states |
| `context_engine` | are grants in time, and is nothing forgotten? | one agent, two fields, two ids, one failure, two starts; time to 4 with an interval of 2, a request that lives 1 and a rule 3, so that deadlines fall before, on and after a maintenance. In behaviours of its own the demo, with two visitors for one place, so that whoever comes second takes it from the first; 3.7 million states |
| `cloud_backup` | are snapshots whole and reports true, is nothing left behind, does every backup end? | three parts, the last short, two workers, two attempts, two backups, one restore; 845 thousand states |
| `fact_import` | what may a model and two imports do to the facts? | two imports, one hand edit; one upload the sieve cuts into two chunks in two batches, with two prompt lengths, and one it makes nothing of; a model that answers nothing or a mixture of true, wrong, unquoted and past facts. `Batches` is empty because extraction itself produces them. In behaviours of its own the browser, with three mails, two runs and two loads; 636 thousand states |
| `setup` | does a setup end with its vault, and are files read as exported? | a quick form of two choices and a long one of a multiple choice and a text; two creations; an encrypted vault with the same or another passphrase, or none; one failure. Beside it, as initial states, about 110 thousand packages, exports and uploads of up to two entries or a few characters: pages of up to six lines of metadata; conversations of up to two messages in 25 forms of ChatGPT and 34 of Claude, and of three whose ids collide (`a`, `a-3`, `a`); for each reader of an upload the short marked texts of its signs, and texts at each of its limits and one beyond; 2.0 million states |

Type correctness of most modules is proved rather than run.  `CHECK_DEADLOCK
FALSE` everywhere: with every bound used up and nothing under way a user, an
agent and a server really have nothing to do.

Fairness.

- `Converges` (VaultProvider): the interval keeps firing while the tab is
  visible, a set timer fires, queued saves are sent and every request is answered
  or fails.  Nobody has to edit, lock, unlock or write; failures are bounded
  because a server that never answers shows nothing to converge to.
- `EveryVaultGetsThrough` (CloudSync): every request is answered or fails, and a
  user whose vault is not in the cloud presses the button again, as the error
  message asks; nobody has to save, switch or pull.
- `EveryBackupEnds` (CloudBackup): the browser and the store get on with what
  they were asked, if only to fail (`fetch` settles, back-off timers fire).
- `EveryImportEnds` (SourcesPage): of each import, the timers of the sieve and of
  the extraction worker fire, and its save is stored or fails; workers need never
  answer.
- `EveryImportAnswers` (SetupFlow): the page's own steps are taken, the timer of
  the worker among them; neither the worker nor the user has to do anything.

Conditions in properties are histories, and each names something the code really
cannot undo: `intact` (no writer overwrote an unseen write), `lossy`,
`neglected`, `restarted`, `overlapped`, `blind` (a fetch that failed).
`OneWinnerPerVersion` and `NoBlindOverwrite` are stated of histories without a
restart: two devices that both find no cloud vault may both initialise it, the
second puts version 1 over whatever the first has reached, and from then on a
version no longer names one vault.

## 4. Findings

1. `dashboard_deny`: denying on the approval page appends an audit event and
   leaves the request pending in the queue; the agent can still have it approved
   and released, though the page says no data was shared.
2. `cloud_conflict`: a push refused with "Pull latest cloud changes before
   pushing again" caches the cloud's version, so the next push, which may be just
   the next save, replaces the other device's vault without a pull.

Other behaviours the models show, which no document or test promises otherwise
and the properties therefore allow for:

- Vault file: an import saves a merge with the vault of the render that started
  it and removes edits acknowledged meanwhile; any failed fetch but a 401 leads to
  a force-create (the comment at App.tsx:287 expects only a 404); of two creations
  that overlap the later wins; a setup on an existing vault replaces its personas,
  even after "Skip" (App.tsx:297); after a reload of `/setup/personalize` the
  passphrase is gone and the vault is created in plain text.
- Plugin: a request approved on the page is never delivered, because the queue
  entry is no longer pending; a rule remembered from an approval never covers
  that request again (ApprovalDetail.tsx:221); an agent cannot renew an expired
  rule (index.ts:563); of two labels of one value the first decides.
- Cloud: a pull compares the vault's format version with the cloud's counter and
  skips version 1 while reporting success; a worker that finishes after an abort
  sets the page back to uploading.
- Extension: a late grant leaves a standing rule (gateway-methods.ts:52); a start
  whose save fails leaves the extension without its timer (service.ts:32), so that
  later grants may be late.  The proof of `GrantedInTime` found this one: the
  invariant about the timer did not hold after such a start.
- Extraction and review: an accepted review whose key has no persona category is
  lost; the fallback's ids (`::sem:`) are unknown to the guardrails, so that it
  yields nothing (semanticExtractorWorker.ts:74); a real quote that does not say
  the fact is accepted (semantic-contracts.ts:164); the guardrails' `dedupeFacts`
  may weaken a label (semantic-json-guardrails.ts:53), which `mergeFactCollections`
  repairs; the last chunk may exceed the limit (atomic-sieve.ts:193); the path of
  corroborated facts, which skips the review (fact-review-gate.ts:223), is never
  taken.
- Setup and readers: the last question cannot be skipped; a multiple choice that
  is deselected and skipped keeps its answer; fields of a VALARM overwrite its
  event's (helpers.ts:105); a text attachment after a nested multipart replaces
  the body (mbox-parser.ts:239); identical items of an Amazon order become one
  (amazon-csv-parser.ts:252).  A message is lost when a later one is given its
  very id: the suffix that is to tell equal ids apart is not checked again, so of
  `a`, `a-3`, `a` the second is overwritten (chatgpt-adapter.ts:140), and an id
  that is made up may be one already written (line 118).  `ExportsAreReadBack`
  allows exactly this loss and no other.
- Uploads, all without a warning (upload-anything.ts): the contents of scripts
  and styles and of tags (lines 122 and 134); strings of a JSON text under three
  characters, below depth 8, past the 2,000 first elements of a list or the 3,000
  first segments (142 to 177), while what a user says is read twice (167); mails
  after the 400th and encoding headers (258); strings of a PDF that no operator
  shows or that are not of 2 to 320 characters, and, where nothing is shown, all
  but the first 500 runs of plain text (214); parts of a document other than its
  body, headers, footers and notes (243); everything from a truncated tar entry
  on (331); what is beyond 120,000 characters; and a text that only calls itself
  `.tgz` or, in an archive, `.tar`.  `UploadIsAccountedFor` names each of them
  (`ReadAsWritten`, `TextsIn`) and holds the readers to everything else: nothing
  further is dropped, repeated or reordered without a warning.
- Browser: a cancelled run that winds down marks a newer run cancelled
  (GmailBrowser.tsx:254); an order selected under another persona leaves the
  sidebar empty; the saved persona is never restored.

## 5. What is proved

The theorems hold for every value of the constants that satisfies the modules'
named assumptions (bounds are natural numbers, tables are of their types, a
legacy key maps to a key, the markers such as `NoVault` are no vaults, and a
contract that passes for well-formed has its fields).  TLC evaluates those
assumptions in every run.

- **Policy** (`ApprovalFlowProofs`, over `DisclosureCall`): `CallsAreDecided`
  says that an answer is the decision on the vault and request that are there;
  `ReleasesArePermitted`, `AnswersAreAsked` and `LessIsNoHarder` read the three
  properties off `checkAutoAllow` and `matchFacts` by lemmas on the chosen
  persona, on the first of duplicates, and on what a rule covers.
- **Approval** (`ApprovalFlowProofs`): `Typing` is inductive as it stands.
  `ReleasedAsShown` is not: facts travel from the challenge to the answer through
  the file, the plugin's unwritten vault, the tabs' copies and their queued
  writes, any of which may be written over any other.  `Faithful` says of each of
  these places that every entry is a challenge that was put to the user, but for
  its status, and gives `CopiesAreFaithful`, `NoForgedRequest` and
  `ApprovalIsConsent`.  `ApprovedOnce` and `EveryReleaseIsAudited` need the audit
  log as well: `AuditInv` says that in every copy ids are numbered and settled
  entries carry their record, and, while no unseen write was overwritten, that a
  copy about to be written only adds to the log of the file it was read from
  (`RecordIsKept`, `OneReleasePerRequest`, `ReleasesAreOnFile`).
- **Vault store** (`VaultProviderProofs`): every step of the store is a step of
  `LocalFirst` or leaves its variables alone (`Refinement`).  The only hard case
  is an answer that reaches the screen; `AnswersStayRecent` says that a request
  tagged with the current epoch was sent when no save was pending and brings only
  what the file has held since the last save was settled.
- **Vault servers** (`VaultServerProofs`): what a request is about to write
  carries the passphrase it was admitted with, and a temporary file belongs to a
  request or a crash (`WritesAreAdmitted`); hence `SendersCanRead`,
  `EncryptionStays` and `NoLeftovers`.
- **Cloud sync** (`CloudSyncProofs`): `Behind` adds that no row a device has
  cached, holds in an answer or is about to replace is ahead of the current row,
  so that a stored version is new to everyone; `Bookkeeping` that a conditional
  push carries the row its version came from (`KnowledgeIsSound`).  Each step
  either stores the next version or shows a device at most the current row; hence
  `VersionsNameVaults` and `PushesKnowWhatTheyReplace`.
- **Pairing** (`PairingProofs`): `TablesAgree` says how what each handler holds
  between its requests agrees with the tables as they may have changed since;
  hence `SecondClaimsFail`, `CodesStayTaken`, `PairsBelongTogether`, `NoOrphans`.
- **Backup** (`CloudBackupProofs`): `SlicesCover` shows that the slices cut on the
  client cover the vault, whatever its size.  `UploadsAreSound` follows the
  request that opens an upload: it is sent once, before any worker has a part, and
  an upload that ends before it is served has no worker left; hence
  `SnapshotsHoldEveryByte`, `ReportsAreTrue`, `NothingIsLeftBehind`.
- **Extension** (`ContextEngineProofs`): `GrantsAreInTime` rests on the timer (no
  pending request outlives the next maintenance by a whole interval, and a save
  brings back only vaults of which that is true); `SettledStays`,
  `ReleasesAreLogged` and `WithdrawnStays` on ids that are never used again and on
  the last save, which without a loss holds what memory held.  All of it is the
  inductive invariant of `EngineIsSound`.
- **Demo** (`ContextEngineProofs`, over `DemoSessions`): `DemoInv` says that a vault
  whose visitor changed neither posture nor rules is guarded and has the two
  starter rules and no other (`DemoStaysSound`).  An answer depends on no more than
  that (`AnswersFollowPolicy`), so each of the five scenarios can be followed step
  by step whatever the visitor has asked and resolved (`Reached`, `AllShow`):
  `ScenariosAreTrue`.
- **Review** (`IntakeProofs`, over `FactImport`): `NothingSensitiveUnasked` and
  `ReviewsStand` for any batches of facts an extraction may find (`Findable`).
- **Sources page** (`IntakeProofs`, over `SourcesPage`): `WorkStaysSound` is the
  inductive invariant, `WorkIsSound`: of each import at each stage it says what its
  baseline, answers and findings can be (`Founds`: facts, each with quotes, all of
  them in the records), and that an attempt has shown the records of the
  batches before the one it has reached, in their order (`ShownSoFar`).  It gives
  `FactsAreQuoted`, `RecordsAreShown` and `BaselineStays`, for uploads of any
  length and any replies.  That a step keeps it is a statement about loops over
  records, contracts and facts, so these proofs are by induction over data: the
  loops are recursive functions; `StepsExist` and `StepsStay` say what n steps of
  such a loop make and keep (`Stepped`), by a least counter-example
  (`StepByStep`).  A page that saves what it found takes a step of `FactImport`
  with a findable batch (`PageImports`), which carries the two review theorems
  over to the page (`NothingFoundUnasked`, `DecisionsOutlastFindings`).
- **Setup** (`IntakeProofs`, over `SetupFlow`): `QuestionsAreSeen` needs that the
  form on the screen was begun at its first question and painted since; it holds
  for questionnaires of any length.  `CreationsAreSound` is the invariant of the
  creation: a creation that is alone holds what it stored (`HoldsWhatItStored`),
  or, before it stores, keeps what it found (`KeepsWhatItFound`), and has no other
  beside it (`OneAtATime`).  Hence `SetupsEndWell` and `SetupsKeepVaults`.
- **Data browser** (`IntakeProofs`, over `DataBrowser`): `BrowserSound` is the
  invariant.  Of the loads one at most is not cancelled, and it is of the persona
  that is chosen.  Of the runs, as long as none was begun beside a cancelled one
  that was asleep, at most one is not over; it is the one Cancel reaches, it is of
  the mails that are shown now, and it has reached a point that a run of these
  mails passes (`Underway`), so that it ends with what is `Expected`
  (`RunsGo`, `RunsEnd`, `GoesOn`).  A filter or a load leaves it alone only if the
  ids of what is shown are the same, and then so are the mails
  (`SignaturesTell`, from the assumption that ids tell items apart).

Only model-checked, and why:

- liveness under fairness: `Converges`, `EveryVaultGetsThrough`,
  `EveryBackupEnds`, `EveryImportEnds`, `EveryImportAnswers`;
- what the readers compute, which the provers cannot reach through their
  recursive operators: `AcceptedWithinLimits`, `ExportsAreReadBack`,
  `UploadIsAccountedFor`.

## 6. Not modelled

- Hydration state, rendering, the dashboard's demo data, telemetry and the
  Electron shell: they show or start things and change no vault.
- The extractors' regular expressions (a sentence is what they make of it),
  `gmail-extractor.ts` and `amazon-extractor.ts`, which are tables of patterns,
  and extractors only tests use; profile summaries and follow-up questions.  These
  are large, so the mapped share of the lines stays below what the number of
  modelled operations suggests.
- `findHiddenPersona` and `getContextTtlSeconds` (wording and an annotation); the
  other `/personafy` commands, which only read.
- The extension's tools that edit the values of persona fields, and pre-warmed
  contexts, which only a test reads.
- The import of a vault that was exported later than the setup; renaming a
  persona; display settings; the backup's usage lookup.
- Gemini's conversations, which are taken as they are, and dates.

## 7. Plan

All modules of the plan are written and every component with state has proofs.
What is left:

- a fair specification of `ApprovalFlow` that shows, as a violation run, that a
  request approved on the page is never delivered, though the toast says it was
  shared; for `CloudSync`, that a pull which reports success applied the vault;
- the accepted review without a persona category, once `Home` is split into what
  the toast promises and what the generator does;
- liveness arguments on paper for the five temporal properties;
- values that a merge refuses (`source-merge.ts:115`: a size out of range, which
  a user may still type), and the catalogue of fact keys.
