----------------------------- MODULE SetupFlow -----------------------------
(***************************************************************************)
(* Setting up a vault (App.tsx): the pages of the setup, the questionnaire, *)
(* the import of a package, and the creation of the vault, which asks the   *)
(* server what it holds, sends a vault and, much later, marks the setup as  *)
(* complete in the browser.  Imports and creations go on when the page they *)
(* were started from is left; a reload forgets all but the address, the     *)
(* mark and what is on its way to the server.                               *)
(*                                                                         *)
(* A vault is its passphrase, its facts and whether it holds the rules,     *)
(* devices and log of an earlier vault.  The server is the desktop's of     *)
(* VaultServer, reduced to its answers.  The history variables are not in   *)
(* the code.                                                                *)
(***************************************************************************)
EXTENDS QuickStart

CONSTANTS
  Passphrases,     \* that are set or entered
  OldKeys,         \* of a vault that is there already
  NoKey, NoVault, NoForm,
  QuickFive,       \* the types of the five quick questions
  AllQuestions,    \* the types of all questions
  Picked,          \* files that are picked: [file, parsed, facts], the package, what parsing it comes
                   \* to, whoever parses it (ImportPackage), and what its extraction yields
  NoFile,
  Creations,       \* bound: creations under way at once, numbered
  MaxBegun,        \* bound: creations and imports that are begun
  MaxFailures      \* bound: reloads, and requests and workers that fail

VARIABLES
  disk,        \* the vault file, or NoVault
  flag,        \* localStorage: personafy_setup_complete
  checking,    \* the check of the flag at start-up is unanswered
  complete, config, personas, summary,   \* appData
  page, view,  \* the route, and the view of /setup/personalize
  form,        \* the questionnaire that is mounted, or NoForm
  celebration,
  pass,        \* the provider's passphrase
  loaded,      \* the vault the provider holds, or NoVault
  job,         \* the import that is under way
  creation,    \* per slot: the creation under way
  started, failures,                       \* bounds
  reloaded,    \* history: there was a reload
  overlapped   \* history: creations that were under way at once

Keys     == Passphrases \cup OldKeys \cup {NoKey}
OldFact  == <<0, {"old"}>>
AllFacts == (Nat \X Answer) \cup {OldFact} \cup UNION { x.facts : x \in Picked }
Stored   == [key : Keys, facts : SUBSET AllFacts, rest : BOOLEAN]
Forms    == FormOf(QuickFive) \cup FormOf(AllQuestions)

ASSUME SetupAssumption ==
  /\ QuickFive \in Seq(QuestionTypes) \ {<<>>} /\ AllQuestions \in Seq(QuestionTypes) \ {<<>>}
  /\ Creations \subseteq Nat /\ MaxBegun \in Nat /\ MaxFailures \in Nat
  /\ NoVault \notin Stored /\ NoForm \notin Forms /\ NoFile \notin Picked

app    == <<complete, config, personas, summary>>
screen == <<page, view, form>>
counts == <<started, failures, reloaded>>
setupVars == <<disk, flag, checking, complete, config, personas, summary, page, view, form,
               celebration, pass, loaded, job, creation, started, failures, reloaded, overlapped>>

NoCreation  == [at |-> "idle", key |-> NoKey, facts |-> {}, rest |-> FALSE, force |-> FALSE, blind |-> FALSE,
          confirmed |-> {}]
NoJob == [at |-> "idle", kind |-> "none", picked |-> NoFile, facts |-> {}, mounted |-> FALSE]

Begun == {"fetching", "sent", "orphan", "stored", "merging"}
SetupPages == {"/setup/welcome", "/setup/password", "/setup/personalize", "/setup/review"}
PostPages  == {"/", "/setup/quickstart", "/setup/import", "/setup/review", "/sources"}

\* The page a route leads to.
Route(p, done, reviewed) ==
  IF ~done THEN (IF p \in SetupPages THEN p ELSE "/setup/welcome")
  ELSE IF p = "/setup/review" /\ ~reviewed THEN "/"
  ELSE IF p \in PostPages THEN p ELSE "/"

SetupInit ==
  /\ disk \in {NoVault} \cup { [key |-> k, facts |-> {OldFact}, rest |-> TRUE] :
                                 k \in OldKeys }
  /\ flag \in BOOLEAN /\ checking = flag
  /\ complete = flag /\ config = NoKey /\ personas = {} /\ summary = FALSE
  /\ page = (IF flag THEN "/" ELSE "/setup/welcome") /\ view = "chooser" /\ form = NoForm
  /\ celebration = FALSE /\ pass = NoKey
  /\ loaded = (IF disk # NoVault /\ disk.key = NoKey THEN disk ELSE NoVault)
  /\ job = NoJob /\ creation = [c \in Creations |-> NoCreation]
  /\ started = 0 /\ failures = 0 /\ reloaded = FALSE
  /\ overlapped = {}

Fails == failures < MaxFailures /\ failures' = failures + 1

------------------------------------------------------------------------------
(* The server, as far as its answers go *)

fetchVault(k) ==
  CASE disk = NoVault                        -> "notFound"
    [] disk # NoVault /\ disk.key \in {NoKey, k} -> "ok"
    [] OTHER                                 -> "locked"

\* A PUT with passphrase k: DesktopRefuses.
Refuses(k, force) ==
  /\ disk # NoVault /\ disk.key # NoKey
  /\ k = NoKey \/ (~force /\ k # disk.key)

------------------------------------------------------------------------------
(* Pages *)

\* Leaving a page unmounts its form and lets go of its import.
ShowsPage(p) ==
  /\ page' = p /\ view' = "chooser"
  /\ form' = IF p = "/setup/quickstart" THEN NewForm(AllQuestions) ELSE NoForm
  /\ job' = [job EXCEPT !.mounted = FALSE]

\* A link, or the browser's buttons: the later pages of the setup have been
\* visited once a password was set, or in an earlier load.
Visits(p) ==
  /\ ~celebration /\ p # page
  /\ ~complete /\ p \in {"/setup/personalize", "/setup/review"} => config # NoKey \/ reloaded
  /\ ShowsPage(Route(p, complete, summary))
  /\ UNCHANGED <<disk, flag, checking, app, celebration, pass, loaded, creation, counts, overlapped>>

\* handlePasswordSet
handlePasswordSet(k) ==
  /\ ~celebration /\ ~complete /\ page = "/setup/password"
  /\ config' = k /\ pass' = k
  /\ ShowsPage("/setup/personalize")
  /\ UNCHANGED <<disk, flag, checking, complete, personas, summary, celebration, loaded,
                 creation, counts, overlapped>>

\* QuickPersonalize: the questions or the import inside the page, or back.
Opens(v) ==
  /\ ~celebration /\ page = "/setup/personalize" /\ view # v
  /\ v # "chooser" => view = "chooser"
  /\ v = "chooser" => ~job.mounted
  /\ view' = v
  /\ form' = IF v = "questions" THEN NewForm(QuickFive) ELSE NoForm
  /\ UNCHANGED <<disk, flag, checking, app, page, celebration, pass, loaded, job, creation,
                 counts, overlapped>>

\* The celebration ends by itself or with a click.
EndsCelebration ==
  /\ celebration /\ celebration' = FALSE
  /\ ShowsPage(Route("/", complete, summary))
  /\ UNCHANGED <<disk, flag, checking, app, pass, loaded, creation, counts, overlapped>>

\* The check of the flag: only a vault that is not there leads back to setup.
ChecksFlag ==
  /\ checking /\ checking' = FALSE
  /\ \/ /\ fetchVault(NoKey) = "notFound"
        /\ flag' = FALSE /\ complete' = FALSE
        /\ IF celebration THEN UNCHANGED <<screen, job>> ELSE ShowsPage(Route(page, FALSE, summary))
        /\ UNCHANGED failures
     \/ /\ fetchVault(NoKey) # "notFound"
        /\ UNCHANGED <<flag, complete, screen, job, failures>>
     \/ Fails /\ UNCHANGED <<flag, complete, screen, job>>
  /\ UNCHANGED <<disk, config, personas, summary, celebration, pass, loaded, creation,
                 started, reloaded, overlapped>>

\* The provider is given the passphrase of the vault (VaultProvider).
Unlocks(k) ==
  /\ complete /\ disk # NoVault /\ disk.key = k /\ loaded = NoVault
  /\ pass' = k /\ loaded' = disk
  /\ UNCHANGED <<disk, flag, checking, app, screen, celebration, job, creation, counts, overlapped>>

\* A reload.  What was sent may still reach the server.
Reloads ==
  /\ Fails /\ reloaded' = TRUE
  /\ checking' = flag /\ complete' = flag /\ config' = NoKey /\ personas' = {} /\ summary' = FALSE
  /\ page' = Route(page, flag, FALSE) /\ view' = "chooser"
  /\ form' = IF page' = "/setup/quickstart" THEN NewForm(AllQuestions) ELSE NoForm
  /\ celebration' = FALSE /\ pass' = NoKey
  /\ loaded' = IF disk # NoVault /\ disk.key = NoKey THEN disk ELSE NoVault
  /\ job' = NoJob
  /\ creation' = [c \in Creations |-> IF creation[c].at \in {"sent", "orphan", "merging"}
                                      THEN [creation[c] EXCEPT !.at = "orphan"]
                                      ELSE NoCreation]
  /\ UNCHANGED <<disk, flag, started, overlapped>>

------------------------------------------------------------------------------
(* Creating the vault: handleVaultCreated, and handlePostSetupVaultCreated  *)

Busy == { c \in Creations : creation[c].at # "idle" }

\* A creation begins with facts and a passphrase of the page.
Begins(c, facts, key, at, rest, confirmed) ==
  /\ started < MaxBegun /\ started' = started + 1
  /\ c \notin Busy /\ \A b \in Creations \ Busy : c <= b
  /\ creation' = [creation EXCEPT ![c] =
       [NoCreation EXCEPT !.at = at, !.key = key, !.facts = facts, !.rest = rest, !.confirmed = confirmed]]
  /\ overlapped' = IF Busy = {} THEN overlapped ELSE Creations

\* Mutant: the personas of the state, which the answers have not reached yet.
PersonasOfState(override) == personas

\* The personas a creation saves: those it is called with.
personasToSave(override) == override

\* handleVaultCreated with the personas confirmed
Creates(c, confirmed) ==
  Begins(c, personasToSave(confirmed), config, "fetching", FALSE, confirmed)

\* "I'll do this later", or "Create My Vault" on the review.
handleVaultCreated(c) ==
  /\ ~celebration /\ ~complete
  /\ \/ page = "/setup/personalize" /\ view = "chooser" /\ Creates(c, {})
     \/ page = "/setup/review" /\ Creates(c, personas)
  /\ UNCHANGED <<disk, flag, checking, app, screen, celebration, pass, loaded, job,
                 reloaded, failures>>

\* Mutant: a vault that is locked counts as missing.
FetchAnswersOpen(c, answer) ==
  /\ creation[c].at = "fetching"
  /\ creation' = [creation EXCEPT
       ![c].at = "sent", ![c].force = (answer # "ok"), ![c].blind = (answer = "failed"),
       ![c].rest = (answer = "ok" /\ disk.rest)]

\* The answer decides: a vault keeps its rules and log, none is force-created,
\* as is one that could not be fetched; a locked one is left alone.
FetchAnswers(c, answer) ==
  /\ creation[c].at = "fetching"
  /\ creation' = [creation EXCEPT ![c] =
       IF answer = "locked" THEN NoCreation
       ELSE [@ EXCEPT !.at = "sent", !.force = (answer # "ok"), !.blind = (answer = "failed"),
                      !.rest = (answer = "ok" /\ disk.rest)]]

Fetches(c) ==
  /\ \/ FetchAnswers(c, fetchVault(creation[c].key)) /\ UNCHANGED failures
     \/ FetchAnswers(c, "failed") /\ Fails
  /\ UNCHANGED <<disk, flag, checking, app, screen, celebration, pass, loaded, job,
                 started, reloaded, overlapped>>

\* What becomes of a creation when the server has answered.
Answered(c, stored) ==
  creation' = [creation EXCEPT ![c] = IF stored /\ @.at = "sent" THEN [@ EXCEPT !.at = "stored"] ELSE NoCreation]

\* The PUT reaches the server, or fails, or its answer is lost.
Lands(c) ==
  LET p == creation[c]
  IN  /\ p.at \in {"sent", "orphan", "merging"}
      /\ \/ /\ ~Refuses(p.key, p.force)
            /\ disk' = [key |-> p.key, facts |-> p.facts, rest |-> p.rest]
            /\ \/ /\ Answered(c, TRUE) /\ UNCHANGED failures
                  /\ loaded' = IF p.at = "merging" THEN disk' ELSE loaded
                  /\ IF p.at = "merging" /\ ~celebration THEN ShowsPage(Route("/", complete, summary))
                     ELSE UNCHANGED <<screen, job>>
               \/ Answered(c, FALSE) /\ Fails /\ UNCHANGED <<screen, job, loaded>>
         \/ /\ Refuses(p.key, p.force) /\ Answered(c, FALSE)
            /\ UNCHANGED <<disk, failures, loaded, screen, job>>
         \/ Answered(c, FALSE) /\ Fails /\ UNCHANGED <<disk, loaded, screen, job>>
  /\ UNCHANGED <<flag, checking, app, celebration, pass, started, reloaded, overlapped>>

\* The provider has refreshed: the setup is marked complete.
Finishes(c) ==
  LET key == creation[c].key
  IN  /\ creation[c].at = "stored"
      /\ flag' = TRUE /\ complete' = TRUE /\ config' = NoKey
      /\ pass' = IF key # NoKey THEN key ELSE pass
      /\ loaded' = IF disk # NoVault /\ disk.key \in {NoKey, pass'} THEN disk ELSE NoVault
      /\ celebration' = TRUE
      /\ creation' = [creation EXCEPT ![c] = NoCreation]
      /\ ShowsPage(Route(page, TRUE, summary))
      /\ UNCHANGED <<disk, checking, personas, summary, counts, overlapped>>

\* handlePostSetupVaultCreated merges the personas into the provider's vault.
handlePostSetupVaultCreated(c) ==
  /\ ~celebration /\ complete /\ page = "/setup/review" /\ loaded # NoVault
  /\ Begins(c, loaded.facts \cup personas, pass, "merging", loaded.rest, personas)
  /\ UNCHANGED <<disk, flag, checking, app, screen, celebration, pass, loaded, job,
                 reloaded, failures>>

------------------------------------------------------------------------------
(* The questionnaire *)

\* A step of the form; the last one creates the vault, or shows the review.
Answers(c) ==
  /\ form # NoForm /\ ~celebration
  /\ \E step \in FormSteps(form) :
       LET facts == convertQuickStartToPersonas(step.form)
       IN  \/ /\ ~step.complete
              /\ form' = step.form
              /\ UNCHANGED <<app, page, view, job, creation, started, overlapped>>
           \/ /\ step.complete /\ ~complete
              /\ form' = step.form /\ personas' = facts
              /\ Creates(c, facts)
              /\ UNCHANGED <<complete, config, summary, page, view, job>>
           \/ /\ step.complete /\ complete
              /\ personas' = facts /\ summary' = TRUE
              /\ ShowsPage("/setup/review")
              /\ UNCHANGED <<complete, config, creation, started, overlapped>>
  /\ UNCHANGED <<disk, flag, checking, celebration, pass, loaded, reloaded, failures>>

------------------------------------------------------------------------------
(* The import: QuickPersonalize reads one JSON file, Import any package,    *)
(* which a worker parses.                                                   *)

ImportZone == IF page = "/setup/import" THEN "package"
              ELSE IF page = "/setup/personalize" /\ view = "import" THEN "json" ELSE "none"

PicksFile(x) ==
  /\ ~celebration /\ ImportZone # "none" /\ job.at = "idle"
  /\ started < MaxBegun /\ started' = started + 1
  /\ job' = [NoJob EXCEPT !.at = "parsing", !.kind = ImportZone, !.picked = x, !.mounted = TRUE]
  /\ UNCHANGED <<disk, flag, checking, app, screen, celebration, pass, loaded, creation,
                 reloaded, failures, overlapped>>

\* What the page does with a package: ChatGPT conversations are extracted
\* here, other sources go to the Sources page, an error is shown.
Shown == [NoJob EXCEPT !.at = "showing", !.facts = job.picked.facts, !.mounted = job.mounted]
Outcome(parsed) == IF ~parsed.ok THEN NoJob
                   ELSE IF parsed.source = "chatgpt" THEN Shown
                   ELSE [NoJob EXCEPT !.at = "redirecting", !.mounted = job.mounted]

JobStep == UNCHANGED <<disk, flag, checking, celebration, pass, loaded, creation, started,
                       reloaded, overlapped>>

\* QuickPersonalize.processFile: JSON.parse of the whole file.
ParsesJson ==
  /\ job.at = "parsing" /\ job.kind = "json"
  /\ job' = IF job.picked.file.body.magic = "text" /\ job.picked.file.body.data = "array"
            THEN Shown ELSE NoJob
  /\ JobStep /\ UNCHANGED <<app, screen, failures>>

\* The worker posts what parseImportPayload returns or the code it throws.
WorkerAnswers ==
  /\ job.at = "parsing" /\ job.kind = "package"
  /\ job' = Outcome(job.picked.parsed)
  /\ JobStep /\ UNCHANGED <<app, screen, failures>>

\* The worker fails without a code: the page parses the file itself.
WorkerFails ==
  /\ job.at = "parsing" /\ job.kind = "package" /\ Fails
  /\ job' = [job EXCEPT !.at = "fallback"]
  /\ JobStep /\ UNCHANGED <<app, screen>>

FallbackParses ==
  /\ job.at = "fallback"
  /\ job' = Outcome(job.picked.parsed)
  /\ JobStep /\ UNCHANGED <<app, screen, failures>>

\* Mutant: the page waits for the worker for ever.
NeverTimesOut == FALSE

\* IMPORT_PARSE_WORKER_TIMEOUT_MS
TimesOut ==
  /\ job.at = "parsing" /\ job.kind = "package"
  /\ job' = NoJob
  /\ JobStep /\ UNCHANGED <<app, screen, failures>>

\* Another source's package: on to the Sources page, wherever the user is.
Redirects ==
  /\ job.at = "redirecting"
  /\ page' = Route("/sources", complete, summary) /\ view' = "chooser" /\ form' = NoForm
  /\ job' = NoJob
  /\ JobStep /\ UNCHANGED <<app, failures>>

\* onImportComplete: the personas found are shown for review.
ShowsResult ==
  /\ job.at = "showing"
  /\ personas' = job.facts /\ summary' = TRUE
  /\ page' = "/setup/review" /\ view' = "chooser" /\ form' = NoForm
  /\ job' = NoJob
  /\ JobStep /\ UNCHANGED <<complete, config, failures>>

PageProgress == ParsesJson \/ FallbackParses \/ TimesOut \/ Redirects \/ ShowsResult

SetupNext ==
  \/ \E p \in SetupPages \cup PostPages : Visits(p)
  \/ \E k \in Passphrases : handlePasswordSet(k) \/ Unlocks(k)
  \/ \E v \in {"chooser", "questions", "import"} : Opens(v)
  \/ EndsCelebration \/ ChecksFlag \/ Reloads
  \/ \E c \in Creations : \/ handleVaultCreated(c) \/ Fetches(c) \/ Lands(c) \/ Finishes(c)
                          \/ handlePostSetupVaultCreated(c) \/ Answers(c)
  \/ \E x \in Picked : PicksFile(x)
  \/ WorkerAnswers \/ WorkerFails \/ PageProgress

\* The page's own steps are taken; nobody has to answer, and no worker.
SetupFairness == WF_setupVars(PageProgress)

SetupSpec == SetupInit /\ [][SetupNext]_setupVars /\ SetupFairness

------------------------------------------------------------------------------
(* Correctness *)

SetupTypeOK ==
  /\ disk \in Stored \cup {NoVault} /\ loaded \in Stored \cup {NoVault}
  /\ {flag, checking, complete, summary, celebration, reloaded} \subseteq BOOLEAN
  /\ config \in Keys /\ pass \in Keys /\ personas \subseteq AllFacts
  /\ page \in SetupPages \cup PostPages /\ view \in {"chooser", "questions", "import"}
  /\ form \in Forms \cup {NoForm}
  /\ job \in [at : {"idle", "parsing", "fallback", "redirecting", "showing"},
              kind : {"none", "json", "package"}, picked : Picked \cup {NoFile},
              facts : SUBSET AllFacts, mounted : BOOLEAN]
  /\ job.at \in {"parsing", "fallback"} => job.picked \in Picked
  /\ creation \in [Creations -> [at : Begun \cup {"idle"}, key : Keys, facts : SUBSET AllFacts,
                                 rest : BOOLEAN, force : BOOLEAN, blind : BOOLEAN,
                                 confirmed : SUBSET AllFacts]]
  /\ started \in 0 .. MaxBegun /\ failures \in 0 .. MaxFailures /\ overlapped \subseteq Creations

\* When a setup is marked complete, the vault on disk holds what was confirmed
\* under the passphrase that was set, unless another creation was under way
\* (App.tsx:272: the override is there because the state may be stale).
SetupEndsWithItsVault ==
  [][\A c \in Creations \ overlapped :
       creation[c].at = "stored" /\ creation'[c].at = "idle" /\ flag'
         => /\ disk.facts = creation[c].confirmed
            /\ disk.key = creation[c].key]_setupVars

\* A setup leaves the rules, devices and log of a vault it finds, and never
\* replaces one it cannot open (App.tsx:287), unless the fetch failed or another
\* creation was under way.
SetupKeepsAVault ==
  [][\A c \in Creations \ overlapped :
       disk # NoVault /\ disk' # disk /\ creation[c] # creation'[c] /\ ~creation[c].blind
         => /\ disk.rest => disk'.rest
            /\ disk.key \in {NoKey, disk'.key}]_setupVars

\* No question is passed over unseen.
EveryQuestionIsSeen == form # NoForm => QuestionsSeen(form)

\* Every import ends, though its worker may never answer.
EveryImportAnswers == job.at # "idle" ~> job.at = "idle"
=============================================================================
