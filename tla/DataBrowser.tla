----------------------------- MODULE DataBrowser -----------------------------
(***************************************************************************)
(* The data browser (pages/DataBrowser.tsx, pages/browse/): a tab per       *)
(* source shows one persona's data, filtered, with what the extractor finds *)
(* in what is selected; the mail tab also extracts from all the mails that  *)
(* are shown, a chunk at a time, and can be cancelled between two chunks.   *)
(*                                                                         *)
(* An item is a mail, order, conversation or page: what the filters look at *)
(* and the texts in it.  A chosen persona is loaded as a module, which may  *)
(* fail.  An effect runs with the render that causes it.  What a tab does   *)
(* after it was left is not seen, so leaving it forgets its loads and runs. *)
(***************************************************************************)
EXTENDS FactExtraction

CONSTANTS
  Tabs,         \* of "gmail", "amazon", "chatgpt", "claude", "notion"
  Owners,       \* the personas of the data
  Items,        \* per tab, in the order of its file, under ids that tell them apart:
                \*   [id, owner, kind, date, words, parts]
  Terms,        \* search terms
  ChunkSize,    \* mails between two pauses of a run
  MaxRuns,      \* bound: runs that are begun
  MaxLoads      \* bound: loads under way at once

ASSUME BrowserAssumption ==
  /\ Tabs \subseteq {"gmail", "amazon", "chatgpt", "claude", "notion"} /\ "gmail" \in Tabs
  /\ \A t \in Tabs :
       /\ Items[t] \in Seq(ToSet(Items[t]))
       /\ \A x, y \in ToSet(Items[t]) : x.id = y.id => x = y
  /\ ChunkSize \in Nat \ {0} /\ {MaxRuns, MaxLoads} \subseteq Nat

VARIABLES
  tab,          \* activeTab
  persona,      \* a persona, or "all"
  loading,      \* the tab waits for its data
  data,         \* the items that are loaded
  loads,        \* loads under way: [of, cancelled]
  filter,       \* category, order tab or page category, "has insights", search term
  selected,     \* selectedId, 0 for none, or selectedIndex
  status,       \* filteredMailboxRunState
  results,      \* filteredMailboxFacts
  runs,         \* runs that are asleep: [mails, next, facts, aborted]
  current,      \* filteredMailboxAbortRef: the place in runs of the run that Cancel reaches, or 0
  raced         \* history: a run was begun while an aborted one was asleep

chosen == <<loading, data, filter, selected>>
run  == <<status, results, runs, current, raced>>
browserVars == <<tab, persona, chosen, loads, run>>

Personas == Owners \cup {"all"}
NoFilter == [kind |-> "all", insights |-> FALSE, term |-> "none"]
EndedRun == [mails |-> <<>>, next |-> 1, facts |-> Nothing, aborted |-> FALSE]

------------------------------------------------------------------------------
(* What is shown *)

\* loadCanonicalSourceDataset: one file per source and persona, and one for all.
Dataset(source, who) ==
  Kept(Items[source], { n \in DOMAIN Items[source] : who \in {"all", Items[source][n].owner} })

\* detectCategory: a sender's domain is named for the list it is on.
detectCategory(from) ==
  IF from \in {"shopping", "travel", "food", "fitness", "finance", "social", "subscriptions"} THEN from
  ELSE IF from = "company" THEN "work" ELSE "other"

\* The records of an item: a mail or a page is one, a conversation one for each
\* message of the user's that is not empty.
buildGmailGeneralRecords(mail) == << [id |-> <<mail.id>>, name |-> mail.id, text |-> mail.parts[1].text] >>
buildNotionGeneralRecords(page) == << [id |-> <<page.id>>, name |-> page.id, text |-> page.parts[1].text] >>

OfUser(parts) == SelectSeq(parts, LAMBDA p : p.role \in {"human", "user"} /\ p.text # <<>>)
buildChatGptConversationRecords(c) ==
  [i \in DOMAIN OfUser(c.parts) |-> [id |-> <<"chatgpt", OfUser(c.parts)[i].id>>, name |-> c.id,
                                      text |-> OfUser(c.parts)[i].text]]
buildClaudeGeneralRecords(c) ==
  [i \in DOMAIN OfUser(c.parts) |-> [id |-> <<OfUser(c.parts)[i].id>>, name |-> c.id,
                                      text |-> OfUser(c.parts)[i].text]]

\* extractBrowseFactsFromRecords: facts with their confidence.
extractBrowseFactsFromRecords(records) ==
  LET facts == extractGeneralFactsWithEvidence(records)
  IN  [x \in DOMAIN facts |-> facts[x].confidence]

\* extractProductMatches: whatever the names of the items of an order match.
extractProductMatches(order) == [x \in UNION { FactsOf(s) : s \in ToSet(order.parts[1].text) } |-> 75]

\* What is found in each item on its own.
Insights ==
  [t \in Tabs |-> [x \in ToSet(Items[t]) |->
     IF t = "amazon" THEN extractProductMatches(x)
     ELSE extractBrowseFactsFromRecords(
            CASE t = "gmail"   -> buildGmailGeneralRecords(x)
              [] t = "chatgpt" -> buildChatGptConversationRecords(x)
              [] t = "claude"  -> buildClaudeGeneralRecords(x)
              [] t = "notion"  -> buildNotionGeneralRecords(x))]]

HasFacts(mail) == Insights["gmail"][mail] # Nothing

\* The items of a source in the order their tab lists them: the newest first,
\* but mails with insights before those without.
Above(x, y, first) == IF x \in first <=> y \in first THEN x.date > y.date ELSE x \in first
InOrder(items, first) ==
  Sorted(items, { p \in ToSet(items) \X ToSet(items) : Above(p[1], p[2], first) })
Listed ==
  [t \in Tabs |->
     IF t \in {"chatgpt", "claude"} THEN Items[t]
     ELSE InOrder(Items[t], IF t = "gmail" THEN { mail \in ToSet(Items[t]) : HasFacts(mail) } ELSE {})]

\* What the filters of a tab let through.
Searched(x) == filter.term = "none" \/ filter.term \in x.words
ListsMail(x) ==
  /\ filter.kind \in {"all", detectCategory(x.kind)}
  /\ filter.insights => HasFacts(x)
  /\ Searched(x)
ListsOrder(x)        == (filter.kind = "Not Yet Shipped" => x.kind # "Delivered") /\ Searched(x)
ListsChat(x)         == Searched(x)
ListsConversation(x) == Searched(x)
ListsPage(x)         == filter.kind \in {"all", x.kind} /\ Searched(x)

Shows(x) ==
  CASE tab = "gmail"   -> ListsMail(x)
    [] tab = "amazon"  -> ListsOrder(x)
    [] tab = "chatgpt" -> ListsChat(x)
    [] tab = "claude"  -> ListsConversation(x)
    [] tab = "notion"  -> ListsPage(x)

\* What the tab shows: what is loaded and passes, in its order.
Passing(listed) == Kept(listed, { n \in DOMAIN listed : listed[n] \in ToSet(data) /\ Shows(listed[n]) })
Visible == Passing(Listed[tab])

\* The ids of what is shown, in order.
Signature(shown) == [i \in DOMAIN shown |-> shown[i].id]

------------------------------------------------------------------------------
(* Loading *)

\* A browser that has just been mounted.
Fresh(source, who) ==
  /\ tab' = source /\ persona' = who
  /\ loading' = TRUE /\ data' = <<>> /\ filter' = NoFilter
  /\ selected' = (IF source \in {"gmail", "amazon"} THEN 0 ELSE 1)
  /\ loads' = {[of |-> who, cancelled |-> FALSE]}
  /\ status' = "idle" /\ results' = Nothing /\ runs' = <<>> /\ current' = 0 /\ raced' = FALSE

\* PersonaSelector saves "all" over the persona it saved last before it looks for
\* one, so that every visit begins with all of them.
BrowserInit ==
  /\ tab = "gmail" /\ persona = "all"
  /\ loading = TRUE /\ data = <<>> /\ filter = NoFilter /\ selected = 0
  /\ loads = {[of |-> "all", cancelled |-> FALSE]}
  /\ status = "idle" /\ results = Nothing /\ runs = <<>> /\ current = 0 /\ raced = FALSE

OpensTab(t) == t # tab /\ Fresh(t, persona)

\* Another persona: the data of the one before stays until it is loaded.
ChoosesPersona(who) ==
  /\ who # persona /\ Cardinality(loads) < MaxLoads
  /\ persona' = who /\ loading' = TRUE
  /\ loads' = { [l EXCEPT !.cancelled = TRUE] : l \in loads } \cup {[of |-> who, cancelled |-> FALSE]}
  /\ UNCHANGED <<tab, data, filter, selected, run>>

\* The effect of filteredSignature: the run is aborted and its results go.
ForgetsRun ==
  /\ runs' = IF current = 0 THEN runs ELSE [runs EXCEPT ![current].aborted = TRUE]
  /\ current' = 0 /\ status' = "idle" /\ results' = Nothing
  /\ UNCHANGED raced

\* What is shown may change: if other mails are, the effect runs.
Resigns == IF Signature(Visible') = Signature(Visible) THEN UNCHANGED run ELSE ForgetsRun

LoadSettles(l, items) ==
  /\ l \in loads /\ loads' = loads \ {l}
  /\ IF l.cancelled THEN UNCHANGED <<loading, data>> ELSE loading' = FALSE /\ data' = items
  /\ UNCHANGED <<tab, persona, filter, selected>>
  /\ Resigns

LoadAnswers(l) == LoadSettles(l, Dataset(tab, l.of))
LoadFails(l)   == LoadSettles(l, <<>>)

------------------------------------------------------------------------------
(* Filters and selection *)

Kinds == CASE tab = "gmail"  -> {"all"} \cup { detectCategory(x.kind) : x \in ToSet(data) }
           [] tab = "amazon" -> {"all", "Not Yet Shipped"}
           [] tab = "notion" -> {"all"} \cup { x.kind : x \in ToSet(data) }
           [] OTHER          -> {"all"}

Filters ==
  /\ ~loading
  /\ \/ \E k \in Kinds : filter' = [filter EXCEPT !.kind = k]
     \/ tab = "gmail" /\ filter' = [filter EXCEPT !.insights = ~@]
     \/ \E t \in Terms \cup {"none"} : filter' = [filter EXCEPT !.term = t]
  /\ UNCHANGED <<tab, persona, loading, data, selected, loads>>
  /\ Resigns

Selects ==
  /\ ~loading
  /\ \E i \in DOMAIN Visible : selected' = IF tab \in {"gmail", "amazon"} THEN Visible[i].id ELSE i
  /\ UNCHANGED <<tab, persona, loading, data, filter, loads, run>>

\* effectiveSelectedId of mails: another filter may hide the one selected.
SelectedMail ==
  LET shown == Visible
      here  == SelectInSeq(shown, LAMBDA x : x.id = selected)
  IN  IF here # 0 THEN {shown[here]} ELSE IF shown = <<>> THEN {} ELSE {shown[1]}
\* Of orders: the one that was chosen, as long as it is loaded, shown or not.
SelectedOrder ==
  LET id == IF selected # 0 THEN selected ELSE IF Visible = <<>> THEN 0 ELSE Visible[1].id
  IN  { x \in ToSet(data) : x.id = id }
\* safeSelectedIndex
SelectedByIndex == LET shown == Visible IN IF shown = <<>> THEN {} ELSE {shown[Smaller(selected, Len(shown))]}

Selected ==
  CASE tab = "gmail"  -> SelectedMail
    [] tab = "amazon" -> SelectedOrder
    [] OTHER          -> SelectedByIndex

------------------------------------------------------------------------------
(* Extraction from all mails that are shown *)

\* dedupeFacts: of two chunks' accounts of a fact the surer one.
dedupeFacts_Scope(old, new) ==
  [x \in DOMAIN old \cup DOMAIN new |->
     IF x \notin DOMAIN new THEN old[x]
     ELSE IF x \notin DOMAIN old \/ new[x] > old[x] THEN new[x] ELSE old[x]]

\* One chunk of a run: facts so far, and the mail after it.
ReadChunk(r) ==
  LET upto  == Smaller(Len(r.mails), r.next + ChunkSize - 1)
      batch == FlattenSeq([i \in 1 .. upto - r.next + 1 |-> buildGmailGeneralRecords(r.mails[r.next + i - 1])])
  IN  [r EXCEPT !.next = upto + 1,
                !.facts = dedupeFacts_Scope(@, extractBrowseFactsFromRecords(batch))]
Over(r) == r.next > Len(r.mails)

\* A run of mails before its first chunk, and after n of them.
Unread(mails) == [mails |-> mails, next |-> 1, facts |-> Nothing, aborted |-> FALSE]
Going(mails) ==
  LET after[n \in 0 .. Len(mails)] ==
        IF n = 0 THEN Unread(mails) ELSE IF Over(after[n - 1]) THEN after[n - 1] ELSE ReadChunk(after[n - 1])
  IN  after

Completes(r) == status' = "complete" /\ results' = r.facts

\* runFilteredMailboxExtraction, up to its first pause.
BeginsRun ==
  /\ tab = "gmail" /\ ~loading /\ status # "running" /\ Visible # <<>> /\ Len(runs) < MaxRuns
  /\ LET r == ReadChunk(Unread(Visible))
     IN  /\ runs' = Append(runs, IF Over(r) THEN EndedRun ELSE r)
         /\ IF Over(r) THEN Completes(r) /\ current' = 0
            ELSE status' = "running" /\ results' = Nothing /\ current' = Len(runs')
  /\ raced' = (raced \/ \E i \in DOMAIN runs : ~Over(runs[i]))
  /\ UNCHANGED <<tab, persona, chosen, loads>>

\* Mutant: an aborted run goes on to the end.
WakesRegardless(i) ==
  LET r == ReadChunk(runs[i])
  IN  /\ ~Over(runs[i])
      /\ runs' = [runs EXCEPT ![i] = IF Over(r) THEN EndedRun ELSE r]
      /\ IF Over(r) THEN Completes(r) /\ current' = (IF current = i THEN 0 ELSE current)
         ELSE UNCHANGED <<status, results, current>>
      /\ UNCHANGED <<tab, persona, chosen, loads, raced>>

\* A pause is over: an aborted run ends here, and says so whatever runs by now.
Wakes(i) ==
  LET r == ReadChunk(runs[i])
  IN  /\ ~Over(runs[i])
      /\ IF runs[i].aborted
         THEN /\ runs' = [runs EXCEPT ![i] = EndedRun]
              /\ status' = "cancelled" /\ UNCHANGED <<results, current>>
         ELSE /\ runs' = [runs EXCEPT ![i] = IF Over(r) THEN EndedRun ELSE r]
              /\ IF Over(r) THEN Completes(r) /\ current' = (IF current = i THEN 0 ELSE current)
                 ELSE UNCHANGED <<status, results, current>>
      /\ UNCHANGED <<tab, persona, chosen, loads, raced>>

\* cancelFilteredMailboxExtraction
CancelsRun ==
  /\ ~loading /\ status = "running" /\ current # 0
  /\ runs' = [runs EXCEPT ![current].aborted = TRUE]
  /\ current' = 0 /\ status' = "cancelled"
  /\ UNCHANGED <<tab, persona, chosen, loads, results, raced>>

BrowserNext ==
  \/ \E t \in Tabs : OpensTab(t)
  \/ \E who \in Personas : ChoosesPersona(who)
  \/ \E l \in loads : LoadAnswers(l) \/ LoadFails(l)
  \/ Filters \/ Selects \/ BeginsRun \/ CancelsRun
  \/ \E i \in DOMAIN runs : Wakes(i)

BrowserSpec == BrowserInit /\ [][BrowserNext]_browserVars

------------------------------------------------------------------------------
(* Correctness *)

\* What a run of the mails that are shown finds.
Expected == LET shown == Visible IN Going(shown)[Len(shown)].facts

\* The browser shows the chosen persona's data once it says that it has loaded
\* it, with one of the mails, conversations or pages it shows selected whenever
\* there is one (an order that was chosen stays so).  It says that it has
\* extracted from what is shown only when it has, and that it is about to only
\* while it is, unless a run was begun before a cancelled one had noticed
\* (GmailBrowser.tsx:213: other mails take the results with them).
BrowserShowsWhatIsChosen ==
  /\ ~loading => data \in {<<>>, Dataset(tab, persona)}
  /\ tab # "amazon" => LET shown == Visible IN (Selected = {} <=> shown = <<>>) /\ Selected \subseteq ToSet(shown)
  /\ ~raced =>
       /\ status = "complete" /\ ~loading => results = Expected
       /\ status # "complete" => results = Nothing
       /\ status = "running" <=> \E i \in DOMAIN runs : ~Over(runs[i]) /\ ~runs[i].aborted
=============================================================================
