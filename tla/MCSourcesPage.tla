--------------------------- MODULE MCSourcesPage ---------------------------
(***************************************************************************)
(* Two imports of the Sources page, and, in behaviours of its own, the data  *)
(* browser, which extracts with the same patterns: a scene is one of them.   *)
(***************************************************************************)
EXTENDS SourcesPage, DataBrowser

VARIABLE scene

Says1(x, confidence, label) == {[fact |-> x, confidence |-> confidence, label |-> label]}
Statement(n, says) == [length |-> n, personal |-> TRUE, asks |-> FALSE, noise |-> FALSE, says |-> says]

\* Two statements, the first of which is sure enough only when it is repeated, the
\* second about a guarded key;
\* a question; and boilerplate.
Shoe     == Statement(20, Says1("shoe", 70, "high"))
Allergy  == Statement(30, Says1("allergy", 90, "low"))
Question == [Statement(25, Says1("dynamic", 80, "low")) EXCEPT !.asks = TRUE]
Footer   == [length |-> 24, personal |-> FALSE, asks |-> FALSE, noise |-> TRUE, says |-> {}]
Aside    == Statement(14, Says1("shoe", 70, "low"))

MCSentences == {Shoe, Allergy, Question, Footer, Aside}

Record(id, text) == [id |-> <<id>>, name |-> id, text |-> text]

CONSTANTS i1, i2

\* The sieve makes two chunks of the first upload, the first too long for its
\* limit, and none of the second, which is then used as it is.
MCUploads ==
  (i1 :> <<Record("r1", <<Shoe, Allergy, Question>>), Record("r2", <<Footer, Shoe, Aside>>)>>)
    @@ (i2 :> <<Record("r3", <<Aside>>)>>)

Contract(source, name, quote, x, confidence, label) ==
  [source |-> source, name |-> name, quote |-> quote, fact |-> x, confidence |-> confidence,
   label |-> label, wellFormed |-> TRUE, current |-> TRUE]

\* Nothing; or contracts with real quotes that do not say the fact, one of them surer
\* than the page and with a weaker label, one that names its source by the name and gives the
\* value only, one about the past, one with no quote, and one with no source.
MCReplied ==
  { <<>>,
    << Contract(<<"r1", "chunk", 0>>, "r1", {Question}, "allergy", 40, "high"),
       Contract(<<"r1", "chunk", 0>>, "r1", {Allergy}, "shoe", 95, "low"),
       Contract(<<"r9">>, "r1", {}, "dynamic", 90, "low"),
       [Contract(<<"r1">>, "r1", {}, "dynamic", 95, "low") EXCEPT !.current = FALSE],
       Contract(<<"r2", "chunk", 1>>, "r2", {}, "allergy", 99, "low"),
       Contract(<<"r9">>, "r9", {Shoe}, "shoe", 99, "low") >> }

MCContentLimits == <<60, 30>>

\* The browser's data: three mails, one of them with nothing in it, orders, pages
\* and conversations of two personas.
Part(role, text) == [role |-> role, id |-> "n", text |-> text]
Item(id, owner, kind, words, parts) ==
  [id |-> id, owner |-> owner, kind |-> kind, date |-> id, words |-> words, parts |-> parts]
Written(id, owner, kind, words, text) == Item(id, owner, kind, words, <<Part("", text)>>)
Chats == << Item(1, "alex", "chat", {}, <<Part("user", <<Shoe>>), Part("bot", <<Allergy>>)>>),
            Item(2, "sarah", "chat", {"w"}, <<Part("human", <<>>), Part("human", <<Allergy>>)>>) >>
MCItems ==
  [gmail   |-> << Written(1, "alex", "shopping", {"w"}, <<Shoe>>), Written(2, "alex", "company", {}, <<Allergy>>),
                  Written(3, "sarah", "shopping", {}, <<Footer, Shoe>>) >>,
   amazon  |-> << Written(1, "alex", "Delivered", {"w"}, <<Shoe>>), Written(2, "sarah", "Pending", {}, <<Allergy>>) >>,
   notion  |-> << Written(1, "alex", "a", {"w"}, <<Shoe>>), Written(2, "sarah", "b", {}, <<Allergy>>) >>,
   chatgpt |-> Chats, claude |-> Chats]

MCInit == PageInit /\ BrowserInit /\ (scene = "import" \/ (rollout = "off" /\ scene = "browser"))
MCNext ==
  \/ scene = "import" /\ PageNext /\ UNCHANGED <<browserVars, scene>>
  \/ scene = "browser" /\ BrowserNext /\ UNCHANGED <<pageVars, scene>>
MCSpec == MCInit /\ [][MCNext]_<<pageVars, browserVars, scene>> /\ Fairness
=============================================================================
