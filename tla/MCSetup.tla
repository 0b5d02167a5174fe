------------------------------ MODULE MCSetup ------------------------------
(***************************************************************************)
(* The setup with small questionnaires and a few files, and, in behaviours  *)
(* of their own, the readers of packages and exports, which keep no state:  *)
(* a scene is the setup, or one input of one reader.                        *)
(***************************************************************************)
EXTENDS SetupFlow, NotionExport, UploadAnything

Talks == INSTANCE ConversationExports

VARIABLE scene

\* Packages: entries up to the limits and one beyond, nested up to three deep;
\* of entries of one byte the limit on their number decides.
Named(ext) == <<"a", ext>>
Leaves ==
  { Entry(Named(".json"), "file", n, Text("array")) : n \in 1 .. 2 }
  \cup { Entry(Named(".json"), "file", 4, Text("array")), Entry(Named(".json"), "symlink", 1, Text("array")),
         Entry(<<"..", "/", "a", ".json">>, "file", 1, Text("array")),
         Entry(Named(".zip"), "file", 1, Text("array")) }
Packed(S, n) == { Entry(Named(IF m = "zip" THEN ".zip" ELSE ".tgz"), "file", 1, Archive(m, s)) :
                   m \in Archives, s \in BoundedSeq(S, n) }
Once  == Packed(Leaves, 2)
Twice == Packed(Leaves \cup Once, 2)
Plain == { Entry(Named(".json"), "file", 1, Text("array")) }
Many  == { Entry(Named(IF m = "zip" THEN ".zip" ELSE ".tgz"), "file", 1,
                 Archive(m, [i \in 1 .. n |-> Entry(Named(".json"), "file", 1, Text("array"))])) :
             m \in Archives, n \in MaxEntries - 1 .. MaxEntries + 1 }
MCFiles == Twice \cup Many \cup Packed(Many, 1) \cup Packed(Packed(Packed(Plain, 2), 1) \cup Plain, 2)
            \cup Packed(Packed(Packed(Packed(Plain, 1), 1), 1), 1)

File(path, data) == Entry(path, "file", 1, Text(data))
Own(source) ==
  CASE source = "gmail"    -> { File(<<"takeout", "/", "mail", "/", "all", ".mbox">>, "rows"),
                                File(<<"takeout", "/", "mail", "/", "messages", ".json">>, "array") }
    [] source = "amazon"   -> { File(<<"retail", "orderhistory", ".csv">>, "rows"),
                                File(<<"records", "/", "physical_orders", ".json">>, "array") }
    [] source = "claude"   -> { File(<<"claude", "/", "conversations", ".json">>, "wrapped"),
                                File(<<"claude", ".json">>, "array") }
    [] source = "notion"   -> { File(<<"notion-export", "/", "pages", ".json">>, "array"),
                                File(<<"tasks", "id", ".md">>, "rows"),
                                File(<<"tasks", "id", ".csv">>, "rows") }
    [] source = "gemini"   -> { File(<<"gemini", "/", "conversations", ".json">>, "array"),
                                File(<<"gemini", ".json">>, "array") }
    [] source = "calendar" -> { File(<<"calendar", ".ics">>, "rows"), File(<<"calendar", ".json">>, "array") }
    [] source = "chatgpt"  -> { File(<<"conversations", ".json">>, "wrapped"),
                                File(<<"chatgpt", ".json">>, "array") }
Under(dir, f) == [f EXCEPT !.path = dir \o @]
Beside == { File(<<"chat", ".html">>, "text"), File(<<"readme", ".txt">>, "text") }
MCExports ==
  UNION { { [source |-> s, entries |-> [i \in DOMAIN q |-> Under(dir, q[i])]] :
              dir \in {<<>>, <<"export", "/">>, <<".", "/">>},
              q \in UNION { SetToSeqs(own \cup other) :
                              own \in SUBSET Own(s) \ {{}}, other \in SUBSET Beside } } : s \in Sources }

SeqsUpTo(S, n) == UNION { [1 .. k -> S] : k \in 0 .. n }
Cells == {<<>>, <<"a">>, <<" ">>, <<"\"", ",">>, <<"a", "\n", "\"">>, <<"\"", "\"">>}
MCTables == SeqsUpTo([1 .. 2 -> Cells], 2)

TextPart(type, coding, ls) == [type |-> type, boundary |-> Nothing, encoding |-> coding, lines |-> ls, parts |-> <<>>]
Multipart(b, ps) == [type |-> "multipart", boundary |-> b, encoding |-> <<"none">>, lines |-> <<>>, parts |-> ps]
PlainPart == TextPart("plain", <<"none">>, << <<"text", 1>>, <<"blank", Nothing>>, <<"from", 2>> >>)
CodedPart == TextPart("plain", <<"base64">>, << <<"coded", 3>> >>)
HtmlPart  == TextPart("html", <<"none">>, << <<"html", 4>> >>)
Alternative == { Multipart("inner", <<p, HtmlPart>>) : p \in {PlainPart, CodedPart} }
Parts == {PlainPart, CodedPart, HtmlPart} \cup Alternative
           \cup { Multipart("outer", <<p, HtmlPart>>) : p \in Alternative \cup {PlainPart} }
           \cup { Multipart("outer", <<HtmlPart, CodedPart>>), Multipart("outer", <<HtmlPart>>) }
MCMailboxes == SeqsUpTo([id : {<<"m", 1>>, <<"m", 2>>}, labels : {<<"a">>, <<"a", "b">>, <<"c">>}, part : Parts], 2)

MCOrderFiles == SeqsUpTo([id : {1, 2, Nothing}, date : {1, 2, Nothing}, item : {1, 2, Nothing}], 3)

\* Pages and databases: ids that are shared, given by the file or by the row, or
\* made of paths that look alike; metadata of every kind, and texts with lines
\* that look like metadata.
Paragraph == <<Line("text", <<"t">>)>>
Divided   == Paragraph \o <<Line("blank", <<>>), Line("divider", <<>>)>> \o Paragraph
LongText  == <<Line("tags", <<"z">>)>> \o [i \in 1 .. MaxMetadata |-> Paragraph[1]] \o <<Line("divider", <<>>)>> \o Paragraph
Meta(type, created, tags, properties) ==
  [type |-> type, created |-> created, tags |-> tags, properties |-> properties]
Page(folder, title, id, metadata, body) ==
  { [ext |-> "md", folder |-> folder, title |-> title, id |-> id, heading |-> h, metadata |-> metadata, body |-> body] :
      h \in BOOLEAN }
MCPages ==
  UNION { Page(<<"ws">>, <<"weekly", " ", "notes">>, id, m, b) :
            id \in {Nothing, <<"p", "1">>}, b \in {Paragraph, Divided},
            m \in {Nothing, Meta(<<"task">>, <<>>, <<<<"x">>, <<"y">>>>, <<>>),
                   Meta(<<>>, <<"d1">>, <<>>, <<<<"k", "v">>, <<"owner", "u">>>>)} }
  \cup Page(<<"ws", "weekly">>, <<"notes">>, Nothing, Meta(<<>>, <<>>, <<<<"z">>>>, <<>>), <<>>)
  \cup Page(<<"ws", "journals">>, <<"plan">>, <<"p", "1">>, Nothing, LongText)

Column(field, header) == [field |-> field, header |-> header]
Row(id, title, content, tags, created, extra) ==
  [id |-> id, title |-> title, content |-> content, type |-> <<>>, tags |-> tags, created |-> created, extra |-> extra]
Database(id, columns, rows) ==
  [ext |-> "csv", folder |-> <<"ws">>, title |-> <<"tasks">>, id |-> id, columns |-> columns, rows |-> rows]
MCRows == { Row(id, title, <<"a", ",", "\"">>, tags, <<"d2">>, extra) :
              id \in {<<>>, <<"p", "1">>}, title \in {<<>>, <<"weekly">>},
              tags \in {<<>>, <<<<"y">>, <<"w">>>>}, extra \in {<<>>, <<"u", ":">>} }
MCDatabases ==
  { Database(id, <<Column("id", "id"), Column("title", "name"), Column("tags", "tags"), Column("extra", "owner"),
                   Column("created", "created")>>, <<r>>) : r \in MCRows, id \in {Nothing, <<"p">>} }
  \cup { Database(Nothing, <<Column("title", "title"), Column("content", "notes"), Column("tags", "labels")>>, <<r, s>>) :
           r \in {Row(<<>>, <<"weekly">>, <<"a", "b">>, <<<<"y">>>>, <<>>, <<>>)},
           s \in {Row(<<>>, <<>>, <<"c", "\n", "c">>, <<<<"w">>>>, <<>>, <<>>)} }
MCWorkspaces == SeqsUpTo(MCPages \cup MCDatabases, 2)

MCCalendars == SeqsUpTo([uid : {<<>>, <<"u">>, <<"v", "w">>}, summary : {<<>>, <<"s", "t">>, <<"s">>}], 3)

\* Conversations in every form; with ids that are used before, that the reader
\* makes itself, and that are those it makes for another message.
Form(list, id, role, shape, wrapper) ==
  [list |-> list, id |-> id, role |-> role, nested |-> FALSE, shape |-> shape, wrapper |-> wrapper]
ChatForms ==
  { Form("messages", "id", r, s, "array") : r \in {"role", "sender"},
      s \in {"text", "content", "array", "blocks", "deep", "parts", "inner", "fallback"} }
  \cup { Form("chat_messages", "uuid", "role", "parts", w) : w \in {"conversations", "items", "data"} }
  \cup { [Form(l, "message_id", "author", s, "array") EXCEPT !.nested = TRUE] :
           l \in {"messages", "mapping"}, s \in {"parts", "content", "fallback"} }
ClaudeForms ==
  { Form("chat_messages", "uuid", "sender", "text", w) : w \in {"array", "conversations", "items", "data"} }
  \cup { Form(l, "id", r, s, "array") : l \in {"chat_messages", "messages", "turns"}, r \in {"role", "author"},
           s \in {"text", "content", "array", "blocks", "deep"} }
Spoken(ids, roles) == [id : ids, role : roles, said : {<<>>, <<"x">>, <<"y", "z">>}]
MCTalks(f) ==
  SeqsUpTo(Spoken({"a", Nothing}, {"human", "assistant", "person"}), 2)
    \cup (IF f.shape = "text" /\ f.wrapper = "array"
          THEN SeqsUpTo([id : {"root", "a", "a-3", "msg-2", Nothing}, role : {"user", "bot"}, said : {<<"x">>}], 3)
          ELSE {})

\* What is written of a JSON value; null is no word.
RECURSIVE JsonText(_)
JsonText(json) ==
  LET quoted(text) == <<Mark>> \o text \o <<Mark>>
      member(m)    == quoted(m.key) \o <<Mark>> \o JsonText(m.value)
      listed(all)  == <<Mark>> \o JoinedBy(<<Comma>>, all) \o <<Mark>>
  IN  CASE Is(json, "string") -> quoted(json.string)
        [] Is(json, "scalar") -> <<json.scalar>>
        [] Is(json, "list")   -> listed(Mapped(json.list, JsonText))
        [] Is(json, "object") -> listed(Mapped(json.object, member))
        [] OTHER              -> <<Mark>>
Str(text)     == [string |-> text]
Num(word)     == [scalar |-> word]
List(values)  == [list |-> values]
Members(keys, values) == [object |-> [i \in DOMAIN keys |-> [key |-> <<keys[i]>>, value |-> values[i]]]]

\* Uploads: texts around the lengths of a record and of what is read of one
\* file; every short text of the signs a reader looks for, and longer ones at its
\* limits and beyond.
Written(text) == Bytes("text", <<>>, text)
Binary == Bytes("binary", <<>>, <<>>)
Counted(n) == [i \in 1 .. n |-> i]
Words == { <<Space>>, <<1>>, <<Mark, 1, Space, 2>>, <<1, Space, Space, 2>>, <<1, 2, 3>>,
           Counted(MaxTextChars), Counted(MaxTextChars + 1) }
Short(signs, n) == { [i \in DOMAIN q |-> IF q[i] = 0 THEN i ELSE q[i]] : q \in SeqsUpTo(signs \cup {0}, n) \ {<<>>} }
HtmlTexts == Short({Less, Greater, Script, ScriptEnd}, 5)
XmlTexts  == Short({Less, Greater, Space, ScriptEnd}, 4)
CsvTexts  == Short({Comma, Newline, Space}, 4) \cup { Counted(MaxTextChars \div 2) \o <<Comma, 1, Comma>> }
MailTexts ==
  Short({Newline, FromSign, Encoding, Equals}, 5)
  \cup { <<FromSign, 1>> \o FlattenSeq([i \in 1 .. n |-> <<Newline, FromSign, i, Encoding, 7>>]) :
           n \in MaxMails - 1 .. MaxMails + 1 }
PdfTexts ==
  LET shown(text, sign) == <<Open>> \o text \o <<Close, sign, Tj>>
  IN  Short({Open, Close, Tj, Space}, 5)
      \cup { q \o shown(Counted(n), s) : q \in {<<>>, shown(<<8, 9>>, Tj)}, n \in 1 .. MaxSnippet + 1, s \in {Tj, Space} }
      \cup { <<OpenArray, Open, 1, Close, Open, 2, 3, Close, CloseArray, s, TJ>> \o shown(<<4, 5>>, Tj) :
               s \in {Space, Noise} }
      \cup { FlattenSeq([i \in 1 .. n |-> Counted(MinRun) \o <<Noise>>]) : n \in 1 .. MaxRuns + 1 }
ReaderTexts == ({".html"} \X HtmlTexts) \cup ({".xml"} \X XmlTexts) \cup ({".csv"} \X CsvTexts)
                 \cup ({".mbox"} \X MailTexts) \cup ({".pdf"} \X PdfTexts)
JsonLeaves == { Str(<<1, 2>>), Str(<<Space, 1, Space, Space, 2>>), Num(5), [null |-> TRUE],
                List([i \in 1 .. MaxJsonArray + 1 |-> Num(i)]) }
JsonTexts ==
  JsonLeaves
  \cup { List(q) : q \in [1 .. 2 -> JsonLeaves] } \cup { List(<<List(<<List(<<v>>)>>), v>>) : v \in JsonLeaves }
  \cup { Members(<<3, k>>, <<v, w>>) : k \in {4, Said}, v, w \in JsonLeaves }
  \cup { Members(<<Role, k>>, <<Str(<<r>>), v>>) : k \in {Content, Said}, r \in {User, 6}, v \in JsonLeaves }
  \cup { List([i \in 1 .. n |-> Members(<<Role, Content>>, <<Str(<<User>>), Str(<<i, 7, 8>>)>>)]) : n \in 1 .. MaxJsonArray }
Body(json) == Bytes("text", <<json>>, JsonText(json))
Readers ==
  { Entry(<<"a", t[1]>>, "file", 1, Written(t[2])) : t \in ReaderTexts }
  \cup { Entry(<<"a", ext>>, "file", 1, Body(json)) : ext \in {".json", ".txt"}, json \in JsonTexts }
  \cup { Entry(<<"a", ".jsonl">>, "file", 1, Written(JsonText(json) \o <<Newline>> \o JsonText(json))) :
           json \in JsonTexts }

\* As files, packed, and packed again until they are too deep; documents with
\* parts that are read and parts that are not.
Part(name, text) == Entry(<<"word", "/", name, ".xml">>, "file", 1, Written(text))
Documents ==
  { Entry(<<"a", ".docx">>, "file", 1, Bytes("zip", q, <<>>)) :
      q \in { <<Part("document", <<Less, 1, Greater, 2, 3, Less, 4, Greater>>)>>,
              <<Part("styles", <<1>>), Part("document", <<2>>), Part("footnotes", <<3>>)>>, <<Part("styles", <<1>>)>> } }
Few == { Entry(<<"a", ".txt">>, kind, 1, Written(<<1>>)) : kind \in {"file", "cut"} }
UploadLeaves ==
  { Entry(<<"a", ".txt">>, "file", 1, Written(w)) : w \in Words }
  \cup { Entry(<<"gmail", ext>>, "file", n, Written(<<1, Less, 2, 3, Greater>>)) : ext \in {".html", ".bin"}, n \in 0 .. 2 }
  \cup { Entry(<<"a", ext>>, kind, 1, Binary) : ext \in {".txt", ".bin", ".zip"}, kind \in {"file", "symlink"} }
  \cup { Entry(<<"a", ext>>, "file", 1, Bytes("zip", Malformed, <<>>)) : ext \in {".zip", ".txt"} }
  \cup { Entry(<<"a", ext>>, "file", 1, Written(<<1>>)) : ext \in {".docx", ".tar", ".tgz"} }
  \cup Documents \cup Few

\* Paths of their own, unless a tar archive holds two of one path.
Apart(q) == [i \in DOMAIN q |-> [q[i] EXCEPT !.path = <<ToString(i), "/">> \o @]]
PackedOf(S, n) ==
  LET some == BoundedSeq(S, n) \ {<<>>}
  IN  { Entry(<<"b", ".zip">>, "file", 1, Bytes("zip", Apart(q), <<>>)) :
          q \in { r \in some : \A e \in ToSet(r) : e.kind # "cut" } }
      \cup { Entry(<<"b", ".tar">>, "file", 1, Bytes("tar", q, <<>>)) : q \in some \cup { Apart(r) : r \in some } }
GzipOf(S) ==
  { Entry(f.path \o <<".gz">>, "file", 1, Bytes("gzip", <<f>>, <<>>)) : f \in S }
  \cup { Entry(<<"b", ".tgz">>, "file", 1, Bytes("gzip", <<f>>, <<>>)) : f \in S }
Whole(S) == { f \in S : f.kind = "file" }
UploadOnce == PackedOf(UploadLeaves, 2) \cup PackedOf(Few, 3)
UploadGz   == GzipOf(Whole(UploadLeaves) \cup UploadOnce)
UploadTwice == PackedOf({ f \in UploadOnce : Len(f.body.entries) = 1 } \cup GzipOf(Whole(UploadLeaves)), 1)
UploadDeep  == PackedOf(UploadTwice, 1)
MCUploads == { <<f>> : f \in Whole(UploadLeaves) \cup Readers \cup UploadOnce \cup UploadGz \cup UploadTwice \cup UploadDeep
                                \cup PackedOf(UploadDeep, 1) }
               \cup { <<f, g>> : f, g \in Whole(UploadLeaves) \cup GzipOf(Whole(UploadLeaves)) }

QuickFive3 == <<"choice", "choice">>
All3       == <<"multi", "text">>

Pick(f, parsed, facts) == [file |-> f, parsed |-> parsed, facts |-> facts]
From(source) == [ok |-> TRUE, code |-> "ok", source |-> source]
PickedFiles ==
  { Pick(File(<<"conversations", ".json">>, "array"), From("chatgpt"), {<<9, {"found"}>>}),
    Pick(Entry(<<"export", ".zip">>, "file", 1, Archive("zip", <<File(<<"gmail", ".json">>, "array")>>)),
         From("gmail"), {}),
    Pick(Entry(<<"export", ".zip">>, "file", 1, Text("array")), Threw("FORMAT_SPOOFED"), {}) }

ASSUME PickedAreParsed == \A x \in PickedFiles : x.parsed = parseImportPayload(x.file, "auto")

Setup == <<"setup">>
ReadsOne ==
  \/ \E f \in MCFiles : scene = <<"package", f>>
  \/ \E x \in MCExports : scene = <<"export", x>>
  \/ \E t \in MCTables : scene = <<"table", t>>
  \/ \E ms \in MCMailboxes : scene = <<"mailbox", ms>>
  \/ \E rows \in MCOrderFiles : scene = <<"orders", rows>>
  \/ \E items \in MCWorkspaces : scene = <<"pages", items>>
  \/ \E events \in MCCalendars : scene = <<"calendar", events>>
  \/ \E f \in ChatForms : \E messages \in MCTalks(f) : scene = <<"chat", messages, f>>
  \/ \E f \in ClaudeForms : \E messages \in MCTalks(f) : scene = <<"claude", messages, f>>
  \/ \E files \in MCUploads : scene = <<"upload", files>>

Init == SetupInit /\ (scene = Setup \/ (~flag /\ disk = NoVault /\ ReadsOne))
Next == scene = Setup /\ SetupNext /\ UNCHANGED scene
Spec == Init /\ [][Next]_<<setupVars, scene>> /\ SetupFairness

\* A package is accepted exactly if all of it is within the limits.
AcceptedWithinLimits == scene[1] = "package" => JudgedByLimits(scene[2])

\* An export is recognised as its source's, wherever in the package it lies, and
\* read as what was exported: tables with their quoted cells, messages once
\* under all their labels, orders however they are cut into files, pages with
\* the rows about them, events with folded lines, and conversations in every
\* form.  Whatever ids messages share, only one that a later one is given its
\* very id is lost (Given, ChatIsReadBack).
ExportsAreReadBack ==
  CASE scene[1] = "export"   -> Recognised(scene[2].source, scene[2].entries)
    [] scene[1] = "table"    -> TableIsReadBack(scene[2])
    [] scene[1] = "mailbox"  -> MailIsReadBack(scene[2])
    [] scene[1] = "orders"   -> OrdersAreReadBack(scene[2])
    [] scene[1] = "pages"    -> PagesAreReadBack(scene[2])
    [] scene[1] = "calendar" -> CalendarIsReadBack(scene[2])
    [] scene[1] = "chat"     -> Talks!ChatIsReadBack(scene[2], scene[3])
    [] scene[1] = "claude"   -> Talks!ClaudeIsReadBack(scene[2], scene[3])
    [] OTHER                 -> TRUE

\* Whatever is uploaded is read as it is written or warned about, but for what
\* its reader leaves out and what tar archives lose.
UploadIsAccountedFor == scene[1] = "upload" => AccountedFor(scene[2])
=============================================================================
