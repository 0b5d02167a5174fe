---------------------------- MODULE NotionExport ----------------------------
(***************************************************************************)
(* The reader of Notion's exports (lib/import/notion-export-parser.ts): a   *)
(* page is a Markdown file, a database a CSV file with a row for each of    *)
(* its pages, and what is said of one id in several files is merged.        *)
(*                                                                         *)
(* A value is a sequence of words, separators and blanks, <<>> if empty; a  *)
(* column name stands for its spellings.  A file is [folder, name, id, ext, *)
(* text]: its name is a sequence like a value, id the id at the end of the  *)
(* name or Nothing.  A CSV text is a sequence of characters; a Markdown     *)
(* text a sequence of lines <<kind, value>>.  The last edited time is read  *)
(* as the created time is, and left out.                                    *)
(***************************************************************************)
EXTENDS ExportParsers

CONSTANT MaxMetadata  \* lines before the divider

Trimmed(v) == LET words == { i \in DOMAIN v : v[i] \notin {" ", "\n"} }
              IN  IF words = {} THEN <<>> ELSE SubSeq(v, Min(words), Max(words))
Filled(s)  == SelectSeq(s, LAMBDA v : v # <<>>)
FirstFilled(s) == IF Filled(s) = <<>> THEN <<>> ELSE Filled(s)[1]

\* splitTags, at , and ;
splitTags(v) ==
  LET part(parts, c) == IF c \in {",", ";"} THEN Append(parts, <<>>)
                                            ELSE [parts EXCEPT ![Len(parts)] = Append(@, c)]
  IN  Filled(Mapped(Reduce(part, <<<<>>>>, v), Trimmed))

\* createFallbackId: folders and words of the path make one slug.
createFallbackId(file) == SelectSeq(file.folder \o file.name, LAMBDA w : w # " ")
FileId(file) == IF file.id = Nothing THEN createFallbackId(file) ELSE file.id

\* inferType, from the words of the title and the folders below the first
inferType(file, title, explicit) ==
  LET names(words, folder) == \/ words \cap ToSet(title) # {}
                              \/ folder \in ToSet(SubSeq(file.folder, 2, Len(file.folder)))
  IN  CASE explicit \in { <<t>> : t \in {"page", "database", "journal", "task", "note"} } -> explicit[1]
        [] file.ext = "csv"                    -> "database"
        [] names({"journal"}, "journals")      -> "journal"
        [] names({"note", "notes"}, "notes")   -> "note"
        [] names({"task", "tasks"}, "tasks")   -> "task"
        [] OTHER                               -> "page"

------------------------------------------------------------------------------
(* Rows of a database *)

KNOWN_CSV_COLUMNS == {"id", "name", "title", "content", "type", "tags", "created"}

CellOf(row, i) == IF i \in DOMAIN row THEN Trimmed(row[i]) ELSE <<>>

\* Of several columns of one name the last counts; of several aliases the first
\* that has a value in the row.
readCsvValue(row, headers, aliases) ==
  LET columns(a) == { i \in DOMAIN headers : headers[i] = <<a>> }
      value(a)   == IF columns(a) = {} THEN <<>> ELSE CellOf(row, Max(columns(a)))
  IN  FirstFilled(Mapped(aliases, value))

Properties(row, headers) ==
  LET columns == { i \in DOMAIN headers : headers[i] \notin { <<c>> : c \in KNOWN_CSV_COLUMNS } /\ CellOf(row, i) # <<>> }
  IN  [h \in { headers[i] : i \in columns } |-> CellOf(row, Max({ i \in columns : headers[i] = h }))]

\* Without a content column all of the row is its content: a value that ends in
\* a colon is left out, an empty one is not.
FallbackContent(row, headers) ==
  LET line(i) == headers[i] \o <<":", " ">> \o CellOf(row, i)
  IN  FlattenSeq(SelectSeq([i \in DOMAIN headers |-> line(i)], LAMBDA l : Last(l) # ":"))

RowRecord(file, headers, row, n) ==
  LET value(aliases) == readCsvValue(row, headers, aliases)
      title   == FirstFilled(<<value(<<"title", "name">>), Trimmed(file.name), <<"Untitled", "Database">>>>)
      created == value(<<"created">>)
  IN  [origin     |-> "csv",
       id         |-> FirstFilled(<<value(<<"id">>), FileId(file) \o <<"row", ToString(n)>>>>),
       title      |-> title,
       type       |-> inferType(file, title, value(<<"type">>)),
       content    |-> FirstFilled(<<value(<<"content", "notes", "description", "body">>), FallbackContent(row, headers)>>),
       created    |-> IF created = <<>> THEN Nothing ELSE created,
       tags       |-> splitTags(value(<<"tags", "labels">>)),
       properties |-> Properties(row, headers)]

parseCsvRecords(file) ==
  LET table   == parseCsv(file.text)
      headers == Mapped(table[1], Trimmed)
  IN  IF Len(table) < 2 THEN <<>>
      ELSE [n \in 1 .. Len(table) - 1 |-> RowRecord(file, headers, table[n + 1], n)]

------------------------------------------------------------------------------
(* Pages.  A line is "blank", "title", "divider", "created", "type", "tags", *)
(* "properties" (their heading), "item" (<<key>> \o value) or "text".        *)

IsBlank(line) == line[1] = "blank"

WithoutBlanks(lines) ==
  LET some == { i \in DOMAIN lines : ~IsBlank(lines[i]) }
  IN  IF some = {} THEN <<>> ELSE SubSeq(lines, Min(some), Max(some))

\* The lines after the leading blanks, the title and the blanks after it.
AfterTitle(lines) ==
  LET text == WithoutBlanks(lines)
      rest == IF text # <<>> /\ text[1][1] = "title" THEN Tail(text) ELSE text
      some == { i \in DOMAIN rest : ~IsBlank(rest[i]) }
  IN  IF some = {} THEN <<>> ELSE SubSeq(rest, Min(some), Len(rest))

NoMetadata == [type |-> <<>>, created |-> Nothing, tags |-> <<>>, properties |-> <<>>, open |-> FALSE]

\* One turn of the loop over the metadata: items are properties until a line
\* that is neither an item nor blank.
MetadataLine(meta, line) ==
  LET closed == [meta EXCEPT !.open = FALSE]
  IN  CASE IsBlank(line)            -> meta
        [] line[1] = "properties"   -> [meta EXCEPT !.open = TRUE]
        [] line[1] = "item" /\ meta.open ->
             IF Len(line[2]) < 2 THEN meta
             ELSE [meta EXCEPT !.properties = (<<line[2][1]>> :> Tail(line[2])) @@ @]
        [] line[1] = "created"      -> [closed EXCEPT !.created = line[2]]
        [] line[1] = "type"         -> [closed EXCEPT !.type = line[2]]
        [] line[1] = "tags"         -> [closed EXCEPT !.tags = splitTags(line[2])]
        [] OTHER                    -> closed

\* A divider not too far below, with a marker before it, ends the metadata;
\* otherwise all of the text is content.
parseMarkdownMetadata(lines) ==
  LET rest     == AfterTitle(lines)
      dividers == { i \in DOMAIN rest : rest[i][1] = "divider" }
      before   == SubSeq(rest, 1, Min(dividers) - 1)
      marked   == \E l \in ToSet(before) : l[1] \in {"created", "type", "tags", "properties"}
  IN  IF dividers = {} \/ Min(dividers) - 1 > MaxMetadata \/ ~marked
      THEN NoMetadata @@ [content |-> WithoutBlanks(lines)]
      ELSE Reduce(MetadataLine, NoMetadata, before)
             @@ [content |-> WithoutBlanks(SubSeq(rest, Min(dividers) + 1, Len(rest)))]

\* A page of metadata alone has all of its text as content.
parseMarkdownRecord(file) ==
  LET text    == WithoutBlanks(file.text)
      heading == IF text # <<>> /\ text[1][1] = "title" THEN Trimmed(text[1][2]) ELSE <<>>
      title   == FirstFilled(<<heading, Trimmed(file.name), <<"Untitled">>>>)
      meta    == parseMarkdownMetadata(file.text)
  IN  [origin     |-> "md",
       id         |-> FileId(file),
       title      |-> title,
       type       |-> inferType(file, title, meta.type),
       content    |-> FirstFilled(<<meta.content, text>>),
       created    |-> meta.created,
       tags       |-> meta.tags,
       properties |-> meta.properties]

------------------------------------------------------------------------------
(* Records of one id.  Contents are compared by length, titles are never empty. *)

choosePreferredTitle(existing, incoming) ==
  IF existing.origin # "md" /\ incoming.origin = "md" THEN incoming.title ELSE existing.title
choosePreferredType(existing, incoming) ==
  IF existing.origin # "md" /\ incoming.origin = "md" THEN incoming.type ELSE existing.type

\* A page's own, else the longer.
choosePreferredContent(existing, incoming) ==
  IF existing.origin = "md" /\ existing.content # <<>> THEN existing.content
  ELSE IF incoming.origin = "md" /\ incoming.content # <<>> THEN incoming.content
  ELSE IF Len(incoming.content) > Len(existing.content) THEN incoming.content ELSE existing.content

mergeRecord(existing, incoming) ==
  [origin     |-> IF "md" \in {existing.origin, incoming.origin} THEN "md" ELSE existing.origin,
   id         |-> existing.id,
   title      |-> choosePreferredTitle(existing, incoming),
   type       |-> choosePreferredType(existing, incoming),
   content    |-> choosePreferredContent(existing, incoming),
   created    |-> FirstOf(<<existing.created, incoming.created>>),
   tags       |-> existing.tags \o Distinct(SelectSeq(incoming.tags, LAMBDA t : t \notin ToSet(existing.tags))),
   properties |-> existing.properties @@ incoming.properties]

upsertRecord(records, record) ==
  LET known == { i \in DOMAIN records : records[i].id = record.id }
  IN  IF known = {} THEN Append(records, record)
      ELSE [i \in DOMAIN records |-> IF i \in known THEN mergeRecord(records[i], record) ELSE records[i]]

parseNotionExportFiles(files) ==
  LET records(file) == CASE file.ext = "csv" -> parseCsvRecords(file)
                         [] file.ext = "md"  -> <<parseMarkdownRecord(file)>>
                         [] OTHER            -> <<>>
  IN  Reduce(upsertRecord, <<>>, FlattenSeq(Mapped(files, records)))

------------------------------------------------------------------------------
(* What an export looks like.  A page has a body below its metadata, if it   *)
(* has metadata; a database writes fields of its rows under headers of its   *)
(* own.                                                                     *)

TagText(tags) == FlattenSeq([i \in DOMAIN tags |-> (IF i = 1 THEN <<>> ELSE <<";">>) \o tags[i]])
Line(kind, value) == <<kind, value>>
LineIf(kind, value) == IF value = <<>> THEN <<>> ELSE <<Line(kind, value)>>

MetadataText(m) ==
  LineIf("created", m.created) \o LineIf("type", m.type) \o LineIf("tags", TagText(m.tags))
    \o (IF m.properties = <<>> THEN <<>> ELSE <<Line("properties", <<>>)>>)
    \o Mapped(m.properties, LAMBDA p : Line("item", p)) \o <<Line("blank", <<>>), Line("divider", <<>>)>>
PageText(p) ==
  (IF p.heading THEN <<Line("title", p.title), Line("blank", <<>>)>> ELSE <<>>)
    \o (IF p.metadata = Nothing THEN <<>> ELSE MetadataText(p.metadata)) \o p.body

CellText(row, field) == IF field = "tags" THEN TagText(row.tags) ELSE row[field]
DatabaseText(d) ==
  CsvText(<<Mapped(d.columns, LAMBDA c : <<c.header>>)>>
            \o Mapped(d.rows, LAMBDA r : Mapped(d.columns, LAMBDA c : CellText(r, c.field))))

FileOf(x) == [folder |-> x.folder, name |-> x.title, id |-> x.id, ext |-> x.ext,
              text |-> IF x.ext = "md" THEN PageText(x) ELSE DatabaseText(x)]

\* What an item says, and of which id.
PageSays(p) ==
  LET m == IF p.metadata = Nothing THEN [type |-> <<>>, created |-> <<>>, tags |-> <<>>, properties |-> <<>>]
                                   ELSE p.metadata
  IN  [page |-> TRUE, id |-> FileId(FileOf(p)), title |-> p.title, type |-> m.type, created |-> m.created,
       tags |-> ToSet(m.tags), properties |-> { <<q[1], Tail(q)>> : q \in ToSet(m.properties) },
       body |-> p.body, content |-> <<>>]
RowSays(d, n) ==
  LET row      == d.rows[n]
      fields   == { c.field : c \in ToSet(d.columns) }
      said(f)  == IF f \in fields THEN row[f] ELSE <<>>
      extra    == { <<c.header, row.extra>> : c \in { c \in ToSet(d.columns) : c.field = "extra" /\ row.extra # <<>> } }
  IN  [page |-> FALSE, id |-> FirstFilled(<<said("id"), FileId(FileOf(d)) \o <<"row", ToString(n)>>>>),
       title |-> FirstFilled(<<said("title"), d.title>>), type |-> said("type"), created |-> said("created"),
       tags |-> ToSet(said("tags")), properties |-> extra, body |-> <<>>, content |-> said("content")]
Says(x) == IF x.ext = "md" THEN <<PageSays(x)>> ELSE [n \in DOMAIN x.rows |-> RowSays(x, n)]

\* A record r and what was said of its id: every tag, every property and a date
\* that was written of it.  A page's own title, type and text go before what
\* databases say of it.
SaysAll(r, said) ==
  LET pages   == { s \in said : s.page }
      written == UNION { s.properties : s \in said }
      dates   == { s.created : s \in said } \ {<<>>}
  IN  /\ ToSet(r.tags) = UNION { s.tags : s \in said }
      /\ \A q \in written : <<q[1]>> \in DOMAIN r.properties /\ <<q[1], r.properties[<<q[1]>>]>> \in written
      /\ IF dates = {} THEN r.created = Nothing ELSE r.created \in dates
      /\ Cardinality(pages) = 1 => \A p \in pages :
           /\ r.title = p.title /\ IsSuffix(p.body, r.content)
           /\ p.type # <<>> => <<r.type>> = p.type
      /\ pages = {} => /\ \E s \in said : r.title = s.title
                       /\ \A s \in said : Len(s.content) <= Len(r.content)

\* Everything of one id is read as one page, in the order the ids are written
\* and whatever the order of the files.
PagesAreReadBack(items) ==
  LET Agree(read, said) ==
        /\ Mapped(read, LAMBDA r : r.id) = Distinct(Mapped(said, LAMBDA s : s.id))
        /\ \A r \in ToSet(read) : SaysAll(r, { s \in ToSet(said) : s.id = r.id })
  IN  Agree(parseNotionExportFiles(Mapped(items, FileOf)), FlattenSeq(Mapped(items, Says)))
=============================================================================
