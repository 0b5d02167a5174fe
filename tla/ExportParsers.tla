--------------------------- MODULE ExportParsers ---------------------------
(***************************************************************************)
(* The readers of the export formats (lib/import/ and package-adapters/),   *)
(* as operators: tables, mailboxes, orders and calendars, each with what an *)
(* export of it looks like, so that reading can be compared with what was   *)
(* written.  Pages and conversations have modules of their own.             *)
(*                                                                         *)
(* Text is a sequence of lines or of characters from a few that matter to   *)
(* the reader; Nothing stands for an empty or a missing value.              *)
(***************************************************************************)
EXTENDS Arrays, FiniteSets

CONSTANT Nothing

\* The first value of a sequence that is there, or Nothing.
FirstOf(s) == LET there == SelectSeq(s, LAMBDA v : v # Nothing)
              IN  IF there = <<>> THEN Nothing ELSE there[1]

------------------------------------------------------------------------------
(* Tables: parseCsv of amazon-csv-parser.ts and notion-export-parser.ts *)

CsvStart == [rows |-> <<>>, row |-> <<>>, cell |-> <<>>, quoted |-> FALSE, skip |-> FALSE]

\* A row that is blank throughout is dropped.
CsvEndRow(s) ==
  LET row == Append(s.row, s.cell)
  IN  [s EXCEPT !.rows = IF \E i \in DOMAIN row : ToSet(row[i]) \ {" ", "\n"} # {}
                         THEN Append(@, row) ELSE @,
                !.row = <<>>, !.cell = <<>>]

\* Mutant: a doubled quote ends and begins a quotation.
CsvCharSimple(s, char, next) ==
  CASE char = "\""                      -> [s EXCEPT !.quoted = ~@]
    [] char = ","  /\ ~s.quoted         -> [s EXCEPT !.row = Append(@, s.cell), !.cell = <<>>]
    [] char = "\n" /\ ~s.quoted         -> CsvEndRow(s)
    [] OTHER                            -> [s EXCEPT !.cell = Append(@, char)]

\* One turn of the loop over the characters.
CsvChar(s, char, next) ==
  CASE s.skip                           -> [s EXCEPT !.skip = FALSE]
    [] ~s.skip /\ char = "\"" ->
         IF s.quoted /\ next = "\"" THEN [s EXCEPT !.cell = Append(@, "\""), !.skip = TRUE]
                                    ELSE [s EXCEPT !.quoted = ~@]
    [] ~s.skip /\ char = ","  /\ ~s.quoted -> [s EXCEPT !.row = Append(@, s.cell), !.cell = <<>>]
    [] ~s.skip /\ char = "\n" /\ ~s.quoted -> CsvEndRow(s)
    [] OTHER                            -> [s EXCEPT !.cell = Append(@, char)]

parseCsv(text) ==
  LET next(i) == IF i < Len(text) THEN text[i + 1] ELSE "end"
      s == ReduceIndices(LAMBDA acc, i : CsvChar(acc, text[i], next(i)), CsvStart, text)
  IN  (IF s.cell # <<>> \/ s.row # <<>> THEN CsvEndRow(s) ELSE s).rows

\* A cell is quoted if it must be, its quotes doubled.
CsvCell(cell) ==
  LET doubled == FlattenSeq(Mapped(cell, LAMBDA c : IF c = "\"" THEN <<c, c>> ELSE <<c>>))
  IN  IF ToSet(cell) \cap {",", "\"", "\n"} = {} THEN cell ELSE <<"\"">> \o doubled \o <<"\"">>
CsvRow(row)   == FlattenSeq([i \in DOMAIN row |-> (IF i = 1 THEN <<>> ELSE <<",">>) \o CsvCell(row[i])])
CsvText(rows) == FlattenSeq(Mapped(rows, LAMBDA r : CsvRow(r) \o <<"\n">>))

\* A table of rows of cells is read as it was, but for rows that are blank.
TableIsReadBack(t) ==
  parseCsv(CsvText(t)) = SelectSeq(t, LAMBDA r : \E i \in DOMAIN r : ToSet(r[i]) \ {" ", "\n"} # {})

------------------------------------------------------------------------------
(* Mailboxes: mbox-parser.ts, gmail-label-parser.ts, gmail-adapter.ts.  A   *)
(* line is <<kind, value>>: "from" for a line that begins with From, "quote" *)
(* for one that begins with >From, "head", "fold" for a folded header, "mark" *)
(* and "close" for boundaries, "blank", and "text", "html" or "coded" text.  *)

Blank == <<"blank", Nothing>>

\* splitMboxChunks: the lines between the lines that begin with From.
splitMboxChunks(lines) ==
  LET add(chunks, l) == IF l[1] = "from" THEN Append(chunks, <<>>)
                        ELSE [chunks EXCEPT ![Len(chunks)] = Append(@, l)]
  IN  SelectSeq(Reduce(add, <<>>, lines), LAMBDA c : \E i \in DOMAIN c : c[i] # Blank)

\* splitHeadersAndBody, at the first blank line
HeaderLength(lines) ==
  LET blanks == { i \in DOMAIN lines : lines[i] = Blank }
  IN  IF blanks = {} THEN Len(lines) ELSE (CHOOSE i \in blanks : \A j \in blanks : i <= j) - 1
HeadersOf(lines) == SubSeq(lines, 1, HeaderLength(lines))
BodyOf(lines)    == SubSeq(lines, HeaderLength(lines) + 2, Len(lines))

\* unfoldHeaders, buildHeaderMap: a header is <<"head", <<key, values>>>>.
unfoldHeaders(lines) ==
  LET join(hs, l) == IF l[1] = "fold" /\ hs # <<>>
                     THEN [hs EXCEPT ![Len(hs)][2] = @ \o l[2]]
                     ELSE IF l[1] = "head" THEN Append(hs, l[2]) ELSE hs
  IN  Reduce(join, <<>>, lines)
getHeader(lines, key) ==
  LET found == SelectSeq(unfoldHeaders(lines), LAMBDA h : h[1] = key)
  IN  IF found = <<>> THEN <<>> ELSE found[1][2]

\* normalizeBody, stripHtml, decodeTransferEncoding: what they make of a line.
Unquoted(l)        == IF l[1] = "quote" THEN <<"from", l[2]>> ELSE l
Stripped(l)        == IF l[1] = "html" THEN <<"text", l[2]>> ELSE l
Decoded(l, coding) == IF l[1] = "coded" /\ coding = <<"base64">> THEN <<"text", l[2]>> ELSE l

RECURSIVE WithoutTrailing(_)
WithoutTrailing(ls) == IF ls # <<>> /\ Last(ls) = Blank THEN WithoutTrailing(Front(ls)) ELSE ls
normalizeBody(ls)   == WithoutTrailing(Mapped(ls, Unquoted))

\* splitMultipartParts: what lies between the marks of one boundary, up to its
\* closing mark; state is the finished parts, the part being read, and whether
\* any part is being read.
MultipartLine(s, l, b) ==
  LET ended == IF s.open /\ s.part # <<>> THEN Append(s.parts, s.part) ELSE s.parts
  IN  IF s.closed THEN s
      ELSE IF l = <<"mark", b>>  THEN [s EXCEPT !.parts = ended, !.part = <<>>, !.open = TRUE]
      ELSE IF l = <<"close", b>> THEN [s EXCEPT !.parts = ended, !.open = FALSE, !.closed = TRUE]
      ELSE IF s.open THEN [s EXCEPT !.part = Append(@, l)] ELSE s
splitMultipartParts(lines, b) ==
  Reduce(LAMBDA s, l : MultipartLine(s, l, b),
           [parts |-> <<>>, part |-> <<>>, open |-> FALSE, closed |-> FALSE], lines).parts

\* parseContentType: <<type>>, or <<"multipart", boundary>>
parseContentType(headers) ==
  LET type == getHeader(headers, "content-type")
  IN  IF type = <<>> THEN <<"plain">> ELSE type

RECURSIVE decodeMimeBody(_, _)

\* The part that is taken from a multipart body: the first that is plain text
\* itself, or else the first that holds anything.
ChosenPart(parts) ==
  LET heads(p)  == parseContentType(HeadersOf(p))
      texts     == Mapped(parts, LAMBDA p : decodeMimeBody(BodyOf(p), HeadersOf(p)))
      some      == { i \in DOMAIN parts : texts[i] # <<>> }
      plain     == { i \in some : heads(parts[i])[1] = "plain" }
      pick(S)   == CHOOSE i \in S : \A j \in S : i <= j
  IN  IF plain # {} THEN texts[pick(plain)]
      ELSE IF some # {} THEN texts[pick(some)] ELSE <<>>

decodeMimeBody(lines, headers) ==
  LET type == parseContentType(headers)
      text == Mapped(lines, LAMBDA l : Decoded(l, getHeader(headers, "encoding")))
  IN  IF type[1] = "multipart" /\ Len(type) > 1
      THEN LET part == ChosenPart(splitMultipartParts(lines, type[2]))
           IN  IF part # <<>> THEN normalizeBody(part) ELSE normalizeBody(lines)
      ELSE normalizeBody(IF type[1] = "html" THEN Mapped(text, Stripped) ELSE text)

\* parseChunk: the id, the labels and the body.  A message without an id is
\* named by its place in its file.
parseChunk(lines, index) ==
  LET heads == HeadersOf(lines)
      id    == getHeader(heads, "id")
  IN  [id     |-> IF id = <<>> THEN <<"mbox", index>> ELSE id,
       labels |-> ToSet(getHeader(heads, "labels")),
       body   |-> decodeMimeBody(BodyOf(lines), heads)]
parseGmailMbox(lines) ==
  LET chunks == splitMboxChunks(lines) IN [i \in DOMAIN chunks |-> parseChunk(chunks[i], i)]

\* mergeDuplicateMessages: labels are united, the first body that is not empty
\* stays.
mergeDuplicateMessages(records) ==
  LET of(id) == SelectSeq(records, LAMBDA r : r.id = id)
      bodies(id) == SelectSeq(Mapped(of(id), LAMBDA r : r.body), LAMBDA b : b # <<>>)
  IN  Mapped(Distinct(Mapped(records, LAMBDA r : r.id)),
        LAMBDA id : [id |-> id, labels |-> UNION { r.labels : r \in ToSet(of(id)) },
                     body |-> IF bodies(id) = <<>> THEN <<>> ELSE bodies(id)[1]])

\* What a mailbox looks like: a message has an id, labels and a part; a part
\* is a type, a boundary, the lines of a text or the parts of a multipart.
Escaped(l) == IF l[1] = "from" THEN <<"quote", l[2]>> ELSE l
RECURSIVE PartLines(_)
PartLines(p) ==
  LET type  == IF p.type = "multipart" THEN <<p.type, p.boundary>> ELSE <<p.type>>
      heads == << <<"head", <<"content-type", type>>>>, <<"head", <<"encoding", p.encoding>>>> >>
      inside(i) == << <<"mark", p.boundary>> >> \o PartLines(p.parts[i])
  IN  heads \o <<Blank>> \o
      (IF p.type = "multipart"
       THEN FlattenSeq([i \in DOMAIN p.parts |-> inside(i)]) \o << <<"close", p.boundary>> >>
       ELSE Mapped(p.lines, Escaped))
MessageLines(m) ==
  << <<"from", Nothing>>, <<"head", <<"id", m.id>>>>,
     <<"head", <<"labels", SubSeq(m.labels, 1, 1)>>>>, <<"fold", SubSeq(m.labels, 2, Len(m.labels))>> >>
  \o PartLines(m.part) \o <<Blank>>
MboxText(ms) == FlattenSeq(Mapped(ms, MessageLines))

\* The texts of a part in the order they are written, plain or not.
RECURSIVE Texts(_)
Texts(p) == IF p.type = "multipart" THEN FlattenSeq(Mapped(p.parts, Texts)) ELSE <<p>>
Plainly(ls) == Mapped(ls, LAMBDA l : IF l[1] \in {"html", "coded"} THEN <<"text", l[2]>> ELSE l)

\* Every message is read once, under all the labels it is filed under, with the
\* plain text that was written first.
MailIsReadBack(ms) ==
  LET read   == mergeDuplicateMessages(parseGmailMbox(MboxText(ms)))
      of(id) == { m \in ToSet(ms) : m.id = id }
      body(p) == LET plain == SelectSeq(Texts(p), LAMBDA t : t.type = "plain")
                 IN  Plainly(IF plain # <<>> THEN plain[1].lines ELSE Texts(p)[1].lines)
  IN  /\ Mapped(read, LAMBDA r : r.id) = Distinct(Mapped(ms, LAMBDA m : m.id))
      /\ \A r \in ToSet(read) :
           /\ r.labels = UNION { ToSet(m.labels) : m \in of(r.id) }
           /\ \E m \in of(r.id) : r.body = body(m.part)

------------------------------------------------------------------------------
(* Amazon orders: amazon-csv-parser.ts.  A file is its number and its rows; *)
(* a row is an order, what it says of the order, and an item.               *)

NewOrder(id) == [id |-> id, date |-> Nothing, items |-> <<>>]

\* One row: an order begins where its id is first read, keeps the first value
\* of each field, and takes an item it does not hold yet.
OrderRow(orders, row) ==
  LET known == { i \in DOMAIN orders : orders[i].id = row.id }
      all   == IF known = {} THEN Append(orders, NewOrder(row.id)) ELSE orders
      i     == CHOOSE i \in DOMAIN all : all[i].id = row.id
  IN  IF row.id = Nothing THEN orders
      ELSE [all EXCEPT ![i].date  = FirstOf(<<@, row.date>>),
                       ![i].items = Distinct(@ \o SelectSeq(<<row.item>>, LAMBDA v : v # Nothing))]

\* sortAmazonCsvFiles, by the number in the name
sortAmazonCsvFiles(files) == SortSeq(files, LAMBDA a, b : a.number < b.number)

\* parseAmazonOrderHistoryCsvFiles: an order without items is left out.
parseAmazonOrderHistoryCsvFiles(files) ==
  SelectSeq(Reduce(OrderRow, <<>>, FlattenSeq(Mapped(sortAmazonCsvFiles(files), LAMBDA f : f.rows))),
            LAMBDA o : o.items # <<>>)

\* The numbered files a table is cut into, at n rows.
CutAt(rows, n) == << [number |-> 1, rows |-> SubSeq(rows, 1, n)],
                     [number |-> 2, rows |-> SubSeq(rows, n + 1, Len(rows))] >>

\* However an export is cut into files, and in whatever order they lie in the
\* archive, its orders are those of the whole table, and no item is lost.
OrdersAreReadBack(rows) ==
  LET whole == parseAmazonOrderHistoryCsvFiles(<<[number |-> 1, rows |-> rows]>>)
  IN  /\ \A n \in 0 .. Len(rows) :
           /\ parseAmazonOrderHistoryCsvFiles(CutAt(rows, n)) = whole
           /\ parseAmazonOrderHistoryCsvFiles(Reverse(CutAt(rows, n))) = whole
      /\ \A row \in ToSet(rows) : row.id # Nothing /\ row.item # Nothing
           => \E o \in ToSet(whole) : o.id = row.id /\ row.item \in ToSet(o.items)

------------------------------------------------------------------------------
(* Calendars: parseIcsCalendar of package-adapters/helpers.ts.  A line is   *)
(* <<"begin">>, <<"end">>, <<"field", key, value>> or <<"fold", value>>.    *)

unfoldIcsLines(lines) ==
  LET join(ls, l) == IF l[1] = "fold" /\ ls # <<>> THEN [ls EXCEPT ![Len(ls)][3] = @ \o l[2]]
                                                   ELSE Append(ls, l)
  IN  Reduce(join, <<>>, lines)

NoEvent == [uid |-> <<>>, summary |-> <<>>]
IcsLine(s, l) ==
  CASE l[1] = "begin" -> [s EXCEPT !.current = NoEvent, !.open = TRUE]
    [] l[1] = "end" /\ s.open ->
         LET n == Len(s.events) + 1
             e == [s.current EXCEPT !.uid = IF @ = <<>> THEN <<"evt", n>> ELSE @]
         IN  [s EXCEPT !.events = Append(@, e), !.open = FALSE]
    [] l[1] = "field" /\ s.open -> [s EXCEPT !.current[l[2]] = l[3]]
    [] OTHER -> s
parseIcsCalendar(lines) ==
  Reduce(IcsLine, [events |-> <<>>, current |-> NoEvent, open |-> FALSE], unfoldIcsLines(lines)).events

\* An event of a calendar without alarms, its second line folded.
IcsText(events) ==
  LET field(key, value) == IF value = <<>> THEN <<>>
                           ELSE << <<"field", key, SubSeq(value, 1, 1)>> >>
                                \o Mapped(Tail(value), LAMBDA v : <<"fold", <<v>>>>)
      text(e) == <<<<"begin">>>> \o field("uid", e.uid) \o field("summary", e.summary) \o <<<<"end">>>>
  IN  FlattenSeq(Mapped(events, text))
CalendarIsReadBack(events) ==
  LET read == parseIcsCalendar(IcsText(events))
  IN  /\ Len(read) = Len(events)
      /\ \A i \in DOMAIN events : /\ read[i].summary = events[i].summary
                                  /\ events[i].uid # <<>> => read[i].uid = events[i].uid
=============================================================================
