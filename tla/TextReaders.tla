----------------------------- MODULE TextReaders -----------------------------
(***************************************************************************)
(* What is read of a file by its extension (lib/upload-anything.ts), as     *)
(* operators on its text.                                                   *)
(*                                                                         *)
(* A text is a sequence of words, numbers, and of the signs between them    *)
(* that a reader looks for; each of them is one character long.  A text     *)
(* that is JSON has its value as the one entry of its body.                 *)
(***************************************************************************)
EXTENDS ImportPackage, Integers

CONSTANTS
  MaxTextChars,        \* MAX_TEXT_CHARS_PER_FILE
  MaxJsonDepth,        \* how deep, how far into a list, and how many segments
  MaxJsonArray,        \* of a JSON text are taken
  MaxSegments,
  MinString,           \* the shortest string of a JSON text that is taken
  MaxMails,            \* the mails of a mail box that are taken
  MinSnippet,          \* the lengths of a string of a PDF that is taken,
  MaxSnippet,
  MinRun,              \* and of readable characters in a PDF without strings
  MaxRuns

ASSUME ReadersAssumption ==
  /\ {MaxTextChars, MaxJsonDepth, MaxJsonArray, MaxSegments, MinString, MaxSnippet, MaxRuns} \subseteq Nat
  /\ {MaxMails, MinSnippet, MinRun} \subseteq Nat \ {0}

Mark       == -1     \* a sign no reader looks for
Space      == -2
Noise      == -3     \* bytes that are no text, decoded
Newline    == -4
Less       == -5
Greater    == -6
Script     == -7     \* <script or <style
ScriptEnd  == -8     \* </script> or </style>
FromSign   == -9     \* "From " of a mail's first line
Encoding   == -10    \* "Content-Transfer-Encoding:"
Equals     == -11
Comma      == -12
Open       == -13    \* the brackets of a PDF's strings
Close      == -14
OpenArray  == -15    \* and of its arrays
CloseArray == -16

\* Words that mean something to a reader: keys and roles, operators of a PDF.
Role    == 91
Content == 92
Said    == 93        \* the key "text"
User    == 94        \* user or human
Tj      == 95
TJ      == 96

Blanks == {Space, Newline}

Bytes(magic, entries, text) == [magic |-> magic, entries |-> entries, data |-> text]

WordsOf(text)  == SelectSeq(text, LAMBDA c : c \in Nat)
CutTo(n, text) == SubSeq(text, 1, IF Len(text) < n THEN Len(text) ELSE n)
AfterPlace(n, text) == SubSeq(text, n + 1, Len(text))

Places(text, Wanted(_))  == SelectSeq([i \in DOMAIN text |-> i], Wanted)
Rewritten(text, Each(_)) == FlattenSeq([i \in DOMAIN text |-> Each(i)])
JoinedBy(sign, texts)    == Rewritten(texts, LAMBDA n : IF n = 1 THEN texts[n] ELSE sign \o texts[n])

\* The first of some signs behind a place, 0 if there is none.
NextOf(text, place, signs) ==
  LET behind == { j \in place + 1 .. Len(text) : text[j] \in signs } IN IF behind = {} THEN 0 ELSE Min(behind)

\* normalizeText, trim
normalizeText(text) ==
  LET solid == { i \in DOMAIN text : text[i] \notin Blanks }
  IN  IF solid = {} THEN <<>> ELSE SubSeq(text, Min(solid), Max(solid))

\* Trimmed, with one space for blanks in a row.
Collapsed(text) ==
  LET trimmed == normalizeText(text)
  IN  Rewritten(trimmed, LAMBDA i : IF trimmed[i] \notin Blanks THEN <<trimmed[i]>>
                                    ELSE IF trimmed[i - 1] \in Blanks THEN <<>> ELSE <<Space>>)

decodeUtf8(body) == IF body.magic = "text" THEN body.data ELSE <<Noise>>

------------------------------------------------------------------------------
(* Mark-up, tables and mails *)

\* A space for everything from an opening sign to the closing sign that comes
\* next, with at least so much between them: the replacements of stripHtmlLike
\* and extractXmlText.
RECURSIVE Without(_, _, _, _)
Without(text, open, close, least) ==
  LET opened == { i \in DOMAIN text : text[i] = open /\ NextOf(text, i, {close}) > i + least }
  IN  IF opened = {} THEN text
      ELSE CutTo(Min(opened) - 1, text) \o <<Space>>
             \o Without(AfterPlace(NextOf(text, Min(opened), {close}), text), open, close, least)

\* The tags of a script are tags like others to those who do not look for them.
AsTags(text) == Rewritten(text, LAMBDA i : CASE text[i] = Script    -> <<Less, Mark>>
                                             [] text[i] = ScriptEnd -> <<Less, Mark, Greater>>
                                             [] OTHER               -> <<text[i]>>)

stripHtmlLike(text)  == Without(AsTags(Without(text, Script, ScriptEnd, 0)), Less, Greater, 1)
extractXmlText(text) == Collapsed(Without(AsTags(text), Less, Greater, 1))

\* Lines, trimmed, that are not empty; a comma and a space for commas in a row.
extractCsvText(text) ==
  LET ends == <<0>> \o Places(text, LAMBDA i : text[i] = Newline) \o <<Len(text) + 1>>
      lines == [n \in 1 .. Len(ends) - 1 |-> SubSeq(text, ends[n] + 1, ends[n + 1] - 1)]
      spaced(l) == Rewritten(l, LAMBDA i : IF l[i] # Comma THEN <<l[i]>>
                                           ELSE IF i > 1 /\ l[i - 1] = Comma THEN <<>> ELSE <<Comma, Space>>)
  IN  JoinedBy(<<Newline>>, SelectSeq(Mapped(lines, LAMBDA l : normalizeText(spaced(l))), LAMBDA l : l # <<>>))

\* The first mails, without their encodings and without the ends of lines that
\* go on.
extractMboxText(text) ==
  LET mails   == Places(text, LAMBDA i : i < Len(text) /\ text[i] = Newline /\ text[i + 1] = FromSign)
      first   == IF Len(mails) < MaxMails THEN text ELSE CutTo(mails[MaxMails] - 1, text)
      header(i) == first[i] = Encoding /\ i < Len(first) /\ first[i + 1] # Newline
      named(k)  == \E i \in 1 .. k - 1 : header(i) /\ \A m \in i .. k : first[m] # Newline
      bare    == Rewritten(first, LAMBDA k : IF named(k) THEN <<>> ELSE IF header(k) THEN <<Space>> ELSE <<first[k]>>)
      goesOn(k) == k \in 1 .. Len(bare) - 1 /\ bare[k] = Equals /\ bare[k + 1] = Newline
  IN  Rewritten(bare, LAMBDA k : IF goesOn(k) \/ goesOn(k - 1) THEN <<>> ELSE <<bare[k]>>)

------------------------------------------------------------------------------
(* JSON: a value is a record of one field, a string, a scalar, a list or an *)
(* object, which is the sequence of its members                             *)

Is(json, kind) == kind \in DOMAIN json

\* The string under a key of an object, or none.
StringsUnder(object, key) ==
  Mapped(SelectSeq(object, LAMBDA m : m.key = <<key>> /\ Is(m.value, "string")), LAMBDA m : m.value.string)

\* What a user says is taken once more, as it is.
SaidByUser(object) ==
  LET said == StringsUnder(object, Content) \o StringsUnder(object, Said)
  IN  IF StringsUnder(object, Role) = << <<User>> >> /\ said # <<>> /\ said[1] # <<>> THEN <<said[1]>> ELSE <<>>

\* collectJsonStrings: the segments out and those of a value; of an object whose
\* segments are too many the first member's key is still taken.
RECURSIVE collectJsonStrings(_, _, _)
collectJsonStrings(json, out, depth) ==
  LET element(taken, value) == collectJsonStrings(value, taken, depth + 1)
      member(taken, n) ==
        IF n > 1 /\ Len(taken) >= MaxSegments THEN taken
        ELSE LET key == json.object[n].key
             IN  element(Append(taken, [i \in DOMAIN key |-> IF key[i] = Mark THEN Space ELSE key[i]]),
                         json.object[n].value)
  IN  IF depth > MaxJsonDepth \/ Len(out) >= MaxSegments THEN out
      ELSE CASE Is(json, "string") -> IF Len(Collapsed(json.string)) < MinString THEN out
                                      ELSE Append(out, Collapsed(json.string))
             [] Is(json, "scalar") -> Append(out, <<json.scalar>>)
             [] Is(json, "list")   -> Reduce(element, out, CutTo(MaxJsonArray, json.list))
             [] Is(json, "object") -> ReduceIndices(member, out \o SaidByUser(json.object), json.object)
             [] OTHER              -> out

\* A text that is no JSON is taken as it is.
extractJsonText(body) ==
  IF body.magic # "text" \/ body.entries = <<>> THEN decodeUtf8(body)
  ELSE JoinedBy(<<Mark, Space>>, collectJsonStrings(body.entries[1], <<>>, 0))

------------------------------------------------------------------------------
(* PDF and DOCX *)

\* A string: brackets with no brackets in them.
StringAt(text, i)      == SubSeq(text, i + 1, NextOf(text, i, {Open, Close}) - 1)
IsString(text, i, min) ==
  LET j == NextOf(text, i, {Open, Close})
  IN  text[i] = Open /\ j # 0 /\ text[j] = Close /\ j - i - 1 \in min .. MaxSnippet
Snippets(text, places) ==
  SelectSeq(Mapped(places, LAMBDA i : normalizeText(StringAt(text, i))), LAMBDA s : Len(s) >= MinSnippet)

\* An operator behind a place and any blanks.
Followed(text, j, operator) ==
  \E k \in j + 1 .. Len(text) : text[k] = operator /\ \A m \in j + 1 .. k - 1 : text[m] \in Blanks

RECURSIVE ArraysOf(_)
ArraysOf(text) ==
  LET ends(i) == { j \in i + 1 .. Len(text) : text[j] = CloseArray /\ Followed(text, j, TJ) }
      opened  == { i \in DOMAIN text : text[i] = OpenArray /\ ends(i) # {} }
      last    == Min(ends(Min(opened)))
  IN  IF opened = {} THEN <<>>
      ELSE <<SubSeq(text, Min(opened) + 1, last - 1)>> \o ArraysOf(AfterPlace(last, text))

\* Readable characters in a row, from a word on.
Runs(text) ==
  LET readable(i) == text[i] \in Nat \cup {Space, Mark, Comma, Open, Close}
      starts == Places(text, LAMBDA i : text[i] \in Nat /\ ~\E k \in 1 .. i - 1 :
                                          text[k] \in Nat /\ \A m \in k .. i : readable(m))
      stop(i) == Max({ j \in i .. Len(text) : \A m \in i .. j : readable(m) })
  IN  SelectSeq(Mapped(starts, LAMBDA i : SubSeq(text, i, stop(i))), LAMBDA run : Len(run) >= MinRun)

\* The strings that are shown alone, then those shown in arrays; without any,
\* whatever can be read.
extractPdfText(text) ==
  LET alone  == Snippets(text, Places(text, LAMBDA i : IsString(text, i, MinSnippet)
                                                         /\ Followed(text, NextOf(text, i, {Open, Close}), Tj)))
      pieces(array) == Snippets(array, Places(array, LAMBDA i : IsString(array, i, 1)))
      arrays == SelectSeq(Mapped(ArraysOf(text), pieces), LAMBDA p : p # <<>>)
      shown  == alone \o Mapped(arrays, LAMBDA p : JoinedBy(<<Space>>, p))
  IN  JoinedBy(<<Newline>>, IF shown = <<>> THEN CutTo(MaxRuns, Runs(text)) ELSE shown)

\* The parts of a document that are read.
DocxParts(body) ==
  SelectSeq(unzipSync(body),
            LAMBDA e : /\ IsPrefix(<<"word", "/">>, e.path) /\ EndsWith(e.path, <<".xml">>)
                       /\ \E i \in DOMAIN e.path : e.path[i] \in {"document", "header", "footer", "footnotes", "endnotes"})

extractDocxText(body) ==
  JoinedBy(<<Newline>>, SelectSeq(Mapped(DocxParts(body), LAMBDA e : extractXmlText(decodeUtf8(e.body))),
                                  LAMBDA t : t # <<>>))

------------------------------------------------------------------------------

Raw   == {".txt", ".md", ".log", ".rtf", ".yaml", ".yml"}
Csv   == {".csv", ".tsv"}
Json  == {".json", ".jsonl"}
Html  == {".html", ".htm"}
Xml   == {".xml", ".ics"}
Mails == {".mbox", ".eml"}

\* Whether the reader of an extension can make something of the bytes; the others
\* are warned about.
CanRead(ext, body) ==
  CASE ext = ".docx" -> body.magic = "zip" /\ body.entries # Malformed
    [] ext \in Raw \cup Csv \cup Json \cup Html \cup Xml \cup Mails \cup {".pdf"} -> TRUE
    [] OTHER -> body.magic = "text"

\* extractTextFromExtension; any other text is taken as it is.
extractTextFromExtension(ext, body) ==
  LET text == decodeUtf8(body)
  IN  CASE ext \in Csv   -> extractCsvText(text)
        [] ext \in Json  -> extractJsonText(body)
        [] ext \in Html  -> stripHtmlLike(text)
        [] ext \in Xml   -> extractXmlText(text)
        [] ext \in Mails -> extractMboxText(text)
        [] ext = ".pdf"  -> extractPdfText(text)
        [] ext = ".docx" -> extractDocxText(body)
        [] OTHER         -> text
=============================================================================
