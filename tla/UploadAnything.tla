--------------------------- MODULE UploadAnything ---------------------------
(***************************************************************************)
(* Uploading any files (lib/upload-anything.ts), as operators: archives are *)
(* opened up to a depth, every other file is read by its extension, and     *)
(* what was read is cut into records for the extractor.                     *)
(*                                                                         *)
(* Entries and paths are those of ImportPackage; an entry of the kind "cut" *)
(* is one whose bytes a tar archive ends in.  What gzip holds is the body   *)
(* of the one entry of the archive.                                         *)
(***************************************************************************)
EXTENDS TextReaders

CONSTANTS
  MaxFileBytes,        \* MAX_FILE_BYTES
  MaxArchiveEntries,   \* MAX_ARCHIVE_ENTRIES, of one archive
  MaxNestedDepth,      \* MAX_NESTED_ARCHIVE_DEPTH
  MaxRecordChars       \* MAX_RECORD_CHARS

ASSUME UploadAssumption ==
  /\ {MaxFileBytes, MaxArchiveEntries, MaxNestedDepth} \subseteq Nat
  /\ MaxRecordChars \in Nat \ {0}

------------------------------------------------------------------------------
(* Texts *)

fileExt(path) == Last(path)

looksLikeArchive(body) == body.magic \in {"zip", "gzip", "tar"}
isArchivePath(path)    == fileExt(path) \in {".zip", ".tgz", ".tar.gz", ".tar", ".gz"}

\* inferSourceType: the first source the path speaks of.
inferSourceType(path) ==
  LET speaks(words) == \E i \in DOMAIN path : path[i] \in words
  IN  CASE speaks({"gmail", "mbox", ".mbox", "takeout"}) \/ Includes(path, <<"/", "mail">>) -> "gmail"
        [] speaks({"amazon", "orderhistory", "retail"})          -> "amazon"
        [] speaks({"claude", "anthropic"})                       -> "claude"
        [] speaks({"notion", "notion-export"})                   -> "notion"
        [] speaks({"gemini"})                                    -> "gemini"
        [] speaks({"calendar"}) \/ EndsWith(path, <<".ics">>)    -> "calendar"
        [] OTHER                                                 -> "chatgpt"

\* Mutant: a last piece that does not fill a record is left out.
ChunksInFull(text) ==
  IF Len(text) <= MaxRecordChars THEN <<text>>
  ELSE SelectSeq([i \in 1 .. Len(text) \div MaxRecordChars |->
                    normalizeText(SubSeq(text, (i - 1) * MaxRecordChars + 1, i * MaxRecordChars))],
                 LAMBDA c : c # <<>>)

\* chunkText: pieces of one length, trimmed.
chunkText(text) ==
  IF Len(text) <= MaxRecordChars THEN <<text>>
  ELSE LET n == (Len(text) + MaxRecordChars - 1) \div MaxRecordChars
           piece(i) == SubSeq(text, (i - 1) * MaxRecordChars + 1,
                              IF i = n THEN Len(text) ELSE i * MaxRecordChars)
       IN  SelectSeq([i \in 1 .. n |-> normalizeText(piece(i))], LAMBDA c : c # <<>>)

\* What is read of one file: blocks of text, and warnings that name a path.
NothingRead     == [blocks |-> <<>>, warnings |-> {}]
Warned(path)    == [NothingRead EXCEPT !.warnings = {path}]
Joined(results) == Reduce(LAMBDA a, b : [blocks |-> a.blocks \o b.blocks, warnings |-> a.warnings \cup b.warnings],
                          NothingRead, results)

\* One block of the text that is read, normalised and cut, or a warning.
BlockOf(path, text) ==
  IF text = <<>> THEN NothingRead
  ELSE [NothingRead EXCEPT !.blocks =
          <<[path |-> path, source |-> inferSourceType(path), text |-> CutTo(MaxTextChars, text)]>>]
ReadText(path, body) ==
  IF CanRead(fileExt(path), body)
  THEN BlockOf(path, normalizeText(extractTextFromExtension(fileExt(path), body)))
  ELSE Warned(path)

------------------------------------------------------------------------------
(* Archives *)

RECURSIVE parseArchivePayload(_, _, _)

ReadEntry(archive, e, depth) ==
  LET path == archive \o <<":">> \o e.path
  IN  IF e.size = 0 \/ e.kind # "file" THEN NothingRead
      ELSE IF e.size > MaxFileBytes THEN Warned(path)
      ELSE IF isArchivePath(e.path) \/ looksLikeArchive(e.body) THEN parseArchivePayload(path, e.body, depth + 1)
      ELSE ReadText(path, e.body)

\* Links of a tar archive count as entries and are passed over.
ReadEntries(path, entries, depth) ==
  LET tooMany == IF Len(entries) > MaxArchiveEntries THEN <<Warned(path)>> ELSE <<>>
  IN  Joined(Mapped(CutTo(MaxArchiveEntries, entries), LAMBDA e : ReadEntry(path, e, depth)) \o tooMany)

parseZipArchive(path, body, depth) ==
  IF body.magic # "zip" \/ body.entries = Malformed THEN Warned(path)
  ELSE ReadEntries(path, unzipSync(body), depth)

\* parseTarEntries: what is not a tar archive has no header that can be read, and
\* an entry that is cut is the end.
TarEntries(body) ==
  LET cuts == Places(body.entries, LAMBDA i : body.entries[i].kind = "cut")
  IN  IF body.magic # "tar" THEN <<>>
      ELSE IF cuts = <<>> THEN parseTarEntries(body) ELSE CutTo(cuts[1] - 1, parseTarEntries(body))

parseTarArchive(path, body, depth) == ReadEntries(path, TarEntries(body), depth)

parseGzipArchive(path, body, depth) ==
  IF body.magic # "gzip" \/ body.entries = Malformed THEN Warned(path)
  ELSE LET inflated == body.entries[1].body
           stripped == IF fileExt(path) = ".gz" THEN Front(path) ELSE path
       IN  IF inflated.magic = "tar" \/ fileExt(path) \in {".tgz", ".tar.gz"}
           THEN parseTarArchive(path, inflated, depth)
           ELSE ReadText(stripped, inflated)

\* What the bytes look like goes before the name, for each kind in turn.
parseArchivePayload(path, body, depth) ==
  CASE depth > MaxNestedDepth                                                   -> Warned(path)
    [] depth <= MaxNestedDepth /\ (body.magic = "zip" \/ fileExt(path) = ".zip") -> parseZipArchive(path, body, depth)
    [] OTHER ->
         IF body.magic = "gzip" \/ fileExt(path) \in {".gz", ".tgz", ".tar.gz"} THEN parseGzipArchive(path, body, depth)
         ELSE IF body.magic = "tar" \/ fileExt(path) = ".tar" THEN parseTarArchive(path, body, depth)
         ELSE NothingRead

------------------------------------------------------------------------------

\* A file that yields nothing as an archive is read as a text.
OrAsText(archive, text) ==
  IF archive.blocks # <<>> THEN archive ELSE [text EXCEPT !.warnings = @ \cup archive.warnings]
parseFileToBlocks(path, body) == OrAsText(parseArchivePayload(path, body, 0), ReadText(path, body))

RecordsOf(block) ==
  LET chunks == chunkText(block.text)
  IN  [i \in DOMAIN chunks |-> [id |-> block.path \o <<"#", i>>, name |-> block.path,
                                source |-> block.source, content |-> chunks[i]]]

ParsedFile(f) ==
  IF f.size = 0 \/ f.size > MaxFileBytes THEN Warned(f.path) ELSE parseFileToBlocks(f.path, f.body)

UploadOf(read) ==
  LET all == Joined(read)
  IN  [records      |-> FlattenSeq(Mapped(all.blocks, RecordsOf)),
       warnings     |-> all.warnings,
       parsedFiles  |-> Len(SelectSeq(read, LAMBDA r : r.blocks # <<>>)),
       skippedFiles |-> Len(SelectSeq(read, LAMBDA r : r.blocks = <<>>))]
parseUniversalUploadFiles(files) == UploadOf(Mapped(files, ParsedFile))

------------------------------------------------------------------------------
(* Correctness *)

\* Where mark-up hides a word, by the signs around it: in a script, in a tag
\* that no script hides, in a mail beyond those that are read or in the header
\* that names its encoding.
InScript(text, k) ==
  /\ \E i \in 1 .. k : text[i] = Script /\ \A m \in i .. k - 1 : text[m] # ScriptEnd
  /\ \E j \in k .. Len(text) : text[j] = ScriptEnd

InTag(text, k, Outside(_)) ==
  LET ends(m) == Outside(m) /\ text[m] \in {Greater, ScriptEnd}
  IN  /\ \E i \in 1 .. k - 1 : text[i] \in {Less, Script} /\ Outside(i) /\ \A m \in i .. k : ~ends(m)
      /\ \E j \in k + 1 .. Len(text) : ends(j)

InLateMail(text, k) ==
  Cardinality({ i \in 1 .. k - 1 : text[i] = Newline /\ text[i + 1] = FromSign }) >= MaxMails

InEncoding(text, k) == \E i \in 1 .. k - 1 : text[i] = Encoding /\ \A m \in i .. k : text[m] # Newline

Hidden(ext, text, k) ==
  CASE ext \in Html            -> InScript(text, k) \/ InTag(text, k, LAMBDA m : ~InScript(text, m))
    [] ext \in Xml \cup {".docx"} -> InTag(text, k, LAMBDA m : TRUE)
    [] ext \in Mails           -> InLateMail(text, k) \/ InEncoding(text, k)
    [] OTHER                   -> FALSE

\* All that is written in a JSON value, and what of it is lost: short strings,
\* and what lies too deep or too far down a list.
RECURSIVE JsonPieces(_, _, _)
JsonPieces(json, depth, far) ==
  LET piece(text, short) == <<[text |-> text, lost |-> short \/ far \/ depth > MaxJsonDepth]>>
  IN  CASE Is(json, "string") -> piece(json.string, Len(Collapsed(json.string)) < MinString)
        [] Is(json, "scalar") -> piece(<<json.scalar>>, FALSE)
        [] Is(json, "list")   ->
             Rewritten(json.list, LAMBDA n : JsonPieces(json.list[n], depth + 1, far \/ n > MaxJsonArray))
        [] Is(json, "object") ->
             Rewritten(json.object, LAMBDA n : piece(json.object[n].key, FALSE)
                                                 \o JsonPieces(json.object[n].value, depth + 1, far))
        [] OTHER              -> <<>>

\* The strings of a PDF that are shown alone.
ShownAlone(text) ==
  { SubSeq(text, p[1] + 1, p[2] - 1) :
      p \in { q \in (DOMAIN text) \X (DOMAIN text) :
                /\ q[2] - q[1] - 1 \in MinSnippet .. MaxSnippet
                /\ text[q[1]] = Open /\ \A m \in q[1] + 1 .. q[2] - 1 : text[m] \notin Blanks \cup {Open, Close}
                /\ text[q[2]] = Close /\ q[2] < Len(text) /\ text[q[2] + 1] = Tj } }

\* The words read of a text are its own: those that nothing hides, in order, as
\* many as are read of one file; of a JSON text every key, scalar and string
\* that is not lost, unless it has too many; of a PDF at least the strings shown
\* alone.
ReadAsWritten(ext, body, words) ==
  LET text   == decodeUtf8(body)
      fits   == Len(text) * (IF ext \in Csv \cup Json THEN 2 ELSE 1) <= MaxTextChars
      shown  == Mapped(Places(text, LAMBDA k : text[k] \in Nat /\ ~Hidden(ext, text, k)), LAMBDA k : text[k])
      pieces == JsonPieces(body.entries[1], 0, FALSE)
      has(piece) == ToSet(WordsOf(piece)) \subseteq ToSet(words)
  IN  /\ ToSet(words) \subseteq ToSet(text)
      /\ CASE ext = ".pdf" -> fits => \A s \in ShownAlone(text) : has(s)
           [] ext \in Json /\ body.magic = "text" /\ body.entries # <<>> ->
                fits /\ 2 * Len(pieces) <= MaxSegments => \A p \in ToSet(pieces) : p.lost \/ has(p.text)
           [] OTHER -> IsPrefix(words, shown) /\ (fits => words = shown)

\* The texts in a file, however deep, each with its path and the archives it
\* lies in.  A text that calls itself a tar archive, or is packed as one, is
\* none, and what follows the cut of a tar archive is gone.
RECURSIVE TextsIn(_, _, _)
TextsIn(path, body, within) ==
  LET inner == within \cup {path}
      opens(magics) == body.magic \in magics /\ body.entries # Malformed
      held   == body.entries[1].body
      name   == IF fileExt(path) = ".gz" THEN Front(path) ELSE path
      there(i) == LET e == body.entries[i]
                  IN  /\ e.size > 0 /\ (fileExt(e.path) = ".tar" => looksLikeArchive(e.body))
                      /\ body.magic = "tar" => e.kind = "file" /\ \A j \in 1 .. i : body.entries[j].kind # "cut"
      entry(i) == TextsIn(path \o <<":">> \o body.entries[i].path, body.entries[i].body, inner)
      parts  == Mapped(DocxParts(held), LAMBDA e : decodeUtf8(e.body))
  IN  CASE opens({"zip", "tar"}) -> FlattenSeq(Mapped(Places(body.entries, there), entry))
        [] opens({"gzip"}) ->
             CASE held.magic = "tar" -> TextsIn(path, held, inner)
               [] held.magic # "tar" /\ fileExt(path) \in {".tgz", ".tar.gz"} -> <<>>
               [] fileExt(name) = ".docx" /\ held.magic = "zip" /\ held.entries # Malformed ->
                    <<[path |-> name, body |-> Bytes("text", <<>>, JoinedBy(<<Newline>>, parts)), within |-> inner]>>
               [] OTHER -> TextsIn(name, held, inner)
        [] OTHER -> <<[path |-> path, body |-> body, within |-> inner]>>

\* Of whatever is uploaded every text is warned about, itself or an archive
\* around it, or read as it is written, up to what its reader leaves out
\* (ReadAsWritten) and what tar archives lose (TextsIn), which is lost silently.
\* Every record is of a text, or of an archive that had none, and no longer than
\* a record may be.
AccountedFor(files) ==
  LET Accounts(result, texts) ==
        LET under(path) == WordsOf(FlattenSeq(Mapped(SelectSeq(result.records, LAMBDA r : r.name = path), LAMBDA r : r.content)))
            alone(t)    == Cardinality({ i \in DOMAIN texts : texts[i].path = t.path }) = 1
        IN  /\ \A t \in ToSet(texts) :
                 \/ (t.within \cup {t.path}) \cap result.warnings # {}
                 \/ alone(t) => ReadAsWritten(fileExt(t.path), t.body, under(t.path))
            /\ \A r \in ToSet(result.records) :
                 /\ 0 < Len(r.content) /\ Len(r.content) <= MaxRecordChars
                 /\ \/ \E t \in ToSet(texts) : t.path = r.name
                    \/ \E f \in ToSet(files) : f.path = r.name /\ f.body.magic # "text"
            /\ result.parsedFiles + result.skippedFiles = Len(files)
  IN  Accounts(parseUniversalUploadFiles(files),
               FlattenSeq(Mapped(SelectSeq(files, LAMBDA f : f.size > 0), LAMBDA f : TextsIn(f.path, f.body, {}))))
=============================================================================
