--------------------------- MODULE ImportPackage ---------------------------
(***************************************************************************)
(* Reading an export package (lib/import/package-parser.ts and              *)
(* package-adapters/), as operators: what kind of package a file is, the    *)
(* limits every entry is held to at every depth, and the adapter the paths  *)
(* select.                                                                  *)
(*                                                                         *)
(* A path is the sequence of its words, separators and extensions, all in   *)
(* lower case.  What an entry holds is its body: what its first bytes look  *)
(* like, the entries if it is an archive, and the kind of text otherwise.   *)
(***************************************************************************)
EXTENDS Arrays, FiniteSets

CONSTANTS
  MaxEntries,      \* the limits: DEFAULT_PACKAGE_SECURITY_LIMITS
  MaxTotal,
  MaxDepth,
  MaxSingle,
  Malformed        \* in place of entries: an archive that cannot be read

ASSUME PackageAssumption == {MaxEntries, MaxTotal, MaxDepth, MaxSingle} \subseteq Nat

Sources == {"gmail", "amazon", "claude", "notion", "gemini", "calendar", "chatgpt"}

Entry(path, kind, size, body) == [path |-> path, kind |-> kind, size |-> size, body |-> body]
Text(data)                    == [magic |-> "text", entries |-> <<>>, data |-> data]
Archive(magic, entries)       == [magic |-> magic, entries |-> entries, data |-> "binary"]

EndsWith(path, s) == IsSuffix(s, path)
Includes(path, s) == s \in SubSeqs(path)

------------------------------------------------------------------------------
(* Kinds of packages *)

Archives == {"zip", "gzip"}

\* detectPackageType: the name decides and must agree with the first bytes;
\* without a telling name the first bytes decide.
detectPackageType(name, body) ==
  LET ends(e) == EndsWith(name, <<e>>)
  IN  CASE ends(".zip")
                        -> IF body.magic = "zip" THEN "zip" ELSE "FORMAT_SPOOFED"
        [] ends(".tgz") \/ ends(".tar.gz") \/ ends(".gz")
                        -> IF body.magic = "gzip" THEN "tgz" ELSE "FORMAT_SPOOFED"
        [] ends(".ics") -> IF body.magic \in Archives THEN "FORMAT_SPOOFED" ELSE "ics"
        [] ends(".json") -> IF body.magic \in Archives THEN "FORMAT_SPOOFED" ELSE "json"
        [] OTHER -> CASE body.magic = "zip"  -> "zip"
                      [] body.magic = "gzip" -> "tgz"
                      [] body.magic = "text" -> "json"
                      [] OTHER               -> "UNSUPPORTED_FORMAT"

------------------------------------------------------------------------------
(* Limits *)

Slashes(path) == [i \in DOMAIN path |-> IF path[i] = "\\" THEN "/" ELSE path[i]]

\* assertSafePath: no absolute path, no way up, no drive.
assertSafePath(path) ==
  LET p == Slashes(path)
  IN  /\ p # <<>> /\ p[1] \notin {"/", "..", "c:"}
      /\ ~Includes(p, <<"..", "/">>)

\* The entries of an archive.  Only tar tells links from files.
unzipSync(body)       == [i \in DOMAIN body.entries |-> [body.entries[i] EXCEPT !.kind = "file"]]
parseTarEntries(body) == body.entries

isZip(e) == EndsWith(e.path, <<".zip">>) \/ e.body.magic = "zip"
isTgz(e) ==
  \/ EndsWith(e.path, <<".tgz">>) \/ EndsWith(e.path, <<".tar.gz">>)
  \/ e.body.magic = "gzip"

\* consumeSecurityBudget: the ledger after one more entry.
consumeSecurityBudget(ledger, e) ==
  LET after == [ledger EXCEPT !.count = @ + 1, !.bytes = @ + e.size]
      throw(code) == [after EXCEPT !.code = code]
  IN  IF after.count > MaxEntries THEN throw("MAX_ENTRIES_EXCEEDED")
      ELSE IF e.size > MaxSingle THEN throw("MAX_SINGLE_FILE_BYTES_EXCEEDED")
      ELSE IF after.bytes > MaxTotal THEN throw("MAX_UNCOMPRESSED_BYTES_EXCEEDED")
      ELSE after

RECURSIVE enforceLimits(_, _, _)

\* What lies in an entry that is, or calls itself, an archive.
Contents(e) == IF isZip(e) THEN unzipSync(e.body) ELSE parseTarEntries(e.body)
Unpacks(e)  == e.body.magic = (IF isZip(e) THEN "zip" ELSE "gzip") /\ e.body.entries # Malformed

\* Mutant: every nested archive is given a ledger of its own.
InspectsAfresh(ledger, e, depth) ==
  LET throw(code) == [ledger EXCEPT !.code = code]
      own         == enforceLimits([count |-> 0, bytes |-> 0, code |-> "ok"], Contents(e), depth + 1)
  IN  IF depth > MaxDepth THEN throw("NESTED_ARCHIVE_DEPTH_EXCEEDED")
      ELSE IF ~isZip(e) /\ ~isTgz(e) THEN ledger
      ELSE IF ~Unpacks(e) THEN throw("ADAPTER_PARSE_FAILED")
      ELSE throw(own.code)

\* inspectNestedArchive: what an entry holds is entered in the same ledger.
inspectNestedArchive(ledger, e, depth) ==
  LET throw(code) == [ledger EXCEPT !.code = code]
  IN  IF depth > MaxDepth THEN throw("NESTED_ARCHIVE_DEPTH_EXCEEDED")
      ELSE IF ~isZip(e) /\ ~isTgz(e) THEN ledger
      ELSE IF ~Unpacks(e) THEN throw("ADAPTER_PARSE_FAILED")
      ELSE enforceLimits(ledger, Contents(e), depth + 1)

\* One entry of enforceLimits; nothing is looked at after an error.
Enforce(ledger, e, depth) ==
  IF ledger.code # "ok" THEN ledger
  ELSE IF ~assertSafePath(e.path) THEN [ledger EXCEPT !.code = "PATH_TRAVERSAL"]
  ELSE IF e.kind = "symlink" THEN [ledger EXCEPT !.code = "SYMLINK_ENTRY_REJECTED"]
  ELSE IF e.kind = "hardlink" THEN [ledger EXCEPT !.code = "HARDLINK_ENTRY_REJECTED"]
  ELSE LET paid == consumeSecurityBudget(ledger, e)
       IN  IF paid.code # "ok" THEN paid ELSE inspectNestedArchive(paid, e, depth)

enforceLimits(ledger, entries, depth) ==
  IF entries = <<>> THEN ledger
  ELSE enforceLimits(Enforce(ledger, Head(entries), depth), Tail(entries), depth)

------------------------------------------------------------------------------
(* Adapters *)

\* helpers.normalizePath
RECURSIVE WithoutDot(_)
WithoutDot(p) ==
  IF Len(p) > 1 /\ p[1] = "." /\ p[2] = "/"
  THEN LET n == CHOOSE n \in 2 .. Len(p) : /\ \A i \in 2 .. n : p[i] = "/"
                                           /\ n = Len(p) \/ p[n + 1] # "/"
       IN  SubSeq(p, n + 1, Len(p))
  ELSE p
normalizePath(path) == WithoutDot(Slashes(path))

isGmailTakeoutMbox(p)      == EndsWith(p, <<".mbox">>) /\ Includes(p, <<"/", "mail", "/">>)
isAmazonOrderHistoryCsv(p) == EndsWith(p, <<".csv">>) /\ Includes(p, <<"retail", "orderhistory">>)

\* The JSON dataset each adapter looks for.
IsDataset(source, p) ==
  CASE source = "gmail"    -> \/ EndsWith(p, <<"takeout", "/", "mail", "/", "messages", ".json">>)
                              \/ EndsWith(p, <<"gmail", ".json">>)
    [] source = "amazon"   -> \/ EndsWith(p, <<"records", "/", "physical_orders", ".json">>)
                              \/ EndsWith(p, <<"amazon", ".json">>)
    [] source = "claude"   -> \/ EndsWith(p, <<"claude", "/", "conversations", ".json">>)
                              \/ EndsWith(p, <<"claude", ".json">>)
    [] source = "notion"   -> \/ EndsWith(p, <<"notion-export", "/", "pages", ".json">>)
                              \/ EndsWith(p, <<"notion", ".json">>)
    [] source = "gemini"   -> \/ EndsWith(p, <<"gemini", "/", "conversations", ".json">>)
                              \/ EndsWith(p, <<"gemini", ".json">>)
    [] source = "calendar" -> EndsWith(p, <<"calendar", ".json">>)
    [] source = "chatgpt"  -> \/ EndsWith(p, <<"conversations", ".json">>)
                              \/ EndsWith(p, <<"chatgpt", ".json">>)

IsNotionContent(p) == EndsWith(p, <<".md">>) \/ EndsWith(p, <<".csv">>)

\* The id Notion puts behind a name, as the word "id".
hasNotionStyleIdSuffix(p) == Len(p) > 1 /\ p[Len(p) - 1] = "id"

NotionMarks(p) ==
  \/ \E i \in DOMAIN p : p[i] \in {"notion", "notion-export"}
  \/ EndsWith(p, <<"index", ".html">>)

IsIcs(p) == EndsWith(p, <<"calendar", ".ics">>)

\* canHandle without a selected source.  Claude, Gemini, Calendar and ChatGPT
\* look at the path as it is written.
canHandle(source, paths) ==
  LET normal == { normalizePath(p) : p \in paths }
  IN  CASE source = "gmail"  -> \E p \in normal : isGmailTakeoutMbox(p) \/ IsDataset("gmail", p)
        [] source = "amazon" -> \E p \in normal : isAmazonOrderHistoryCsv(p) \/ IsDataset("amazon", p)
        [] source = "notion" ->
             \/ \E p \in normal : IsDataset("notion", p)
             \/ /\ \E p \in normal : IsNotionContent(p)
                /\ \/ \E p \in normal : NotionMarks(p)
                   \/ \E p \in normal : IsNotionContent(p) /\ hasNotionStyleIdSuffix(p)
        [] source = "calendar" -> \E p \in paths : \/ IsIcs(p)
                                                   \/ IsDataset("calendar", p)
        [] OTHER -> \E p \in paths : IsDataset(source, p)

\* Mutant: ChatGPT, whose pattern is the widest, is tried first.
PACKAGE_ADAPTERS_ChatGPTFirst ==
  <<"chatgpt", "gmail", "amazon", "claude", "notion", "gemini", "calendar">>

\* PACKAGE_ADAPTERS, in the order they are tried.
PACKAGE_ADAPTERS == <<"gmail", "amazon", "claude", "notion", "gemini", "calendar", "chatgpt">>

\* selectPackageAdapter with selectedSource, or "auto"
selectPackageAdapter(paths, selected) ==
  IF selected # "auto" THEN selected
  ELSE LET able == { i \in DOMAIN PACKAGE_ADAPTERS : canHandle(PACKAGE_ADAPTERS[i], paths) }
       IN  IF able = {} THEN "none"
           ELSE PACKAGE_ADAPTERS[CHOOSE i \in able : \A j \in able : i <= j]

\* What a text must be for its reader: an array, for ChatGPT and Claude also
\* an object around one.
Readable(source, data) ==
  data = "array" \/ (data = "wrapped" /\ source \in {"chatgpt", "claude"})

\* Whether the adapter of a source reads a file.
Reads(source, p) ==
  CASE source = "gmail"  -> isGmailTakeoutMbox(p)
    [] source = "amazon" -> isAmazonOrderHistoryCsv(p)
    [] source = "notion" -> IsNotionContent(p)
    [] OTHER             -> FALSE

\* findFile: the dataset is the first file whose normalised path matches.
findFile(source, files) ==
  LET found == { i \in DOMAIN files : IsDataset(source, normalizePath(files[i].path)) }
  IN  IF found = {} THEN "missing"
      ELSE files[CHOOSE i \in found : \A j \in found : i <= j].body.data

\* A mailbox or a table may be empty; a page is one record whatever it says.
HasRecords(source, f) ==
  LET p == normalizePath(f.path)
  IN  Reads(source, p) /\ (f.body.data = "rows" \/ EndsWith(p, <<".md">>))

\* normalize: whether the selected adapter finds what it reads.
Normalizes(source, files) ==
  LET ics   == { i \in DOMAIN files : IsIcs(normalizePath(files[i].path)) }
      first == files[CHOOSE i \in ics : \A j \in ics : i <= j]
      csv   == source = "amazon" /\ \E f \in ToSet(files) : Reads(source, normalizePath(f.path))
  IN  \/ \E f \in ToSet(files) : HasRecords(source, f)
      \/ source = "calendar" /\ ics # {} /\ first.body.data # "empty"
      \/ ~csv /\ Readable(source, findFile(source, files))

------------------------------------------------------------------------------

Threw(code) == [ok |-> FALSE, code |-> code, source |-> "none"]

\* The entries parseImportPayload starts from.
TopEntries(file) ==
  CASE detectPackageType(file.path, file.body) = "zip" -> unzipSync(file.body)
    [] detectPackageType(file.path, file.body) = "tgz" -> parseTarEntries(file.body)
    [] OTHER -> <<file>>

Ledger(file) == enforceLimits([count |-> 0, bytes |-> 0, code |-> "ok"], TopEntries(file), 1)

parseImportPayload(file, selected) ==
  LET type   == detectPackageType(file.path, file.body)
      top    == TopEntries(file)
      source == selectPackageAdapter({ e.path : e \in ToSet(top) }, selected)
  IN  IF type \in {"FORMAT_SPOOFED", "UNSUPPORTED_FORMAT"} THEN Threw(type)
      ELSE IF type \in {"zip", "tgz"} /\ file.body.entries = Malformed
           THEN Threw("ADAPTER_PARSE_FAILED")
      ELSE IF Ledger(file).code # "ok" THEN Threw(Ledger(file).code)
      ELSE IF source = "none" \/ ~Normalizes(source, top) THEN Threw("ADAPTER_PARSE_FAILED")
      ELSE [ok |-> TRUE, code |-> "ok", source |-> source]

------------------------------------------------------------------------------
(* Correctness *)

\* Every entry of a list, with its depth, that can be reached by unpacking.
RECURSIVE Everything(_, _)
Everything(entries, depth) ==
  LET below(e) == IF (isZip(e) \/ isTgz(e)) /\ Unpacks(e) THEN Everything(Contents(e), depth + 1)
                                                          ELSE <<>>
  IN  FlattenSeq([i \in DOMAIN entries |->
        <<[entry |-> entries[i], depth |-> depth]>> \o below(entries[i])])

WithinLimits(file) ==
  LET all == Everything(TopEntries(file), 1)
  IN  /\ Len(all) <= MaxEntries
      /\ Reduce(LAMBDA sum, x : sum + x.entry.size, 0, all) <= MaxTotal
      /\ \A x \in ToSet(all) :
           /\ x.depth <= MaxDepth
           /\ x.entry.kind = "file" /\ x.entry.size <= MaxSingle
           /\ assertSafePath(x.entry.path)
           /\ isZip(x.entry) \/ isTgz(x.entry) => Unpacks(x.entry)

\* A package is accepted exactly if all that lies in it, at every depth, is
\* within the limits together, although entries are counted one by one and
\* archives in archives by another function (package-parser.ts: one ledger for
\* the package and what is nested in it).
JudgedByLimits(file) ==
  /\ detectPackageType(file.path, file.body) \in {"zip", "tgz", "json", "ics"}
  /\ file.body.entries # Malformed
  => (Ledger(file).code = "ok" <=> WithinLimits(file))

\* The entries of an export are recognised as its source's, packed either way,
\* wherever they lie and whatever else is there (the order of PACKAGE_ADAPTERS
\* decides between patterns that overlap).
Recognised(source, entries) ==
  \A name \in {<<"export", ".zip">>, <<"export", ".tgz">>} :
    LET magic == IF name[2] = ".zip" THEN "zip" ELSE "gzip"
    IN  parseImportPayload(Entry(name, "file", 1, Archive(magic, entries)), "auto").source = source
=============================================================================
