------------------------ MODULE ConversationExports ------------------------
(***************************************************************************)
(* The readers of conversations (chatgpt-adapter.ts, claude-adapter.ts) and *)
(* what the app takes from them: what the user wrote, message by message.   *)
(*                                                                         *)
(* A JSON value is <<"text", word>>, <<"list", values>>, <<"object",        *)
(* members>> or <<"null">>, a function from keys to values its members;     *)
(* Malformed is a text that is no JSON.  A text is trimmed, Blank if there  *)
(* is nothing to it; numbers and timestamps are left out.                   *)
(***************************************************************************)
EXTENDS Arrays, FiniteSets

CONSTANTS Malformed, Nothing

Text(word) == <<"text", word>>
Array(values) == <<"list", values>>
Object(members) == <<"object", members>>
Null == <<"null">>
Blank == ""

IsText(json)  == json[1] = "text"
IsArray(json) == json[1] = "list"

\* asRecord: an array passes for an object without members.
asRecord(json) == CASE json[1] = "object" -> json[2] [] json[1] = "list" -> <<>> [] OTHER -> Nothing

Member(record, key) == IF key \in DOMAIN record THEN record[key] ELSE Null

\* The value of the first key that is there and not null (??).
Coalesced(record, keys) ==
  LET there == SelectSeq(keys, LAMBDA k : Member(record, k) # Null)
  IN  IF there = <<>> THEN Null ELSE record[there[1]]

pickFirstString(record, keys) ==
  LET texts == SelectSeq(keys, LAMBDA k : IsText(Member(record, k)) /\ record[k] # Text(Blank))
  IN  IF texts = <<>> THEN Nothing ELSE record[texts[1]][2]

\* The first of some members that is an array.
FirstArray(record, keys) ==
  LET arrays == SelectSeq(keys, LAMBDA k : IsArray(Member(record, k)))
  IN  IF arrays = <<>> THEN Nothing ELSE record[arrays[1]][2]

\* parseChatGPTDataset, parseClaudeDataset: an array, or one of an object.
ParseDataset(raw) ==
  LET wrapped == IF asRecord(raw) = Nothing THEN Nothing
                 ELSE FirstArray(asRecord(raw), <<"conversations", "items", "data">>)
  IN  IF raw = Malformed THEN Malformed
      ELSE IF IsArray(raw) THEN raw[2]
      ELSE IF wrapped = Nothing THEN Malformed ELSE wrapped

\* A record's members, none if it is no record.
Members(json) == IF asRecord(json) = Nothing THEN <<>> ELSE asRecord(json)

------------------------------------------------------------------------------
(* ChatGPT: a tree of nodes, or a list of messages that is made one *)

\* normalizeRole of App.tsx; the adapter's says unknown where it says nothing.
normalizeRole(json) ==
  CASE ~IsText(json) \/ json = Text(Blank) -> "unknown"
    [] json = Text("human") -> "user"
    [] json = Text("bot")   -> "assistant"
    [] OTHER                -> json[2]

\* normalizeContent: contents of every shape get parts.
PartsOf(content, fallback) ==
  LET member(key) == Member(content, key)
  IN  CASE IsArray(member("parts"))   -> member("parts")
        [] IsText(member("text"))     -> Array(<<member("text")>>)
        [] IsText(member("content"))  -> Array(<<member("content")>>)
        [] IsArray(member("content")) -> member("content")
        [] OTHER                      -> Array(fallback)
normalizeContent(content, text) ==
  LET fallback == IF IsText(text) /\ text # Text(Blank) THEN <<text>> ELSE <<>>
  IN  CASE IsText(content)        -> Object("parts" :> Array(<<content>>))
        [] IsArray(content)       -> Object("parts" :> content)
        [] content[1] = "object"  -> Object(("parts" :> PartsOf(content[2], fallback)) @@ content[2])
        [] OTHER                  -> Object("parts" :> Array(fallback))

\* The adapter's normalizeMessage: what it does not change it keeps.
normalizeMessage(message) ==
  LET author == Members(Member(message, "author"))
      role   == Coalesced(("author" :> Member(author, "role")) @@ message, <<"author", "role", "sender">>)
  IN  ("author" :> Object(("role" :> Text(normalizeRole(role))) @@ author))
        @@ ("content" :> normalizeContent(Member(message, "content"), Member(message, "text"))) @@ message

\* toNodeId, in the place of a message without an id
toNodeId(message, i) ==
  LET id == pickFirstString(message, <<"id", "uuid", "message_id">>)
  IN  IF id = Nothing THEN "msg-" \o ToString(i) ELSE id

\* The id a message is entered under; whether an id with its place behind it is
\* taken is not looked at again.
NodeId(nodes, message, i) ==
  LET id == toNodeId(message, i) IN IF id \in DOMAIN nodes THEN id \o "-" \o ToString(i) ELSE id

\* buildMappingFromLinearMessages: a node of the same id is overwritten.  The
\* order of the nodes is left out.
Root == "root" :> Object(<<>>)
buildMappingFromLinearMessages(messages) ==
  LET enter(nodes, i) ==
        IF asRecord(messages[i]) = Nothing THEN nodes
        ELSE (NodeId(nodes, Members(messages[i]), i)
                :> Object("message" :> Object(normalizeMessage(Members(messages[i]))))) @@ nodes
  IN  Reduce(enter, Root, [i \in DOMAIN messages |-> i])

\* normalizeConversation: a mapping is taken as it is.
NodesOf(conversation) ==
  LET messages == FirstArray(conversation, <<"messages", "chat_messages">>)
      mapping  == Member(conversation, "mapping")
  IN  IF asRecord(mapping) # Nothing THEN mapping[2]
      ELSE buildMappingFromLinearMessages(IF messages = Nothing THEN <<>> ELSE messages)

RECURSIVE collectTextFragments(_, _)
collectTextFragments(json, depth) ==
  CASE json = Null \/ depth > 5 -> <<>>
    [] IsText(json)             -> IF json = Text(Blank) THEN <<>> ELSE <<json[2]>>
    [] IsArray(json)            -> FlattenSeq(Mapped(json[2], LAMBDA j : collectTextFragments(j, depth + 1)))
    [] OTHER -> FlattenSeq(Mapped(<<"text", "content", "parts">>,
                                  LAMBDA k : collectTextFragments(Member(json[2], k), depth + 1)))

\* The conversations of an export, Malformed if they cannot be had.
ChatGptConversations(raw) ==
  LET dataset == ParseDataset(raw)
  IN  IF dataset = Malformed THEN Malformed ELSE Mapped(dataset, LAMBDA c : NodesOf(Members(c)))

\* extractMessageText of App.tsx: from its content and from its text.
MessageText(message) ==
  collectTextFragments(Member(message, "content"), 0) \o collectTextFragments(Member(message, "text"), 0)

\* toGeneralRecordsFromChatGpt, for one conversation: what the user wrote, under
\* the id of its node, which is its key in the mapping.
toGeneralRecordsFromChatGpt(nodes) ==
  LET message(id) == Members(Member(Members(nodes[id]), "message"))
      role(id)    == Member(Members(Member(message(id), "author")), "role")
  IN  { [sourceId |-> id, content |-> MessageText(message(id))] :
          id \in { n \in DOMAIN nodes : normalizeRole(role(n)) = "user" /\ MessageText(message(n)) # <<>> } }

------------------------------------------------------------------------------
(* Claude: a list of messages, kept as it is if every message has a sender *)
(* and a text                                                              *)

normalizeSender(json) ==
  CASE ~IsText(json) \/ json = Text(Blank)     -> "unknown"
    [] json[2] \in {"claude", "bot", "model"}  -> "assistant"
    [] json[2] \in {"customer", "person"}      -> "human"
    [] OTHER                                   -> json[2]

RECURSIVE collectText(_, _)
collectText(json, depth) ==
  CASE json = Null \/ depth > 4 -> <<>>
    [] IsText(json)             -> IF json = Text(Blank) THEN <<>> ELSE <<json[2]>>
    [] IsArray(json)            -> FlattenSeq(Mapped(json[2], LAMBDA j : collectText(j, depth + 1)))
    [] OTHER -> LET texts == SelectSeq(<<"text", "content", "value">>, LAMBDA k : IsText(Member(json[2], k)))
                IN  FlattenSeq(Mapped(texts, LAMBDA k : collectText(json[2][k], depth + 1)))

extractMessageText(message) ==
  LET text == pickFirstString(message, <<"text">>)
  IN  IF text # Nothing THEN <<text>> ELSE collectText(Member(message, "content"), 0)

\* The Claude adapter's normalizeMessage.
ClaudeMessage(message, i) ==
  LET uuid == pickFirstString(message, <<"uuid", "id", "message_id">>)
  IN  [uuid   |-> IF uuid = Nothing THEN "msg-" \o ToString(i) ELSE uuid,
       sender |-> normalizeSender(Coalesced(message, <<"sender", "role", "author">>)),
       text   |-> extractMessageText(message)]

isCanonicalClaudeConversation(conversation) ==
  LET messages == Member(conversation, "chat_messages")
  IN  IsArray(messages) /\ \A i \in DOMAIN messages[2] :
        \A key \in {"sender", "text"} : IsText(Member(Members(messages[2][i]), key))

\* A message of a canonical conversation, whose id may be missing.
AsItIs(message) ==
  LET text == pickFirstString(message, <<"text">>)
  IN  [uuid |-> pickFirstString(message, <<"uuid">>), sender |-> message["sender"][2],
       text |-> IF text = Nothing THEN <<>> ELSE <<text>>]

\* normalizeConversation, its messages
ClaudeMessages(conversation) ==
  LET messages == FirstArray(conversation, <<"chat_messages", "messages", "turns">>)
      there    == IF messages = Nothing THEN <<>> ELSE messages
      places   == SelectSeq([i \in DOMAIN there |-> i], LAMBDA i : asRecord(there[i]) # Nothing)
  IN  IF isCanonicalClaudeConversation(conversation) THEN Mapped(there, LAMBDA m : AsItIs(Members(m)))
      ELSE Mapped(places, LAMBDA i : ClaudeMessage(Members(there[i]), i))

ClaudeConversations(raw) ==
  LET dataset == ParseDataset(raw)
  IN  IF dataset = Malformed THEN Malformed ELSE Mapped(dataset, LAMBDA c : ClaudeMessages(Members(c)))

buildClaudeGeneralRecords(messages) ==
  Mapped(SelectSeq(messages, LAMBDA m : m.sender \in {"human", "user"} /\ m.text # <<>>),
         LAMBDA m : [sourceId |-> m.uuid, content |-> m.text])

------------------------------------------------------------------------------
(* What an export looks like.  A message has an id or Nothing, a role and   *)
(* the words that were said; a form says under which keys and in which      *)
(* shape they are written.                                                  *)

Under(key, value) == IF value = Nothing THEN <<>> ELSE key :> Text(value)
Word(m)     == IF m.said = <<>> THEN Blank ELSE m.said[1]
WordTexts(m) == Array(Mapped(m.said, Text))
Shaped(m, shape) ==
  CASE shape = "text"    -> "text" :> Text(Word(m))
    [] shape = "content" -> "content" :> Text(Word(m))
    [] shape = "array"   -> "content" :> WordTexts(m)
    [] shape = "blocks"  -> "content" :> Array(Mapped(m.said, LAMBDA w : Object("text" :> Text(w))))
    [] shape = "deep"    -> "content" :> Array(<<Array(<<Array(<<WordTexts(m)>>)>>)>>)
    [] shape = "parts"   -> "content" :> Object("parts" :> WordTexts(m))
    [] shape = "inner"   -> "content" :> Object("content" :> WordTexts(m))
    [] shape = "fallback" -> ("content" :> Object(<<>>)) @@ ("text" :> Text(Word(m)))

\* Of these only the first word is written.
OneWord == {"text", "content", "fallback"}
WordsOf(m, shape) == IF shape \in OneWord THEN {Word(m)} \ {Blank} ELSE ToSet(m.said)

MessageJson(m, form) ==
  Object(Under(form.id, m.id) @@ Shaped(m, form.shape)
           @@ (form.role :> (IF form.nested THEN Object("role" :> Text(m.role)) ELSE Text(m.role))))

Wrapped(conversation, wrapper) ==
  IF wrapper = "array" THEN Array(<<Object(conversation)>>) ELSE Object(wrapper :> Array(<<Object(conversation)>>))

\* The ids of the nodes of a tree.
NodeNames == <<"n1", "n2", "n3">>

\* The messages, or under "mapping" the nodes of a tree with their ids.
ConversationText(messages, form) ==
  LET written == Mapped(messages, LAMBDA m : MessageJson(m, form))
      nodes   == [n \in { NodeNames[i] : i \in DOMAIN messages } |->
                    Object(("id" :> Text(n)) @@ "message" :> written[CHOOSE i \in DOMAIN messages : NodeNames[i] = n])]
  IN  Wrapped(form.list :> (IF form.list = "mapping" THEN Object(("n0" :> Object(<<>>)) @@ nodes) ELSE Array(written)),
              form.wrapper)

Said(messages, roles, shape) ==
  SelectSeq([i \in DOMAIN messages |-> i],
            LAMBDA i : messages[i].role \in roles /\ WordsOf(messages[i], shape) # {})

\* The ids messages are given: their own or one of their place, with their place
\* behind it if an earlier message, or the root, has it.
Given(messages, form) ==
  LET own(i) == CASE form.list = "mapping"    -> NodeNames[i]
                  [] messages[i].id = Nothing -> "msg-" \o ToString(i)
                  [] OTHER                    -> messages[i].id
      given[i \in DOMAIN messages] ==
        IF own(i) = "root" \/ \E k \in 1 .. i - 1 : given[k] = own(i) THEN own(i) \o "-" \o ToString(i) ELSE own(i)
  IN  given

\* Every message of the user is a record of its own, with all of its words,
\* in whichever form the conversation was exported, unless a later message is
\* given its very id: then it is lost (the id made at chatgpt-adapter.ts:141 may
\* be one that another message was written with).
ChatIsReadBack(messages, form) ==
  LET exported == ChatGptConversations(ConversationText(messages, form))
      given    == Given(messages, form)
      lost     == { i \in DOMAIN messages : \E j \in i + 1 .. Len(messages) : given[j] = given[i] }
  IN  /\ Len(exported) = 1
      /\ { <<r.sourceId, ToSet(r.content)>> : r \in toGeneralRecordsFromChatGpt(exported[1]) }
           = { <<given[i], WordsOf(messages[i], form.shape)>> :
                 i \in ToSet(Said(messages, {"human", "user"}, form.shape)) \ lost }

\* A form that is kept as it is.
Canonical(form) == [form EXCEPT !.list = "chat_messages", !.shape = "text", !.role = "sender"]

\* What the user wrote to Claude is read in its order, under its ids, and
\* nothing of what Claude answered.  A person is a user too, unless the
\* conversation is kept as it is.
ClaudeIsReadBack(messages, form) ==
  LET exported == ClaudeConversations(ConversationText(messages, form))
      records  == buildClaudeGeneralRecords(exported[1])
      said     == Said(messages, {"human", "user"} \cup (IF form = Canonical(form) THEN {} ELSE {"person"}), form.shape)
  IN  /\ Len(exported) = 1 /\ Len(records) = Len(said)
      /\ \A n \in DOMAIN said :
           /\ ToSet(records[n].content) = WordsOf(messages[said[n]], form.shape)
           /\ messages[said[n]].id # Nothing => records[n].sourceId = messages[said[n]].id
=============================================================================
