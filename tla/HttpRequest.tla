------------------------------ MODULE HttpRequest ------------------------------
(* ngx::http::request (http/request.cpp) with the two ways to read one and the  *)
(* one to write it (http/deserialization.*, serialization.cpp).                 *)
(*                                                                              *)
(* A request is a record of the members of the class; keep_alive_ is left out,  *)
(* since nothing reads it.  An operator is a call: it returns the object after  *)
(* it.  A body is a string, as a text is.                                       *)
EXTENDS HttpHeaders, HttpText

\* to_string(verb) and string_to_verb, which know fewer verbs than the enumeration.
VerbNames == [delete_ |-> "DELETE", get |-> "GET", head |-> "HEAD", post |-> "POST", put |-> "PUT",
              connect |-> "CONNECT", options |-> "OPTIONS", trace |-> "TRACE", patch |-> "PATCH"]
VerbText(v) == IF v \in DOMAIN VerbNames THEN VerbNames[v] ELSE "UNKNOWN"
VerbOf(text) ==
    IF \E v \in DOMAIN VerbNames : VerbNames[v] = text
    THEN CHOOSE v \in DOMAIN VerbNames : VerbNames[v] = text
    ELSE "unknown"

\* to_string(field), for the fields that a request knows.
FieldNames == [host |-> "Host", user_agent |-> "User-Agent", connection |-> "Connection",
               accept |-> "Accept", accept_encoding |-> "Accept-Encoding",
               accept_language |-> "Accept-Language", content_length |-> "Content-Length",
               content_type |-> "Content-Type", transfer_encoding |-> "Transfer-Encoding"]

\* The enumerators of verb.
Verbs == DOMAIN VerbNames \cup
    {"unknown", "copy", "lock", "mkcol", "move", "propfind", "proppatch", "search", "unlock", "bind",
     "rebind", "unbind", "acl", "report", "mkactivity", "checkout", "merge", "msearch", "notify",
     "subscribe", "unsubscribe", "purge", "mkcalendar", "link", "unlink"}

\* The constructor, and clear.
Fresh == [method |-> "get", methodString |-> "", target |-> "", body |-> "", entries |-> <<>>, version |-> 11]

Clear(r) == Fresh

Method(r, v) == [[r EXCEPT !.method = v] EXCEPT !.methodString = VerbText(v)]
MethodString(r, text) == [[r EXCEPT !.method = VerbOf(text)] EXCEPT !.methodString = text]
Target(r, text) == [r EXCEPT !.target = text]
Version(r, v) == [r EXCEPT !.version = v]

SetName(r, name, value) == [r EXCEPT !.entries = Set(@, name, value)]
EraseName(r, name) == [r EXCEPT !.entries = Erase(@, name)]
EraseNameValue(r, name, value) == [r EXCEPT !.entries = EraseValue(@, name, value)]

\* The overloads with an enumerator do nothing for a field they do not know.
SetField(r, f, value) == IF f \in DOMAIN FieldNames THEN SetName(r, FieldNames[f], value) ELSE r
EraseField(r, f) == IF f \in DOMAIN FieldNames THEN EraseName(r, FieldNames[f]) ELSE r
EraseFieldValue(r, f, value) ==
    IF f \in DOMAIN FieldNames THEN EraseNameValue(r, FieldNames[f], value) ELSE r

ContentLength(r, n) == SetName(r, "Content-Length", Decimal(n))

\* body() that leaves Content-Length to the caller.
BodyUncounted(r, bytes) == [r EXCEPT !.body = bytes]
Body(r, bytes) == ContentLength([r EXCEPT !.body = bytes], Len(bytes))

KeepAlive(r, on) == SetName(r, "Connection", IF on THEN "keep-alive" ELSE "close")

\* header() gives the container itself away.
HeaderConstruct(r, name, value) == [r EXCEPT !.entries = Construct(@, name, value)]
HeaderClear(r) == [r EXCEPT !.entries = <<>>]

-------------------------------------------------------------------------------
\* resolve_request_method_string.
MethodText(r) == IF r.methodString # "" THEN r.methodString ELSE VerbText(r.method)

\* serialize: what it writes, and the text that it makes of it.
Outline(r) ==
    [start |-> <<MethodText(r), r.target, r.version>>, lines |-> Shown(r.entries), ended |-> TRUE, body |-> r.body]
Serialize(r) ==
    LET o == Outline(r)
    IN  Join(o.start[1] \o " " \o o.start[2] \o " " \o VersionText(o.start[3]), o.lines, o.body)

\* A text as deserialize divides it.
Scan(text) ==
    LET parts == Divide(text)
    IN  [parts EXCEPT !.start = IF @ = <<>> THEN @ ELSE <<@[1], @[2], ParseVersion(@[3])>>]

\* The lines that are read before the first that has no name.
Readable(lines) ==
    LET bad == {i \in DOMAIN lines : lines[i].name = ""}
    IN  IF bad = {} THEN lines ELSE SubSeq(lines, 1, Min(bad) - 1)

\* The end of deserialize: Connection is normalised, and added to a 1.1 message.
Connected(r) ==
    LET value == Retrieve(r.entries, "Connection")
    IN  CASE value # "" /\ Lower[value] = "keep-alive" -> KeepAlive(r, TRUE)
          [] value # "" /\ Lower[value] = "close" -> KeepAlive(r, FALSE)
          [] value = "" /\ r.version = 11 -> KeepAlive(r, TRUE)
          [] OTHER -> r

\* deserialize of a text that has been divided: what it returns, and the request as
\* it leaves it.
ReadFrom(r, text) ==
    LET cleared == Clear(r)
        started == Version(Target(MethodString(cleared, text.start[1]), text.start[2]), text.start[3])
        headed  == [started EXCEPT !.entries = SetAll(@, Readable(text.lines))]
        filled  == IF text.body = "" THEN headed ELSE Body(headed, text.body)
    IN  CASE text.start = <<>> -> [ok |-> FALSE, object |-> cleared]
          [] text.start # <<>> /\ text.start[3] = BadNumber -> [ok |-> FALSE, object |-> cleared]
          [] OTHER ->
                CASE ~ text.ended -> [ok |-> FALSE, object |-> started]
                  [] text.ended /\ Readable(text.lines) # text.lines -> [ok |-> FALSE, object |-> headed]
                  [] OTHER -> [ok |-> TRUE, object |-> Connected(filled)]

Deserialize(r, text) == ReadFrom(r, Scan(text))

\* async_read: the message as Beast has parsed it, field by field; a message it
\* refuses leaves the request empty.
AsyncRead(r, message) ==
    LET started == Version(Target(MethodString(Clear(r), message.method), message.target), message.version)
        headed  == [started EXCEPT !.entries = SetAll(@, message.fields)]
        filled  == IF message.body = "" THEN headed ELSE Body(headed, message.body)
    IN  KeepAlive(filled, message.keepAlive)

===============================================================================
