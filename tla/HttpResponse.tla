----------------------------- MODULE HttpResponse ------------------------------
(* ngx::http::response (http/response.cpp) with the two ways to read one and    *)
(* the one to write it.  The conventions are those of HttpRequest.  A status is *)
(* its code, 0 for status::unknown; a reason phrase is a text.                  *)
EXTENDS HttpHeaders, HttpText

\* to_string(status) and to_status, which know fewer codes than the enumeration.
Reasons == [code \in {200, 201, 202, 204, 301, 302, 303, 304, 400, 401, 403, 404, 405, 408, 409,
                       410, 411, 413, 414, 415, 416, 417, 426, 429, 500, 501, 502, 503, 504, 505} |->
    CASE code = 200 -> "OK" [] code = 201 -> "Created" [] code = 202 -> "Accepted"
      [] code = 204 -> "No Content" [] code = 301 -> "Moved Permanently" [] code = 302 -> "Found"
      [] code = 303 -> "See Other" [] code = 304 -> "Not Modified" [] code = 400 -> "Bad Request"
      [] code = 401 -> "Unauthorized" [] code = 403 -> "Forbidden" [] code = 404 -> "Not Found"
      [] code = 405 -> "Method Not Allowed" [] code = 408 -> "Request Timeout"
      [] code = 409 -> "Conflict" [] code = 410 -> "Gone" [] code = 411 -> "Length Required"
      [] code = 413 -> "Payload Too Large" [] code = 414 -> "URI Too Long"
      [] code = 415 -> "Unsupported Media Type" [] code = 416 -> "Range Not Satisfiable"
      [] code = 417 -> "Expectation Failed" [] code = 426 -> "Upgrade Required"
      [] code = 429 -> "Too Many Requests" [] code = 500 -> "Internal Server Error"
      [] code = 501 -> "Not Implemented" [] code = 502 -> "Bad Gateway"
      [] code = 503 -> "Service Unavailable" [] code = 504 -> "Gateway Timeout"
      [] code = 505 -> "HTTP Version Not Supported"]
ReasonOf(code) == IF code \in DOMAIN Reasons THEN Reasons[code] ELSE ""
ToStatus(code) == IF code \in DOMAIN Reasons THEN code ELSE 0

\* The enumerators of status.
Statuses ==
    {0} \cup 100 .. 103 \cup 200 .. 208 \cup {226} \cup 300 .. 305 \cup {307, 308} \cup 400 .. 418
        \cup {421, 422, 423, 424, 425, 426, 428, 429, 431, 451} \cup 500 .. 508 \cup {510, 511}

\* to_string(field), for the fields that a response knows.
FieldNames == [connection |-> "Connection", content_length |-> "Content-Length",
               content_type |-> "Content-Type", transfer_encoding |-> "Transfer-Encoding",
               server |-> "Server", date |-> "Date"]

\* The constructor, and clear.
Fresh == [status |-> 200, reason |-> "", body |-> "", entries |-> <<>>, version |-> 11]
Clear(r) == Fresh

\* status(enum) keeps the old phrase when it knows none, status(unsigned) drops it.
Status(r, code) ==
    [[r EXCEPT !.status = code] EXCEPT !.reason = IF code \in DOMAIN Reasons THEN Reasons[code] ELSE @]
StatusCode(r, code) == [[r EXCEPT !.status = ToStatus(code)] EXCEPT !.reason = ReasonOf(code)]
Reason(r, text) == [r EXCEPT !.reason = text]
Version(r, v) == [r EXCEPT !.version = v]

SetName(r, name, value) == [r EXCEPT !.entries = Set(@, name, value)]
EraseName(r, name) == [r EXCEPT !.entries = Erase(@, name)]
EraseNameValue(r, name, value) == [r EXCEPT !.entries = EraseValue(@, name, value)]

\* The overloads with an enumerator do nothing for a field they do not know.
SetField(r, f, value) == IF f \in DOMAIN FieldNames THEN SetName(r, FieldNames[f], value) ELSE r
EraseField(r, f) == IF f \in DOMAIN FieldNames THEN EraseName(r, FieldNames[f]) ELSE r
EraseFieldValue(r, f, value) ==
    IF f \in DOMAIN FieldNames THEN EraseNameValue(r, FieldNames[f], value) ELSE r

ContentLength(r, n) == SetName(r, "Content-Length", Decimal(n))
Body(r, bytes) == ContentLength([r EXCEPT !.body = bytes], Len(bytes))
KeepAlive(r, on) == SetName(r, "Connection", IF on THEN "keep-alive" ELSE "close")
HeaderConstruct(r, name, value) == [r EXCEPT !.entries = Construct(@, name, value)]
HeaderClear(r) == [r EXCEPT !.entries = <<>>]

-------------------------------------------------------------------------------
\* resolve_response_reason_view.
ReasonText(r) == IF r.reason # "" THEN r.reason ELSE ReasonOf(r.status)

\* serialize: what it writes, and the text that it makes of it.
Outline(r) ==
    [start |-> <<r.version, r.status, ReasonText(r)>>, lines |-> Shown(r.entries), ended |-> TRUE, body |-> r.body]
Serialize(r) ==
    LET o == Outline(r)
    IN  Join(VersionText(o.start[1]) \o " " \o StatusText(o.start[2]) \o " " \o o.start[3], o.lines, o.body)

\* A text as deserialize divides it.
Scan(text) ==
    LET parts == Divide(text)
    IN  [parts EXCEPT !.start = IF @ = <<>> THEN @ ELSE <<ParseVersion(@[1]), ParseStatus(@[2]), @[3]>>]

\* The lines that are read before the first that has no name.
Readable(lines) ==
    LET bad == {i \in DOMAIN lines : lines[i].name = ""}
    IN  IF bad = {} THEN lines ELSE SubSeq(lines, 1, Min(bad) - 1)

\* The end of deserialize: Connection is normalised, and added to a 1.1 message.
Connected(r) ==
    LET value == Retrieve(r.entries, "Connection")
    IN  CASE value # "" /\ Lower[value] = "keep-alive" -> KeepAlive(r, TRUE)
          [] value # "" /\ Lower[value] = "close" -> KeepAlive(r, FALSE)
          [] value = "" /\ r.version = 11 -> KeepAlive(r, TRUE)
          [] OTHER -> r

\* deserialize of a text that has been divided: what it returns, and the response as
\* it leaves it.
ReadFrom(r, text) ==
    LET cleared == Clear(r)
        started == Reason(StatusCode(Version(cleared, text.start[1]), text.start[2]), text.start[3])
        headed  == [started EXCEPT !.entries = SetAll(@, Readable(text.lines))]
        filled  == IF text.body = "" THEN headed ELSE Body(headed, text.body)
    IN  CASE text.start = <<>> -> [ok |-> FALSE, object |-> cleared]
          [] text.start # <<>> /\ BadNumber \in {text.start[1], text.start[2]} -> [ok |-> FALSE, object |-> cleared]
          [] OTHER ->
                CASE ~ text.ended -> [ok |-> FALSE, object |-> started]
                  [] text.ended /\ Readable(text.lines) # text.lines -> [ok |-> FALSE, object |-> headed]
                  [] OTHER -> [ok |-> TRUE, object |-> Connected(filled)]

Deserialize(r, text) == ReadFrom(r, Scan(text))

\* async_read: the message as Beast has parsed it.  The code is taken over as it is,
\* the phrase is not.
AsyncRead(r, message) ==
    LET started == Status(Version(Clear(r), message.version), message.status)
        headed  == [started EXCEPT !.entries = SetAll(@, message.fields)]
        filled  == IF message.body = "" THEN headed ELSE Body(headed, message.body)
    IN  KeepAlive(filled, message.keepAlive)

===============================================================================
