------------------------------- MODULE Analysis --------------------------------
(* ngx::agent::analysis (agent/analysis.cpp): which protocol the first bytes of  *)
(* a connection speak, and where a request wants to go.  A text is the sequence  *)
(* of its tokens: a label, a port, or one of "." ":" "/" "http://" "https://".   *)
EXTENDS Integers, Sequences, SequencesExt, TLC

\* The methods that detect knows, with the number of bytes it needs for each: a blank
\* follows the name.
HttpMethods ==
    [GET |-> 4, PUT |-> 4, POST |-> 5, HEAD |-> 5, TRACE |-> 6, PATCH |-> 6, DELETE |-> 7, CONNECT |-> 8,
     OPTIONS |-> 8]

\* detect, for a stream that starts with this word and n bytes of it.
Detect(word, n) ==
    CASE n < 4 -> "unknown"
      [] n >= 4 /\ word \in DOMAIN HttpMethods /\ n >= HttpMethods[word] -> "http"
      [] OTHER -> "obscura"

\* string_view::find, 0 for npos, and what is on either side of the place.
Find(text, token) == SelectInSeq(text, LAMBDA t : t = token)
Before(text, i) == SubSeq(text, 1, i - 1)
After(text, i) == SubSeq(text, i + 1, Len(text))

\* The constructor of target.
NoTarget == [host |-> <<>>, port |-> <<"80">>, forward |-> FALSE]

\* t with another host and port.
Aim(t, host, port) == [host |-> host, port |-> port, forward |-> t.forward]

\* parse: the first colon divides host and port.
Parse(t, src) ==
    LET colon == Find(src, ":")
        port  == IF After(src, colon) = <<>> THEN <<"80">> ELSE After(src, colon)
    IN  IF colon = 0 THEN Aim(t, src, t.port) ELSE Aim(t, Before(src, colon), port)

IsAbsolute(uri) == uri # <<>> /\ uri[1] \in {"http://", "https://"}

\* The part of an absolute URI between the scheme and the next slash.
Authority(uri) ==
    LET rest == Tail(uri)
    IN  IF Find(rest, "/") = 0 THEN rest ELSE Before(rest, Find(rest, "/"))

\* parse_absolute_uri that takes every scheme for http.
ParseAbsoluteAsHttp(t, uri) == Parse(t, Authority(uri))

\* parse_absolute_uri.  The path is thrown away, and so is what it returns.
ParseAbsolute(t, uri) ==
    LET authority == Authority(uri)
        colon     == Find(authority, ":")
    IN  IF colon = 0
        THEN Aim(t, authority, IF uri[1] = "https://" THEN <<"443">> ELSE <<"80">>)
        ELSE Aim(t, Before(authority, colon), After(authority, colon))

\* resolve for a request, given its method, its target and its Host field.
Resolve(method, uri, host) ==
    LET t == [NoTarget EXCEPT !.forward = TRUE]
        c == Parse(t, uri)
    IN  CASE method = "connect" -> IF c.port = <<"80">> THEN Aim(c, c.host, <<"443">>) ELSE c
          [] method # "connect" /\ IsAbsolute(uri) -> ParseAbsolute(t, uri)
          [] OTHER -> Parse(NoTarget, host)

\* resolve for the target of an obscura handshake, without the slash that the session
\* takes from its front.
ResolvePath(path) ==
    Parse([NoTarget EXCEPT !.forward = TRUE], IF path # <<>> /\ path[1] = "/" THEN Tail(path) ELSE path)

===============================================================================
