------------------------------ MODULE MCForwarding -----------------------------
EXTENDS Forwarding

Example == <<"example", ".", "com">>
Www == <<"www", ".">> \o Example
Loud == <<"www", ".", "Example", ".", "com">>
Near == <<"not">> \o Example
Inner == <<"inner">>

\* A text, from what is meant by it.
Meant(scheme, host, port) == [scheme |-> scheme, host |-> host, port |-> port]
Written(m, tail) == Prefix[m.scheme] \o m.host \o PortPart(m.port) \o tail

MCNames == {"Content-Length", "content-length", "Connection", "connection", "Host", "host", "X-A", "x-a",
            "Transfer-Encoding", "transfer-encoding"}
Plainly == {"a", "0", "2", "close", "keep-alive", "chunked"}
MCValues == {"", "inner", "inner:8080", "localhost"} \cup Plainly
MCMeans ==
    [t \in Plainly \cup {"www.example.com:443", "notexample.com", "example.com:80", "www.Example.com", "[::1]:443",
            "http://www.Example.com/", "https://example.com/a", "http://notexample.com:8080", "http://example.com:/",
            "http:///a", "/a", "/", "", "inner", "inner:8080", "localhost", "/www.example.com:443", "example.com:"} |->
        CASE t = "www.example.com:443" -> Meant("none", Www, <<"443">>)
          [] t = "notexample.com" -> Meant("none", Near, <<>>)
          [] t = "example.com:80" -> Meant("none", Example, <<"80">>)
          [] t = "example.com:" -> Meant("none", Example, <<>>)
          [] t = "www.Example.com" -> Meant("none", Loud, <<>>)
          [] t = "[::1]:443" -> Meant("none", <<"[", ":", ":", "1", "]">>, <<"443">>)
          [] t = "http://www.Example.com/" -> Meant("http", Loud, <<>>)
          [] t = "https://example.com/a" -> Meant("https", Example, <<>>)
          [] t = "http://notexample.com:8080" -> Meant("http", Near, <<"8080">>)
          [] t = "http://example.com:/" -> Meant("http", Example, <<>>)
          [] t = "http:///a" -> Meant("http", <<>>, <<>>)
          [] t = "inner" -> Meant("none", Inner, <<>>)
          [] t = "inner:8080" -> Meant("none", Inner, <<"8080">>)
          [] t = "localhost" -> Meant("none", <<"localhost">>, <<>>)
          [] t = "/www.example.com:443" -> Meant("path", Www, <<"443">>)
          [] t = "/a" -> Meant("path", <<"a">>, <<>>)
          [] t = "/" -> Meant("path", <<>>, <<>>)
          [] t \in Plainly -> Meant("none", <<t>>, <<>>)
          [] OTHER -> Meant("none", <<>>, <<>>)]
MCSpell ==
    [t \in DOMAIN MCMeans |->
        CASE t \in {"https://example.com/a", "http:///a"} -> Written(MCMeans[t], <<"/", "a">>)
          [] t = "http://www.Example.com/" -> Written(MCMeans[t], <<"/">>)
          [] t = "http://example.com:/" -> Written(MCMeans[t], <<":", "/">>)
          [] t = "example.com:" -> Written(MCMeans[t], <<":">>)
          [] OTHER -> Written(MCMeans[t], <<>>)]
MCOdd == {"[::1]:443", "http://example.com:/"}

MCLower == [t \in MCNames \cup MCValues |->
    CASE t = "Content-Length" -> "content-length" [] t = "Connection" -> "connection" [] t = "Host" -> "host"
      [] t = "X-A" -> "x-a" [] t = "Transfer-Encoding" -> "transfer-encoding" [] OTHER -> t]
MCLowerToken ==
    [t \in UNION {Range(MCSpell[text]) : text \in DOMAIN MCSpell} \cup {"example"} |->
        IF t = "Example" THEN "example" ELSE t]

Header(n, v) == [name |-> n, value |-> v]
Asks(method, uri, fields) ==
    [method |-> method, target |-> uri, version |-> 11, fields |-> fields, body |-> "", keepAlive |-> TRUE]
MCMessages ==
    {Asks("CONNECT", t, <<>>) : t \in {"www.example.com:443", "notexample.com", "example.com:80", "example.com:", "[::1]:443"}}
    \cup {Asks("GET", t, <<Header("Host", "inner")>>) :
            t \in {"http://www.Example.com/", "https://example.com/a", "http://notexample.com:8080", "http://example.com:/", "http:///a"}}
    \cup {Asks("GET", "/a", <<Header("host", h), Header("X-A", "a")>>) : h \in {"inner", "inner:8080", "localhost"}}
    \cup {Asks("GET", "/a", <<Header("X-A", "a"), Header("x-a", "0"), Header("Host", "inner")>>),
          Asks("GET", "/", <<>>),
          [Asks("PUT", "/a", <<Header("Host", "inner"), Header("content-length", "2"), Header("Connection", "close")>>)
            EXCEPT !.body = "hi", !.keepAlive = FALSE],
          [Asks("POST", "/a", <<Header("Transfer-Encoding", "chunked"), Header("Host", "inner")>>)
            EXCEPT !.body = "hi"]}
MCPaths == {"/www.example.com:443", "notexample.com", "/"}

Backend(name, host, port) == [name |-> name, host |-> host, port |-> port]
Configuration(positive, addressable, reverseMap) ==
    [positive |-> positive, addressable |-> addressable, reverseMap |-> reverseMap]
MCConfigurations ==
    {Configuration(<<"localhost">>, [host |-> "localhost", port |-> 8081], <<>>),
     Configuration(<<>>, [host |-> "10.0.0.1", port |-> 8081],
                   <<Backend(Inner, "10.0.0.1", 1), Backend(Inner, "10.0.0.2", 2), Backend(Inner, "backend", 3)>>),
     Configuration(Inner, [host |-> "10.0.0.1", port |-> 8081],
                   <<Backend(Inner, "10.0.0.2", 0), Backend(<<>>, "10.0.0.2", 2), Backend(<<"localhost">>, "10.0.0.2", 2)>>)}
MCBanned == {<<"Example", ".", "com">>, <<"www", ".", "example", ".", "com">>}
MCComing == <<1, 2>>

===============================================================================
