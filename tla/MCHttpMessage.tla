----------------------------- MODULE MCHttpMessage -----------------------------
EXTENDS HttpMessage

MCNames == {"X-A", "x-a", "Content-Length", "content-length", "Connection", "connection", ""}
MCValues == {"", "a", "b", "0", "6", "Close", "close", "keep-alive"}
MCLower == [t \in MCNames \cup MCValues |->
    CASE t = "X-A" -> "x-a" [] t = "Content-Length" -> "content-length" [] t = "Connection" -> "connection"
      [] t = "Close" -> "close" [] OTHER -> t]

\* A body in which an empty line is found when it is looked for from the wrong place.
MCBodies == {"", "b\r\n\r\nb"}
MCFields == {"content-length", ""}
MCFieldValues == {"", "0"}

\* Texts that are cut or broken at each place where deserialize gives up, and whole
\* ones, with blanks and empty lines that it has to pass over.
Blocks ==
    {"\r\n", "X-A: a\r\nx-a:\t b \r\nconnection : Close\r\n\r\n",
     "\r\ncontent-length:0\r\nConnection: 0\r\n\r\nb\r\n\r\nb"}
MCRequestTexts ==
    {"", "PUT /p HTTP/x.1\r\nX-A: a\r\n\r\n", "PUT /p HTTP/1.1\r\nX-A: a\r\nb"}
        \cup {"PUT /p HTTP/1.1\r\n" \o block : block \in Blocks \cup {"X-A: a\r\n: b\r\nConnection: close\r\n\r\n"}}
MCResponseTexts ==
    {"HTTP/1.1 418\r\nX-A: a\r\n\r\n", "HTTP/1.1 41 Short\r\nX-A: a\r\n\r\n",
     "HTTP/1.1 418 Short\r\nX-A: a\r\nb"}
        \cup {"HTTP/1.1 418 Short\r\n" \o block : block \in Blocks \cup {"X-A: a\r\nb\r\n\r\n"}}

Line(n, v) == [name |-> n, value |-> v]
MCRequestMessages ==
    {[method |-> "PUT", target |-> "/p", version |-> 11, keepAlive |-> TRUE, body |-> "",
      fields |-> <<Line("X-A", "a"), Line("x-a", "b")>>],
     [method |-> "PUT", target |-> "/p", version |-> 10, keepAlive |-> FALSE, body |-> "b\r\n\r\nb",
      fields |-> <<Line("content-length", "6"), Line("Connection", "0")>>]}
MCResponseMessages ==
    {[status |-> 200, version |-> 11, keepAlive |-> TRUE, body |-> "",
      fields |-> <<Line("X-A", "a"), Line("x-a", "b")>>],
     [status |-> 418, version |-> 10, keepAlive |-> FALSE, body |-> "b\r\n\r\nb",
      fields |-> <<Line("content-length", "6"), Line("Connection", "0")>>]}

===============================================================================
