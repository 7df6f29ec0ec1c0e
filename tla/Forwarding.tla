------------------------------ MODULE Forwarding -------------------------------
(* What one session does with the data of its client, from the first bytes to    *)
(* the tunnel (agent/session.hpp, diversion, handle_http and the beginning of     *)
(* handle_obscura): it composes Analysis, HttpRequest, Blacklist and Distributor. *)
(* Who holds which connection is Engine's subject, what a tunnel does Tunnel's    *)
(* and ObscuraTunnel's; here an upstream is where it leads to and what it has     *)
(* been sent.                                                                     *)
EXTENDS HttpRequest, Analysis

CONSTANTS
    Spell,              \* the tokens of a text: of targets, paths and values of Host
    Means,              \* what the one who wrote that text means by it
    Odd,                \* texts with an IPv6 literal, or with a colon and no port before a path
    LowerToken,         \* std::tolower of a token
    Addresses,          \* the hosts that are IP addresses
    Messages,           \* requests, as Beast parses them
    Paths,              \* targets of an obscura handshake
    Coming,             \* what a client sends behind its request
    PeekSizes,          \* how much of the stream the first receive may find
    Configurations,     \* contents of the configuration file
    Banned,             \* names that may be put on the blacklist
    BannedEndpoints     \* endpoints that may be

\* How a text is written: the scheme of an absolute target, or the slash before the
\* path of a handshake, the host, the port, and behind an absolute target a path.
\* A colon may come without a port.
Texts == DOMAIN Spell
Tokens == DOMAIN LowerToken
Free(text, tokens) == \A i \in DOMAIN text : text[i] \notin tokens
Prefix == [http |-> <<"http://">>, https |-> <<"https://">>, none |-> <<>>, path |-> <<"/">>]
PortPart(port) == IF port = <<>> THEN <<>> ELSE <<":">> \o port
Absolute(t) == Means[t].scheme \in {"http", "https"}
SpeltAsMeant(t) ==
    LET m    == Means[t]
        head == Prefix[m.scheme] \o m.host \o PortPart(m.port)
        tail == SubSeq(Spell[t], Len(head) + 1, Len(Spell[t]))
    IN  /\ Spell[t] = head \o tail
        /\ Free(m.host, {":", "/"}) /\ Free(m.port, {"/"})
        /\ \/ tail = <<>>
           \/ Absolute(t) /\ tail[1] = "/"
           \/ ~ Absolute(t) /\ m.port = <<>> /\ tail = <<":">>

ASSUME ForwardingAssumption ==
    /\ \A token \in Tokens : LowerToken[token] \in Tokens /\ LowerToken[LowerToken[token]] = LowerToken[token]
    /\ \A t \in Texts :
        /\ Spell[t] \in Seq(Tokens) /\ (IsAbsolute(Spell[t]) <=> Absolute(t))
        /\ Means[t] \in [scheme : DOMAIN Prefix, host : Seq(Tokens), port : Seq(Tokens)]
    /\ \A t \in Texts \ Odd : SpeltAsMeant(t)
    /\ Values \subseteq Texts /\ Paths \subseteq Texts
    /\ {"Host", "Transfer-Encoding"} \subseteq Names
    /\ \A m \in Messages :
        /\ m \in [method : STRING, target : Texts, version : Nat, keepAlive : BOOLEAN, body : STRING,
                  fields : Seq([name : Names, value : Values])]
        /\ m.method # "" /\ Decimal(Len(m.body)) \in Values
    /\ Coming \in Seq(Nat)
    /\ \A c \in Configurations :
        c \in [positive : Seq(Tokens), addressable : [host : STRING, port : Nat],
               reverseMap : Seq([name : Seq(Tokens), host : STRING, port : Nat])]
    /\ \A name \in Banned : name \in Seq(Tokens)

Rules == INSTANCE Blacklist
Table == INSTANCE Distributor

VARIABLES
    routes,         \* distributor::reverse_map_
    blacklist,      \* distributor::blacklist_
    banned,         \* the names that are on it, as they were given
    config,         \* the configuration that was loaded
    client,         \* what the client sends first: a request or an obscura handshake
    coming,         \* what it has sent behind that and no one has taken yet
    phase,          \* where the session is
    req,            \* the request in handle_http
    held,           \* what read_buffer holds behind the request
    target,         \* what resolve has returned
    destination,    \* where the upstream connection leads to, <<>> when there is none
    gone,           \* the upstream takes no more
    wire,           \* what the upstream has been sent
    answered        \* the client has been told that its tunnel stands

environment == <<config, routes, client>>
rules == <<blacklist, banned>>
vars == <<environment, rules, coming, phase, req, held, target, destination, gone, wire, answered>>

IsRequest == client.kind = "request"
Request == client.message

Clients == [kind : {"request"}, message : Messages] \cup [kind : {"obscura"}, path : Paths]

\* The worker loads its configuration before it listens.
Init ==
    /\ config \in Configurations
    /\ routes = Table!LoadReverseMap(config)
    /\ blacklist = Rules!EmptyBlacklist /\ banned = {}
    /\ client \in Clients
    /\ coming = Coming
    /\ phase = "peek"
    /\ req = Fresh
    /\ held = <<>>
    /\ target = NoTarget
    /\ destination = <<>>
    /\ gone = FALSE
    /\ wire = <<>>
    /\ answered = FALSE

-------------------------------------------------------------------------------
\* The calls that the blacklist offers its owner.  Distributor keeps its blacklist to
\* itself: whatever it holds, it holds before a session asks it.
Ban ==
    /\ phase = "peek"
    /\ \/ \E names \in SUBSET Banned :
            blacklist' = Rules!Load(blacklist, BannedEndpoints, names) /\ banned' = names
       \/ \E name \in Banned :
            blacklist' = Rules!InsertDomain(blacklist, name) /\ banned' = banned \cup {name}
       \/ \E ip \in BannedEndpoints :
            blacklist' = Rules!InsertEndpoint(blacklist, ip) /\ UNCHANGED banned
       \/ blacklist' = Rules!ClearBlacklist(blacklist) /\ banned' = {}
    /\ UNCHANGED <<environment, coming, phase, req, held, target, destination, gone, wire, answered>>

\* diversion: the first receive leaves the bytes where they are.  An obscura client
\* begins with a TLS record.
Peek(n) ==
    /\ phase = "peek"
    /\ phase' = IF Detect(IF IsRequest THEN Request.method ELSE "TLS", n) = "http" THEN "http" ELSE "obscura"
    /\ UNCHANGED <<environment, rules, coming, req, held, target, destination, gone, wire, answered>>

\* The peek, the read, the handshake, the resolver, the lookup in the table, the
\* connect or a write fails in a way that ends the session.
Fail ==
    /\ phase \in {"peek", "http", "obscura", "forward", "reverse", "write", "rest"}
    /\ phase' = "over"
    /\ UNCHANGED <<environment, rules, coming, req, held, target, destination, gone, wire, answered>>

\* handle_http: the request, with the first k of what follows it in read_buffer, and
\* where it wants to go.
Read(k) ==
    /\ phase = "http" /\ IsRequest
    /\ req' = AsyncRead(req, Request)
    /\ held' = SubSeq(coming, 1, k)
    /\ coming' = SubSeq(coming, k + 1, Len(coming))
    /\ target' = Resolve(req'.method, Spell[req'.target], Spell[Retrieve(req'.entries, FieldNames.host)])
    /\ phase' = IF target'.forward THEN "route" ELSE "reverse"
    /\ UNCHANGED <<environment, rules, destination, gone, wire, answered>>

\* handle_obscura: a request that is taken for a handshake fails it.
Handshake ==
    /\ phase = "obscura" /\ ~ IsRequest
    /\ target' = ResolvePath(Spell[client.path])
    /\ phase' = IF target'.host = <<>> THEN "over" ELSE "route"
    /\ UNCHANGED <<environment, rules, coming, req, held, destination, gone, wire, answered>>

\* route_forward asks the blacklist, and then waits for the resolver.
RouteForward ==
    /\ phase = "route"
    /\ phase' = IF Rules!Domain(blacklist, target.host) THEN "over" ELSE "forward"
    /\ UNCHANGED <<environment, rules, coming, req, held, target, destination, gone, wire, answered>>

Reach(where) ==
    /\ destination' = where
    /\ phase' = IF IsRequest THEN "write" ELSE "tunnel"
    /\ UNCHANGED <<environment, rules, coming, req, held, target, gone, wire, answered>>

\* The resolver has an address of that name, and the pool a connection to it.
Resolved ==
    /\ phase = "forward"
    /\ Reach(<<target.host, target.port>>)

\* route_reverse: the name must be in the table as it is spelt.
RouteReverse ==
    /\ phase = "reverse"
    /\ target.host \in DOMAIN routes
    /\ Reach(routes[target.host])

\* The answer to a CONNECT, or the request, as serialize outlines it: Beast has
\* accepted no target with a blank and no field with a colon in its name or a line
\* break, so that the text is divided where it was joined.  An error that counts as
\* a normal end of the peer is passed over.
Write ==
    /\ phase = "write"
    /\ IF req.method = "connect"
       THEN answered' \in BOOLEAN /\ UNCHANGED <<gone, wire>>
       ELSE \/ wire' = <<Outline(req)>> /\ UNCHANGED <<gone, answered>>
            \/ gone' = TRUE /\ UNCHANGED <<wire, answered>>
    /\ phase' = "rest"
    /\ UNCHANGED <<environment, rules, coming, req, held, target, destination>>

\* The tunnel begins without what read_buffer holds.
RestForgotten ==
    /\ phase = "rest"
    /\ phase' = "tunnel"
    /\ UNCHANGED <<environment, rules, coming, req, held, target, destination, gone, wire, answered>>

\* What read_buffer holds goes before the tunnel.
Rest ==
    /\ phase = "rest"
    /\ \/ gone /\ UNCHANGED <<gone, wire>>
       \/ ~ gone /\ wire' = wire \o held /\ UNCHANGED gone
       \/ ~ gone /\ gone' = TRUE /\ UNCHANGED wire
    /\ held' = <<>>
    /\ phase' = "tunnel"
    /\ UNCHANGED <<environment, rules, coming, req, target, destination, answered>>

Next ==
    \/ Ban
    \/ \E n \in PeekSizes : Peek(n)
    \/ Fail
    \/ \E k \in 0 .. Len(coming) : Read(k)
    \/ Handshake
    \/ RouteForward
    \/ Resolved
    \/ RouteReverse
    \/ Write
    \/ Rest

Spec == Init /\ [][Next]_vars

-------------------------------------------------------------------------------
\* The session has an upstream whenever it writes or tunnels, and the names on the
\* blacklist can be found there: they are in lower case.
TypeOK ==
    /\ phase \in {"peek", "http", "obscura", "route", "forward", "reverse", "write", "rest", "tunnel", "over"}
    /\ client \in Clients /\ config \in Configurations
    /\ destination # <<>> => phase \in {"write", "rest", "tunnel", "over"}
    /\ phase \in {"write", "rest", "tunnel"} => destination # <<>>
    /\ gone \in BOOLEAN /\ answered \in BOOLEAN
    /\ banned \subseteq Banned
    /\ blacklist.ips \subseteq BannedEndpoints
    /\ \A name \in blacklist.domains : Rules!Lowered(name) = name

ValuesIn(lines, k) ==
    LET of == Chosen(lines, {i \in DOMAIN lines : Key(lines[i].name) = k}) IN [i \in DOMAIN of |-> of[i].value]

\* No field comes twice or without a value, and a body comes as it is, with its
\* length.
Plain(m) ==
    /\ \A k \in Keys : Len(ValuesIn(m.fields, k)) <= 1
    /\ \A i \in DOMAIN m.fields : m.fields[i].value # ""
    /\ ValuesIn(m.fields, Key("Transfer-Encoding")) = <<>>
    /\ m.body # "" => ValuesIn(m.fields, Key("Content-Length")) = <<Decimal(Len(m.body))>>

\* A text that says what the client has said, with its wish to keep the connection in
\* the words of session.hpp: an Upgrade is not passed on.
SaysTheSame(text, m) ==
    /\ text.start = <<m.method, m.target, m.version>>
    /\ text.body = m.body
    /\ \A k \in Keys : ValuesIn(text.lines, k) =
        IF k = Key("Connection") THEN <<IF m.keepAlive THEN "keep-alive" ELSE "close">>
        ELSE ValuesIn(m.fields, k)

\* When the tunnel begins, the upstream has been sent what the client has said and
\* everything that came with it, once and in order, and the tunnel carries the rest.
\* Of a CONNECT it hears nothing, and no other request is answered by the session.
RequestKept ==
    phase = "tunnel" /\ IsRequest /\ ~ gone /\ Plain(Request) =>
        IF Request.method = "CONNECT"
        THEN wire \o coming = Coming
        ELSE /\ ~ answered
             /\ wire # <<>> /\ SaysTheSame(Head(wire), Request)
             /\ Tail(wire) \o coming = Coming

\* The backend that the configuration gives a name: the last of its entries in
\* reverse_map that names an address, else the addressable one.
IsBackend(name, endpoint) ==
    LET own == {i \in DOMAIN config.reverseMap :
                    config.reverseMap[i].name = name /\ Table!Usable(config.reverseMap[i])}
    IN  IF own # {}
        THEN endpoint = Table!Endpoint(config.reverseMap[Max(own)])
        ELSE /\ name = IF config.positive = <<>> THEN Table!LocalHost ELSE config.positive
             /\ endpoint = Table!Endpoint(config.addressable) /\ Table!Usable(config.addressable)

\* The text that says where the client wants to go.
Wish == CASE ~ IsRequest -> client.path
          [] IsRequest /\ (Request.method = "CONNECT" \/ Absolute(Request.target)) -> Request.target
          [] OTHER -> Retrieve(req.entries, "Host")

\* It is written in one of the forms that belong in its place.
Understood ==
    /\ Wish \notin Odd
    /\ CASE ~ IsRequest -> Means[Wish].scheme \in {"path", "none"}
         [] IsRequest /\ Request.method # "CONNECT" /\ Absolute(Request.target) -> TRUE
         [] OTHER -> Means[Wish].scheme = "none"

DefaultPort == CASE ~ IsRequest -> <<"80">>
                 [] IsRequest /\ Request.method = "CONNECT" -> <<"443">>
                 [] IsRequest /\ Request.method # "CONNECT" ->
                        IF Means[Wish].scheme = "https" THEN <<"443">> ELSE <<"80">>
WishedPort == IF Means[Wish].port = <<>> THEN DefaultPort ELSE Means[Wish].port

\* A session leads to where its client asked to go: to the host and the port that its
\* target names, whichever of the forms it has, or to the backend that the
\* configuration gives the host it names.  A CONNECT to port 80 is left out: it is
\* sent elsewhere.
RightDestination ==
    destination # <<>> /\ Understood =>
        IF target.forward
        THEN \/ destination = <<Means[Wish].host, WishedPort>>
             \/ IsRequest /\ Request.method = "CONNECT" /\ WishedPort = <<"80">>
        ELSE IsBackend(Means[Wish].host, destination)

\* A tunnel leads to the host and the port that the client names in its CONNECT.
TunnelToTarget ==
    destination # <<>> /\ IsRequest /\ Understood =>
        (Request.method = "CONNECT" => destination = <<Means[Wish].host, WishedPort>>)

\* The host is on the list, in any spelling, or a subdomain of one that is.
Blocked(host) ==
    \E name \in banned : LET h == Rules!Lowered(host) n == Rules!Lowered(name) IN
        h = n \/ IsSuffix(<<".">> \o n, h)

\* When the session asks for a route, it gets none to a host that is on the list,
\* in any spelling, and it is refused none that is not.
BlocksTheListed == [][phase = "route" /\ phase' # "route" => (phase' = "over" <=> Blocked(target.host))]_vars

===============================================================================
