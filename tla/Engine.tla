-------------------------------- MODULE Engine --------------------------------
(* The main line of the engine: worker accepts, session recognises the       *)
(* protocol, distributor routes, the pool lends an upstream connection, the  *)
(* session relays and closes (agent/worker.hpp, session.hpp, distributor.cpp *)
(* on top of ConnectionPool).                                                *)
(*                                                                           *)
(* The callers of ConnectionPool are the sessions.  A session's stage is the *)
(* co_await its coroutine is suspended in; what a resumed coroutine does up  *)
(* to the next one is one action, in which the actions of the pool appear as *)
(* conjuncts.  The inside of the tunnel is module Tunnel; here it is one     *)
(* stage in which bytes pass.                                                *)
EXTENDS ConnectionPool

CONSTANTS
    Hosts,      \* host names a request can carry
    NoHost,     \* no request yet
    ReverseMap, \* reverse_map_: a function from some of the hosts to endpoints
    Blocked     \* hosts for which blacklist::domain is TRUE

ASSUME EngineAssumption ==
    /\ DOMAIN ReverseMap \subseteq Hosts
    /\ \A h \in DOMAIN ReverseMap : ReverseMap[h] \in Endpoints
    /\ Blocked \subseteq Hosts
    /\ NoHost \notin Hosts

VARIABLES
    stage,      \* where a session's coroutine is suspended
    kind,       \* what the client asked for
    host,       \* the host it named
    client,     \* who has the client's connection: "session" (client_socket_),
                \* "proto" (moved into an obscura), or "none" yet, or "closed"
    carried     \* history: the sessions whose bytes a socket object has carried

sessionVars == <<stage, kind, host, client>>
engineVars == <<vars, sessionVars, carried>>

Stages == {"none", "peek", "read", "handshake", "resolve", "connect", "reply", "send",
           "prefetch", "relay", "returned", "threw", "done"}
Kinds == {"unknown", "connect", "absolute", "reverse", "obscura"}

\* upstream_ is set, with an established connection.  After these diversion has
\* returned or thrown, and the session object is still there.
WithUpstream == {"reply", "send", "prefetch", "relay"}
Over == {"returned", "threw"}

EngineTypeOK ==
    /\ TypeOK
    /\ stage \in [Callers -> Stages]
    /\ kind \in [Callers -> Kinds]
    /\ host \in [Callers -> Hosts \cup {NoHost}]
    /\ client \in [Callers -> {"none", "session", "proto", "closed"}]
    /\ carried \in [Sockets -> SUBSET Callers]
    /\ \A c \in Callers : /\ pc[c] = "connecting" <=> stage[c] = "connect"
                          /\ stage[c] \in WithUpstream => pc[c] = "using"
                          /\ pc[c] = "using" => stage[c] \in WithUpstream \cup {"threw"}

EngineInit ==
    /\ Init
    /\ stage = [c \in Callers |-> "none"]
    /\ kind = [c \in Callers |-> "unknown"]
    /\ host = [c \in Callers |-> NoHost]
    /\ client = [c \in Callers |-> "none"]
    /\ carried = [s \in Sockets |-> {}]

-------------------------------------------------------------------------------
At(c, st) == stage' = [stage EXCEPT ![c] = st]

\* The socket behind upstream_ carries bytes of session c.
Carries(c) == carried' = [carried EXCEPT ![held[c]] = @ \cup {c}]

\* worker::do_accept: a session is made and started; diversion waits for the
\* first bytes.
Accept(c) ==
    /\ stage[c] = "none"
    /\ At(c, "peek")
    /\ client' = [client EXCEPT ![c] = "session"]
    /\ UNCHANGED <<vars, kind, host, carried>>

\* The coroutines of diversion are gone although a handler still has proto.
ProtoOutlives(c) == UNCHANGED client

\* The frames of diversion and of what it awaits are destroyed, and with
\* handle_obscura's the proto that the client's connection was moved into.
Unwound(c) == client' = [client EXCEPT ![c] = IF @ = "proto" THEN "closed" ELSE @]

\* diversion ends, by co_return or by an exception.  What it put in upstream_
\* is still there.
Ends(c, how) ==
    /\ At(c, how)
    /\ Unwound(c)
    /\ UNCHANGED <<vars, kind, host, carried>>

\* session::close: client_socket_ is closed, which does nothing to a connection
\* moved into proto; upstream_ is closed and then handed to the deleter.
close(c) ==
    /\ client' = [client EXCEPT ![c] = IF @ = "session" THEN "closed" ELSE @]
    /\ UNCHANGED <<kind, host, carried>>
    /\ \/ held[c] = NoSocket /\ UNCHANGED vars
       \/ held[c] # NoSocket /\ LetGo(c, "closed")

\* co_spawn's completion handler has an exception, and closes the session.
Completion(c) == stage[c] = "threw" /\ close(c) /\ At(c, "returned")

\* The last shared_ptr to the session goes, and ~session closes again.
Destroyed(c) == stage[c] = "returned" /\ close(c) /\ At(c, "done")

\* distributor::route_*, from acquire_tcp on: a hit resumes the session at once,
\* a miss suspends it in async_connect on a new socket object.
AfterRoute(k) == CASE k = "connect" -> "reply"
                   [] k \in {"absolute", "reverse"} -> "send"
                   [] OTHER -> "relay"

Route(c, e, k) ==
    \/ /\ AcquireReuse(c, e)
       /\ At(c, AfterRoute(k))
       /\ UNCHANGED carried
    \/ /\ AcquireConnect(c, e)
       /\ At(c, "connect")
       /\ carried' = [carried EXCEPT ![held'[c]] = {}]

\* diversion resumes: the peek failed (gracefully or not), or detect decides.  An
\* obscura client is moved into proto; without a certificate (ssl_ctx_ is null)
\* handle_obscura returns before it.
Peeked(c) ==
    /\ stage[c] = "peek"
    /\ \/ \E how \in Over : Ends(c, how)
       \/ /\ At(c, "read") /\ UNCHANGED client
          /\ UNCHANGED <<vars, kind, host, carried>>
       \/ /\ At(c, "handshake") /\ client' = [client EXCEPT ![c] = "proto"]
          /\ UNCHANGED <<vars, kind, host, carried>>

\* What the client asked for, as analysis::resolve finds it.
Asked(c, k, h) == kind' = [kind EXCEPT ![c] = k] /\ host' = [host EXCEPT ![c] = h]

\* route_forward without the blacklist.
RouteForwardUnchecked(c, h) ==
    /\ At(c, "resolve")
    /\ UNCHANGED <<vars, client, carried>>

\* distributor::route_forward up to async_resolve; a blacklisted host throws.
RouteForward(c, h) ==
    /\ h \notin Blocked
    /\ At(c, "resolve")
    /\ UNCHANGED <<vars, client, carried>>

\* distributor::route_reverse; a host that is not in the map throws.
RouteReverse(c, h) ==
    /\ h \in DOMAIN ReverseMap
    /\ Route(c, ReverseMap[h], "reverse")
    /\ UNCHANGED client

\* handle_http resumes after async_read: it has no request and returns, routing
\* throws, or the request is on its way: a CONNECT, an absolute target, or one for
\* the reverse proxy.
RequestRead(c) ==
    /\ stage[c] = "read"
    /\ \/ \E how \in Over : Ends(c, how)
       \/ \E h \in Hosts, k \in {"connect", "absolute"} : Asked(c, k, h) /\ RouteForward(c, h)
       \/ \E h \in Hosts : Asked(c, "reverse", h) /\ RouteReverse(c, h)

\* handle_obscura resumes after the handshake: it failed or named a blacklisted
\* host and throws, it named none and returns, or the host is resolved.
HandshakeDone(c) ==
    /\ stage[c] = "handshake"
    /\ \/ \E how \in Over : Ends(c, how)
       \/ \E h \in Hosts : Asked(c, "obscura", h) /\ RouteForward(c, h)

\* async_resolve completes: an error throws; of the results the first is taken.
Resolved(c) ==
    /\ stage[c] = "resolve"
    /\ \/ Ends(c, "threw")
       \/ \E e \in Endpoints : Route(c, e, kind[c]) /\ UNCHANGED <<kind, host, client>>

\* Connected that resumes the session although the connection failed.
ConnectedAnyway(c) ==
    /\ stage[c] = "connect"
    /\ \/ ConnectOk(c)
       \/ ConnectFails(c) \/ OptionFails(c)
    /\ At(c, AfterRoute(kind[c]))
    /\ UNCHANGED <<kind, host, client, carried>>

\* async_connect completes.  A failure leaves acquire_tcp as an exception: the
\* socket has gone through the deleter and upstream_ was not assigned.
Connected(c) ==
    /\ stage[c] = "connect"
    /\ \/ ConnectOk(c) /\ At(c, AfterRoute(kind[c])) /\ UNCHANGED client
       \/ /\ ConnectFails(c) \/ OptionFails(c)
          /\ At(c, "threw") /\ Unwound(c)
    /\ UNCHANGED <<kind, host, carried>>

\* The write of the CONNECT reply to the client completes: a graceful error does
\* not stop the session here.  Prefetched bytes, if any, go to the upstream.
Replied(c) ==
    /\ stage[c] = "reply"
    /\ \/ Ends(c, "threw")
       \/ \E next \in {"prefetch", "relay"} :
            At(c, next) /\ UNCHANGED <<vars, kind, host, client, carried>>

\* The write of the request to the upstream completes.
RequestSent(c) ==
    /\ stage[c] = "send"
    /\ \/ Ends(c, "threw")
       \/ \E next \in {"prefetch", "relay"} :
            At(c, next) /\ Carries(c) /\ UNCHANGED <<vars, kind, host, client>>

\* The write of the prefetched bytes completes.
PrefetchSent(c) ==
    /\ stage[c] = "prefetch"
    /\ \/ Ends(c, "threw")
       \/ At(c, "relay") /\ Carries(c) /\ UNCHANGED <<vars, kind, host, client>>

\* The tunnel relays.
Relays(c) ==
    /\ stage[c] = "relay"
    /\ Carries(c)
    /\ UNCHANGED <<vars, sessionVars>>

\* TunnelEnds without shut_close(upstream_): the deleter gets an open socket.
TunnelEndsWithoutClose(c) ==
    /\ stage[c] = "relay"
    /\ LetGo(c, sockState[held[c]])
    /\ client' = [client EXCEPT ![c] = "closed"]
    /\ \E how \in IF kind[c] = "obscura" THEN Over ELSE {"returned"} : At(c, how)
    /\ UNCHANGED <<kind, host, carried>>

\* The tunnel ends: upstream_ is closed and reset.  tunnel closes client_socket_
\* and keeps its exceptions to itself; tunnel_obscura rethrows the first of its
\* own, and the client goes with proto.
TunnelEnds(c) ==
    /\ stage[c] = "relay"
    /\ LetGo(c, "closed")
    /\ client' = [client EXCEPT ![c] = "closed"]
    /\ \E how \in IF kind[c] = "obscura" THEN Over ELSE {"returned"} : At(c, how)
    /\ UNCHANGED <<kind, host, carried>>

\* The servers and the clock, as for the pool.
Environment ==
    /\ Tick \/ \E s \in Sockets : PeerFin(s) \/ PeerReset(s)
    /\ UNCHANGED <<sessionVars, carried>>

EngineNext ==
    \/ \E c \in Callers :
        \/ Accept(c) \/ Peeked(c) \/ RequestRead(c) \/ HandshakeDone(c) \/ Resolved(c)
        \/ Connected(c) \/ Replied(c) \/ RequestSent(c) \/ PrefetchSent(c) \/ Relays(c)
        \/ TunnelEnds(c) \/ Completion(c) \/ Destroyed(c)
    \/ Environment

EngineSpec == EngineInit /\ [][EngineNext]_engineVars

-------------------------------------------------------------------------------
\* One upstream connection never carries the bytes of two sessions, and none in
\* the cache has carried any: a response cannot reach the wrong client through
\* reuse.
OneSessionPerConnection ==
    /\ \A s \in Sockets : sockState[s] # "free" => Cardinality(carried[s]) <= 1
    /\ \A s \in Cached : carried[s] = {}

\* What a session relays to is what was asked for: the configured backend of a
\* reverse host, whatever the pool reuses, and never a blacklisted host.
RoutedAsAsked ==
    \A c \in Callers : stage[c] \in WithUpstream \cup {"connect"} =>
        IF kind[c] = "reverse" THEN host[c] \in DOMAIN ReverseMap /\ target[held[c]] = ReverseMap[host[c]]
                               ELSE host[c] \in Hosts \ Blocked

\* A session that is gone has left nothing behind, whichever way it ended: it holds
\* no upstream socket, and its client is closed whether it had it itself or had
\* moved it into proto.  One that is still serving has not lost its client.
DoneHoldsNothing ==
    \A c \in Callers :
        /\ stage[c] = "done" => held[c] = NoSocket /\ client[c] = "closed"
        /\ stage[c] \notin Over \cup {"none", "done"} => client[c] \in {"session", "proto"}

===============================================================================
