---------------------------- MODULE ConnectionPool ----------------------------
(* The upstream connection pool: class source of agent/connection.hpp and    *)
(* connection.cpp, with the deleter that internal_ptr runs when a holder     *)
(* lets go of a socket.                                                      *)
(*                                                                           *)
(* A tcp::socket object is a member of Sockets, its address.  The cache maps *)
(* an endpoint key to a stack of idle items.  Callers are the coroutines     *)
(* that await acquire_tcp; between two suspension points a coroutine runs    *)
(* without interruption (one thread runs the io_context), so everything up   *)
(* to the next co_await is one action.                                       *)
EXTENDS Integers, Sequences, FiniteSets

CONSTANTS
    Callers,    \* coroutines that acquire connections
    Sockets,    \* addresses a tcp::socket object can have
    Endpoints,  \* endpoint_key values
    NoSocket,   \* the null internal_ptr
    MaxCache,   \* max_cache_endpoint_
    MaxIdle,    \* max_idle_time_
    MaxTime     \* bound on the clock, for TLC

ASSUME PoolAssumption ==
    /\ NoSocket \notin Sockets
    /\ MaxCache \in Nat
    /\ MaxIdle \in Nat
    /\ MaxTime \in Nat

VARIABLES
    cache,      \* cache_: endpoint -> stack of [sock, last], the top is last
    sockState,  \* what the object at an address is, as the kernel sees it
    target,     \* the endpoint a socket was opened towards
    pc,         \* where a caller is: "idle", "connecting" (in async_connect), "using"
    held,       \* the socket behind a caller's internal_ptr
    want,       \* deleter::endpoint of a caller's internal_ptr
    now,        \* steady_clock
    alive       \* FALSE once ~source has run

vars == <<cache, sockState, target, pc, held, want, now, alive>>

\* is_open() is TRUE in these states; "closed" is an object whose descriptor
\* is gone and "free" is an address with no object.  "failed" is a socket whose
\* async_connect failed: asio leaves it open.  "fin" is a connection whose peer
\* has closed its side, "reset" one that the peer has reset; getpeername names the
\* peer of the first and not of the second, as POSIX has it.
OpenStates == {"connecting", "failed", "up", "fin", "reset"}
SockStates == OpenStates \cup {"closed", "free"}

Items == [sock : Sockets, last : Nat]

\* The sockets waiting for reuse, by endpoint and together.
Shelf == [e \in Endpoints |-> {cache[e][i].sock : i \in DOMAIN cache[e]}]
Cached == UNION {Shelf[e] : e \in Endpoints}

TypeOK ==
    /\ cache \in [Endpoints -> Seq(Items)]
    /\ sockState \in [Sockets -> SockStates]
    /\ target \in [Sockets -> Endpoints]
    /\ pc \in [Callers -> {"idle", "connecting", "using"}]
    /\ held \in [Callers -> Sockets \cup {NoSocket}]
    /\ want \in [Callers -> Endpoints]
    /\ now \in Nat
    /\ alive \in BOOLEAN
    /\ \A c \in Callers : held[c] = NoSocket <=> pc[c] = "idle"

Init ==
    /\ cache = [e \in Endpoints |-> <<>>]
    /\ sockState = [s \in Sockets |-> "free"]
    /\ target \in [Sockets -> Endpoints]
    /\ pc = [c \in Callers |-> "idle"]
    /\ held = [c \in Callers |-> NoSocket]
    /\ want \in [Callers -> Endpoints]
    /\ now = 0
    /\ alive = TRUE

-------------------------------------------------------------------------------
\* zombie_detection without its call of remote_endpoint.
OpenIsHealthy(s) == sockState[s] \in OpenStates

\* source::zombie_detection: TRUE for a socket that may be handed out.  The
\* kernel still names the peer of a connection in state "fin".
remote_endpoint(s) == sockState[s] \in {"up", "fin"}
zombie_detection(s) == sockState[s] \in OpenStates /\ remote_endpoint(s)

Expired(item) == now - item.last > MaxIdle

\* The items of e's stack that the loop of acquire_tcp would hand out.
Usable(e) == {i \in DOMAIN cache[e] : /\ ~ Expired(cache[e][i])
                                      /\ zombie_detection(cache[e][i].sock)}

\* The objects in D are deleted.
Deleted(D) == [s \in Sockets |-> IF s \in D THEN "free" ELSE sockState[s]]

\* A hit that looks at an item without popping it.
ReuseWithoutPop(c, e) ==
    /\ alive
    /\ pc[c] = "idle"
    /\ \E i \in Usable(e) :
        /\ \A k \in Usable(e) : k <= i
        /\ sockState' = Deleted({cache[e][k].sock : k \in i + 1 .. Len(cache[e])})
        /\ cache' = [cache EXCEPT ![e] = SubSeq(@, 1, i)]
        /\ held' = [held EXCEPT ![c] = cache[e][i].sock]
    /\ want' = [want EXCEPT ![c] = e]
    /\ pc' = [pc EXCEPT ![c] = "using"]
    /\ UNCHANGED <<target, now, alive>>

\* A hit whose internal_ptr carries the endpoint of the caller's last one.
ReuseKeepsEndpoint(c, e) ==
    /\ alive
    /\ pc[c] = "idle"
    /\ \E i \in Usable(e) :
        /\ \A k \in Usable(e) : k <= i
        /\ sockState' = Deleted({cache[e][k].sock : k \in i + 1 .. Len(cache[e])})
        /\ cache' = [cache EXCEPT ![e] = SubSeq(@, 1, i - 1)]
        /\ held' = [held EXCEPT ![c] = cache[e][i].sock]
    /\ pc' = [pc EXCEPT ![c] = "using"]
    /\ UNCHANGED <<target, want, now, alive>>

\* A hit that searches for the oldest usable item and deletes those above.
ReuseOldest(c, e) ==
    /\ alive
    /\ pc[c] = "idle"
    /\ \E i \in Usable(e) :
        /\ \A k \in Usable(e) : i <= k
        /\ sockState' = Deleted({cache[e][k].sock : k \in i + 1 .. Len(cache[e])})
        /\ cache' = [cache EXCEPT ![e] = SubSeq(@, 1, i - 1)]
        /\ held' = [held EXCEPT ![c] = cache[e][i].sock]
    /\ want' = [want EXCEPT ![c] = e]
    /\ pc' = [pc EXCEPT ![c] = "using"]
    /\ UNCHANGED <<target, now, alive>>

\* acquire_tcp, cache hit: pop and delete until an item is usable, hand it out.
AcquireReuse(c, e) ==
    /\ alive
    /\ pc[c] = "idle"
    /\ \E i \in Usable(e) :
        /\ \A k \in Usable(e) : k <= i
        /\ sockState' = Deleted({cache[e][k].sock : k \in i + 1 .. Len(cache[e])})
        /\ cache' = [cache EXCEPT ![e] = SubSeq(@, 1, i - 1)]
        /\ held' = [held EXCEPT ![c] = cache[e][i].sock]
    /\ want' = [want EXCEPT ![c] = e]
    /\ pc' = [pc EXCEPT ![c] = "using"]
    /\ UNCHANGED <<target, now, alive>>

\* A miss that erases every key instead of its own.
ConnectErasesAll(c, e) ==
    /\ alive
    /\ pc[c] = "idle"
    /\ Usable(e) = {}
    /\ \E s \in Sockets :
        /\ Deleted(Shelf[e])[s] = "free"
        /\ sockState' = [Deleted(Shelf[e]) EXCEPT ![s] = "connecting"]
        /\ target' = [target EXCEPT ![s] = e]
        /\ held' = [held EXCEPT ![c] = s]
    /\ cache' = [f \in Endpoints |-> <<>>]
    /\ want' = [want EXCEPT ![c] = e]
    /\ pc' = [pc EXCEPT ![c] = "connecting"]
    /\ UNCHANGED <<now, alive>>

\* acquire_tcp, cache miss: whatever the stack held is deleted, a new socket is
\* allocated (an address just freed may come back) and async_connect starts.
AcquireConnect(c, e) ==
    /\ alive
    /\ pc[c] = "idle"
    /\ Usable(e) = {}
    /\ \E s \in Sockets :
        /\ Deleted(Shelf[e])[s] = "free"
        /\ sockState' = [Deleted(Shelf[e]) EXCEPT ![s] = "connecting"]
        /\ target' = [target EXCEPT ![s] = e]
        /\ held' = [held EXCEPT ![c] = s]
    /\ cache' = [cache EXCEPT ![e] = <<>>]
    /\ want' = [want EXCEPT ![c] = e]
    /\ pc' = [pc EXCEPT ![c] = "connecting"]
    /\ UNCHANGED <<now, alive>>

\* async_connect succeeds and so does set_option: the caller has its socket.
ConnectOk(c) ==
    /\ pc[c] = "connecting"
    /\ sockState' = [sockState EXCEPT ![held[c]] = "up"]
    /\ pc' = [pc EXCEPT ![c] = "using"]
    /\ UNCHANGED <<cache, target, held, want, now, alive>>

-------------------------------------------------------------------------------
\* recycle with > for >=.
RecycleOverLimit(s, e, st) ==
    \/ /\ st \notin OpenStates \/ Len(cache[e]) > MaxCache
       /\ sockState' = [sockState EXCEPT ![s] = "free"]
       /\ UNCHANGED cache
    \/ /\ st \in OpenStates
       /\ Len(cache[e]) <= MaxCache
       /\ sockState' = [sockState EXCEPT ![s] = st]
       /\ cache' = [cache EXCEPT ![e] = Append(@, [sock |-> s, last |-> now])]

\* recycle that puts the item at the bottom.
RecycleAtBottom(s, e, st) ==
    \/ /\ st \notin OpenStates \/ Len(cache[e]) >= MaxCache
       /\ sockState' = [sockState EXCEPT ![s] = "free"]
       /\ UNCHANGED cache
    \/ /\ st \in OpenStates
       /\ Len(cache[e]) < MaxCache
       /\ sockState' = [sockState EXCEPT ![s] = st]
       /\ cache' = [cache EXCEPT ![e] = <<[sock |-> s, last |-> now]>> \o @]

\* source::recycle(s, endpoint) on a socket in state st: a closed one is
\* deleted, one over the limit is closed and deleted, the rest are pushed.
recycle(s, e, st) ==
    \/ /\ st \notin OpenStates \/ Len(cache[e]) >= MaxCache
       /\ sockState' = [sockState EXCEPT ![s] = "free"]
       /\ UNCHANGED cache
    \/ /\ st \in OpenStates
       /\ Len(cache[e]) < MaxCache
       /\ sockState' = [sockState EXCEPT ![s] = st]
       /\ cache' = [cache EXCEPT ![e] = Append(@, [sock |-> s, last |-> now])]

\* A deleter that leaves the pointer set.
LetGoKeepsPointer(c, st) ==
    /\ recycle(held[c], want[c], st)
    /\ pc' = [pc EXCEPT ![c] = "idle"]
    /\ UNCHANGED <<target, held, want, now, alive>>

\* A caller's internal_ptr is destroyed: deleter::operator() recycles the
\* socket under the endpoint it was acquired for.
LetGo(c, st) ==
    /\ recycle(held[c], want[c], st)
    /\ held' = [held EXCEPT ![c] = NoSocket]
    /\ pc' = [pc EXCEPT ![c] = "idle"]
    /\ UNCHANGED <<target, want, now, alive>>

\* async_connect fails: acquire_tcp throws, the local internal_ptr unwinds and
\* the socket goes through recycle, still open unless it could not be opened.
ConnectFails(c) == pc[c] = "connecting" /\ \E st \in {"failed", "closed"} : LetGo(c, st)

\* async_connect succeeds but set_option throws: the same unwinding, with a
\* connection that may be established or already gone.
OptionFails(c) == pc[c] = "connecting" /\ \E st \in {"up", "fin", "reset"} : LetGo(c, st)

\* The holder closes the socket (session::shut_close).
Close(c) ==
    /\ pc[c] = "using"
    /\ sockState' = [sockState EXCEPT ![held[c]] = "closed"]
    /\ UNCHANGED <<cache, target, pc, held, want, now, alive>>

\* The holder drops its internal_ptr.
Release(c) == pc[c] = "using" /\ LetGo(c, sockState[held[c]])

\* source::clear, run by ~source.
Clear ==
    /\ alive
    /\ alive' = FALSE
    /\ sockState' = Deleted(Cached)
    /\ cache' = [e \in Endpoints |-> <<>>]
    /\ UNCHANGED <<target, pc, held, want, now>>

-------------------------------------------------------------------------------
\* The peers and the clock.
PeerFin(s) ==
    /\ sockState[s] = "up"
    /\ sockState' = [sockState EXCEPT ![s] = "fin"]
    /\ UNCHANGED <<cache, target, pc, held, want, now, alive>>

PeerReset(s) ==
    /\ sockState[s] \in {"up", "fin"}
    /\ sockState' = [sockState EXCEPT ![s] = "reset"]
    /\ UNCHANGED <<cache, target, pc, held, want, now, alive>>

Tick ==
    /\ now < MaxTime
    /\ now' = now + 1
    /\ UNCHANGED <<cache, sockState, target, pc, held, want, alive>>

\* The pool is destroyed only when nobody holds one of its connections: the
\* order of the tests, which run the io_context to the end first.
Shutdown == (\A c \in Callers : pc[c] = "idle") /\ Clear

Next ==
    \/ \E c \in Callers :
        \/ \E e \in Endpoints : AcquireReuse(c, e) \/ AcquireConnect(c, e)
        \/ ConnectOk(c) \/ ConnectFails(c) \/ OptionFails(c)
        \/ Close(c) \/ Release(c)
    \/ \E s \in Sockets : PeerFin(s) \/ PeerReset(s)
    \/ Tick
    \/ Shutdown

Spec == Init /\ [][Next]_vars

-------------------------------------------------------------------------------
\* Every socket object has exactly one owner: it is behind one caller's
\* internal_ptr, or in one place of one stack, and an address nobody owns has no
\* object (the raw pointers of cache_ neither leak, dangle nor alias).
SingleOwner ==
    /\ \A c, d \in Callers : c # d /\ held[c] # NoSocket => held[c] # held[d]
    /\ \A c \in Callers : held[c] \notin Cached
    /\ \A e, f \in Endpoints : \A i \in DOMAIN cache[e], j \in DOMAIN cache[f] :
        cache[e][i].sock = cache[f][j].sock => e = f /\ i = j
NoLeakNoDangling ==
    \A s \in Sockets : sockState[s] = "free" <=> s \notin Cached /\ \A c \in Callers : held[c] # s
Ownership == SingleOwner /\ NoLeakNoDangling

\* A connection is only ever filed under, and lent for, the endpoint it leads
\* to: the endpoint the deleter carries through hits, failures and reuse.
RightEndpoint ==
    /\ \A e \in Endpoints : \A s \in Shelf[e] : target[s] = e
    /\ \A c \in Callers : pc[c] # "idle" => target[held[c]] = want[c]

\* No stack grows over max_cache_endpoint_, and no descriptor-less object is
\* kept in one.
CacheBounded ==
    \A e \in Endpoints : /\ Len(cache[e]) <= MaxCache
                         /\ \A s \in Shelf[e] : sockState[s] \in OpenStates \ {"connecting"}

\* A stack is ordered by idle time: the loop of acquire_tcp, which starts at
\* the top, meets no expired item above a fresh one.
StackByAge ==
    \A e \in Endpoints : \A i, j \in DOMAIN cache[e] :
        i <= j => cache[e][i].last <= cache[e][j].last /\ cache[e][j].last <= now

\* acquire_tcp never completes with a socket that was not connected, although one
\* whose async_connect failed is open, is cached by the deleter of the caller that
\* failed, and is met there by the next.
OnlyConnectedIsUsed ==
    \A c \in Callers : pc[c] = "using" => sockState[held[c]] \notin {"connecting", "failed"}

\* A connection that its peer has closed is not handed out for reuse, as the comments
\* of zombie_detection and acquire_tcp have it.
DropsClosedPeers ==
    [][\A c \in Callers : pc[c] = "idle" /\ pc'[c] = "using" => sockState[held'[c]] # "fin"]_vars

\* A cached connection that could still be handed out leaves the cache only to
\* be handed out, or with the pool itself.
NothingUsableLost ==
    [][\A e \in Endpoints : \A i \in Usable(e) :
        \/ cache[e][i].sock \in Shelf'[e]
        \/ \E c \in Callers : pc[c] = "idle" /\ pc'[c] = "using" /\ held'[c] = cache[e][i].sock
        \/ ~ alive']_vars

\* The pool, seen as a lending library.
Loan == INSTANCE ConnectionLoan WITH
    shelf <- Shelf,
    lent <- held,
    purpose <- want,
    open <- alive

\* Whatever the pool does is a loan, a return or no change for the library.
ImplementsLoan == Loan!Spec

===============================================================================
