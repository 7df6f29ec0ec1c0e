# ForwardEngine in TLA+

ForwardEngine is a proxy written with C++20 coroutines over Boost.Asio and Beast:
it accepts a client, peeks at the first bytes to tell HTTP from *obscura* (a
WebSocket over TLS), routes the request, takes an upstream connection from a pool,
relays bytes both ways and cleans up.  This directory holds TLA+ modules of that
main line, TLC configurations that check them on small instances, and TLAPS proofs
about the connection pool, the sessions that share it, both tunnels, the threads, the
logger, what a session reads, routes and writes, the HTTP messages and the frame codec.
Paths below are relative to the repository.

## 1. The system

| component | state | operations | talks to |
|---|---|---|---|
| `worker` (`agent/worker.hpp`) | `ioc_`, `pool_`, `distributor_`, `ssl_ctx_`, `acceptor_` | `run(n)`, `do_accept` | makes sessions |
| `session` (`agent/session.hpp`) | `client_socket_`, `upstream_`, `buffer_` | `start`, `diversion`, `handle_http`, `handle_obscura`, `tunnel`, `tunnel_obscura`, `close` | awaits the distributor, reads and writes both sockets |
| `distributor` (`agent/distributor.cpp`) | `reverse_map_`, `blacklist_`, `resolver_` | `load_reverse_map`, `route_forward`, `route_reverse`, `route_direct` | awaits DNS and the pool |
| `source`, `deleter` (`agent/connection.cpp`) | `cache_`: endpoint -> stack of idle sockets | `acquire_tcp`, `recycle`, `clear`; the deleter calls `recycle` | the kernel, whoever holds an `internal_ptr` |
| `obscura` (`agent/obscura.hpp`) | TLS and WebSocket streams | `handshake`, `async_read`, `async_write`, `close` | Beast |
| `analysis` (`agent/analysis.cpp`) | none | `detect`, `resolve`, `parse` | called by the session |
| `blacklist` (`limit/blacklist.cpp`) | sets of addresses and domains | `load`, `domain`, `endpoint` | called by the distributor; never loaded |
| `adaptation`, `frame` | none | read/write dispatch, frame codec | the session; nobody |
| `http/*` | header container, request, response | setters, `serialize`, `async_read` | the session |
| `coroutine_log` (`log/monitor.*`) | `file_map`, thresholds, limits | `file_write`, `close_file`, `shutdown`, setters | the file system; used by tests |
| `abnormal`, `memory`, `core`, `positive`, `reverse` | none | exception classes, aliases, empty files | |

What is hard about it:

* **Interleaving at suspension points.**  Every `co_await` lets every other coroutine
  run.  State read before one and used after it may be stale: a socket the other
  direction has closed, a cached connection the server has ended.
* **Ownership by hand.**  `cache_` holds raw pointers; a socket moves between the
  cache and `internal_ptr`s by pop, push, `delete` and a deleter that may run during
  the unwinding of an exception, or after the pool is gone.
* **Ending.**  A tunnel has two ends and two directions; each may end by data, an
  end of stream, a reset, a cancellation or an error, while the other is in any state.
* **Cancellation.**  What `operator ||` and `co_spawn(..., use_awaitable)` do is
  not what a reader expects of them.

What makes each part correct:

* *pool*: one owner per socket; a connection is used only for the endpoint it leads
  to; the bound per endpoint; no socket that failed to connect is lent, nothing usable is lost.
* *tunnel*: the bytes arrive in order, all of them before an end of stream and all but the
  last chunk otherwise, and the end of one side ends the session.
* *session and routing*: a session gets what it asked for and nothing blacklisted,
  bytes of two sessions never share a connection, no way out leaves anything behind.
* *logger*: a message whose size `file_write` returned stays in the file or an archive until
  that is deleted for its age, unless a rename goes wrong; limits are kept.
* *pure parts*: agreement with a reference definition (headers, analysis, blacklist,
  frames, serialisation round trip).

`PROJECT.json` lists the hazards one by one, with the line where each bites.

## 2. The modules

    ConnectionLoan          what the pool promises (abstract)
    ConnectionPool          source and deleter;   implements ConnectionLoan
      MCConnectionPool
    Engine                  worker, session, distributor;   EXTENDS ConnectionPool
      EngineProofs          theorems about ConnectionPool and about Engine
      MCEngine
    Tunnel                  session::tunnel and its two transfer_tcp
      TunnelProofs          theorems about it
      MCTunnel
    ObscuraTunnel           session::tunnel_obscura and its two transfers
      ObscuraTunnelProofs   theorems about it
      MCObscuraTunnel
    WorkerThreads           acquire_tcp and recycle on the threads of worker::run(n)
      WorkerThreadsProofs   theorems about it
      MCWorkerThreads
    LogMonitor              coroutine_log::file_write, rotation, close_file
      LogMonitorProofs      theorems about it
      MCLogMonitor
    Selection               erase_if: what is left of a sequence  (operators)
    HttpFields              what a header container promises (abstract)
    HttpHeaders             the header container
    HttpText                how a text is joined and divided        (operators)
      CodecProofs           theorems about Frame, and lemmas about the container
      HttpRequest           http::request, its serialize, deserialize and async_read
      HttpResponse          http::response, the same
        HttpMessage         either of them in its owner's hands;   implements HttpFields
          HttpMessageProofs theorems about it, on top of CodecProofs
          MCHttpMessage
    Analysis                detect, resolve, parse                  (operators)
    Blacklist               load, domain, insert, clear             (operators)
    Distributor             load_reverse_map                        (operators)
    Forwarding              a session's data, from the peek to the tunnel;
                            EXTENDS HttpRequest, Analysis;  INSTANCE Blacklist, Distributor
      ForwardingProofs      theorems about it, on top of CodecProofs
      MCForwarding
    Frame                   the frame codec                         (operators)

**One action per stretch of code between two suspension points.**  A coroutine runs
without interruption from one `co_await` to the next, because one thread runs the
`io_context`: `worker.hpp:22` creates it for one thread and `connection.hpp:65` says
that a pool belongs to one thread.  `worker::run(n)`, as `main` calls it, breaks that
assumption.  `WorkerThreads` drops it for the pool and shows what follows; every other
module describes the program on one thread.

### ConnectionPool

A `tcp::socket` object is its address, a member of `Sockets`.  `sockState` is what the
kernel and the object say of it: `free` (no object), `connecting`, `failed` (an
`async_connect` failed; Asio leaves the socket open), `up`, `fin` (the peer has closed
its side), `reset`, `closed`.  `cache` is `cache_`; `held` and `want` are the pointer and
the endpoint in a caller's `internal_ptr`.  A missing key and an empty stack are the
same here, since no operation tells them apart.

| action | code |
|---|---|
| `AcquireReuse` | `acquire_tcp`, a hit: pops and deletes from the top down to the first item that has not expired and passes `zombie_detection` |
| `AcquireConnect` | a miss: the stack is used up, a new socket, `async_connect` begins |
| `ConnectOk`, `ConnectFails`, `OptionFails` | the completion of `async_connect`; in the last two an exception unwinds the `internal_ptr` |
| `LetGo`, `recycle` | the deleter; delete, close-and-delete over the limit, or push |
| `Close`, `Release` | what a holder does: `shut_close`, destruction of the pointer |
| `Clear`, `Shutdown` | `clear`, run by `~source` |
| `PeerFin`, `PeerReset`, `Tick` | the server and the clock |

`remote_endpoint` fails for a connection that has been reset and not for one whose peer
has sent a FIN: that is what `getpeername` does on POSIX systems.  The repository's README names MinGW
on Windows, where a reset socket may keep its name: such a connection would then be handed out
like the one of `PoolHandsOut`.  A `ConnectFails` may leave the socket closed too, for
`async_connect` opens it and that can fail.

`ConnectionLoan` is the same pool as a lending library: shelves, loans with a purpose,
and no way from one caller to another except over the shelf of the right endpoint.
It has no stacks, clock or socket states.

### Engine

The callers of the pool are the sessions.  `stage` is the `co_await` a session's
coroutine is suspended in.  An action is a resumption of the coroutine, and the actions of
`ConnectionPool` appear in it as conjuncts, so a session runs exactly the pool's code.
The ways out of a session are the code's, one by one.  `diversion` returns or throws wherever the
code has a `co_return`, a throw or an awaitable that throws (`Ends`); its frames go, and with them an
obscura that the client's connection was moved into (`Unwound`).  After an exception the completion
handler calls `close` (`Completion`); when the last `shared_ptr` goes the destructor calls it again
(`Destroyed`).  `TunnelEnds` is the clean-up at the end of both tunnels, with `upstream_` closed
and then reset.  Between two of these steps every other session runs.  What the client asks for is a free choice
of kind and host; `ReverseMap` is `reverse_map_` after loading and `Blocked` the hosts
for which `blacklist::domain` is true.  `carried` is a history variable: the sessions
whose bytes a socket object has carried.  The destruction of a
`worker` with sessions under way is not modelled.

### Tunnel

Each direction (`c2u`, `u2c`) is a `transfer_tcp` coroutine.  `pc` is `read` or `write`
while the kernel has its operation, `readDone` or `writeDone` while the completion is
queued, `stopped` after `co_return`, `thrown` after an exception.  A completion and the
resumption that handles it are different actions, which is what makes results stale.
`async_write` delivers in pieces.  Closing a socket aborts what is outstanding on it
(`ShutCloseAndStop`), but not what has already completed.  `CancelOther` is `operator ||`: a
parallel group with `wait_for_one_success`, so only a direction that *returns* cancels the
other; a cancelled coroutine throws at its next `co_await` (`Await`).  The peers send, stop
reading, end, reset or vanish (`broken`: timed out, unreachable) as they like.

### ObscuraTunnel

`co_spawn(executor, f, use_awaitable)` is lazy: it starts `f` when its result is awaited.
So `transfer_obscura` from the upstream starts when the one from the client has returned
(`phase` is the await that `tunnel_obscura` is in), and no cancellation signal ever meets
a bound slot.  A WebSocket message is a numbered chunk.

### WorkerThreads

The statements of `acquire_tcp` and `recycle` that touch the cache are steps of their own
(`While`, `Back`, `Pop`, `Check`; `Recycle`, `Size`, `Push`), and the threads of `Threads`
interleave.  `reg` is the local `socket` of the method; `lent` counts the `internal_ptr`s by
the object they point to, so that a double owner can be seen.  There is one endpoint.  With a
single thread this is a finer view of `ConnectionPool`'s atomic actions, which `OneOwnerOnOneThread` is about.  A `back()` or a
`pop_back()` of an empty vector is undefined; the module has no step there.

### LogMonitor

One log file of `coroutine_log`.  A writer is one call of `file_write` with a message that counts
as one byte of the limit; it is suspended in `async_write` (`writing`), and every other call
can come between.  `FileWrite` is everything before the suspension: opening, the check of the size,
and the rotation with its rename, clean-up and reopening.  The constructor of `asio::stream_file` throws
when it cannot open, so that the exception leaves `file_write`, after a rotation with a closed handle still in
`file_map`; the second try at `monitor.hpp:124-138` and "滚动失败，移除映射" at `monitor.hpp:171-175` are never reached.
`Written` and `NotWritten` are what follows it.  `entry` is the entry of `file_map`; its node
and its handle are named after the writer that made them, so that a stale iterator (`it`) or
reference (`via`) can be told from a live one.  `Faults` says what the file system may
refuse.  A call keeps its iterator and its handle until it resumes, whatever became of them: when it
uses an iterator to an erased entry, `crashed` is set and the module says
nothing more.  `mishaps`, a history variable, remembers whether calls overlapped, a rename failed or two
rotations shared a tick, and `retired` what was deleted for its age, so that the properties can name what they rest on.  Archives are named after the time (`now`), which `std::format` writes with the
fraction of a second.  Deleting an archive is taken to succeed, the clock not to go back, and
`close_file` to be given the key under which `file_map` knows the file.

### HttpText, HttpHeaders, HttpRequest, HttpResponse, HttpMessage

A text is a string of TLA+, names and values are strings too; `Lower` is `tolower` over the texts that occur.  The
header container is the vector it is in the code, with the entries that `set` empties in place
and leaves there (`Set`), and it is searched from the front.  A request or a response is the
record of the members of its class, and each method an operator from the object before
the call to the object after it; `SetField` and its like do nothing for an enumerator that the class
has no name for.

`Outline` is what `serialize` writes, part by part, and `Serialize` the string it makes of the parts (`Join`).
`Deserialize` takes a string apart as the code does: `Divide` looks for the line breaks, the first two blanks and the
empty line, `LinesIn` and `Field` for the header lines and their colons, `Trim` trims, `ParseVersion` and `ParseStatus`
read the numbers.  So a blank in a target or a line break in a value moves the places where the text is divided,
as it does in the code.  `Scan` is the text so divided; `ReadFrom` makes an object of it, giving up
where the code does: a first line with too few blanks, a version or a code that is no number, no
empty line, a header line without a name.  It gives back whether it succeeded and the object as it is
left in either case.
`AsyncRead` starts from what Beast has parsed.

`HttpMessage` is the machine: the owner calls any method in any order, with the header
container given away too (`HeaderConstruct`, `HeaderClear`), and reads messages over the object.  `MaxEntries` is a bound for
TLC on the entries that an owner adds.  `HttpFields` is what the container is taken for: for
each name a sequence of values, no emptied entries, no spellings, no positions.  `ImplementsFields` says that every call is
one of its steps, and `CallsAreKept` that it is the right one, with the name and the value it was given.

`RoundTrip` speaks of `Legible` messages: at least one header line, no blank or line break in the method and the
target, none of the latter in a phrase, names and values trimmed and without a line break, names not empty and without a colon.
The setters accept everything else too, and nothing checks it on the way out: a target with a blank, a padded value, an empty
name, a `:` in a name or a line break set over them is written and read back as something else, or not at all.
A loop over a vector is a function of the number of rounds (`Chosen`, `SetAll`, `LoadReverseMap`), so that
something can be proved of it.

`keep_alive_` is left out because only its getter reads it.  The enumeration `field` has 350 members;
all those that a class does not know act alike, and one of them (`a_im`) is in the run.

### Analysis, Blacklist, Distributor, Forwarding

Targets, paths and names are sequences of tokens (labels, dots, colons, slashes, the two
schemes), which is what `find`, `substr` and the comparison of suffixes tell apart.
`Forwarding` is one session seen from its data: `Peek` (`diversion`), `Read` (`async_read` and
`resolve`, with any part of what follows the request already in `read_buffer`), `Handshake`
(the start of `handle_obscura`), `RouteForward` (the blacklist, up to the resolver's `co_await`),
`Resolved`, `RouteReverse`, `Write` (the answer to a CONNECT, or the serialised request) and `Rest` (the
prefetched bytes).  Errors that `graceful` lists are passed over, as the code does, and
leave the upstream `gone`; every other one is `Fail`.  What `Write` sends is the `Outline`, not its text: Beast has accepted
no target or field that would move the places where it is divided.  `Ban` is the blacklist's own interface, used
before the session starts: `distributor` keeps `blacklist_` to itself, and the program never fills it.

`Means` gives each text what the one who wrote it means by it: scheme, host and port.  It is
not computed by the operators of `Analysis`, so `RightDestination` compares the parser with
an independent reading; `SpeltAsMeant` says how one is written as the other.  Two premises narrow the
properties to what the code is meant for.
`Understood` says that the text has a form that belongs in its place (a host and port in a CONNECT and in
a Host field, a path in a handshake) and is not `Odd`: an IPv6 literal, which the code divides at its
first colon, or an absolute URI with a colon, no port and a path, of which it passes on an empty port.
`Plain` requests have no field twice, no empty
field and no transfer coding, and a body comes with its length: repeated fields come out as their last value,
and a chunked request comes
out with its chunks removed, a Content-Length added and its Transfer-Encoding kept.
`SaysTheSame` compares everything but `Connection`, which `async_read` overwrites with the client's keep-alive or close:
an `Upgrade` is not passed on, and nothing in the repository says that it should be.  A client that sent no CONNECT gets no
answer from the session itself, which is a part of `RequestKept`.

`Engine` leaves all this open: it takes the outcome of the analysis as a free choice and
looks at who holds which connection.

### Frame

A frame in memory is a record of a 32-bit id, a type byte and data; a text is a sequence of bytes.
`Serialize` and `Deserialize` are byte for byte the code's, and there is no run: the theorems
say more than one could.

## 3. What TLC checks

| run | bounds | question |
|---|---|---|
| `ConnectionPool` | 3 callers, 3 sockets, 2 endpoints, `MaxCache` 2, `MaxIdle` 1, `MaxTime` 3 | `Ownership`, `RightEndpoint`, `CacheBounded`, `StackByAge`, `OnlyConnectedIsUsed`, `NothingUsableLost`; refinement of `ConnectionLoan` |
| `Tunnel` | 2-byte halves, 3 bytes per peer | `Integrity`, `EofMeansAll`, `AtMostOneChunk`, `GracefulEndConverges`; `PeerEndConverges` for peers that go on reading |
| `Engine` | 2 sessions, 3 sockets, 2 endpoints, 3 hosts, `MaxCache` 1 | `OneSessionPerConnection`, `RoutedAsAsked`, `DoneHoldsNothing` |
| `ObscuraTunnel` | 2 chunks per peer | `InOrder`, `NothingReadIsDropped`, `FirstErrorReported`, `BothEndsConverge` |
| `LogMonitor` | 4 writes of 1 byte, `MaxFileSize` 1, `MaxArchives` 2, 3 ticks, every fault | `SerialCallsAreSafe`, `ReportedIsKept`, `WrittenOnce`, `SizeNotUnderestimated`, `ArchivesBounded`, `OldestDeletedFirst` |
| `HttpMessage` | 3 entries, 3 names in 2 spellings each and the empty one; the owner sets the empty name, one by its lower-case spelling and its enumerator, to an empty and another value; 6 or 7 texts and 2 parsed messages per class; a method with a blank, which is not legible | `ImplementsFields` (refinement), `CallsAreKept`, `BodyCounted`, `RoundTrip` |
| `Forwarding` | 17 requests, 3 handshakes, 3 configurations, 2 names to ban, 2 bytes behind the request | `RequestKept`, `RightDestination`, `BlocksTheListed` |

Why the bounds are enough.  The pool: a stack never grows beyond the number of callers that can release into it, so three callers and three sockets
fill a stack of `MaxCache` 2 and have one more refused; two endpoints show a
misfiled connection; with `MaxIdle` 1 and `MaxTime` 3 a stack holds expired and fresh
items at once.  The tunnel: with three bytes and halves of two, a chunk is written in one or two
pieces and a direction reads again after a first round; every pair of control
states of the two directions occurs.  The engine: two sessions, of which one can be
suspended in any stage while the other runs; three sockets let a cached failed socket, a
connecting and a used one exist together; the hosts are one behind the reverse
proxy, one blacklisted, one neither.  The logger: with a limit of one byte every second write
rotates; four writes make one more rotation than `MaxArchives` 2 allows, while another
write is pending, and two rotations can fall into one tick of the clock.
The messages: three entries hold a field twice
next to another one, or three times, and after a `set` one or two emptied entries; one field stands for
all that no operator names, beside the two that the classes keep in step themselves; the texts are cut
at every place where `deserialize` gives up.  Forwarding: every form of a target with and without a
port, with the port 80 and another; names that are listed, below a listed one, and end with the
letters of a listed one; entries of the configuration that are complete, duplicate, nameless, without a port
and with a host name.

`MaxTime` and `MaxSent` are bounds for TLC only (guards of `Tick` and of the
peers' sends); `MaxCache` and `MaxIdle` are 32 and 60 s in the code.
Deadlock is not checked (`CHECK_DEADLOCK FALSE`) where the modelled part really may stop: when the sessions, the
callers, the writes or the tunnel are over and the clock and the peers have come to their bounds.
In `HttpMessage` it is checked.

**Fairness.**  In the tunnels: the `io_context` runs every completion that is queued, and
the reactor completes a read when data, an end or an error is there (`WF` of
`Proxy`, `Kernel`, `Join`; in `ObscuraTunnel` of the two transfers and of the close).
Nothing is assumed of the peers: they need not send, end or read.  `PeersRead` (`WF` of
`WriteData`) says that they go on reading; it is the premise of `PeerEndConverges` and part of
`DrainSpec`, under which `ErrorConverges` is refuted, so that the refutation is not owed to
a peer that stopped.  The pool, the engine, the threads, the logger, the messages and forwarding have safety properties only.

**Disagreements** between the code and what its comments and docs say; each is a run that
TLC must find violated:

| run | what happens |
|---|---|
| `PoolHandsOut` | `zombie_detection` cannot see that a peer has closed its side, so that such a connection is handed out again, although `connection.cpp:73` and `:98` say that it is weeded out.  In TLC's shortest trace it comes into the cache by a `set_option` that throws; one that was released and then closed by its peer goes the same way |
| `TunnelError` | a direction that ends by an exception does not cancel the other, as `session.hpp:362` says; an idle peer then keeps the tunnel for ever |
| `ObscuraAnswers` | nothing is read from the upstream until the client has ended |
| `WorkerThreads` | on two threads a push between `back()` and `pop_back()`, or two reads of the same top, give a socket two owners; `connection.hpp:65` says that every thread has a pool of its own |
| `ConnectPort` | a CONNECT that names port 80 gets a tunnel to port 443 (`analysis.cpp:117`), not to the target it asked for |

Observed while modelling, and not run:

* Close comes before the deleter (`session.hpp:402`), so that no connection a session has used returns to the
  cache; only sockets whose connect failed do.  It is also what makes `OneSessionPerConnection` true.
* The second of two rotations in one tick of the clock replaces the first archive.
* Calls of the logger that overlap around a rotation get in each other's way: the rotation aborts the other's write, whose failure
  erases the entry that the rotation has just renewed, and the call that rotated goes on with an iterator that is gone.
  `SerialCallsAreSafe` has `"overlap"` for a premise because of it.  The strand (`monitor.hpp:279`) keeps calls apart between suspensions only, and no doc promises more.
* `cleanup_old_archives` takes the files of a log `net-dns` for archives of `net`: when `net` rotates, they count,
  and are deleted, although `monitor.hpp:78` promises the oldest archives of this log.  `LogMonitor` has one log.
* A message without header fields is written and not read back: `deserialize` looks for the empty
  line behind the first line break.
* `response::status(enum)` keeps the old reason phrase for a code without one; `status(unsigned)` and reading
  turn such a code into 0.
* The reverse lookup and the recognition of a scheme depend on case; the blacklist does not.  No part of
  the program fills the blacklist.
* Behind `forward_proxy` an empty host (`http:///a`) goes to the resolver; `parse_absolute_uri` reports it and
  no one looks.

## 4. What is proved

### The pool

The first part of `EngineProofs` proves, for every set of callers, sockets and endpoints and every
`MaxCache`, `MaxIdle` and `MaxTime` in `Nat`, from `PoolAssumption` alone (`NoSocket` is
not a socket, the three bounds are natural numbers):

| theorem | statement |
|---|---|
| `TypeCorrect` | `Spec => []TypeOK` |
| `OwnershipCorrect` | `Spec => []Ownership` |
| `EndpointCorrect` | `Spec => []RightEndpoint` |
| `BoundCorrect` | `Spec => []CacheBounded` |
| `AgeCorrect` | `Spec => []StackByAge` |
| `ConnectedCorrect` | `Spec => []OnlyConnectedIsUsed` |
| `UsableIsNeverLost` | `Spec => NothingUsableLost` |
| `PoolImplementsLoan` | `Spec => ImplementsLoan` |

The inductive invariant `IInv` is the conjunction of `TypeOK`, `SingleOwner`,
`NoLeakNoDangling`, `RightEndpoint`, `CacheBounded`, `StackByAge` and `OnlyConnectedIsUsed`.
Without the last
`CacheBounded` is not inductive, for a release could push a socket that is still connecting.
The ownership parts need each other: a push keeps `SingleOwner` only because
the holder's socket is in no stack, and an address can be given to a new object only
because `NoLeakNoDangling` says that a free one has no owner.

The argument goes by what a step does to the sequences: `TrimFacts` (a stack cut back, as
a hit and a miss do) and `PushFacts` (one item appended, as the deleter does)
describe the new cache, `TrimCached` and `PushCached` the new set of cached sockets, and each
action's preservation lemma combines them with what it does to the holders.
`PoolMoves` sums up what a step can do to the stacks and the callers (a hit, a miss, a connection that is
established, a deleter on a socket in any state, the shutdown, or nothing).  The action properties and the refinement
are proved of it, not of `Next`, because the sessions of the engine make the same moves: `KeepsUsable`
(a hit deletes only what is above the topmost usable item, a miss only a stack without one) and `LoanMoves`.
The refinement maps a hit and a miss to `Lend` with the kept sockets as witness, every
deleter to `Return`, the shutdown to `Shut`, and everything else to a stutter.

### The frame codec

`CodecProofs` proves of `Frame`, from nothing but arithmetic on `Nat`, for every 32-bit id, every type byte and
data of any length:

| theorem | statement |
|---|---|
| `FrameRead` | what `Serialize` makes of a frame, `Deserialize` accepts and turns back into that frame |
| `FrameWritten` | what `Deserialize` accepts is the serialised form of the frame it returns, and it accepts exactly the texts of five bytes or more |

`BigNative` and `NativeBig` say that the four bytes and the number determine each other; they go down
byte by byte by `Divide` and `Compose`.  `Parts` and `Whole` take a concatenation apart and put a
text together again.  That every type byte is accepted, the ones no enumerator names too, is what
the cast in `frame.cpp:69` does.

### The engine

The second part of `EngineProofs` proves, for every set of sessions, sockets, hosts and endpoints, every reverse map and
every blacklist, from `PoolAssumption` and `EngineAssumption`:

| theorem | statement |
|---|---|
| `EngineTypeCorrect` | `EngineSpec => []EngineTypeOK` |
| `SessionsApart` | `EngineSpec => []OneSessionPerConnection` |
| `RoutingCorrect` | `EngineSpec => []RoutedAsAsked` |
| `CloseCorrect` | `EngineSpec => []DoneHoldsNothing` |
| `SessionsUseTheLoan` | `EngineSpec => ImplementsLoan` |
| `SessionsGetUsable` | `EngineSpec => NothingUsableLost` |
| `SessionsUseTheConnected` | `EngineSpec => []OnlyConnectedIsUsed` |

A session does to the pool what a caller does, so the pool's `IInv` is one part of `EngineIInv` and its
step lemmas are cited as they stand.  The other parts are about each session (`Phase`: its stage
agrees with its pointer and with who has its client, in every stage of its end; `Own`: its connection has carried nobody else's bytes; `Asks`: what it acquires is
what was asked for) and about the cache (`Fresh`: what is in it has carried nothing).  `Fresh` is what
makes `OneSessionPerConnection` inductive: a session closes its connection before it gives it back, so
the deleter destroys it, and only sockets that never carried anything are pushed.

`EngineSpec` does not imply the `Spec` of the pool: a session closes its connection and lets go of it in one step,
where a caller takes two.  `SessionsMoveThePool` shows instead that each of its steps is one of
`PoolMoves`, so what the pool promises its callers it promises the sessions.

### The tunnels

`TunnelProofs` proves, for every size of the halves of the buffer and every number of bytes
(`TunnelAssumption`: positive and natural numbers), `TypeCorrect`, `IntegrityCorrect` (`[]Integrity`), `EofCorrect` (`[]EofMeansAll`) and
`LossCorrect` (`[]AtMostOneChunk`).  `Integrity` says nothing of bytes on their way, so `Accounted(d)` does: what was
taken from one socket is in the other, or it is in the buffer of `d` behind what has been written of it,
byte by byte; the count of the last write is stale until the next one starts (`Start`).  `AtEnd(d)` adds that
a direction which saw the end of the stream holds nothing.  A step of one direction does at most one thing to the
other, an abort (`Undisturbed`).

`ObscuraTunnelProofs` proves `TypeCorrect`, `OrderCorrect` (`[]InOrder`), `NothingDropped`
(`[]NothingReadIsDropped`) and `ErrorCorrect` (`[]FirstErrorReported`) for every number of chunks.
Its `Accounted` counts: what has been written and what is in hand is what has been read.

### The threads

`WorkerThreadsProofs` proves `TypeCorrect` for any set of threads, and `OneOwnerOnOneThread`: if no
two threads run the `io_context`, then `Spec => []OneOwner`, for every set of addresses and every limit.
`Owned` says in place of the sum that an object is lent, on the stack or in a local variable, and in one of
them only; `Placed` that between `back()` and `pop_back()` the local variable is what is on top.  The
run `WorkerThreads` shows that the premise is needed.

### The logger

`LogMonitorProofs` proves, for every set of writes, every limit and every set of faults, from `LogAssumption`
(`NoEntry` is not an entry; the bounds are natural numbers, the faults known ones):

| theorem | statement |
|---|---|
| `TypeCorrect` | `Spec => []TypeOK` |
| `SerialCorrect` | `Spec => []SerialCallsAreSafe` |
| `KeptCorrect` | `Spec => []ReportedIsKept` |
| `WrittenOnceCorrect` | `Spec => []WrittenOnce` |
| `SizeCorrect` | `Spec => []SizeNotUnderestimated` |
| `ArchivesCorrect` | `Spec => []ArchivesBounded` |
| `DeletionOrderCorrect` | `Spec => OldestDeletedFirst` |

`LogIInv` is these invariants and `Orderly` (no message is in a file before it is written, and only finitely many
writes have started, so that they can be counted).  `Handles` stands beside it: a handle is named after a
write that has started, and whoever writes through the handle of the entry has an iterator to this entry.
Without it `SizeNotUnderestimated` is not inductive: a write that resumes with a stale iterator leaves the count
of the uncounted, and it must not have been one of those that write to the entry's file.
`Serial` and `NothingLost` strengthen the two properties that have a premise: without overlap the one suspended call
has its iterator in `file_map`; and while no rename went wrong everything that was written, reported or not, can
be found or was deleted for its age.
What the clean-up keeps is a matter of cardinalities (`KeptBounded`, `DroppedOld`): the archive with the
most younger ones among those that stay has fewer of them than the limit, the youngest that goes has no fewer.

### From the first bytes to the tunnel

`ForwardingProofs` proves, for every set of messages, texts, bytes, configurations and bans, from `HeaderAssumption`
and `ForwardingAssumption` (the texts are sequences of tokens, and those that are not odd are spelt as they are
meant; the messages have a method and a body whose size can be written):

| theorem | statement |
|---|---|
| `TypeCorrect` | `Spec => []TypeOK` |
| `RequestIsKept` | `Spec => []RequestKept` |
| `DestinationIsRight` | `Spec => []RightDestination` |
| `ListedAreBlocked` | `Spec => BlocksTheListed` |

The inductive invariant `IInv` has five parts.  `Loaded`: the routes are what the loop makes of the configuration.
`ListInv`: the list holds the lower-cased form of every name that was banned, and nothing else.  `PhaseInv`: what is known
in which phase.  `TargetInv`: from the routing on, request and target are what one reading of the
client's first message gives, and a destination is that target, or the entry the routes have for it.
`StreamInv`: what was written, what is held and what is still to come are together what the client has sent.
The rest is about operators.  `Find`, `Before` and `After` are known by the first separator (`FindFirst`,
`Divided`, `ParseFacts`), and each form of a target is then taken apart once (`WithoutScheme`, `BehindTheSlash`,
`BetweenTheSlashes`), which gives one lemma for each branch of `Resolve`.

### The messages

`HttpMessageProofs` proves, for every set of names, values, texts and messages and any number of
entries, from `HeaderAssumption` and `MessageAssumption` (version numbers have two digits, texts are strings: no
prover knows that a literal is one, hence `OwnTexts` in it):

| theorem | statement |
|---|---|
| `TypeCorrect` | `Spec => []TypeOK` |
| `BodiesAreCounted` | `Spec => BodyCounted` |
| `FieldsAreAMap` | `Spec => ImplementsFields` |
| `CallsKeepThePromise` | `Spec => CallsAreKept` |
| `DividedAreReadBack` | `Spec => [](Divided(msg) /\ Divided(Reread(msg).object) => IsReadBack)` |

The inductive invariant `Inv` says that every entry is one of `Good` (to be found under its name, or emptied
altogether) and that the size of the body can be written.  Each call is shown to do one of a few things to
the entries (`Edit`: a call on one name, or other entries altogether with one value for each name), and
to leave a new body counted (`Counts`); `ReqCalls` and `ResCalls` say so of the calls, and
`NameSteps`, `FieldSteps`, `OtherSteps` and `ClassSteps` of the actions.  `EditFields` turns an edit into a step of `HttpFields`.

`DividedAreReadBack` is the part of `RoundTrip` that is not about characters.  `Divided(m)` says that the text of `m` comes
apart as it was put together, into a first line and at least one header line, each with a name; that the text of a
`Legible` message does is beyond the provers, which know nothing of the characters of a string, and stays with TLC.
The theorem needs more than the invariant, for a message may hold emptied entries and several lines of a name
while what was read has neither (`Settled`).  `ReadBack` is what `deserialize` makes of the lines of a message:
`ReqReread` and `ResReread` show that it is, `ReadBackValues` that each name has the value the message
showed last, and `ReadBackAgain` that a second reading changes nothing, because `Set` on settled entries is
the identity on a pair they have (`SetSame`), and `Connection` and `Content-Length` were put right the first time.

The loops over lines and entries are recursive functions on `0 .. N` (`Chosen`, `SetAll`, `LoadReverseMap`).
The induction theorems of the library take an operator and cannot be used here; the set of the `n` up to which a
fact holds is shown to hold 0 and to go from each `n` to the next, and `Prefixwise` in `CodecProofs`
says that such a set is all of `0 .. N`.

### What is only model-checked

Liveness, for the prover does not handle `ENABLED`: `GracefulEndConverges`, `PeerEndConverges` and `BothEndsConverge`.
`RoundTrip` on the text itself.  The runs that expect a violation show what does not hold, so there is nothing to prove.

## 5. What is left

Not modelled, and why: exception classes, memory aliases and empty files have no behaviour; the
enumeration of field names is a table, of which only the names in use are here; TLS, WebSocket
and the HTTP grammar are Beast's; `recycle(s)` without an endpoint has no reachable caller;
certificates and `listen` are I/O; the console side of the logger prints; `main` builds one worker.
The destruction of a worker with sessions under way, and a method that reaches the first `peek` in
pieces from a client that goes on sending, are left out (section 2, and the hazards).

Plan, in order:

1. The destruction of a worker with sessions under way.
2. Several logs in one directory, and a limit of archives that changes while they rotate.
3. The end of `file_write` outside its strand, if the logger is ever run on several threads.
