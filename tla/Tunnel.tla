-------------------------------- MODULE Tunnel --------------------------------
(* The TCP tunnel of one session: session::tunnel and the two transfer_tcp   *)
(* coroutines that operator || runs side by side (agent/session.hpp).        *)
(*                                                                           *)
(* Each direction reads from one socket into its half of buffer_ and writes  *)
(* to the other.  An operation is outstanding until the kernel completes it, *)
(* or until closing the socket or a cancellation completes it with           *)
(* operation_aborted; its completion is then queued and the coroutine        *)
(* resumes later, so a direction may act on a result that the other          *)
(* direction has made stale.  The two peers are the environment: they send,  *)
(* stop reading, close, reset or fail as they like.                          *)
EXTENDS Integers, Sequences

CONSTANTS
    BufSize,    \* bytes in one half of buffer_
    MaxSent     \* bytes each peer sends at most, for TLC

ASSUME TunnelAssumption == BufSize \in Nat \ {0} /\ MaxSent \in Nat

Sides == {"client", "upstream"}
Directions == {"c2u", "u2c"}

\* The arguments of the two transfer_tcp calls.
From(d) == IF d = "c2u" THEN "client" ELSE "upstream"
To(d) == IF d = "c2u" THEN "upstream" ELSE "client"
Other(d) == IF d = "c2u" THEN "u2c" ELSE "c2u"

VARIABLES
    isOpen,     \* is_open() of client_socket_ and of *upstream_
    peer,       \* what the peer of a socket did: "open", "fin", "reset", or "broken"
                \*   (the kernel gave up on it: timed out, unreachable)
    sent,       \* bytes a peer has sent so far
    taken,      \* bytes read from a socket so far
    delivered,  \* bytes written to a socket, in order
    buffer,     \* the halves of buffer_
    pc,         \* a direction: its outstanding operation, its queued completion, its end
    result,     \* the error code of its queued completion
    len,        \* n: bytes read and to be written
    written,    \* bytes of them that async_write has already written
    cancelled,  \* the coroutine's cancellation state
    emitted,    \* the parallel group has cancelled the loser
    released    \* upstream_.reset() is done: tunnel() has returned

sockVars == <<peer, sent, taken, delivered>>
vars == <<isOpen, peer, sent, taken, delivered, buffer, pc, result, len, written,
          cancelled, emitted, released>>

Byte == Sides \X (1 .. MaxSent)
Blank == <<"none", 0>>

\* graceful without connection_reset.
GracefulButReset == {"eof", "aborted"}

\* The error codes for which session::graceful is TRUE, of those that occur;
\* "bad" is bad_descriptor, "hard" any other error.
graceful == {"eof", "aborted", "reset"}
Results == {"ok", "hard", "bad", "eof", "aborted", "reset"}

Running == {"read", "readDone", "write", "writeDone"}

TypeOK ==
    /\ isOpen \in [Sides -> BOOLEAN]
    /\ peer \in [Sides -> {"open", "fin", "reset", "broken"}]
    /\ sent \in [Sides -> 0 .. MaxSent]
    /\ taken \in [Sides -> 0 .. MaxSent]
    /\ delivered \in [Sides -> Seq(Byte)]
    /\ buffer \in [Directions -> [1 .. BufSize -> Byte \cup {Blank}]]
    /\ pc \in [Directions -> Running \cup {"stopped", "thrown"}]
    /\ result \in [Directions -> Results]
    /\ len \in [Directions -> 0 .. BufSize]
    /\ written \in [Directions -> 0 .. BufSize]
    /\ cancelled \in [Directions -> BOOLEAN]
    /\ emitted \in BOOLEAN
    /\ released \in BOOLEAN
    /\ \A d \in Directions : /\ pc[d] = "write" => written[d] < len[d]
                            /\ taken[From(d)] <= sent[From(d)]

\* tunnel() starts on two open sockets; both coroutines run up to their first
\* read.  The peers may already have sent or ended.
Init ==
    /\ isOpen = [x \in Sides |-> TRUE]
    /\ peer = [x \in Sides |-> "open"]
    /\ sent = [x \in Sides |-> 0]
    /\ taken = [x \in Sides |-> 0]
    /\ delivered = [x \in Sides |-> <<>>]
    /\ buffer = [h \in Directions |-> [i \in 1 .. BufSize |-> Blank]]
    /\ pc = [d \in Directions |-> "read"]
    /\ result = [d \in Directions |-> "ok"]
    /\ len = [d \in Directions |-> 0]
    /\ written = [d \in Directions |-> 0]
    /\ cancelled = [d \in Directions |-> FALSE]
    /\ emitted = FALSE
    /\ released = FALSE

-------------------------------------------------------------------------------
\* One buffer for both directions.
SameHalf(d) == "c2u"

\* left_buffer belongs to c2u, right_buffer to u2c.
Half(d) == d

\* The operation of d is outstanding on socket x.
Outstanding(d, x) == (pc[d] = "read" /\ From(d) = x) \/ (pc[d] = "write" /\ To(d) = x)

Done(p) == IF p = "read" THEN "readDone" ELSE "writeDone"

\* Kernel: the read of d completes with the k bytes that have arrived.  A reset
\* may overtake bytes that were sent before it.
ReadData(d) ==
    LET x == From(d) IN
    /\ pc[d] = "read"
    /\ \E k \in 1 .. BufSize :
        /\ taken[x] + k <= sent[x]
        /\ taken' = [taken EXCEPT ![x] = @ + k]
        /\ buffer' = [buffer EXCEPT ![Half(d)] =
                        [i \in 1 .. BufSize |-> IF i <= k THEN <<x, taken[x] + i>> ELSE @[i]]]
        /\ len' = [len EXCEPT ![d] = k]
    /\ result' = [result EXCEPT ![d] = "ok"]
    /\ pc' = [pc EXCEPT ![d] = "readDone"]
    /\ UNCHANGED <<isOpen, peer, sent, delivered, written, cancelled, emitted, released>>

\* Kernel: the read of d completes with the end of the stream or an error.
ReadEnds(d) ==
    LET x == From(d) IN
    /\ pc[d] = "read"
    /\ \/ peer[x] = "fin" /\ taken[x] = sent[x] /\ result' = [result EXCEPT ![d] = "eof"]
       \/ peer[x] = "reset" /\ result' = [result EXCEPT ![d] = "reset"]
       \/ peer[x] = "broken" /\ result' = [result EXCEPT ![d] = "hard"]
    /\ pc' = [pc EXCEPT ![d] = "readDone"]
    /\ UNCHANGED <<isOpen, peer, sent, taken, delivered, buffer, len, written, cancelled,
                   emitted, released>>

\* async_write_some in place of async_write: a part of the buffer is enough.
WriteSome(d) ==
    LET x == To(d) IN
    /\ pc[d] = "write"
    /\ peer[x] \in {"open", "fin"}
    /\ \E k \in 1 .. len[d] - written[d] :
        /\ delivered' = [delivered EXCEPT ![x] =
                            @ \o [i \in 1 .. k |-> buffer[Half(d)][written[d] + i]]]
        /\ written' = [written EXCEPT ![d] = @ + k]
    /\ pc' = [pc EXCEPT ![d] = "writeDone"]
    /\ result' = [result EXCEPT ![d] = "ok"]
    /\ UNCHANGED <<isOpen, peer, sent, taken, buffer, len, cancelled, emitted, released>>

\* Kernel: async_write of d gets k more bytes of its buffer into the socket; it
\* completes with the last one.
WriteData(d) ==
    LET x == To(d) IN
    /\ pc[d] = "write"
    /\ peer[x] \in {"open", "fin"}
    /\ \E k \in 1 .. len[d] - written[d] :
        /\ delivered' = [delivered EXCEPT ![x] =
                            @ \o [i \in 1 .. k |-> buffer[Half(d)][written[d] + i]]]
        /\ written' = [written EXCEPT ![d] = @ + k]
        /\ pc' = [pc EXCEPT ![d] = IF written[d] + k = len[d] THEN "writeDone" ELSE "write"]
    /\ result' = [result EXCEPT ![d] = "ok"]
    /\ UNCHANGED <<isOpen, peer, sent, taken, buffer, len, cancelled, emitted, released>>

\* Kernel: async_write of d fails.
WriteFails(d) ==
    LET x == To(d) IN
    /\ pc[d] = "write"
    /\ \/ peer[x] = "reset" /\ result' = [result EXCEPT ![d] = "reset"]
       \/ peer[x] = "broken" /\ result' = [result EXCEPT ![d] = "hard"]
    /\ pc' = [pc EXCEPT ![d] = "writeDone"]
    /\ UNCHANGED <<isOpen, peer, sent, taken, delivered, buffer, len, written, cancelled,
                   emitted, released>>

-------------------------------------------------------------------------------
\* Starting an operation p on socket x: the coroutine throws operation_aborted
\* if it has been cancelled; on a closed socket the operation completes at once
\* with bad_descriptor; else it is outstanding.
Await(d, p, x) ==
    \/ /\ cancelled[d]
       /\ pc' = [pc EXCEPT ![d] = "thrown"]
       /\ UNCHANGED result
    \/ /\ ~ cancelled[d]
       /\ ~ isOpen[x]
       /\ pc' = [pc EXCEPT ![d] = Done(p)]
       /\ result' = [result EXCEPT ![d] = "bad"]
    \/ /\ ~ cancelled[d]
       /\ isOpen[x]
       /\ pc' = [pc EXCEPT ![d] = p]
       /\ UNCHANGED result

\* d runs shut_close(x) and returns: whatever is outstanding on x is aborted.
ShutCloseAndStop(d, x) ==
    /\ isOpen' = [isOpen EXCEPT ![x] = FALSE]
    /\ pc' = [e \in Directions |-> IF e = d THEN "stopped"
                                   ELSE IF Outstanding(e, x) THEN Done(pc[e]) ELSE pc[e]]
    /\ result' = [e \in Directions |-> IF e # d /\ Outstanding(e, x) THEN "aborted" ELSE result[e]]

Throw(d) == pc' = [pc EXCEPT ![d] = "thrown"] /\ UNCHANGED result

\* AfterRead that goes on counting from the previous write.
AfterReadKeepsCount(d) ==
    /\ pc[d] = "readDone"
    /\ \/ /\ result[d] = "ok"
          /\ Await(d, "write", To(d))
          /\ UNCHANGED isOpen
       \/ /\ result[d] \in graceful
          /\ ShutCloseAndStop(d, To(d))
       \/ /\ result[d] \notin graceful \cup {"ok"}
          /\ Throw(d)
          /\ UNCHANGED isOpen
    /\ UNCHANGED <<sockVars, buffer, len, written, cancelled, emitted, released>>

\* transfer_tcp resumes after its read.
AfterRead(d) ==
    /\ pc[d] = "readDone"
    /\ \/ /\ result[d] = "ok"
          /\ Await(d, "write", To(d))
          /\ UNCHANGED isOpen
       \/ /\ result[d] \in graceful
          /\ ShutCloseAndStop(d, To(d))
       \/ /\ result[d] \notin graceful \cup {"ok"}
          /\ Throw(d)
          /\ UNCHANGED isOpen
    /\ written' = [written EXCEPT ![d] = 0]
    /\ UNCHANGED <<sockVars, buffer, len, cancelled, emitted, released>>

\* AfterWrite that goes on after an error that is not graceful.
AfterWriteSwallows(d) ==
    /\ pc[d] = "writeDone"
    /\ \/ /\ result[d] \notin graceful
          /\ Await(d, "read", From(d))
          /\ UNCHANGED isOpen
       \/ /\ result[d] \in graceful
          /\ ShutCloseAndStop(d, From(d))
    /\ UNCHANGED <<sockVars, buffer, len, written, cancelled, emitted, released>>

\* transfer_tcp resumes after its write.
AfterWrite(d) ==
    /\ pc[d] = "writeDone"
    /\ \/ /\ result[d] = "ok"
          /\ Await(d, "read", From(d))
          /\ UNCHANGED isOpen
       \/ /\ result[d] \in graceful
          /\ ShutCloseAndStop(d, From(d))
       \/ /\ result[d] \notin graceful \cup {"ok"}
          /\ Throw(d)
          /\ UNCHANGED isOpen
    /\ UNCHANGED <<sockVars, buffer, len, written, cancelled, emitted, released>>

\* CancelOther that reaches the coroutine only at its next co_await.
CancelOtherLater(d) ==
    /\ pc[d] = "stopped"
    /\ ~ emitted
    /\ emitted' = TRUE
    /\ cancelled' = [cancelled EXCEPT ![Other(d)] = TRUE]
    /\ UNCHANGED <<isOpen, sockVars, buffer, pc, result, len, written, released>>

\* operator ||, a parallel group with wait_for_one_success: the first direction
\* that returns without an exception has the other cancelled, its outstanding
\* operation included.
CancelOther(d) ==
    LET o == Other(d) IN
    /\ pc[d] = "stopped"
    /\ ~ emitted
    /\ emitted' = TRUE
    /\ cancelled' = [cancelled EXCEPT ![o] = TRUE]
    /\ IF pc[o] \in {"read", "write"}
       THEN /\ pc' = [pc EXCEPT ![o] = Done(@)]
            /\ result' = [result EXCEPT ![o] = "aborted"]
       ELSE UNCHANGED <<pc, result>>
    /\ UNCHANGED <<isOpen, sockVars, buffer, len, written, released>>

\* The group completes when both directions have; tunnel() swallows what was
\* thrown, closes both sockets and resets upstream_.
Join ==
    /\ ~ released
    /\ \A d \in Directions : pc[d] \in {"stopped", "thrown"}
    /\ isOpen' = [x \in Sides |-> FALSE]
    /\ released' = TRUE
    /\ UNCHANGED <<sockVars, buffer, pc, result, len, written, cancelled, emitted>>

-------------------------------------------------------------------------------
\* The peers.
PeerSends(x) ==
    /\ peer[x] = "open"
    /\ isOpen[x]
    /\ sent[x] < MaxSent
    /\ sent' = [sent EXCEPT ![x] = @ + 1]
    /\ UNCHANGED <<isOpen, peer, taken, delivered, buffer, pc, result, len, written, cancelled,
                   emitted, released>>

PeerEnds(x) ==
    /\ isOpen[x]
    /\ \/ peer[x] = "open" /\ peer' = [peer EXCEPT ![x] = "fin"]
       \/ peer[x] \in {"open", "fin"} /\ \E how \in {"reset", "broken"} : peer' = [peer EXCEPT ![x] = how]
    /\ UNCHANGED <<isOpen, sent, taken, delivered, buffer, pc, result, len, written, cancelled,
                   emitted, released>>

Proxy(d) == AfterRead(d) \/ AfterWrite(d) \/ CancelOther(d)
Kernel(d) == ReadData(d) \/ ReadEnds(d) \/ WriteFails(d)

Next ==
    \/ \E d \in Directions : Proxy(d) \/ Kernel(d) \/ WriteData(d)
    \/ Join
    \/ \E x \in Sides : PeerSends(x) \/ PeerEnds(x)

Spec == Init /\ [][Next]_vars

\* The io_context runs every queued completion, and the reactor reports data, an
\* end or an error that is there.  A peer need not ever read, send or close.
Fairness ==
    /\ \A d \in Directions : WF_vars(Proxy(d)) /\ WF_vars(Kernel(d))
    /\ WF_vars(Join)
FairSpec == Spec /\ Fairness

\* Peers that go on reading what the proxy writes.
PeersRead == \A d \in Directions : WF_vars(WriteData(d))
DrainSpec == FairSpec /\ PeersRead

-------------------------------------------------------------------------------
\* The bytes a peer has sent, in order.
Stream(x, n) == [i \in 1 .. n |-> <<x, i>>]

\* What a peer receives is what the other one sent, from the first byte on, with
\* no gap, no repetition and no byte of the opposite direction, although both
\* directions work in one array and are cancelled at any point.
Integrity ==
    \A d \in Directions :
        /\ Len(delivered[To(d)]) <= sent[From(d)]
        /\ delivered[To(d)] = Stream(From(d), Len(delivered[To(d)]))

\* A direction that stops at the end of its stream has handed on all of it: the
\* receiver can take the close for the end of the data.
EofMeansAll ==
    \A d \in Directions :
        pc[d] = "stopped" /\ result[d] = "eof" => Len(delivered[To(d)]) = sent[From(d)]

\* However a direction is cut off, by a failed or cancelled write, or by the other one
\* closing the socket that a chunk just read is for, it loses at most that chunk: it
\* reads again only when all of the last chunk is written.
AtMostOneChunk ==
    \A d \in Directions :
        LET owed == taken[From(d)] - Len(delivered[To(d)]) IN
        /\ owed \in 0 .. BufSize
        /\ pc[d] = "read" => owed = 0

\* Once one direction has ended gracefully the other ends too and the sockets
\* are released, even if the peers never do anything any more.
GracefulEndConverges ==
    (\E d \in Directions : pc[d] = "stopped") ~> released

\* While the peers go on reading, the end of either peer ends the session unless
\* a hard error got in the way.
PeerEndConverges ==
    PeersRead => ((\E x \in Sides : peer[x] \in {"fin", "reset"})
                    ~> (released \/ \E x \in Sides : peer[x] = "broken"))

\* session.hpp, on tunnel: when either direction ends, by a disconnect or by an
\* error, operator || cancels the other.
ErrorConverges ==
    (\E d \in Directions : pc[d] \in {"stopped", "thrown"}) ~> released

===============================================================================
