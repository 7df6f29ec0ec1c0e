----------------------------- MODULE ObscuraTunnel -----------------------------
(* The tunnel of an obscura session: session::tunnel_obscura and the two      *)
(* transfer_obscura coroutines (agent/session.hpp, agent/obscura.hpp).        *)
(*                                                                            *)
(* Both transfers are created by co_spawn with use_awaitable.  Such a         *)
(* co_spawn does nothing until its result is awaited, so the transfer from    *)
(* upstream to client starts when the one from client to upstream has         *)
(* returned, and a cancellation signal is emitted either when the other       *)
(* transfer has not bound its slot yet or when it has already returned:       *)
(* neither reaches anybody.  The client speaks in WebSocket messages, the     *)
(* upstream in bytes; here both are numbered chunks.                          *)
EXTENDS Integers, Sequences

CONSTANT MaxSent    \* chunks each peer sends at most, for TLC

ASSUME ObscuraAssumption == MaxSent \in Nat

VARIABLES
    client,     \* the client: "open", "close" (a close frame), "cut" (the TCP
                \*   stream ends inside TLS)
    upstream,   \* the server: "open", "fin", "reset", "broken"
    ws,         \* the WebSocket stream is open on our side
    sent,       \* chunks sent, by side
    taken,      \* chunks read, by side
    delivered,  \* chunks written, by side
    phase,      \* which await tunnel_obscura is in: "o2u", "u2o", "close", "over"
    op,         \* what the running transfer waits for: "read", "write"
    empty,      \* the client's next message is an empty one
    thrown,     \* history: the errors thrown, in order
    firstError  \* first_error, and in the end what is rethrown

vars == <<client, upstream, ws, sent, taken, delivered, phase, op, empty, thrown, firstError>>

Sides == {"client", "upstream"}
Errors == {"o2u", "u2o", "close"}
NoError == "none"

TypeOK ==
    /\ client \in {"open", "close", "cut"}
    /\ upstream \in {"open", "fin", "reset", "broken"}
    /\ ws \in BOOLEAN
    /\ sent \in [Sides -> 0 .. MaxSent]
    /\ taken \in [Sides -> 0 .. MaxSent]
    /\ delivered \in [Sides -> Seq(1 .. MaxSent)]
    /\ phase \in {"o2u", "u2o", "close", "over"}
    /\ op \in {"read", "write"}
    /\ empty \in BOOLEAN
    /\ thrown \in Seq(Errors)
    /\ firstError \in Errors \cup {NoError}
    /\ \A x \in Sides : taken[x] <= sent[x]

Init ==
    /\ client = "open"
    /\ upstream = "open"
    /\ ws = TRUE
    /\ sent = [x \in Sides |-> 0]
    /\ taken = [x \in Sides |-> 0]
    /\ delivered = [x \in Sides |-> <<>>]
    /\ phase = "o2u"
    /\ op = "read"
    /\ empty = FALSE
    /\ thrown = <<>>
    /\ firstError = NoError

-------------------------------------------------------------------------------
peers == <<client, upstream, sent, empty>>

\* GoOn keeping the last error instead of the first.
GoOnLastError(next, threw) ==
    /\ phase' = next
    /\ op' = "read"
    /\ \/ ~ threw /\ UNCHANGED <<thrown, firstError>>
       \/ threw /\ thrown' = Append(thrown, phase) /\ firstError' = phase

\* tunnel_obscura goes on to its next await; the error of the one that ends, if
\* it threw, is kept unless an earlier one is.  Its three catch sites do the same.
GoOn(next, threw) ==
    /\ phase' = next
    /\ op' = "read"
    /\ \/ ~ threw /\ UNCHANGED <<thrown, firstError>>
       \/ /\ threw
          /\ thrown' = Append(thrown, phase)
          /\ firstError' = IF firstError = NoError THEN phase ELSE firstError

Take(x) == taken' = [taken EXCEPT ![x] = @ + 1]
Deliver(x, chunk) == delivered' = [delivered EXCEPT ![x] = Append(@, chunk)]

\* transfer_obscura from the client: proto.async_read completes with a message.
MessageRead ==
    /\ phase = "o2u"
    /\ op = "read"
    /\ taken["client"] < sent["client"]
    /\ Take("client")
    /\ op' = "write"
    /\ UNCHANGED <<peers, ws, delivered, phase, thrown, firstError>>

\* It completes with an empty message, which ends the transfer, or with an
\* error: a close frame is graceful, a stream cut inside TLS is not.  After an
\* error the WebSocket stream is no longer open.
MessagesEnd ==
    /\ phase = "o2u"
    /\ op = "read"
    /\ taken["client"] = sent["client"]
    /\ \/ empty /\ GoOn("u2o", FALSE) /\ UNCHANGED ws
       \/ ~ empty /\ client = "close" /\ ws' = FALSE /\ GoOn("u2o", FALSE)
       \/ ~ empty /\ client = "cut" /\ ws' = FALSE /\ GoOn("u2o", TRUE)
    /\ UNCHANGED <<peers, taken, delivered>>

\* MessageWritten without buffer.consume: the buffer is written once more.
MessageWrittenUnconsumed ==
    /\ phase = "o2u"
    /\ op = "write"
    /\ upstream \in {"open", "fin"}
    /\ delivered' = [delivered EXCEPT !["upstream"] = @ \o [i \in 1 .. taken["client"] |-> i]]
    /\ op' = "read"
    /\ UNCHANGED <<peers, ws, taken, phase, thrown, firstError>>

\* async_write to the upstream completes; the buffer is consumed.
MessageWritten ==
    /\ phase = "o2u"
    /\ op = "write"
    /\ upstream \in {"open", "fin"}
    /\ Deliver("upstream", taken["client"])
    /\ op' = "read"
    /\ UNCHANGED <<peers, ws, taken, phase, thrown, firstError>>

\* MessageNotWritten that takes a half-closed upstream for a failed one.
MessageNotWrittenOnFin ==
    /\ phase = "o2u"
    /\ op = "write"
    /\ upstream \in {"fin", "reset", "broken"}
    /\ GoOn("u2o", upstream = "broken")
    /\ UNCHANGED <<peers, ws, taken, delivered>>

\* async_write to the upstream fails: a reset is graceful.
MessageNotWritten ==
    /\ phase = "o2u"
    /\ op = "write"
    /\ upstream \in {"reset", "broken"}
    /\ GoOn("u2o", upstream = "broken")
    /\ UNCHANGED <<peers, ws, taken, delivered>>

\* UpstreamRead that takes a completion without data for a chunk.
UpstreamReadNothing ==
    /\ phase = "u2o"
    /\ op = "read"
    /\ Take("upstream")
    /\ op' = "write"
    /\ UNCHANGED <<peers, ws, delivered, phase, thrown, firstError>>

\* transfer_obscura from the upstream: a read completes with data.
UpstreamRead ==
    /\ phase = "u2o"
    /\ op = "read"
    /\ taken["upstream"] < sent["upstream"]
    /\ Take("upstream")
    /\ op' = "write"
    /\ UNCHANGED <<peers, ws, delivered, phase, thrown, firstError>>

\* A read completes with the end of the stream or an error.
UpstreamEnds ==
    /\ phase = "u2o"
    /\ op = "read"
    /\ \/ upstream = "fin" /\ taken["upstream"] = sent["upstream"]
       \/ upstream \in {"reset", "broken"}
    /\ GoOn("close", upstream = "broken")
    /\ UNCHANGED <<peers, ws, taken, delivered>>

\* proto.async_write completes; on a WebSocket stream that is no longer open it
\* is aborted, which is graceful.
AnswerWritten ==
    /\ phase = "u2o"
    /\ op = "write"
    /\ \/ ws /\ client # "cut" /\ Deliver("client", taken["upstream"]) /\ op' = "read"
          /\ UNCHANGED <<ws, phase, thrown, firstError>>
       \/ ws /\ client = "cut" /\ ws' = FALSE /\ GoOn("close", FALSE) /\ UNCHANGED delivered
       \/ ~ ws /\ GoOn("close", FALSE) /\ UNCHANGED <<ws, delivered>>
    /\ UNCHANGED <<peers, taken>>

\* ProtoClosed that waits for a close frame in every case.
ProtoClosedByFrame ==
    /\ phase = "close"
    /\ client = "close"
    /\ GoOn("over", FALSE)
    /\ ws' = FALSE
    /\ UNCHANGED <<peers, taken, delivered>>

\* proto->close() completes: at once if the stream is not open, else with the
\* client's close frame, or with an error if the client is gone.  Then upstream_
\* is closed and reset, and first_error rethrown.
ProtoClosed ==
    /\ phase = "close"
    /\ \/ ~ ws /\ GoOn("over", FALSE)
       \/ ws /\ client = "close" /\ GoOn("over", FALSE)
       \/ ws /\ client = "cut" /\ GoOn("over", TRUE)
    /\ ws' = FALSE
    /\ UNCHANGED <<peers, taken, delivered>>

-------------------------------------------------------------------------------
\* The two peers.
ClientActs ==
    /\ client = "open"
    /\ \/ /\ sent["client"] < MaxSent /\ ~ empty
          /\ sent' = [sent EXCEPT !["client"] = @ + 1]
          /\ UNCHANGED <<client, empty>>
       \/ empty' = TRUE /\ UNCHANGED <<client, sent>>
       \/ client' \in {"close", "cut"} /\ UNCHANGED <<sent, empty>>
    /\ UNCHANGED <<upstream, ws, taken, delivered, phase, op, thrown, firstError>>

UpstreamActs ==
    /\ upstream = "open"
    /\ \/ /\ sent["upstream"] < MaxSent
          /\ sent' = [sent EXCEPT !["upstream"] = @ + 1]
          /\ UNCHANGED upstream
       \/ upstream' \in {"fin", "reset", "broken"} /\ UNCHANGED sent
    /\ UNCHANGED <<client, ws, taken, delivered, phase, op, empty, thrown, firstError>>

ClientToUpstream == MessageRead \/ MessagesEnd \/ MessageWritten \/ MessageNotWritten
UpstreamToClient == UpstreamRead \/ UpstreamEnds \/ AnswerWritten

Next == ClientToUpstream \/ UpstreamToClient \/ ProtoClosed \/ ClientActs \/ UpstreamActs

Spec == Init /\ [][Next]_vars

\* Completions that are due arrive and are handled; the peers owe nothing.
FairSpec == Spec /\ WF_vars(ClientToUpstream) /\ WF_vars(UpstreamToClient) /\ WF_vars(ProtoClosed)

-------------------------------------------------------------------------------
\* Both sides get what the other sent, in order, without gaps or repetitions:
\* the flat_buffer is emptied after every message.
InOrder ==
    \A x \in Sides : delivered[x] = [i \in 1 .. Len(delivered[x]) |-> i]

\* What the first transfer has read from the client has reached the upstream
\* when it returns, unless the upstream's connection failed.  An upstream that
\* has only closed its own side still gets everything.
NothingReadIsDropped ==
    phase # "o2u" /\ upstream \in {"open", "fin"} => Len(delivered["upstream"]) = taken["client"]

\* tunnel_obscura reports the error that came first, whatever fails while it
\* cleans up after it, and reports none if nothing was thrown.
FirstErrorReported ==
    firstError = IF thrown = <<>> THEN NoError ELSE Head(thrown)

\* When both peers have ended, so does the session.
BothEndsConverge == (client # "open" /\ upstream # "open") ~> phase = "over"

\* session.hpp, on the two co_spawn calls: each call puts its task on the event
\* queue at once.  So what the upstream sends is passed on without waiting for
\* the client to end.
AnswersPassedOn ==
    sent["upstream"] > 0 ~> (taken["upstream"] > 0 \/ client # "open" \/ upstream # "open")

===============================================================================
