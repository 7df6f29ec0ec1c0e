-------------------------- MODULE ObscuraTunnelProofs --------------------------
(* Proofs about ObscuraTunnel, for every number of chunks that the peers send. *)
EXTENDS ObscuraTunnel, TLAPS

\* How many chunks of x the transfer that reads from it holds.
InHand(x) == IF op = "write" /\ phase = (IF x = "client" THEN "o2u" ELSE "u2o") THEN 1 ELSE 0

\* While a transfer runs, what it has written and what it holds is what it has read;
\* a chunk is held only while it is being written.
Accounted ==
    /\ phase = "o2u" => Len(delivered["upstream"]) + InHand("client") = taken["client"]
    /\ phase = "o2u" => taken["upstream"] = 0 /\ delivered["client"] = <<>>
    /\ phase = "u2o" => Len(delivered["client"]) + InHand("upstream") = taken["upstream"]
    /\ phase \in {"close", "over"} => op = "read"

\* The inductive invariant: order needs the count, for a chunk is written with the
\* number of chunks read.
IInv ==
    /\ TypeOK
    /\ Accounted
    /\ InOrder
    /\ NothingReadIsDropped
    /\ FirstErrorReported

-------------------------------------------------------------------------------
\* A sequence that counts goes on counting when its next number is appended.
LEMMA CountOn ==
    ASSUME NEW s \in Seq(Nat), s = [i \in 1 .. Len(s) |-> i]
    PROVE  Append(s, Len(s) + 1) = [i \in 1 .. Len(Append(s, Len(s) + 1)) |-> i]
<1> DEFINE t == Append(s, Len(s) + 1)
           n == Len(s)
<1>1. t \in Seq(Nat) /\ Len(t) = n + 1 /\ n \in Nat
  OBVIOUS
<1>2. \A i \in 1 .. n : t[i] = s[i] /\ s[i] = i
  OBVIOUS
<1>3. t[n + 1] = n + 1
  OBVIOUS
<1>4. \A i \in 1 .. n + 1 : t[i] = i
  <2> TAKE i \in 1 .. n + 1
  <2>1. i \in 1 .. n \/ i = n + 1
    BY <1>1
  <2> QED
    BY <2>1, <1>2, <1>3
<1>5. t = [i \in 1 .. Len(t) |-> t[i]]
  BY <1>1
<1> HIDE DEF t, n
<1>6. t = [i \in 1 .. Len(t) |-> i]
  BY <1>1, <1>4, <1>5
<1> QED
  BY <1>6 DEF t, n

\* The number of chunks written to y grows by one, in order.
LEMMA DeliverFacts ==
    ASSUME TypeOK, InOrder, NEW x \in Sides,
           NEW n \in 1 .. MaxSent, n = Len(delivered[x]) + 1, Deliver(x, n)
    PROVE  /\ delivered' \in [Sides -> Seq(1 .. MaxSent)]
           /\ Len(delivered'[x]) = n
           /\ \A y \in Sides \ {x} : delivered'[y] = delivered[y]
           /\ InOrder'
<1>1. delivered[x] \in Seq(1 .. MaxSent) /\ delivered[x] \in Seq(Nat)
  <2>1. delivered[x] \in Seq(1 .. MaxSent)
    BY DEF TypeOK
  <2>2. \A i \in 1 .. Len(delivered[x]) : delivered[x][i] \in Nat
    BY <2>1, ObscuraAssumption
  <2> QED
    BY <2>1, <2>2
<1>2. delivered'[x] = Append(delivered[x], n)
  BY DEF Deliver, TypeOK
<1>3. \A y \in Sides \ {x} : delivered'[y] = delivered[y]
  BY DEF Deliver, TypeOK
<1>4. delivered' \in [Sides -> Seq(1 .. MaxSent)]
  BY <1>1, <1>2, <1>3 DEF Deliver, TypeOK
<1>5. Len(delivered'[x]) = n
  BY <1>1, <1>2
<1>6. delivered'[x] = [i \in 1 .. Len(delivered'[x]) |-> i]
  BY <1>1, <1>2, CountOn DEF InOrder
<1>7. InOrder'
  BY <1>3, <1>6 DEF InOrder
<1> QED
  BY <1>3, <1>4, <1>5, <1>7

\* GoOn keeps the first error.
LEMMA GoOnFacts ==
    ASSUME TypeOK, FirstErrorReported, NEW next \in {"u2o", "close", "over"}, NEW threw \in BOOLEAN,
           phase \in Errors, GoOn(next, threw)
    PROVE  /\ phase' = next /\ op' = "read"
           /\ thrown' \in Seq(Errors) /\ firstError' \in Errors \cup {NoError}
           /\ FirstErrorReported'
<1>1. phase' = next /\ op' = "read"
  BY DEF GoOn
<1>2. CASE ~ threw
  BY <1>1, <1>2 DEF GoOn, TypeOK, FirstErrorReported
<1>3. CASE threw
  <2>1. thrown \in Seq(Errors) /\ thrown' = Append(thrown, phase)
    BY <1>3 DEF GoOn, TypeOK
  <2>2. firstError' = IF firstError = NoError THEN phase ELSE firstError
    BY <1>3 DEF GoOn
  <2>3. thrown' \in Seq(Errors) /\ thrown' # <<>>
    BY <2>1
  <2>4. CASE thrown = <<>>
    <3>1. Head(thrown') = phase /\ firstError = NoError
      BY <2>1, <2>4 DEF FirstErrorReported
    <3> QED
      BY <1>1, <2>2, <2>3, <3>1 DEF FirstErrorReported, TypeOK
  <2>5. CASE thrown # <<>>
    <3>1. Head(thrown') = Head(thrown) /\ Head(thrown) \in Errors
      BY <2>1, <2>5
    <3>2. firstError = Head(thrown) /\ firstError # NoError
      BY <2>5, <3>1 DEF FirstErrorReported, Errors, NoError
    <3> QED
      BY <1>1, <2>2, <2>3, <3>1, <3>2 DEF FirstErrorReported, TypeOK
  <2> QED
    BY <2>4, <2>5
<1> QED
  BY <1>2, <1>3

-------------------------------------------------------------------------------
LEMMA InitIInv == Init => IInv
<1> SUFFICES ASSUME Init PROVE IInv
  OBVIOUS
<1>1. TypeOK
  <2>1. 0 \in 0 .. MaxSent /\ <<>> \in Seq(1 .. MaxSent) /\ <<>> \in Seq(Errors)
    BY ObscuraAssumption
  <2>2. /\ sent \in [Sides -> 0 .. MaxSent] /\ taken \in [Sides -> 0 .. MaxSent]
        /\ delivered \in [Sides -> Seq(1 .. MaxSent)]
        /\ \A x \in Sides : taken[x] <= sent[x]
    BY <2>1 DEF Init
  <2> QED
    BY <2>1, <2>2 DEF Init, TypeOK
<1>2. Accounted
  BY DEF Init, Accounted, InHand, Sides
<1>3. InOrder
  <2>1. <<>> = [i \in 1 .. Len(<<>>) |-> i]
    OBVIOUS
  <2> QED
    BY <2>1 DEF Init, InOrder
<1>4. NothingReadIsDropped /\ FirstErrorReported
  BY DEF Init, NothingReadIsDropped, FirstErrorReported
<1> QED
  BY <1>1, <1>2, <1>3, <1>4 DEF IInv

LEMMA NextIInv == IInv /\ [Next]_vars => IInv'
<1> SUFFICES ASSUME IInv, [Next]_vars PROVE IInv'
  OBVIOUS
<1> USE ObscuraAssumption
<1>0. /\ TypeOK /\ Accounted /\ InOrder /\ NothingReadIsDropped /\ FirstErrorReported
      /\ \A x \in Sides : Len(delivered[x]) \in Nat /\ taken[x] \in 0 .. MaxSent
      /\ "client" \in Sides /\ "upstream" \in Sides
  BY DEF IInv, TypeOK, Sides
<1>1. CASE MessageRead
  <2>1. TypeOK'
    BY <1>0, <1>1 DEF TypeOK, MessageRead, Take, peers, Sides
  <2>2. Accounted'
    BY <1>0, <1>1 DEF TypeOK, Accounted, InHand, MessageRead, Take, peers
  <2>3. InOrder' /\ NothingReadIsDropped' /\ FirstErrorReported'
    BY <1>0, <1>1 DEF MessageRead, InOrder, NothingReadIsDropped, FirstErrorReported, peers
  <2> QED
    BY <2>1, <2>2, <2>3 DEF IInv
<1>2. CASE MessagesEnd
  <2>1. PICK threw \in BOOLEAN : GoOn("u2o", threw) /\ ws' \in BOOLEAN
    BY <1>0, <1>2 DEF MessagesEnd, TypeOK
  <2>2. /\ phase' = "u2o" /\ op' = "read"
        /\ thrown' \in Seq(Errors) /\ firstError' \in Errors \cup {NoError}
        /\ FirstErrorReported'
    BY <1>0, <1>2, <2>1, GoOnFacts DEF MessagesEnd, Errors
  <2>3. TypeOK'
    BY <1>0, <1>2, <2>1, <2>2 DEF TypeOK, MessagesEnd, peers
  <2>4. Accounted' /\ InOrder' /\ NothingReadIsDropped'
    BY <1>0, <1>2, <2>2 DEF MessagesEnd, Accounted, InHand, InOrder, NothingReadIsDropped, peers
  <2> QED
    BY <2>2, <2>3, <2>4 DEF IInv
<1>3. CASE MessageWritten
  <2>1. taken["client"] \in 1 .. MaxSent /\ taken["client"] = Len(delivered["upstream"]) + 1
    BY <1>0, <1>3 DEF MessageWritten, Accounted, InHand
  <2>2. /\ delivered' \in [Sides -> Seq(1 .. MaxSent)]
        /\ Len(delivered'["upstream"]) = taken["client"]
        /\ delivered'["client"] = delivered["client"]
        /\ InOrder'
    BY <1>0, <1>3, <2>1, DeliverFacts DEF MessageWritten, Sides
  <2>3. TypeOK'
    BY <1>0, <1>3, <2>2 DEF TypeOK, MessageWritten, peers
  <2>4. Accounted' /\ NothingReadIsDropped' /\ FirstErrorReported'
    BY <1>0, <1>3, <2>2
    DEF MessageWritten, Accounted, InHand, NothingReadIsDropped, FirstErrorReported, peers
  <2> QED
    BY <2>2, <2>3, <2>4 DEF IInv
<1>4. CASE MessageNotWritten
  <2>1. /\ phase' = "u2o" /\ op' = "read"
        /\ thrown' \in Seq(Errors) /\ firstError' \in Errors \cup {NoError}
        /\ FirstErrorReported'
    BY <1>0, <1>4, GoOnFacts DEF MessageNotWritten, Errors
  <2>2. TypeOK'
    BY <1>0, <1>4, <2>1 DEF TypeOK, MessageNotWritten, peers
  <2>3. Accounted' /\ InOrder' /\ NothingReadIsDropped'
    BY <1>0, <1>4, <2>1
    DEF MessageNotWritten, Accounted, InHand, InOrder, NothingReadIsDropped, peers
  <2> QED
    BY <2>1, <2>2, <2>3 DEF IInv
<1>5. CASE UpstreamRead
  <2>1. TypeOK'
    BY <1>0, <1>5 DEF TypeOK, UpstreamRead, Take, peers, Sides
  <2>2. Accounted'
    BY <1>0, <1>5 DEF TypeOK, Accounted, InHand, UpstreamRead, Take, peers
  <2>3. InOrder' /\ NothingReadIsDropped' /\ FirstErrorReported'
    BY <1>0, <1>5 DEF TypeOK, Take, UpstreamRead, InOrder, NothingReadIsDropped, FirstErrorReported, peers
  <2> QED
    BY <2>1, <2>2, <2>3 DEF IInv
<1>6. CASE UpstreamEnds
  <2>1. /\ phase' = "close" /\ op' = "read"
        /\ thrown' \in Seq(Errors) /\ firstError' \in Errors \cup {NoError}
        /\ FirstErrorReported'
    BY <1>0, <1>6, GoOnFacts DEF UpstreamEnds, Errors
  <2>2. TypeOK'
    BY <1>0, <1>6, <2>1 DEF TypeOK, UpstreamEnds, peers
  <2>3. Accounted' /\ InOrder' /\ NothingReadIsDropped'
    BY <1>0, <1>6, <2>1 DEF UpstreamEnds, Accounted, InHand, InOrder, NothingReadIsDropped, peers
  <2> QED
    BY <2>1, <2>2, <2>3 DEF IInv
<1>7. CASE AnswerWritten
  <2>1. CASE Deliver("client", taken["upstream"]) /\ op' = "read" /\ UNCHANGED <<ws, phase, thrown, firstError>>
    <3>1. taken["upstream"] \in 1 .. MaxSent /\ taken["upstream"] = Len(delivered["client"]) + 1
      BY <1>0, <1>7 DEF AnswerWritten, Accounted, InHand
    <3>2. /\ delivered' \in [Sides -> Seq(1 .. MaxSent)]
          /\ Len(delivered'["client"]) = taken["upstream"]
          /\ delivered'["upstream"] = delivered["upstream"]
          /\ InOrder'
      BY <1>0, <2>1, <3>1, DeliverFacts DEF Sides
    <3>3. TypeOK'
      BY <1>0, <1>7, <2>1, <3>2 DEF TypeOK, AnswerWritten, peers
    <3>4. Accounted' /\ NothingReadIsDropped' /\ FirstErrorReported'
      BY <1>0, <1>7, <2>1, <3>2
      DEF AnswerWritten, Accounted, InHand, NothingReadIsDropped, FirstErrorReported, peers
    <3> QED
      BY <3>2, <3>3, <3>4 DEF IInv
  <2>2. CASE GoOn("close", FALSE) /\ ws' \in BOOLEAN /\ UNCHANGED delivered
    <3>1. /\ phase' = "close" /\ op' = "read"
          /\ thrown' \in Seq(Errors) /\ firstError' \in Errors \cup {NoError}
          /\ FirstErrorReported'
      BY <1>0, <1>7, <2>2, GoOnFacts DEF AnswerWritten, Errors
    <3>2. TypeOK'
      BY <1>0, <1>7, <2>2, <3>1 DEF TypeOK, AnswerWritten, peers
    <3>3. Accounted' /\ InOrder' /\ NothingReadIsDropped'
      BY <1>0, <1>7, <2>2, <3>1
      DEF AnswerWritten, Accounted, InHand, InOrder, NothingReadIsDropped, peers
    <3> QED
      BY <3>1, <3>2, <3>3 DEF IInv
  <2> QED
    BY <1>0, <1>7, <2>1, <2>2 DEF AnswerWritten, TypeOK
<1>8. CASE ProtoClosed
  <2>1. PICK threw \in BOOLEAN : GoOn("over", threw)
    BY <1>8 DEF ProtoClosed
  <2>2. /\ phase' = "over" /\ op' = "read"
        /\ thrown' \in Seq(Errors) /\ firstError' \in Errors \cup {NoError}
        /\ FirstErrorReported'
    BY <1>0, <1>8, <2>1, GoOnFacts DEF ProtoClosed, Errors
  <2>3. TypeOK'
    BY <1>0, <1>8, <2>2 DEF TypeOK, ProtoClosed, peers
  <2>4. Accounted' /\ InOrder' /\ NothingReadIsDropped'
    BY <1>0, <1>8, <2>2 DEF ProtoClosed, Accounted, InHand, InOrder, NothingReadIsDropped, peers
  <2> QED
    BY <2>2, <2>3, <2>4 DEF IInv
<1>9. CASE ClientActs
  <2>1. TypeOK'
    <3>1. sent' \in [Sides -> 0 .. MaxSent] /\ \A x \in Sides : taken'[x] <= sent'[x]
      <4>1. sent \in [Sides -> 0 .. MaxSent] /\ taken' = taken /\ \A x \in Sides : taken[x] <= sent[x]
        BY <1>0, <1>9 DEF TypeOK, ClientActs
      <4>2. CASE sent["client"] < MaxSent /\ sent' = [sent EXCEPT !["client"] = @ + 1]
        BY <1>0, <4>1, <4>2
      <4>3. CASE sent' = sent
        BY <4>1, <4>3
      <4> QED
        BY <1>9, <4>2, <4>3 DEF ClientActs
    <3>2. client' \in {"open", "close", "cut"} /\ empty' \in BOOLEAN
      <4>1. client \in {"open", "close", "cut"} /\ empty \in BOOLEAN
        BY <1>0 DEF TypeOK
      <4>2. /\ client' = client \/ client' \in {"close", "cut"}
            /\ empty' = empty \/ empty' = TRUE
        BY <1>9 DEF ClientActs
      <4> QED
        BY <4>1, <4>2
    <3> QED
      BY <1>0, <1>9, <3>1, <3>2 DEF TypeOK, ClientActs
  <2>2. Accounted' /\ InOrder' /\ NothingReadIsDropped' /\ FirstErrorReported'
    BY <1>0, <1>9
    DEF ClientActs, Accounted, InHand, InOrder, NothingReadIsDropped, FirstErrorReported
  <2> QED
    BY <2>1, <2>2 DEF IInv
<1>10. CASE UpstreamActs
  <2>1. TypeOK'
    BY <1>0, <1>10 DEF TypeOK, UpstreamActs, Sides
  <2>2. Accounted' /\ InOrder' /\ NothingReadIsDropped' /\ FirstErrorReported'
    BY <1>0, <1>10
    DEF UpstreamActs, Accounted, InHand, InOrder, NothingReadIsDropped, FirstErrorReported
  <2> QED
    BY <2>1, <2>2 DEF IInv
<1>11. CASE UNCHANGED vars
  BY <1>0, <1>11
  DEF IInv, vars, TypeOK, Accounted, InHand, InOrder, NothingReadIsDropped, FirstErrorReported
<1> QED
  BY <1>1, <1>2, <1>3, <1>4, <1>5, <1>6, <1>7, <1>8, <1>9, <1>10, <1>11
  DEF Next, ClientToUpstream, UpstreamToClient

LEMMA SpecIInv == Spec => []IInv
BY InitIInv, NextIInv, PTL DEF Spec

-------------------------------------------------------------------------------
\* The tunnel keeps its types: no chunk is read that was not sent.
THEOREM TypeCorrect == Spec => []TypeOK
<1>1. IInv => TypeOK
  BY DEF IInv
<1> QED
  BY <1>1, SpecIInv, PTL

\* Whatever is written to either side is what the other has sent, in order, without
\* gaps or repetitions (the buffer of transfer_obscura).
THEOREM OrderCorrect == Spec => []InOrder
<1>1. IInv => InOrder
  BY DEF IInv
<1> QED
  BY <1>1, SpecIInv, PTL

\* When the transfer from the client has returned, the upstream has all that was read,
\* unless its connection failed.
THEOREM NothingDropped == Spec => []NothingReadIsDropped
<1>1. IInv => NothingReadIsDropped
  BY DEF IInv
<1> QED
  BY <1>1, SpecIInv, PTL

\* The error that tunnel_obscura rethrows is the one that came first.
THEOREM ErrorCorrect == Spec => []FirstErrorReported
<1>1. IInv => FirstErrorReported
  BY DEF IInv
<1> QED
  BY <1>1, SpecIInv, PTL

===============================================================================
