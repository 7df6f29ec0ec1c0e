------------------------------ MODULE TunnelProofs ------------------------------
(* Proofs about Tunnel, for every size of the buffer and every number of     *)
(* bytes that the peers send.                                                *)
EXTENDS Tunnel, TLAPS

\* d holds bytes that it has read and not yet written.
Holds(d) == pc[d] = "write" \/ (pc[d] = "readDone" /\ result[d] = "ok")

\* The bytes of its buffer that it has written: the count of the last write is
\* stale until the next one starts.
Start(d) == IF pc[d] = "write" THEN written[d] ELSE 0

\* What was taken from one socket is in the other one, or it is still in the
\* buffer of d, in its order; only a direction that failed to write lost some.
Accounted(d) ==
    LET n == Len(delivered[To(d)]) IN
    /\ delivered[To(d)] = Stream(From(d), n)
    /\ n <= taken[From(d)] /\ taken[From(d)] <= n + BufSize
    /\ Holds(d) =>
        /\ Start(d) < len[d]
        /\ n + (len[d] - Start(d)) = taken[From(d)]
        /\ \A i \in 1 .. len[d] :
            i > Start(d) => buffer[d][i] = <<From(d), taken[From(d)] - len[d] + i>>
    /\ pc[d] \in {"read", "readDone"} /\ ~ Holds(d) => n = taken[From(d)]
    /\ pc[d] = "writeDone" /\ result[d] = "ok" => n = taken[From(d)]

\* d has seen the end of the stream: the peer is past sending, nothing is left,
\* and d does not write any more.
AtEnd(d) ==
    result[d] = "eof" =>
        /\ pc[d] \in {"readDone", "stopped", "thrown"}
        /\ peer[From(d)] # "open"
        /\ Len(delivered[To(d)]) = sent[From(d)]

\* The inductive invariant: Integrity and EofMeansAll need to know where every
\* byte is while it is in neither socket.
IInv ==
    /\ TypeOK
    /\ \A d \in Directions : Accounted(d) /\ AtEnd(d)

-------------------------------------------------------------------------------
\* There are two directions, one against the other.
LEMMA TwoWays ==
    ASSUME NEW d \in Directions
    PROVE  /\ Other(d) \in Directions /\ Other(d) # d
           /\ From(d) \in Sides /\ To(d) \in Sides /\ From(d) # To(d)
           /\ From(Other(d)) = To(d) /\ To(Other(d)) = From(d)
           /\ \A e \in Directions : e = d \/ e = Other(d)
BY DEF Directions, Sides, From, To, Other

\* A stream is a sequence of as many bytes.
LEMMA StreamIsSeq ==
    ASSUME NEW x, NEW n \in Nat, NEW S, \A i \in 1 .. n : <<x, i>> \in S
    PROVE  Stream(x, n) \in Seq(S) /\ Len(Stream(x, n)) = n
<1>1. Stream(x, n) \in [1 .. n -> S]
  BY DEF Stream
<1>2. \A f \in [1 .. n -> S] : f \in Seq(S) /\ Len(f) = n
  OBVIOUS
<1> QED
  BY <1>1, <1>2

\* The stream goes on where it ended.
LEMMA StreamGoesOn ==
    ASSUME NEW x, NEW n \in Nat, NEW k \in Nat
    PROVE  Stream(x, n) \o [i \in 1 .. k |-> <<x, n + i>>] = Stream(x, n + k)
<1> DEFINE s == Stream(x, n)
           t == [i \in 1 .. k |-> <<x, n + i>>]
           T == {<<x, i>> : i \in 1 .. n + k}
<1>1. s \in Seq(T) /\ Len(s) = n
  BY StreamIsSeq
<1>2. t \in Seq(T) /\ Len(t) = k
  <2>1. \A i \in 1 .. k : <<x, n + i>> \in T
    OBVIOUS
  <2> QED
    BY <2>1
<1>3. \A i \in 1 .. n : s[i] = <<x, i>>
  BY DEF Stream
<1>4. \A i \in 1 .. k : t[i] = <<x, n + i>>
  OBVIOUS
<1> HIDE DEF s, t, T
<1>5. /\ s \o t \in Seq(T)
      /\ Len(s \o t) = n + k
      /\ \A i \in 1 .. n : (s \o t)[i] = s[i]
      /\ \A i \in 1 .. k : (s \o t)[n + i] = t[i]
  <2>1. s \o t \in Seq(T) /\ Len(s \o t) = n + k
    BY <1>1, <1>2
  <2>2. \A i \in 1 .. n : (s \o t)[i] = s[i]
    BY <1>1, <1>2
  <2>3. \A i \in 1 .. k : (s \o t)[n + i] = t[i]
    BY <1>1, <1>2
  <2> QED
    BY <2>1, <2>2, <2>3
<1> DEFINE u == s \o t
<1>6. \A i \in 1 .. n + k : u[i] = <<x, i>>
  <2> TAKE i \in 1 .. n + k
  <2>1. CASE i \in 1 .. n
    BY <1>3, <1>5, <2>1
  <2>2. CASE i \notin 1 .. n
    <3>1. PICK j \in 1 .. k : i = n + j
      <4>1. i - n \in 1 .. k /\ i = n + (i - n)
        BY <2>2
      <4> QED
        BY <4>1
    <3> QED
      BY <1>4, <1>5, <3>1
  <2> QED
    BY <2>1, <2>2
<1> HIDE DEF u
<1>7. u = [i \in 1 .. n + k |-> u[i]]
  <2>1. u \in Seq(T) /\ Len(u) = n + k
    BY <1>5 DEF u
  <2> QED
    BY <2>1
<1>8. u = Stream(x, n + k)
  BY <1>6, <1>7 DEF Stream
<1> QED
  BY <1>8 DEF u, s, t

\* What others do to a direction: nothing, or they have its outstanding operation
\* complete with operation_aborted.
Undisturbed(d) ==
    /\ taken'[From(d)] = taken[From(d)]
    /\ delivered'[To(d)] = delivered[To(d)]
    /\ buffer'[d] = buffer[d] /\ len'[d] = len[d] /\ written'[d] = written[d]
    /\ \/ sent'[From(d)] = sent[From(d)] /\ peer'[From(d)] = peer[From(d)]
       \/ peer[From(d)] = "open" /\ peer'[From(d)] = "open"
       \/ sent'[From(d)] = sent[From(d)] /\ peer'[From(d)] # "open"
    /\ \/ pc'[d] = pc[d] /\ result'[d] = result[d]
       \/ pc[d] \in {"read", "write"} /\ pc'[d] = Done(pc[d]) /\ result'[d] = "aborted"

LEMMA UndisturbedFacts ==
    ASSUME TypeOK, NEW d \in Directions, Accounted(d), AtEnd(d), Undisturbed(d)
    PROVE  Accounted(d)' /\ AtEnd(d)'
<1>1. Accounted(d)'
  <2>1. CASE pc'[d] = pc[d] /\ result'[d] = result[d]
    BY <2>1 DEF Undisturbed, Accounted, Holds, Start
  <2>2. CASE pc[d] \in {"read", "write"} /\ pc'[d] = Done(pc[d]) /\ result'[d] = "aborted"
    BY <2>2 DEF Undisturbed, Accounted, Holds, Start, Done
  <2> QED
    BY <2>1, <2>2 DEF Undisturbed
<1>2. AtEnd(d)'
  BY DEF Undisturbed, AtEnd, Done
<1> QED
  BY <1>1, <1>2

-------------------------------------------------------------------------------
LEMMA InitIInv == Init => IInv
<1> SUFFICES ASSUME Init PROVE IInv
  OBVIOUS
<1>1. TypeOK
  <2>1. 0 \in 0 .. MaxSent /\ 0 \in 0 .. BufSize /\ <<>> \in Seq(Byte)
    BY TunnelAssumption
  <2>2. buffer \in [Directions -> [1 .. BufSize -> Byte \cup {Blank}]]
    BY DEF Init
  <2>3. /\ pc \in [Directions -> Running \cup {"stopped", "thrown"}]
        /\ result \in [Directions -> Results]
    BY DEF Init, Running, Results
  <2>4. \A d \in Directions : pc[d] # "write" /\ taken[From(d)] = 0 /\ sent[From(d)] = 0
    BY TwoWays DEF Init
  <2>5. /\ isOpen \in [Sides -> BOOLEAN]
        /\ peer \in [Sides -> {"open", "fin", "reset", "broken"}]
        /\ cancelled \in [Directions -> BOOLEAN] /\ emitted \in BOOLEAN /\ released \in BOOLEAN
    BY DEF Init
  <2>6. /\ sent \in [Sides -> 0 .. MaxSent] /\ taken \in [Sides -> 0 .. MaxSent]
        /\ delivered \in [Sides -> Seq(Byte)]
        /\ len \in [Directions -> 0 .. BufSize] /\ written \in [Directions -> 0 .. BufSize]
    BY <2>1 DEF Init
  <2>7. \A d \in Directions : (pc[d] = "write" => written[d] < len[d]) /\ taken[From(d)] <= sent[From(d)]
    BY <2>4
  <2> QED
    BY <2>2, <2>3, <2>5, <2>6, <2>7 DEF TypeOK
<1>2. ASSUME NEW d \in Directions PROVE Accounted(d) /\ AtEnd(d)
  <2>1. From(d) \in Sides /\ To(d) \in Sides
    BY TwoWays
  <2>2. delivered[To(d)] = <<>> /\ taken[From(d)] = 0
    BY <2>1 DEF Init
  <2>3. <<>> = Stream(From(d), 0)
    BY DEF Stream
  <2> QED
    BY <2>2, <2>3, TunnelAssumption DEF Init, Accounted, AtEnd, Holds
<1> QED
  BY <1>1, <1>2 DEF IInv

-------------------------------------------------------------------------------
\* What a direction can rely on before a step.
LEMMA Before ==
    ASSUME IInv, NEW d \in Directions
    PROVE  /\ TypeOK /\ Accounted(d) /\ AtEnd(d)
           /\ taken[From(d)] \in 0 .. MaxSent /\ sent[From(d)] \in 0 .. MaxSent
           /\ taken[From(d)] <= sent[From(d)]
           /\ delivered[To(d)] \in Seq(Byte) /\ Len(delivered[To(d)]) \in Nat
           /\ buffer[d] \in [1 .. BufSize -> Byte \cup {Blank}]
           /\ len[d] \in 0 .. BufSize /\ written[d] \in 0 .. BufSize
           /\ BufSize \in Nat /\ MaxSent \in Nat
BY TwoWays, TunnelAssumption, SMTT(30) DEF IInv, TypeOK

\* A step of one direction, while the tunnel runs, that leaves the other undisturbed.
LEMMA After ==
    ASSUME IInv, NEW d \in Directions,
           TypeOK', Accounted(d)', AtEnd(d)', Undisturbed(Other(d))
    PROVE  IInv'
<1>1. Other(d) \in Directions /\ \A e \in Directions : e = d \/ e = Other(d)
  BY TwoWays
<1>2. Accounted(Other(d))' /\ AtEnd(Other(d))'
  BY <1>1, UndisturbedFacts DEF IInv
<1>3. ASSUME NEW e \in Directions PROVE Accounted(e)' /\ AtEnd(e)'
  <2>1. CASE e = d
    BY <2>1
  <2>2. CASE e = Other(d)
    BY <1>2, <2>2
  <2> QED
    BY <1>1, <2>1, <2>2
<1> QED
  BY <1>3 DEF IInv

LEMMA ReadDataStep ==
    ASSUME IInv, NEW d \in Directions, ReadData(d) PROVE IInv'
<1> DEFINE x == From(d)
<1>0. PICK k \in 1 .. BufSize :
        /\ taken[x] + k <= sent[x]
        /\ taken' = [taken EXCEPT ![x] = @ + k]
        /\ buffer' = [buffer EXCEPT ![d] =
                        [i \in 1 .. BufSize |-> IF i <= k THEN <<x, taken[x] + i>> ELSE @[i]]]
        /\ len' = [len EXCEPT ![d] = k]
  BY DEF ReadData, Half
<1>1. TypeOK'
  <2>1. buffer' \in [Directions -> [1 .. BufSize -> Byte \cup {Blank}]]
    <3>1. ASSUME NEW i \in 1 .. BufSize, i <= k PROVE <<x, taken[x] + i>> \in Byte
      BY <1>0, <3>1, Before, TwoWays DEF Byte
    <3> QED
      BY <1>0, <3>1, Before DEF TypeOK
  <2>2. taken' \in [Sides -> 0 .. MaxSent] /\ \A e \in Directions : taken'[From(e)] <= sent[From(e)]
    <3>1. taken[x] + k \in 0 .. MaxSent
      BY <1>0, Before
    <3> QED
      BY <1>0, <3>1, Before, TwoWays DEF TypeOK
  <2>3. len' \in [Directions -> 0 .. BufSize] /\ pc' = [pc EXCEPT ![d] = "readDone"]
    BY <1>0, Before DEF TypeOK, ReadData
  <2>4. /\ pc' \in [Directions -> Running \cup {"stopped", "thrown"}]
        /\ \A e \in Directions : pc'[e] = "write" => pc[e] = "write" /\ len'[e] = len[e]
    BY <1>0, <2>3, Before DEF TypeOK, Running
  <2>5. result' \in [Directions -> Results]
    BY Before DEF TypeOK, ReadData, Results
  <2> QED
    BY <2>1, <2>2, <2>3, <2>4, <2>5, Before DEF TypeOK, ReadData
<1>2. Accounted(d)' /\ AtEnd(d)'
  <2>1. /\ pc[d] = "read" /\ pc'[d] = "readDone" /\ result'[d] = "ok"
        /\ taken'[x] = taken[x] + k /\ len'[d] = k /\ delivered' = delivered
    BY <1>0, Before, TwoWays DEF TypeOK, ReadData
  <2>0. \A i \in 1 .. k : buffer'[d][i] = <<x, taken[x] + i>>
    <3>1. \A i \in 1 .. k : i \in 1 .. BufSize /\ i <= k
      BY Before
    <3>2. buffer'[d] = [i \in 1 .. BufSize |-> IF i <= k THEN <<x, taken[x] + i>> ELSE buffer[d][i]]
      BY <1>0, Before DEF TypeOK
    <3> QED
      BY <3>1, <3>2
  <2>2. Len(delivered[To(d)]) = taken[x] /\ delivered[To(d)] = Stream(x, Len(delivered[To(d)]))
    BY <2>1, Before DEF Accounted, Holds
  <2>3. \A i \in 1 .. k : buffer'[d][i] = <<x, taken'[x] - k + i>>
    BY <2>0, <2>1, Before
  <2>4. taken'[x] <= Len(delivered[To(d)]) + BufSize
    BY <2>1, <2>2, Before
  <2>5. AtEnd(d)'
    BY <2>1 DEF AtEnd
  <2>6. Start(d)' = 0 /\ Len(delivered[To(d)]) + (k - 0) = taken'[x]
    BY <2>1, <2>2, Before DEF Start
  <2>7. (Holds(d) =>
            /\ Start(d) < len[d]
            /\ Len(delivered[To(d)]) + (len[d] - Start(d)) = taken[x]
            /\ \A i \in 1 .. len[d] :
                i > Start(d) => buffer[d][i] = <<x, taken[x] - len[d] + i>>)'
    BY <2>1, <2>3, <2>6
  <2>8. Holds(d)'
    BY <2>1 DEF Holds
  <2>9. Len(delivered[To(d)]) <= taken'[x]
    BY <2>1, <2>2, Before
  <2> QED
    BY <2>1, <2>2, <2>4, <2>5, <2>7, <2>8, <2>9 DEF Accounted
<1>3. Undisturbed(Other(d))
  BY <1>0, Before, TwoWays DEF TypeOK, ReadData, Undisturbed
<1> QED
  BY <1>1, <1>2, <1>3, After

LEMMA ReadEndsStep ==
    ASSUME IInv, NEW d \in Directions, ReadEnds(d) PROVE IInv'
<1> DEFINE x == From(d)
<1>1. PICK r \in {"eof", "reset", "hard"} :
        /\ result' = [result EXCEPT ![d] = r]
        /\ r = "eof" => peer[x] = "fin" /\ taken[x] = sent[x]
  BY DEF ReadEnds
<1>2. pc[d] = "read" /\ pc' = [pc EXCEPT ![d] = "readDone"]
  BY DEF ReadEnds
<1>3. TypeOK'
  <2>1. result' \in [Directions -> Results]
    BY <1>1, Before DEF TypeOK, Results
  <2>2. /\ pc' \in [Directions -> Running \cup {"stopped", "thrown"}]
        /\ \A e \in Directions : pc'[e] = "write" => pc[e] = "write"
    BY <1>2, Before DEF TypeOK, Running
  <2> QED
    BY <2>1, <2>2, Before DEF TypeOK, ReadEnds
<1>4. Accounted(d)' /\ AtEnd(d)'
  <2>1. pc'[d] = "readDone" /\ result'[d] = r
    BY <1>1, <1>2, Before DEF TypeOK
  <2>2. Len(delivered[To(d)]) = taken[x] /\ delivered[To(d)] = Stream(x, Len(delivered[To(d)]))
    BY <1>2, Before DEF Accounted, Holds
  <2> QED
    BY <1>1, <2>1, <2>2, Before DEF Accounted, AtEnd, Holds, Start, ReadEnds
<1>5. Undisturbed(Other(d))
  BY <1>1, <1>2, Before, TwoWays DEF TypeOK, ReadEnds, Undisturbed
<1> QED
  BY <1>3, <1>4, <1>5, After

LEMMA WriteDataStep ==
    ASSUME IInv, NEW d \in Directions, WriteData(d) PROVE IInv'
<1> DEFINE x == From(d)
           y == To(d)
           n == Len(delivered[y])
<1>0. /\ pc[d] = "write" /\ result' = [result EXCEPT ![d] = "ok"]
      /\ UNCHANGED <<isOpen, peer, sent, taken, buffer, len, cancelled, emitted, released>>
  BY DEF WriteData
<1>1. PICK k \in 1 .. len[d] - written[d] :
        /\ delivered' = [delivered EXCEPT ![y] =
                            @ \o [i \in 1 .. k |-> buffer[d][written[d] + i]]]
        /\ written' = [written EXCEPT ![d] = @ + k]
        /\ pc' = [pc EXCEPT ![d] = IF written[d] + k = len[d] THEN "writeDone" ELSE "write"]
  BY DEF WriteData, Half
<1>2. /\ written[d] < len[d] /\ n + (len[d] - written[d]) = taken[x]
      /\ delivered[y] = Stream(x, n)
      /\ \A i \in 1 .. len[d] :
            i > written[d] => buffer[d][i] = <<x, taken[x] - len[d] + i>>
  BY <1>0, Before DEF Accounted, Holds, Start
<1>3. /\ n \in Nat /\ taken[x] \in Nat /\ len[d] \in Nat /\ written[d] \in Nat
      /\ k \in Nat /\ k > 0 /\ written[d] + k <= len[d] /\ n + k <= taken[x]
  BY <1>2, Before
<1> HIDE DEF n
<1>4. [i \in 1 .. k |-> buffer[d][written[d] + i]] = [i \in 1 .. k |-> <<x, n + i>>]
  <2>1. ASSUME NEW i \in 1 .. k PROVE buffer[d][written[d] + i] = <<x, n + i>>
    <3>1. written[d] + i \in 1 .. len[d] /\ written[d] + i > written[d]
      BY <1>3
    <3>2. taken[x] - len[d] + (written[d] + i) = n + i
      BY <1>2, <1>3
    <3> QED
      BY <1>2, <3>1, <3>2
  <2> QED
    BY <2>1
<1>5. delivered'[y] = Stream(x, n + k)
  <2>1. delivered'[y] = delivered[y] \o [i \in 1 .. k |-> buffer[d][written[d] + i]]
    BY <1>1, Before, TwoWays DEF TypeOK
  <2>2. delivered'[y] = Stream(x, n) \o [i \in 1 .. k |-> <<x, n + i>>]
    BY <1>2, <1>4, <2>1
  <2> QED
    BY <1>3, <2>2, StreamGoesOn
<1>6. delivered'[y] \in Seq(Byte) /\ Len(delivered'[y]) = n + k
  <2>1. \A i \in 1 .. n + k : <<x, i>> \in Byte
    BY <1>3, Before, TwoWays DEF Byte
  <2>2. n + k \in Nat
    BY <1>3
  <2>3. Stream(x, n + k) \in Seq(Byte) /\ Len(Stream(x, n + k)) = n + k
    BY <2>1, <2>2, StreamIsSeq
  <2> QED
    BY <1>5, <2>3
<1>7. written'[d] = written[d] + k /\ pc'[d] \in {"write", "writeDone"} /\ result'[d] = "ok"
      /\ (pc'[d] = "writeDone" <=> written[d] + k = len[d])
  BY <1>0, <1>1, Before DEF TypeOK
<1>8. TypeOK'
  <2>1. delivered' \in [Sides -> Seq(Byte)]
    BY <1>1, <1>6, Before DEF TypeOK
  <2>2. written' \in [Directions -> 0 .. BufSize]
    <3>1. written[d] + k \in 0 .. BufSize
      BY <1>3, Before
    <3> QED
      BY <1>1, <3>1, Before DEF TypeOK
  <2>3. /\ pc' \in [Directions -> Running \cup {"stopped", "thrown"}]
        /\ result' \in [Directions -> Results]
    BY <1>0, <1>1, Before DEF TypeOK, Running, Results
  <2>4. \A e \in Directions : pc'[e] = "write" => written'[e] < len[e]
    <3> TAKE e \in Directions
    <3>1. CASE e = d
      BY <1>3, <1>7, <3>1
    <3>2. CASE e # d
      BY <1>1, <3>2, Before DEF TypeOK
    <3> QED
      BY <3>1, <3>2
  <2> QED
    BY <1>0, <2>1, <2>2, <2>3, <2>4, Before DEF TypeOK
<1>9. Accounted(d)' /\ AtEnd(d)'
  <2>0. n + k <= taken[x] /\ taken[x] <= n + k + BufSize
    BY <1>2, <1>3, Before
  <2>1. CASE pc'[d] = "write"
    <3>1. /\ written'[d] < len[d] /\ n + k + (len[d] - written'[d]) = taken[x]
          /\ \A i \in 1 .. len[d] :
                i > written'[d] => buffer[d][i] = <<x, taken[x] - len[d] + i>>
      <4>1. written'[d] = written[d] + k /\ written[d] + k # len[d]
        BY <1>7, <2>1
      <4>2. written[d] + k < len[d] /\ n + k + (len[d] - (written[d] + k)) = taken[x]
        BY <1>2, <1>3, <4>1
      <4>3. \A i \in 1 .. len[d] : i > written[d] + k => i > written[d]
        BY <1>3
      <4> QED
        BY <1>2, <4>1, <4>2, <4>3
    <3> QED
      BY <1>0, <1>3, <1>5, <1>6, <1>7, <2>0, <2>1, <3>1 DEF Accounted, AtEnd, Holds, Start
  <2>2. CASE pc'[d] = "writeDone"
    <3>1. n + k = taken[x]
      BY <1>2, <1>3, <1>7, <2>2, Before
    <3> QED
      BY <1>0, <1>3, <1>5, <1>6, <1>7, <2>0, <2>2, <3>1 DEF Accounted, AtEnd, Holds, Start
  <2> QED
    BY <1>7, <2>1, <2>2
<1>10. Undisturbed(Other(d))
  BY <1>0, <1>1, Before, TwoWays DEF TypeOK, Undisturbed
<1> QED
  BY <1>8, <1>9, <1>10, After

LEMMA WriteFailsStep ==
    ASSUME IInv, NEW d \in Directions, WriteFails(d) PROVE IInv'
<1>1. PICK r \in {"reset", "hard"} : result' = [result EXCEPT ![d] = r]
  BY DEF WriteFails
<1>2. pc[d] = "write" /\ pc' = [pc EXCEPT ![d] = "writeDone"]
  BY DEF WriteFails
<1>3. TypeOK'
  <2>1. result' \in [Directions -> Results]
    BY <1>1, Before DEF TypeOK, Results
  <2>2. /\ pc' \in [Directions -> Running \cup {"stopped", "thrown"}]
        /\ \A e \in Directions : pc'[e] = "write" => pc[e] = "write"
    BY <1>2, Before DEF TypeOK, Running
  <2> QED
    BY <2>1, <2>2, Before DEF TypeOK, WriteFails
<1>4. Accounted(d)' /\ AtEnd(d)'
  <2>1. pc'[d] = "writeDone" /\ result'[d] = r
    BY <1>1, <1>2, Before DEF TypeOK
  <2> QED
    BY <2>1, Before DEF Accounted, AtEnd, Holds, WriteFails
<1>5. Undisturbed(Other(d))
  BY <1>1, <1>2, Before, TwoWays DEF TypeOK, WriteFails, Undisturbed
<1> QED
  BY <1>3, <1>4, <1>5, After

-------------------------------------------------------------------------------
\* A direction that goes on to its next operation, or throws: nothing is written or
\* closed, and the other direction notices nothing.
LEMMA ResumeFacts ==
    ASSUME IInv, NEW d \in Directions, NEW p \in {"read", "write"}, NEW x \in Sides,
           pc[d] \in {"readDone", "writeDone"},
           (result[d] = "ok" /\ Await(d, p, x)) \/ Throw(d)
    PROVE  /\ \/ pc'[d] = "thrown" /\ result'[d] = result[d]
              \/ pc'[d] = Done(p) /\ result'[d] = "bad" /\ result[d] = "ok"
              \/ pc'[d] = p /\ result'[d] = "ok" /\ result[d] = "ok"
           /\ pc' \in [Directions -> Running \cup {"stopped", "thrown"}]
           /\ result' \in [Directions -> Results]
           /\ \A e \in Directions \ {d} : pc'[e] = pc[e] /\ result'[e] = result[e]
<1>0. /\ pc \in [Directions -> Running \cup {"stopped", "thrown"}]
      /\ result \in [Directions -> Results]
      /\ {"read", "write", "readDone", "writeDone"} \subseteq Running
      /\ "bad" \in Results /\ "ok" \in Results
  BY Before DEF TypeOK, Running, Results
<1>1. CASE Throw(d)
  BY <1>0, <1>1 DEF Throw
<1>2. CASE result[d] = "ok" /\ cancelled[d] /\ pc' = [pc EXCEPT ![d] = "thrown"] /\ UNCHANGED result
  BY <1>0, <1>2
<1>3. CASE /\ result[d] = "ok" /\ pc' = [pc EXCEPT ![d] = Done(p)]
           /\ result' = [result EXCEPT ![d] = "bad"]
  <2>1. Done(p) \in Running
    BY <1>0 DEF Done
  <2> QED
    BY <1>0, <1>3, <2>1
<1>4. CASE result[d] = "ok" /\ pc' = [pc EXCEPT ![d] = p] /\ UNCHANGED result
  BY <1>0, <1>4
<1> QED
  BY <1>1, <1>2, <1>3, <1>4 DEF Await

\* A direction that closes a socket and stops: the other one may find its operation
\* aborted.
LEMMA CloseFacts ==
    ASSUME IInv, NEW d \in Directions, NEW x \in Sides, ShutCloseAndStop(d, x)
    PROVE  /\ isOpen' \in [Sides -> BOOLEAN]
           /\ pc'[d] = "stopped" /\ result'[d] = result[d]
           /\ pc' \in [Directions -> Running \cup {"stopped", "thrown"}]
           /\ result' \in [Directions -> Results]
           /\ \A e \in Directions \ {d} :
                \/ pc'[e] = pc[e] /\ result'[e] = result[e]
                \/ pc[e] \in {"read", "write"} /\ pc'[e] = Done(pc[e]) /\ result'[e] = "aborted"
<1>0. /\ pc \in [Directions -> Running \cup {"stopped", "thrown"}]
      /\ result \in [Directions -> Results] /\ isOpen \in [Sides -> BOOLEAN]
      /\ "aborted" \in Results
  BY Before DEF TypeOK, Results
<1>1. \A p \in {"read", "write"} : Done(p) \in Running
  BY DEF Done, Running
<1>2. \A e \in Directions, z \in Sides : Outstanding(e, z) => pc[e] \in {"read", "write"}
  BY DEF Outstanding
<1>3. ASSUME NEW e \in Directions
      PROVE  /\ pc'[e] = IF e = d THEN "stopped"
                         ELSE IF Outstanding(e, x) THEN Done(pc[e]) ELSE pc[e]
             /\ result'[e] = IF e # d /\ Outstanding(e, x) THEN "aborted" ELSE result[e]
             /\ pc'[e] \in Running \cup {"stopped", "thrown"}
             /\ result'[e] \in Results
  BY <1>0, <1>1, <1>2 DEF ShutCloseAndStop
<1>4. /\ pc' \in [Directions -> Running \cup {"stopped", "thrown"}]
      /\ result' \in [Directions -> Results]
  <2>1. /\ pc' = [e \in Directions |-> pc'[e]]
        /\ result' = [e \in Directions |-> result'[e]]
    BY DEF ShutCloseAndStop
  <2> QED
    BY <1>3, <2>1
<1>5. isOpen' \in [Sides -> BOOLEAN]
  BY <1>0 DEF ShutCloseAndStop
<1>6. \A e \in Directions \ {d} :
        \/ pc'[e] = pc[e] /\ result'[e] = result[e]
        \/ pc[e] \in {"read", "write"} /\ pc'[e] = Done(pc[e]) /\ result'[e] = "aborted"
  BY <1>2, <1>3
<1> QED
  BY <1>3, <1>4, <1>5, <1>6

LEMMA AfterReadStep ==
    ASSUME IInv, NEW d \in Directions, AfterRead(d) PROVE IInv'
<1> DEFINE x == From(d)
           y == To(d)
           o == Other(d)
<1>0. /\ pc[d] = "readDone" /\ written' = [written EXCEPT ![d] = 0]
      /\ UNCHANGED <<sockVars, buffer, len, cancelled, emitted, released>>
  BY DEF AfterRead
<1>1. /\ isOpen' \in [Sides -> BOOLEAN]
      /\ pc' \in [Directions -> Running \cup {"stopped", "thrown"}]
      /\ result' \in [Directions -> Results]
      /\ \/ pc'[o] = pc[o] /\ result'[o] = result[o]
         \/ pc[o] \in {"read", "write"} /\ pc'[o] = Done(pc[o]) /\ result'[o] = "aborted"
      /\ \/ pc'[d] \in {"stopped", "thrown"} /\ result'[d] = result[d]
         \/ pc'[d] = "writeDone" /\ result'[d] = "bad" /\ result[d] = "ok"
         \/ pc'[d] = "write" /\ result'[d] = "ok" /\ result[d] = "ok"
  <2>1. CASE ShutCloseAndStop(d, y)
    BY <1>0, <2>1, CloseFacts, TwoWays
  <2>2. CASE ((result[d] = "ok" /\ Await(d, "write", y)) \/ Throw(d)) /\ UNCHANGED isOpen
    <3>1. /\ \/ pc'[d] = "thrown" /\ result'[d] = result[d]
             \/ pc'[d] = Done("write") /\ result'[d] = "bad" /\ result[d] = "ok"
             \/ pc'[d] = "write" /\ result'[d] = "ok" /\ result[d] = "ok"
          /\ pc' \in [Directions -> Running \cup {"stopped", "thrown"}]
          /\ result' \in [Directions -> Results]
          /\ \A e \in Directions \ {d} : pc'[e] = pc[e] /\ result'[e] = result[e]
      BY <1>0, <2>2, ResumeFacts, TwoWays
    <3> QED
      BY <2>2, <3>1, Before, TwoWays DEF TypeOK, Done
  <2> QED
    BY <2>1, <2>2 DEF AfterRead
<1>2. written'[d] = 0 /\ written'[o] = written[o] /\ written' \in [Directions -> 0 .. BufSize]
  BY <1>0, Before, TwoWays DEF TypeOK
<1>3. TypeOK'
  <2>1. ASSUME NEW e \in Directions, pc'[e] = "write" PROVE written'[e] < len[e]
    <3>1. CASE e = d
      <4>1. Holds(d) /\ Start(d) = 0
        BY <1>0, <1>1, <2>1, <3>1 DEF Holds, Start
      <4> QED
        BY <1>2, <3>1, <4>1, Before DEF Accounted
    <3>2. CASE e = o
      <4>1. pc[e] = "write"
        BY <1>1, <2>1, <3>2 DEF Done
      <4> QED
        BY <1>2, <3>2, <4>1, Before DEF TypeOK
    <3> QED
      BY <3>1, <3>2, TwoWays
  <2> QED
    BY <1>0, <1>1, <1>2, <2>1, Before DEF TypeOK, sockVars
<1>4. Accounted(d)' /\ AtEnd(d)'
  <2>1. CASE pc'[d] = "write" /\ result'[d] = "ok" /\ result[d] = "ok"
    BY <1>0, <1>2, <2>1, Before DEF Accounted, AtEnd, Holds, Start, sockVars
  <2>2. CASE pc'[d] = "writeDone" /\ result'[d] = "bad" /\ result[d] = "ok"
    BY <1>0, <1>2, <2>2, Before DEF Accounted, AtEnd, Holds, Start, sockVars
  <2>3. CASE pc'[d] \in {"stopped", "thrown"} /\ result'[d] = result[d]
    BY <1>0, <1>2, <2>3, Before DEF Accounted, AtEnd, Holds, Start, sockVars
  <2> QED
    BY <1>1, <2>1, <2>2, <2>3
<1>5. Undisturbed(o)
  BY <1>0, <1>1, <1>2 DEF Undisturbed, sockVars
<1> QED
  BY <1>3, <1>4, <1>5, After

LEMMA AfterWriteStep ==
    ASSUME IInv, NEW d \in Directions, AfterWrite(d) PROVE IInv'
<1> DEFINE x == From(d)
           o == Other(d)
<1>0. /\ pc[d] = "writeDone"
      /\ UNCHANGED <<sockVars, buffer, len, written, cancelled, emitted, released>>
  BY DEF AfterWrite
<1>1. /\ isOpen' \in [Sides -> BOOLEAN]
      /\ pc' \in [Directions -> Running \cup {"stopped", "thrown"}]
      /\ result' \in [Directions -> Results]
      /\ \/ pc'[o] = pc[o] /\ result'[o] = result[o]
         \/ pc[o] \in {"read", "write"} /\ pc'[o] = Done(pc[o]) /\ result'[o] = "aborted"
      /\ \/ pc'[d] \in {"stopped", "thrown"} /\ result'[d] = result[d]
         \/ pc'[d] = "readDone" /\ result'[d] = "bad" /\ result[d] = "ok"
         \/ pc'[d] = "read" /\ result'[d] = "ok" /\ result[d] = "ok"
  <2>1. CASE ShutCloseAndStop(d, x)
    BY <1>0, <2>1, CloseFacts, TwoWays
  <2>2. CASE ((result[d] = "ok" /\ Await(d, "read", x)) \/ Throw(d)) /\ UNCHANGED isOpen
    <3>1. /\ \/ pc'[d] = "thrown" /\ result'[d] = result[d]
             \/ pc'[d] = Done("read") /\ result'[d] = "bad" /\ result[d] = "ok"
             \/ pc'[d] = "read" /\ result'[d] = "ok" /\ result[d] = "ok"
          /\ pc' \in [Directions -> Running \cup {"stopped", "thrown"}]
          /\ result' \in [Directions -> Results]
          /\ \A e \in Directions \ {d} : pc'[e] = pc[e] /\ result'[e] = result[e]
      BY <1>0, <2>2, ResumeFacts, TwoWays
    <3> QED
      BY <2>2, <3>1, Before, TwoWays DEF TypeOK, Done
  <2> QED
    BY <2>1, <2>2 DEF AfterWrite
<1>2. TypeOK'
  <2>1. ASSUME NEW e \in Directions, pc'[e] = "write" PROVE written[e] < len[e]
    <3>1. e = o /\ pc[e] = "write"
      BY <1>1, <2>1, TwoWays DEF Done
    <3> QED
      BY <3>1, Before DEF TypeOK
  <2> QED
    BY <1>0, <1>1, <2>1, Before DEF TypeOK, sockVars
<1>3. Accounted(d)' /\ AtEnd(d)'
  BY <1>0, <1>1, Before DEF Accounted, AtEnd, Holds, Start, sockVars
<1>4. Undisturbed(o)
  BY <1>0, <1>1 DEF Undisturbed, sockVars
<1> QED
  BY <1>2, <1>3, <1>4, After

LEMMA CancelOtherStep ==
    ASSUME IInv, NEW d \in Directions, CancelOther(d) PROVE IInv'
<1> DEFINE o == Other(d)
<1>0. /\ pc[d] = "stopped" /\ cancelled' = [cancelled EXCEPT ![o] = TRUE] /\ emitted' = TRUE
      /\ UNCHANGED <<isOpen, sockVars, buffer, len, written, released>>
  BY DEF CancelOther
<1>1. \/ pc[o] \in {"read", "write"} /\ pc' = [pc EXCEPT ![o] = Done(@)]
                                     /\ result' = [result EXCEPT ![o] = "aborted"]
      \/ UNCHANGED <<pc, result>>
  BY DEF CancelOther
<1>2. /\ o \in Directions /\ o # d
      /\ pc \in [Directions -> Running \cup {"stopped", "thrown"}]
      /\ result \in [Directions -> Results]
  BY Before, TwoWays DEF TypeOK
<1>3. /\ pc' \in [Directions -> Running \cup {"stopped", "thrown"}]
      /\ result' \in [Directions -> Results]
      /\ pc'[d] = pc[d] /\ result'[d] = result[d]
      /\ \/ pc'[o] = pc[o] /\ result'[o] = result[o]
         \/ pc[o] \in {"read", "write"} /\ pc'[o] = Done(pc[o]) /\ result'[o] = "aborted"
  <2>1. Done(pc[o]) \in Running /\ "aborted" \in Results
    BY DEF Done, Running, Results
  <2> QED
    BY <1>1, <1>2, <2>1
<1>4. TypeOK'
  <2>1. ASSUME NEW e \in Directions, pc'[e] = "write" PROVE pc[e] = "write"
    BY <1>3, <2>1, TwoWays DEF Done
  <2> QED
    BY <1>0, <1>2, <1>3, <2>1, Before DEF TypeOK, sockVars
<1>5. Undisturbed(o) /\ Undisturbed(d)
  BY <1>0, <1>3 DEF Undisturbed, sockVars
<1>6. Accounted(d)' /\ AtEnd(d)'
  BY <1>5, Before, UndisturbedFacts
<1> QED
  BY <1>4, <1>5, <1>6, After

\* A step that disturbs no direction.
LEMMA Others ==
    ASSUME IInv, TypeOK', \A d \in Directions : Undisturbed(d)
    PROVE  IInv'
<1>1. ASSUME NEW d \in Directions PROVE Accounted(d)' /\ AtEnd(d)'
  BY UndisturbedFacts DEF IInv
<1> QED
  BY <1>1 DEF IInv

LEMMA JoinStep == ASSUME IInv, Join PROVE IInv'
<1>1. TypeOK'
  BY DEF IInv, TypeOK, Join, sockVars
<1>2. \A d \in Directions : Undisturbed(d)
  BY DEF Join, Undisturbed, sockVars
<1> QED
  BY <1>1, <1>2, Others

LEMMA PeerSendsStep == ASSUME IInv, NEW x \in Sides, PeerSends(x) PROVE IInv'
<1>1. TypeOK'
  <2>1. sent[x] + 1 \in 0 .. MaxSent
    BY TunnelAssumption DEF IInv, TypeOK, PeerSends
  <2>2. \A d \in Directions : taken[From(d)] <= sent'[From(d)]
    <3> TAKE d \in Directions
    <3>1. /\ taken[From(d)] \in 0 .. MaxSent /\ sent[From(d)] \in 0 .. MaxSent
          /\ taken[From(d)] <= sent[From(d)]
      BY Before
    <3>2. sent'[From(d)] = sent[From(d)] \/ sent'[From(d)] = sent[From(d)] + 1
      BY TwoWays DEF IInv, TypeOK, PeerSends
    <3> QED
      BY <3>1, <3>2, TunnelAssumption
  <2> QED
    BY <2>1, <2>2 DEF IInv, TypeOK, PeerSends
<1>2. \A d \in Directions : Undisturbed(d)
  <2> TAKE d \in Directions
  <2>1. CASE From(d) = x
    BY <2>1 DEF PeerSends, Undisturbed
  <2>2. CASE From(d) # x
    BY <2>2, TwoWays DEF IInv, TypeOK, PeerSends, Undisturbed
  <2> QED
    BY <2>1, <2>2
<1> QED
  BY <1>1, <1>2, Others

LEMMA PeerEndsStep == ASSUME IInv, NEW x \in Sides, PeerEnds(x) PROVE IInv'
<1>1. PICK how \in {"fin", "reset", "broken"} : peer' = [peer EXCEPT ![x] = how]
  BY DEF PeerEnds
<1>2. TypeOK'
  BY <1>1 DEF IInv, TypeOK, PeerEnds
<1>3. \A d \in Directions : Undisturbed(d)
  <2> TAKE d \in Directions
  <2>1. peer'[From(d)] = peer[From(d)] \/ peer'[From(d)] # "open"
    BY <1>1, TwoWays DEF IInv, TypeOK
  <2> QED
    BY <2>1 DEF PeerEnds, Undisturbed
<1> QED
  BY <1>2, <1>3, Others

LEMMA NextIInv == IInv /\ [Next]_vars => IInv'
<1> SUFFICES ASSUME IInv, [Next]_vars PROVE IInv'
  OBVIOUS
<1>1. ASSUME NEW d \in Directions, Proxy(d) PROVE IInv'
  BY <1>1, AfterReadStep, AfterWriteStep, CancelOtherStep DEF Proxy
<1>2. ASSUME NEW d \in Directions, Kernel(d) PROVE IInv'
  BY <1>2, ReadDataStep, ReadEndsStep, WriteFailsStep DEF Kernel
<1>3. ASSUME NEW d \in Directions, WriteData(d) PROVE IInv'
  BY <1>3, WriteDataStep
<1>4. CASE Join
  BY <1>4, JoinStep
<1>5. ASSUME NEW x \in Sides, PeerSends(x) \/ PeerEnds(x) PROVE IInv'
  BY <1>5, PeerSendsStep, PeerEndsStep
<1>6. CASE UNCHANGED vars
  <2>1. TypeOK'
    BY <1>6 DEF IInv, vars, TypeOK
  <2>2. \A d \in Directions : Undisturbed(d)
    BY <1>6 DEF vars, Undisturbed
  <2> QED
    BY <2>1, <2>2, Others
<1> QED
  BY <1>1, <1>2, <1>3, <1>4, <1>5, <1>6 DEF Next

LEMMA SpecIInv == Spec => []IInv
BY InitIInv, NextIInv, PTL DEF Spec

-------------------------------------------------------------------------------
\* The tunnel keeps its types: nothing is read that was not sent, and an
\* outstanding write always has bytes left to write.
THEOREM TypeCorrect == Spec => []TypeOK
<1>1. IInv => TypeOK
  BY DEF IInv
<1> QED
  BY <1>1, SpecIInv, PTL

\* transfer_tcp hands on what it reads without a gap, a repetition or a byte of the
\* opposite direction, wherever it is cancelled or its socket is closed under it.
THEOREM IntegrityCorrect == Spec => []Integrity
<1>1. IInv => Integrity
  <2> SUFFICES ASSUME IInv, NEW d \in Directions
               PROVE  /\ Len(delivered[To(d)]) <= sent[From(d)]
                      /\ delivered[To(d)] = Stream(From(d), Len(delivered[To(d)]))
    BY DEF Integrity
  <2>1. Len(delivered[To(d)]) <= taken[From(d)] /\ taken[From(d)] <= sent[From(d)]
    BY Before DEF Accounted
  <2>2. /\ Len(delivered[To(d)]) \in Int /\ taken[From(d)] \in Int /\ sent[From(d)] \in Int
    BY Before
  <2> QED
    BY <2>1, <2>2, Before DEF Accounted
<1> QED
  BY <1>1, SpecIInv, PTL

\* A direction of the tunnel that stops at the end of the stream has handed on all
\* that the peer ever sent.
THEOREM EofCorrect == Spec => []EofMeansAll
<1>1. IInv => EofMeansAll
  BY DEF IInv, AtEnd, EofMeansAll
<1> QED
  BY <1>1, SpecIInv, PTL

\* A direction that is cut off loses the chunk it has in hand, and nothing before it.
THEOREM LossCorrect == Spec => []AtMostOneChunk
<1>1. IInv => AtMostOneChunk
  <2> SUFFICES ASSUME IInv, NEW d \in Directions
               PROVE  /\ taken[From(d)] - Len(delivered[To(d)]) \in 0 .. BufSize
                      /\ pc[d] = "read" => taken[From(d)] - Len(delivered[To(d)]) = 0
    BY DEF AtMostOneChunk
  <2> QED
    BY Before DEF Accounted, Holds
<1> QED
  BY <1>1, SpecIInv, PTL

================================================================================
