------------------------------ MODULE EngineProofs ------------------------------
(* Proofs about ConnectionPool, for every set of callers, sockets and endpoints *)
(* and every limit, and about Engine, for every number of sessions, every       *)
(* reverse_map_ and every blacklist.  What is proved of the pool serves both: a *)
(* session does to the pool what a caller does.                                 *)
EXTENDS Engine, FiniteSetTheorems, TLAPS

\* The inductive invariant: the invariants of the runs need each other.
IInv ==
    /\ TypeOK
    /\ SingleOwner
    /\ NoLeakNoDangling
    /\ RightEndpoint
    /\ CacheBounded
    /\ StackByAge
    /\ OnlyConnectedIsUsed

-------------------------------------------------------------------------------
\* What the two ways of changing a stack do to it: popping down to n items and
\* pushing one item leave every item below where it was.
LEMMA TrimFacts ==
    ASSUME TypeOK, NEW e \in Endpoints, NEW n \in 0 .. Len(cache[e]),
           cache' = [cache EXCEPT ![e] = SubSeq(@, 1, n)]
    PROVE  /\ cache' \in [Endpoints -> Seq(Items)]
           /\ DOMAIN cache'[e] = 1 .. n
           /\ Len(cache'[e]) = n
           /\ \A i \in 1 .. n : cache'[e][i] = cache[e][i]
           /\ \A f \in Endpoints \ {e} : cache'[f] = cache[f]
           /\ \A f \in Endpoints : \A i \in DOMAIN cache'[f] :
                i \in DOMAIN cache[f] /\ cache'[f][i] = cache[f][i]
<1>1. cache[e] \in Seq(Items) /\ cache' [e] = SubSeq(cache[e], 1, n)
  BY DEF TypeOK
<1>2. /\ SubSeq(cache[e], 1, n) \in Seq(Items)
      /\ Len(SubSeq(cache[e], 1, n)) = n
      /\ \A i \in 1 .. n : SubSeq(cache[e], 1, n)[i] = cache[e][i]
  BY <1>1
<1>3. DOMAIN cache'[e] = 1 .. n /\ DOMAIN cache[e] = 1 .. Len(cache[e])
  BY <1>1, <1>2
<1> QED
  BY <1>1, <1>2, <1>3 DEF TypeOK

LEMMA PushFacts ==
    ASSUME TypeOK, NEW e \in Endpoints, NEW item \in Items,
           cache' = [cache EXCEPT ![e] = Append(@, item)]
    PROVE  /\ cache' \in [Endpoints -> Seq(Items)]
           /\ Len(cache'[e]) = Len(cache[e]) + 1
           /\ DOMAIN cache'[e] = DOMAIN cache[e] \cup {Len(cache[e]) + 1}
           /\ Len(cache[e]) + 1 \notin DOMAIN cache[e]
           /\ \A i \in DOMAIN cache[e] : cache'[e][i] = cache[e][i]
           /\ cache'[e][Len(cache[e]) + 1] = item
           /\ \A f \in Endpoints \ {e} : cache'[f] = cache[f]
<1>1. cache[e] \in Seq(Items) /\ cache'[e] = Append(cache[e], item)
  BY DEF TypeOK
<1> QED
  BY <1>1 DEF TypeOK

\* Membership in a stack after popping and after pushing.
LEMMA TrimCached ==
    ASSUME TypeOK, NEW e \in Endpoints, NEW n \in 0 .. Len(cache[e]),
           cache' = [cache EXCEPT ![e] = SubSeq(@, 1, n)]
    PROVE  /\ Shelf'[e] = {cache[e][i].sock : i \in 1 .. n}
           /\ \A f \in Endpoints \ {e} : Shelf'[f] = Shelf[f]
           /\ \A f \in Endpoints : Shelf'[f] \subseteq Shelf[f]
<1>0. /\ DOMAIN cache'[e] = 1 .. n
      /\ \A i \in 1 .. n : cache'[e][i] = cache[e][i]
      /\ \A f \in Endpoints \ {e} : cache'[f] = cache[f]
  BY TrimFacts, ZenonT(60)
<1>1. Shelf'[e] = {cache[e][i].sock : i \in 1 .. n}
  BY <1>0 DEF Shelf
<1>2. \A f \in Endpoints \ {e} : Shelf'[f] = Shelf[f]
  BY <1>0 DEF Shelf
<1>3. {cache[e][i].sock : i \in 1 .. n} \subseteq Shelf[e]
  BY DEF Shelf, TypeOK
<1> QED
  BY <1>1, <1>2, <1>3

LEMMA PushCached ==
    ASSUME TypeOK, NEW e \in Endpoints, NEW item \in Items,
           cache' = [cache EXCEPT ![e] = Append(@, item)]
    PROVE  /\ Shelf'[e] = Shelf[e] \cup {item.sock}
           /\ \A f \in Endpoints \ {e} : Shelf'[f] = Shelf[f]
<1>0. /\ DOMAIN cache'[e] = DOMAIN cache[e] \cup {Len(cache[e]) + 1}
      /\ \A i \in DOMAIN cache[e] : cache'[e][i] = cache[e][i]
      /\ cache'[e][Len(cache[e]) + 1] = item
      /\ \A f \in Endpoints \ {e} : cache'[f] = cache[f]
  BY PushFacts
<1>1. \A f \in Endpoints \ {e} : Shelf'[f] = Shelf[f]
  BY <1>0 DEF Shelf
<1>2. Shelf'[e] \subseteq Shelf[e] \cup {item.sock}
  BY <1>0 DEF Shelf
<1>3. Shelf[e] \cup {item.sock} \subseteq Shelf'[e]
  BY <1>0 DEF Shelf
<1> QED
  BY <1>1, <1>2, <1>3

\* Cached is the union of the stacks.
LEMMA CachedMembers ==
    /\ \A s : s \in Cached <=> \E e \in Endpoints : s \in Shelf[e]
    /\ \A e \in Endpoints : \A s : s \in Shelf[e] <=> \E i \in DOMAIN cache[e] : s = cache[e][i].sock
BY DEF Cached, Shelf

LEMMA CachedSockets ==
    ASSUME TypeOK
    PROVE  Cached \subseteq Sockets /\ \A e \in Endpoints : Shelf[e] \subseteq Sockets
<1>1. \A e \in Endpoints : \A i \in DOMAIN cache[e] : cache[e][i] \in Items
  BY DEF TypeOK
<1> QED
  BY <1>1, CachedMembers DEF Items

-------------------------------------------------------------------------------
\* Actions that leave cache, held, want, target and pc of others alone and move
\* one socket between states of an existing object.
LEMMA SocketStep ==
    ASSUME IInv, NEW s \in Sockets, NEW st \in SockStates \ {"free", "connecting", "failed"},
           sockState[s] # "free",
           s \in Cached => st \in OpenStates,
           sockState' = [sockState EXCEPT ![s] = st],
           pc' \in [Callers -> {"idle", "connecting", "using"}],
           \A c \in Callers : pc'[c] = "idle" <=> pc[c] = "idle",
           \A c \in Callers : pc'[c] = "using" => pc[c] = "using" \/ held[c] = s,
           UNCHANGED <<cache, target, held, want, now, alive>>
    PROVE  IInv'
<1> USE DEF IInv
<1>1. TypeOK'
  BY DEF TypeOK
<1>2. UNCHANGED <<Cached>> /\ \A e \in Endpoints : Shelf'[e] = Shelf[e]
  BY DEF Cached, Shelf
<1>3. SingleOwner'
  BY <1>2 DEF SingleOwner
<1>4. NoLeakNoDangling'
  BY <1>2 DEF NoLeakNoDangling, TypeOK
<1>5. RightEndpoint'
  BY <1>2 DEF RightEndpoint
<1>6. CacheBounded'
  <2>1. \A e \in Endpoints : \A x \in Shelf[e] : x \in Sockets /\ x \in Cached
    BY CachedMembers, CachedSockets
  <2>2. \A e \in Endpoints : \A x \in Shelf[e] : sockState'[x] \in OpenStates \ {"connecting"}
    BY <2>1 DEF CacheBounded, TypeOK
  <2> QED
    BY <1>2, <2>2 DEF CacheBounded
<1>7. StackByAge'
  BY DEF StackByAge
<1>8. OnlyConnectedIsUsed'
  BY DEF OnlyConnectedIsUsed, TypeOK
<1> QED
  BY <1>1, <1>3, <1>4, <1>5, <1>6, <1>7, <1>8

LEMMA ConnectOkStep ==
    ASSUME IInv, NEW c \in Callers, ConnectOk(c)
    PROVE  IInv'
<1> DEFINE s == held[c]
<1>1. s \in Sockets /\ sockState[s] # "free" /\ s \notin Cached
  BY PoolAssumption DEF IInv, TypeOK, ConnectOk, NoLeakNoDangling, SingleOwner
<1>2. \A d \in Callers : pc'[d] = "idle" <=> pc[d] = "idle"
  BY DEF IInv, TypeOK, ConnectOk
<1>3. \A d \in Callers \ {c} : pc'[d] = pc[d]
  BY DEF IInv, TypeOK, ConnectOk
<1>4. \A d \in Callers : pc'[d] = "using" => pc[d] = "using" \/ held[d] = s
  BY <1>3
<1> HIDE DEF s
<1> QED
  BY <1>1, <1>2, <1>4, SocketStep DEF s, ConnectOk, SockStates, OpenStates, IInv, TypeOK

LEMMA CloseStep ==
    ASSUME IInv, NEW c \in Callers, Close(c)
    PROVE  IInv'
<1> DEFINE s == held[c]
<1>1. s \in Sockets /\ sockState[s] # "free" /\ s \notin Cached
  BY PoolAssumption DEF IInv, TypeOK, Close, NoLeakNoDangling, SingleOwner
<1> QED
  BY <1>1, SocketStep DEF Close, SockStates, OpenStates, IInv, TypeOK

LEMMA PeerStep ==
    ASSUME IInv, NEW s \in Sockets, PeerFin(s) \/ PeerReset(s)
    PROVE  IInv'
<1>1. CASE PeerFin(s)
  BY <1>1, SocketStep DEF PeerFin, SockStates, OpenStates, IInv, TypeOK
<1>2. CASE PeerReset(s)
  BY <1>2, SocketStep DEF PeerReset, SockStates, OpenStates, IInv, TypeOK
<1> QED
  BY <1>1, <1>2

-------------------------------------------------------------------------------
\* A caller lets go of its socket: it is deleted or pushed.
LEMMA LetGoStep ==
    ASSUME IInv, NEW c \in Callers, NEW st \in SockStates \ {"free", "connecting"},
           pc[c] # "idle", LetGo(c, st)
    PROVE  IInv'
<1> DEFINE s == held[c]
           e == want[c]
           item == [sock |-> s, last |-> now]
<1>0. /\ s \in Sockets /\ e \in Endpoints /\ item \in Items
      /\ \A d \in Callers \ {c} : held[d] # s /\ held'[d] = held[d] /\ pc'[d] = pc[d]
      /\ held'[c] = NoSocket /\ pc'[c] = "idle" /\ s # NoSocket
      /\ s \notin Cached /\ target[s] = e /\ held[c] = s /\ want[c] = e
      /\ item.sock = s /\ item.last = now
      /\ UNCHANGED <<target, want, now, alive>>
  BY PoolAssumption DEF IInv, TypeOK, LetGo, SingleOwner, RightEndpoint, Items
<1>x. /\ sockState \in [Sockets -> SockStates] /\ "free" \in SockStates
      /\ cache \in [Endpoints -> Seq(Items)] /\ held \in [Callers -> Sockets \cup {NoSocket}]
      /\ NoSocket \notin Sockets
      /\ Cached \subseteq Sockets
  BY PoolAssumption, CachedSockets DEF IInv, TypeOK, SockStates
<1>y. recycle(s, e, st)
  BY DEF LetGo
<1> HIDE DEF s, e, item
<1>1. CASE /\ sockState' = [sockState EXCEPT ![s] = "free"]
           /\ UNCHANGED cache
  <2>1. TypeOK'
    BY <1>0, <1>1 DEF IInv, TypeOK, LetGo, SockStates
  <2>2. Cached' = Cached /\ \A f \in Endpoints : Shelf'[f] = Shelf[f]
    BY <1>1 DEF Cached, Shelf
  <2>3. SingleOwner'
    <3>1. \A d \in Callers : held'[d] \notin Cached'
      BY <1>0, <1>x, <2>2 DEF IInv, SingleOwner
    <3>2. \A d, b \in Callers : d # b /\ held'[d] # NoSocket => held'[d] # held'[b]
      BY <1>0, <1>x DEF IInv, SingleOwner
    <3> QED
      BY <1>1, <3>1, <3>2 DEF IInv, SingleOwner
  <2>4. NoLeakNoDangling'
    <3> SUFFICES ASSUME NEW x \in Sockets
                 PROVE  sockState'[x] = "free" <=> x \notin Cached /\ \A d \in Callers : held'[d] # x
      BY <2>2 DEF NoLeakNoDangling
    <3>1. CASE x = s
      BY <3>1, <1>0, <1>1, <1>x
    <3>2. CASE x # s
      BY <3>2, <1>0, <1>1, <1>x DEF IInv, NoLeakNoDangling
    <3> QED
      BY <3>1, <3>2
  <2>5. RightEndpoint'
    <3>1. \A f \in Endpoints : \A x \in Shelf'[f] : target'[x] = f
      BY <1>0, <2>2 DEF IInv, RightEndpoint
    <3>2. \A d \in Callers : pc'[d] # "idle" => target'[held'[d]] = want'[d]
      BY <1>0 DEF IInv, RightEndpoint
    <3> QED
      BY <3>1, <3>2 DEF RightEndpoint
  <2>6. CacheBounded'
    <3>1. \A f \in Endpoints : \A x \in Shelf[f] : x \in Sockets /\ x # s
      BY <1>0, <1>x, CachedMembers
    <3>2. \A f \in Endpoints : \A x \in Shelf[f] : sockState'[x] \in OpenStates \ {"connecting"}
      BY <1>1, <1>x, <3>1 DEF IInv, CacheBounded
    <3> QED
      BY <1>1, <2>2, <3>2 DEF IInv, CacheBounded
  <2>7. StackByAge'
    BY <1>1 DEF IInv, StackByAge, LetGo
  <2>8. OnlyConnectedIsUsed'
    BY <1>0, <1>1, <1>x DEF IInv, OnlyConnectedIsUsed
  <2> QED
    BY <2>1, <2>3, <2>4, <2>5, <2>6, <2>7, <2>8 DEF IInv
<1>2. CASE /\ st \in OpenStates
           /\ Len(cache[e]) < MaxCache
           /\ sockState' = [sockState EXCEPT ![s] = st]
           /\ cache' = [cache EXCEPT ![e] = Append(@, item)]
  <2>0. /\ cache' \in [Endpoints -> Seq(Items)]
        /\ Len(cache'[e]) = Len(cache[e]) + 1
        /\ DOMAIN cache'[e] = DOMAIN cache[e] \cup {Len(cache[e]) + 1}
        /\ Len(cache[e]) + 1 \notin DOMAIN cache[e]
        /\ \A i \in DOMAIN cache[e] : cache'[e][i] = cache[e][i]
        /\ cache'[e][Len(cache[e]) + 1] = item
        /\ \A f \in Endpoints \ {e} : cache'[f] = cache[f]
    BY <1>0, <1>2, PushFacts DEF IInv
  <2>1. TypeOK'
    BY <1>0, <1>2, <2>0 DEF IInv, TypeOK, LetGo
  <2>2. /\ Shelf'[e] = Shelf[e] \cup {s}
        /\ \A f \in Endpoints \ {e} : Shelf'[f] = Shelf[f]
    BY <1>0, <1>2, PushCached, item.sock = s DEF IInv
  <2>20. Cached' = Cached \cup {s}
    <3>1. \A x : x \in Cached' <=> \E f \in Endpoints : x \in Shelf'[f]
      BY DEF Cached
    <3> QED
      BY <1>0, <2>2, <3>1, CachedMembers
  <2>3. SingleOwner'
    <3>1. \A d \in Callers : held'[d] \notin Cached'
      BY <1>0, <1>x, <2>20, CachedMembers DEF IInv, SingleOwner
    <3>2. \A f, g \in Endpoints : \A i \in DOMAIN cache'[f], j \in DOMAIN cache'[g] :
            cache'[f][i].sock = cache'[g][j].sock => f = g /\ i = j
      <4>1. \A f \in Endpoints : \A i \in DOMAIN cache[f] : cache[f][i].sock # s
        BY <1>0, CachedMembers
      <4>2. \A f \in Endpoints : \A i \in DOMAIN cache'[f] :
              \/ i \in DOMAIN cache[f] /\ cache'[f][i] = cache[f][i]
              \/ f = e /\ i = Len(cache[e]) + 1 /\ cache'[f][i].sock = s
        BY <1>0, <2>0
      <4> QED
        BY <4>1, <4>2 DEF IInv, SingleOwner
    <3> QED
      BY <1>0, <3>1, <3>2 DEF IInv, SingleOwner
  <2>4. NoLeakNoDangling'
    <3> SUFFICES ASSUME NEW x \in Sockets
                 PROVE  sockState'[x] = "free" <=> x \notin Cached' /\ \A d \in Callers : held'[d] # x
      BY DEF NoLeakNoDangling
    <3>1. CASE x = s
      BY <3>1, <1>0, <1>2, <1>x, <2>20 DEF OpenStates
    <3>2. CASE x # s
      BY <3>2, <1>0, <1>2, <1>x, <2>20 DEF IInv, NoLeakNoDangling
    <3> QED
      BY <3>1, <3>2
  <2>5. RightEndpoint'
    <3>1. \A f \in Endpoints : \A x \in Shelf'[f] : target'[x] = f
      BY <1>0, <2>2 DEF IInv, RightEndpoint
    <3>2. \A d \in Callers : pc'[d] # "idle" => target'[held'[d]] = want'[d]
      BY <1>0 DEF IInv, RightEndpoint
    <3> QED
      BY <3>1, <3>2 DEF RightEndpoint
  <2>6. CacheBounded'
    <3>1. \A f \in Endpoints : Len(cache'[f]) <= MaxCache
      BY <1>0, <1>2, <2>0, PoolAssumption DEF IInv, CacheBounded, TypeOK
    <3>2. \A f \in Endpoints : \A x \in Shelf'[f] : sockState'[x] \in OpenStates \ {"connecting"}
      BY <1>0, <1>2, <1>x, <2>2, CachedMembers, SMTT(30) DEF IInv, CacheBounded, OpenStates
    <3> QED
      BY <3>1, <3>2 DEF CacheBounded
  <2>7. StackByAge'
    BY <1>0, <1>2, <2>0, SMTT(30) DEF IInv, StackByAge, LetGo, TypeOK, Items
  <2>8. OnlyConnectedIsUsed'
    BY <1>0, <1>2, <1>x, SMTT(30) DEF IInv, OnlyConnectedIsUsed
  <2> QED
    BY <2>1, <2>3, <2>4, <2>5, <2>6, <2>7, <2>8 DEF IInv
<1> QED
  BY <1>1, <1>2, <1>y DEF recycle, item

-------------------------------------------------------------------------------
\* acquire_tcp, up to its first suspension: e's stack is popped down to n items,
\* the objects in D (all from above n) are deleted and the caller gets s, which
\* is now in state st.
LEMMA TakeStep ==
    ASSUME IInv, NEW c \in Callers, NEW e \in Endpoints, NEW n \in 0 .. Len(cache[e]),
           NEW s \in Sockets, NEW D \in SUBSET Shelf[e], NEW st \in {"connecting", "up", "fin"},
           pc[c] = "idle",
           \A i \in 1 .. n : cache[e][i].sock \notin D \cup {s},
           \A i \in n + 1 .. Len(cache[e]) : cache[e][i].sock \in D \cup {s},
           s \notin D => (sockState[s] = "free" \/ s \in Shelf[e]),
           cache' = [cache EXCEPT ![e] = SubSeq(@, 1, n)],
           sockState' = [Deleted(D) EXCEPT ![s] = st],
           target' = [target EXCEPT ![s] = e],
           held' = [held EXCEPT ![c] = s],
           want' = [want EXCEPT ![c] = e],
           pc' \in {[pc EXCEPT ![c] = IF st = "connecting" THEN "connecting" ELSE "using"]},
           UNCHANGED <<now, alive>>
    PROVE  IInv'
<1>x. /\ TypeOK /\ SingleOwner /\ NoLeakNoDangling /\ RightEndpoint /\ CacheBounded
      /\ StackByAge /\ OnlyConnectedIsUsed
      /\ NoSocket \notin Sockets
      /\ Cached \subseteq Sockets
      /\ held \in [Callers -> Sockets \cup {NoSocket}]
      /\ sockState \in [Sockets -> SockStates]
      /\ held[c] = NoSocket
  BY PoolAssumption, CachedSockets DEF IInv, TypeOK
<1>1. /\ cache' \in [Endpoints -> Seq(Items)]
      /\ DOMAIN cache'[e] = 1 .. n
      /\ Len(cache'[e]) = n
      /\ \A i \in 1 .. n : cache'[e][i] = cache[e][i]
      /\ \A f \in Endpoints \ {e} : cache'[f] = cache[f]
      /\ \A f \in Endpoints : \A i \in DOMAIN cache'[f] :
            i \in DOMAIN cache[f] /\ cache'[f][i] = cache[f][i]
  BY <1>x, TrimFacts
<1>2. /\ Shelf'[e] = {cache[e][i].sock : i \in 1 .. n}
      /\ \A f \in Endpoints \ {e} : Shelf'[f] = Shelf[f]
      /\ \A f \in Endpoints : Shelf'[f] \subseteq Shelf[f]
  BY <1>x, TrimCached
<1>3. /\ \A d \in Callers \ {c} : held'[d] = held[d] /\ want'[d] = want[d] /\ pc'[d] = pc[d]
      /\ held'[c] = s /\ want'[c] = e /\ pc'[c] = IF st = "connecting" THEN "connecting" ELSE "using"
      /\ sockState'[s] = st
      /\ target'[s] = e /\ \A x \in Sockets \ {s} : target'[x] = target[x]
      /\ \A x \in Sockets \ {s} : sockState'[x] = IF x \in D THEN "free" ELSE sockState[x]
  BY <1>x DEF TypeOK, Deleted
<1>4. /\ Shelf[e] \subseteq Cached
      /\ D \subseteq Cached
      /\ \A x \in Cached : \A d \in Callers : held[d] # x
      /\ \A d \in Callers : held[d] # s
  BY <1>x, CachedMembers DEF SingleOwner, NoLeakNoDangling
<1>5. Cached' = Cached \ (D \cup {s})
  <2>1. \A x : x \in Cached' <=> \E f \in Endpoints : x \in Shelf'[f]
    BY DEF Cached
  <2>2. Shelf'[e] = Shelf[e] \ (D \cup {s})
    <3>1. /\ Len(cache[e]) \in Nat /\ n \in Nat /\ n <= Len(cache[e])
          /\ DOMAIN cache[e] = 1 .. Len(cache[e])
          /\ DOMAIN cache[e] = (1 .. n) \cup (n + 1 .. Len(cache[e]))
      BY <1>x DEF TypeOK
    <3>2. \A x \in Shelf[e] : x \notin D \cup {s} => \E i \in 1 .. n : x = cache[e][i].sock
      BY <3>1, CachedMembers
    <3>3. \A i \in 1 .. n : cache[e][i].sock \in Shelf[e] /\ cache[e][i].sock \notin D \cup {s}
      BY <3>1, CachedMembers
    <3> QED
      BY <1>2, <3>2, <3>3
  <2>3. \A f \in Endpoints \ {e} : Shelf[f] \cap Shelf[e] = {}
    BY <1>x, CachedMembers DEF SingleOwner
  <2>4. \A f \in Endpoints \ {e} : \A x \in Shelf[f] : x \notin D \cup {s}
    BY <2>3, <1>x, CachedMembers DEF NoLeakNoDangling
  <2> QED
    BY <1>2, <2>1, <2>2, <2>4, CachedMembers
<1>6. TypeOK'
  <2>1. sockState' \in [Sockets -> SockStates]
    BY <1>x DEF Deleted, SockStates, OpenStates
  <2>2. /\ pc' \in [Callers -> {"idle", "connecting", "using"}]
        /\ held' \in [Callers -> Sockets \cup {NoSocket}]
        /\ want' \in [Callers -> Endpoints]
        /\ target' \in [Sockets -> Endpoints]
    BY <1>x DEF TypeOK
  <2>3. \A d \in Callers : held'[d] = NoSocket <=> pc'[d] = "idle"
    BY <1>x, <1>3 DEF TypeOK
  <2> QED
    BY <1>x, <1>1, <2>1, <2>2, <2>3 DEF TypeOK
<1>7. SingleOwner'
  <2>1. \A d, b \in Callers : d # b /\ held'[d] # NoSocket => held'[d] # held'[b]
    BY <1>x, <1>3, <1>4 DEF SingleOwner
  <2>2. \A d \in Callers : held'[d] \notin Cached'
    BY <1>x, <1>3, <1>5 DEF SingleOwner
  <2>3. \A f, g \in Endpoints : \A i \in DOMAIN cache'[f], j \in DOMAIN cache'[g] :
          cache'[f][i].sock = cache'[g][j].sock => f = g /\ i = j
    BY <1>x, <1>1 DEF SingleOwner
  <2> QED
    BY <2>1, <2>2, <2>3 DEF SingleOwner
<1>8. NoLeakNoDangling'
  <2> SUFFICES ASSUME NEW x \in Sockets
               PROVE  sockState'[x] = "free" <=> x \notin Cached' /\ \A d \in Callers : held'[d] # x
    BY DEF NoLeakNoDangling
  <2>1. CASE x = s
    BY <2>1, <1>3
  <2>2. CASE x # s /\ x \in D
    BY <2>2, <1>3, <1>4, <1>5
  <2>3. CASE x # s /\ x \notin D
    BY <2>3, <1>x, <1>3, <1>5 DEF NoLeakNoDangling
  <2> QED
    BY <2>1, <2>2, <2>3
<1>9. RightEndpoint'
  <2>1. \A f \in Endpoints : \A x \in Shelf'[f] : x \in Sockets /\ x # s /\ x \in Shelf[f]
    <3>1. \A f \in Endpoints : \A x \in Shelf'[f] : x \in Cached'
      BY DEF Cached
    <3> QED
      BY <3>1, <1>x, <1>2, <1>5
  <2>2. \A d \in Callers : pc'[d] # "idle" => target'[held'[d]] = want'[d]
    BY <1>x, <1>3, <1>4 DEF RightEndpoint, TypeOK
  <2> QED
    BY <1>x, <1>3, <2>1, <2>2 DEF RightEndpoint
<1>10. CacheBounded'
  <2>1. \A f \in Endpoints : Len(cache'[f]) <= MaxCache
    BY <1>x, <1>1, PoolAssumption DEF CacheBounded, TypeOK
  <2>2. \A f \in Endpoints : \A x \in Shelf'[f] : x \in Sockets /\ x # s /\ x \notin D /\ x \in Shelf[f]
    <3>1. \A f \in Endpoints : \A x \in Shelf'[f] : x \in Cached'
      BY DEF Cached
    <3> QED
      BY <3>1, <1>x, <1>2, <1>5
  <2>3. \A f \in Endpoints : \A x \in Shelf'[f] : sockState'[x] \in OpenStates \ {"connecting"}
    BY <1>x, <1>3, <2>2 DEF CacheBounded
  <2> QED
    BY <2>1, <2>3 DEF CacheBounded
<1>11. StackByAge'
  BY <1>x, <1>1 DEF StackByAge
<1>12. OnlyConnectedIsUsed'
  <2> SUFFICES ASSUME NEW d \in Callers, pc'[d] = "using"
               PROVE  sockState'[held'[d]] \notin {"connecting", "failed"}
    BY DEF OnlyConnectedIsUsed
  <2>1. CASE d = c
    BY <2>1, <1>3
  <2>2. CASE d # c
    <3>1. pc[d] = "using" /\ held[d] \in Sockets /\ held[d] # s /\ held[d] \notin D
      BY <2>2, <1>x, <1>3, <1>4 DEF TypeOK
    <3> QED
      BY <2>2, <3>1, <1>x, <1>3 DEF OnlyConnectedIsUsed
  <2> QED
    BY <2>1, <2>2
<1> QED
  BY <1>6, <1>7, <1>8, <1>9, <1>10, <1>11, <1>12 DEF IInv

LEMMA ReuseStep ==
    ASSUME IInv, NEW c \in Callers, NEW e \in Endpoints, AcquireReuse(c, e)
    PROVE  IInv'
<1>1. PICK i \in Usable(e) :
        /\ \A k \in Usable(e) : k <= i
        /\ sockState' = Deleted({cache[e][k].sock : k \in i + 1 .. Len(cache[e])})
        /\ cache' = [cache EXCEPT ![e] = SubSeq(@, 1, i - 1)]
        /\ held' = [held EXCEPT ![c] = cache[e][i].sock]
  BY DEF AcquireReuse
<1> DEFINE n == i - 1
           s == cache[e][i].sock
           D == {cache[e][k].sock : k \in i + 1 .. Len(cache[e])}
<1>2. /\ cache[e] \in Seq(Items) /\ Len(cache[e]) \in Nat
      /\ DOMAIN cache[e] = 1 .. Len(cache[e])
      /\ i \in 1 .. Len(cache[e])
      /\ n \in 0 .. Len(cache[e])
      /\ sockState[s] \in {"up", "fin"}
  BY DEF IInv, TypeOK, Usable, zombie_detection, remote_endpoint
<1>3. \A j, k \in 1 .. Len(cache[e]) : cache[e][j].sock = cache[e][k].sock => j = k
  BY <1>2 DEF IInv, SingleOwner
<1>4. /\ s \in Sockets /\ s \in Shelf[e] /\ s \in Cached
      /\ D \in SUBSET Shelf[e] /\ s \notin D
  BY <1>2, <1>3, CachedMembers, CachedSockets DEF IInv
<1>5. /\ \A j \in 1 .. n : cache[e][j].sock \notin D \cup {s}
      /\ \A j \in n + 1 .. Len(cache[e]) : cache[e][j].sock \in D \cup {s}
  <2>1. n \in Nat /\ i = n + 1 /\ n + 1 .. Len(cache[e]) = {i} \cup (i + 1 .. Len(cache[e]))
    BY <1>2
  <2>2. \A j \in 1 .. n : cache[e][j].sock \notin D \cup {s}
    BY <1>2, <1>3, <2>1
  <2>3. \A j \in i + 1 .. Len(cache[e]) : cache[e][j].sock \in D
    OBVIOUS
  <2> QED
    BY <2>1, <2>2, <2>3
<1>6. sockState' = [Deleted(D) EXCEPT ![s] = sockState[s]]
  BY <1>1, <1>4 DEF Deleted
<1>7. target' = [target EXCEPT ![s] = e]
  BY <1>4 DEF IInv, TypeOK, RightEndpoint, AcquireReuse
<1>8. sockState[s] \in {"connecting", "up", "fin"} /\ sockState[s] # "connecting"
  BY <1>2
<1>9. /\ pc[c] = "idle" /\ UNCHANGED <<now, alive>>
      /\ want' = [want EXCEPT ![c] = e]
      /\ pc' = [pc EXCEPT ![c] = "using"]
  BY DEF AcquireReuse
<1>10. cache' = [cache EXCEPT ![e] = SubSeq(@, 1, n)] /\ held' = [held EXCEPT ![c] = s]
  BY <1>1
<1> HIDE DEF n, s, D
<1> QED
  BY <1>2, <1>4, <1>5, <1>6, <1>7, <1>8, <1>9, <1>10, TakeStep

LEMMA ConnectStep ==
    ASSUME IInv, NEW c \in Callers, NEW e \in Endpoints, AcquireConnect(c, e)
    PROVE  IInv'
<1> DEFINE D == Shelf[e]
<1>1. PICK s \in Sockets :
        /\ Deleted(D)[s] = "free"
        /\ sockState' = [Deleted(D) EXCEPT ![s] = "connecting"]
        /\ target' = [target EXCEPT ![s] = e]
        /\ held' = [held EXCEPT ![c] = s]
  BY DEF AcquireConnect
<1>2. cache[e] \in Seq(Items) /\ Len(cache[e]) \in Nat /\ DOMAIN cache[e] = 1 .. Len(cache[e])
  BY DEF IInv, TypeOK
<1>3. /\ 0 \in 0 .. Len(cache[e])
      /\ \A i \in 1 .. 0 : cache[e][i].sock \notin D \cup {s}
      /\ \A i \in 0 + 1 .. Len(cache[e]) : cache[e][i].sock \in D \cup {s}
  BY <1>2, CachedMembers
<1>4. s \notin D => (sockState[s] = "free" \/ s \in Shelf[e])
  BY <1>1 DEF Deleted
<1>5. cache' = [cache EXCEPT ![e] = SubSeq(@, 1, 0)]
  <2>1. SubSeq(cache[e], 1, 0) = <<>>
    BY <1>2
  <2> QED
    BY <2>1 DEF AcquireConnect
<1>6. "connecting" \in {"connecting", "up", "fin"}
  OBVIOUS
<1>7. /\ pc[c] = "idle" /\ UNCHANGED <<now, alive>>
      /\ want' = [want EXCEPT ![c] = e]
      /\ pc' = [pc EXCEPT ![c] = "connecting"]
  BY DEF AcquireConnect
<1> HIDE DEF D
<1>8. D \in SUBSET Shelf[e]
  BY DEF D
<1> QED
  BY <1>1, <1>3, <1>4, <1>5, <1>6, <1>7, <1>8, TakeStep

LEMMA ShutdownStep ==
    ASSUME IInv, Shutdown
    PROVE  IInv'
<1>1. /\ cache' = [e \in Endpoints |-> <<>>]
      /\ sockState' = Deleted(Cached)
      /\ \A c \in Callers : held[c] = NoSocket /\ pc[c] = "idle"
      /\ alive' = FALSE
      /\ UNCHANGED <<target, pc, held, want, now>>
  BY DEF IInv, TypeOK, Shutdown, Clear
<1>2. Cached' = {} /\ \A e \in Endpoints : Shelf'[e] = {}
  BY <1>1 DEF Cached, Shelf
<1>3. TypeOK'
  <2>1. sockState' \in [Sockets -> SockStates]
    BY <1>1 DEF IInv, TypeOK, Deleted, SockStates
  <2>2. cache' \in [Endpoints -> Seq(Items)]
    BY <1>1
  <2>3. alive' \in BOOLEAN /\ \A c \in Callers : held'[c] = NoSocket <=> pc'[c] = "idle"
    BY <1>1
  <2> QED
    BY <1>1, <2>1, <2>2, <2>3 DEF IInv, TypeOK
<1>4. SingleOwner'
  BY <1>1, <1>2 DEF SingleOwner
<1>5. NoLeakNoDangling'
  BY <1>1, <1>2, PoolAssumption DEF IInv, NoLeakNoDangling, Deleted
<1>6. RightEndpoint' /\ StackByAge' /\ OnlyConnectedIsUsed'
  BY <1>1, <1>2 DEF RightEndpoint, StackByAge, OnlyConnectedIsUsed
<1>7. CacheBounded'
  BY <1>1, <1>2, PoolAssumption DEF CacheBounded
<1> QED
  BY <1>3, <1>4, <1>5, <1>6, <1>7 DEF IInv

LEMMA TickStep ==
    ASSUME IInv, Tick
    PROVE  IInv'
<1>1. Cached' = Cached /\ \A e \in Endpoints : Shelf'[e] = Shelf[e]
  BY DEF Tick, Cached, Shelf
<1>2. TypeOK'
  BY DEF IInv, TypeOK, Tick
<1>3. SingleOwner' /\ NoLeakNoDangling' /\ RightEndpoint' /\ CacheBounded' /\ OnlyConnectedIsUsed'
  BY <1>1 DEF IInv, Tick, SingleOwner, NoLeakNoDangling, RightEndpoint, CacheBounded, OnlyConnectedIsUsed
<1>4. StackByAge'
  <2>1. \A e \in Endpoints : \A i \in DOMAIN cache[e] : cache[e][i].last \in Nat
    <3>1. \A e \in Endpoints : \A i \in DOMAIN cache[e] : cache[e][i] \in Items
      BY DEF IInv, TypeOK
    <3> QED
      BY <3>1 DEF Items
  <2> QED
    BY <2>1 DEF IInv, StackByAge, Tick, TypeOK
<1> QED
  BY <1>2, <1>3, <1>4 DEF IInv

LEMMA StutterStep ==
    ASSUME IInv, UNCHANGED vars
    PROVE  IInv'
<1>1. Cached' = Cached /\ Shelf' = Shelf
  BY DEF vars, Cached, Shelf
<1> QED
  BY <1>1 DEF vars, IInv, TypeOK, SingleOwner, NoLeakNoDangling, RightEndpoint, CacheBounded, StackByAge, OnlyConnectedIsUsed

-------------------------------------------------------------------------------
\* A new pool is empty, so every part of the invariant holds.
LEMMA InitIInv == Init => IInv
<1> SUFFICES ASSUME Init PROVE IInv
  OBVIOUS
<1>1. Cached = {} /\ \A e \in Endpoints : Shelf[e] = {}
  BY DEF Init, Cached, Shelf
<1>2. TypeOK
  BY DEF Init, TypeOK, SockStates
<1> QED
  BY <1>1, <1>2, PoolAssumption
     DEF Init, IInv, SingleOwner, NoLeakNoDangling, RightEndpoint, CacheBounded, StackByAge, OnlyConnectedIsUsed

\* Every step of the pool, of its callers, of the peers and of the clock keeps
\* the inductive invariant.
LEMMA NextIInv == IInv /\ [Next]_vars => IInv'
<1> SUFFICES ASSUME IInv, [Next]_vars PROVE IInv'
  OBVIOUS
<1>1. ASSUME NEW c \in Callers, NEW e \in Endpoints, AcquireReuse(c, e) PROVE IInv'
  BY <1>1, ReuseStep
<1>2. ASSUME NEW c \in Callers, NEW e \in Endpoints, AcquireConnect(c, e) PROVE IInv'
  BY <1>2, ConnectStep
<1>3. ASSUME NEW c \in Callers, ConnectOk(c) PROVE IInv'
  BY <1>3, ConnectOkStep
<1>4. ASSUME NEW c \in Callers, ConnectFails(c) PROVE IInv'
  BY <1>4, LetGoStep DEF ConnectFails, SockStates, OpenStates
<1>5. ASSUME NEW c \in Callers, OptionFails(c) PROVE IInv'
  BY <1>5, LetGoStep DEF OptionFails, SockStates, OpenStates
<1>6. ASSUME NEW c \in Callers, Close(c) PROVE IInv'
  BY <1>6, CloseStep
<1>7. ASSUME NEW c \in Callers, Release(c) PROVE IInv'
  <2>1. held[c] \in Sockets /\ pc[c] = "using"
    BY <1>7, PoolAssumption DEF Release, IInv, TypeOK
  <2>2. sockState[held[c]] \in SockStates \ {"free", "connecting"}
    BY <2>1 DEF IInv, TypeOK, NoLeakNoDangling, OnlyConnectedIsUsed
  <2> QED
    BY <1>7, <2>1, <2>2, LetGoStep DEF Release
<1>8. ASSUME NEW s \in Sockets, PeerFin(s) \/ PeerReset(s) PROVE IInv'
  BY <1>8, PeerStep
<1>9. CASE Tick
  BY <1>9, TickStep
<1>10. CASE Shutdown
  BY <1>10, ShutdownStep
<1>11. CASE UNCHANGED vars
  BY <1>11, StutterStep
<1> QED
  BY <1>1, <1>2, <1>3, <1>4, <1>5, <1>6, <1>7, <1>8, <1>9, <1>10, <1>11 DEF Next

LEMMA IInvAlways == Spec => []IInv
BY InitIInv, NextIInv, PTL DEF Spec

\* source keeps its data structures well formed, and a caller has a pointer
\* exactly while it connects or uses a connection.
THEOREM TypeCorrect == Spec => []TypeOK
<1>1. IInv => TypeOK
  BY DEF IInv
<1> QED
  BY <1>1, IInvAlways, PTL

\* The raw pointers of cache_ and the internal_ptrs of the callers own the
\* sockets: never two owners, never none.
THEOREM OwnershipCorrect == Spec => []Ownership
<1>1. IInv => Ownership
  BY DEF IInv, Ownership
<1> QED
  BY <1>1, IInvAlways, PTL

\* A connection is filed under and lent for the endpoint it leads to.
THEOREM EndpointCorrect == Spec => []RightEndpoint
<1>1. IInv => RightEndpoint
  BY DEF IInv
<1> QED
  BY <1>1, IInvAlways, PTL

\* max_cache_endpoint_ bounds every stack, and a stack holds open sockets only.
THEOREM BoundCorrect == Spec => []CacheBounded
<1>1. IInv => CacheBounded
  BY DEF IInv
<1> QED
  BY <1>1, IInvAlways, PTL

\* The top of a stack is the item that was used last.
THEOREM AgeCorrect == Spec => []StackByAge
<1>1. IInv => StackByAge
  BY DEF IInv
<1> QED
  BY <1>1, IInvAlways, PTL

\* acquire_tcp completes only with a connection that was established, whatever the
\* deleters have put into the cache.
THEOREM ConnectedCorrect == Spec => []OnlyConnectedIsUsed
<1>1. IInv => OnlyConnectedIsUsed
  BY DEF IInv
<1> QED
  BY <1>1, IInvAlways, PTL

-------------------------------------------------------------------------------
\* What a step does to the stacks and to the callers, whoever the callers are:
\* the steps of the pool do no more, and neither do those of the sessions.
PoolMoves ==
    \/ \E c \in Callers, e \in Endpoints : AcquireReuse(c, e) \/ AcquireConnect(c, e)
    \/ \E c \in Callers : ConnectOk(c)
    \/ \E c \in Callers : pc[c] # "idle" /\ \E st \in SockStates : LetGo(c, st)
    \/ Shutdown
    \/ UNCHANGED <<cache, pc, held, want, alive>>

LEMMA NextMoves ==
    ASSUME IInv, [Next]_vars
    PROVE  PoolMoves
<1>1. \A c \in Callers : held[c] \in Sockets \cup {NoSocket} /\ (pc[c] = "using" => held[c] \in Sockets)
  BY DEF IInv, TypeOK
<1>2. ASSUME NEW c \in Callers, ConnectFails(c) \/ OptionFails(c) \/ Release(c) PROVE PoolMoves
  <2>1. {"failed", "closed", "up", "fin", "reset"} \subseteq SockStates
    BY DEF SockStates, OpenStates
  <2>2. pc[c] = "using" => sockState[held[c]] \in SockStates
    BY <1>1 DEF IInv, TypeOK
  <2> QED
    BY <1>2, <2>1, <2>2 DEF ConnectFails, OptionFails, Release, PoolMoves
<1>3. ASSUME NEW c \in Callers, Close(c) PROVE PoolMoves
  BY <1>3 DEF Close, PoolMoves
<1>4. ASSUME NEW s \in Sockets, PeerFin(s) \/ PeerReset(s) PROVE PoolMoves
  BY <1>4 DEF PeerFin, PeerReset, PoolMoves
<1>5. CASE Tick \/ UNCHANGED vars
  BY <1>5 DEF Tick, vars, PoolMoves
<1> QED
  BY <1>2, <1>3, <1>4, <1>5 DEF Next, PoolMoves

\* What becomes of a cached connection that could be handed out.
UsableIsKept ==
    \A e \in Endpoints : \A i \in Usable(e) :
        \/ cache[e][i].sock \in Shelf'[e]
        \/ \E c \in Callers : pc[c] = "idle" /\ pc'[c] = "using" /\ held'[c] = cache[e][i].sock
        \/ ~ alive'

\* A hit takes the topmost usable item: what it deletes on the way is above it.
LEMMA ReuseKeeps ==
    ASSUME IInv, NEW c \in Callers, NEW e \in Endpoints, AcquireReuse(c, e)
    PROVE  UsableIsKept
<1>1. PICK i \in Usable(e) :
        /\ \A k \in Usable(e) : k <= i
        /\ cache' = [cache EXCEPT ![e] = SubSeq(@, 1, i - 1)]
        /\ held' = [held EXCEPT ![c] = cache[e][i].sock]
  BY DEF AcquireReuse
<1>2. /\ DOMAIN cache[e] = 1 .. Len(cache[e]) /\ Len(cache[e]) \in Nat
      /\ i \in 1 .. Len(cache[e]) /\ i - 1 \in 0 .. Len(cache[e])
      /\ \A f \in Endpoints : Usable(f) \subseteq DOMAIN cache[f]
  BY DEF IInv, TypeOK, Usable
<1>3. /\ Shelf'[e] = {cache[e][k].sock : k \in 1 .. i - 1}
      /\ \A f \in Endpoints \ {e} : Shelf'[f] = Shelf[f]
  BY <1>1, <1>2, TrimCached DEF IInv
<1>4. pc[c] = "idle" /\ pc'[c] = "using" /\ held'[c] = cache[e][i].sock
  BY <1>1 DEF AcquireReuse, IInv, TypeOK
<1>5. ASSUME NEW f \in Endpoints \ {e}, NEW k \in Usable(f) PROVE cache[f][k].sock \in Shelf'[f]
  BY <1>2, <1>3, CachedMembers
<1>6. ASSUME NEW k \in Usable(e), k # i PROVE cache[e][k].sock \in Shelf'[e]
  <2>1. k \in 1 .. i - 1
    BY <1>1, <1>2, <1>6
  <2> QED
    BY <1>3, <2>1
<1> QED
  BY <1>4, <1>5, <1>6 DEF UsableIsKept

\* A miss erases the stack of its endpoint, in which nothing is usable.
LEMMA ConnectKeeps ==
    ASSUME IInv, NEW c \in Callers, NEW e \in Endpoints, AcquireConnect(c, e)
    PROVE  UsableIsKept
<1>1. Usable(e) = {} /\ \A f \in Endpoints \ {e} : cache'[f] = cache[f]
  BY DEF AcquireConnect, IInv, TypeOK
<1>2. \A f \in Endpoints \ {e} : Shelf'[f] = Shelf[f] /\ Usable(f) \subseteq DOMAIN cache[f]
  BY <1>1 DEF Shelf, Usable
<1> QED
  BY <1>1, <1>2, CachedMembers DEF UsableIsKept

LEMMA KeepsUsable == IInv /\ PoolMoves => UsableIsKept
<1> SUFFICES ASSUME IInv, PoolMoves PROVE UsableIsKept
  OBVIOUS
<1>1. ASSUME \A f \in Endpoints : Shelf[f] \subseteq Shelf'[f] PROVE UsableIsKept
  <2>1. \A f \in Endpoints : \A i \in Usable(f) : cache[f][i].sock \in Shelf[f]
    BY CachedMembers DEF Usable
  <2> QED
    BY <1>1, <2>1 DEF UsableIsKept
<1>2. CASE UNCHANGED cache
  BY <1>1, <1>2 DEF Shelf
<1>3. ASSUME NEW c \in Callers, NEW st \in SockStates, pc[c] # "idle", LetGo(c, st)
      PROVE  UsableIsKept
  <2>1. held[c] \in Sockets /\ want[c] \in Endpoints /\ recycle(held[c], want[c], st)
    BY <1>3, PoolAssumption DEF IInv, TypeOK, LetGo
  <2>2. CASE cache' = [cache EXCEPT ![want[c]] = Append(@, [sock |-> held[c], last |-> now])]
    <3> DEFINE item == [sock |-> held[c], last |-> now]
    <3>1. item \in Items /\ cache' = [cache EXCEPT ![want[c]] = Append(@, item)]
      BY <2>1, <2>2 DEF IInv, TypeOK, Items
    <3> HIDE DEF item
    <3>2. /\ Shelf'[want[c]] = Shelf[want[c]] \cup {item.sock}
          /\ \A f \in Endpoints \ {want[c]} : Shelf'[f] = Shelf[f]
      BY <2>1, <3>1, PushCached DEF IInv
    <3> QED
      BY <1>1, <3>2
  <2> QED
    BY <1>2, <2>1, <2>2 DEF recycle
<1>4. CASE Shutdown
  BY <1>4 DEF Shutdown, Clear, UsableIsKept
<1>5. ASSUME NEW c \in Callers, ConnectOk(c) PROVE UsableIsKept
  BY <1>2, <1>5 DEF ConnectOk
<1> QED
  BY <1>2, <1>3, <1>4, <1>5, ReuseKeeps, ConnectKeeps DEF PoolMoves

\* A usable cached connection leaves the cache only to be handed out: a hit
\* deletes what is above it, a miss a stack without one, the deleter nothing
\* that is cached.
THEOREM UsableIsNeverLost == Spec => NothingUsableLost
<1>1. IInv /\ [Next]_vars => UsableIsKept
  BY NextMoves, KeepsUsable
<1> QED
  BY <1>1, IInvAlways, PTL DEF Spec, NothingUsableLost, UsableIsKept

-------------------------------------------------------------------------------
\* Letting go is a return for the library.
LEMMA LetGoReturns ==
    ASSUME IInv, NEW c \in Callers, NEW st, LetGo(c, st), pc[c] # "idle"
    PROVE  Loan!Return(c)
<1>1. /\ held[c] \in Sockets /\ held[c] # NoSocket /\ want[c] \in Endpoints
      /\ held' = [held EXCEPT ![c] = NoSocket]
      /\ recycle(held[c], want[c], st)
      /\ UNCHANGED <<want, alive>>
  BY PoolAssumption DEF IInv, TypeOK, LetGo
<1>2. CASE UNCHANGED cache
  <2>1. Shelf' = Shelf
    BY <1>2 DEF Shelf
  <2> QED
    BY <1>1, <2>1 DEF Loan!Return
<1>3. CASE cache' = [cache EXCEPT ![want[c]] = Append(@, [sock |-> held[c], last |-> now])]
  <2> DEFINE item == [sock |-> held[c], last |-> now]
  <2>1. item \in Items /\ item.sock = held[c]
    BY <1>1 DEF IInv, TypeOK, Items
  <2>2. cache' = [cache EXCEPT ![want[c]] = Append(@, item)]
    BY <1>3
  <2> HIDE DEF item
  <2>3. /\ Shelf'[want[c]] = Shelf[want[c]] \cup {item.sock}
        /\ \A f \in Endpoints \ {want[c]} : Shelf'[f] = Shelf[f]
    BY <1>1, <2>1, <2>2, PushCached DEF IInv
  <2>4. Shelf' = [Shelf EXCEPT ![want[c]] = @ \cup {held[c]}]
    BY <1>1, <2>1, <2>3 DEF Shelf
  <2> QED
    BY <1>1, <2>4 DEF Loan!Return
<1> QED
  BY <1>1, <1>2, <1>3 DEF recycle

\* Both outcomes of acquire_tcp's synchronous part are loans.
LEMMA TakeLends ==
    ASSUME IInv, NEW c \in Callers, NEW e \in Endpoints, NEW n \in 0 .. Len(cache[e]),
           NEW s \in Sockets, pc[c] = "idle", alive,
           \A i \in 1 .. n : cache[e][i].sock # s,
           \A d \in Callers : held[d] # s,
           \A f \in Endpoints \ {e} : s \notin Shelf[f],
           cache' = [cache EXCEPT ![e] = SubSeq(@, 1, n)],
           held' = [held EXCEPT ![c] = s],
           want' = [want EXCEPT ![c] = e],
           UNCHANGED alive
    PROVE  Loan!Lend(c, e)
<1>1. /\ \A f \in Endpoints \ {e} : Shelf'[f] = Shelf[f]
      /\ Shelf'[e] \subseteq Shelf[e]
      /\ Shelf'[e] = {cache[e][i].sock : i \in 1 .. n}
  BY TrimCached DEF IInv
<1>2. Shelf' = [Shelf EXCEPT ![e] = Shelf'[e]]
  BY <1>1 DEF Shelf
<1>3. s \notin Shelf'[e] /\ Shelf'[e] \in SUBSET Shelf[e]
  BY <1>1
<1>4. held[c] = NoSocket
  BY DEF IInv, TypeOK
<1> QED
  BY <1>2, <1>3, <1>4 DEF Loan!Lend, Loan!OnLoan

LEMMA ReuseLends ==
    ASSUME IInv, NEW c \in Callers, NEW e \in Endpoints, AcquireReuse(c, e)
    PROVE  Loan!Lend(c, e)
<1>1. PICK i \in Usable(e) :
        /\ cache' = [cache EXCEPT ![e] = SubSeq(@, 1, i - 1)]
        /\ held' = [held EXCEPT ![c] = cache[e][i].sock]
  BY DEF AcquireReuse
<1> DEFINE s == cache[e][i].sock
<1>2. /\ cache[e] \in Seq(Items) /\ Len(cache[e]) \in Nat /\ DOMAIN cache[e] = 1 .. Len(cache[e])
      /\ i \in DOMAIN cache[e] /\ i - 1 \in 0 .. Len(cache[e])
  BY DEF IInv, TypeOK, Usable
<1>3. /\ \A j \in 1 .. i - 1 : cache[e][j].sock # s
      /\ \A f \in Endpoints \ {e} : \A j \in DOMAIN cache[f] : cache[f][j].sock # s
  BY <1>2 DEF IInv, SingleOwner
<1>4. s \in Cached /\ s \in Sockets /\ \A f \in Endpoints \ {e} : s \notin Shelf[f]
  BY <1>2, <1>3, CachedMembers, CachedSockets DEF IInv
<1>5. \A d \in Callers : held[d] # s
  BY <1>4 DEF IInv, SingleOwner
<1>6. pc[c] = "idle" /\ alive /\ UNCHANGED alive /\ want' = [want EXCEPT ![c] = e]
  BY DEF AcquireReuse
<1>7. held' = [held EXCEPT ![c] = s]
  BY <1>1
<1> HIDE DEF s
<1> QED
  BY <1>1, <1>2, <1>3, <1>4, <1>5, <1>6, <1>7, TakeLends

LEMMA ConnectLends ==
    ASSUME IInv, NEW c \in Callers, NEW e \in Endpoints, AcquireConnect(c, e)
    PROVE  Loan!Lend(c, e)
<1>1. PICK s \in Sockets :
        Deleted(Shelf[e])[s] = "free" /\ held' = [held EXCEPT ![c] = s]
  BY DEF AcquireConnect
<1>2. cache[e] \in Seq(Items) /\ Len(cache[e]) \in Nat
  BY DEF IInv, TypeOK
<1>3. cache' = [cache EXCEPT ![e] = SubSeq(@, 1, 0)]
  <2>1. SubSeq(cache[e], 1, 0) = <<>>
    BY <1>2
  <2> QED
    BY <2>1 DEF AcquireConnect
<1>4. s \in Shelf[e] \/ sockState[s] = "free"
  BY <1>1 DEF Deleted
<1>5. \A d \in Callers : held[d] # s
  BY <1>4, CachedMembers DEF IInv, SingleOwner, NoLeakNoDangling
<1>6. \A f \in Endpoints \ {e} : s \notin Shelf[f]
  <2>1. CASE s \in Shelf[e]
    BY <2>1, CachedMembers DEF IInv, SingleOwner
  <2>2. CASE sockState[s] = "free"
    BY <2>2, CachedMembers DEF IInv, NoLeakNoDangling
  <2> QED
    BY <1>4, <2>1, <2>2
<1>7. pc[c] = "idle" /\ alive /\ UNCHANGED alive /\ want' = [want EXCEPT ![c] = e]
  BY DEF AcquireConnect
<1>8. 0 \in 0 .. Len(cache[e]) /\ \A i \in 1 .. 0 : cache[e][i].sock # s
  BY <1>2
<1> QED
  BY <1>1, <1>3, <1>5, <1>6, <1>7, <1>8, TakeLends

\* Hits and misses are loans, whatever ends in the deleter is a return, ~source
\* shuts the library, and the rest it does not see.
LEMMA LoanMoves == IInv /\ PoolMoves => [Loan!Next]_(Loan!vars)
<1> SUFFICES ASSUME IInv, PoolMoves PROVE Loan!Next \/ UNCHANGED Loan!vars
  OBVIOUS
<1>1. ASSUME NEW c \in Callers, NEW e \in Endpoints, AcquireReuse(c, e) \/ AcquireConnect(c, e)
      PROVE  Loan!Next
  BY <1>1, ReuseLends, ConnectLends DEF Loan!Next
<1>2. ASSUME NEW c \in Callers, NEW st \in SockStates, pc[c] # "idle", LetGo(c, st)
      PROVE  Loan!Next
  BY <1>2, LetGoReturns DEF Loan!Next
<1>3. ASSUME UNCHANGED <<cache, held, want, alive>>
      PROVE  UNCHANGED Loan!vars
  BY <1>3 DEF Loan!vars, Shelf
<1>4. ASSUME NEW c \in Callers, ConnectOk(c)
      PROVE  UNCHANGED Loan!vars
  BY <1>3, <1>4 DEF ConnectOk
<1>5. CASE Shutdown
  <2>1. Shelf' = [e \in Endpoints |-> {}]
    BY <1>5 DEF Shutdown, Clear, Shelf
  <2> QED
    BY <1>5, <2>1 DEF Shutdown, Clear, IInv, TypeOK, Loan!Next, Loan!Shut
<1> QED
  BY <1>1, <1>2, <1>3, <1>4, <1>5 DEF PoolMoves

\* The pool implements the library.
THEOREM PoolImplementsLoan == Spec => ImplementsLoan
<1>1. Init => Loan!Init
  BY DEF Init, Loan!Init, Shelf
<1>2. IInv /\ [Next]_vars => [Loan!Next]_(Loan!vars)
  BY NextMoves, LoanMoves
<1> QED
  BY <1>1, <1>2, IInvAlways, PTL DEF Spec, Loan!Spec, ImplementsLoan

-------------------------------------------------------------------------------

\* What the state of the sessions ranges over.
SessionTypes ==
    /\ stage \in [Callers -> Stages]
    /\ kind \in [Callers -> Kinds]
    /\ host \in [Callers -> Hosts \cup {NoHost}]
    /\ client \in [Callers -> {"none", "session", "proto", "closed"}]
    /\ carried \in [Sockets -> SUBSET Callers]

\* A session has a pointer in the stages that use one, or after an exception there.
\* While it serves it has its client, in client_socket_ or in proto; proto does not
\* outlive diversion.
Phase(c) ==
    /\ pc[c] = "connecting" <=> stage[c] = "connect"
    /\ stage[c] \in WithUpstream => pc[c] = "using"
    /\ pc[c] = "using" => stage[c] \in WithUpstream \cup {"threw"}
    /\ stage[c] = "done" => client[c] = "closed"
    /\ stage[c] \in Over => client[c] \in {"session", "closed"}
    /\ stage[c] \notin Over \cup {"none", "done"} => client[c] \in {"session", "proto"}

\* The connection of a session has carried no other session's bytes, and none at
\* all while it is being established: it may yet end in the cache.
Own(c) ==
    /\ pc[c] # "idle" => carried[held[c]] \subseteq {c}
    /\ pc[c] = "connecting" => carried[held[c]] = {}

\* What a session has asked for is what it acquires a connection for.
Asks(c) ==
    /\ stage[c] = "resolve" => kind[c] # "reverse" /\ host[c] \in Hosts \ Blocked
    /\ stage[c] \in WithUpstream \cup {"connect"} =>
        IF kind[c] = "reverse" THEN host[c] \in DOMAIN ReverseMap /\ want[c] = ReverseMap[host[c]]
                               ELSE host[c] \in Hosts \ Blocked

\* A connection in the cache has carried nothing.
Fresh == \A s \in Cached : carried[s] = {}

\* The inductive invariant.
EngineIInv ==
    /\ IInv
    /\ SessionTypes
    /\ Fresh
    /\ \A c \in Callers : Phase(c) /\ Own(c) /\ Asks(c)

-------------------------------------------------------------------------------
\* What the steps of the pool do to a caller and to the cache.
LEMMA ReuseChanges ==
    ASSUME IInv, NEW c \in Callers, NEW e \in Endpoints, AcquireReuse(c, e)
    PROVE  /\ pc[c] = "idle"
           /\ Cached' \subseteq Cached
           /\ \E s \in Cached : held' = [held EXCEPT ![c] = s]
           /\ want' = [want EXCEPT ![c] = e]
           /\ pc' = [pc EXCEPT ![c] = "using"]
<1>1. PICK i \in Usable(e) :
        /\ cache' = [cache EXCEPT ![e] = SubSeq(@, 1, i - 1)]
        /\ held' = [held EXCEPT ![c] = cache[e][i].sock]
  BY DEF AcquireReuse
<1>2. i \in DOMAIN cache[e] /\ cache[e] \in Seq(Items) /\ i - 1 \in 0 .. Len(cache[e])
  BY DEF IInv, TypeOK, Usable
<1>3. \A f \in Endpoints : Shelf'[f] \subseteq Shelf[f]
  BY <1>1, <1>2, TrimCached DEF IInv
<1>4. cache[e][i].sock \in Cached
  BY <1>2, CachedMembers
<1>5. Cached' \subseteq Cached
  BY <1>3 DEF Cached
<1> QED
  BY <1>1, <1>4, <1>5 DEF AcquireReuse

LEMMA ConnectChanges ==
    ASSUME IInv, NEW c \in Callers, NEW e \in Endpoints, AcquireConnect(c, e)
    PROVE  /\ pc[c] = "idle"
           /\ Cached' \subseteq Cached
           /\ \E s \in Sockets : held' = [held EXCEPT ![c] = s]
           /\ want' = [want EXCEPT ![c] = e]
           /\ pc' = [pc EXCEPT ![c] = "connecting"]
<1>1. Cached' \subseteq Cached
  <2>1. \A f \in Endpoints : Shelf'[f] \subseteq Shelf[f]
    BY DEF AcquireConnect, Shelf, IInv, TypeOK
  <2> QED
    BY <2>1 DEF Cached
<1> QED
  BY <1>1 DEF AcquireConnect

LEMMA LetGoChanges ==
    ASSUME IInv, NEW c \in Callers, NEW st \in SockStates, pc[c] # "idle", LetGo(c, st)
    PROVE  /\ Cached' \subseteq Cached \cup {held[c]}
           /\ st = "closed" => Cached' = Cached
           /\ held' = [held EXCEPT ![c] = NoSocket]
           /\ pc' = [pc EXCEPT ![c] = "idle"]
           /\ want' = want
<1>1. /\ held[c] \in Sockets /\ want[c] \in Endpoints /\ recycle(held[c], want[c], st)
      /\ [sock |-> held[c], last |-> now] \in Items
  BY PoolAssumption DEF IInv, TypeOK, LetGo, Items
<1>2. CASE UNCHANGED cache
  <2>1. Cached' = Cached
    BY <1>2 DEF Cached, Shelf
  <2> QED
    BY <2>1 DEF LetGo
<1>3. CASE /\ st # "closed"
           /\ cache' = [cache EXCEPT ![want[c]] = Append(@, [sock |-> held[c], last |-> now])]
  <2>1. \A f \in Endpoints : Shelf'[f] \subseteq Shelf[f] \cup {held[c]}
    BY <1>1, <1>3, PushCached DEF IInv
  <2>2. Cached' \subseteq Cached \cup {held[c]}
    BY <2>1 DEF Cached
  <2> QED
    BY <1>3, <2>2 DEF LetGo
<1> QED
  BY <1>1, <1>2, <1>3 DEF recycle, OpenStates

-------------------------------------------------------------------------------
\* A step of one session: the others keep what they have.
LEMMA OneMoves ==
    ASSUME EngineIInv, NEW c \in Callers, IInv', SessionTypes', Fresh',
           Phase(c)', Own(c)', Asks(c)',
           \A d \in Callers \ {c} :
             /\ pc'[d] = pc[d] /\ held'[d] = held[d] /\ want'[d] = want[d]
             /\ stage'[d] = stage[d] /\ kind'[d] = kind[d] /\ host'[d] = host[d]
             /\ client'[d] = client[d],
           \A s \in Sockets : s # held'[c] => carried'[s] = carried[s]
    PROVE  EngineIInv'
<1>1. ASSUME NEW d \in Callers \ {c} PROVE (Phase(d) /\ Own(d) /\ Asks(d))'
  <2>1. Phase(d)' /\ Asks(d)'
    BY DEF EngineIInv, Phase, Asks
  <2>2. Own(d)'
    <3>1. CASE pc[d] = "idle"
      BY <3>1 DEF Own
    <3>2. CASE pc[d] # "idle"
      <4>1. held[d] \in Sockets /\ held[d] # NoSocket
        BY <3>2 DEF EngineIInv, IInv, TypeOK
      <4>2. held'[d] # held'[c]
        BY <4>1 DEF IInv, SingleOwner
      <4> QED
        BY <4>1, <4>2 DEF EngineIInv, Own
    <3> QED
      BY <3>1, <3>2
  <2> QED
    BY <2>1, <2>2
<1>2. \A d \in Callers : (Phase(d) /\ Own(d) /\ Asks(d))'
  BY <1>1
<1> QED
  BY <1>2 DEF EngineIInv

\* A step in which the pool does nothing.
LEMMA PoolRests ==
    ASSUME IInv, UNCHANGED vars
    PROVE  IInv' /\ Cached' = Cached
<1>1. Cached' = Cached
  BY DEF vars, Cached, Shelf
<1> QED
  BY <1>1, StutterStep

\* A session closes its connection and lets go of it: nothing is cached.
IdleAfter(c) ==
    /\ Cached' = Cached /\ held'[c] = NoSocket /\ pc'[c] = "idle" /\ want' = want
    /\ \A d \in Callers \ {c} : pc'[d] = pc[d] /\ held'[d] = held[d]

LEMMA ClosedStep ==
    ASSUME EngineIInv, NEW c \in Callers, pc[c] # "idle", LetGo(c, "closed")
    PROVE  IInv' /\ IdleAfter(c)
<1>1. IInv /\ TypeOK /\ "closed" \in SockStates \ {"free", "connecting"}
  BY DEF EngineIInv, IInv, SockStates, OpenStates
<1>2. IInv'
  BY <1>1, LetGoStep
<1>3. /\ Cached' = Cached /\ held' = [held EXCEPT ![c] = NoSocket]
      /\ pc' = [pc EXCEPT ![c] = "idle"] /\ want' = want
  BY <1>1, LetGoChanges
<1> QED
  BY <1>1, <1>2, <1>3 DEF TypeOK, IdleAfter

\* A session closes, and goes on to the stage after.
LEMMA CloseUpstreamStep ==
    ASSUME EngineIInv, NEW c \in Callers, close(c), NEW how \in {"returned", "done"}, At(c, how),
           stage[c] \in Over
    PROVE  EngineIInv'
<1>0. /\ IInv /\ TypeOK /\ SessionTypes /\ Fresh /\ Phase(c) /\ pc[c] # "connecting"
      /\ client[c] \in {"session", "closed"}
  BY DEF EngineIInv, IInv, Phase, Over
<1>1. SessionTypes'
  BY <1>0 DEF SessionTypes, close, At, Stages
<1>2. /\ stage'[c] = how /\ client'[c] = "closed" /\ carried' = carried
      /\ kind' = kind /\ host' = host
      /\ \A d \in Callers \ {c} : stage'[d] = stage[d] /\ client'[d] = client[d]
  BY <1>0 DEF SessionTypes, close, At
<1>3. CASE held[c] = NoSocket /\ UNCHANGED vars
  <2>1. IInv' /\ Cached' = Cached
    BY <1>0, <1>3, PoolRests
  <2>2. pc'[c] = "idle"
    BY <1>0, <1>3 DEF TypeOK, vars
  <2>3. Fresh' /\ Phase(c)' /\ Own(c)' /\ Asks(c)'
    BY <1>0, <1>2, <2>1, <2>2 DEF Fresh, Phase, Own, Asks, WithUpstream, Over
  <2> QED
    BY <1>1, <1>2, <1>3, <2>1, <2>3, OneMoves DEF vars
<1>4. CASE held[c] # NoSocket /\ LetGo(c, "closed")
  <2>1. pc[c] # "idle"
    BY <1>0, <1>4 DEF TypeOK
  <2>2. IInv' /\ IdleAfter(c)
    BY <1>4, <2>1, ClosedStep
  <2>3. Fresh' /\ Phase(c)' /\ Own(c)' /\ Asks(c)'
    BY <1>0, <1>2, <2>2 DEF Fresh, Phase, Own, Asks, WithUpstream, Over, IdleAfter
  <2> QED
    BY <1>1, <1>2, <2>2, <2>3, OneMoves DEF IdleAfter
<1> QED
  BY <1>3, <1>4 DEF close

\* A session goes on to a stage without a change to the pool or to its connection.
LEMMA MoveOnStep ==
    ASSUME EngineIInv, NEW c \in Callers, NEW st \in Stages, At(c, st), UNCHANGED vars,
           SessionTypes', Phase(c)', Asks(c)', carried' = carried,
           \A d \in Callers \ {c} : kind'[d] = kind[d] /\ host'[d] = host[d] /\ client'[d] = client[d]
    PROVE  EngineIInv'
<1>1. IInv' /\ Cached' = Cached
  BY PoolRests DEF EngineIInv
<1>2. \A d \in Callers \ {c} : stage'[d] = stage[d]
  BY DEF EngineIInv, SessionTypes, At
<1>3. Fresh' /\ Own(c)'
  BY <1>1 DEF EngineIInv, Fresh, Own, vars
<1> QED
  BY <1>1, <1>2, <1>3, OneMoves DEF vars

\* diversion ends before or after it has a connection.
LEMMA EndsStep ==
    ASSUME EngineIInv, NEW c \in Callers, NEW how \in Over, Ends(c, how),
           stage[c] \notin Over \cup {"none", "connect", "done"},
           stage[c] \in WithUpstream => how = "threw"
    PROVE  EngineIInv'
<1>0. SessionTypes /\ Phase(c) /\ client[c] \in {"session", "proto"}
  BY DEF EngineIInv, Phase, Over
<1>1. /\ stage'[c] = how /\ client'[c] \in {"session", "closed"} /\ how \in Stages
      /\ \A d \in Callers \ {c} : client'[d] = client[d]
      /\ SessionTypes'
  BY <1>0 DEF SessionTypes, Ends, Unwound, At, Over, Stages
<1>2. Phase(c)' /\ Asks(c)'
  BY <1>0, <1>1 DEF Phase, Asks, Ends, Over, WithUpstream, vars
<1> QED
  BY <1>1, <1>2, MoveOnStep DEF Ends

\* The connection of a session carries its bytes and the session goes on.
LEMMA CarriesStep ==
    ASSUME EngineIInv, NEW c \in Callers, stage[c] \in WithUpstream,
           NEW st \in WithUpstream, stage' = [stage EXCEPT ![c] = st],
           Carries(c), UNCHANGED <<vars, kind, host, client>>
    PROVE  EngineIInv'
<1>0. IInv /\ TypeOK /\ SessionTypes /\ Fresh /\ Phase(c) /\ Own(c) /\ Asks(c)
  BY DEF EngineIInv, IInv
<1>1. IInv' /\ Cached' = Cached
  BY <1>0, PoolRests
<1>2. pc[c] = "using" /\ held[c] \in Sockets
  BY <1>0 DEF Phase, TypeOK
<1>3. SessionTypes'
  <2>1. carried' \in [Sockets -> SUBSET Callers]
    BY <1>0, <1>2 DEF SessionTypes, Carries
  <2>2. st \in Stages
    BY DEF WithUpstream, Stages
  <2> QED
    BY <1>0, <2>1, <2>2 DEF SessionTypes
<1>4. /\ carried'[held[c]] = carried[held[c]] \cup {c}
      /\ \A s \in Sockets \ {held[c]} : carried'[s] = carried[s]
  BY <1>0, <1>2 DEF SessionTypes, Carries
<1>5. Fresh'
  <2>1. held[c] \notin Cached /\ Cached \subseteq Sockets
    BY <1>0, CachedSockets DEF IInv, SingleOwner
  <2> QED
    BY <1>0, <1>1, <1>4, <2>1 DEF Fresh
<1>6. stage'[c] = st /\ \A d \in Callers \ {c} : stage'[d] = stage[d]
  BY <1>0 DEF SessionTypes
<1>7. Phase(c)' /\ Own(c)' /\ Asks(c)'
  BY <1>0, <1>2, <1>4, <1>6 DEF Phase, Own, Asks, WithUpstream, Over, vars
<1> QED
  BY <1>1, <1>3, <1>4, <1>5, <1>6, <1>7, OneMoves DEF vars

\* A session is routed to e and either has a connection at once or connects.
LEMMA RouteStep ==
    ASSUME EngineIInv, NEW c \in Callers, NEW e \in Endpoints, NEW k \in Kinds, NEW h \in Hosts,
           Route(c, e, k), stage[c] \in {"read", "resolve"}, client' = client,
           kind' = [kind EXCEPT ![c] = k], host' = [host EXCEPT ![c] = h],
           IF k = "reverse" THEN h \in DOMAIN ReverseMap /\ e = ReverseMap[h] ELSE h \in Hosts \ Blocked
    PROVE  EngineIInv'
<1>0. /\ IInv /\ TypeOK /\ SessionTypes /\ Fresh /\ Phase(c)
      /\ client[c] \in {"session", "proto"}
  BY DEF EngineIInv, IInv, Phase, Over
<1>1. /\ kind'[c] = k /\ host'[c] = h
      /\ \A d \in Callers \ {c} : kind'[d] = kind[d] /\ host'[d] = host[d]
      /\ kind' \in [Callers -> Kinds] /\ host' \in [Callers -> Hosts \cup {NoHost}]
  BY <1>0 DEF SessionTypes
<1>2. CASE AcquireReuse(c, e) /\ At(c, AfterRoute(k)) /\ UNCHANGED carried
  <2>1. IInv'
    BY <1>0, <1>2, ReuseStep
  <2>2. PICK s \in Cached :
          /\ Cached' \subseteq Cached /\ held' = [held EXCEPT ![c] = s]
          /\ want' = [want EXCEPT ![c] = e] /\ pc' = [pc EXCEPT ![c] = "using"]
    BY <1>0, <1>2, ReuseChanges
  <2>3. /\ held'[c] = s /\ want'[c] = e /\ pc'[c] = "using"
        /\ \A d \in Callers \ {c} : held'[d] = held[d] /\ want'[d] = want[d] /\ pc'[d] = pc[d]
    BY <1>0, <2>2 DEF TypeOK
  <2>4. AfterRoute(k) \in WithUpstream /\ WithUpstream \subseteq Stages
    BY DEF AfterRoute, WithUpstream, Stages
  <2>5. /\ stage'[c] = AfterRoute(k) /\ \A d \in Callers \ {c} : stage'[d] = stage[d]
        /\ stage' \in [Callers -> Stages]
    BY <1>0, <1>2, <2>4 DEF SessionTypes, At
  <2>6. SessionTypes' /\ Fresh'
    BY <1>0, <1>1, <1>2, <2>2, <2>5 DEF SessionTypes, Fresh
  <2>7. Phase(c)'
    BY <1>0, <2>3, <2>4, <2>5 DEF Phase, WithUpstream, Over
  <2>8. Own(c)'
    BY <1>0, <1>2, <2>3 DEF Own, Fresh
  <2>9. Asks(c)'
    BY <1>1, <2>3, <2>4, <2>5 DEF Asks, WithUpstream
  <2> QED
    BY <1>1, <1>2, <2>1, <2>3, <2>5, <2>6, <2>7, <2>8, <2>9, OneMoves
<1>3. CASE /\ AcquireConnect(c, e) /\ At(c, "connect")
           /\ carried' = [carried EXCEPT ![held'[c]] = {}]
  <2>1. IInv'
    BY <1>0, <1>3, ConnectStep
  <2>2. PICK s \in Sockets :
          /\ Cached' \subseteq Cached /\ held' = [held EXCEPT ![c] = s]
          /\ want' = [want EXCEPT ![c] = e] /\ pc' = [pc EXCEPT ![c] = "connecting"]
    BY <1>0, <1>3, ConnectChanges
  <2>3. /\ held'[c] = s /\ want'[c] = e /\ pc'[c] = "connecting"
        /\ \A d \in Callers \ {c} : held'[d] = held[d] /\ want'[d] = want[d] /\ pc'[d] = pc[d]
    BY <1>0, <2>2 DEF TypeOK
  <2>4. /\ stage'[c] = "connect" /\ \A d \in Callers \ {c} : stage'[d] = stage[d]
        /\ stage' \in [Callers -> Stages]
    BY <1>0, <1>3 DEF SessionTypes, At, Stages
  <2>5. /\ carried'[s] = {} /\ \A r \in Sockets \ {s} : carried'[r] = carried[r]
        /\ carried' \in [Sockets -> SUBSET Callers]
    BY <1>0, <1>3, <2>3 DEF SessionTypes
  <2>6. SessionTypes' /\ Fresh'
    <3>1. Cached \subseteq Sockets
      BY <1>0, CachedSockets
    <3> QED
      BY <1>0, <1>1, <2>2, <2>4, <2>5, <3>1 DEF SessionTypes, Fresh
  <2>7. Phase(c)' /\ Own(c)'
    BY <1>0, <2>3, <2>4, <2>5 DEF Phase, Own, WithUpstream, Over
  <2>8. Asks(c)'
    BY <1>1, <2>3, <2>4 DEF Asks, WithUpstream
  <2> QED
    BY <1>1, <2>1, <2>3, <2>4, <2>5, <2>6, <2>7, <2>8, OneMoves
<1> QED
  BY <1>2, <1>3 DEF Route

LEMMA ConnectedStep ==
    ASSUME EngineIInv, NEW c \in Callers, Connected(c)
    PROVE  EngineIInv'
<1>0. /\ IInv /\ TypeOK /\ SessionTypes /\ Fresh /\ Phase(c) /\ Own(c) /\ Asks(c)
      /\ stage[c] = "connect" /\ pc[c] = "connecting" /\ UNCHANGED <<kind, host, carried>>
      /\ carried[held[c]] = {} /\ held[c] \in Sockets
  BY DEF EngineIInv, IInv, Phase, Own, TypeOK, Connected
<1>1. CASE ConnectOk(c) /\ At(c, AfterRoute(kind[c])) /\ UNCHANGED client
  <2>1. IInv'
    BY <1>0, <1>1, ConnectOkStep
  <2>2. Cached' = Cached /\ held' = held /\ want' = want /\ pc' = [pc EXCEPT ![c] = "using"]
    BY <1>1 DEF ConnectOk, Cached, Shelf
  <2>3. pc'[c] = "using" /\ \A d \in Callers \ {c} : pc'[d] = pc[d]
    BY <1>0, <2>2 DEF TypeOK
  <2>4. AfterRoute(kind[c]) \in WithUpstream /\ WithUpstream \subseteq Stages
    BY DEF AfterRoute, WithUpstream, Stages
  <2>5. /\ stage'[c] = AfterRoute(kind[c]) /\ \A d \in Callers \ {c} : stage'[d] = stage[d]
        /\ stage' \in [Callers -> Stages]
    BY <1>0, <1>1, <2>4 DEF SessionTypes, At
  <2>6. SessionTypes' /\ Fresh' /\ Own(c)'
    BY <1>0, <1>1, <2>2, <2>5 DEF SessionTypes, Fresh, Own
  <2>7. Phase(c)' /\ Asks(c)'
    BY <1>0, <1>1, <2>2, <2>3, <2>4, <2>5 DEF Phase, Asks, WithUpstream, Over
  <2> QED
    BY <1>0, <1>1, <2>1, <2>2, <2>3, <2>5, <2>6, <2>7, OneMoves
<1>2. CASE (ConnectFails(c) \/ OptionFails(c)) /\ At(c, "threw") /\ Unwound(c)
  <2>1. PICK st \in SockStates \ {"free", "connecting"} : LetGo(c, st)
    BY <1>2 DEF ConnectFails, OptionFails, SockStates, OpenStates
  <2>2. IInv'
    BY <1>0, <2>1, LetGoStep
  <2>3. /\ Cached' \subseteq Cached \cup {held[c]} /\ held' = [held EXCEPT ![c] = NoSocket]
        /\ pc' = [pc EXCEPT ![c] = "idle"] /\ want' = want
    BY <1>0, <2>1, LetGoChanges
  <2>4. pc'[c] = "idle" /\ \A d \in Callers \ {c} : pc'[d] = pc[d] /\ held'[d] = held[d]
    BY <1>0, <2>3 DEF TypeOK
  <2>5. /\ stage'[c] = "threw" /\ client'[c] \in {"session", "closed"}
        /\ \A d \in Callers \ {c} : stage'[d] = stage[d] /\ client'[d] = client[d]
        /\ SessionTypes'
    BY <1>0, <1>2 DEF SessionTypes, At, Stages, Unwound, Phase, Over
  <2>6. Fresh' /\ Phase(c)' /\ Own(c)' /\ Asks(c)'
    BY <1>0, <2>3, <2>4, <2>5 DEF Fresh, Phase, Own, Asks, WithUpstream, Over
  <2> QED
    BY <1>0, <2>2, <2>3, <2>4, <2>5, <2>6, OneMoves
<1> QED
  BY <1>1, <1>2 DEF Connected

-------------------------------------------------------------------------------
\* The steps before a session has a connection.
LEMMA AcceptStep ==
    ASSUME EngineIInv, NEW c \in Callers, Accept(c)
    PROVE  EngineIInv'
<1>0. SessionTypes /\ TypeOK /\ Phase(c) /\ stage[c] = "none"
  BY DEF EngineIInv, IInv, Accept
<1>1. /\ stage'[c] = "peek" /\ client'[c] = "session" /\ SessionTypes'
      /\ \A d \in Callers \ {c} : client'[d] = client[d]
  BY <1>0 DEF SessionTypes, Accept, At, Stages
<1>2. Phase(c)' /\ Asks(c)'
  BY <1>0, <1>1 DEF Phase, Asks, Accept, WithUpstream, vars
<1> QED
  BY <1>1, <1>2, MoveOnStep DEF Accept, Stages

LEMMA PeekedStep ==
    ASSUME EngineIInv, NEW c \in Callers, Peeked(c)
    PROVE  EngineIInv'
<1>0. SessionTypes /\ Phase(c) /\ stage[c] = "peek"
  BY DEF EngineIInv, Peeked
<1>1. ASSUME NEW how \in Over, Ends(c, how) PROVE EngineIInv'
  BY <1>0, <1>1, EndsStep DEF Over, WithUpstream
<1>2. ASSUME NEW next \in {"read", "handshake"}, At(c, next), UNCHANGED <<vars, kind, host, carried>>,
             client' = [client EXCEPT ![c] = client'[c]], client'[c] \in {"session", "proto"}
      PROVE  EngineIInv'
  <2>1. stage'[c] = next /\ SessionTypes' /\ next \in Stages
    BY <1>0, <1>2 DEF SessionTypes, At, Stages
  <2>2. Phase(c)' /\ Asks(c)'
    BY <1>0, <1>2, <2>1 DEF Phase, Asks, WithUpstream, Over, vars
  <2>3. \A d \in Callers \ {c} : client'[d] = client[d]
    BY <1>0, <1>2 DEF SessionTypes
  <2> QED
    BY <1>2, <2>1, <2>2, <2>3, MoveOnStep
<1>3. CASE At(c, "read") /\ UNCHANGED <<vars, kind, host, client, carried>>
  BY <1>0, <1>2, <1>3 DEF SessionTypes, Phase, Over
<1>4. CASE /\ At(c, "handshake") /\ client' = [client EXCEPT ![c] = "proto"]
           /\ UNCHANGED <<vars, kind, host, carried>>
  BY <1>0, <1>2, <1>4 DEF SessionTypes
<1> QED
  BY <1>1, <1>3, <1>4 DEF Peeked

\* A host that is not blacklisted is resolved.
LEMMA ResolveStep ==
    ASSUME EngineIInv, NEW c \in Callers, NEW k \in Kinds \ {"reverse"}, NEW h \in Hosts,
           stage[c] \in {"read", "handshake"}, Asked(c, k, h), RouteForward(c, h)
    PROVE  EngineIInv'
<1>0. SessionTypes /\ Phase(c)
  BY DEF EngineIInv
<1>1. /\ stage'[c] = "resolve" /\ kind'[c] = k /\ host'[c] = h /\ SessionTypes'
      /\ \A d \in Callers \ {c} : kind'[d] = kind[d] /\ host'[d] = host[d]
  BY <1>0 DEF SessionTypes, Asked, RouteForward, At, Stages
<1>2. Phase(c)' /\ Asks(c)'
  BY <1>0, <1>1 DEF Phase, Asks, RouteForward, WithUpstream, Over, vars
<1> QED
  BY <1>1, <1>2, MoveOnStep DEF RouteForward, Stages

LEMMA RequestReadStep ==
    ASSUME EngineIInv, NEW c \in Callers, RequestRead(c)
    PROVE  EngineIInv'
<1>0. stage[c] = "read"
  BY DEF RequestRead
<1>1. ASSUME NEW how \in Over, Ends(c, how) PROVE EngineIInv'
  BY <1>0, <1>1, EndsStep DEF Over, WithUpstream
<1>2. ASSUME NEW h \in Hosts, NEW k \in {"connect", "absolute"}, Asked(c, k, h), RouteForward(c, h)
      PROVE  EngineIInv'
  BY <1>0, <1>2, ResolveStep DEF Kinds
<1>3. ASSUME NEW h \in Hosts, Asked(c, "reverse", h), RouteReverse(c, h)
      PROVE  EngineIInv'
  <2>1. /\ h \in DOMAIN ReverseMap /\ ReverseMap[h] \in Endpoints /\ client' = client
        /\ Route(c, ReverseMap[h], "reverse")
    BY <1>3, EngineAssumption DEF RouteReverse
  <2> QED
    BY <1>0, <1>3, <2>1, RouteStep DEF Asked, Kinds
<1> QED
  BY <1>1, <1>2, <1>3 DEF RequestRead

LEMMA HandshakeDoneStep ==
    ASSUME EngineIInv, NEW c \in Callers, HandshakeDone(c)
    PROVE  EngineIInv'
BY EndsStep, ResolveStep DEF HandshakeDone, Kinds, Over, WithUpstream

LEMMA ResolvedStep ==
    ASSUME EngineIInv, NEW c \in Callers, Resolved(c)
    PROVE  EngineIInv'
<1>0. /\ SessionTypes /\ stage[c] = "resolve" /\ kind[c] # "reverse" /\ host[c] \in Hosts \ Blocked
      /\ kind[c] \in Kinds
  BY DEF EngineIInv, SessionTypes, Asks, Resolved
<1>1. CASE Ends(c, "threw")
  BY <1>0, <1>1, EndsStep DEF Over
<1>2. ASSUME NEW e \in Endpoints, Route(c, e, kind[c]), UNCHANGED <<kind, host, client>>
      PROVE  EngineIInv'
  <2>1. kind' = [kind EXCEPT ![c] = kind[c]] /\ host' = [host EXCEPT ![c] = host[c]]
    BY <1>0, <1>2 DEF SessionTypes
  <2> QED
    BY <1>0, <1>2, <2>1, RouteStep
<1> QED
  BY <1>1, <1>2 DEF Resolved

-------------------------------------------------------------------------------
\* The steps of a session that has its connection.
LEMMA RepliedStep ==
    ASSUME EngineIInv, NEW c \in Callers, Replied(c)
    PROVE  EngineIInv'
<1>0. SessionTypes /\ Phase(c) /\ Asks(c) /\ stage[c] = "reply"
  BY DEF EngineIInv, Replied
<1>1. CASE Ends(c, "threw")
  BY <1>0, <1>1, EndsStep DEF Over
<1>2. ASSUME NEW next \in {"prefetch", "relay"}, At(c, next), UNCHANGED <<vars, kind, host, client, carried>>
      PROVE  EngineIInv'
  <2>1. stage'[c] = next /\ SessionTypes' /\ next \in Stages
    BY <1>0, <1>2 DEF SessionTypes, At, Stages
  <2>2. Phase(c)' /\ Asks(c)'
    BY <1>0, <1>2, <2>1 DEF Phase, Asks, WithUpstream, Over, vars
  <2> QED
    BY <1>2, <2>1, <2>2, MoveOnStep
<1> QED
  BY <1>1, <1>2 DEF Replied

LEMMA RequestSentStep ==
    ASSUME EngineIInv, NEW c \in Callers, RequestSent(c)
    PROVE  EngineIInv'
<1>0. stage[c] = "send"
  BY DEF RequestSent
<1>1. CASE Ends(c, "threw")
  BY <1>0, <1>1, EndsStep DEF Over
<1>2. ASSUME NEW next \in {"prefetch", "relay"}, At(c, next), Carries(c),
             UNCHANGED <<vars, kind, host, client>>
      PROVE  EngineIInv'
  BY <1>0, <1>2, CarriesStep DEF At, WithUpstream
<1> QED
  BY <1>1, <1>2 DEF RequestSent

LEMMA PrefetchSentStep ==
    ASSUME EngineIInv, NEW c \in Callers, PrefetchSent(c)
    PROVE  EngineIInv'
<1>0. stage[c] = "prefetch"
  BY DEF PrefetchSent
<1>1. CASE Ends(c, "threw")
  BY <1>0, <1>1, EndsStep DEF Over
<1>2. CASE At(c, "relay") /\ Carries(c) /\ UNCHANGED <<vars, kind, host, client>>
  BY <1>0, <1>2, CarriesStep DEF At, WithUpstream
<1> QED
  BY <1>1, <1>2 DEF PrefetchSent

LEMMA RelaysStep ==
    ASSUME EngineIInv, NEW c \in Callers, Relays(c)
    PROVE  EngineIInv'
<1>1. stage[c] = "relay" /\ stage' = [stage EXCEPT ![c] = "relay"]
  BY DEF EngineIInv, SessionTypes, Relays, sessionVars
<1> QED
  BY <1>1, CarriesStep DEF Relays, sessionVars, WithUpstream

LEMMA TunnelEndsStep ==
    ASSUME EngineIInv, NEW c \in Callers, TunnelEnds(c)
    PROVE  EngineIInv'
<1>0. /\ SessionTypes /\ Fresh /\ Phase(c) /\ stage[c] = "relay" /\ pc[c] = "using"
      /\ LetGo(c, "closed") /\ UNCHANGED <<kind, host, carried>>
      /\ client' = [client EXCEPT ![c] = "closed"]
  BY DEF EngineIInv, TunnelEnds, Phase, WithUpstream
<1>1. IInv' /\ IdleAfter(c)
  BY <1>0, ClosedStep
<1>2. PICK how \in Over : At(c, how)
  BY DEF TunnelEnds, Over
<1>3. /\ stage'[c] = how /\ client'[c] = "closed" /\ SessionTypes'
      /\ \A d \in Callers \ {c} : stage'[d] = stage[d] /\ client'[d] = client[d]
  BY <1>0, <1>2 DEF SessionTypes, At, Over, Stages
<1>4. Fresh' /\ Phase(c)' /\ Own(c)' /\ Asks(c)'
  BY <1>0, <1>1, <1>2, <1>3 DEF Fresh, Phase, Own, Asks, WithUpstream, Over, IdleAfter
<1> QED
  BY <1>0, <1>1, <1>3, <1>4, OneMoves DEF IdleAfter

\* The two ways session::close is reached.
LEMMA ClosesStep ==
    ASSUME EngineIInv, NEW c \in Callers, Completion(c) \/ Destroyed(c)
    PROVE  EngineIInv'
BY CloseUpstreamStep DEF Completion, Destroyed, Over

\* The servers and the clock change neither the cache nor a session.
LEMMA EnvironmentStep ==
    ASSUME EngineIInv, Environment
    PROVE  EngineIInv'
<1>1. IInv'
  BY TickStep, PeerStep DEF EngineIInv, Environment
<1>2. UNCHANGED <<cache, pc, held, want, sessionVars, carried>>
  BY DEF Environment, Tick, PeerFin, PeerReset
<1>3. Cached' = Cached
  BY <1>2 DEF Cached, Shelf
<1> QED
  BY <1>1, <1>2, <1>3
  DEF EngineIInv, SessionTypes, Fresh, Phase, Own, Asks, sessionVars

LEMMA EngineInitIInv == EngineInit => EngineIInv
<1> SUFFICES ASSUME EngineInit PROVE EngineIInv
  OBVIOUS
<1>1. IInv
  BY InitIInv DEF EngineInit
<1>2. SessionTypes
  BY DEF EngineInit, SessionTypes, Stages, Kinds
<1>3. Fresh
  <2>1. Cached = {}
    BY DEF EngineInit, Init, Cached, Shelf
  <2> QED
    BY <2>1 DEF Fresh
<1>4. \A c \in Callers : Phase(c) /\ Own(c) /\ Asks(c)
  BY DEF EngineInit, Init, Phase, Own, Asks, WithUpstream, Over
<1> QED
  BY <1>1, <1>2, <1>3, <1>4 DEF EngineIInv

LEMMA EngineNextIInv == EngineIInv /\ [EngineNext]_engineVars => EngineIInv'
<1> SUFFICES ASSUME EngineIInv, [EngineNext]_engineVars PROVE EngineIInv'
  OBVIOUS
<1>1. ASSUME NEW c \in Callers, Accept(c) \/ Peeked(c) \/ RequestRead(c) \/ HandshakeDone(c) \/ Resolved(c)
      PROVE  EngineIInv'
  BY <1>1, AcceptStep, PeekedStep, RequestReadStep, HandshakeDoneStep, ResolvedStep
<1>2. ASSUME NEW c \in Callers, Connected(c) \/ Replied(c) \/ RequestSent(c) \/ PrefetchSent(c)
      PROVE  EngineIInv'
  BY <1>2, ConnectedStep, RepliedStep, RequestSentStep, PrefetchSentStep
<1>3. ASSUME NEW c \in Callers, Relays(c) \/ TunnelEnds(c) \/ Completion(c) \/ Destroyed(c)
      PROVE  EngineIInv'
  BY <1>3, RelaysStep, TunnelEndsStep, ClosesStep
<1>4. CASE Environment
  BY <1>4, EnvironmentStep
<1>5. CASE UNCHANGED engineVars
  <2>1. IInv' /\ Cached' = Cached
    BY <1>5, PoolRests DEF EngineIInv, engineVars
  <2> QED
    BY <1>5, <2>1
    DEF EngineIInv, SessionTypes, Fresh, Phase, Own, Asks, engineVars, sessionVars, vars
<1> QED
  BY <1>1, <1>2, <1>3, <1>4, <1>5 DEF EngineNext

LEMMA EngineAlways == EngineSpec => []EngineIInv
BY EngineInitIInv, EngineNextIInv, PTL DEF EngineSpec

-------------------------------------------------------------------------------
\* The sessions and the pool keep their types, and a session has an internal_ptr in
\* exactly the stages that use one.
THEOREM EngineTypeCorrect == EngineSpec => []EngineTypeOK
<1>1. EngineIInv => EngineTypeOK
  BY DEF EngineIInv, IInv, SessionTypes, Phase, EngineTypeOK
<1> QED
  BY <1>1, EngineAlways, PTL

\* Sessions that share the pool never share a connection: what session and
\* acquire_tcp do with the sockets keeps the responses of clients apart.
THEOREM SessionsApart == EngineSpec => []OneSessionPerConnection
<1>1. EngineIInv => OneSessionPerConnection
  <2> SUFFICES ASSUME EngineIInv PROVE OneSessionPerConnection
    OBVIOUS
  <2>1. ASSUME NEW s \in Sockets, sockState[s] # "free" PROVE Cardinality(carried[s]) <= 1
    <3>1. CASE s \in Cached
      BY <3>1, FS_EmptySet DEF EngineIInv, Fresh
    <3>2. ASSUME NEW c \in Callers, held[c] = s PROVE Cardinality(carried[s]) <= 1
      <4>1. carried[s] \subseteq {c}
        BY <3>2, PoolAssumption DEF EngineIInv, IInv, TypeOK, Own
      <4>2. carried[s] = {} \/ carried[s] = {c}
        BY <4>1
      <4>3. Cardinality({}) = 0 /\ Cardinality({c}) = 1
        BY FS_EmptySet, FS_Singleton
      <4> QED
        BY <4>2, <4>3
    <3> QED
      BY <2>1, <3>1, <3>2 DEF EngineIInv, IInv, NoLeakNoDangling
  <2> QED
    BY <2>1 DEF EngineIInv, Fresh, OneSessionPerConnection
<1> QED
  BY <1>1, EngineAlways, PTL

\* A session relays to what its client asked for: distributor's choice of the endpoint
\* survives reuse, failure and recycling of connections.
THEOREM RoutingCorrect == EngineSpec => []RoutedAsAsked
<1>1. EngineIInv => RoutedAsAsked
  <2> SUFFICES ASSUME EngineIInv, NEW c \in Callers, stage[c] \in WithUpstream \cup {"connect"}
               PROVE  IF kind[c] = "reverse"
                      THEN host[c] \in DOMAIN ReverseMap /\ target[held[c]] = ReverseMap[host[c]]
                      ELSE host[c] \in Hosts \ Blocked
    BY DEF RoutedAsAsked
  <2>1. target[held[c]] = want[c]
    BY DEF EngineIInv, IInv, RightEndpoint, Phase
  <2> QED
    BY <2>1 DEF EngineIInv, Asks
<1> QED
  BY <1>1, EngineAlways, PTL

\* Whether diversion returns or throws, before the client has moved into proto or
\* after, with an upstream connection or without, the completion handler, the frames
\* and ~session leave neither connection behind.
THEOREM CloseCorrect == EngineSpec => []DoneHoldsNothing
<1>1. EngineIInv => DoneHoldsNothing
  BY DEF EngineIInv, IInv, TypeOK, Phase, DoneHoldsNothing, WithUpstream, Over
<1> QED
  BY <1>1, EngineAlways, PTL

-------------------------------------------------------------------------------
\* To the pool, the steps of the sessions are those of callers, except that a
\* session closes its connection and lets go of it in one step.
LEMMA SessionsMoveThePool ==
    ASSUME EngineIInv, [EngineNext]_engineVars
    PROVE  PoolMoves
<1>1. IInv /\ \A c \in Callers : Phase(c) /\ (held[c] # NoSocket => pc[c] # "idle")
  BY DEF EngineIInv, IInv, TypeOK
<1>2. ASSUME UNCHANGED vars PROVE PoolMoves
  BY <1>2 DEF vars, PoolMoves
<1>3. ASSUME NEW c \in Callers, (\E how \in Over : Ends(c, how)) \/ close(c) \/ TunnelEnds(c)
      PROVE  PoolMoves
  <2>1. "closed" \in SockStates
    BY DEF SockStates
  <2>2. stage[c] = "relay" => pc[c] # "idle"
    BY <1>1 DEF Phase, WithUpstream
  <2> QED
    BY <1>1, <1>2, <1>3, <2>1, <2>2 DEF Ends, close, TunnelEnds, PoolMoves
<1>4. ASSUME NEW c \in Callers, NEW e \in Endpoints, NEW k, Route(c, e, k) PROVE PoolMoves
  BY <1>4 DEF Route, PoolMoves
<1>5. ASSUME NEW c \in Callers, NEW h, RouteForward(c, h) PROVE PoolMoves
  BY <1>2, <1>5 DEF RouteForward
<1>6. ASSUME NEW c \in Callers, NEW h, RouteReverse(c, h) PROVE PoolMoves
  <2>1. ReverseMap[h] \in Endpoints
    BY <1>6, EngineAssumption DEF RouteReverse
  <2> QED
    BY <1>4, <1>6, <2>1 DEF RouteReverse
<1>7. ASSUME NEW c \in Callers, Connected(c) PROVE PoolMoves
  <2>1. pc[c] = "connecting"
    BY <1>1, <1>7 DEF Connected, Phase
  <2>2. {"failed", "closed", "up", "fin", "reset"} \subseteq SockStates
    BY DEF SockStates, OpenStates
  <2> QED
    BY <1>7, <2>1, <2>2 DEF Connected, ConnectFails, OptionFails, PoolMoves
<1>8. CASE Environment
  BY <1>2, <1>8, NextMoves, <1>1 DEF Environment, Next
<1>9. ASSUME NEW c \in Callers,
             Accept(c) \/ Peeked(c) \/ RequestRead(c) \/ HandshakeDone(c) \/ Resolved(c) \/ Replied(c)
      PROVE  PoolMoves
  BY <1>2, <1>3, <1>4, <1>5, <1>6, <1>9
  DEF Accept, Peeked, RequestRead, HandshakeDone, Resolved, Replied, Over
<1>10. ASSUME NEW c \in Callers,
              \/ RequestSent(c) \/ PrefetchSent(c) \/ Relays(c) \/ TunnelEnds(c)
              \/ Completion(c) \/ Destroyed(c)
       PROVE  PoolMoves
  BY <1>2, <1>3, <1>10 DEF RequestSent, PrefetchSent, Relays, Completion, Destroyed, Over
<1> QED
  BY <1>2, <1>7, <1>8, <1>9, <1>10 DEF EngineNext, engineVars

\* With sessions for callers, whatever becomes of them, every connection is lent
\* for one endpoint at a time, and it comes to another session only over the
\* cache or as a new one.
THEOREM SessionsUseTheLoan == EngineSpec => ImplementsLoan
<1>1. EngineInit => Loan!Init
  BY DEF EngineInit, Init, Loan!Init, Shelf
<1>2. EngineIInv /\ [EngineNext]_engineVars => [Loan!Next]_(Loan!vars)
  BY SessionsMoveThePool, LoanMoves DEF EngineIInv
<1> QED
  BY <1>1, <1>2, EngineAlways, PTL DEF EngineSpec, Loan!Spec, ImplementsLoan

\* Whatever the sessions do, a usable connection leaves the cache only to a session.
THEOREM SessionsGetUsable == EngineSpec => NothingUsableLost
<1>1. EngineIInv /\ [EngineNext]_engineVars => UsableIsKept
  BY SessionsMoveThePool, KeepsUsable DEF EngineIInv
<1> QED
  BY <1>1, EngineAlways, PTL DEF EngineSpec, NothingUsableLost, UsableIsKept

\* No session is ever handed a connection that was not established.
THEOREM SessionsUseTheConnected == EngineSpec => []OnlyConnectedIsUsed
<1>1. EngineIInv => OnlyConnectedIsUsed
  BY DEF EngineIInv, IInv
<1> QED
  BY <1>1, EngineAlways, PTL

================================================================================
