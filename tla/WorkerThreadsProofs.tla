-------------------------- MODULE WorkerThreadsProofs --------------------------
(* Proofs about WorkerThreads: the types on any set of threads, one owner on  *)
(* one thread, for every set of addresses and every max_cache_endpoint_.      *)
EXTENDS WorkerThreads, FiniteSetTheorems, TLAPS

\* io_context{1}: no two threads run it.
OneThread == \A t, u \in Threads : t = u

InStack(s) == \E i \in DOMAIN stack : stack[i] = s
InHand(s) == \E t \in Threads : pc[t] \in Owning /\ reg[t] = s

\* An object is lent, or on the stack, or in a local variable of a method.
Owned ==
    \A s \in Sockets :
        /\ s \in exists <=> lent[s] = 1 \/ InStack(s) \/ InHand(s)
        /\ lent[s] \in {0, 1}
        /\ lent[s] = 1 => ~ InStack(s) /\ ~ InHand(s)
        /\ InStack(s) => ~ InHand(s)

\* The stack holds an object once, and between back() and pop_back() the local
\* variable is what is on top.
Placed ==
    /\ \A i, j \in DOMAIN stack : stack[i] = stack[j] => i = j
    /\ \A t \in Threads : pc[t] = "pop" => stack # <<>> /\ reg[t] = stack[Len(stack)]

\* The inductive invariant for one thread.
IInv == TypeOK /\ Owned /\ Placed

-------------------------------------------------------------------------------
LEMMA TypeStep ==
    ASSUME ThreadConstants, TypeOK, [Next]_vars
    PROVE  TypeOK'
<1>1. ASSUME NEW t \in Threads, Acquire(t) \/ While(t)
      PROVE  TypeOK'
  <2>1. lent' \in [Sockets -> Nat] /\ exists' \subseteq Sockets
    BY <1>1 DEF TypeOK, Acquire, While
  <2>2. pc' \in [Threads -> Statements] /\ UNCHANGED <<stack, reg>>
    BY <1>1 DEF TypeOK, Acquire, While, Goto, Statements
  <2>3. \A u \in Threads : reg'[u] = NoSocket <=> pc'[u] \in {"out", "while", "back"}
    BY <1>1 DEF TypeOK, Acquire, While, Goto
  <2> QED
    BY <2>1, <2>2, <2>3 DEF TypeOK
<1>2. ASSUME NEW t \in Threads, NEW where \in Statements, Goto(t, where),
             \/ UNCHANGED reg /\ (pc[t] \in {"out", "while", "back"} <=> where \in {"out", "while", "back"})
             \/ Points(t, NoSocket) /\ where \in {"out", "while", "back"}
             \/ \E s \in Sockets : Points(t, s) /\ where \notin {"out", "while", "back"}
      PROVE  /\ pc' \in [Threads -> Statements] /\ reg' \in [Threads -> Sockets \cup {NoSocket}]
             /\ \A u \in Threads : reg'[u] = NoSocket <=> pc'[u] \in {"out", "while", "back"}
  <2>1. pc' \in [Threads -> Statements] /\ pc'[t] = where /\ \A u \in Threads \ {t} : pc'[u] = pc[u]
    BY <1>2 DEF TypeOK, Goto
  <2>2. CASE UNCHANGED reg /\ (pc[t] \in {"out", "while", "back"} <=> where \in {"out", "while", "back"})
    BY <2>1, <2>2 DEF TypeOK
  <2>3. CASE Points(t, NoSocket) /\ where \in {"out", "while", "back"}
    BY <2>1, <2>3 DEF TypeOK, Points
  <2>4. ASSUME NEW s \in Sockets, Points(t, s), where \notin {"out", "while", "back"}
        PROVE  /\ reg' \in [Threads -> Sockets \cup {NoSocket}]
               /\ \A u \in Threads : reg'[u] = NoSocket <=> pc'[u] \in {"out", "while", "back"}
    BY <2>1, <2>4 DEF ThreadConstants, TypeOK, Points
  <2> QED
    BY <1>2, <2>1, <2>2, <2>3, <2>4
<1>3. ASSUME NEW t \in Threads, pc[t] \notin {"out", "while", "back"}
      PROVE  reg[t] \in Sockets
  BY <1>3 DEF TypeOK
<1>5. ASSUME NEW t \in Threads, Back(t)
      PROVE  TypeOK'
  <2>1. stack[Len(stack)] \in Sockets /\ UNCHANGED <<stack, exists, lent>>
    BY <1>5 DEF TypeOK, Back
  <2> QED
    BY <1>2, <1>5, <2>1 DEF TypeOK, Back, Statements
<1>6. ASSUME NEW t \in Threads, Pop(t)
      PROVE  TypeOK'
  <2>1. stack' \in Seq(Sockets) /\ UNCHANGED <<exists, lent>>
    BY <1>6 DEF TypeOK, Pop
  <2> QED
    BY <1>2, <1>6, <2>1 DEF TypeOK, Pop, Statements
<1>7. ASSUME NEW t \in Threads, Push(t)
      PROVE  TypeOK'
  <2>1. stack' \in Seq(Sockets) /\ UNCHANGED <<exists, lent>>
    BY <1>3, <1>7, SMTT(30) DEF TypeOK, Push
  <2> QED
    BY <1>2, <1>7, <2>1 DEF TypeOK, Push, Statements
<1>8. ASSUME NEW t \in Threads, Check(t)
      PROVE  TypeOK'
  <2>1. lent' \in [Sockets -> Nat] /\ exists' \subseteq Sockets /\ UNCHANGED stack
    <3>1. reg[t] \in Sockets
      BY <1>3, <1>8 DEF Check
    <3>2. UNCHANGED lent \/ lent' = [lent EXCEPT ![reg[t]] = lent[reg[t]] + 1]
      BY <1>8 DEF Check
    <3>3. lent' \in [Sockets -> Nat]
      BY <3>1, <3>2 DEF TypeOK
    <3> QED
      BY <1>8, <3>3 DEF TypeOK, Check
  <2> QED
    BY <1>2, <1>8, <2>1 DEF TypeOK, Check, Statements
<1>9. ASSUME NEW t \in Threads, Size(t)
      PROVE  TypeOK'
  <2>1. lent' \in [Sockets -> Nat] /\ exists' \subseteq Sockets /\ UNCHANGED stack
    BY <1>9 DEF TypeOK, Size
  <2> QED
    BY <1>2, <1>9, <2>1 DEF TypeOK, Size, Statements
<1>10. ASSUME NEW t \in Threads, Recycle(t)
       PROVE  TypeOK'
  <2>1. lent' \in [Sockets -> Nat] /\ UNCHANGED <<stack, exists>>
    <3>1. PICK s \in Sockets : lent[s] > 0 /\ lent' = [lent EXCEPT ![s] = @ - 1]
      BY <1>10 DEF Recycle
    <3> QED
      BY <1>10, <3>1 DEF TypeOK, Recycle
  <2> QED
    BY <1>2, <1>10, <2>1 DEF TypeOK, Recycle, Statements
<1>4. CASE UNCHANGED vars
  BY <1>4 DEF TypeOK, vars
<1> QED
  BY <1>1, <1>4, <1>5, <1>6, <1>7, <1>8, <1>9, <1>10 DEF Next, InAcquire, InRecycle

\* What one thread does with its local variable is all that happens to any.
LEMMA Alone ==
    ASSUME OneThread, TypeOK, NEW t \in Threads, NEW where \in Statements, Goto(t, where)
    PROVE  /\ pc'[t] = where
           /\ \A u \in Threads : u = t
           /\ \A s : InHand(s) <=> pc[t] \in Owning /\ reg[t] = s
           /\ \A s : InHand(s)' <=> where \in Owning /\ reg'[t] = s
BY DEF OneThread, TypeOK, Goto, InHand

LEMMA AcquireStep ==
    ASSUME OneThread, IInv, NEW t \in Threads, Acquire(t)
    PROVE  Owned' /\ Placed'
<1>1. /\ TypeOK /\ Goto(t, "while") /\ pc[t] = "out" /\ UNCHANGED <<stack, exists, lent, reg>>
  BY DEF IInv, Acquire
<1>2. /\ pc'[t] = "while" /\ \A u \in Threads : u = t
      /\ \A s : ~ InHand(s) /\ ~ InHand(s)'
  BY <1>1, Alone DEF Statements, Owning
<1> QED
  BY <1>1, <1>2 DEF IInv, Owned, Placed, InStack

LEMMA WhileStep ==
    ASSUME OneThread, IInv, NEW t \in Threads, While(t)
    PROVE  Owned' /\ Placed'
<1>1. TypeOK /\ pc[t] = "while" /\ UNCHANGED <<stack, reg>>
  BY DEF IInv, While
<1>2. PICK where \in {"back", "out"} : Goto(t, where)
  BY DEF While
<1>3. /\ pc'[t] = where /\ \A u \in Threads : u = t
      /\ \A s : ~ InHand(s) /\ ~ InHand(s)'
  BY <1>1, <1>2, Alone DEF Statements, Owning
<1>4. Placed'
  BY <1>1, <1>3 DEF IInv, Placed
<1>5. CASE UNCHANGED <<exists, lent>>
  BY <1>1, <1>3, <1>4, <1>5 DEF IInv, Owned, InStack
<1>6. ASSUME NEW s \in Sockets \ exists, exists' = exists \cup {s}, lent' = [lent EXCEPT ![s] = 1]
      PROVE  Owned'
  BY <1>1, <1>3, <1>6 DEF IInv, Owned, InStack, TypeOK
<1> QED
  BY <1>4, <1>5, <1>6 DEF While

LEMMA BackStep ==
    ASSUME OneThread, IInv, NEW t \in Threads, Back(t)
    PROVE  Owned' /\ Placed'
<1>1. /\ TypeOK /\ Goto(t, "pop") /\ pc[t] = "back" /\ UNCHANGED <<stack, exists, lent>>
      /\ stack # <<>> /\ reg'[t] = stack[Len(stack)]
  BY DEF IInv, Back, Points, TypeOK
<1>2. /\ pc'[t] = "pop" /\ \A u \in Threads : u = t
      /\ \A s : ~ InHand(s) /\ ~ InHand(s)'
  BY <1>1, Alone DEF Statements, Owning
<1> QED
  BY <1>1, <1>2 DEF IInv, Owned, Placed, InStack

LEMMA PopStep ==
    ASSUME OneThread, IInv, NEW t \in Threads, Pop(t)
    PROVE  Owned' /\ Placed'
<1>1. /\ TypeOK /\ Goto(t, "check") /\ pc[t] = "pop" /\ UNCHANGED <<exists, lent, reg>>
      /\ stack # <<>> /\ stack' = SubSeq(stack, 1, Len(stack) - 1)
      /\ reg[t] = stack[Len(stack)]
  BY DEF IInv, Pop, Placed
<1>2. /\ pc'[t] = "check" /\ \A u \in Threads : u = t
      /\ \A s : ~ InHand(s) /\ (InHand(s)' <=> s = reg[t])
  BY <1>1, Alone DEF Statements, Owning
<1>3. /\ Len(stack) \in Nat /\ Len(stack) > 0 /\ DOMAIN stack = 1 .. Len(stack)
      /\ DOMAIN stack' = 1 .. Len(stack) - 1
      /\ \A i \in 1 .. Len(stack) - 1 : stack'[i] = stack[i]
  BY <1>1 DEF TypeOK
<1>4. Placed'
  BY <1>2, <1>3 DEF IInv, Placed
<1>5. \A s : InStack(s)' <=> InStack(s) /\ s # reg[t]
  <2>1. ASSUME NEW s PROVE InStack(s)' <=> InStack(s) /\ s # reg[t]
    <3>1. InStack(s)' <=> \E i \in 1 .. Len(stack) - 1 : stack[i] = s
      BY <1>3 DEF InStack
    <3>2. \A i \in 1 .. Len(stack) - 1 : stack[i] # reg[t]
      BY <1>1, <1>3 DEF IInv, Placed
    <3>3. \A n \in Nat : /\ \A i \in 1 .. n : i \in 1 .. n - 1 \/ i = n
                         /\ \A i \in 1 .. n - 1 : i \in 1 .. n
      OBVIOUS
    <3> QED
      BY <1>1, <1>3, <3>1, <3>2, <3>3 DEF InStack
  <2> QED
    BY <2>1
<1>6. InStack(reg[t])
  BY <1>1, <1>3 DEF InStack
<1> QED
  BY <1>1, <1>2, <1>4, <1>5, <1>6 DEF IInv, Owned

LEMMA CheckStep ==
    ASSUME OneThread, IInv, NEW t \in Threads, Check(t)
    PROVE  Owned' /\ Placed'
<1>1. /\ TypeOK /\ pc[t] = "check" /\ reg[t] \in Sockets /\ UNCHANGED stack
  BY DEF IInv, Check, TypeOK
<1>2. PICK where \in {"while", "out"} : Goto(t, where)
  BY DEF Check
<1>3. /\ pc'[t] = where /\ \A u \in Threads : u = t
      /\ \A s : (InHand(s) <=> s = reg[t]) /\ ~ InHand(s)'
  BY <1>1, <1>2, Alone DEF Statements, Owning
<1>4. Placed'
  BY <1>1, <1>3 DEF IInv, Placed
<1>5. ASSUME \A s \in Sockets : /\ s \in exists' <=> lent'[s] = 1 \/ InStack(s)
                                /\ lent'[s] \in {0, 1}
                                /\ lent'[s] = 1 => ~ InStack(s)
      PROVE  Owned'
  <2>1. ASSUME NEW s \in Sockets
        PROVE  /\ s \in exists' <=> lent'[s] = 1 \/ InStack(s)' \/ InHand(s)'
               /\ lent'[s] \in {0, 1}
               /\ lent'[s] = 1 => ~ InStack(s)' /\ ~ InHand(s)'
               /\ InStack(s)' => ~ InHand(s)'
    <3>1. InStack(s)' <=> InStack(s)
      BY <1>1 DEF InStack
    <3>2. ~ InHand(s)'
      BY <1>3 DEF InHand, Owning
    <3> QED
      BY <1>5, <3>1, <3>2
  <2> QED
    BY <2>1 DEF Owned
<1>6. CASE exists' = exists \ {reg[t]} /\ UNCHANGED lent
  <2>1. lent[reg[t]] = 0 /\ ~ InStack(reg[t])
    BY <1>1, <1>3 DEF IInv, Owned
  <2>2. ASSUME NEW s \in Sockets
        PROVE  /\ s \in exists' <=> lent'[s] = 1 \/ InStack(s)
               /\ lent'[s] \in {0, 1}
               /\ lent'[s] = 1 => ~ InStack(s)
    BY <1>3, <1>6, <2>1 DEF IInv, Owned
  <2> QED
    BY <1>4, <1>5, <2>2
<1>7. CASE lent' = [lent EXCEPT ![reg[t]] = @ + 1] /\ UNCHANGED exists
  <2>1. lent[reg[t]] = 0 /\ ~ InStack(reg[t]) /\ reg[t] \in exists
    BY <1>1, <1>3 DEF IInv, Owned
  <2>2. lent'[reg[t]] = 1 /\ \A s \in Sockets \ {reg[t]} : lent'[s] = lent[s]
    BY <1>1, <1>7, <2>1 DEF TypeOK
  <2>3. ASSUME NEW s \in Sockets
        PROVE  /\ s \in exists' <=> lent'[s] = 1 \/ InStack(s)
               /\ lent'[s] \in {0, 1}
               /\ lent'[s] = 1 => ~ InStack(s)
    <3>1. CASE s = reg[t]
      BY <1>7, <2>1, <2>2, <3>1
    <3>2. CASE s # reg[t]
      BY <1>3, <1>7, <2>2, <3>2 DEF IInv, Owned
    <3> QED
      BY <3>1, <3>2
  <2> QED
    BY <1>4, <1>5, <2>3
<1> QED
  BY <1>4, <1>6, <1>7 DEF Check

LEMMA RecycleStep ==
    ASSUME OneThread, IInv, NEW t \in Threads, Recycle(t)
    PROVE  Owned' /\ Placed'
<1>1. TypeOK /\ pc[t] = "out" /\ Goto(t, "size") /\ UNCHANGED <<stack, exists>>
  BY DEF IInv, Recycle
<1>2. PICK s \in Sockets : lent[s] > 0 /\ lent' = [lent EXCEPT ![s] = @ - 1] /\ Points(t, s)
  BY DEF Recycle
<1>3. lent[s] = 1 /\ lent'[s] = 0 /\ \A r \in Sockets \ {s} : lent'[r] = lent[r]
  BY <1>2 DEF IInv, Owned, TypeOK
<1>4. /\ pc'[t] = "size" /\ reg'[t] = s /\ \A u \in Threads : u = t
      /\ \A r : ~ InHand(r) /\ (InHand(r)' <=> r = s)
  <2>1. reg'[t] = s
    BY <1>1, <1>2 DEF Points, TypeOK
  <2> QED
    BY <1>1, <2>1, Alone DEF Statements, Owning
<1>5. Placed'
  BY <1>1, <1>4 DEF IInv, Placed
<1> QED
  BY <1>1, <1>3, <1>4, <1>5 DEF IInv, Owned, InStack

LEMMA SizeStep ==
    ASSUME OneThread, IInv, NEW t \in Threads, Size(t)
    PROVE  Owned' /\ Placed'
<1>1. /\ TypeOK /\ pc[t] = "size" /\ reg[t] \in Sockets /\ UNCHANGED <<stack, lent>>
  BY DEF IInv, Size, TypeOK
<1>2. CASE exists' = exists \ {reg[t]} /\ Goto(t, "out")
  <2>1. /\ pc'[t] = "out" /\ \A u \in Threads : u = t
        /\ \A s : (InHand(s) <=> s = reg[t]) /\ ~ InHand(s)'
    BY <1>1, <1>2, Alone DEF Statements, Owning
  <2>2. Placed'
    BY <1>1, <2>1 DEF IInv, Placed
  <2> QED
    BY <1>1, <1>2, <2>1, <2>2 DEF IInv, Owned, InStack
<1>3. CASE Goto(t, "push") /\ UNCHANGED <<exists, reg>>
  <2>1. /\ pc'[t] = "push" /\ \A u \in Threads : u = t
        /\ \A s : (InHand(s) <=> s = reg[t]) /\ (InHand(s)' <=> s = reg[t])
    BY <1>1, <1>3, Alone DEF Statements, Owning
  <2>2. Placed'
    BY <1>1, <2>1 DEF IInv, Placed
  <2> QED
    BY <1>1, <1>3, <2>1, <2>2 DEF IInv, Owned, InStack
<1> QED
  BY <1>2, <1>3 DEF Size

LEMMA PushStep ==
    ASSUME OneThread, IInv, NEW t \in Threads, Push(t)
    PROVE  Owned' /\ Placed'
<1>1. /\ TypeOK /\ pc[t] = "push" /\ reg[t] \in Sockets /\ Goto(t, "out")
      /\ UNCHANGED <<exists, lent>> /\ stack' = Append(stack, reg[t])
  BY DEF IInv, Push, TypeOK
<1>2. /\ pc'[t] = "out" /\ \A u \in Threads : u = t
      /\ \A s : (InHand(s) <=> s = reg[t]) /\ ~ InHand(s)'
  BY <1>1, Alone DEF Statements, Owning
<1>3. /\ Len(stack) \in Nat /\ DOMAIN stack = 1 .. Len(stack)
      /\ DOMAIN stack' = DOMAIN stack \cup {Len(stack) + 1} /\ Len(stack) + 1 \notin DOMAIN stack
      /\ \A i \in DOMAIN stack : stack'[i] = stack[i]
      /\ stack'[Len(stack) + 1] = reg[t]
  BY <1>1 DEF TypeOK
<1>4. \A s : InStack(s)' <=> InStack(s) \/ s = reg[t]
  BY <1>3 DEF InStack
<1>5. ~ InStack(reg[t])
  BY <1>1, <1>2 DEF IInv, Owned
<1>6. Placed'
  <2>1. \A i, j \in DOMAIN stack' : stack'[i] = stack'[j] => i = j
    BY <1>3, <1>5 DEF IInv, Placed, InStack
  <2> QED
    BY <1>2, <2>1 DEF Placed
<1> QED
  BY <1>1, <1>2, <1>4, <1>5, <1>6 DEF IInv, Owned

LEMMA NextIInv ==
    ASSUME ThreadConstants, OneThread, IInv, [Next]_vars
    PROVE  IInv'
<1>1. TypeOK'
  BY TypeStep DEF IInv
<1>2. ASSUME UNCHANGED vars
      PROVE  Owned' /\ Placed'
  BY <1>2 DEF IInv, Owned, Placed, InStack, InHand, vars
<1>3. Owned' /\ Placed'
  BY <1>2, AcquireStep, WhileStep, BackStep, PopStep, CheckStep, RecycleStep, SizeStep, PushStep
    DEF Next, InAcquire, InRecycle
<1> QED
  BY <1>1, <1>3 DEF IInv

\* What the invariant says in counts of owners.
LEMMA OwnersCounted ==
    ASSUME OneThread, IInv
    PROVE  OneOwner
<1> SUFFICES ASSUME NEW s \in Sockets
             PROVE  Owners(s) = IF s \in exists THEN 1 ELSE 0
  BY DEF OneOwner
<1> DEFINE Places == {i \in DOMAIN stack : stack[i] = s}
           Hands == {t \in Threads : pc[t] \in Owning /\ reg[t] = s}
<1>1. Cardinality(Places) = IF InStack(s) THEN 1 ELSE 0
  <2>1. CASE InStack(s)
    <3>1. PICK i \in DOMAIN stack : stack[i] = s
      BY <2>1 DEF InStack
    <3>2. Places = {i}
      BY <3>1 DEF IInv, Placed
    <3> QED
      BY <2>1, <3>2, FS_Singleton
  <2>2. CASE ~ InStack(s)
    <3>1. Places = {}
      BY <2>2 DEF InStack
    <3> QED
      BY <2>2, <3>1, FS_EmptySet
  <2> QED
    BY <2>1, <2>2
<1>2. Cardinality(Hands) = IF InHand(s) THEN 1 ELSE 0
  <2>1. CASE InHand(s)
    <3>1. PICK t \in Threads : pc[t] \in Owning /\ reg[t] = s
      BY <2>1 DEF InHand
    <3>2. Hands = {t}
      BY <3>1 DEF OneThread
    <3> QED
      BY <2>1, <3>2, FS_Singleton
  <2>2. CASE ~ InHand(s)
    <3>1. Hands = {}
      BY <2>2 DEF InHand
    <3> QED
      BY <2>2, <3>1, FS_EmptySet
  <2> QED
    BY <2>1, <2>2
<1>3. Owners(s) = lent[s] + Cardinality(Places) + Cardinality(Hands)
  BY DEF Owners
<1> HIDE DEF Places, Hands
<1> QED
  BY <1>1, <1>2, <1>3 DEF IInv, Owned

-------------------------------------------------------------------------------
LEMMA InitTypeOK == Init => TypeOK
  BY DEF Init, TypeOK, Statements

\* Every variable keeps its type, however many threads run the io_context.
THEOREM TypeCorrect ==
    ASSUME ThreadConstants
    PROVE  Spec => []TypeOK
<1>1. TypeOK /\ [Next]_vars => TypeOK'
  BY TypeStep
<1> QED
  BY <1>1, InitTypeOK, PTL DEF Spec

\* On one thread every socket object has one owner at every statement of
\* acquire_tcp and recycle, and only what exists has any.
THEOREM OneOwnerOnOneThread ==
    ASSUME ThreadConstants, OneThread
    PROVE  Spec => []OneOwner
<1>1. Init => IInv
  <2>1. Init => Owned /\ Placed
    BY DEF Init, Owned, Placed, InStack, InHand, Owning
  <2> QED
    BY <2>1, InitTypeOK DEF IInv
<1>2. IInv /\ [Next]_vars => IInv'
  BY NextIInv
<1>3. IInv => OneOwner
  BY OwnersCounted
<1> QED
  BY <1>1, <1>2, <1>3, PTL DEF Spec

===============================================================================
