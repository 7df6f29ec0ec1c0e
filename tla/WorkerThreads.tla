---------------------------- MODULE WorkerThreads ----------------------------
(* worker::run(n): n threads run one io_context, and with it one pool        *)
(* (agent/worker.hpp, agent/connection.cpp).  ConnectionPool takes what a     *)
(* coroutine does between two suspension points for one step; here every      *)
(* statement of source::acquire_tcp and source::recycle that touches the      *)
(* cache is a step of its own, and the threads interleave.  There is one      *)
(* endpoint, so cache_ is one stack; that the threads also rearrange the map  *)
(* around it is left out.  Nothing is said of what follows a read or a pop    *)
(* of an empty vector.                                                        *)
EXTENDS Integers, Sequences, FiniteSets

CONSTANTS
    Threads,    \* the threads in io_context::run
    Sockets,    \* addresses a tcp::socket object can have
    NoSocket,   \* no address
    MaxCache    \* max_cache_endpoint_

\* What the theorems suppose of them.
ThreadConstants == NoSocket \notin Sockets /\ MaxCache \in Nat

VARIABLES
    stack,      \* the stack of the endpoint
    exists,     \* the addresses with an object
    lent,       \* the internal_ptrs of the sessions, counted by the socket they point to
    pc,         \* the statement a thread is at; "out" when it runs something else
    reg         \* the socket its local variable points to

vars == <<stack, exists, lent, pc, reg>>

Statements == {"out", "while", "back", "pop", "check", "size", "push"}

\* A local variable that nobody else points to: between pop_back and the end of
\* acquire_tcp, and in recycle.
Owning == {"check", "size", "push"}

TypeOK ==
    /\ stack \in Seq(Sockets)
    /\ exists \subseteq Sockets
    /\ lent \in [Sockets -> Nat]
    /\ pc \in [Threads -> Statements]
    /\ reg \in [Threads -> Sockets \cup {NoSocket}]
    /\ \A t \in Threads : reg[t] = NoSocket <=> pc[t] \in {"out", "while", "back"}

Init ==
    /\ stack = <<>>
    /\ exists = {}
    /\ lent = [s \in Sockets |-> 0]
    /\ pc = [t \in Threads |-> "out"]
    /\ reg = [t \in Threads |-> NoSocket]

-------------------------------------------------------------------------------
Goto(t, where) == pc' = [pc EXCEPT ![t] = where]
Points(t, s) == reg' = [reg EXCEPT ![t] = s]

\* A thread resumes a session that awaits acquire_tcp.
Acquire(t) ==
    /\ pc[t] = "out"
    /\ Goto(t, "while")
    /\ UNCHANGED <<stack, exists, lent, reg>>

\* while (!stack.empty()), or the miss behind it: a new socket starts to connect,
\* which suspends the session and frees the thread.
While(t) ==
    /\ pc[t] = "while"
    /\ \/ stack # <<>> /\ Goto(t, "back") /\ UNCHANGED <<exists, lent>>
       \/ /\ stack = <<>>
          /\ \E s \in Sockets \ exists :
                exists' = exists \cup {s} /\ lent' = [lent EXCEPT ![s] = 1]
          /\ Goto(t, "out")
    /\ UNCHANGED <<stack, reg>>

\* auto [socket, last_used] = stack.back()
Back(t) ==
    /\ pc[t] = "back"
    /\ stack # <<>>
    /\ Points(t, stack[Len(stack)])
    /\ Goto(t, "pop")
    /\ UNCHANGED <<stack, exists, lent>>

\* stack.pop_back()
Pop(t) ==
    /\ pc[t] = "pop"
    /\ stack # <<>>
    /\ stack' = SubSeq(stack, 1, Len(stack) - 1)
    /\ Goto(t, "check")
    /\ UNCHANGED <<exists, lent, reg>>

\* Expired or a zombie: delete it and go on; healthy: hand it out.
Check(t) ==
    /\ pc[t] = "check"
    /\ \/ exists' = exists \ {reg[t]} /\ Goto(t, "while") /\ UNCHANGED lent
       \/ lent' = [lent EXCEPT ![reg[t]] = @ + 1] /\ Goto(t, "out") /\ UNCHANGED exists
    /\ Points(t, NoSocket)
    /\ UNCHANGED stack

\* A thread runs the deleter of a session's internal_ptr: recycle starts, with an
\* open socket.
Recycle(t) ==
    /\ pc[t] = "out"
    /\ \E s \in Sockets :
        /\ lent[s] > 0
        /\ lent' = [lent EXCEPT ![s] = @ - 1]
        /\ Points(t, s)
    /\ Goto(t, "size")
    /\ UNCHANGED <<stack, exists>>

\* stack.size() >= max_cache_endpoint_: the socket is closed and deleted.
Size(t) ==
    /\ pc[t] = "size"
    /\ \/ /\ Len(stack) >= MaxCache
          /\ exists' = exists \ {reg[t]}
          /\ Goto(t, "out")
          /\ Points(t, NoSocket)
       \/ Len(stack) < MaxCache /\ Goto(t, "push") /\ UNCHANGED <<exists, reg>>
    /\ UNCHANGED <<stack, lent>>

\* stack.push_back({s, now})
Push(t) ==
    /\ pc[t] = "push"
    /\ stack' = Append(stack, reg[t])
    /\ Goto(t, "out")
    /\ Points(t, NoSocket)
    /\ UNCHANGED <<exists, lent>>

InAcquire(t) == While(t) \/ Back(t) \/ Pop(t) \/ Check(t)
InRecycle(t) == Size(t) \/ Push(t)

Next == \E t \in Threads : Acquire(t) \/ Recycle(t) \/ InAcquire(t) \/ InRecycle(t)

Spec == Init /\ [][Next]_vars

-------------------------------------------------------------------------------
\* How often the pool or a session can still use or delete the object at s.
Owners(s) == lent[s] + Cardinality({i \in DOMAIN stack : stack[i] = s})
                     + Cardinality({t \in Threads : pc[t] \in Owning /\ reg[t] = s})

\* Every object has one owner, at every statement of acquire_tcp and recycle, and
\* an address without an object has none.  With several threads this is what the
\* comment in connection.hpp rests on: every thread has a pool of its own.
OneOwner == \A s \in Sockets : Owners(s) = IF s \in exists THEN 1 ELSE 0

===============================================================================
