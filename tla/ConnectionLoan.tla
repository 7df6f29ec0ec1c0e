----------------------------- MODULE ConnectionLoan -----------------------------
(* What the upstream connection pool promises, without stacks, clocks or     *)
(* socket states: connections stand on one shelf per endpoint or are on loan *)
(* to one caller, a loan is for one endpoint, and a connection goes from one *)
(* caller to the next only over the shelf of the endpoint it leads to.       *)
(* ConnectionPool implements this.                                           *)
CONSTANTS Callers, Sockets, Endpoints, NoSocket

VARIABLES
    shelf,    \* the connections waiting for reuse, by endpoint
    lent,     \* the connection each caller has
    purpose,  \* the endpoint it was lent for
    open      \* FALSE once the pool is destroyed

vars == <<shelf, lent, purpose, open>>

Init ==
    /\ shelf = [e \in Endpoints |-> {}]
    /\ lent = [c \in Callers |-> NoSocket]
    /\ purpose \in [Callers -> Endpoints]
    /\ open = TRUE

OnLoan(s) == \E c \in Callers : lent[c] = s

\* A caller gets a connection for e: one from e's shelf, or a new one.  Any
\* others on that shelf, and only on that one, may be thrown away.
Lend(c, e) ==
    /\ open
    /\ lent[c] = NoSocket
    /\ \E s \in Sockets, kept \in SUBSET shelf[e] :
        /\ ~ OnLoan(s)
        /\ s \notin kept
        /\ \A f \in Endpoints \ {e} : s \notin shelf[f]
        /\ shelf' = [shelf EXCEPT ![e] = kept]
        /\ lent' = [lent EXCEPT ![c] = s]
    /\ purpose' = [purpose EXCEPT ![c] = e]
    /\ UNCHANGED open

\* A caller gives its connection up: it is gone, or it waits on the shelf of
\* the endpoint it was lent for.
Return(c) ==
    /\ lent[c] # NoSocket
    /\ lent' = [lent EXCEPT ![c] = NoSocket]
    /\ \/ UNCHANGED shelf
       \/ shelf' = [shelf EXCEPT ![purpose[c]] = @ \cup {lent[c]}]
    /\ UNCHANGED <<purpose, open>>

\* The pool goes away, with everything on its shelves, when nothing is on loan.
Shut ==
    /\ open
    /\ \A c \in Callers : lent[c] = NoSocket
    /\ shelf' = [e \in Endpoints |-> {}]
    /\ open' = FALSE
    /\ UNCHANGED <<lent, purpose>>

Next ==
    \/ \E c \in Callers : Return(c) \/ \E e \in Endpoints : Lend(c, e)
    \/ Shut

Spec == Init /\ [][Next]_vars
===============================================================================
