---------------------------- MODULE RouteService ----------------------------
(***************************************************************************)
(* What go/tun2socks/internal/chains promises the rest of the program,     *)
(* without saying how: every route offers one chain or none, a connection  *)
(* that asks is given the chain on offer at that moment or is turned away, *)
(* and once Close returned nothing new is ever offered.                    *)
(***************************************************************************)
CONSTANTS Routes, Chain, Callers, NoChain

VARIABLES
    offered,    \* the chain a route offers
    closed,     \* whether Close has returned
    asking,     \* a caller: "idle", "asking" or "given"
    want,       \* the route it asks for
    given       \* the chain it was given

vars == <<offered, closed, asking, want, given>>

Init ==
    /\ offered = [r \in Routes |-> NoChain]
    /\ closed = FALSE
    /\ asking = [w \in Callers |-> "idle"]
    /\ want \in [Callers -> Routes]
    /\ given = [w \in Callers |-> NoChain]

\* A new chain: no route offers it and no caller still works on it.
Offer(r, c) ==
    /\ ~closed
    /\ offered[r] = NoChain
    /\ \A q \in Routes : offered[q] # c
    /\ \A w \in Callers : given[w] # c
    /\ offered' = [offered EXCEPT ![r] = c]
    /\ UNCHANGED <<closed, asking, want, given>>

\* A chain is withdrawn before the next one is offered.
Withdraw(r) ==
    /\ offered[r] # NoChain
    /\ offered' = [offered EXCEPT ![r] = NoChain]
    /\ UNCHANGED <<closed, asking, want, given>>

Ask(w, r) ==
    /\ asking[w] = "idle"
    /\ asking' = [asking EXCEPT ![w] = "asking"]
    /\ want' = [want EXCEPT ![w] = r]
    /\ UNCHANGED <<offered, closed, given>>

Give(w) ==
    /\ asking[w] = "asking"
    /\ offered[want[w]] # NoChain
    /\ asking' = [asking EXCEPT ![w] = "given"]
    /\ given' = [given EXCEPT ![w] = offered[want[w]]]
    /\ UNCHANGED <<offered, closed, want>>

TurnAway(w) ==
    /\ asking[w] = "asking"
    /\ asking' = [asking EXCEPT ![w] = "idle"]
    /\ UNCHANGED <<offered, closed, want, given>>

Release(w) ==
    /\ asking[w] = "given"
    /\ asking' = [asking EXCEPT ![w] = "idle"]
    /\ given' = [given EXCEPT ![w] = NoChain]
    /\ UNCHANGED <<offered, closed, want>>

Close ==
    /\ ~closed
    /\ closed' = TRUE
    /\ UNCHANGED <<offered, asking, want, given>>

Next ==
    \/ \E r \in Routes : Withdraw(r) \/ \E c \in Chain : Offer(r, c)
    \/ \E w \in Callers : Give(w) \/ TurnAway(w) \/ Release(w) \/ \E r \in Routes : Ask(w, r)
    \/ Close

Spec == Init /\ [][Next]_vars
=============================================================================
