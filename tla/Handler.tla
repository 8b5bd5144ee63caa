------------------------------ MODULE Handler ------------------------------
(***************************************************************************)
(* The data plane of the daemon, go/tun2socks/internal/daemon/handler.go:  *)
(* what happens to a connection that enters the tunnel, while the rules    *)
(* are swapped, names are asked for and other VPNs come and go.            *)
(*                                                                         *)
(*   TCP   idle -> described -> decided -> dialing -> open -> idle         *)
(*   UDP   the same, but a blocked session is not tracked                  *)
(*                                                                         *)
(* A router is what it decides, a function of the name and the address;    *)
(* the rules behind it are Router's.                                       *)
(* Rules may look at the app and the port too; they are left out, being    *)
(* fixed when a connection arrives as its address is.  Whether its first   *)
(* bytes are waited for depends on the port and on the recording, so they  *)
(* may always be.  SetRouter is called with the daemon's lock held, so one *)
(* at a time, and before anything enters the tunnel, so there are always   *)
(* rules.                                                                  *)
(*                                                                         *)
(* Left out: what happens in a UDP session, which Relay has; pings; and    *)
(* the entry in the table of flows, which Flows models.                    *)
(***************************************************************************)
EXTENDS FakeDNS

CONSTANTS
    Conns,      \* connections at a time
    Addrs,      \* real addresses
    Routes,
    VPNs,
    Routers,    \* what the rules may be
    Claimant    \* whose own business a connection is: a VPN or None

Metas == [name : Names \cup {None}, addr : Places \cup Addrs \cup {None}]

Decisions ==
    [action : {"route", "direct", "vpn", "block", "system"},
     route : Routes \cup {None},
     vpn : VPNs \cup {None},
     rule : BOOLEAN]            \* a rule matched, and not the default

ASSUME HandlerAssumption ==
    /\ Routers \subseteq [Metas -> Decisions]
    /\ Claimant \in [Metas -> VPNs \cup {None}]
    /\ None \notin VPNs

VARIABLES
    router,     \* the rules
    vpns,       \* the other VPNs connected now
    setter,     \* where SetRouter is
    stale,      \* the connections it has yet to close
    pc,         \* where a connection is
    meta,       \* what is known about it
    decision,   \* what was decided
    live,       \* h.live
    shut,       \* it was closed by SetRouter
    answered,   \* the name behind a real answer
    late        \* history: the last scan came between its decision and its tracking

connVars == <<pc, meta, decision, live, shut, late>>
ruleVars == <<router, setter, stale>>
vars == <<poolVars, answered, connVars, ruleVars, vpns>>

Stages == {"idle", "described", "decided", "dialing", "open"}

TypeOK ==
    /\ PoolTypeOK
    /\ router \in Routers
    /\ vpns \subseteq VPNs
    /\ setter \in {"idle", "scan", "close"}
    /\ stale \subseteq live
    /\ pc \in [Conns -> Stages]
    /\ meta \in [Conns -> Metas \cup {None}]
    /\ decision \in [Conns -> Decisions \cup {None}]
    /\ live = {c \in Conns : pc[c] \in {"dialing", "open"}}
    /\ shut \subseteq live
    /\ late \subseteq Conns
    /\ answered \in [Addrs -> Names \cup {None}]

Init ==
    /\ PoolInit
    /\ router \in Routers
    /\ vpns = {}
    /\ setter = "idle"
    /\ stale = {}
    /\ pc = [c \in Conns |-> "idle"]
    /\ meta = [c \in Conns |-> None]
    /\ decision = [c \in Conns |-> None]
    /\ live = {}
    /\ shut = {}
    /\ late = {}
    /\ answered = [a \in Addrs |-> None]

----------------------------------------------------------------------------
(* Decisions. *)

IntoVPN(v) == [action |-> "vpn", route |-> None, vpn |-> v, rule |-> FALSE]

\* What no rule decides goes into the VPN whose business it is.
DecideWhy(m) ==
    IF ~router[m].rule /\ Claimant[m] \in vpns THEN IntoVPN(Claimant[m]) ELSE router[m]

\* As SetRouter compares them.
SameWay(d, e) == d.action = e.action /\ d.route = e.route

----------------------------------------------------------------------------
(* DNS. *)

RealAnswer(n) ==
    DecideWhy([name |-> n, addr |-> None]).action \in {"system", "vpn"}

\* An A query is answered with a placeholder.
Ask(n) ==
    /\ ~RealAnswer(n)
    /\ Assign(n)
    /\ UNCHANGED <<answered, connVars, ruleVars, vpns>>

\* A query that a VPN's resolver or the system's answers, with a.  What is
\* remembered when the answer comes may as well be when it is asked for: nothing
\* looks at a query under way.  Other forwarded queries leave nothing behind.
Remember(n, a) ==
    /\ RealAnswer(n)
    /\ answered' = [answered EXCEPT ![a] = n]
    /\ UNCHANGED <<poolVars, connVars, ruleVars, vpns>>

\* An answer expires, or the map is full and begun anew.
Forget(as) ==
    /\ answered' = [a \in Addrs |-> IF a \in as THEN None ELSE answered[a]]
    /\ UNCHANGED <<poolVars, connVars, ruleVars, vpns>>

----------------------------------------------------------------------------
(* Connections. *)

\* To a placeholder: it stands for a name, or nobody has it any more and the
\* connection is refused.
ArriveByName(c, p) ==
    /\ pc[c] = "idle"
    /\ byIP[p] # None
    /\ pc' = [pc EXCEPT ![c] = "described"]
    /\ meta' = [meta EXCEPT ![c] = [name |-> byIP[p], addr |-> p]]
    /\ UNCHANGED <<poolVars, answered, decision, live, shut, late, ruleVars, vpns>>

\* To a real address: its name is the one it was last an answer to, or the one
\* the first bytes give, or unknown.
ArriveByAddress(c, a) ==
    /\ pc[c] = "idle"
    /\ pc' = [pc EXCEPT ![c] = "described"]
    /\ \E n \in Names \cup {answered[a]} :
          meta' = [meta EXCEPT ![c] = [name |-> n, addr |-> a]]
    /\ UNCHANGED <<poolVars, answered, decision, live, shut, late, ruleVars, vpns>>

Decide(c) ==
    /\ pc[c] = "described"
    /\ pc' = [pc EXCEPT ![c] = "decided"]
    /\ decision' = [decision EXCEPT ![c] = DecideWhy(meta[c])]
    /\ UNCHANGED <<poolVars, answered, meta, live, shut, late, ruleVars, vpns>>

\* From here on SetRouter finds it.
Track(c) ==
    /\ pc[c] = "decided"
    /\ pc' = [pc EXCEPT ![c] = "dialing"]
    /\ live' = live \cup {c}
    /\ UNCHANGED <<poolVars, answered, meta, decision, shut, late, ruleVars, vpns>>

\* The handler returns: whatever it deferred is done.
Return(c) ==
    /\ pc' = [pc EXCEPT ![c] = "idle"]
    /\ meta' = [meta EXCEPT ![c] = None]
    /\ decision' = [decision EXCEPT ![c] = None]
    /\ live' = live \ {c}
    /\ shut' = shut \ {c}
    /\ late' = late \ {c}
    /\ stale' = stale \ {c}
    /\ UNCHANGED <<poolVars, answered, router, setter, vpns>>

\* A UDP session that is blocked.
Block(c) ==
    /\ pc[c] = "decided"
    /\ decision[c].action = "block"
    /\ Return(c)

Dialed(c) ==
    /\ pc[c] = "dialing"
    /\ decision[c].action # "block"
    /\ pc' = [pc EXCEPT ![c] = "open"]
    /\ UNCHANGED <<poolVars, answered, meta, decision, live, shut, late, ruleVars, vpns>>

DialFails(c) == pc[c] = "dialing" /\ Return(c)

\* One side is done, or the app's end was closed by SetRouter.
Finish(c) == pc[c] = "open" /\ Return(c)

----------------------------------------------------------------------------
(* SetRouter. *)

Swap(r) ==
    /\ setter = "idle"
    /\ router' = r
    /\ setter' = "scan"
    /\ UNCHANGED <<poolVars, answered, connVars, stale, vpns>>

\* Faulty variant: the route a connection takes is not looked at.
ScanActions ==
    /\ setter = "scan"
    /\ setter' = "close"
    /\ stale' = {c \in live : router[meta[c]].action # decision[c].action}
    /\ late' = {c \in Conns : pc[c] = "decided"}
    /\ UNCHANGED <<poolVars, answered, pc, meta, decision, live, shut, router, vpns>>

\* Under liveMu: the connections the new rules send elsewhere.
Scan ==
    /\ setter = "scan"
    /\ setter' = "close"
    /\ stale' = {c \in live : ~SameWay(router[meta[c]], decision[c])}
    /\ late' = {c \in Conns : pc[c] = "decided"}
    /\ UNCHANGED <<poolVars, answered, pc, meta, decision, live, shut, router, vpns>>

\* Faulty variant: the connection is only said to be closed.
CloseStaleInName(c) ==
    /\ setter = "close"
    /\ c \in stale
    /\ stale' = stale \ {c}
    /\ UNCHANGED <<poolVars, answered, connVars, router, setter, vpns>>

CloseStale(c) ==
    /\ setter = "close"
    /\ c \in stale
    /\ stale' = stale \ {c}
    /\ shut' = shut \cup {c}
    /\ UNCHANGED <<poolVars, answered, pc, meta, decision, live, late, router, setter, vpns>>

SetRouterReturns ==
    /\ setter = "close"
    /\ stale = {}
    /\ setter' = "idle"
    /\ UNCHANGED <<poolVars, answered, connVars, router, stale, vpns>>

\* Other VPNs come and go.
VPNsChange(vs) ==
    /\ vpns' = vs
    /\ UNCHANGED <<poolVars, answered, connVars, ruleVars>>

----------------------------------------------------------------------------
Attempt(c) == Decide(c) \/ Track(c) \/ Block(c) \/ Dialed(c) \/ DialFails(c)

Next ==
    \/ \E n \in Names : Ask(n) \/ \E a \in Addrs : Remember(n, a)
    \/ \E as \in SUBSET Addrs : Forget(as)
    \/ \E c \in Conns :
          \/ \E p \in Places : ArriveByName(c, p)
          \/ \E a \in Addrs : ArriveByAddress(c, a)
          \/ Attempt(c)
          \/ Finish(c)
          \/ CloseStale(c)
    \/ \E r \in Routers : Swap(r)
    \/ Scan
    \/ SetRouterReturns
    \/ \E vs \in SUBSET VPNs : VPNsChange(vs)

Spec == Init /\ [][Next]_vars

\* Goroutines run, a dial ends within its timeout, and a closed connection
\* fails what reads from it.
Fairness ==
    /\ \A c \in Conns : WF_vars(Attempt(c)) /\ WF_vars(c \in shut /\ Finish(c))
    /\ WF_vars(Scan)
    /\ \A c \in Conns : WF_vars(CloseStale(c))

FairSpec == Spec /\ Fairness

----------------------------------------------------------------------------
(* Properties. *)

\* What the rules allow for a connection: their own decision, and without a
\* rule also the VPN's whose business it is.
Verdicts(m) ==
    {router[m]} \cup {IntoVPN(v) : v \in {u \in VPNs : ~router[m].rule /\ Claimant[m] = u}}

Follows(c) == \E d \in Verdicts(meta[c]) : SameWay(d, decision[c])

Leaving(c) == c \in stale \cup shut

\* Once SetRouter has looked, every open connection goes a way the rules allow
\* or is being closed, whatever rules it was decided by, unless it was between
\* its decision and its tracking when SetRouter looked.
FollowsRules ==
    setter # "scan" => \A c \in live : Follows(c) \/ Leaving(c) \/ c \in late

\* A connection SetRouter means to close ends, also one whose dial is under
\* way, which is not cut short.
StaleEnds == \A c \in Conns : c \in stale ~> c \notin live
=============================================================================
