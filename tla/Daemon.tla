------------------------------- MODULE Daemon -------------------------------
(***************************************************************************)
(* go/tun2socks/internal/daemon/daemon.go: the macOS helper that owns the  *)
(* tunnel.  One mutex, d.mu, guards its state; the calls of the app        *)
(* (Start, SetRules, Stop) and the restart goroutines hold it for as long  *)
(* as they bring the tunnel up or down, and while they wait for a chains   *)
(* Manager to close.                                                       *)
(*                                                                         *)
(* A Manager is seen from outside: it is open, closing or closed, and two  *)
(* kinds of goroutines its Close waits for call back into the daemon and   *)
(* take d.mu: the one that watches the clock (OnWake) and a route's, whose *)
(* dial past the tunnel may report that it is stuck (OnStuck).  Inside, a  *)
(* Manager is module Chains.  A Manager, or a Handler, that nothing refers *)
(* to any more stands for one not made yet.                                *)
(*                                                                         *)
(* A config is known by what its routes are; the rules by the config whose *)
(* routes they were compiled against.  Cooldowns and the second between    *)
(* two attempts are timers of unknown length.                              *)
(***************************************************************************)
EXTENDS Integers, FiniteSets

CONSTANTS
    Clients,        \* goroutines that serve the app's calls
    Restarters,     \* restart goroutines there can be at once (a bound)
    Managers,       \* identities of chains.Manager
    Handlers,       \* identities of Handler
    Configs,        \* configs that differ in their routes
    MaxAttempts,    \* attempts to bring the tunnel up again: 15 in the code
    None            \* Go's nil

ASSUME DaemonAssumption ==
    /\ MaxAttempts \in Nat \ {0}
    /\ Clients \cap Restarters = {}
    /\ None \notin Clients \cup Restarters \cup Managers \cup Handlers \cup Configs

VARIABLES
    mu,         \* the goroutine that holds d.mu, or None
    dstate,     \* d.state: "idle", "running" or "error"
    cfg,        \* d.cfg, keys included; None is the empty one
    rules,      \* the config whose routes the handler's router was compiled against
    current,    \* d.chains
    handler,    \* d.handler
    routes,     \* d.routes: the Manager the data plane dials through
    tunnel,     \* the handler the live tunnel device feeds, None when it is down
    jammed,     \* p.mu and p.vpnMu are held for ever, see Jam
    life,       \* a Manager: "open", "closing" or "closed"
    serves,     \* the config a Manager was made from
    clock,      \* watchClock: "ticking", or "waking" when it is inside OnWake
    runner,     \* a route: "running", or "stuck" when its dial is inside OnStuck
    at,         \* where a goroutine is
    mine,       \* its local Manager
    arg,        \* the config a Start brings
    held,       \* the handler a restart took at its beginning
    attempt,    \* attempts a restart has made
    overtaken   \* history: a Start replaced the chains of a restart that slept

daemonVars   == <<dstate, cfg, rules, current, handler, routes>>
platformVars == <<tunnel, jammed>>
managerVars  == <<life, serves, clock, runner>>
threadVars   == <<at, mine, arg, held, attempt>>
vars == <<mu, daemonVars, platformVars, managerVars, threadVars, overtaken>>

Threads == Clients \cup Restarters

-----------------------------------------------------------------------------
(* Managers and handlers *)

\* Managers that nothing refers to.
Unused == {m \in Managers : /\ life[m] = "closed"
                           /\ m # current /\ m # routes
                           /\ \A t \in Threads : mine[t] # m}

\* chains.New for config f.
NewManager(m, f) ==
    /\ m \in Unused
    /\ life' = [life EXCEPT ![m] = "open"]
    /\ serves' = [serves EXCEPT ![m] = f]
    /\ UNCHANGED <<clock, runner>>

\* Faulty variant: Close waits before it cancels.
CancelManagerLate(m) == UNCHANGED managerVars

\* The first half of Manager.Close, its cancel; a closed one stays closed.
CancelManager(m) ==
    /\ life' = [life EXCEPT ![m] = IF @ = "open" THEN "closing" ELSE @]
    /\ UNCHANGED <<serves, clock, runner>>

\* wg.Wait sees every goroutine of m gone: none of them is in a callback.
ManagerCloses(m) ==
    /\ life[m] = "closing"
    /\ clock[m] = "ticking"
    /\ runner[m] = "running"
    /\ life' = [life EXCEPT ![m] = "closed"]
    /\ serves' = [serves EXCEPT ![m] = None]
    /\ UNCHANGED <<mu, daemonVars, platformVars, clock, runner, threadVars, overtaken>>

FreshHandler(h) == h # handler /\ h # tunnel /\ \A g \in Restarters : held[g] # h

-----------------------------------------------------------------------------
(* The platform *)

\* What Up and Down return with; both need p.mu.  Up refuses when the tunnel
\* is up, and may fail in other ways.
TunnelUp(h) == ~jammed /\ tunnel = None /\ tunnel' = h /\ UNCHANGED jammed

TunnelFails == ~jammed /\ UNCHANGED platformVars

TunnelDown == ~jammed /\ tunnel' = None /\ UNCHANGED jammed

\* Up, or healRoutes while the tunnel is up, has p.mu and waits for p.vpnMu
\* in invalidateVPNs; VPNs, called for a connection, by frontOfVPNs or by
\* the app, has p.vpnMu and waits for p.mu in findVPNs.
Jam ==
    /\ ~jammed
    /\ tunnel # None \/ \E t \in Threads : at[t] \in {"upping", "trying"}
    /\ jammed' = TRUE
    /\ UNCHANGED <<mu, daemonVars, tunnel, managerVars, threadVars, overtaken>>

-----------------------------------------------------------------------------
(* Goroutines *)

Lock(t) == mu = None /\ mu' = t
LockBriefly == mu = None /\ UNCHANGED mu
Unlock(t) == mu' = None

Becomes(t, place) == at' = [at EXCEPT ![t] = place]
Takes(t, m) == mine' = [mine EXCEPT ![t] = m]

\* A call returns: its locals are gone.
Returns(c) ==
    /\ Becomes(c, "idle")
    /\ Takes(c, None)
    /\ arg' = [arg EXCEPT ![c] = None]

\* go d.restart: one goroutine more than Restarters has is left out, it
\* could only wait for the lock the others wait for.
SpawnRestart ==
    IF \E g \in Restarters : at[g] = "idle"
    THEN \E g \in Restarters : at[g] = "idle" /\ Becomes(g, "restart")
    ELSE UNCHANGED at

-----------------------------------------------------------------------------
(* Start *)

CallStart(c, f) ==
    /\ at[c] = "idle"
    /\ Becomes(c, "start")
    /\ arg' = [arg EXCEPT ![c] = f]
    /\ UNCHANGED <<mu, daemonVars, platformVars, managerVars, mine, held, attempt, overtaken>>

\* A config that does not hold together, or one that captures or bypasses
\* something else than the running one, changes nothing.
StartRefused(c) ==
    /\ at[c] = "start"
    /\ LockBriefly
    /\ Returns(c)
    /\ UNCHANGED <<daemonVars, platformVars, managerVars, held, attempt, overtaken>>

\* Start of a running tunnel with the routes it has: the rules are replaced.
StartSameRoutes(c) ==
    /\ at[c] = "start"
    /\ LockBriefly
    /\ dstate = "running"
    /\ cfg = arg[c]
    /\ rules' = arg[c]
    /\ Returns(c)
    /\ UNCHANGED <<dstate, cfg, current, handler, routes, platformVars, managerVars,
                   held, attempt, overtaken>>

\* Faulty variant: the old Manager is closed before the switch.
StartOtherRoutesClosing(c) ==
    /\ at[c] = "start"
    /\ Lock(c)
    /\ dstate = "running"
    /\ cfg # arg[c]
    /\ Cardinality(Unused) > 1
    /\ \E m \in Unused :
        /\ life' = [life EXCEPT ![m] = "open",
                                ![current] = IF @ = "open" THEN "closing" ELSE @]
        /\ serves' = [serves EXCEPT ![m] = arg[c]]
        /\ current' = m
    /\ Takes(c, current)
    /\ overtaken' = (overtaken \/ \E g \in Restarters : at[g] = "asleep" /\ mine[g] = current)
    /\ Becomes(c, "switching")
    /\ UNCHANGED <<dstate, cfg, rules, handler, routes, platformVars, clock, runner, arg, held,
                   attempt>>

\* Start of a running tunnel with other routes makes a new Manager, ...
\* Bound: a Manager stays unused for a restart, however many old ones are
\* still closing.
StartOtherRoutes(c) ==
    /\ at[c] = "start"
    /\ Lock(c)
    /\ dstate = "running"
    /\ cfg # arg[c]
    /\ Cardinality(Unused) > 1
    /\ \E m \in Managers : NewManager(m, arg[c]) /\ current' = m
    /\ Takes(c, current)
    /\ overtaken' = (overtaken \/ \E g \in Restarters : at[g] = "asleep" /\ mine[g] = current)
    /\ Becomes(c, "switching")
    /\ UNCHANGED <<dstate, cfg, rules, handler, routes, platformVars, arg, held,
                   attempt>>

\* Faulty variant: the old Manager is let go without a Close.
RoutesSwitchedLeaking(c) ==
    /\ at[c] = "switching"
    /\ routes' = current
    /\ Takes(c, None)
    /\ Becomes(c, "switched")
    /\ UNCHANGED <<mu, dstate, cfg, rules, current, handler, platformVars, managerVars,
                   arg, held, attempt, overtaken>>

\* ... switches the data plane to it and has the old one closed apart
\* (go old.Close()).  Its cancel is part of this step: until then it does
\* nothing that one which is closing may not do.
RoutesSwitched(c) ==
    /\ at[c] = "switching"
    /\ routes' = current
    /\ CancelManager(mine[c])
    /\ Takes(c, None)
    /\ Becomes(c, "switched")
    /\ UNCHANGED <<mu, dstate, cfg, rules, current, handler, platformVars, arg, held,
                   attempt, overtaken>>

\* ... and gives the handler its router.
StartApplied(c) ==
    /\ at[c] = "switched"
    /\ rules' = arg[c]
    /\ cfg' = arg[c]
    /\ Returns(c)
    /\ Unlock(c)
    /\ UNCHANGED <<dstate, current, handler, routes, platformVars, managerVars, held,
                   attempt, overtaken>>

\* Start of a tunnel that is down: chains and handler are made, and
\* the platform is asked to bring the tunnel up, all under d.mu.
StartFresh(c) ==
    /\ at[c] = "start"
    /\ Lock(c)
    /\ dstate # "running"
    /\ \E m \in Managers : NewManager(m, arg[c]) /\ routes' = m /\ Takes(c, m)
    /\ Becomes(c, "upping")
    /\ UNCHANGED <<dstate, cfg, rules, current, handler, platformVars, arg, held, attempt,
                   overtaken>>

StartSucceeds(c) ==
    /\ at[c] = "upping"
    /\ \E h \in Handlers : FreshHandler(h) /\ TunnelUp(h) /\ handler' = h
    /\ current' = mine[c]
    /\ cfg' = arg[c]
    /\ rules' = arg[c]
    /\ dstate' = "running"
    /\ overtaken' = FALSE
    /\ Returns(c)
    /\ Unlock(c)
    /\ UNCHANGED <<routes, managerVars, held, attempt>>

StartFails(c) ==
    /\ at[c] = "upping"
    /\ TunnelFails
    /\ CancelManager(mine[c])
    /\ Becomes(c, "failing")
    /\ UNCHANGED <<mu, daemonVars, mine, arg, held, attempt, overtaken>>

\* m.Close returned: the data plane lets go of it and the tunnel is cleaned up.
StartFailed(c) ==
    /\ at[c] = "failing"
    /\ life[mine[c]] = "closed"
    /\ routes' = None
    /\ TunnelDown
    /\ dstate' = "error"
    /\ Returns(c)
    /\ Unlock(c)
    /\ UNCHANGED <<cfg, rules, current, handler, managerVars, held, attempt,
                   overtaken>>

-----------------------------------------------------------------------------
(* SetRules and Stop *)

CallSetRules(c) ==
    /\ at[c] = "idle"
    /\ Becomes(c, "rules")
    /\ UNCHANGED <<mu, daemonVars, platformVars, managerVars, mine, arg, held, attempt, overtaken>>

\* The rules may name the routes the tunnel has.
SetRules(c) ==
    /\ at[c] = "rules"
    /\ LockBriefly
    /\ rules' = IF dstate = "running" THEN cfg ELSE rules
    /\ Returns(c)
    /\ UNCHANGED <<dstate, cfg, current, handler, routes, platformVars, managerVars,
                   held, attempt, overtaken>>

CallStop(c) ==
    /\ at[c] = "idle"
    /\ Becomes(c, "stop")
    /\ UNCHANGED <<mu, daemonVars, platformVars, managerVars, mine, arg, held, attempt, overtaken>>

\* Stop when there is nothing running.
StopNothing(c) ==
    /\ at[c] = "stop"
    /\ LockBriefly
    /\ dstate # "running"
    /\ dstate' = "idle"
    /\ Returns(c)
    /\ UNCHANGED <<cfg, rules, current, handler, routes, platformVars, managerVars,
                   held, attempt, overtaken>>

\* Stop takes the tunnel down, and then waits for the chains under d.mu.
Stop(c) ==
    /\ at[c] = "stop"
    /\ Lock(c)
    /\ dstate = "running"
    /\ TunnelDown
    /\ CancelManager(current)
    /\ Becomes(c, "stopping")
    /\ UNCHANGED <<daemonVars, mine, arg, held, attempt, overtaken>>

Stopped(c) ==
    /\ at[c] = "stopping"
    /\ life[current] = "closed"
    /\ current' = None
    /\ routes' = None
    /\ handler' = None
    /\ cfg' = None
    /\ rules' = None
    /\ dstate' = "idle"
    /\ overtaken' = FALSE
    /\ Returns(c)
    /\ Unlock(c)
    /\ UNCHANGED <<platformVars, managerVars, held, attempt>>

-----------------------------------------------------------------------------
(* restart *)

\* Not running, or within the cooldown of the last restart.
RestartSkipped(g) ==
    /\ at[g] = "restart"
    /\ LockBriefly
    /\ Becomes(g, "idle")
    /\ UNCHANGED <<daemonVars, platformVars, managerVars, mine, arg, held, attempt, overtaken>>

\* Bound: it begins only while there is a Manager left for it to make.
RestartBegins(g) ==
    /\ at[g] = "restart"
    /\ Lock(g)
    /\ dstate = "running"
    /\ Unused # {}
    /\ TunnelDown
    /\ CancelManager(current)
    /\ held' = [held EXCEPT ![g] = handler]
    /\ attempt' = [attempt EXCEPT ![g] = 0]
    /\ overtaken' = FALSE
    /\ Becomes(g, "closing")
    /\ UNCHANGED <<daemonVars, mine, arg>>

\* The old chains are closed; new ones serve the same config.
RestartReplaces(g) ==
    /\ at[g] = "closing"
    /\ life[current] = "closed"
    /\ \E m \in Managers : NewManager(m, cfg) /\ current' = m /\ routes' = m /\ Takes(g, m)
    /\ Becomes(g, "trying")
    /\ UNCHANGED <<mu, dstate, cfg, rules, handler, platformVars, arg, held, attempt,
                   overtaken>>

\* A goroutine that is done holds nothing any more.
RestartReturns(g) ==
    /\ Takes(g, None)
    /\ held' = [held EXCEPT ![g] = None]
    /\ attempt' = [attempt EXCEPT ![g] = 0]
    /\ Becomes(g, "idle")

RestartSucceeds(g) ==
    /\ at[g] = "trying"
    /\ TunnelUp(held[g])
    /\ overtaken' = FALSE
    /\ RestartReturns(g)
    /\ Unlock(g)
    /\ UNCHANGED <<daemonVars, managerVars, arg>>

\* Up failed: down again, and a second of sleep without the lock.
RestartSleeps(g) ==
    /\ at[g] = "trying"
    /\ TunnelDown
    /\ attempt' = [attempt EXCEPT ![g] = @ + 1]
    /\ Becomes(g, "asleep")
    /\ Unlock(g)
    /\ UNCHANGED <<daemonVars, managerVars, mine, arg, held, overtaken>>

\* Faulty variant: one failed attempt, and the restart is over.
RestartOvertakenAlways(g) ==
    /\ at[g] = "asleep"
    /\ LockBriefly
    /\ RestartReturns(g)
    /\ UNCHANGED <<daemonVars, platformVars, managerVars, arg, overtaken>>

\* Stopped or replaced meanwhile.
RestartOvertaken(g) ==
    /\ at[g] = "asleep"
    /\ LockBriefly
    /\ dstate # "running" \/ current # mine[g]
    /\ RestartReturns(g)
    /\ UNCHANGED <<daemonVars, platformVars, managerVars, arg, overtaken>>

\* Faulty variant: only the state is looked at after the sleep.
RestartTriesAgainBlindly(g) ==
    /\ at[g] = "asleep"
    /\ Lock(g)
    /\ dstate = "running"
    /\ attempt[g] < MaxAttempts
    /\ Becomes(g, "trying")
    /\ UNCHANGED <<daemonVars, platformVars, managerVars, mine, arg, held, attempt, overtaken>>

RestartTriesAgain(g) ==
    /\ at[g] = "asleep"
    /\ Lock(g)
    /\ dstate = "running" /\ current = mine[g]
    /\ attempt[g] < MaxAttempts
    /\ Becomes(g, "trying")
    /\ UNCHANGED <<daemonVars, platformVars, managerVars, mine, arg, held, attempt, overtaken>>

\* The last attempt failed: the chains are closed too ...
RestartGivesUp(g) ==
    /\ at[g] = "asleep"
    /\ Lock(g)
    /\ dstate = "running" /\ current = mine[g]
    /\ attempt[g] = MaxAttempts
    /\ CancelManager(mine[g])
    /\ Becomes(g, "givingUp")
    /\ UNCHANGED <<daemonVars, platformVars, mine, arg, held, attempt, overtaken>>

\* ... and the daemon is in error.
RestartFailed(g) ==
    /\ at[g] = "givingUp"
    /\ life[mine[g]] = "closed"
    /\ routes' = None
    /\ dstate' = "error"
    /\ RestartReturns(g)
    /\ Unlock(g)
    /\ UNCHANGED <<cfg, rules, current, handler, platformVars, managerVars, arg, overtaken>>

\* A Stop or a restart whose Down waits for p.mu.
Hangs(t) ==
    /\ jammed
    /\ at[t] \in {"stop", "restart"}
    /\ Lock(t)
    /\ dstate = "running"
    /\ Becomes(t, "hung")
    /\ UNCHANGED <<daemonVars, platformVars, managerVars, mine, arg, held, attempt, overtaken>>

-----------------------------------------------------------------------------
(* Callbacks of a Manager's goroutines *)

\* watchClock notices a sleep, also when the context is done already: its
\* select has both.
Wake(m) ==
    /\ life[m] # "closed"
    /\ clock[m] = "ticking"
    /\ clock' = [clock EXCEPT ![m] = "waking"]
    /\ UNCHANGED <<mu, daemonVars, platformVars, life, serves, runner, threadVars, overtaken>>

OnWake(m) ==
    /\ clock[m] = "waking"
    /\ LockBriefly
    /\ clock' = [clock EXCEPT ![m] = "ticking"]
    /\ SpawnRestart
    /\ UNCHANGED <<daemonVars, platformVars, life, serves, runner, mine, arg, held, attempt,
                   overtaken>>

\* A dial of a route's first hop stays unreachable after the routes were
\* healed: directNet.noteStuck.
DialStuck(m) ==
    /\ life[m] # "closed"
    /\ runner[m] = "running"
    /\ runner' = [runner EXCEPT ![m] = "stuck"]
    /\ UNCHANGED <<mu, daemonVars, platformVars, life, serves, clock, threadVars, overtaken>>

\* routesUp, and a restart unless every route is up.
OnStuck(m) ==
    /\ runner[m] = "stuck"
    /\ LockBriefly
    /\ runner' = [runner EXCEPT ![m] = "running"]
    /\ \/ SpawnRestart
       \/ current # None /\ UNCHANGED at
    /\ UNCHANGED <<daemonVars, platformVars, life, serves, clock, mine, arg, held, attempt,
                   overtaken>>

-----------------------------------------------------------------------------
\* New
Init ==
    /\ mu = None
    /\ dstate = "idle"
    /\ cfg = None /\ rules = None /\ current = None /\ handler = None
    /\ routes = None
    /\ tunnel = None /\ jammed = FALSE
    /\ life = [m \in Managers |-> "closed"]
    /\ serves = [m \in Managers |-> None]
    /\ clock = [m \in Managers |-> "ticking"]
    /\ runner = [m \in Managers |-> "running"]
    /\ at = [t \in Threads |-> "idle"]
    /\ mine = [t \in Threads |-> None]
    /\ arg = [c \in Clients |-> None]
    /\ held = [g \in Restarters |-> None]
    /\ attempt = [g \in Restarters |-> 0]
    /\ overtaken = FALSE

Call(c) == CallSetRules(c) \/ CallStop(c) \/ \E f \in Configs : CallStart(c, f)

\* What a call does once it is in.
Serve(c) ==
    \/ StartRefused(c) \/ StartSameRoutes(c)
    \/ StartOtherRoutes(c) \/ RoutesSwitched(c) \/ StartApplied(c)
    \/ StartFresh(c) \/ StartSucceeds(c) \/ StartFails(c) \/ StartFailed(c)
    \/ SetRules(c) \/ StopNothing(c) \/ Stop(c) \/ Stopped(c) \/ Hangs(c)

Restart(g) ==
    \/ RestartSkipped(g) \/ RestartBegins(g) \/ RestartReplaces(g) \/ RestartSucceeds(g)
    \/ RestartSleeps(g) \/ RestartOvertaken(g) \/ RestartTriesAgain(g) \/ RestartGivesUp(g)
    \/ RestartFailed(g) \/ Hangs(g)

ManagerNext(m) ==
    \/ ManagerCloses(m)
    \/ Wake(m) \/ OnWake(m)
    \/ DialStuck(m) \/ OnStuck(m)

Next ==
    \/ \E c \in Clients : Call(c) \/ Serve(c)
    \/ \E g \in Restarters : Restart(g)
    \/ \E m \in Managers : ManagerNext(m)
    \/ Jam

Spec == Init /\ [][Next]_vars

(* Whoever holds d.mu goes on: unless p.mu is held for ever, Platform.Up    *)
(* and Down return, and a goroutine of a Manager that is not in a callback  *)
(* sees the cancelled context, its dial's healRoutes behind it.             *)
HolderFairness ==
    /\ \A c \in Clients : WF_vars(mu = c /\ Serve(c))
    /\ \A g \in Restarters : WF_vars(mu = g /\ Restart(g))
    /\ \A m \in Managers : WF_vars(~jammed /\ ManagerCloses(m))

HolderSpec == Spec /\ HolderFairness

(* Go's mutex starves nobody, so whoever waits for d.mu gets it if it is    *)
(* free again and again.                                                    *)
Fairness ==
    /\ \A c \in Clients : SF_vars(Serve(c))
    /\ \A g \in Restarters : SF_vars(Restart(g))
    /\ \A m \in Managers : SF_vars(ManagerCloses(m)) /\ SF_vars(OnWake(m)) /\ SF_vars(OnStuck(m))

FairSpec == Spec /\ Fairness

-----------------------------------------------------------------------------
(* Properties *)

Holding ==
    {"upping", "failing", "switching", "switched", "stopping", "closing", "trying", "givingUp",
     "hung"}

TypeOK ==
    /\ mu \in Threads \cup {None}
    /\ dstate \in {"idle", "running", "error"}
    /\ {cfg, rules} \subseteq Configs \cup {None}
    /\ {current, routes} \subseteq Managers \cup {None}
    /\ {handler, tunnel} \subseteq Handlers \cup {None}
    /\ jammed \in BOOLEAN
    /\ life \in [Managers -> {"open", "closing", "closed"}]
    /\ serves \in [Managers -> Configs \cup {None}]
    /\ clock \in [Managers -> {"ticking", "waking"}]
    /\ runner \in [Managers -> {"running", "stuck"}]
    /\ at \in [Threads -> {"idle", "start", "rules", "stop", "restart", "asleep"} \cup Holding]
    /\ mine \in [Threads -> Managers \cup {None}]
    /\ arg \in [Clients -> Configs \cup {None}]
    /\ held \in [Restarters -> Handlers \cup {None}]
    /\ attempt \in [Restarters -> 0..MaxAttempts]
    /\ overtaken \in BOOLEAN

\* A daemon that is idle or in error has no tunnel up, and the tunnel that is
\* up feeds the handler the calls of the app change: a restart that slept
\* while the app stopped the tunnel and started another one never brings the
\* old handler back.
TunnelFeedsHandler ==
    tunnel # None => dstate = "running" /\ tunnel = handler

\* What a running tunnel's connections are decided by and dialed through fits
\* together.  With the lock free, that is the Manager the daemon has, it is
\* open, it serves the routes of the config, and the rules name those.  In
\* the middle of a Start that replaces the three one by one, the Manager
\* connections dial through is open all the same, and neither it nor the
\* rules are any but the old config's or the new one's.
DataPlaneMatchesConfig ==
    /\ mu = None /\ dstate = "running" =>
        /\ routes = current /\ current # None
        /\ life[current] = "open"
        /\ serves[current] = cfg
        /\ rules = cfg
    /\ tunnel # None =>
        /\ routes # None
        /\ life[routes] = "open"
        /\ rules = cfg
        /\ serves[routes] = cfg \/ \E c \in Clients : at[c] = "switched" /\ serves[routes] = arg[c]

\* No Manager keeps dialing servers behind the daemon's back: one that is
\* open is the running tunnel's, belongs to a start in progress or is about
\* to be replaced by one.
NoManagerLeaks ==
    \A m \in Managers : life[m] = "open" =>
        \/ m = current /\ dstate = "running"
        \/ \E c \in Clients : at[c] \in {"upping", "switching"} /\ mine[c] = m

\* A tunnel reported as running is up, or a restart is at work to bring it
\* up; what can come between is only a Start that replaced the chains of a
\* restart while that slept.
DownOnlyWhileRestarting ==
    mu = None /\ dstate = "running" /\ tunnel = None /\ ~overtaken =>
        \E g \in Restarters : at[g] = "asleep" /\ mine[g] = current

\* The comment on Start: it "brings the tunnel up with cfg, or, if it is up,
\* applies cfg to it".  A running daemon without a restart at work has its
\* tunnel up.
RunningMeansUp ==
    mu = None /\ dstate = "running" /\ tunnel = None =>
        \E g \in Restarters : at[g] = "asleep" /\ mine[g] = current

\* Whoever holds d.mu waits for a Manager one of whose goroutines waits for
\* d.mu.
WaitsForChains ==
    \E m \in Managers, t \in Threads :
        /\ mu = t
        /\ \/ at[t] \in {"closing", "stopping"} /\ m = current
           \/ at[t] \in {"failing", "givingUp"} /\ m = mine[t]
        /\ life[m] = "closing"
        /\ clock[m] = "waking" \/ runner[m] = "stuck"

\* p.mu is held for ever.  Whoever holds d.mu needs it for Up or Down, or
\* waits for a Manager one of whose goroutines needs it to heal the routes.
WaitsForPlatform == jammed /\ \E t \in Threads : mu = t /\ at[t] \notin {"switching", "switched"}

\* Nothing the daemon does under d.mu takes for ever, except in those two
\* ways: the lock every call of the app waits for comes free again.
LockComesFree == (mu # None) ~> (mu = None \/ WaitsForChains \/ WaitsForPlatform)

\* "Stop takes the tunnel down and forgets the config": a Stop comes back,
\* also when one platform lock waiting for the other is left out of account.
StopCompletes ==
    \A c \in Clients : (at[c] = "stop") ~> (at[c] = "idle" \/ jammed)

-----------------------------------------------------------------------------
(* What the app sees: its calls, the state it is told, and where the device *)
(* takes its connections.                                                   *)

CallAt(place) ==
    CASE place \in {"start", "upping", "failing", "switching"} -> "start"
      [] place = "switched" -> "applied"
      [] place = "rules" -> "rules"
      [] place \in {"stop", "stopping", "hung"} -> "stop"
      [] OTHER -> "none"

Doing == [c \in Clients |-> CallAt(at[c])]

Service == INSTANCE TunnelService WITH
    NoConfig <- None,
    state    <- dstate,
    config   <- IF \E c \in Clients : at[c] = "switched" THEN serves[routes]
                ELSE IF dstate = "running" THEN cfg ELSE None,
    device   <- IF tunnel = None THEN None ELSE serves[routes],
    doing    <- Doing,
    brings   <- arg

\* However long the calls and the restarts take, sleep, and overtake one
\* another, the app can think of its calls as taking effect one at a time,
\* and the device never carries connections for a config that was replaced,
\* nor comes back after a Stop.
ImplementsService == Service!Spec
=============================================================================
