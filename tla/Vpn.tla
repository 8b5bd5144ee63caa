-------------------------------- MODULE Vpn --------------------------------
(***************************************************************************)
(* lib/vpn/vpn_controller.dart and lib/vpn/ssh_tunnel.dart where the app   *)
(* itself owns the tunnel: macOS without the network helper.               *)
(*                                                                         *)
(* There is one event loop, so an action is what runs between two awaits   *)
(* that wait for an event.  A task is a call that is suspended at one of   *)
(* them, pc[k] says which, and of[k] is the SshTunnel it is suspended in:  *)
(*                                                                         *)
(*   connect     asking -> tearing -> dialing -> binding                   *)
(*                                       \----------\--> failing           *)
(*   disconnect  stopping                                                  *)
(*   the timer   rebuilding, or what connect does                          *)
(*                                                                         *)
(* An await of something that is null already is over before any event, so *)
(* tearing, failing and stopping only happen where there is a listener to  *)
(* close.                                                                  *)
(*                                                                         *)
(* Left out: the lengths of timers (a timer may fire whenever it is set),  *)
(* and with them _retryCount; error messages; hops; the SOCKS connections, *)
(* which only ever ask for a probe; dispose; a helper that is installed    *)
(* while the app runs.                                                     *)
(***************************************************************************)
EXTENDS FiniteSets

CONSTANTS
    Tasks,      \* calls that may be suspended at a time
    Tunnels,    \* identities of SshTunnel
    Chains,     \* identities of _SshChain
    None        \* Dart's null

ASSUME VpnAssumption == None \notin Tunnels \cup Chains

VARIABLES
    status,             \* VpnController.status
    userDisconnected,   \* _userDisconnected
    timer,              \* _retryTimer is active
    monitors,           \* the heartbeat and the connectivity subscription are on
    tunnel,             \* _tunnel
    pc, of,             \* where a task is suspended, and in which tunnel
    listening,          \* tunnels whose _socksServer is set
    stopped,            \* tunnels whose _stopped is set
    port,               \* the tunnel whose listener holds the port
    chain,              \* a tunnel's _chain
    probe,              \* the chain a tunnel's _probe pings
    open,               \* chains that are not closed
    silent,             \* those of them whose far end does not answer
    wish,               \* history: what the user asked for last
    overlapped          \* history: a connect or a disconnect, the user's or the
                        \* timer's, began before the one before it returned

controlVars == <<status, userDisconnected, timer, monitors>>
taskVars    == <<pc, of>>
tunnelVars  == <<tunnel, listening, stopped, port, chain>>
chainVars   == <<open, silent, probe>>
userVars    == <<wish, overlapped>>
vars == <<controlVars, taskVars, tunnelVars, chainVars, userVars>>

Statuses == {"disconnected", "connecting", "connected", "reconnecting", "error"}
InConnect == {"asking", "tearing", "dialing", "binding", "failing"}
Closing == {"tearing", "failing", "stopping"}
Places == InConnect \cup {"idle", "stopping", "rebuilding"}

At(places) == \E k \in Tasks : pc[k] \in places

TypeOK ==
    /\ status \in Statuses
    /\ {userDisconnected, timer, monitors, overlapped} \subseteq BOOLEAN
    /\ tunnel \in Tunnels \cup {None}
    /\ pc \in [Tasks -> Places]
    /\ of \in [Tasks -> Tunnels \cup {None}]
    /\ listening \subseteq Tunnels \cap {port}
    /\ stopped \subseteq Tunnels
    /\ port \in Tunnels \cup {None}
    /\ chain \in [Tunnels -> Chains \cup {None}]
    /\ probe \in [Tunnels -> Chains \cup {None}]
    /\ open \subseteq Chains
    /\ silent \subseteq open
    /\ wish \in {"up", "down"}

Init ==
    /\ status = "disconnected"
    /\ userDisconnected = FALSE
    /\ timer = FALSE
    /\ monitors = FALSE
    /\ tunnel = None
    /\ pc = [k \in Tasks |-> "idle"]
    /\ of = [k \in Tasks |-> None]
    /\ listening = {}
    /\ stopped = {}
    /\ port = None
    /\ chain = [t \in Tunnels |-> None]
    /\ probe = [t \in Tunnels |-> None]
    /\ open = {}
    /\ silent = {}
    /\ wish = "down"
    /\ overlapped = FALSE

----------------------------------------------------------------------------
(* Tasks, tunnels and chains. *)

IdleTasks == {k \in Tasks : pc[k] = "idle"}

\* A task that starts: one idle one is as good as another.
SomeTask == CHOOSE k \in IdleTasks : TRUE

Suspend(k, place, t) ==
    /\ pc' = [pc EXCEPT ![k] = place]
    /\ of' = [of EXCEPT ![k] = t]

Return(k) == Suspend(k, "idle", None)

\* Tunnels nobody refers to, and so as good as new ones.
FreeTunnels ==
    {t \in Tunnels : /\ t \notin {tunnel, port}
                     /\ \A k \in Tasks : of[k] # t
                     /\ chain[t] = None
                     /\ probe[t] = None}

FreeChains == {c \in Chains \ open : \A t \in Tunnels : probe[t] # c}

IsRunning(t) == t \in listening /\ t \notin stopped

\* Faulty variant: the chains are forgotten and go on.
DropChainsForgetting(ts) ==
    /\ chain' = [t \in Tunnels |-> IF t \in ts THEN None ELSE chain[t]]
    /\ UNCHANGED <<open, silent>>

\* The chains of the tunnels ts are thrown away, if they have one: _dropChain.
DropChains(ts) ==
    LET gone == {chain[t] : t \in ts \cap Tunnels} IN
    /\ chain' = [t \in Tunnels |-> IF t \in ts THEN None ELSE chain[t]]
    /\ open' = open \ gone
    /\ silent' = silent \ gone

----------------------------------------------------------------------------
(* The retry timer. *)

\* Faulty variant: also when nobody wants the tunnel any more.
ScheduleReconnectAnyway == status' = "reconnecting" /\ timer' = TRUE

\* Does nothing once the user has disconnected: _scheduleReconnect.
ScheduleReconnect ==
    IF userDisconnected
    THEN UNCHANGED <<status, timer>>
    ELSE status' = "reconnecting" /\ timer' = TRUE

----------------------------------------------------------------------------
(* _cleanupTunnel.  Where a listener has to be closed it is awaited, and   *)
(* what comes after runs when that is done, whatever _tunnel is by then.   *)

\* The tunnel it stops, if there is one.
StoppedNow == stopped \cup ({tunnel} \ {None})

CloseListener(k, place) ==
    /\ tunnel \in listening
    /\ listening' = listening \ {tunnel}
    /\ Suspend(k, place, tunnel)
    /\ UNCHANGED tunnel

ListenerClosed(k) ==
    /\ port' = IF port = of[k] THEN None ELSE port
    /\ DropChains({of[k]})
    /\ UNCHANGED listening

NothingListens ==
    /\ tunnel \notin listening
    /\ UNCHANGED listening

----------------------------------------------------------------------------
(* connect. *)

\* A call begins: history only.
Begins ==
    overlapped' = (overlapped \/ At(InConnect \cup {"stopping"}))

\* The user presses Connect, or picks another target while a tunnel is up or
\* on its way.
Connect ==
    /\ IdleTasks # {}
    /\ Suspend(SomeTask, "asking", None)
    /\ wish' = "up"
    /\ Begins
    /\ UNCHANGED <<controlVars, tunnelVars, chainVars>>

\* After the cleanup: a new tunnel, whose start dials.
StartTunnel(k, nowStopped) ==
    /\ FreeTunnels # {}
    /\ LET t == CHOOSE t \in FreeTunnels : TRUE IN
       /\ tunnel' = t
       /\ stopped' = nowStopped \ {t}
       /\ Suspend(k, "dialing", t)
    /\ userDisconnected' = FALSE
    /\ status' = "connecting"

\* No helper answered: the monitors and the timer go off, and the tunnel
\* there is, is torn down.
TearDown(k) ==
    /\ pc[k] = "asking"
    /\ timer' = FALSE
    /\ monitors' = FALSE
    /\ \/ /\ CloseListener(k, "tearing")
          /\ stopped' = StoppedNow
          /\ userDisconnected' = TRUE
          /\ UNCHANGED <<status, chain, open, silent>>
       \/ /\ NothingListens
          /\ DropChains({tunnel})
          /\ StartTunnel(k, StoppedNow)
    /\ UNCHANGED <<port, probe, userVars>>

Torn(k) ==
    /\ pc[k] = "tearing"
    /\ ListenerClosed(k)
    /\ StartTunnel(k, stopped)
    /\ UNCHANGED <<timer, monitors, probe, userVars>>

\* A dial succeeds, and its chain becomes the tunnel's.
SetChain(t) ==
    /\ FreeChains # {}
    /\ LET c == CHOOSE c \in FreeChains : TRUE IN
       /\ chain' = [chain EXCEPT ![t] = c]
       /\ open' = open \cup {c}
    /\ UNCHANGED silent

\* start: the chain stands, and the port is asked for.
Dialed(k) ==
    /\ pc[k] = "dialing"
    /\ SetChain(of[k])
    /\ Suspend(k, "binding", of[k])
    /\ UNCHANGED <<controlVars, tunnel, listening, stopped, port, probe, userVars>>

\* Faulty variant: the heartbeat is not started.
BoundUnmonitored(k) ==
    /\ pc[k] = "binding"
    /\ port = None
    /\ port' = of[k]
    /\ listening' = listening \cup {of[k]}
    /\ status' = "connected"
    /\ Return(k)
    /\ UNCHANGED <<userDisconnected, timer, monitors, tunnel, stopped, chain, chainVars,
                   userVars>>

\* connect returns: the tunnel listens.
Bound(k) ==
    /\ pc[k] = "binding"
    /\ port = None
    /\ port' = of[k]
    /\ listening' = listening \cup {of[k]}
    /\ status' = "connected"
    /\ monitors' = TRUE
    /\ Return(k)
    /\ UNCHANGED <<userDisconnected, timer, tunnel, stopped, chain, chainVars, userVars>>

\* Faulty variant: the retry is announced and not scheduled.
ConnectFailedSilently(k) ==
    /\ tunnel' = None
    /\ Return(k)
    /\ status' = IF userDisconnected THEN "error" ELSE "reconnecting"
    /\ UNCHANGED timer

\* How connect ends when its tunnel did not start.
ConnectFailed(k) ==
    /\ tunnel' = None
    /\ Return(k)
    /\ IF userDisconnected
       THEN status' = "error" /\ UNCHANGED timer
       ELSE ScheduleReconnect

\* The dial fails, or the port is another program's or another tunnel's: start
\* leaves no chain behind, and connect cleans up.  What it cleans up is
\* _tunnel.
StartFails(k) ==
    /\ pc[k] \in {"dialing", "binding"}
    /\ stopped' = StoppedNow
    /\ \/ /\ CloseListener(k, "failing")
          /\ DropChains({of[k]})
          /\ UNCHANGED <<status, timer>>
       \/ /\ NothingListens
          /\ DropChains({of[k], tunnel})
          /\ ConnectFailed(k)
    /\ UNCHANGED <<userDisconnected, monitors, port, probe, userVars>>

CleanedUp(k) ==
    /\ pc[k] = "failing"
    /\ ListenerClosed(k)
    /\ ConnectFailed(k)
    /\ UNCHANGED <<userDisconnected, monitors, stopped, probe, userVars>>

----------------------------------------------------------------------------
(* disconnect. *)

Disconnect ==
    /\ status # "disconnected"
    /\ userDisconnected' = TRUE
    /\ timer' = FALSE
    /\ monitors' = FALSE
    /\ status' = "disconnected"
    /\ stopped' = StoppedNow
    /\ wish' = "down"
    /\ Begins
    /\ \/ /\ IdleTasks # {}
          /\ CloseListener(SomeTask, "stopping")
          /\ UNCHANGED <<chain, open, silent>>
       \/ /\ NothingListens
          /\ DropChains({tunnel})
          /\ tunnel' = None
          /\ UNCHANGED taskVars
    /\ UNCHANGED <<port, probe>>

Disconnected(k) ==
    /\ pc[k] = "stopping"
    /\ ListenerClosed(k)
    /\ tunnel' = None
    /\ Return(k)
    /\ UNCHANGED <<controlVars, stopped, probe, userVars>>

----------------------------------------------------------------------------
(* The timer's callback.  It looks at _userDisconnected first, and never   *)
(* finds it set: TimerMeansWanted.                                         *)

TimerFires ==
    /\ timer
    /\ IdleTasks # {}
    /\ timer' = FALSE
    /\ \/ /\ IsRunning(tunnel)
          /\ DropChains({tunnel})
          /\ Suspend(SomeTask, "rebuilding", tunnel)
          /\ UNCHANGED <<tunnel, stopped, overlapped>>
       \/ /\ ~IsRunning(tunnel)
          /\ NothingListens
          /\ DropChains({tunnel})
          /\ tunnel' = None
          /\ stopped' = StoppedNow
          /\ Suspend(SomeTask, "asking", None)
          /\ Begins
    /\ UNCHANGED <<status, userDisconnected, monitors, listening, port, probe, wish>>

\* The answer to a rebuild concerns nobody any more.
Stale(k) == userDisconnected \/ of[k] # tunnel

\* Faulty variant: a stopped tunnel gets its chain all the same.
RebuiltStopped(k) ==
    /\ pc[k] = "rebuilding"
    /\ SetChain(of[k])
    /\ status' = IF Stale(k) THEN status ELSE "connected"
    /\ Return(k)
    /\ UNCHANGED <<userDisconnected, timer, monitors, tunnel, listening, stopped, port,
                   probe, userVars>>

Rebuilt(k) ==
    /\ pc[k] = "rebuilding"
    /\ of[k] \notin stopped
    /\ SetChain(of[k])
    /\ status' = IF Stale(k) THEN status ELSE "connected"
    /\ Return(k)
    /\ UNCHANGED <<userDisconnected, timer, monitors, tunnel, listening, stopped, port,
                   probe, userVars>>

\* The dial fails, or the tunnel was stopped and the chain closed again.
RebuildFails(k) ==
    /\ pc[k] = "rebuilding"
    /\ IF Stale(k) THEN UNCHANGED <<status, timer>> ELSE ScheduleReconnect
    /\ Return(k)
    /\ UNCHANGED <<userDisconnected, monitors, tunnelVars, chainVars, userVars>>

----------------------------------------------------------------------------
(* How a dead chain is noticed. *)

\* Faulty variant: only a connected tunnel is said to have lost its chain.
MarkLostQuietly(c) ==
    /\ open' = open \ {c}
    /\ silent' = silent \ {c}
    /\ chain' = [t \in Tunnels |-> IF chain[t] = c THEN None ELSE chain[t]]
    /\ IF status = "connected" /\ \E t \in Tunnels : chain[t] = c
       THEN ScheduleReconnect
       ELSE UNCHANGED <<status, timer>>

\* A chain that ends by itself: its tunnel forgets it and says so.
MarkLost(c) ==
    /\ open' = open \ {c}
    /\ silent' = silent \ {c}
    /\ chain' = [t \in Tunnels |-> IF chain[t] = c THEN None ELSE chain[t]]
    /\ IF \E t \in Tunnels : chain[t] = c
       THEN ScheduleReconnect
       ELSE UNCHANGED <<status, timer>>

\* A hop's transport closes.
HangsUp(c) ==
    /\ c \in open
    /\ MarkLost(c)
    /\ UNCHANGED <<userDisconnected, monitors, taskVars, tunnel, listening, stopped, port,
                   probe, userVars>>

\* The far end stops answering without saying so.
FallsSilent(c) ==
    /\ c \in open \ silent
    /\ silent' = silent \cup {c}
    /\ UNCHANGED <<controlVars, taskVars, tunnelVars, open, probe, userVars>>

\* A probe goes out, unless one is under way.
CheckHealth(t) ==
    /\ t \in Tunnels
    /\ chain[t] # None
    /\ probe[t] = None
    /\ probe' = [probe EXCEPT ![t] = chain[t]]
    /\ UNCHANGED <<controlVars, taskVars, tunnelVars, open, silent, userVars>>

\* The heartbeat's tick, or a nudge while no retry is due.
Heartbeat ==
    /\ monitors
    /\ status = "connected"
    /\ CheckHealth(tunnel)

\* A SOCKS connection asks for a channel and gets no answer.
Request(t) ==
    /\ t \in listening
    /\ CheckHealth(t)

\* The network changed or the machine slept, while a retry is due.
Nudge ==
    /\ monitors
    /\ timer
    /\ ScheduleReconnect
    /\ UNCHANGED <<userDisconnected, monitors, taskVars, tunnelVars, chainVars, userVars>>

\* The far end answers, or the chain was closed already.
ProbeAnswered(t) ==
    /\ probe[t] \notin silent \cup {None}
    /\ probe' = [probe EXCEPT ![t] = None]
    /\ UNCHANGED <<controlVars, taskVars, tunnelVars, open, silent, userVars>>

ProbeTimesOut(t) ==
    /\ probe[t] \in silent
    /\ probe' = [probe EXCEPT ![t] = None]
    /\ MarkLost(probe[t])
    /\ UNCHANGED <<userDisconnected, monitors, taskVars, tunnel, listening, stopped, port,
                   userVars>>

----------------------------------------------------------------------------
TaskNext(k) ==
    \/ TearDown(k) \/ Torn(k) \/ Dialed(k) \/ Bound(k) \/ StartFails(k) \/ CleanedUp(k)
    \/ Disconnected(k)
    \/ Rebuilt(k) \/ RebuildFails(k)

Next ==
    \/ Connect
    \/ Disconnect
    \/ TimerFires
    \/ Heartbeat
    \/ Nudge
    \/ \E k \in Tasks : TaskNext(k)
    \/ \E c \in Chains : HangsUp(c) \/ FallsSilent(c)
    \/ \E t \in Tunnels : Request(t) \/ ProbeAnswered(t) \/ ProbeTimesOut(t)

Spec == Init /\ [][Next]_vars

\* Answers come, one way or the other, the timers run, and a server that is
\* dialed over and over answers some day; so does the port.
Fairness ==
    /\ \A k \in Tasks : WF_vars(TaskNext(k))
    /\ \A k \in Tasks : SF_vars(Dialed(k)) /\ SF_vars(Bound(k)) /\ SF_vars(Rebuilt(k))
    /\ WF_vars(TimerFires)
    /\ WF_vars(Heartbeat)
    /\ \A t \in Tunnels : WF_vars(ProbeAnswered(t)) /\ WF_vars(ProbeTimesOut(t))

FairSpec == Spec /\ Fairness

----------------------------------------------------------------------------
(* Properties. *)

\* A disconnect leaves no retry behind, and none is set afterwards, whatever
\* calls were suspended when it came: the timer's callback would reconnect.
TimerMeansWanted == timer => ~userDisconnected

\* What the app says it is connecting or reconnecting, it is: a retry is due,
\* or a call is at work that decides what comes next.  Several calls may be
\* suspended, and each leaves it to another when its tunnel is not the current
\* one any more; none leaves it to nobody.
NoOneForgets ==
    status \in {"connecting", "reconnecting"} =>
        timer \/ At(InConnect \cup {"rebuilding"})

\* A listener without a chain holds back the traffic of the apps: it gets a new
\* chain, or makes way for another tunnel, unless the user disconnected.
ListenerServed ==
    (tunnel \in listening /\ chain[tunnel] = None /\ ~userDisconnected) =>
        \/ timer
        \/ At(InConnect)
        \/ \E k \in Tasks : pc[k] = "rebuilding" /\ of[k] = tunnel

Quiet == ~At(Places \ {"idle"})

\* DESIGN.md:145, "User press Cancel -> stops everything, no auto reconnect":
\* once every call has returned, no listener, no chain, no retry is left.
CancelStopsEverything ==
    wish = "down" /\ Quiet => port = None /\ open = {} /\ ~timer /\ ~monitors

\* That is so as long as neither the user's calls nor the timer's connects
\* overlap, although a rebuild, a probe or the loss of a chain may come in
\* anywhere.  One disconnect of the user's that falls into a connect the timer
\* made is an overlap, and leaves the tunnel up like one that falls into the
\* user's own.
DisconnectStopsEverything == ~overlapped => CancelStopsEverything

\* As long as no connect or disconnect, the timer's connects included, falls into
\* another, only the current tunnel has a chain or the
\* port, and no chain is left open that no tunnel knows: a rebuild may finish
\* after its tunnel was stopped.
NoOrphans ==
    ~overlapped =>
        /\ \A c \in open : \E t \in Tunnels : chain[t] = c
        /\ \A t \in Tunnels : chain[t] # None \/ port = t => t = tunnel

\* Once the user has disconnected and no connect is under way, neither a chain
\* that ends, nor a probe, a nudge or a rebuild brings the tunnel back.
DisconnectHolds ==
    [][ userDisconnected /\ userDisconnected' /\ ~At(InConnect) =>
        ~timer' /\ status' \in {status, "disconnected"} ]_vars

Serving ==
    /\ status = "connected"
    /\ IsRunning(tunnel)
    /\ chain[tunnel] \in open \ silent

\* A tunnel that is wanted comes up, and comes up again whatever happens to its
\* chain, once the user leaves the buttons alone and if no connect or disconnect,
\* the timer's connects included, ever fell into another: also a chain that fell silent is noticed, and replaced.
Recovers ==
    [](~overlapped) /\ <>[][~Connect /\ ~Disconnect]_vars =>
        []<>(Serving \/ wish = "down")
=============================================================================
