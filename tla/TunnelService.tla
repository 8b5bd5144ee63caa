--------------------------- MODULE TunnelService ---------------------------
(***************************************************************************)
(* What go/tun2socks/internal/daemon promises the app, without locks and   *)
(* Managers: every call takes effect once, at one instant between its      *)
(* beginning and its end, and the tunnel follows.  Only a Start makes it   *)
(* run, only with the config it brings; while it runs the device may go    *)
(* down, and comes up again for the config of that moment; and when it     *)
(* stops, or cannot be brought up again, the device is down.               *)
(***************************************************************************)
CONSTANTS Clients, Configs, NoConfig

VARIABLES
    state,      \* "idle", "running" or "error"
    config,     \* the config of a tunnel that runs
    device,     \* the config the device carries connections for, if it is up
    doing,      \* a client's call: "none", "start", "applied" (a start that took
                \* effect and is about to return), "rules" or "stop"
    brings      \* the config its Start brings

vars == <<state, config, device, doing, brings>>

Init ==
    /\ state = "idle"
    /\ config = NoConfig
    /\ device = NoConfig
    /\ doing = [c \in Clients |-> "none"]
    /\ brings = [c \in Clients |-> NoConfig]

Call(c, what) ==
    /\ doing[c] = "none"
    /\ doing' = [doing EXCEPT ![c] = what]
    /\ UNCHANGED <<state, config, device>>

CallStart(c, f) == Call(c, "start") /\ brings' = [brings EXCEPT ![c] = f]

CallOther(c) == (Call(c, "rules") \/ Call(c, "stop")) /\ UNCHANGED brings

Returns(c, what) ==
    /\ doing[c] = what
    /\ doing' = [doing EXCEPT ![c] = "none"]
    /\ brings' = [brings EXCEPT ![c] = NoConfig]

\* Refused, nothing to change, or changed already.
ChangesNothing(c) ==
    /\ Returns(c, doing[c])
    /\ doing[c] \in {"start", "applied", "rules"}
    /\ UNCHANGED <<state, config, device>>

\* A running tunnel takes the new config at once, also the part of it that
\* is up.
Applied(c) ==
    /\ state = "running"
    /\ doing[c] = "start"
    /\ doing' = [doing EXCEPT ![c] = "applied"]
    /\ config' = brings[c]
    /\ device' = IF device = NoConfig THEN NoConfig ELSE brings[c]
    /\ UNCHANGED <<state, brings>>

Started(c) ==
    /\ state # "running"
    /\ Returns(c, "start")
    /\ state' = "running"
    /\ config' = brings[c]
    /\ device' = brings[c]

FailedToStart(c) ==
    /\ state # "running"
    /\ Returns(c, "start")
    /\ state' = "error"
    /\ UNCHANGED <<config, device>>

\* Whoever takes it down does so before it is forgotten.
Stopped(c) ==
    /\ Returns(c, "stop")
    /\ device = NoConfig
    /\ state' = "idle"
    /\ config' = NoConfig
    /\ UNCHANGED device

GoesDown ==
    /\ state = "running"
    /\ device # NoConfig
    /\ device' = NoConfig
    /\ UNCHANGED <<state, config, doing, brings>>

ComesBack ==
    /\ state = "running"
    /\ device = NoConfig
    /\ device' = config
    /\ UNCHANGED <<state, config, doing, brings>>

Lost ==
    /\ state = "running"
    /\ device = NoConfig
    /\ state' = "error"
    /\ config' = NoConfig
    /\ UNCHANGED <<device, doing, brings>>

Next ==
    \/ \E c \in Clients :
        \/ \E f \in Configs : CallStart(c, f)
        \/ CallOther(c)
        \/ ChangesNothing(c) \/ Applied(c) \/ Started(c) \/ FailedToStart(c) \/ Stopped(c)
    \/ GoesDown \/ ComesBack \/ Lost

Spec == Init /\ [][Next]_vars
=============================================================================
