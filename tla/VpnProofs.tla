----------------------------- MODULE VpnProofs -----------------------------
(***************************************************************************)
(* The promises of Vpn, for any number of tasks, tunnels and chains.       *)
(*                                                                         *)
(* Whether or not calls overlap, no call leaves a connection to nobody, a  *)
(* listener gets its chain, and a disconnect is final.  While no connect   *)
(* or disconnect, the user's or the timer's, falls into another, a         *)
(* disconnect stops everything and nothing open is without an owner;       *)
(* rebuilds, probes and lost chains may fall into them all the same.       *)
(*                                                                         *)
(* All need to know which tunnel a suspended call may still find current:  *)
(* the port ties a rebuild and a close to the tunnel that listens, and a   *)
(* start's tunnel is current only while the user wants it.                 *)
(***************************************************************************)
EXTENDS Vpn, TLAPS

----------------------------------------------------------------------------
(* The inductive invariant. *)

\* A close has a tunnel whose port is still taken and that listens no more,
\* and there is one at a time.
Closes ==
    /\ \A k \in Tasks : pc[k] \in Closing =>
          of[k] \in Tunnels /\ of[k] = port /\ of[k] \notin listening
    /\ \A k, l \in Tasks : pc[k] \in Closing /\ pc[l] \in Closing => k = l

\* A start has a tunnel of its own, which does not have the port yet.  It is
\* the current one only while the user wants it.
Starts ==
    /\ \A k \in Tasks : pc[k] \in {"dialing", "binding"} =>
          /\ of[k] \in Tunnels
          /\ of[k] # port
          /\ of[k] = tunnel => ~userDisconnected
    /\ \A k, l \in Tasks :
          pc[k] \in {"dialing", "binding"} /\ pc[l] \in {"dialing", "binding"} /\ of[k] = of[l]
             => k = l

\* A rebuild whose tunnel is current has its port.
Rebuilds ==
    \A k \in Tasks : pc[k] = "rebuilding" =>
        of[k] \in Tunnels /\ (of[k] = tunnel => port = tunnel)

\* A disconnect that is still closing its tunnel, and nobody made another.
Stops ==
    \A k \in Tasks : pc[k] = "stopping" /\ of[k] = tunnel => userDisconnected

\* A chain lost while its tunnel waits for the port is due to be replaced.
LostBinding ==
    \A k \in Tasks : pc[k] = "binding" /\ of[k] = tunnel /\ chain[tunnel] = None => timer

\* NoOneForgets, with the rebuilds that count, and what a call that tears
\* down makes of it.
Attended ==
    status \in {"connecting", "reconnecting"} =>
        IF userDisconnected
        THEN At({"tearing"})
        ELSE \/ timer
             \/ At(InConnect)
             \/ \E k \in Tasks : pc[k] = "rebuilding" /\ of[k] = tunnel

Hands == Closes /\ Starts /\ Rebuilds /\ Stops
Promises == TimerMeansWanted /\ LostBinding /\ Attended /\ ListenerServed

IInv == TypeOK /\ Hands /\ Promises

----------------------------------------------------------------------------
(* What the choices choose. *)

LEMMA SomeTaskIdle ==
  ASSUME IdleTasks # {}
  PROVE  SomeTask \in Tasks /\ pc[SomeTask] = "idle"
  BY DEF SomeTask, IdleTasks

LEMMA Suspended ==
  ASSUME TypeOK, NEW k \in Tasks, NEW place, NEW t, Suspend(k, place, t)
  PROVE  \A l \in Tasks : /\ pc'[l] = IF l = k THEN place ELSE pc[l]
                          /\ of'[l] = IF l = k THEN t ELSE of[l]
  BY DEF Suspend, TypeOK

LEMMA NewTunnel ==
  ASSUME NEW k, NEW s, StartTunnel(k, s)
  PROVE  \E t \in FreeTunnels :
            /\ tunnel' = t
            /\ stopped' = s \ {t}
            /\ Suspend(k, "dialing", t)
            /\ userDisconnected' = FALSE
            /\ status' = "connecting"
  BY DEF StartTunnel

LEMMA NewChain ==
  ASSUME NEW t, SetChain(t)
  PROVE  \E c \in Chains \ open :
            /\ chain' = [chain EXCEPT ![t] = c]
            /\ open' = open \cup {c}
            /\ silent' = silent
  BY DEF SetChain, FreeChains

LEMMA Dropped ==
  ASSUME TypeOK, NEW ts, DropChains(ts)
  PROVE  /\ chain' \in [Tunnels -> Chains \cup {None}]
         /\ \A t \in Tunnels : chain'[t] = IF t \in ts THEN None ELSE chain[t]
         /\ open' \subseteq Chains
         /\ silent' \subseteq open'
  BY DEF DropChains, TypeOK

----------------------------------------------------------------------------
(* Types. *)

LEMMA TypeStep ==
  ASSUME TypeOK, Hands, [Next]_vars
  PROVE  TypeOK'
<1> USE VpnAssumption
<1>1. CASE UNCHANGED vars
  BY <1>1 DEF TypeOK, vars, controlVars, taskVars, tunnelVars, chainVars, userVars
<1>2. CASE Connect
  BY <1>2, SomeTaskIdle DEF Connect, Suspend, Begins, TypeOK, Places, InConnect, At,
     controlVars, tunnelVars, chainVars
<1>3. CASE Disconnect
  <2>1. CASE CloseListener(SomeTask, "stopping") /\ IdleTasks # {} /\ UNCHANGED <<chain, open, silent>>
    BY <1>3, <2>1, SomeTaskIdle DEF Disconnect, CloseListener, Suspend, Begins, StoppedNow,
       TypeOK, Places, InConnect, Statuses
  <2>2. CASE NothingListens /\ DropChains({tunnel}) /\ tunnel' = None /\ UNCHANGED taskVars
    BY <1>3, <2>2, Dropped DEF Disconnect, NothingListens, Begins, StoppedNow, TypeOK,
       taskVars, Statuses
  <2> QED
    BY <1>3, <2>1, <2>2 DEF Disconnect
<1>4. CASE TimerFires
  <2>1. PICK place \in {"rebuilding", "asking"}, t \in Tunnels \cup {None} :
          Suspend(SomeTask, place, t)
    BY <1>4 DEF TimerFires, TypeOK, IsRunning
  <2>2. of' \in [Tasks -> Tunnels \cup {None}] /\ pc' \in [Tasks -> Places]
    BY <1>4, <2>1, SomeTaskIdle DEF TimerFires, Suspend, TypeOK, Places, InConnect
  <2>3. /\ chain' \in [Tunnels -> Chains \cup {None}]
        /\ open' \subseteq Chains
        /\ silent' \subseteq open'
    BY <1>4, Dropped DEF TimerFires
  <2> QED
    BY <1>4, <2>2, <2>3 DEF TimerFires, Begins, StoppedNow, TypeOK, NothingListens
<1>5. CASE Heartbeat
  BY <1>5 DEF Heartbeat, CheckHealth, TypeOK, controlVars, taskVars, tunnelVars, userVars
<1>6. CASE Nudge
  BY <1>6 DEF Nudge, ScheduleReconnect, TypeOK, Statuses, taskVars, tunnelVars, chainVars, userVars
<1>7. ASSUME NEW k \in Tasks, TearDown(k)  PROVE TypeOK'
  <2>1. CASE CloseListener(k, "tearing") /\ stopped' = StoppedNow /\ userDisconnected' = TRUE
             /\ UNCHANGED <<status, chain, open, silent>>
    BY <1>7, <2>1 DEF TearDown, CloseListener, Suspend, StoppedNow, TypeOK, Places, InConnect,
       userVars
  <2>2. CASE NothingListens /\ DropChains({tunnel}) /\ StartTunnel(k, StoppedNow)
    <3>1. PICK t \in FreeTunnels : /\ tunnel' = t
                                    /\ stopped' = StoppedNow \ {t}
                                    /\ Suspend(k, "dialing", t)
                                    /\ userDisconnected' = FALSE
                                    /\ status' = "connecting"
      BY <2>2, NewTunnel
    <3>2. of' \in [Tasks -> Tunnels \cup {None}] /\ pc' \in [Tasks -> Places]
      BY <3>1 DEF Suspend, FreeTunnels, TypeOK, Places, InConnect
    <3>3. /\ chain' \in [Tunnels -> Chains \cup {None}]
          /\ open' \subseteq Chains
          /\ silent' \subseteq open'
      BY <2>2, Dropped
    <3> QED
      BY <1>7, <2>2, <3>1, <3>2, <3>3 DEF TearDown, NothingListens, StoppedNow,
         FreeTunnels, TypeOK, Statuses, userVars
  <2> QED
    BY <1>7, <2>1, <2>2 DEF TearDown
<1>8. ASSUME NEW k \in Tasks, Torn(k)  PROVE TypeOK'
  <2>1. PICK t \in FreeTunnels : /\ tunnel' = t
                                  /\ stopped' = stopped \ {t}
                                  /\ Suspend(k, "dialing", t)
                                  /\ userDisconnected' = FALSE
                                  /\ status' = "connecting"
    BY <1>8, NewTunnel DEF Torn
  <2>2. of' \in [Tasks -> Tunnels \cup {None}] /\ pc' \in [Tasks -> Places]
    BY <2>1 DEF Suspend, FreeTunnels, TypeOK, Places, InConnect
  <2>3. /\ chain' \in [Tunnels -> Chains \cup {None}]
        /\ open' \subseteq Chains
        /\ silent' \subseteq open'
    BY <1>8, Dropped DEF Torn, ListenerClosed
  <2>4. of[k] = port /\ listening = {} /\ port' = None /\ listening' = {}
    BY <1>8 DEF Torn, ListenerClosed, Hands, Closes, Closing, TypeOK
  <2> QED
    BY <1>8, <2>1, <2>2, <2>3, <2>4 DEF Torn, FreeTunnels, TypeOK, Statuses, userVars
<1>9. ASSUME NEW k \in Tasks, Dialed(k)  PROVE TypeOK'
  BY <1>9, NewChain DEF Dialed, Suspend, TypeOK, Places, InConnect, userVars, controlVars,
     Hands, Starts
<1>10. ASSUME NEW k \in Tasks, Bound(k)  PROVE TypeOK'
  BY <1>10 DEF Bound, Return, Suspend, TypeOK, Places, Statuses, userVars, chainVars,
     Hands, Starts
<1>11. ASSUME NEW k \in Tasks, StartFails(k)  PROVE TypeOK'
  <2>1. CASE CloseListener(k, "failing") /\ DropChains({of[k]}) /\ UNCHANGED <<status, timer>>
    BY <1>11, <2>1, Dropped DEF StartFails, CloseListener, Suspend, StoppedNow, TypeOK, Places,
       InConnect, userVars
  <2>2. CASE NothingListens /\ DropChains({of[k], tunnel}) /\ ConnectFailed(k)
    <3>1. status' \in Statuses
      BY <2>2 DEF ConnectFailed, ScheduleReconnect, TypeOK, Statuses
    <3>2. timer' \in BOOLEAN
      BY <2>2 DEF ConnectFailed, ScheduleReconnect, TypeOK
    <3>3. pc' \in [Tasks -> Places] /\ of' \in [Tasks -> Tunnels \cup {None}]
      BY <2>2 DEF ConnectFailed, Return, Suspend, TypeOK, Places
    <3> QED
      BY <1>11, <2>2, <3>1, <3>2, <3>3, Dropped DEF StartFails, NothingListens, ConnectFailed,
         StoppedNow, TypeOK, userVars
  <2> QED
    BY <1>11, <2>1, <2>2 DEF StartFails
<1>12. ASSUME NEW k \in Tasks, CleanedUp(k)  PROVE TypeOK'
  <2>1. of' \in [Tasks -> Tunnels \cup {None}] /\ pc' \in [Tasks -> Places]
    BY <1>12 DEF CleanedUp, ConnectFailed, Return, Suspend, TypeOK, Places
  <2>2. /\ chain' \in [Tunnels -> Chains \cup {None}]
        /\ open' \subseteq Chains
        /\ silent' \subseteq open'
    BY <1>12, Dropped DEF CleanedUp, ListenerClosed
  <2>3. of[k] = port /\ listening = {} /\ port' = None /\ listening' = {}
    BY <1>12 DEF CleanedUp, ListenerClosed, Hands, Closes, Closing, TypeOK
  <2> QED
    BY <1>12, <2>1, <2>2, <2>3 DEF CleanedUp, ConnectFailed, ScheduleReconnect, TypeOK,
       Statuses, userVars
<1>13. ASSUME NEW k \in Tasks, Disconnected(k)  PROVE TypeOK'
  BY <1>13, Dropped DEF Disconnected, ListenerClosed, Return, Suspend, TypeOK, Places,
     controlVars, userVars, Hands, Closes, Closing
<1>14. ASSUME NEW k \in Tasks, Rebuilt(k)  PROVE TypeOK'
  BY <1>14, NewChain DEF Rebuilt, Return, Suspend, TypeOK, Places, Statuses, userVars,
     Hands, Rebuilds
<1>15. ASSUME NEW k \in Tasks, RebuildFails(k)  PROVE TypeOK'
  BY <1>15 DEF RebuildFails, ScheduleReconnect, Return, Suspend, TypeOK, Places, Statuses,
     userVars, tunnelVars, chainVars
<1>16. ASSUME NEW c \in Chains, HangsUp(c)  PROVE TypeOK'
  BY <1>16 DEF HangsUp, MarkLost, ScheduleReconnect, TypeOK, Statuses, userVars, taskVars
<1>17. ASSUME NEW c \in Chains, FallsSilent(c)  PROVE TypeOK'
  BY <1>17 DEF FallsSilent, TypeOK, controlVars, userVars, taskVars, tunnelVars
<1>18. ASSUME NEW t \in Tunnels, Request(t)  PROVE TypeOK'
  BY <1>18 DEF Request, CheckHealth, TypeOK, controlVars, userVars, taskVars, tunnelVars
<1>19. ASSUME NEW t \in Tunnels, ProbeAnswered(t)  PROVE TypeOK'
  BY <1>19 DEF ProbeAnswered, TypeOK, controlVars, userVars, taskVars, tunnelVars
<1>20. ASSUME NEW t \in Tunnels, ProbeTimesOut(t)  PROVE TypeOK'
  BY <1>20 DEF ProbeTimesOut, MarkLost, ScheduleReconnect, TypeOK, Statuses, userVars, taskVars
<1> QED
  BY <1>1, <1>2, <1>3, <1>4, <1>5, <1>6, <1>7, <1>8, <1>9, <1>10, <1>11, <1>12, <1>13, <1>14,
     <1>15, <1>16, <1>17, <1>18, <1>19, <1>20 DEF Next, TaskNext

----------------------------------------------------------------------------
(* The tunnels that suspended calls have in hand. *)

\* Who closes a listener is alone: there is one port.
LEMMA CloserAlone ==
  ASSUME TypeOK, Hands, NEW k \in Tasks, pc[k] \notin Closing,
         NEW place \in Closing, CloseListener(k, place),
         port' = port,
         userDisconnected' = userDisconnected \/ userDisconnected' = TRUE
  PROVE  (place = "stopping" => userDisconnected') => Hands'
<1> USE VpnAssumption DEF Closing
<1>1. tunnel = port /\ listening = {port} /\ port \in Tunnels
  BY DEF CloseListener, TypeOK
<1>2. /\ tunnel' = tunnel
      /\ listening' = {}
      /\ \A l \in Tasks : /\ pc'[l] = IF l = k THEN place ELSE pc[l]
                          /\ of'[l] = IF l = k THEN tunnel ELSE of[l]
  BY <1>1, Suspended DEF CloseListener
<1>3. \A l \in Tasks : pc[l] \notin Closing
  BY <1>1 DEF Hands, Closes
<1>4. Closes'
  BY <1>1, <1>2, <1>3 DEF Closes
<1>5. Starts'
  BY <1>1, <1>2, <1>3 DEF Hands, Starts
<1>6. Rebuilds'
  BY <1>1, <1>2, <1>3 DEF Hands, Rebuilds
<1>7. (place = "stopping" => userDisconnected') => Stops'
  BY <1>1, <1>2, <1>3 DEF Stops
<1> QED
  BY <1>4, <1>5, <1>6, <1>7 DEF Hands

\* A tunnel that is new is in nobody's hands.
LEMMA NewInHands ==
  ASSUME TypeOK, Hands, NEW k \in Tasks, NEW s, StartTunnel(k, s),
         listening' = listening,
         \/ port' = port /\ pc[k] = "asking"
         \/ port' = None /\ pc[k] \in Closing
  PROVE  Hands'
<1> USE VpnAssumption DEF Closing
<1>1. PICK t \in FreeTunnels : /\ tunnel' = t
                               /\ Suspend(k, "dialing", t)
                               /\ userDisconnected' = FALSE
  BY NewTunnel
<1>2. \A l \in Tasks : /\ pc'[l] = IF l = k THEN "dialing" ELSE pc[l]
                       /\ of'[l] = IF l = k THEN t ELSE of[l]
  BY <1>1, Suspended
<1>3. t \in Tunnels /\ t \notin {tunnel, port} /\ \A l \in Tasks : of[l] # t
  BY DEF FreeTunnels
<1>4. Closes'
  BY <1>2, <1>3 DEF Hands, Closes
<1>5. Starts'
  BY <1>1, <1>2, <1>3 DEF Hands, Starts
<1>6. Rebuilds'
  BY <1>1, <1>2, <1>3 DEF Hands, Rebuilds
<1>7. Stops'
  BY <1>1, <1>2, <1>3 DEF Stops
<1> QED
  BY <1>4, <1>5, <1>6, <1>7 DEF Hands

\* No tunnel is in new hands: a task goes on with the tunnel it has, or with
\* none.
LEMMA HandsOff ==
  ASSUME TypeOK, Hands, NEW k \in Tasks, NEW place, NEW t,
         Suspend(k, place, t),
         place \in {"idle", "asking"},
         tunnel' \in {tunnel, None},
         listening' = listening,
         userDisconnected' = userDisconnected,
         \/ port' = port
         \/ port' = None /\ pc[k] \in Closing /\ tunnel' = None
  PROVE  Hands'
<1> USE VpnAssumption DEF Closing
<1>2. \A l \in Tasks : /\ pc'[l] = IF l = k THEN place ELSE pc[l]
                       /\ of'[l] = IF l = k THEN t ELSE of[l]
  BY Suspended
<1>4. Closes'
  BY <1>2 DEF Hands, Closes
<1>5. Starts'
  BY <1>2 DEF Hands, Starts
<1>6. Rebuilds'
  BY <1>2 DEF Hands, Rebuilds
<1>7. Stops'
  BY <1>2 DEF Hands, Stops, Closes
<1> QED
  BY <1>4, <1>5, <1>6, <1>7 DEF Hands

LEMMA HandsStep ==
  ASSUME TypeOK, Hands, [Next]_vars
  PROVE  Hands'
<1> USE VpnAssumption
<1>1. ASSUME UNCHANGED <<userDisconnected, tunnel, taskVars, listening, port>>  PROVE Hands'
  BY <1>1 DEF Hands, Closes, Starts, Rebuilds, Stops, taskVars
<1>2. CASE UNCHANGED vars \/ Heartbeat \/ Nudge
  BY <1>1, <1>2 DEF vars, controlVars, tunnelVars, Heartbeat, CheckHealth, Nudge
<1>3. CASE Connect
  BY <1>3, HandsOff, SomeTaskIdle DEF Connect, controlVars, tunnelVars
<1>4. CASE Disconnect
  <2>1. CASE IdleTasks # {} /\ CloseListener(SomeTask, "stopping")
    BY <1>4, <2>1, CloserAlone, SomeTaskIdle DEF Disconnect, Closing
  <2>2. CASE NothingListens /\ tunnel' = None /\ UNCHANGED taskVars
    BY <1>4, <2>2 DEF Disconnect, NothingListens, taskVars, Hands, Closes, Starts, Rebuilds,
       Stops, Closing
  <2> QED
    BY <1>4, <2>1, <2>2 DEF Disconnect
<1>5. CASE TimerFires
  <2>1. CASE IsRunning(tunnel) /\ Suspend(SomeTask, "rebuilding", tunnel) /\ tunnel' = tunnel
    <3>1. tunnel \in Tunnels /\ tunnel = port
      BY <2>1 DEF IsRunning, TypeOK
    <3>2. \A l \in Tasks : /\ pc'[l] = IF l = SomeTask THEN "rebuilding" ELSE pc[l]
                           /\ of'[l] = IF l = SomeTask THEN tunnel ELSE of[l]
      BY <1>5, <2>1, Suspended, SomeTaskIdle DEF TimerFires
    <3> QED
      BY <1>5, <2>1, <3>1, <3>2 DEF TimerFires, Hands, Closes, Starts, Rebuilds, Stops, Closing
  <2>2. CASE Suspend(SomeTask, "asking", None) /\ tunnel' = None
    BY <1>5, <2>2, HandsOff, SomeTaskIdle DEF TimerFires
  <2> QED
    BY <1>5, <2>1, <2>2 DEF TimerFires
<1>6. ASSUME NEW k \in Tasks, TearDown(k)  PROVE Hands'
  <2>1. CASE CloseListener(k, "tearing") /\ userDisconnected' = TRUE
    BY <1>6, <2>1, CloserAlone DEF TearDown, Closing
  <2>2. CASE NothingListens /\ StartTunnel(k, StoppedNow)
    BY <1>6, <2>2, NewInHands DEF TearDown, NothingListens
  <2> QED
    BY <1>6, <2>1, <2>2 DEF TearDown
<1>7. ASSUME NEW k \in Tasks, Torn(k)  PROVE Hands'
  <2>1. port' = None
    BY <1>7 DEF Torn, ListenerClosed, Hands, Closes, Closing
  <2> QED
    BY <1>7, <2>1, NewInHands DEF Torn, ListenerClosed, Closing
<1>8. ASSUME NEW k \in Tasks, Dialed(k)  PROVE Hands'
  <2>1. \A l \in Tasks : /\ pc'[l] = IF l = k THEN "binding" ELSE pc[l]
                         /\ of'[l] = of[l]
    BY <1>8, Suspended DEF Dialed
  <2> QED
    BY <1>8, <2>1 DEF Dialed, controlVars, Hands, Closes, Starts, Rebuilds, Stops, Closing
<1>9. ASSUME NEW k \in Tasks, Bound(k)  PROVE Hands'
  <2>1. \A l \in Tasks : /\ pc'[l] = IF l = k THEN "idle" ELSE pc[l]
                         /\ of'[l] = IF l = k THEN None ELSE of[l]
    BY <1>9, Suspended DEF Bound, Return
  <2>2. \A l \in Tasks : pc[l] \notin Closing
    BY <1>9 DEF Bound, Hands, Closes
  <2>3. \A l \in Tasks : pc[l] = "rebuilding" => of[l] # tunnel
    BY <1>9 DEF Bound, Hands, Rebuilds
  <2> QED
    BY <1>9, <2>1, <2>2, <2>3 DEF Bound, Hands, Closes, Starts, Rebuilds, Stops, Closing
<1>10. ASSUME NEW k \in Tasks, StartFails(k)  PROVE Hands'
  <2>1. CASE CloseListener(k, "failing")
    BY <1>10, <2>1, CloserAlone DEF StartFails, Closing
  <2>2. CASE NothingListens /\ ConnectFailed(k)
    BY <1>10, <2>2, HandsOff DEF StartFails, NothingListens, ConnectFailed, Return
  <2> QED
    BY <1>10, <2>1, <2>2 DEF StartFails
<1>11. ASSUME NEW k \in Tasks, CleanedUp(k) \/ Disconnected(k)  PROVE Hands'
  <2>1. port' = None
    BY <1>11 DEF CleanedUp, Disconnected, ListenerClosed, Hands, Closes, Closing
  <2> QED
    BY <1>11, <2>1, HandsOff DEF CleanedUp, Disconnected, ListenerClosed, ConnectFailed,
       Return, Closing, controlVars
<1>12. ASSUME NEW k \in Tasks, Rebuilt(k) \/ RebuildFails(k)  PROVE Hands'
  BY <1>12, HandsOff DEF Rebuilt, RebuildFails, Return, tunnelVars
<1>13. ASSUME NEW c \in Chains, HangsUp(c) \/ FallsSilent(c)  PROVE Hands'
  BY <1>1, <1>13 DEF HangsUp, FallsSilent, controlVars, tunnelVars
<1>14. ASSUME NEW t \in Tunnels, Request(t) \/ ProbeAnswered(t) \/ ProbeTimesOut(t)
       PROVE Hands'
  BY <1>1, <1>14 DEF Request, CheckHealth, ProbeAnswered, ProbeTimesOut, controlVars, tunnelVars
<1> QED
  BY <1>2, <1>3, <1>4, <1>5, <1>6, <1>7, <1>8, <1>9, <1>10, <1>11, <1>12, <1>13, <1>14
     DEF Next, TaskNext

----------------------------------------------------------------------------
(* The promises. *)

\* While a call closes the listener of the current tunnel, no start has it.
LEMMA CloserPromises ==
  ASSUME TypeOK, Hands, Promises, NEW k \in Tasks, pc[k] \notin Closing,
         NEW place \in {"tearing", "failing"}, CloseListener(k, place),
         place = "tearing" => userDisconnected' = TRUE /\ timer' = FALSE,
         place = "failing" => UNCHANGED <<status, userDisconnected, timer>>,
         pc[k] # "tearing"
  PROVE  Promises'
<1> USE VpnAssumption DEF Closing, InConnect
<1>1. tunnel = port /\ port \in Tunnels /\ listening = {port}
  BY DEF CloseListener, TypeOK
<1>2. /\ tunnel' = tunnel
      /\ listening' = {}
      /\ \A l \in Tasks : /\ pc'[l] = IF l = k THEN place ELSE pc[l]
                          /\ of'[l] = IF l = k THEN tunnel ELSE of[l]
  BY <1>1, Suspended DEF CloseListener
<1>3. TimerMeansWanted'
  BY DEF Promises, TimerMeansWanted
<1>4. LostBinding'
  BY <1>1, <1>2 DEF LostBinding, Hands, Starts
<1>5. Attended'
  BY <1>2 DEF Promises, Attended, At
<1>6. ListenerServed'
  BY <1>2 DEF ListenerServed
<1> QED
  BY <1>3, <1>4, <1>5, <1>6 DEF Promises

\* A new tunnel is wanted, and on its way.
LEMMA NewPromises ==
  ASSUME TypeOK, Hands, NEW k \in Tasks, NEW s, StartTunnel(k, s)
  PROVE  Promises'
<1> USE VpnAssumption DEF InConnect
<1>1. PICK t \in FreeTunnels : /\ tunnel' = t
                               /\ Suspend(k, "dialing", t)
                               /\ userDisconnected' = FALSE
  BY NewTunnel
<1>2. \A l \in Tasks : /\ pc'[l] = IF l = k THEN "dialing" ELSE pc[l]
                       /\ of'[l] = IF l = k THEN t ELSE of[l]
  BY <1>1, Suspended
<1>3. TimerMeansWanted'
  BY <1>1 DEF TimerMeansWanted
<1>4. LostBinding'
  BY <1>1, <1>2 DEF LostBinding, FreeTunnels
<1>5. Attended' /\ ListenerServed'
  BY <1>1, <1>2 DEF Attended, ListenerServed, At
<1> QED
  BY <1>3, <1>4, <1>5 DEF Promises

\* A connect that fails gives up or sets the timer.
LEMMA FailedPromises ==
  ASSUME TypeOK, Hands, Promises, NEW k \in Tasks, pc[k] # "tearing",
         ConnectFailed(k), userDisconnected' = userDisconnected,
         listening' \subseteq Tunnels
  PROVE  Promises'
<1> USE VpnAssumption DEF InConnect
<1>1. /\ tunnel' = None
      /\ \A l \in Tasks : /\ pc'[l] = IF l = k THEN "idle" ELSE pc[l]
                          /\ of'[l] = IF l = k THEN None ELSE of[l]
  BY Suspended DEF ConnectFailed, Return
<1>2. TimerMeansWanted'
  BY DEF ConnectFailed, ScheduleReconnect, Promises, TimerMeansWanted
<1>3. LostBinding' /\ ListenerServed'
  BY <1>1 DEF LostBinding, ListenerServed, Hands, Starts
<1>4. Attended'
  BY DEF Attended, ConnectFailed, ScheduleReconnect
<1> QED
  BY <1>2, <1>3, <1>4 DEF Promises

\* The loss of a chain sets the timer where it matters.
LEMMA LostPromises ==
  ASSUME TypeOK, Hands, Promises, NEW c \in Chains, MarkLost(c),
         UNCHANGED <<userDisconnected, taskVars, tunnel, listening>>
  PROVE  Promises'
<1> USE VpnAssumption DEF InConnect, taskVars
<1>1. \A t \in Tunnels : chain'[t] = IF chain[t] = c THEN None ELSE chain[t]
  BY DEF MarkLost
<1>2. CASE ~userDisconnected /\ \E t \in Tunnels : chain[t] = c
  BY <1>2 DEF MarkLost, ScheduleReconnect, Promises, TimerMeansWanted, LostBinding, Attended,
     ListenerServed
<1>3. CASE userDisconnected
  <2>1. UNCHANGED <<status, timer>>
    BY <1>3 DEF MarkLost, ScheduleReconnect
  <2> QED
    BY <1>3, <2>1 DEF Promises, TimerMeansWanted, LostBinding, Attended, ListenerServed, At,
       Hands, Starts
<1>4. CASE ~\E t \in Tunnels : chain[t] = c
  <2>1. UNCHANGED <<status, timer>> /\ \A t \in Tunnels : chain'[t] = chain[t]
    BY <1>1, <1>4 DEF MarkLost
  <2> QED
    BY <2>1 DEF Promises, TimerMeansWanted, LostBinding, Attended, ListenerServed, At,
       Hands, Starts, TypeOK
<1> QED
  BY <1>2, <1>3, <1>4

LEMMA PromisesStep ==
  ASSUME TypeOK, Hands, Promises, [Next]_vars
  PROVE  Promises'
<1> USE VpnAssumption
<1>1. ASSUME UNCHANGED <<controlVars, tunnel, taskVars, listening, chain>>  PROVE Promises'
  BY <1>1 DEF controlVars, taskVars, Promises, TimerMeansWanted, LostBinding, Attended,
     ListenerServed, At
<1>2. CASE UNCHANGED vars \/ Heartbeat
  BY <1>1, <1>2 DEF vars, tunnelVars, Heartbeat, CheckHealth
<1>3. CASE Nudge
  BY <1>3 DEF Nudge, ScheduleReconnect, taskVars, tunnelVars, Promises, TimerMeansWanted,
     LostBinding, Attended, ListenerServed, At
<1>4. CASE Connect
  <2>1. \A l \in Tasks : /\ pc'[l] = IF l = SomeTask THEN "asking" ELSE pc[l]
                         /\ of'[l] = IF l = SomeTask THEN None ELSE of[l]
    BY <1>4, Suspended, SomeTaskIdle DEF Connect
  <2>2. TimerMeansWanted' /\ LostBinding'
    BY <1>4, <2>1 DEF Connect, controlVars, tunnelVars, Promises, TimerMeansWanted, LostBinding
  <2>3. Attended' /\ ListenerServed'
    BY <1>4, <2>1, SomeTaskIdle DEF Connect, controlVars, Promises, Attended, ListenerServed,
       At, InConnect
  <2> QED
    BY <2>2, <2>3 DEF Promises
<1>5. CASE Disconnect
  <2>1. TimerMeansWanted' /\ Attended' /\ ListenerServed'
    BY <1>5 DEF Disconnect, TimerMeansWanted, Attended, ListenerServed
  <2>2. CASE IdleTasks # {} /\ CloseListener(SomeTask, "stopping")
    <3>1. /\ tunnel' = tunnel
          /\ tunnel = port
          /\ \A l \in Tasks : /\ pc'[l] = IF l = SomeTask THEN "stopping" ELSE pc[l]
                              /\ of'[l] = IF l = SomeTask THEN tunnel ELSE of[l]
      BY <2>2, Suspended, SomeTaskIdle DEF CloseListener, TypeOK
    <3>2. LostBinding'
      BY <3>1 DEF LostBinding, Hands, Starts
    <3> QED
      BY <2>1, <3>2 DEF Promises
  <2>3. CASE tunnel' = None /\ UNCHANGED taskVars
    BY <2>1, <2>3 DEF Promises, LostBinding, taskVars, Hands, Starts
  <2> QED
    BY <1>5, <2>2, <2>3 DEF Disconnect
<1>6. CASE TimerFires
  <2>1. userDisconnected' = FALSE
    BY <1>6 DEF TimerFires, Promises, TimerMeansWanted, TypeOK
  <2>2. CASE IsRunning(tunnel) /\ Suspend(SomeTask, "rebuilding", tunnel) /\ tunnel' = tunnel
    <3>1. tunnel = port
      BY <2>2 DEF IsRunning, TypeOK
    <3>2. \A l \in Tasks : /\ pc'[l] = IF l = SomeTask THEN "rebuilding" ELSE pc[l]
                           /\ of'[l] = IF l = SomeTask THEN tunnel ELSE of[l]
      BY <1>6, <2>2, Suspended, SomeTaskIdle DEF TimerFires
    <3>3. LostBinding'
      BY <2>2, <3>1, <3>2 DEF LostBinding, Hands, Starts
    <3> QED
      BY <1>6, <2>1, <2>2, <3>2, <3>3, SomeTaskIdle DEF TimerFires, Promises,
         TimerMeansWanted, Attended, ListenerServed
  <2>3. CASE Suspend(SomeTask, "asking", None) /\ tunnel' = None
    <3>1. \A l \in Tasks : /\ pc'[l] = IF l = SomeTask THEN "asking" ELSE pc[l]
                           /\ of'[l] = IF l = SomeTask THEN None ELSE of[l]
      BY <1>6, <2>3, Suspended, SomeTaskIdle DEF TimerFires
    <3>2. LostBinding'
      BY <2>3, <3>1 DEF LostBinding, Hands, Starts
    <3> QED
      BY <1>6, <2>1, <3>1, <3>2, SomeTaskIdle DEF TimerFires, Promises, TimerMeansWanted,
         Attended, ListenerServed, At, InConnect
  <2> QED
    BY <1>6, <2>2, <2>3 DEF TimerFires
<1>7. ASSUME NEW k \in Tasks, TearDown(k)  PROVE Promises'
  <2>1. CASE CloseListener(k, "tearing") /\ userDisconnected' = TRUE
    BY <1>7, <2>1, CloserPromises DEF TearDown, Closing
  <2>2. CASE StartTunnel(k, StoppedNow)
    BY <2>2, NewPromises
  <2> QED
    BY <1>7, <2>1, <2>2 DEF TearDown
<1>8. ASSUME NEW k \in Tasks, Torn(k)  PROVE Promises'
  BY <1>8, NewPromises DEF Torn
<1>9. ASSUME NEW k \in Tasks, Dialed(k)  PROVE Promises'
  <2>1. \A l \in Tasks : /\ pc'[l] = IF l = k THEN "binding" ELSE pc[l]
                         /\ of'[l] = of[l]
    BY <1>9, Suspended DEF Dialed
  <2>2. PICK c \in Chains : chain' = [chain EXCEPT ![of[k]] = c]
    BY <1>9, NewChain DEF Dialed
  <2>3. of[k] \in Tunnels
    BY <1>9 DEF Dialed, Hands, Starts
  <2>4. \A t \in Tunnels : chain'[t] = IF t = of[k] THEN c ELSE chain[t]
    BY <2>2, <2>3 DEF TypeOK
  <2>5. LostBinding'
    BY <1>9, <2>1, <2>3, <2>4 DEF Dialed, controlVars, Promises, LostBinding, Hands, Starts
  <2>6. TimerMeansWanted' /\ Attended' /\ ListenerServed'
    BY <1>9, <2>1 DEF Dialed, controlVars, Promises, TimerMeansWanted, Attended,
       ListenerServed, At, InConnect
  <2> QED
    BY <2>5, <2>6 DEF Promises
<1>10. ASSUME NEW k \in Tasks, Bound(k)  PROVE Promises'
  <2>1. \A l \in Tasks : /\ pc'[l] = IF l = k THEN "idle" ELSE pc[l]
                         /\ of'[l] = IF l = k THEN None ELSE of[l]
    BY <1>10, Suspended DEF Bound, Return
  <2>2. TimerMeansWanted' /\ LostBinding' /\ Attended'
    BY <1>10, <2>1 DEF Bound, Promises, TimerMeansWanted, LostBinding, Attended
  <2>3. tunnel \in listening' => tunnel = of[k]
    BY <1>10 DEF Bound, TypeOK
  <2>4. ListenerServed'
    BY <1>10, <2>3 DEF Bound, ListenerServed, Promises, LostBinding
  <2> QED
    BY <2>2, <2>4 DEF Promises
<1>11. ASSUME NEW k \in Tasks, StartFails(k)  PROVE Promises'
  <2>1. CASE CloseListener(k, "failing") /\ UNCHANGED <<status, timer>>
    BY <1>11, <2>1, CloserPromises DEF StartFails, Closing
  <2>2. CASE NothingListens /\ ConnectFailed(k)
    BY <1>11, <2>2, FailedPromises DEF StartFails, NothingListens, TypeOK
  <2> QED
    BY <1>11, <2>1, <2>2 DEF StartFails
<1>12. ASSUME NEW k \in Tasks, CleanedUp(k)  PROVE Promises'
  BY <1>12, FailedPromises DEF CleanedUp, ListenerClosed, TypeOK
<1>13. ASSUME NEW k \in Tasks, Disconnected(k)  PROVE Promises'
  <2>1. /\ tunnel' = None
        /\ \A l \in Tasks : /\ pc'[l] = IF l = k THEN "idle" ELSE pc[l]
                            /\ of'[l] = IF l = k THEN None ELSE of[l]
    BY <1>13, Suspended DEF Disconnected, Return
  <2>2. TimerMeansWanted' /\ LostBinding' /\ ListenerServed'
    BY <1>13, <2>1 DEF Disconnected, ListenerClosed, controlVars, Promises, TimerMeansWanted,
       LostBinding, ListenerServed, Hands, Starts, TypeOK
  <2>3. ASSUME ~userDisconnected, NEW l \in Tasks, pc[l] = "rebuilding", of[l] = tunnel
        PROVE  FALSE
    BY <1>13, <2>3 DEF Disconnected, Hands, Closes, Closing, Rebuilds, Stops
  <2>4. Attended'
    BY <1>13, <2>1, <2>3 DEF Disconnected, controlVars, Promises, Attended, At, InConnect
  <2> QED
    BY <2>2, <2>4 DEF Promises
<1>14. ASSUME NEW k \in Tasks, Rebuilt(k)  PROVE Promises'
  <2>1. \A l \in Tasks : /\ pc'[l] = IF l = k THEN "idle" ELSE pc[l]
                         /\ of'[l] = IF l = k THEN None ELSE of[l]
    BY <1>14, Suspended DEF Rebuilt, Return
  <2>2. of[k] \in Tunnels
    BY <1>14 DEF Rebuilt, Hands, Rebuilds
  <2>3. PICK c \in Chains : \A t \in Tunnels : chain'[t] = IF t = of[k] THEN c ELSE chain[t]
    BY <1>14, <2>2, NewChain DEF Rebuilt, TypeOK
  <2>4. TimerMeansWanted' /\ LostBinding'
    BY <1>14, <2>1, <2>3 DEF Rebuilt, Promises, TimerMeansWanted, LostBinding, Hands, Starts
  <2>5. Attended'
    BY <1>14, <2>1 DEF Rebuilt, Stale, Promises, Attended, At, InConnect
  <2>6. ListenerServed'
    BY <1>14, <2>1, <2>2, <2>3 DEF Rebuilt, Promises, ListenerServed, At, InConnect, TypeOK
  <2> QED
    BY <2>4, <2>5, <2>6 DEF Promises
<1>15. ASSUME NEW k \in Tasks, RebuildFails(k)  PROVE Promises'
  <2>1. \A l \in Tasks : /\ pc'[l] = IF l = k THEN "idle" ELSE pc[l]
                         /\ of'[l] = IF l = k THEN None ELSE of[l]
    BY <1>15, Suspended DEF RebuildFails, Return
  <2>2. TimerMeansWanted' /\ LostBinding'
    BY <1>15, <2>1 DEF RebuildFails, ScheduleReconnect, tunnelVars, Promises,
       TimerMeansWanted, LostBinding
  <2>3. Attended' /\ ListenerServed'
    BY <1>15, <2>1 DEF RebuildFails, ScheduleReconnect, Stale, tunnelVars, Promises,
       Attended, ListenerServed, At, InConnect
  <2> QED
    BY <2>2, <2>3 DEF Promises
<1>16. ASSUME NEW c \in Chains, HangsUp(c)  PROVE Promises'
  BY <1>16, LostPromises DEF HangsUp
<1>17. ASSUME NEW c \in Chains, FallsSilent(c)  PROVE Promises'
  BY <1>1, <1>17 DEF FallsSilent, tunnelVars
<1>18. ASSUME NEW t \in Tunnels, Request(t) \/ ProbeAnswered(t)  PROVE Promises'
  BY <1>1, <1>18 DEF Request, CheckHealth, ProbeAnswered, tunnelVars
<1>19. ASSUME NEW t \in Tunnels, ProbeTimesOut(t)  PROVE Promises'
  <2>1. probe[t] \in Chains
    BY <1>19 DEF ProbeTimesOut, TypeOK
  <2> QED
    BY <1>19, <2>1, LostPromises DEF ProbeTimesOut
<1> QED
  BY <1>2, <1>3, <1>4, <1>5, <1>6, <1>7, <1>8, <1>9, <1>10, <1>11, <1>12, <1>13, <1>14,
     <1>15, <1>16, <1>17, <1>18, <1>19 DEF Next, TaskNext

----------------------------------------------------------------------------
(* Connects and disconnects that do not overlap: one that the timer makes  *)
(* is a call like the user's, and a disconnect during it an overlap.       *)

Calls == InConnect \cup {"stopping"}

OneCall == \A k, l \in Tasks : pc[k] \in Calls /\ pc[l] \in Calls => k = l

\* Between calls, and while connect asks for the helper, a tunnel runs or there
\* is none.
Standing ==
    ~At(Calls \ {"asking"}) =>
        IF tunnel = None THEN port = None ELSE port = tunnel /\ IsRunning(tunnel)

\* What a call has in hand is the current tunnel.
InCall ==
    \A k \in Tasks :
        /\ pc[k] \in {"tearing", "stopping"} =>
              of[k] = tunnel /\ tunnel \in stopped /\ userDisconnected
        /\ pc[k] \in {"dialing", "binding"} =>
              of[k] = tunnel /\ tunnel \notin stopped /\ port = None
        /\ pc[k] = "dialing" => chain[tunnel] = None
        /\ pc[k] # "failing"

\* A rebuild is of the current tunnel, which has no chain and waits for no timer,
\* or is refused when it ends.
Replacing ==
    /\ \A k \in Tasks : pc[k] = "rebuilding" =>
          IF of[k] = tunnel THEN chain[tunnel] = None /\ ~timer ELSE of[k] \in stopped
    /\ \A k, l \in Tasks :
          pc[k] = "rebuilding" /\ pc[l] = "rebuilding" /\ of[k] = tunnel /\ of[l] = tunnel => k = l

\* A chain is the current tunnel's, and open until that forgets it.
Chained ==
    /\ \A t \in Tunnels : chain[t] # None => t = tunnel /\ chain[t] \in open
    /\ \A c \in open : tunnel # None /\ chain[tunnel] = c

\* Whoever does not want the tunnel has none, or is closing it, and nothing is
\* under way that could make one.
Down ==
    wish = "down" =>
        /\ ~timer
        /\ ~monitors
        /\ ~At(InConnect)
        /\ tunnel # None => userDisconnected /\ At({"stopping"})

InTurn == OneCall /\ Standing /\ InCall /\ Replacing /\ Chained /\ Down

Serial == ~overlapped => InTurn

\* What no conjunct looks at may change.
LEMMA TurnIdle ==
  ASSUME InTurn,
         UNCHANGED <<timer, monitors, userDisconnected, tunnel, taskVars, listening, stopped,
                     port, chain, open, wish>>
  PROVE  InTurn'
<1>1. OneCall' /\ Standing' /\ Down'
  BY DEF InTurn, OneCall, Standing, Down, At, IsRunning, taskVars
<1>2. InCall' /\ Replacing'
  BY DEF InTurn, InCall, Replacing, taskVars
<1>3. Chained'
  BY DEF InTurn, Chained
<1> QED
  BY <1>1, <1>2, <1>3 DEF InTurn

\* The tunnel that forgets a chain is the current one, and it has no rebuild yet.
LEMMA TurnLost ==
  ASSUME TypeOK, Hands, InTurn, NEW c \in Chains, MarkLost(c),
         UNCHANGED <<monitors, userDisconnected, tunnel, taskVars, listening, stopped, port, wish>>
  PROVE  InTurn'
<1> USE VpnAssumption DEF taskVars
<1>1. \A t \in Tunnels : chain'[t] = IF chain[t] = c THEN None ELSE chain[t]
  BY DEF MarkLost
<1>2. open' = open \ {c}
  BY DEF MarkLost
<1>3. \A t \in Tunnels : chain[t] = c => t = tunnel
  BY DEF InTurn, Chained
<1>4. timer' = timer \/ (tunnel \in Tunnels /\ chain[tunnel] = c /\ ~userDisconnected /\ timer')
  BY <1>3 DEF MarkLost, ScheduleReconnect
<1>5. OneCall' /\ Standing'
  BY DEF InTurn, OneCall, Standing, At, IsRunning
<1>6. InCall'
  BY <1>1 DEF InTurn, InCall, TypeOK, Hands, Starts
<1>7. Replacing'
  BY <1>1, <1>4 DEF InTurn, Replacing, TypeOK, Hands, Rebuilds
<1>8. Chained'
  BY <1>1, <1>2 DEF InTurn, Chained, TypeOK
<1>9. Down'
  BY <1>4 DEF InTurn, Down, At
<1> QED
  BY <1>5, <1>6, <1>7, <1>8, <1>9 DEF InTurn

\* A new tunnel after one that is gone: the old one's rebuild will be refused.
LEMMA TurnStart ==
  ASSUME TypeOK, Hands, InTurn, NEW k \in Tasks, pc[k] \in {"asking", "tearing"},
         NEW s, StartTunnel(k, s), DropChains({tunnel}),
         stopped \subseteq s, tunnel # None => tunnel \in s,
         listening' = listening, port' = None, wish' = wish
  PROVE  InTurn'
<1> USE VpnAssumption
<1>1. PICK t \in FreeTunnels : /\ tunnel' = t
                               /\ stopped' = s \ {t}
                               /\ Suspend(k, "dialing", t)
                               /\ userDisconnected' = FALSE
  BY NewTunnel
<1>2. \A l \in Tasks : /\ pc'[l] = IF l = k THEN "dialing" ELSE pc[l]
                       /\ of'[l] = IF l = k THEN t ELSE of[l]
  BY <1>1, Suspended
<1>3. /\ t \in Tunnels /\ t # None /\ t # tunnel /\ chain[t] = None
      /\ \A l \in Tasks : of[l] # t
  BY DEF FreeTunnels
<1>4. \A u \in Tunnels : chain'[u] = None
  BY Dropped DEF InTurn, Chained
<1>5. open' = {}
  BY DEF DropChains, InTurn, Chained, TypeOK
<1>6. \A l \in Tasks : l # k => pc[l] \notin Calls
  BY DEF InTurn, OneCall, Calls, InConnect
<1>7. OneCall'
  BY <1>2, <1>6 DEF OneCall
<1>8. Standing'
  BY <1>2 DEF Standing, At, Calls, InConnect
<1>9. InCall'
  BY <1>1, <1>2, <1>3, <1>4, <1>6 DEF InCall, Calls, InConnect
<1>10. Replacing'
  BY <1>1, <1>2, <1>3 DEF InTurn, Replacing, Hands, Rebuilds
<1>11. Chained'
  BY <1>4, <1>5 DEF Chained
<1>12. Down'
  BY DEF InTurn, Down, At, InConnect
<1> QED
  BY <1>7, <1>8, <1>9, <1>10, <1>11, <1>12 DEF InTurn

LEMMA InTurnStep ==
  ASSUME TypeOK, Hands, Promises, InTurn, ~overlapped', [Next]_vars
  PROVE  InTurn'
<1> USE VpnAssumption
<1>1. CASE UNCHANGED vars \/ Heartbeat
  BY <1>1, TurnIdle DEF vars, controlVars, taskVars, tunnelVars, chainVars, userVars, Heartbeat,
     CheckHealth
<1>2. CASE Nudge
  <2>1. timer' = timer
    BY <1>2 DEF Nudge, ScheduleReconnect, TypeOK
  <2> QED
    BY <1>2, <2>1, TurnIdle DEF Nudge, taskVars, tunnelVars, chainVars, userVars
<1>3. CASE Connect
  <2>1. \A l \in Tasks : /\ pc'[l] = IF l = SomeTask THEN "asking" ELSE pc[l]
                         /\ of'[l] = IF l = SomeTask THEN None ELSE of[l]
    BY <1>3, Suspended, SomeTaskIdle DEF Connect
  <2>2. \A l \in Tasks : pc[l] \notin Calls
    BY <1>3 DEF Connect, Begins, At, Calls
  <2>3. wish' = "up" /\ UNCHANGED <<controlVars, tunnelVars, chainVars>>
    BY <1>3 DEF Connect
  <2>4. OneCall' /\ Down'
    BY <2>1, <2>2, <2>3 DEF OneCall, Down, Calls, InConnect
  <2>5. Standing'
    BY <2>2, <2>3 DEF InTurn, Standing, At, IsRunning, tunnelVars
  <2>6. InCall'
    BY <2>1, <2>2, <2>3 DEF InCall, Calls, InConnect
  <2>7. Replacing' /\ Chained'
    BY <2>1, <2>3 DEF InTurn, Replacing, Chained, controlVars, tunnelVars, chainVars
  <2> QED
    BY <2>4, <2>5, <2>6, <2>7 DEF InTurn
<1>4. CASE Disconnect
  <2>1. \A l \in Tasks : pc[l] \notin Calls
    BY <1>4 DEF Disconnect, Begins, At, Calls
  <2>2. IF tunnel = None THEN port = None ELSE port = tunnel /\ IsRunning(tunnel)
    BY <2>1 DEF InTurn, Standing, At
  <2>3. /\ ~timer' /\ ~monitors' /\ userDisconnected' = TRUE /\ port' = port
        /\ stopped' = StoppedNow
    BY <1>4 DEF Disconnect
  <2>4. CASE IdleTasks # {} /\ CloseListener(SomeTask, "stopping") /\ UNCHANGED <<chain, open, silent>>
    <3>1. /\ tunnel' = tunnel /\ tunnel \in Tunnels /\ tunnel \in stopped'
          /\ SomeTask \in Tasks
          /\ \A l \in Tasks : /\ pc'[l] = IF l = SomeTask THEN "stopping" ELSE pc[l]
                              /\ of'[l] = IF l = SomeTask THEN tunnel ELSE of[l]
      BY <2>3, <2>4, Suspended, SomeTaskIdle DEF CloseListener, TypeOK, StoppedNow
    <3>2. OneCall' /\ Standing'
      BY <2>1, <3>1 DEF OneCall, Standing, At, Calls
    <3>3. InCall'
      BY <2>1, <2>3, <3>1 DEF InCall, Calls, InConnect
    <3>4. Replacing' /\ Chained'
      BY <2>3, <2>4, <3>1 DEF InTurn, Replacing, Chained, StoppedNow
    <3>5. Down'
      BY <2>1, <2>3, <3>1 DEF Down, At, Calls, InConnect
    <3> QED
      BY <3>2, <3>3, <3>4, <3>5 DEF InTurn
  <2>5. CASE NothingListens /\ DropChains({tunnel}) /\ tunnel' = None /\ UNCHANGED taskVars
    <3>1. tunnel = None /\ port = None
      BY <2>2, <2>5 DEF NothingListens, IsRunning
    <3>2. \A t \in Tunnels : chain[t] = None
      BY <3>1 DEF InTurn, Chained
    <3>3. open = {} /\ open' = {}
      BY <2>5, <3>1 DEF InTurn, Chained, DropChains
    <3>4. OneCall' /\ Standing' /\ Down'
      BY <2>1, <2>3, <2>5, <3>1 DEF OneCall, Standing, Down, At, Calls, taskVars
    <3>5. InCall'
      BY <2>1, <2>5 DEF InCall, Calls, InConnect, taskVars
    <3>6. Replacing'
      BY <2>3, <2>5, <3>1 DEF InTurn, Replacing, taskVars, StoppedNow, Hands, Rebuilds
    <3>7. Chained'
      BY <2>5, <3>2, <3>3, Dropped DEF Chained
    <3> QED
      BY <3>4, <3>5, <3>6, <3>7 DEF InTurn
  <2> QED
    BY <1>4, <2>4, <2>5 DEF Disconnect
<1>5. CASE TimerFires
  <2>1. /\ timer /\ ~timer' /\ SomeTask \in Tasks /\ pc[SomeTask] = "idle"
        /\ UNCHANGED <<userDisconnected, monitors, listening, port, wish>>
    BY <1>5, SomeTaskIdle DEF TimerFires, TypeOK
  <2>2. wish # "down"
    BY <2>1 DEF InTurn, Down
  <2>3. Down'
    BY <2>1, <2>2 DEF Down
  <2>4. CASE IsRunning(tunnel) /\ DropChains({tunnel}) /\ Suspend(SomeTask, "rebuilding", tunnel)
             /\ UNCHANGED <<tunnel, stopped, overlapped>>
    <3>1. \A l \in Tasks : /\ pc'[l] = IF l = SomeTask THEN "rebuilding" ELSE pc[l]
                           /\ of'[l] = IF l = SomeTask THEN tunnel ELSE of[l]
      BY <2>1, <2>4, Suspended
    <3>2. tunnel \in Tunnels /\ tunnel = port
      BY <2>4 DEF IsRunning, TypeOK
    <3>3. \A t \in Tunnels : chain'[t] = None
      BY <2>4, Dropped DEF InTurn, Chained
    <3>4. open' = {}
      BY <2>4, <3>2 DEF DropChains, InTurn, Chained, TypeOK
    <3>5. OneCall' /\ Standing'
      BY <2>1, <2>4, <3>1 DEF InTurn, OneCall, Standing, At, Calls, InConnect, IsRunning
    <3>6. InCall'
      BY <2>1, <2>4, <3>1, <3>2, <3>3 DEF InTurn, InCall
    <3>7. Replacing'
      BY <2>1, <2>4, <3>1, <3>2, <3>3 DEF InTurn, Replacing
    <3>8. Chained'
      BY <3>3, <3>4 DEF Chained
    <3> QED
      BY <2>3, <3>5, <3>6, <3>7, <3>8 DEF InTurn
  <2>5. CASE /\ ~IsRunning(tunnel) /\ NothingListens /\ DropChains({tunnel}) /\ tunnel' = None
             /\ stopped' = StoppedNow /\ Suspend(SomeTask, "asking", None) /\ Begins
    <3>1. \A l \in Tasks : /\ pc'[l] = IF l = SomeTask THEN "asking" ELSE pc[l]
                           /\ of'[l] = IF l = SomeTask THEN None ELSE of[l]
      BY <2>1, <2>5, Suspended
    <3>2. \A l \in Tasks : pc[l] \notin Calls
      BY <2>5 DEF Begins, At, Calls
    <3>3. tunnel = None /\ port = None
      BY <2>5, <3>2 DEF InTurn, Standing, At
    <3>4. (\A t \in Tunnels : chain[t] = None) /\ open = {} /\ open' = {}
      BY <2>5, <3>3 DEF InTurn, Chained, DropChains
    <3>5. OneCall' /\ Standing'
      BY <2>1, <2>5, <3>1, <3>2, <3>3 DEF OneCall, Standing, At, Calls, InConnect
    <3>6. InCall'
      BY <3>1, <3>2 DEF InCall, Calls, InConnect
    <3>7. Replacing'
      BY <2>5, <3>1, <3>3 DEF InTurn, Replacing, StoppedNow, Hands, Rebuilds
    <3>8. Chained'
      BY <2>5, <3>4, Dropped DEF Chained
    <3> QED
      BY <2>3, <3>5, <3>6, <3>7, <3>8 DEF InTurn
  <2> QED
    BY <1>5, <2>4, <2>5 DEF TimerFires
<1>6. ASSUME NEW k \in Tasks, TearDown(k)  PROVE InTurn'
  <2>1. \A l \in Tasks : l # k => pc[l] \notin Calls
    BY <1>6 DEF TearDown, InTurn, OneCall, Calls, InConnect
  <2>2. IF tunnel = None THEN port = None ELSE port = tunnel /\ IsRunning(tunnel)
    BY <1>6, <2>1 DEF TearDown, InTurn, Standing, At
  <2>3. wish # "down" /\ wish' = wish /\ pc[k] = "asking" /\ port' = port
    BY <1>6 DEF TearDown, InTurn, Down, At, InConnect, userVars
  <2>4. CASE CloseListener(k, "tearing") /\ stopped' = StoppedNow /\ userDisconnected' = TRUE
             /\ UNCHANGED <<status, chain, open, silent>>
    <3>1. /\ tunnel' = tunnel /\ tunnel \in Tunnels /\ tunnel \in stopped' /\ ~timer'
          /\ \A l \in Tasks : /\ pc'[l] = IF l = k THEN "tearing" ELSE pc[l]
                              /\ of'[l] = IF l = k THEN tunnel ELSE of[l]
      BY <1>6, <2>4, Suspended DEF TearDown, CloseListener, TypeOK, StoppedNow
    <3>2. OneCall' /\ Standing' /\ Down'
      BY <2>1, <2>3, <3>1 DEF OneCall, Standing, Down, At, Calls, InConnect
    <3>3. InCall'
      BY <2>1, <2>4, <3>1 DEF InCall, Calls, InConnect
    <3>4. Replacing' /\ Chained'
      BY <2>4, <3>1 DEF InTurn, Replacing, Chained, StoppedNow
    <3> QED
      BY <3>2, <3>3, <3>4 DEF InTurn
  <2>5. CASE NothingListens /\ DropChains({tunnel}) /\ StartTunnel(k, StoppedNow)
    <3>1. tunnel = None /\ port' = None
      BY <2>2, <2>3, <2>5 DEF NothingListens, IsRunning
    <3> QED
      BY <2>3, <2>5, <3>1, TurnStart DEF NothingListens, StoppedNow
  <2> QED
    BY <1>6, <2>4, <2>5 DEF TearDown
<1>7. ASSUME NEW k \in Tasks, Torn(k)  PROVE InTurn'
  <2>1. of[k] = tunnel /\ of[k] = port /\ tunnel \in stopped
    BY <1>7 DEF Torn, InTurn, InCall, Hands, Closes, Closing
  <2> QED
    BY <1>7, <2>1, TurnStart DEF Torn, ListenerClosed, userVars
<1>8. ASSUME NEW k \in Tasks, Dialed(k)  PROVE InTurn'
  <2>1. \A l \in Tasks : /\ pc'[l] = IF l = k THEN "binding" ELSE pc[l]
                         /\ of'[l] = of[l]
    BY <1>8, Suspended DEF Dialed
  <2>2. /\ of[k] = tunnel /\ tunnel \in Tunnels /\ chain[tunnel] = None /\ tunnel # port
        /\ pc[k] = "dialing"
    BY <1>8 DEF Dialed, InTurn, InCall, Hands, Starts
  <2>3. PICK c \in Chains \ open : chain' = [chain EXCEPT ![tunnel] = c] /\ open' = open \cup {c}
    BY <1>8, <2>2, NewChain DEF Dialed
  <2>4. \A t \in Tunnels : chain'[t] = IF t = tunnel THEN c ELSE chain[t]
    BY <2>2, <2>3 DEF TypeOK
  <2>5. UNCHANGED <<timer, monitors, userDisconnected, tunnel, listening, stopped, port, wish>>
    BY <1>8 DEF Dialed, controlVars, userVars
  <2>6. OneCall'
    BY <2>1, <2>2 DEF InTurn, OneCall, Calls, InConnect
  <2>7. Standing' /\ Down'
    BY <2>1, <2>2, <2>5 DEF InTurn, Standing, Down, At, Calls, InConnect
  <2>8. InCall'
    <3>1. \A l \in Tasks : pc'[l] # "dialing"
      BY <2>1, <2>2 DEF InTurn, OneCall, Calls, InConnect
    <3> QED
      BY <2>1, <2>2, <2>5, <3>1 DEF InTurn, InCall
  <2>9. Replacing'
    <3>1. \A l \in Tasks : pc[l] = "rebuilding" => of[l] # tunnel
      BY <2>2 DEF Hands, Rebuilds
    <3> QED
      BY <2>1, <2>5, <3>1 DEF InTurn, Replacing
  <2>10. Chained'
    <3>1. open = {}
      BY <2>2 DEF InTurn, Chained, TypeOK
    <3> QED
      BY <2>2, <2>3, <2>4, <2>5, <3>1 DEF InTurn, Chained
  <2> QED
    BY <2>6, <2>7, <2>8, <2>9, <2>10 DEF InTurn
<1>9. ASSUME NEW k \in Tasks, Bound(k)  PROVE InTurn'
  <2>1. \A l \in Tasks : /\ pc'[l] = IF l = k THEN "idle" ELSE pc[l]
                         /\ of'[l] = IF l = k THEN None ELSE of[l]
    BY <1>9, Suspended DEF Bound, Return
  <2>2. /\ of[k] = tunnel /\ tunnel \in Tunnels /\ tunnel \notin stopped /\ pc[k] = "binding"
    BY <1>9 DEF Bound, InTurn, InCall, Hands, Starts
  <2>3. /\ UNCHANGED <<timer, userDisconnected, tunnel, stopped, chain, open, wish>>
        /\ port' = tunnel /\ tunnel \in listening'
    BY <1>9, <2>2 DEF Bound, chainVars, userVars
  <2>4. \A l \in Tasks : l # k => pc[l] \notin Calls
    BY <2>2 DEF InTurn, OneCall, Calls, InConnect
  <2>5. OneCall' /\ Standing'
    BY <2>1, <2>2, <2>3, <2>4 DEF OneCall, Standing, IsRunning, Calls, InConnect
  <2>6. InCall'
    BY <2>1, <2>4 DEF InCall, Calls, InConnect
  <2>7. Replacing' /\ Chained'
    BY <2>1, <2>3 DEF InTurn, Replacing, Chained
  <2>8. Down'
    BY <2>2, <2>3 DEF InTurn, Down, At, InConnect
  <2> QED
    BY <2>5, <2>6, <2>7, <2>8 DEF InTurn
<1>10. ASSUME NEW k \in Tasks, StartFails(k)  PROVE InTurn'
  <2>1. /\ of[k] = tunnel /\ tunnel \in Tunnels /\ tunnel # port /\ port = None
        /\ pc[k] \in {"dialing", "binding"}
    BY <1>10 DEF StartFails, InTurn, InCall, Hands, Starts
  <2>2. tunnel \notin listening
    BY <2>1 DEF TypeOK
  <2>3. DropChains({tunnel}) /\ ConnectFailed(k) /\ listening' = listening
    BY <1>10, <2>1, <2>2 DEF StartFails, CloseListener, NothingListens
  <2>4. /\ tunnel' = None /\ port' = None /\ stopped' = stopped \cup {tunnel}
        /\ wish' = wish
    BY <1>10, <2>1, <2>3 DEF StartFails, ConnectFailed, StoppedNow, userVars
  <2>5. \A l \in Tasks : /\ pc'[l] = IF l = k THEN "idle" ELSE pc[l]
                         /\ of'[l] = IF l = k THEN None ELSE of[l]
    BY <2>3, Suspended DEF ConnectFailed, Return
  <2>6. \A l \in Tasks : l # k => pc[l] \notin Calls
    BY <2>1 DEF InTurn, OneCall, Calls, InConnect
  <2>7. OneCall' /\ Standing'
    BY <2>4, <2>5, <2>6 DEF OneCall, Standing, Calls, InConnect
  <2>8. InCall'
    BY <2>5, <2>6 DEF InCall, Calls, InConnect
  <2>9. Replacing'
    BY <2>4, <2>5 DEF InTurn, Replacing, Hands, Rebuilds
  <2>10. Chained'
    <3>1. \A t \in Tunnels : chain'[t] = None
      BY <2>3, Dropped DEF InTurn, Chained
    <3>2. open' = {}
      BY <2>1, <2>3 DEF DropChains, InTurn, Chained
    <3> QED
      BY <3>1, <3>2 DEF Chained
  <2>11. Down'
    BY <2>1, <2>4 DEF InTurn, Down, At, InConnect
  <2> QED
    BY <2>7, <2>8, <2>9, <2>10, <2>11 DEF InTurn
<1>11. ASSUME NEW k \in Tasks, CleanedUp(k)  PROVE InTurn'
  BY <1>11 DEF CleanedUp, InTurn, InCall
<1>12. ASSUME NEW k \in Tasks, Disconnected(k)  PROVE InTurn'
  <2>1. of[k] = tunnel /\ of[k] = port /\ tunnel \in stopped /\ tunnel \in Tunnels
        /\ pc[k] = "stopping"
    BY <1>12 DEF Disconnected, InTurn, InCall, Hands, Closes, Closing
  <2>2. /\ tunnel' = None /\ port' = None /\ DropChains({tunnel})
        /\ UNCHANGED <<timer, monitors, stopped, wish>>
    BY <1>12, <2>1 DEF Disconnected, ListenerClosed, controlVars, userVars
  <2>3. \A l \in Tasks : /\ pc'[l] = IF l = k THEN "idle" ELSE pc[l]
                         /\ of'[l] = IF l = k THEN None ELSE of[l]
    BY <1>12, Suspended DEF Disconnected, Return
  <2>4. \A l \in Tasks : l # k => pc[l] \notin Calls
    BY <2>1 DEF InTurn, OneCall, Calls, InConnect
  <2>5. OneCall' /\ Standing'
    BY <2>2, <2>3, <2>4 DEF OneCall, Standing, Calls, InConnect
  <2>6. InCall'
    BY <2>3, <2>4 DEF InCall, Calls, InConnect
  <2>7. Replacing'
    BY <2>1, <2>2, <2>3 DEF InTurn, Replacing, Hands, Rebuilds
  <2>8. Chained'
    <3>1. \A t \in Tunnels : chain'[t] = None
      BY <2>2, Dropped DEF InTurn, Chained
    <3>2. open' = {}
      BY <2>1, <2>2 DEF DropChains, InTurn, Chained
    <3> QED
      BY <3>1, <3>2 DEF Chained
  <2>9. Down'
    BY <2>2, <2>3 DEF InTurn, Down, At, InConnect
  <2> QED
    BY <2>5, <2>6, <2>7, <2>8, <2>9 DEF InTurn
<1>13. ASSUME NEW k \in Tasks, Rebuilt(k)  PROVE InTurn'
  <2>1. /\ of[k] = tunnel /\ tunnel \in Tunnels /\ chain[tunnel] = None /\ pc[k] = "rebuilding"
        /\ \A l \in Tasks : pc[l] = "rebuilding" /\ of[l] = tunnel => l = k
    BY <1>13 DEF Rebuilt, InTurn, Replacing, Hands, Rebuilds
  <2>2. \A l \in Tasks : /\ pc'[l] = IF l = k THEN "idle" ELSE pc[l]
                         /\ of'[l] = IF l = k THEN None ELSE of[l]
    BY <1>13, Suspended DEF Rebuilt, Return
  <2>3. PICK c \in Chains \ open : chain' = [chain EXCEPT ![tunnel] = c] /\ open' = open \cup {c}
    BY <1>13, <2>1, NewChain DEF Rebuilt
  <2>4. \A t \in Tunnels : chain'[t] = IF t = tunnel THEN c ELSE chain[t]
    BY <2>1, <2>3 DEF TypeOK
  <2>5. UNCHANGED <<timer, monitors, userDisconnected, tunnel, listening, stopped, port, wish>>
    BY <1>13 DEF Rebuilt, userVars
  <2>6. OneCall' /\ Standing' /\ Down'
    BY <2>1, <2>2, <2>5 DEF InTurn, OneCall, Standing, Down, IsRunning, At, Calls, InConnect
  <2>7. InCall'
    <3>1. \A l \in Tasks : pc[l] # "dialing"
      BY <2>1 DEF InTurn, InCall, Hands, Starts, Rebuilds
    <3> QED
      BY <2>2, <2>5, <3>1 DEF InTurn, InCall
  <2>8. Replacing'
    BY <2>1, <2>2, <2>5 DEF InTurn, Replacing
  <2>9. Chained'
    <3>1. open = {}
      BY <2>1 DEF InTurn, Chained, TypeOK
    <3> QED
      BY <2>1, <2>3, <2>4, <2>5, <3>1 DEF InTurn, Chained
  <2> QED
    BY <2>6, <2>7, <2>8, <2>9 DEF InTurn
<1>14. ASSUME NEW k \in Tasks, RebuildFails(k)  PROVE InTurn'
  <2>1. \A l \in Tasks : /\ pc'[l] = IF l = k THEN "idle" ELSE pc[l]
                         /\ of'[l] = IF l = k THEN None ELSE of[l]
    BY <1>14, Suspended DEF RebuildFails, Return
  <2>2. UNCHANGED <<monitors, userDisconnected, tunnel, listening, stopped, port, chain, open, wish>>
    BY <1>14 DEF RebuildFails, tunnelVars, chainVars, userVars
  <2>3. timer' = timer \/ (of[k] = tunnel /\ ~userDisconnected)
    BY <1>14 DEF RebuildFails, ScheduleReconnect, Stale
  <2>4. of[k] \in Tunnels /\ pc[k] = "rebuilding"
    BY <1>14 DEF RebuildFails, Hands, Rebuilds
  <2>5. OneCall' /\ Standing'
    BY <2>1, <2>2, <2>4 DEF InTurn, OneCall, Standing, IsRunning, At, Calls, InConnect
  <2>6. InCall'
    BY <2>1, <2>2 DEF InTurn, InCall
  <2>7. Replacing'
    BY <2>1, <2>2, <2>3, <2>4 DEF InTurn, Replacing
  <2>8. Chained'
    BY <2>2 DEF InTurn, Chained
  <2>9. Down'
    BY <2>1, <2>2, <2>3, <2>4 DEF InTurn, Down, At, InConnect
  <2> QED
    BY <2>5, <2>6, <2>7, <2>8, <2>9 DEF InTurn
<1>15. ASSUME NEW c \in Chains, HangsUp(c)  PROVE InTurn'
  BY <1>15, TurnLost DEF HangsUp, userVars
<1>16. ASSUME NEW c \in Chains, FallsSilent(c)  PROVE InTurn'
  BY <1>16, TurnIdle DEF FallsSilent, controlVars, tunnelVars, userVars
<1>17. ASSUME NEW t \in Tunnels, Request(t) \/ ProbeAnswered(t)  PROVE InTurn'
  BY <1>17, TurnIdle DEF Request, CheckHealth, ProbeAnswered, controlVars, tunnelVars, userVars
<1>18. ASSUME NEW t \in Tunnels, ProbeTimesOut(t)  PROVE InTurn'
  <2>1. probe[t] \in Chains
    BY <1>18 DEF ProbeTimesOut, TypeOK
  <2> QED
    BY <1>18, <2>1, TurnLost DEF ProbeTimesOut, userVars
<1> QED
  BY <1>1, <1>2, <1>3, <1>4, <1>5, <1>6, <1>7, <1>8, <1>9, <1>10, <1>11, <1>12, <1>13, <1>14,
     <1>15, <1>16, <1>17, <1>18 DEF Next, TaskNext

\* Once calls have overlapped they have.
LEMMA OverlapStays ==
  ASSUME [Next]_vars, ~overlapped'
  PROVE  ~overlapped
<1>1. CASE UNCHANGED vars \/ Connect \/ Disconnect \/ TimerFires \/ Heartbeat \/ Nudge
  BY <1>1 DEF vars, userVars, Connect, Disconnect, TimerFires, Begins, Heartbeat, CheckHealth, Nudge
<1>2. ASSUME NEW k \in Tasks, TaskNext(k)  PROVE overlapped' = overlapped
  BY <1>2 DEF TaskNext, TearDown, Torn, Dialed, Bound, StartFails, CleanedUp, Disconnected,
     Rebuilt, RebuildFails, userVars
<1>3. ASSUME NEW c \in Chains, HangsUp(c) \/ FallsSilent(c)  PROVE overlapped' = overlapped
  BY <1>3 DEF HangsUp, FallsSilent, userVars
<1>4. ASSUME NEW t \in Tunnels, Request(t) \/ ProbeAnswered(t) \/ ProbeTimesOut(t)
      PROVE  overlapped' = overlapped
  BY <1>4 DEF Request, CheckHealth, ProbeAnswered, ProbeTimesOut, userVars
<1> QED
  BY <1>1, <1>2, <1>3, <1>4 DEF Next

----------------------------------------------------------------------------
(* The theorems. *)

LEMMA InitIInv == Init => IInv
  BY VpnAssumption DEF Init, IInv, TypeOK, Hands, Closes, Starts, Rebuilds, Stops, Promises,
     TimerMeansWanted, LostBinding, Attended, ListenerServed, Closing, Statuses, Places

\* The inductive invariant holds in every run of the controller.
THEOREM Invariance == Spec => []IInv
<1>1. IInv /\ [Next]_vars => IInv'
  BY TypeStep, HandsStep, PromisesStep DEF IInv
<1> QED
  BY InitIInv, <1>1, PTL DEF Spec

\* The state of the controller and of its tunnels stays within its types;
\* above all, no tunnel listens but the one that has the port.
THEOREM TypeCorrect == Spec => []TypeOK
  BY Invariance, PTL DEF IInv

\* _scheduleReconnect and the callback's own check agree: a timer that runs
\* is wanted, however the calls overlap.
THEOREM WantedOnly == Spec => []TimerMeansWanted
  BY Invariance, PTL DEF IInv, Promises

\* The app never shows that it connects or reconnects with nothing due that
\* would end it, however the calls overlap.
THEOREM Attendance == Spec => []NoOneForgets
<1>1. IInv => NoOneForgets
  BY DEF IInv, Promises, Attended, NoOneForgets, At, InConnect
<1> QED
  BY Invariance, <1>1, PTL

\* The SOCKS listener of the current tunnel is never left without a chain.
THEOREM ListenerGetsChain == Spec => []ListenerServed
  BY Invariance, PTL DEF IInv, Promises

LEMMA HoldsStep ==
  ASSUME IInv, IInv', [Next]_vars, userDisconnected, userDisconnected', ~At(InConnect)
  PROVE  ~timer' /\ status' \in {status, "disconnected"}
<1>1. ~timer /\ ~timer'
  BY DEF IInv, Promises, TimerMeansWanted
<1>2. CASE UNCHANGED vars \/ Connect \/ Disconnect \/ TimerFires \/ Heartbeat \/ Nudge
  BY <1>1, <1>2 DEF vars, controlVars, Connect, Disconnect, TimerFires, Heartbeat, CheckHealth,
     Nudge
<1>3. ASSUME NEW k \in Tasks, TaskNext(k)  PROVE status' = status
  <2>1. pc[k] \notin InConnect
    BY DEF At
  <2> QED
    BY <1>3, <2>1 DEF TaskNext, TearDown, Torn, Dialed, Bound, StartFails, CleanedUp, InConnect,
       Disconnected, Rebuilt, RebuildFails, Stale, controlVars
<1>4. ASSUME NEW c \in Chains, HangsUp(c) \/ FallsSilent(c)  PROVE status' = status
  BY <1>4 DEF HangsUp, FallsSilent, MarkLost, ScheduleReconnect, controlVars
<1>5. ASSUME NEW t \in Tunnels, Request(t) \/ ProbeAnswered(t) \/ ProbeTimesOut(t)
      PROVE  status' = status
  BY <1>5 DEF Request, CheckHealth, ProbeAnswered, ProbeTimesOut, MarkLost, ScheduleReconnect,
     controlVars
<1> QED
  BY <1>1, <1>2, <1>3, <1>4, <1>5 DEF Next

\* Only a connect undoes a disconnect: no lost chain, probe, nudge, rebuild or
\* timer does.
THEOREM DisconnectIsFinal == Spec => DisconnectHolds
<1>1. IInv /\ IInv' /\ [Next]_vars =>
        [ userDisconnected /\ userDisconnected' /\ ~At(InConnect) =>
            ~timer' /\ status' \in {status, "disconnected"} ]_vars
  BY HoldsStep
<1> QED
  BY Invariance, <1>1, PTL DEF Spec, DisconnectHolds

LEMMA InitSerial == Init => Serial
  BY VpnAssumption DEF Init, Serial, InTurn, OneCall, Standing, InCall, Replacing, Chained, Down,
     At, Calls, InConnect

\* Calls that never overlapped find the tunnel, its chain and its port as the
\* last one left them.
THEOREM Sequence == Spec => [](IInv /\ Serial)
<1>1. IInv /\ Serial /\ [Next]_vars => Serial'
  BY InTurnStep, OverlapStays DEF IInv, Serial
<1> QED
  BY Invariance, InitSerial, <1>1, PTL DEF Spec

\* A disconnect leaves no listener, chain, timer or monitor once everything has
\* returned, whatever chain was lost, probed or being rebuilt when it came
\* (disconnect, _cleanupTunnel).  The hypothesis, ~overlapped, leaves out every
\* behaviour in which a disconnect has fallen into a connect, also into one that
\* the retry timer made: there the code does leave the tunnel up.
THEOREM DisconnectStops == Spec => []DisconnectStopsEverything
<1>1. ASSUME TypeOK, InTurn, wish = "down", Quiet
      PROVE  port = None /\ open = {} /\ ~timer /\ ~monitors
  <2>1. \A k \in Tasks : pc[k] = "idle"
    BY <1>1 DEF Quiet, At, TypeOK
  <2>2. tunnel = None /\ ~timer /\ ~monitors
    BY <1>1, <2>1 DEF InTurn, Down, At
  <2>3. port = None
    BY <1>1, <2>1, <2>2 DEF InTurn, Standing, At, Calls, InConnect
  <2>4. open = {}
    BY <1>1, <2>2 DEF InTurn, Chained
  <2> QED
    BY <2>2, <2>3, <2>4
<1>2. IInv /\ Serial => DisconnectStopsEverything
  BY <1>1 DEF IInv, Serial, DisconnectStopsEverything, CancelStopsEverything
<1> QED
  BY Sequence, <1>2, PTL

\* Every open chain is the current tunnel's, and the port as well: a rebuild that
\* ends after its tunnel was stopped leaves nothing.  Under the same hypothesis: a
\* disconnect that falls into a connect, the user's or the timer's, does orphan
\* its listener.
THEOREM NothingOrphaned == Spec => []NoOrphans
<1>1. ASSUME TypeOK, Hands, InTurn
      PROVE  /\ \A c \in open : \E t \in Tunnels : chain[t] = c
             /\ \A t \in Tunnels : chain[t] # None \/ port = t => t = tunnel
  <2>1. \A c \in open : \E t \in Tunnels : chain[t] = c
    BY <1>1 DEF TypeOK, InTurn, Chained
  <2>2. ASSUME NEW t \in Tunnels, port = t  PROVE t = tunnel
    <3>1. CASE At({"tearing", "stopping"})
      BY <1>1, <2>2, <3>1 DEF InTurn, InCall, Hands, Closes, Closing, At
    <3>2. CASE At({"dialing", "binding", "failing"})
      BY <1>1, <2>2, <3>2, VpnAssumption DEF InTurn, InCall, At
    <3>3. CASE ~At(Calls \ {"asking"})
      BY <1>1, <2>2, <3>3, VpnAssumption DEF InTurn, Standing
    <3> QED
      BY <3>1, <3>2, <3>3 DEF At, Calls, InConnect
  <2>3. \A t \in Tunnels : chain[t] # None => t = tunnel
    BY <1>1 DEF InTurn, Chained
  <2> QED
    BY <2>1, <2>2, <2>3
<1>2. IInv /\ Serial => NoOrphans
  BY <1>1 DEF IInv, Serial, NoOrphans
<1> QED
  BY Sequence, <1>2, PTL
=============================================================================
