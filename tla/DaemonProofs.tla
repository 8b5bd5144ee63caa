---------------------------- MODULE DaemonProofs ----------------------------
(***************************************************************************)
(* The safety properties of Daemon hold for any number of clients, restart *)
(* goroutines, Managers and attempts.                                      *)
(*                                                                         *)
(* The inductive invariant says what the goroutine that holds d.mu knows   *)
(* at each place (LockHeld, Calls, Restarts), what a restart that sleeps   *)
(* without it can still rely on when it wakes up (Sleepers), and what      *)
(* holds of a running daemon whose lock is free (Wired).  With it the      *)
(* daemon implements TunnelService, where calls take effect at once.       *)
(***************************************************************************)
EXTENDS Daemon, TLAPS

\* The holder of d.mu is the one goroutine at a place under the lock.
LockHeld == \A t \in Threads : at[t] \in Holding <=> mu = t

\* No two goroutines have the same Manager as their own, but for a Start
\* that is about to replace it.
Apart ==
    \A s, t \in Threads :
        mine[s] # None /\ mine[s] = mine[t] /\ "switching" \notin {at[s], at[t]} => s = t

\* A running daemon has a config, a handler and rules for that config.
Running ==
    dstate = "running" =>
        /\ current \in Managers
        /\ handler \in Handlers
        /\ cfg \in Configs
        /\ rules = cfg

\* The chains of a running daemon are being closed.
GoingDown ==
    /\ dstate = "running"
    /\ tunnel = None
    /\ life[current] # "open"

\* What a call knows while it holds the lock.
Calls ==
    \A c \in Clients :
        /\ at[c] = "start" => arg[c] \in Configs
        /\ at[c] \in {"upping", "failing"} =>
              /\ dstate # "running"
              /\ mine[c] \in Managers
              /\ arg[c] \in Configs
        /\ at[c] = "upping" =>
              /\ routes = mine[c]
              /\ life[mine[c]] = "open"
              /\ serves[mine[c]] = arg[c]
        /\ at[c] = "failing" => life[mine[c]] # "open"
        /\ at[c] = "stopping" => GoingDown
        /\ at[c] \in {"switching", "switched"} =>
              /\ dstate = "running"
              /\ arg[c] \in Configs
              /\ life[current] = "open"
              /\ serves[current] = arg[c]
              /\ tunnel = None => overtaken
        /\ at[c] = "switching" =>
              /\ mine[c] \in Managers \ {current}
              /\ routes = mine[c]
              /\ life[mine[c]] = "open"
              /\ serves[mine[c]] = cfg
        /\ at[c] = "switched" => routes = current

\* What a restart knows while it holds the lock.
Restarts ==
    \A g \in Restarters :
        /\ at[g] = "closing" => GoingDown /\ held[g] = handler
        /\ at[g] \in {"trying", "givingUp"} =>
              /\ dstate = "running"
              /\ tunnel = None
              /\ mine[g] = current
              /\ held[g] = handler
        /\ at[g] = "givingUp" => GoingDown

\* A restart that tries has attempts left.
Attempts ==
    \A g \in Restarters :
        /\ at[g] = "closing" => attempt[g] = 0
        /\ at[g] = "trying" => attempt[g] < MaxAttempts

\* What a restart may rely on after its sleep, if it finds its own chains.
Sleepers ==
    \A g \in Restarters : at[g] = "asleep" =>
        /\ mine[g] \in Managers
        /\ current = mine[g] => /\ dstate = "running"
                                /\ tunnel = None
                                /\ held[g] = handler

\* The data plane of a running daemon, when nobody replaces its chains.
Wired ==
    dstate = "running" /\ (mu = None \/ \E t \in Threads : at[t] \in {"trying", "hung"}) =>
        /\ routes = current
        /\ life[current] = "open"
        /\ serves[current] = cfg

IInv ==
    /\ TypeOK /\ LockHeld /\ Apart
    /\ Running /\ Calls /\ Restarts /\ Attempts /\ Sleepers /\ Wired
    /\ TunnelFeedsHandler /\ NoManagerLeaks /\ DownOnlyWhileRestarting

-----------------------------------------------------------------------------
(* The initial states *)

LEMMA InitIInv == Init => IInv
<1> SUFFICES ASSUME Init
             PROVE  IInv
  OBVIOUS
<1> USE DaemonAssumption DEF Init
<1>1. TypeOK
  <2>1. overtaken \in BOOLEAN /\ jammed \in BOOLEAN
    OBVIOUS
  <2> QED
    BY <2>1 DEF TypeOK, Holding
<1>2. LockHeld /\ Apart /\ Running /\ Calls /\ Restarts /\ Attempts /\ Sleepers /\ Wired
  BY DEF LockHeld, Apart, Running, Calls, Restarts, Attempts, Sleepers, Wired,
     Holding, Threads
<1>3. TunnelFeedsHandler /\ NoManagerLeaks /\ DownOnlyWhileRestarting
  BY DEF TunnelFeedsHandler, NoManagerLeaks, DownOnlyWhileRestarting
<1> QED
  BY <1>1, <1>2, <1>3 DEF IInv

-----------------------------------------------------------------------------
(* Types *)

\* Nothing an action assigns leaves its type, provided a restart that fails
\* once more had an attempt left.
LEMMA TypeStep == IInv /\ [Next]_vars => TypeOK'
<1> SUFFICES ASSUME IInv, [Next]_vars
             PROVE  TypeOK'
  OBVIOUS
<1> USE DaemonAssumption
<1> USE DEF vars, daemonVars, platformVars, managerVars, threadVars, Threads,
       Holding, TypeOK, Attempts, IInv
<1>1. ASSUME NEW c \in Clients, Call(c)
      PROVE  TypeOK'
  BY <1>1 DEF Call, CallSetRules, CallStop, CallStart, Becomes
<1>2. ASSUME NEW c \in Clients, Serve(c)
      PROVE  TypeOK'
  <2>1. CASE StartRefused(c)
    BY <2>1 DEF StartRefused, LockBriefly, Returns, Becomes, Takes
  <2>2. CASE StartSameRoutes(c)
    BY <2>2 DEF StartSameRoutes, LockBriefly, Returns, Becomes, Takes
  <2>3. CASE StartOtherRoutes(c)
    BY <2>3 DEF StartOtherRoutes, Lock, Becomes, Takes, NewManager, Unused
  <2>4. CASE StartFresh(c)
    BY <2>4 DEF StartFresh, Lock, Becomes, Takes, NewManager, Unused
  <2>5. CASE StartSucceeds(c)
    <3>1. overtaken' \in BOOLEAN
      BY <2>5 DEF StartSucceeds
    <3> QED
      BY <2>5, <3>1 DEF StartSucceeds, Unlock, Returns, Becomes, Takes,
         TunnelUp, FreshHandler
  <2>6. CASE StartFails(c)
    BY <2>6 DEF StartFails, Becomes, CancelManager, TunnelFails
  <2>7. CASE StartFailed(c)
    BY <2>7 DEF StartFailed, Unlock, Returns, Becomes, Takes, TunnelDown
  <2>8. CASE SetRules(c)
    BY <2>8 DEF SetRules, LockBriefly, Returns, Becomes, Takes
  <2>9. CASE StopNothing(c)
    BY <2>9 DEF StopNothing, LockBriefly, Returns, Becomes, Takes
  <2>10. CASE Stop(c)
    BY <2>10, ZenonT(60) DEF Stop, Lock, Becomes, CancelManager, TunnelDown
  <2>11. CASE Stopped(c)
    <3>1. overtaken' \in BOOLEAN
      BY <2>11 DEF Stopped
    <3> QED
      BY <2>11, <3>1 DEF Stopped, Unlock, Returns, Becomes, Takes
  <2>12. CASE RoutesSwitched(c)
    BY <2>12 DEF RoutesSwitched, Becomes, Takes, CancelManager
  <2>13. CASE StartApplied(c)
    BY <2>13 DEF StartApplied, Unlock, Returns, Becomes, Takes
  <2>14. CASE Hangs(c)
    BY <2>14 DEF Hangs, Lock, Becomes
  <2> QED
    BY <1>2, <2>1, <2>2, <2>3, <2>4, <2>5, <2>6, <2>7, <2>8, <2>9, <2>10, <2>11,
       <2>12, <2>13, <2>14 DEF Serve
<1>3. ASSUME NEW g \in Restarters, Restart(g)
      PROVE  TypeOK'
  <2>1. CASE RestartSkipped(g)
    BY <2>1 DEF RestartSkipped, LockBriefly, Becomes
  <2>2. CASE RestartBegins(g)
    <3>1. overtaken' \in BOOLEAN
      BY <2>2 DEF RestartBegins
    <3>2. /\ life' \in [Managers -> {"open", "closing", "closed"}]
          /\ held' \in [Restarters -> Handlers \cup {None}]
      BY <2>2 DEF RestartBegins, CancelManager
    <3> QED
      BY <2>2, <3>1, <3>2 DEF RestartBegins, Lock, Becomes, CancelManager,
         TunnelDown
  <2>3. CASE RestartReplaces(g)
    BY <2>3 DEF RestartReplaces, Becomes, Takes, NewManager, Unused
  <2>4. CASE RestartSucceeds(g)
    <3>1. overtaken' \in BOOLEAN
      BY <2>4 DEF RestartSucceeds
    <3> QED
      BY <2>4, <3>1 DEF RestartSucceeds, Unlock, RestartReturns, Becomes, Takes,
         TunnelUp
  <2>5. CASE RestartSleeps(g)
    BY <2>5 DEF RestartSleeps, Unlock, Becomes, TunnelDown
  <2>6. CASE RestartOvertaken(g)
    BY <2>6 DEF RestartOvertaken, LockBriefly, RestartReturns, Becomes, Takes
  <2>7. CASE RestartTriesAgain(g)
    BY <2>7 DEF RestartTriesAgain, Lock, Becomes
  <2>8. CASE RestartGivesUp(g)
    BY <2>8 DEF RestartGivesUp, Lock, Becomes, CancelManager
  <2>9. CASE RestartFailed(g)
    BY <2>9 DEF RestartFailed, Unlock, RestartReturns, Becomes, Takes
  <2>10. CASE Hangs(g)
    BY <2>10 DEF Hangs, Lock, Becomes
  <2> QED
    BY <1>3, <2>1, <2>2, <2>3, <2>4, <2>5, <2>6, <2>7, <2>8, <2>9, <2>10 DEF Restart
<1>4. ASSUME NEW m \in Managers, ManagerNext(m)
      PROVE  TypeOK'
  <2>1. CASE ManagerCloses(m)
    BY <2>1 DEF ManagerCloses
  <2>2. CASE Wake(m)
    BY <2>2 DEF Wake
  <2>3. CASE OnWake(m)
    BY <2>3 DEF OnWake, LockBriefly, SpawnRestart, Becomes
  <2>4. CASE DialStuck(m)
    BY <2>4 DEF DialStuck
  <2>5. CASE OnStuck(m)
    BY <2>5 DEF OnStuck, LockBriefly, SpawnRestart, Becomes
  <2> QED
    BY <1>4, <2>1, <2>2, <2>3, <2>4, <2>5 DEF ManagerNext
<1>5. CASE Jam
  BY <1>5 DEF Jam
<1>6. CASE UNCHANGED vars
  BY <1>6
<1> QED
  BY <1>1, <1>2, <1>3, <1>4, <1>5, <1>6 DEF Next

\* A restart counts from nothing, and tries again only below the bound.
LEMMA AttemptsStep == IInv /\ [Next]_vars => Attempts'
<1> SUFFICES ASSUME IInv, [Next]_vars
             PROVE  Attempts'
  OBVIOUS
<1> USE DaemonAssumption
<1> USE DEF vars, daemonVars, platformVars, managerVars, threadVars, Threads,
       Holding, TypeOK, LockHeld, Attempts, IInv
<1>1. ASSUME NEW c \in Clients, Call(c)
      PROVE  Attempts'
  BY <1>1 DEF Call, CallSetRules, CallStop, CallStart, Becomes
<1>2. ASSUME NEW c \in Clients, Serve(c)
      PROVE  Attempts'
  <2>1. CASE StartRefused(c)
    BY <2>1 DEF StartRefused, LockBriefly, Returns, Becomes, Takes
  <2>2. CASE StartSameRoutes(c)
    BY <2>2 DEF StartSameRoutes, LockBriefly, Returns, Becomes, Takes
  <2>3. CASE StartOtherRoutes(c)
    BY <2>3 DEF StartOtherRoutes, Lock, Becomes, Takes, NewManager, Unused
  <2>4. CASE StartFresh(c)
    BY <2>4 DEF StartFresh, Lock, Becomes, Takes, NewManager, Unused
  <2>5. CASE StartSucceeds(c)
    BY <2>5 DEF StartSucceeds, Unlock, Returns, Becomes, Takes, TunnelUp,
       FreshHandler
  <2>6. CASE StartFails(c)
    BY <2>6 DEF StartFails, Becomes, CancelManager, TunnelFails
  <2>7. CASE StartFailed(c)
    BY <2>7 DEF StartFailed, Unlock, Returns, Becomes, Takes, TunnelDown
  <2>8. CASE SetRules(c)
    BY <2>8 DEF SetRules, LockBriefly, Returns, Becomes, Takes
  <2>9. CASE StopNothing(c)
    BY <2>9 DEF StopNothing, LockBriefly, Returns, Becomes, Takes
  <2>10. CASE Stop(c)
    BY <2>10 DEF Stop, Lock, Becomes, CancelManager, TunnelDown
  <2>11. CASE Stopped(c)
    BY <2>11 DEF Stopped, Unlock, Returns, Becomes, Takes
  <2>12. CASE RoutesSwitched(c)
    BY <2>12 DEF RoutesSwitched, Becomes, Takes, CancelManager
  <2>13. CASE StartApplied(c)
    BY <2>13 DEF StartApplied, Unlock, Returns, Becomes, Takes
  <2>14. CASE Hangs(c)
    BY <2>14 DEF Hangs, Lock, Becomes
  <2> QED
    BY <1>2, <2>1, <2>2, <2>3, <2>4, <2>5, <2>6, <2>7, <2>8, <2>9, <2>10, <2>11,
       <2>12, <2>13, <2>14 DEF Serve
<1>3. ASSUME NEW g \in Restarters, Restart(g)
      PROVE  Attempts'
  <2>1. CASE RestartSkipped(g)
    BY <2>1 DEF RestartSkipped, LockBriefly, Becomes
  <2>2. CASE RestartBegins(g)
    BY <2>2 DEF RestartBegins, Lock, Becomes, CancelManager, TunnelDown
  <2>3. CASE RestartReplaces(g)
    BY <2>3 DEF RestartReplaces, Becomes, Takes, NewManager, Unused
  <2>4. CASE RestartSucceeds(g)
    BY <2>4 DEF RestartSucceeds, Unlock, RestartReturns, Becomes, Takes,
       TunnelUp
  <2>5. CASE RestartSleeps(g)
    BY <2>5 DEF RestartSleeps, Unlock, Becomes, TunnelDown
  <2>6. CASE RestartOvertaken(g)
    BY <2>6 DEF RestartOvertaken, LockBriefly, RestartReturns, Becomes, Takes
  <2>7. CASE RestartTriesAgain(g)
    BY <2>7 DEF RestartTriesAgain, Lock, Becomes
  <2>8. CASE RestartGivesUp(g)
    BY <2>8 DEF RestartGivesUp, Lock, Becomes, CancelManager
  <2>9. CASE RestartFailed(g)
    BY <2>9 DEF RestartFailed, Unlock, RestartReturns, Becomes, Takes
  <2>10. CASE Hangs(g)
    BY <2>10 DEF Hangs, Lock, Becomes
  <2> QED
    BY <1>3, <2>1, <2>2, <2>3, <2>4, <2>5, <2>6, <2>7, <2>8, <2>9, <2>10 DEF Restart
<1>4. ASSUME NEW m \in Managers, ManagerNext(m)
      PROVE  Attempts'
  <2>1. CASE ManagerCloses(m)
    BY <2>1 DEF ManagerCloses
  <2>2. CASE Wake(m)
    BY <2>2 DEF Wake
  <2>3. CASE OnWake(m)
    BY <2>3 DEF OnWake, LockBriefly, SpawnRestart, Becomes
  <2>4. CASE DialStuck(m)
    BY <2>4 DEF DialStuck
  <2>5. CASE OnStuck(m)
    BY <2>5 DEF OnStuck, LockBriefly, SpawnRestart, Becomes
  <2> QED
    BY <1>4, <2>1, <2>2, <2>3, <2>4, <2>5 DEF ManagerNext
<1>5. CASE Jam
  BY <1>5 DEF Jam
<1>6. CASE UNCHANGED vars
  BY <1>6
<1> QED
  BY <1>1, <1>2, <1>3, <1>4, <1>5, <1>6 DEF Next

-----------------------------------------------------------------------------
(* The lock and what its holder knows *)

\* Only one goroutine is ever inside d.mu, and it is there until it lets go.
LEMMA LockStep == IInv /\ [Next]_vars => LockHeld'
<1> SUFFICES ASSUME IInv, [Next]_vars
             PROVE  LockHeld'
  OBVIOUS
<1> USE DaemonAssumption
<1> USE DEF vars, daemonVars, platformVars, managerVars, threadVars, Threads,
       Holding, TypeOK, LockHeld, IInv
<1>1. ASSUME NEW c \in Clients, Call(c)
      PROVE  LockHeld'
  BY <1>1 DEF Call, CallSetRules, CallStop, CallStart, Becomes
<1>2. ASSUME NEW c \in Clients, Serve(c)
      PROVE  LockHeld'
  <2>1. CASE StartRefused(c)
    BY <2>1 DEF StartRefused, LockBriefly, Returns, Becomes, Takes
  <2>2. CASE StartSameRoutes(c)
    BY <2>2 DEF StartSameRoutes, LockBriefly, Returns, Becomes, Takes
  <2>3. CASE StartOtherRoutes(c)
    BY <2>3 DEF StartOtherRoutes, Lock, Becomes, Takes, NewManager, Unused
  <2>4. CASE StartFresh(c)
    BY <2>4 DEF StartFresh, Lock, Becomes, Takes, NewManager, Unused
  <2>5. CASE StartSucceeds(c)
    BY <2>5 DEF StartSucceeds, Unlock, Returns, Becomes, Takes, TunnelUp,
       FreshHandler
  <2>6. CASE StartFails(c)
    BY <2>6 DEF StartFails, Becomes, CancelManager, TunnelFails
  <2>7. CASE StartFailed(c)
    BY <2>7 DEF StartFailed, Unlock, Returns, Becomes, Takes, TunnelDown
  <2>8. CASE SetRules(c)
    BY <2>8 DEF SetRules, LockBriefly, Returns, Becomes, Takes
  <2>9. CASE StopNothing(c)
    BY <2>9 DEF StopNothing, LockBriefly, Returns, Becomes, Takes
  <2>10. CASE Stop(c)
    BY <2>10 DEF Stop, Lock, Becomes, CancelManager, TunnelDown
  <2>11. CASE Stopped(c)
    BY <2>11 DEF Stopped, Unlock, Returns, Becomes, Takes
  <2>12. CASE RoutesSwitched(c)
    BY <2>12 DEF RoutesSwitched, Becomes, Takes, CancelManager
  <2>13. CASE StartApplied(c)
    BY <2>13 DEF StartApplied, Unlock, Returns, Becomes, Takes
  <2>14. CASE Hangs(c)
    BY <2>14 DEF Hangs, Lock, Becomes
  <2> QED
    BY <1>2, <2>1, <2>2, <2>3, <2>4, <2>5, <2>6, <2>7, <2>8, <2>9, <2>10, <2>11,
       <2>12, <2>13, <2>14 DEF Serve
<1>3. ASSUME NEW g \in Restarters, Restart(g)
      PROVE  LockHeld'
  <2>1. CASE RestartSkipped(g)
    BY <2>1 DEF RestartSkipped, LockBriefly, Becomes
  <2>2. CASE RestartBegins(g)
    BY <2>2 DEF RestartBegins, Lock, Becomes, CancelManager, TunnelDown
  <2>3. CASE RestartReplaces(g)
    BY <2>3 DEF RestartReplaces, Becomes, Takes, NewManager, Unused
  <2>4. CASE RestartSucceeds(g)
    BY <2>4 DEF RestartSucceeds, Unlock, RestartReturns, Becomes, Takes,
       TunnelUp
  <2>5. CASE RestartSleeps(g)
    BY <2>5 DEF RestartSleeps, Unlock, Becomes, TunnelDown
  <2>6. CASE RestartOvertaken(g)
    BY <2>6 DEF RestartOvertaken, LockBriefly, RestartReturns, Becomes, Takes
  <2>7. CASE RestartTriesAgain(g)
    BY <2>7 DEF RestartTriesAgain, Lock, Becomes
  <2>8. CASE RestartGivesUp(g)
    BY <2>8 DEF RestartGivesUp, Lock, Becomes, CancelManager
  <2>9. CASE RestartFailed(g)
    BY <2>9 DEF RestartFailed, Unlock, RestartReturns, Becomes, Takes
  <2>10. CASE Hangs(g)
    BY <2>10 DEF Hangs, Lock, Becomes
  <2> QED
    BY <1>3, <2>1, <2>2, <2>3, <2>4, <2>5, <2>6, <2>7, <2>8, <2>9, <2>10 DEF Restart
<1>4. ASSUME NEW m \in Managers, ManagerNext(m)
      PROVE  LockHeld'
  <2>1. CASE ManagerCloses(m)
    BY <2>1 DEF ManagerCloses
  <2>2. CASE Wake(m)
    BY <2>2 DEF Wake
  <2>3. CASE OnWake(m)
    BY <2>3 DEF OnWake, LockBriefly, SpawnRestart, Becomes
  <2>4. CASE DialStuck(m)
    BY <2>4 DEF DialStuck
  <2>5. CASE OnStuck(m)
    BY <2>5 DEF OnStuck, LockBriefly, SpawnRestart, Becomes
  <2> QED
    BY <1>4, <2>1, <2>2, <2>3, <2>4, <2>5 DEF ManagerNext
<1>5. CASE Jam
  BY <1>5 DEF Jam
<1>6. CASE UNCHANGED vars
  BY <1>6
<1> QED
  BY <1>1, <1>2, <1>3, <1>4, <1>5, <1>6 DEF Next

\* A goroutine takes only a Manager that nothing refers to.
LEMMA ApartStep == IInv /\ [Next]_vars => Apart'
<1> SUFFICES ASSUME IInv, [Next]_vars
             PROVE  Apart'
  OBVIOUS
<1> USE DaemonAssumption
<1> USE DEF vars, daemonVars, platformVars, managerVars, threadVars, Threads,
       Holding, TypeOK, Apart, IInv
<1>1. ASSUME NEW c \in Clients, Call(c)
      PROVE  Apart'
  BY <1>1 DEF Call, CallSetRules, CallStop, CallStart, Becomes
<1>2. ASSUME NEW c \in Clients, Serve(c)
      PROVE  Apart'
  <2>1. CASE StartRefused(c)
    BY <2>1 DEF StartRefused, LockBriefly, Returns, Becomes, Takes
  <2>2. CASE StartSameRoutes(c)
    BY <2>2 DEF StartSameRoutes, LockBriefly, Returns, Becomes, Takes
  <2>3. CASE StartOtherRoutes(c)
    BY <2>3 DEF StartOtherRoutes, Lock, Becomes, Takes, NewManager, Unused
  <2>4. CASE StartFresh(c)
    BY <2>4 DEF StartFresh, Lock, Becomes, Takes, NewManager, Unused
  <2>5. CASE StartSucceeds(c)
    BY <2>5 DEF StartSucceeds, Unlock, Returns, Becomes, Takes, TunnelUp,
       FreshHandler
  <2>6. CASE StartFails(c)
    BY <2>6 DEF StartFails, Becomes, CancelManager, TunnelFails
  <2>7. CASE StartFailed(c)
    BY <2>7 DEF StartFailed, Unlock, Returns, Becomes, Takes, TunnelDown
  <2>8. CASE SetRules(c)
    BY <2>8 DEF SetRules, LockBriefly, Returns, Becomes, Takes
  <2>9. CASE StopNothing(c)
    BY <2>9 DEF StopNothing, LockBriefly, Returns, Becomes, Takes
  <2>10. CASE Stop(c)
    BY <2>10 DEF Stop, Lock, Becomes, CancelManager, TunnelDown
  <2>11. CASE Stopped(c)
    BY <2>11 DEF Stopped, Unlock, Returns, Becomes, Takes
  <2>12. CASE RoutesSwitched(c)
    BY <2>12 DEF RoutesSwitched, Becomes, Takes, CancelManager
  <2>13. CASE StartApplied(c)
    BY <2>13 DEF StartApplied, Unlock, Returns, Becomes, Takes
  <2>14. CASE Hangs(c)
    BY <2>14 DEF Hangs, Lock, Becomes
  <2> QED
    BY <1>2, <2>1, <2>2, <2>3, <2>4, <2>5, <2>6, <2>7, <2>8, <2>9, <2>10, <2>11,
       <2>12, <2>13, <2>14 DEF Serve
<1>3. ASSUME NEW g \in Restarters, Restart(g)
      PROVE  Apart'
  <2>1. CASE RestartSkipped(g)
    BY <2>1 DEF RestartSkipped, LockBriefly, Becomes
  <2>2. CASE RestartBegins(g)
    BY <2>2 DEF RestartBegins, Lock, Becomes, CancelManager, TunnelDown
  <2>3. CASE RestartReplaces(g)
    BY <2>3 DEF RestartReplaces, Becomes, Takes, NewManager, Unused
  <2>4. CASE RestartSucceeds(g)
    BY <2>4 DEF RestartSucceeds, Unlock, RestartReturns, Becomes, Takes,
       TunnelUp
  <2>5. CASE RestartSleeps(g)
    BY <2>5 DEF RestartSleeps, Unlock, Becomes, TunnelDown
  <2>6. CASE RestartOvertaken(g)
    BY <2>6 DEF RestartOvertaken, LockBriefly, RestartReturns, Becomes, Takes
  <2>7. CASE RestartTriesAgain(g)
    BY <2>7 DEF RestartTriesAgain, Lock, Becomes
  <2>8. CASE RestartGivesUp(g)
    BY <2>8 DEF RestartGivesUp, Lock, Becomes, CancelManager
  <2>9. CASE RestartFailed(g)
    BY <2>9 DEF RestartFailed, Unlock, RestartReturns, Becomes, Takes
  <2>10. CASE Hangs(g)
    BY <2>10 DEF Hangs, Lock, Becomes
  <2> QED
    BY <1>3, <2>1, <2>2, <2>3, <2>4, <2>5, <2>6, <2>7, <2>8, <2>9, <2>10 DEF Restart
<1>4. ASSUME NEW m \in Managers, ManagerNext(m)
      PROVE  Apart'
  <2>1. CASE ManagerCloses(m)
    BY <2>1 DEF ManagerCloses
  <2>2. CASE Wake(m)
    BY <2>2 DEF Wake
  <2>3. CASE OnWake(m)
    BY <2>3 DEF OnWake, LockBriefly, SpawnRestart, Becomes
  <2>4. CASE DialStuck(m)
    BY <2>4 DEF DialStuck
  <2>5. CASE OnStuck(m)
    BY <2>5 DEF OnStuck, LockBriefly, SpawnRestart, Becomes
  <2> QED
    BY <1>4, <2>1, <2>2, <2>3, <2>4, <2>5 DEF ManagerNext
<1>5. CASE Jam
  BY <1>5 DEF Jam
<1>6. CASE UNCHANGED vars
  BY <1>6
<1> QED
  BY <1>1, <1>2, <1>3, <1>4, <1>5, <1>6 DEF Next

\* Only Start makes the daemon running, with everything it needs, and Stop
\* takes all of it away at once.
LEMMA RunningStep == IInv /\ [Next]_vars => Running'
<1> SUFFICES ASSUME IInv, [Next]_vars
             PROVE  Running'
  OBVIOUS
<1> USE DaemonAssumption
<1> USE DEF vars, daemonVars, platformVars, managerVars, threadVars, Threads,
       Holding, TypeOK, LockHeld, Running, Calls, Restarts, IInv
<1>1. ASSUME NEW c \in Clients, Call(c)
      PROVE  Running'
  BY <1>1 DEF Call, CallSetRules, CallStop, CallStart, Becomes
<1>2. ASSUME NEW c \in Clients, Serve(c)
      PROVE  Running'
  <2>1. CASE StartRefused(c)
    BY <2>1 DEF StartRefused, LockBriefly, Returns, Becomes, Takes
  <2>2. CASE StartSameRoutes(c)
    BY <2>2 DEF StartSameRoutes, LockBriefly, Returns, Becomes, Takes
  <2>3. CASE StartOtherRoutes(c)
    BY <2>3 DEF StartOtherRoutes, Lock, Becomes, Takes, NewManager, Unused
  <2>4. CASE StartFresh(c)
    BY <2>4 DEF StartFresh, Lock, Becomes, Takes, NewManager, Unused
  <2>5. CASE StartSucceeds(c)
    BY <2>5 DEF StartSucceeds, Unlock, Returns, Becomes, Takes, TunnelUp,
       FreshHandler
  <2>6. CASE StartFails(c)
    BY <2>6 DEF StartFails, Becomes, CancelManager, TunnelFails
  <2>7. CASE StartFailed(c)
    BY <2>7 DEF StartFailed, Unlock, Returns, Becomes, Takes, TunnelDown
  <2>8. CASE SetRules(c)
    BY <2>8 DEF SetRules, LockBriefly, Returns, Becomes, Takes
  <2>9. CASE StopNothing(c)
    BY <2>9 DEF StopNothing, LockBriefly, Returns, Becomes, Takes
  <2>10. CASE Stop(c)
    BY <2>10 DEF Stop, Lock, Becomes, CancelManager, TunnelDown
  <2>11. CASE Stopped(c)
    BY <2>11 DEF Stopped, Unlock, Returns, Becomes, Takes
  <2>12. CASE RoutesSwitched(c)
    BY <2>12 DEF RoutesSwitched, Becomes, Takes, CancelManager
  <2>13. CASE StartApplied(c)
    BY <2>13 DEF StartApplied, Unlock, Returns, Becomes, Takes
  <2>14. CASE Hangs(c)
    BY <2>14 DEF Hangs, Lock, Becomes
  <2> QED
    BY <1>2, <2>1, <2>2, <2>3, <2>4, <2>5, <2>6, <2>7, <2>8, <2>9, <2>10, <2>11,
       <2>12, <2>13, <2>14 DEF Serve
<1>3. ASSUME NEW g \in Restarters, Restart(g)
      PROVE  Running'
  <2>1. CASE RestartSkipped(g)
    BY <2>1 DEF RestartSkipped, LockBriefly, Becomes
  <2>2. CASE RestartBegins(g)
    BY <2>2 DEF RestartBegins, Lock, Becomes, CancelManager, TunnelDown
  <2>3. CASE RestartReplaces(g)
    BY <2>3 DEF RestartReplaces, Becomes, Takes, NewManager, Unused
  <2>4. CASE RestartSucceeds(g)
    BY <2>4 DEF RestartSucceeds, Unlock, RestartReturns, Becomes, Takes,
       TunnelUp
  <2>5. CASE RestartSleeps(g)
    BY <2>5 DEF RestartSleeps, Unlock, Becomes, TunnelDown
  <2>6. CASE RestartOvertaken(g)
    BY <2>6 DEF RestartOvertaken, LockBriefly, RestartReturns, Becomes, Takes
  <2>7. CASE RestartTriesAgain(g)
    BY <2>7 DEF RestartTriesAgain, Lock, Becomes
  <2>8. CASE RestartGivesUp(g)
    BY <2>8 DEF RestartGivesUp, Lock, Becomes, CancelManager
  <2>9. CASE RestartFailed(g)
    BY <2>9 DEF RestartFailed, Unlock, RestartReturns, Becomes, Takes
  <2>10. CASE Hangs(g)
    BY <2>10 DEF Hangs, Lock, Becomes
  <2> QED
    BY <1>3, <2>1, <2>2, <2>3, <2>4, <2>5, <2>6, <2>7, <2>8, <2>9, <2>10 DEF Restart
<1>4. ASSUME NEW m \in Managers, ManagerNext(m)
      PROVE  Running'
  <2>1. CASE ManagerCloses(m)
    BY <2>1 DEF ManagerCloses
  <2>2. CASE Wake(m)
    BY <2>2 DEF Wake
  <2>3. CASE OnWake(m)
    BY <2>3 DEF OnWake, LockBriefly, SpawnRestart, Becomes
  <2>4. CASE DialStuck(m)
    BY <2>4 DEF DialStuck
  <2>5. CASE OnStuck(m)
    BY <2>5 DEF OnStuck, LockBriefly, SpawnRestart, Becomes
  <2> QED
    BY <1>4, <2>1, <2>2, <2>3, <2>4, <2>5 DEF ManagerNext
<1>5. CASE Jam
  BY <1>5 DEF Jam
<1>6. CASE UNCHANGED vars
  BY <1>6
<1> QED
  BY <1>1, <1>2, <1>3, <1>4, <1>5, <1>6 DEF Next

\* What a call relies on is not disturbed while it has the lock: a goroutine
\* of a Manager gets no further than the door.
LEMMA CallsStep == IInv /\ [Next]_vars => Calls'
<1> SUFFICES ASSUME IInv, [Next]_vars
             PROVE  Calls'
  OBVIOUS
<1> USE DaemonAssumption
<1> USE DEF vars, daemonVars, platformVars, managerVars, threadVars, Threads,
       Holding, TypeOK, LockHeld, Apart, Running, Calls, GoingDown, IInv
<1>1. ASSUME NEW c \in Clients, Call(c)
      PROVE  Calls'
  BY <1>1 DEF Call, CallSetRules, CallStop, CallStart, Becomes
<1>2. ASSUME NEW c \in Clients, Serve(c)
      PROVE  Calls'
  <2>1. CASE StartRefused(c)
    BY <2>1 DEF StartRefused, LockBriefly, Returns, Becomes, Takes
  <2>2. CASE StartSameRoutes(c)
    BY <2>2 DEF StartSameRoutes, LockBriefly, Returns, Becomes, Takes
  <2>3. CASE StartOtherRoutes(c)
    <3>1. /\ at[c] = "start" /\ mu = None /\ dstate = "running" /\ dstate' = dstate
          /\ at' = [at EXCEPT ![c] = "switching"]
          /\ mine' = [mine EXCEPT ![c] = current]
          /\ UNCHANGED <<cfg, routes, tunnel, arg>>
      BY <2>3 DEF StartOtherRoutes, Lock, Becomes, Takes
    <3>2. PICK m \in Unused : /\ life' = [life EXCEPT ![m] = "open"]
                              /\ serves' = [serves EXCEPT ![m] = arg[c]]
                              /\ current' = m
      BY <2>3 DEF StartOtherRoutes, NewManager
    <3>3. /\ current \in Managers \ {m}
          /\ routes = current /\ life[current] = "open" /\ serves[current] = cfg
      BY <3>1, <3>2 DEF Wired, Unused
    <3>4. tunnel' = None => overtaken'
      <4>1. overtaken' = (overtaken \/ \E g \in Restarters : at[g] = "asleep" /\ mine[g] = current)
        BY <2>3 DEF StartOtherRoutes
      <4>2. tunnel = None /\ ~overtaken =>
                \E g \in Restarters : at[g] = "asleep" /\ mine[g] = current
        BY <3>1 DEF DownOnlyWhileRestarting
      <4> QED
        BY <3>1, <4>1, <4>2, Zenon
    <3>5. \A d \in Clients \ {c} : at'[d] = at[d] /\ arg'[d] = arg[d] /\ at[d] \notin Holding
      BY <3>1
    <3>6. /\ at'[c] = "switching" /\ arg'[c] \in Configs /\ mine'[c] = current
          /\ life'[m] = "open" /\ serves'[m] = arg'[c]
          /\ life'[current] = "open" /\ serves'[current] = cfg'
      BY <3>1, <3>2, <3>3 DEF Unused
    <3>7. ASSUME NEW d \in Clients, d # c
          PROVE  at'[d] \notin Holding /\ (at'[d] = "start" => arg'[d] \in Configs)
      BY <3>5, <3>7
    <3> QED
      BY <3>1, <3>2, <3>3, <3>4, <3>6, <3>7
  <2>4. CASE StartFresh(c)
    BY <2>4 DEF StartFresh, Lock, Becomes, Takes, NewManager, Unused
  <2>5. CASE StartSucceeds(c)
    BY <2>5 DEF StartSucceeds, Unlock, Returns, Becomes, Takes, TunnelUp,
       FreshHandler
  <2>6. CASE StartFails(c)
    BY <2>6 DEF StartFails, Becomes, CancelManager, TunnelFails
  <2>7. CASE StartFailed(c)
    BY <2>7 DEF StartFailed, Unlock, Returns, Becomes, Takes, TunnelDown
  <2>8. CASE SetRules(c)
    BY <2>8 DEF SetRules, LockBriefly, Returns, Becomes, Takes
  <2>9. CASE StopNothing(c)
    BY <2>9 DEF StopNothing, LockBriefly, Returns, Becomes, Takes
  <2>10. CASE Stop(c)
    BY <2>10 DEF Stop, Lock, Becomes, CancelManager, TunnelDown
  <2>11. CASE Stopped(c)
    BY <2>11 DEF Stopped, Unlock, Returns, Becomes, Takes
  <2>12. CASE RoutesSwitched(c)
    BY <2>12 DEF RoutesSwitched, Becomes, Takes, CancelManager
  <2>13. CASE StartApplied(c)
    BY <2>13 DEF StartApplied, Unlock, Returns, Becomes, Takes
  <2>14. CASE Hangs(c)
    BY <2>14 DEF Hangs, Lock, Becomes
  <2> QED
    BY <1>2, <2>1, <2>2, <2>3, <2>4, <2>5, <2>6, <2>7, <2>8, <2>9, <2>10, <2>11,
       <2>12, <2>13, <2>14 DEF Serve
<1>3. ASSUME NEW g \in Restarters, Restart(g)
      PROVE  Calls'
  <2>1. CASE RestartSkipped(g)
    BY <2>1 DEF RestartSkipped, LockBriefly, Becomes
  <2>2. CASE RestartBegins(g)
    BY <2>2 DEF RestartBegins, Lock, Becomes, CancelManager, TunnelDown
  <2>3. CASE RestartReplaces(g)
    BY <2>3 DEF RestartReplaces, Becomes, Takes, NewManager, Unused
  <2>4. CASE RestartSucceeds(g)
    BY <2>4 DEF RestartSucceeds, Unlock, RestartReturns, Becomes, Takes,
       TunnelUp
  <2>5. CASE RestartSleeps(g)
    BY <2>5 DEF RestartSleeps, Unlock, Becomes, TunnelDown
  <2>6. CASE RestartOvertaken(g)
    BY <2>6 DEF RestartOvertaken, LockBriefly, RestartReturns, Becomes, Takes
  <2>7. CASE RestartTriesAgain(g)
    BY <2>7 DEF RestartTriesAgain, Lock, Becomes
  <2>8. CASE RestartGivesUp(g)
    BY <2>8 DEF RestartGivesUp, Lock, Becomes, CancelManager
  <2>9. CASE RestartFailed(g)
    BY <2>9 DEF RestartFailed, Unlock, RestartReturns, Becomes, Takes
  <2>10. CASE Hangs(g)
    BY <2>10 DEF Hangs, Lock, Becomes
  <2> QED
    BY <1>3, <2>1, <2>2, <2>3, <2>4, <2>5, <2>6, <2>7, <2>8, <2>9, <2>10 DEF Restart
<1>4. ASSUME NEW m \in Managers, ManagerNext(m)
      PROVE  Calls'
  <2>1. CASE ManagerCloses(m)
    BY <2>1 DEF ManagerCloses
  <2>2. CASE Wake(m)
    BY <2>2 DEF Wake
  <2>3. CASE OnWake(m)
    BY <2>3 DEF OnWake, LockBriefly, SpawnRestart, Becomes
  <2>4. CASE DialStuck(m)
    BY <2>4 DEF DialStuck
  <2>5. CASE OnStuck(m)
    BY <2>5 DEF OnStuck, LockBriefly, SpawnRestart, Becomes
  <2> QED
    BY <1>4, <2>1, <2>2, <2>3, <2>4, <2>5 DEF ManagerNext
<1>5. CASE Jam
  BY <1>5 DEF Jam
<1>6. CASE UNCHANGED vars
  BY <1>6
<1> QED
  BY <1>1, <1>2, <1>3, <1>4, <1>5, <1>6 DEF Next

\* Nor is what a restart relies on, from its first step to its sleep and,
\* when it finds its own chains, on from there.
LEMMA RestartsStep == IInv /\ [Next]_vars => Restarts'
<1> SUFFICES ASSUME IInv, [Next]_vars
             PROVE  Restarts'
  OBVIOUS
<1> USE DaemonAssumption
<1> USE DEF vars, daemonVars, platformVars, managerVars, threadVars, Threads,
       Holding, TypeOK, LockHeld, Apart, Running, Restarts, Sleepers,
       GoingDown, IInv
<1>1. ASSUME NEW c \in Clients, Call(c)
      PROVE  Restarts'
  BY <1>1 DEF Call, CallSetRules, CallStop, CallStart, Becomes
<1>2. ASSUME NEW c \in Clients, Serve(c)
      PROVE  Restarts'
  <2>1. CASE StartRefused(c)
    BY <2>1 DEF StartRefused, LockBriefly, Returns, Becomes, Takes
  <2>2. CASE StartSameRoutes(c)
    BY <2>2 DEF StartSameRoutes, LockBriefly, Returns, Becomes, Takes
  <2>3. CASE StartOtherRoutes(c)
    BY <2>3 DEF StartOtherRoutes, Lock, Becomes, Takes, NewManager, Unused
  <2>4. CASE StartFresh(c)
    BY <2>4 DEF StartFresh, Lock, Becomes, Takes, NewManager, Unused
  <2>5. CASE StartSucceeds(c)
    BY <2>5 DEF StartSucceeds, Unlock, Returns, Becomes, Takes, TunnelUp,
       FreshHandler
  <2>6. CASE StartFails(c)
    BY <2>6 DEF StartFails, Becomes, CancelManager, TunnelFails
  <2>7. CASE StartFailed(c)
    BY <2>7 DEF StartFailed, Unlock, Returns, Becomes, Takes, TunnelDown
  <2>8. CASE SetRules(c)
    BY <2>8 DEF SetRules, LockBriefly, Returns, Becomes, Takes
  <2>9. CASE StopNothing(c)
    BY <2>9 DEF StopNothing, LockBriefly, Returns, Becomes, Takes
  <2>10. CASE Stop(c)
    BY <2>10 DEF Stop, Lock, Becomes, CancelManager, TunnelDown
  <2>11. CASE Stopped(c)
    BY <2>11 DEF Stopped, Unlock, Returns, Becomes, Takes
  <2>12. CASE RoutesSwitched(c)
    BY <2>12 DEF RoutesSwitched, Becomes, Takes, CancelManager
  <2>13. CASE StartApplied(c)
    BY <2>13 DEF StartApplied, Unlock, Returns, Becomes, Takes
  <2>14. CASE Hangs(c)
    BY <2>14 DEF Hangs, Lock, Becomes
  <2> QED
    BY <1>2, <2>1, <2>2, <2>3, <2>4, <2>5, <2>6, <2>7, <2>8, <2>9, <2>10, <2>11,
       <2>12, <2>13, <2>14 DEF Serve
<1>3. ASSUME NEW g \in Restarters, Restart(g)
      PROVE  Restarts'
  <2>1. CASE RestartSkipped(g)
    BY <2>1 DEF RestartSkipped, LockBriefly, Becomes
  <2>2. CASE RestartBegins(g)
    BY <2>2 DEF RestartBegins, Lock, Becomes, CancelManager, TunnelDown
  <2>3. CASE RestartReplaces(g)
    BY <2>3 DEF RestartReplaces, Becomes, Takes, NewManager, Unused
  <2>4. CASE RestartSucceeds(g)
    BY <2>4 DEF RestartSucceeds, Unlock, RestartReturns, Becomes, Takes,
       TunnelUp
  <2>5. CASE RestartSleeps(g)
    BY <2>5 DEF RestartSleeps, Unlock, Becomes, TunnelDown
  <2>6. CASE RestartOvertaken(g)
    BY <2>6 DEF RestartOvertaken, LockBriefly, RestartReturns, Becomes, Takes
  <2>7. CASE RestartTriesAgain(g)
    BY <2>7 DEF RestartTriesAgain, Lock, Becomes
  <2>8. CASE RestartGivesUp(g)
    BY <2>8 DEF RestartGivesUp, Lock, Becomes, CancelManager
  <2>9. CASE RestartFailed(g)
    BY <2>9 DEF RestartFailed, Unlock, RestartReturns, Becomes, Takes
  <2>10. CASE Hangs(g)
    BY <2>10 DEF Hangs, Lock, Becomes
  <2> QED
    BY <1>3, <2>1, <2>2, <2>3, <2>4, <2>5, <2>6, <2>7, <2>8, <2>9, <2>10 DEF Restart
<1>4. ASSUME NEW m \in Managers, ManagerNext(m)
      PROVE  Restarts'
  <2>1. CASE ManagerCloses(m)
    BY <2>1 DEF ManagerCloses
  <2>2. CASE Wake(m)
    BY <2>2 DEF Wake
  <2>3. CASE OnWake(m)
    BY <2>3 DEF OnWake, LockBriefly, SpawnRestart, Becomes
  <2>4. CASE DialStuck(m)
    BY <2>4 DEF DialStuck
  <2>5. CASE OnStuck(m)
    BY <2>5 DEF OnStuck, LockBriefly, SpawnRestart, Becomes
  <2> QED
    BY <1>4, <2>1, <2>2, <2>3, <2>4, <2>5 DEF ManagerNext
<1>5. CASE Jam
  BY <1>5 DEF Jam
<1>6. CASE UNCHANGED vars
  BY <1>6
<1> QED
  BY <1>1, <1>2, <1>3, <1>4, <1>5, <1>6 DEF Next

-----------------------------------------------------------------------------
(* A restart that sleeps *)

\* While a restart sleeps, whatever changes the tunnel, the handler or the
\* state also takes its chains away.
LEMMA SleepersStep == IInv /\ [Next]_vars => Sleepers'
<1> SUFFICES ASSUME IInv, [Next]_vars
             PROVE  Sleepers'
  OBVIOUS
<1> USE DaemonAssumption
<1> USE DEF vars, daemonVars, platformVars, managerVars, threadVars, Threads,
       Holding, TypeOK, LockHeld, Apart, Running, Calls, Restarts,
       Sleepers, GoingDown, IInv
<1>1. ASSUME NEW c \in Clients, Call(c)
      PROVE  Sleepers'
  BY <1>1 DEF Call, CallSetRules, CallStop, CallStart, Becomes
<1>2. ASSUME NEW c \in Clients, Serve(c)
      PROVE  Sleepers'
  <2>1. CASE StartRefused(c)
    BY <2>1 DEF StartRefused, LockBriefly, Returns, Becomes, Takes
  <2>2. CASE StartSameRoutes(c)
    BY <2>2 DEF StartSameRoutes, LockBriefly, Returns, Becomes, Takes
  <2>3. CASE StartOtherRoutes(c)
    BY <2>3 DEF StartOtherRoutes, Lock, Becomes, Takes, NewManager, Unused
  <2>4. CASE StartFresh(c)
    BY <2>4 DEF StartFresh, Lock, Becomes, Takes, NewManager, Unused
  <2>5. CASE StartSucceeds(c)
    BY <2>5 DEF StartSucceeds, Unlock, Returns, Becomes, Takes, TunnelUp,
       FreshHandler
  <2>6. CASE StartFails(c)
    BY <2>6 DEF StartFails, Becomes, CancelManager, TunnelFails
  <2>7. CASE StartFailed(c)
    BY <2>7 DEF StartFailed, Unlock, Returns, Becomes, Takes, TunnelDown
  <2>8. CASE SetRules(c)
    BY <2>8 DEF SetRules, LockBriefly, Returns, Becomes, Takes
  <2>9. CASE StopNothing(c)
    BY <2>9 DEF StopNothing, LockBriefly, Returns, Becomes, Takes
  <2>10. CASE Stop(c)
    BY <2>10 DEF Stop, Lock, Becomes, CancelManager, TunnelDown
  <2>11. CASE Stopped(c)
    BY <2>11 DEF Stopped, Unlock, Returns, Becomes, Takes
  <2>12. CASE RoutesSwitched(c)
    BY <2>12 DEF RoutesSwitched, Becomes, Takes, CancelManager
  <2>13. CASE StartApplied(c)
    BY <2>13 DEF StartApplied, Unlock, Returns, Becomes, Takes
  <2>14. CASE Hangs(c)
    BY <2>14 DEF Hangs, Lock, Becomes
  <2> QED
    BY <1>2, <2>1, <2>2, <2>3, <2>4, <2>5, <2>6, <2>7, <2>8, <2>9, <2>10, <2>11,
       <2>12, <2>13, <2>14 DEF Serve
<1>3. ASSUME NEW g \in Restarters, Restart(g)
      PROVE  Sleepers'
  <2>1. CASE RestartSkipped(g)
    BY <2>1 DEF RestartSkipped, LockBriefly, Becomes
  <2>2. CASE RestartBegins(g)
    BY <2>2 DEF RestartBegins, Lock, Becomes, CancelManager, TunnelDown
  <2>3. CASE RestartReplaces(g)
    BY <2>3 DEF RestartReplaces, Becomes, Takes, NewManager, Unused
  <2>4. CASE RestartSucceeds(g)
    BY <2>4 DEF RestartSucceeds, Unlock, RestartReturns, Becomes, Takes,
       TunnelUp
  <2>5. CASE RestartSleeps(g)
    BY <2>5 DEF RestartSleeps, Unlock, Becomes, TunnelDown
  <2>6. CASE RestartOvertaken(g)
    BY <2>6 DEF RestartOvertaken, LockBriefly, RestartReturns, Becomes, Takes
  <2>7. CASE RestartTriesAgain(g)
    BY <2>7 DEF RestartTriesAgain, Lock, Becomes
  <2>8. CASE RestartGivesUp(g)
    BY <2>8 DEF RestartGivesUp, Lock, Becomes, CancelManager
  <2>9. CASE RestartFailed(g)
    BY <2>9 DEF RestartFailed, Unlock, RestartReturns, Becomes, Takes
  <2>10. CASE Hangs(g)
    BY <2>10 DEF Hangs, Lock, Becomes
  <2> QED
    BY <1>3, <2>1, <2>2, <2>3, <2>4, <2>5, <2>6, <2>7, <2>8, <2>9, <2>10 DEF Restart
<1>4. ASSUME NEW m \in Managers, ManagerNext(m)
      PROVE  Sleepers'
  <2>1. CASE ManagerCloses(m)
    BY <2>1 DEF ManagerCloses
  <2>2. CASE Wake(m)
    BY <2>2 DEF Wake
  <2>3. CASE OnWake(m)
    BY <2>3 DEF OnWake, LockBriefly, SpawnRestart, Becomes
  <2>4. CASE DialStuck(m)
    BY <2>4 DEF DialStuck
  <2>5. CASE OnStuck(m)
    BY <2>5 DEF OnStuck, LockBriefly, SpawnRestart, Becomes
  <2> QED
    BY <1>4, <2>1, <2>2, <2>3, <2>4, <2>5 DEF ManagerNext
<1>5. CASE Jam
  BY <1>5 DEF Jam
<1>6. CASE UNCHANGED vars
  BY <1>6
<1> QED
  BY <1>1, <1>2, <1>3, <1>4, <1>5, <1>6 DEF Next

-----------------------------------------------------------------------------
(* The data plane, the tunnel and the Managers *)

\* The daemon's chains, the data plane's and the config change together.
LEMMA WiredStep == IInv /\ [Next]_vars => Wired'
<1> SUFFICES ASSUME IInv, [Next]_vars
             PROVE  Wired'
  OBVIOUS
<1> USE DaemonAssumption
<1> USE DEF vars, daemonVars, platformVars, managerVars, threadVars, Threads,
       Holding, TypeOK, LockHeld, Apart, Running, Calls, Restarts,
       Sleepers, Wired, GoingDown, IInv
<1>1. ASSUME NEW c \in Clients, Call(c)
      PROVE  Wired'
  BY <1>1 DEF Call, CallSetRules, CallStop, CallStart, Becomes
<1>2. ASSUME NEW c \in Clients, Serve(c)
      PROVE  Wired'
  <2>1. CASE StartRefused(c)
    BY <2>1 DEF StartRefused, LockBriefly, Returns, Becomes, Takes
  <2>2. CASE StartSameRoutes(c)
    BY <2>2 DEF StartSameRoutes, LockBriefly, Returns, Becomes, Takes
  <2>3. CASE StartOtherRoutes(c)
    BY <2>3 DEF StartOtherRoutes, Lock, Becomes, Takes, NewManager, Unused
  <2>4. CASE StartFresh(c)
    BY <2>4 DEF StartFresh, Lock, Becomes, Takes, NewManager, Unused
  <2>5. CASE StartSucceeds(c)
    BY <2>5 DEF StartSucceeds, Unlock, Returns, Becomes, Takes, TunnelUp,
       FreshHandler
  <2>6. CASE StartFails(c)
    BY <2>6 DEF StartFails, Becomes, CancelManager, TunnelFails
  <2>7. CASE StartFailed(c)
    BY <2>7 DEF StartFailed, Unlock, Returns, Becomes, Takes, TunnelDown
  <2>8. CASE SetRules(c)
    BY <2>8 DEF SetRules, LockBriefly, Returns, Becomes, Takes
  <2>9. CASE StopNothing(c)
    BY <2>9 DEF StopNothing, LockBriefly, Returns, Becomes, Takes
  <2>10. CASE Stop(c)
    BY <2>10 DEF Stop, Lock, Becomes, CancelManager, TunnelDown
  <2>11. CASE Stopped(c)
    BY <2>11 DEF Stopped, Unlock, Returns, Becomes, Takes
  <2>12. CASE RoutesSwitched(c)
    BY <2>12 DEF RoutesSwitched, Becomes, Takes, CancelManager
  <2>13. CASE StartApplied(c)
    BY <2>13 DEF StartApplied, Unlock, Returns, Becomes, Takes
  <2>14. CASE Hangs(c)
    BY <2>14 DEF Hangs, Lock, Becomes
  <2> QED
    BY <1>2, <2>1, <2>2, <2>3, <2>4, <2>5, <2>6, <2>7, <2>8, <2>9, <2>10, <2>11,
       <2>12, <2>13, <2>14 DEF Serve
<1>3. ASSUME NEW g \in Restarters, Restart(g)
      PROVE  Wired'
  <2>1. CASE RestartSkipped(g)
    BY <2>1 DEF RestartSkipped, LockBriefly, Becomes
  <2>2. CASE RestartBegins(g)
    BY <2>2 DEF RestartBegins, Lock, Becomes, CancelManager, TunnelDown
  <2>3. CASE RestartReplaces(g)
    BY <2>3 DEF RestartReplaces, Becomes, Takes, NewManager, Unused
  <2>4. CASE RestartSucceeds(g)
    BY <2>4 DEF RestartSucceeds, Unlock, RestartReturns, Becomes, Takes,
       TunnelUp
  <2>5. CASE RestartSleeps(g)
    BY <2>5 DEF RestartSleeps, Unlock, Becomes, TunnelDown
  <2>6. CASE RestartOvertaken(g)
    BY <2>6 DEF RestartOvertaken, LockBriefly, RestartReturns, Becomes, Takes
  <2>7. CASE RestartTriesAgain(g)
    BY <2>7 DEF RestartTriesAgain, Lock, Becomes
  <2>8. CASE RestartGivesUp(g)
    BY <2>8 DEF RestartGivesUp, Lock, Becomes, CancelManager
  <2>9. CASE RestartFailed(g)
    BY <2>9 DEF RestartFailed, Unlock, RestartReturns, Becomes, Takes
  <2>10. CASE Hangs(g)
    BY <2>10 DEF Hangs, Lock, Becomes
  <2> QED
    BY <1>3, <2>1, <2>2, <2>3, <2>4, <2>5, <2>6, <2>7, <2>8, <2>9, <2>10 DEF Restart
<1>4. ASSUME NEW m \in Managers, ManagerNext(m)
      PROVE  Wired'
  <2>1. CASE ManagerCloses(m)
    BY <2>1 DEF ManagerCloses
  <2>2. CASE Wake(m)
    BY <2>2 DEF Wake
  <2>3. CASE OnWake(m)
    BY <2>3 DEF OnWake, LockBriefly, SpawnRestart, Becomes
  <2>4. CASE DialStuck(m)
    BY <2>4 DEF DialStuck
  <2>5. CASE OnStuck(m)
    BY <2>5 DEF OnStuck, LockBriefly, SpawnRestart, Becomes
  <2> QED
    BY <1>4, <2>1, <2>2, <2>3, <2>4, <2>5 DEF ManagerNext
<1>5. CASE Jam
  BY <1>5 DEF Jam
<1>6. CASE UNCHANGED vars
  BY <1>6
<1> QED
  BY <1>1, <1>2, <1>3, <1>4, <1>5, <1>6 DEF Next

\* The tunnel comes up only with the handler the daemon has.
LEMMA TunnelStep == IInv /\ [Next]_vars => TunnelFeedsHandler'
<1> SUFFICES ASSUME IInv, [Next]_vars
             PROVE  TunnelFeedsHandler'
  OBVIOUS
<1> USE DaemonAssumption
<1> USE DEF vars, daemonVars, platformVars, managerVars, threadVars, Threads,
       Holding, TypeOK, LockHeld, Running, Calls, Restarts,
       Sleepers, TunnelFeedsHandler, GoingDown, IInv
<1>1. ASSUME NEW c \in Clients, Call(c)
      PROVE  TunnelFeedsHandler'
  BY <1>1 DEF Call, CallSetRules, CallStop, CallStart, Becomes
<1>2. ASSUME NEW c \in Clients, Serve(c)
      PROVE  TunnelFeedsHandler'
  <2>1. CASE StartRefused(c)
    BY <2>1 DEF StartRefused, LockBriefly, Returns, Becomes, Takes
  <2>2. CASE StartSameRoutes(c)
    BY <2>2 DEF StartSameRoutes, LockBriefly, Returns, Becomes, Takes
  <2>3. CASE StartOtherRoutes(c)
    BY <2>3 DEF StartOtherRoutes, Lock, Becomes, Takes, NewManager, Unused
  <2>4. CASE StartFresh(c)
    BY <2>4 DEF StartFresh, Lock, Becomes, Takes, NewManager, Unused
  <2>5. CASE StartSucceeds(c)
    BY <2>5 DEF StartSucceeds, Unlock, Returns, Becomes, Takes, TunnelUp,
       FreshHandler
  <2>6. CASE StartFails(c)
    BY <2>6 DEF StartFails, Becomes, CancelManager, TunnelFails
  <2>7. CASE StartFailed(c)
    BY <2>7 DEF StartFailed, Unlock, Returns, Becomes, Takes, TunnelDown
  <2>8. CASE SetRules(c)
    BY <2>8 DEF SetRules, LockBriefly, Returns, Becomes, Takes
  <2>9. CASE StopNothing(c)
    BY <2>9 DEF StopNothing, LockBriefly, Returns, Becomes, Takes
  <2>10. CASE Stop(c)
    BY <2>10 DEF Stop, Lock, Becomes, CancelManager, TunnelDown
  <2>11. CASE Stopped(c)
    BY <2>11 DEF Stopped, Unlock, Returns, Becomes, Takes
  <2>12. CASE RoutesSwitched(c)
    BY <2>12 DEF RoutesSwitched, Becomes, Takes, CancelManager
  <2>13. CASE StartApplied(c)
    BY <2>13 DEF StartApplied, Unlock, Returns, Becomes, Takes
  <2>14. CASE Hangs(c)
    BY <2>14 DEF Hangs, Lock, Becomes
  <2> QED
    BY <1>2, <2>1, <2>2, <2>3, <2>4, <2>5, <2>6, <2>7, <2>8, <2>9, <2>10, <2>11,
       <2>12, <2>13, <2>14 DEF Serve
<1>3. ASSUME NEW g \in Restarters, Restart(g)
      PROVE  TunnelFeedsHandler'
  <2>1. CASE RestartSkipped(g)
    BY <2>1 DEF RestartSkipped, LockBriefly, Becomes
  <2>2. CASE RestartBegins(g)
    BY <2>2 DEF RestartBegins, Lock, Becomes, CancelManager, TunnelDown
  <2>3. CASE RestartReplaces(g)
    BY <2>3 DEF RestartReplaces, Becomes, Takes, NewManager, Unused
  <2>4. CASE RestartSucceeds(g)
    BY <2>4 DEF RestartSucceeds, Unlock, RestartReturns, Becomes, Takes,
       TunnelUp
  <2>5. CASE RestartSleeps(g)
    BY <2>5 DEF RestartSleeps, Unlock, Becomes, TunnelDown
  <2>6. CASE RestartOvertaken(g)
    BY <2>6 DEF RestartOvertaken, LockBriefly, RestartReturns, Becomes, Takes
  <2>7. CASE RestartTriesAgain(g)
    BY <2>7 DEF RestartTriesAgain, Lock, Becomes
  <2>8. CASE RestartGivesUp(g)
    BY <2>8 DEF RestartGivesUp, Lock, Becomes, CancelManager
  <2>9. CASE RestartFailed(g)
    BY <2>9 DEF RestartFailed, Unlock, RestartReturns, Becomes, Takes
  <2>10. CASE Hangs(g)
    BY <2>10 DEF Hangs, Lock, Becomes
  <2> QED
    BY <1>3, <2>1, <2>2, <2>3, <2>4, <2>5, <2>6, <2>7, <2>8, <2>9, <2>10 DEF Restart
<1>4. ASSUME NEW m \in Managers, ManagerNext(m)
      PROVE  TunnelFeedsHandler'
  <2>1. CASE ManagerCloses(m)
    BY <2>1 DEF ManagerCloses
  <2>2. CASE Wake(m)
    BY <2>2 DEF Wake
  <2>3. CASE OnWake(m)
    BY <2>3 DEF OnWake, LockBriefly, SpawnRestart, Becomes
  <2>4. CASE DialStuck(m)
    BY <2>4 DEF DialStuck
  <2>5. CASE OnStuck(m)
    BY <2>5 DEF OnStuck, LockBriefly, SpawnRestart, Becomes
  <2> QED
    BY <1>4, <2>1, <2>2, <2>3, <2>4, <2>5 DEF ManagerNext
<1>5. CASE Jam
  BY <1>5 DEF Jam
<1>6. CASE UNCHANGED vars
  BY <1>6
<1> QED
  BY <1>1, <1>2, <1>3, <1>4, <1>5, <1>6 DEF Next

\* A Manager that is let go of is being closed.
LEMMA LeakStep == IInv /\ [Next]_vars => NoManagerLeaks'
<1> SUFFICES ASSUME IInv, [Next]_vars
             PROVE  NoManagerLeaks'
  OBVIOUS
<1> USE DaemonAssumption
<1> USE DEF vars, daemonVars, platformVars, managerVars, threadVars, Threads,
       Holding, TypeOK, LockHeld, Apart, Running, Calls, Restarts,
       Wired, NoManagerLeaks, GoingDown, IInv
<1>1. ASSUME NEW c \in Clients, Call(c)
      PROVE  NoManagerLeaks'
  BY <1>1 DEF Call, CallSetRules, CallStop, CallStart, Becomes
<1>2. ASSUME NEW c \in Clients, Serve(c)
      PROVE  NoManagerLeaks'
  <2>1. CASE StartRefused(c)
    BY <2>1 DEF StartRefused, LockBriefly, Returns, Becomes, Takes
  <2>2. CASE StartSameRoutes(c)
    BY <2>2 DEF StartSameRoutes, LockBriefly, Returns, Becomes, Takes
  <2>3. CASE StartOtherRoutes(c)
    BY <2>3 DEF StartOtherRoutes, Lock, Becomes, Takes, NewManager, Unused
  <2>4. CASE StartFresh(c)
    BY <2>4 DEF StartFresh, Lock, Becomes, Takes, NewManager, Unused
  <2>5. CASE StartSucceeds(c)
    BY <2>5 DEF StartSucceeds, Unlock, Returns, Becomes, Takes, TunnelUp,
       FreshHandler
  <2>6. CASE StartFails(c)
    BY <2>6 DEF StartFails, Becomes, CancelManager, TunnelFails
  <2>7. CASE StartFailed(c)
    BY <2>7 DEF StartFailed, Unlock, Returns, Becomes, Takes, TunnelDown
  <2>8. CASE SetRules(c)
    BY <2>8 DEF SetRules, LockBriefly, Returns, Becomes, Takes
  <2>9. CASE StopNothing(c)
    BY <2>9 DEF StopNothing, LockBriefly, Returns, Becomes, Takes
  <2>10. CASE Stop(c)
    BY <2>10 DEF Stop, Lock, Becomes, CancelManager, TunnelDown
  <2>11. CASE Stopped(c)
    BY <2>11 DEF Stopped, Unlock, Returns, Becomes, Takes
  <2>12. CASE RoutesSwitched(c)
    BY <2>12 DEF RoutesSwitched, Becomes, Takes, CancelManager
  <2>13. CASE StartApplied(c)
    BY <2>13 DEF StartApplied, Unlock, Returns, Becomes, Takes
  <2>14. CASE Hangs(c)
    BY <2>14 DEF Hangs, Lock, Becomes
  <2> QED
    BY <1>2, <2>1, <2>2, <2>3, <2>4, <2>5, <2>6, <2>7, <2>8, <2>9, <2>10, <2>11,
       <2>12, <2>13, <2>14 DEF Serve
<1>3. ASSUME NEW g \in Restarters, Restart(g)
      PROVE  NoManagerLeaks'
  <2>1. CASE RestartSkipped(g)
    BY <2>1 DEF RestartSkipped, LockBriefly, Becomes
  <2>2. CASE RestartBegins(g)
    BY <2>2 DEF RestartBegins, Lock, Becomes, CancelManager, TunnelDown
  <2>3. CASE RestartReplaces(g)
    BY <2>3 DEF RestartReplaces, Becomes, Takes, NewManager, Unused
  <2>4. CASE RestartSucceeds(g)
    BY <2>4 DEF RestartSucceeds, Unlock, RestartReturns, Becomes, Takes,
       TunnelUp
  <2>5. CASE RestartSleeps(g)
    BY <2>5 DEF RestartSleeps, Unlock, Becomes, TunnelDown
  <2>6. CASE RestartOvertaken(g)
    BY <2>6 DEF RestartOvertaken, LockBriefly, RestartReturns, Becomes, Takes
  <2>7. CASE RestartTriesAgain(g)
    BY <2>7 DEF RestartTriesAgain, Lock, Becomes
  <2>8. CASE RestartGivesUp(g)
    BY <2>8 DEF RestartGivesUp, Lock, Becomes, CancelManager
  <2>9. CASE RestartFailed(g)
    BY <2>9 DEF RestartFailed, Unlock, RestartReturns, Becomes, Takes
  <2>10. CASE Hangs(g)
    BY <2>10 DEF Hangs, Lock, Becomes
  <2> QED
    BY <1>3, <2>1, <2>2, <2>3, <2>4, <2>5, <2>6, <2>7, <2>8, <2>9, <2>10 DEF Restart
<1>4. ASSUME NEW m \in Managers, ManagerNext(m)
      PROVE  NoManagerLeaks'
  <2>1. CASE ManagerCloses(m)
    BY <2>1 DEF ManagerCloses
  <2>2. CASE Wake(m)
    BY <2>2 DEF Wake
  <2>3. CASE OnWake(m)
    BY <2>3 DEF OnWake, LockBriefly, SpawnRestart, Becomes
  <2>4. CASE DialStuck(m)
    BY <2>4 DEF DialStuck
  <2>5. CASE OnStuck(m)
    BY <2>5 DEF OnStuck, LockBriefly, SpawnRestart, Becomes
  <2> QED
    BY <1>4, <2>1, <2>2, <2>3, <2>4, <2>5 DEF ManagerNext
<1>5. CASE Jam
  BY <1>5 DEF Jam
<1>6. CASE UNCHANGED vars
  BY <1>6
<1> QED
  BY <1>1, <1>2, <1>3, <1>4, <1>5, <1>6 DEF Next

\* A restart that leaves the tunnel down goes to sleep with the daemon's chains.
LEMMA DownStep == IInv /\ [Next]_vars => DownOnlyWhileRestarting'
<1> SUFFICES ASSUME IInv, [Next]_vars
             PROVE  DownOnlyWhileRestarting'
  OBVIOUS
<1> USE DaemonAssumption
<1> USE DEF vars, daemonVars, platformVars, managerVars, threadVars, Threads,
       Holding, TypeOK, LockHeld, Apart, Running, Calls, Restarts,
       Sleepers, DownOnlyWhileRestarting, GoingDown, IInv
<1>1. ASSUME NEW c \in Clients, Call(c)
      PROVE  DownOnlyWhileRestarting'
  BY <1>1 DEF Call, CallSetRules, CallStop, CallStart, Becomes
<1>2. ASSUME NEW c \in Clients, Serve(c)
      PROVE  DownOnlyWhileRestarting'
  <2>1. CASE StartRefused(c)
    BY <2>1 DEF StartRefused, LockBriefly, Returns, Becomes, Takes
  <2>2. CASE StartSameRoutes(c)
    BY <2>2 DEF StartSameRoutes, LockBriefly, Returns, Becomes, Takes
  <2>3. CASE StartOtherRoutes(c)
    BY <2>3 DEF StartOtherRoutes, Lock, Becomes, Takes, NewManager, Unused
  <2>4. CASE StartFresh(c)
    BY <2>4 DEF StartFresh, Lock, Becomes, Takes, NewManager, Unused
  <2>5. CASE StartSucceeds(c)
    BY <2>5 DEF StartSucceeds, Unlock, Returns, Becomes, Takes, TunnelUp,
       FreshHandler
  <2>6. CASE StartFails(c)
    BY <2>6 DEF StartFails, Becomes, CancelManager, TunnelFails
  <2>7. CASE StartFailed(c)
    BY <2>7 DEF StartFailed, Unlock, Returns, Becomes, Takes, TunnelDown
  <2>8. CASE SetRules(c)
    BY <2>8 DEF SetRules, LockBriefly, Returns, Becomes, Takes
  <2>9. CASE StopNothing(c)
    BY <2>9 DEF StopNothing, LockBriefly, Returns, Becomes, Takes
  <2>10. CASE Stop(c)
    BY <2>10 DEF Stop, Lock, Becomes, CancelManager, TunnelDown
  <2>11. CASE Stopped(c)
    BY <2>11 DEF Stopped, Unlock, Returns, Becomes, Takes
  <2>12. CASE RoutesSwitched(c)
    BY <2>12 DEF RoutesSwitched, Becomes, Takes, CancelManager
  <2>13. CASE StartApplied(c)
    BY <2>13 DEF StartApplied, Unlock, Returns, Becomes, Takes
  <2>14. CASE Hangs(c)
    BY <2>14 DEF Hangs, Lock, Becomes
  <2> QED
    BY <1>2, <2>1, <2>2, <2>3, <2>4, <2>5, <2>6, <2>7, <2>8, <2>9, <2>10, <2>11,
       <2>12, <2>13, <2>14 DEF Serve
<1>3. ASSUME NEW g \in Restarters, Restart(g)
      PROVE  DownOnlyWhileRestarting'
  <2>1. CASE RestartSkipped(g)
    BY <2>1 DEF RestartSkipped, LockBriefly, Becomes
  <2>2. CASE RestartBegins(g)
    BY <2>2 DEF RestartBegins, Lock, Becomes, CancelManager, TunnelDown
  <2>3. CASE RestartReplaces(g)
    BY <2>3 DEF RestartReplaces, Becomes, Takes, NewManager, Unused
  <2>4. CASE RestartSucceeds(g)
    <3>1. tunnel' # None
      BY <2>4 DEF RestartSucceeds, Unlock, RestartReturns, Becomes, Takes,
         TunnelUp
    <3> QED
      BY <3>1
  <2>5. CASE RestartSleeps(g)
    BY <2>5 DEF RestartSleeps, Unlock, Becomes, TunnelDown
  <2>6. CASE RestartOvertaken(g)
    BY <2>6 DEF RestartOvertaken, LockBriefly, RestartReturns, Becomes, Takes
  <2>7. CASE RestartTriesAgain(g)
    BY <2>7 DEF RestartTriesAgain, Lock, Becomes
  <2>8. CASE RestartGivesUp(g)
    BY <2>8 DEF RestartGivesUp, Lock, Becomes, CancelManager
  <2>9. CASE RestartFailed(g)
    BY <2>9 DEF RestartFailed, Unlock, RestartReturns, Becomes, Takes
  <2>10. CASE Hangs(g)
    BY <2>10 DEF Hangs, Lock, Becomes
  <2> QED
    BY <1>3, <2>1, <2>2, <2>3, <2>4, <2>5, <2>6, <2>7, <2>8, <2>9, <2>10 DEF Restart
<1>4. ASSUME NEW m \in Managers, ManagerNext(m)
      PROVE  DownOnlyWhileRestarting'
  <2>1. CASE ManagerCloses(m)
    BY <2>1 DEF ManagerCloses
  <2>2. CASE Wake(m)
    BY <2>2 DEF Wake
  <2>3. CASE OnWake(m)
    BY <2>3 DEF OnWake, LockBriefly, SpawnRestart, Becomes
  <2>4. CASE DialStuck(m)
    BY <2>4 DEF DialStuck
  <2>5. CASE OnStuck(m)
    BY <2>5 DEF OnStuck, LockBriefly, SpawnRestart, Becomes
  <2> QED
    BY <1>4, <2>1, <2>2, <2>3, <2>4, <2>5 DEF ManagerNext
<1>5. CASE Jam
  BY <1>5 DEF Jam
<1>6. CASE UNCHANGED vars
  BY <1>6
<1> QED
  BY <1>1, <1>2, <1>3, <1>4, <1>5, <1>6 DEF Next

-----------------------------------------------------------------------------
(* The theorems *)

LEMMA StepIInv == IInv /\ [Next]_vars => IInv'
  BY TypeStep, LockStep, ApartStep, RunningStep, CallsStep, RestartsStep, AttemptsStep,
     SleepersStep, WiredStep, TunnelStep, LeakStep, DownStep DEF IInv

\* The conjunction of what every goroutine relies on holds at every moment.
THEOREM Invariance == Spec => []IInv
  BY InitIInv, StepIInv, PTL DEF Spec

\* Every variable of the daemon keeps its type.
THEOREM TypeCorrect == Spec => []TypeOK
<1>1. IInv => TypeOK
  BY DEF IInv
<1> QED
  BY <1>1, Invariance, PTL

\* The tunnel device never feeds a handler the calls of the app do not reach,
\* and is never up behind a daemon that is idle or in error, however many
\* restarts sleep while the app stops and starts the tunnel.
THEOREM TunnelFeeds == Spec => []TunnelFeedsHandler
<1>1. IInv => TunnelFeedsHandler
  BY DEF IInv
<1> QED
  BY <1>1, Invariance, PTL

\* Calls are at the places of calls, and restarts at theirs.
ClientPlaces ==
    {"idle", "start", "rules", "stop", "upping", "failing", "switching", "switched", "stopping",
     "hung"}
RestartPlaces == {"idle", "restart", "closing", "trying", "asleep", "givingUp", "hung"}

Places ==
    /\ \A c \in Clients : at[c] \in ClientPlaces
    /\ \A g \in Restarters : at[g] \in RestartPlaces

\* Nobody leaves them.
LEMMA PlacesStep == TypeOK /\ Places /\ [Next]_vars => Places'
<1> SUFFICES ASSUME TypeOK, Places, [Next]_vars
             PROVE  Places'
  OBVIOUS
<1>0. at \in [Threads -> {"idle", "start", "rules", "stop", "restart", "asleep"} \cup Holding]
  BY DEF TypeOK
<1> USE DaemonAssumption DEF Threads
<1>1. ASSUME NEW c \in Clients, Call(c) \/ Serve(c)
      PROVE  Places'
  <2>1. \E p \in ClientPlaces : Becomes(c, p)
    BY <1>1 DEF Call, CallStart, CallSetRules, CallStop, Serve, StartRefused, StartSameRoutes,
       StartOtherRoutes, StartFresh, StartSucceeds, StartFails, StartFailed, SetRules,
       StopNothing, Stop, Stopped, RoutesSwitched, StartApplied, Hangs, Returns, ClientPlaces
  <2> QED
    BY <1>0, <2>1 DEF Places, Becomes
<1>2. ASSUME NEW g \in Restarters, Restart(g)
      PROVE  Places'
  <2>1. \E p \in RestartPlaces : Becomes(g, p)
    BY <1>2 DEF Restart, RestartSkipped, RestartBegins, RestartReplaces, RestartSucceeds,
       RestartSleeps, RestartOvertaken, RestartTriesAgain, RestartGivesUp, RestartFailed,
       Hangs, RestartReturns, RestartPlaces
  <2> QED
    BY <1>0, <2>1 DEF Places, Becomes
<1>3. ASSUME NEW m \in Managers, ManagerNext(m)
      PROVE  Places'
  <2>1. UNCHANGED at \/ \E g \in Restarters : Becomes(g, "restart")
    BY <1>3 DEF ManagerNext, ManagerCloses, Wake, OnWake, DialStuck, OnStuck, SpawnRestart,
       threadVars
  <2> QED
    BY <1>0, <2>1 DEF Places, RestartPlaces, Becomes
<1>4. CASE Jam \/ UNCHANGED vars
  BY <1>4 DEF Places, Jam, vars, threadVars
<1> QED
  BY <1>1, <1>2, <1>3, <1>4 DEF Next

\* So nobody is ever anywhere else.
LEMMA PlacesAlways == Spec => []Places
<1>1. Init => Places
  BY DEF Init, Places, ClientPlaces, RestartPlaces, Threads
<1>2. IInv => TypeOK
  BY DEF IInv
<1> QED
  BY <1>1, <1>2, PlacesStep, Invariance, PTL DEF Spec

\* What a tunnel that is up carries connections by: its Manager is open, and
\* serves the daemon's config or the one a Start is switching to.
LEMMA CarriesNow ==
  ASSUME IInv, Places, tunnel # None
  PROVE  /\ dstate = "running" /\ cfg \in Configs
         /\ routes \in Managers /\ life[routes] = "open"
         /\ \/ serves[routes] = cfg /\ \A c \in Clients : at[c] # "switched"
            \/ \E c \in Clients : at[c] = "switched" /\ serves[routes] = arg[c]
<1> USE DaemonAssumption DEF IInv
<1>1. dstate = "running" /\ cfg \in Configs /\ current \in Managers
  BY DEF TunnelFeedsHandler, Running
<1>2. CASE mu = None
  <2>1. \A c \in Clients : at[c] # "switched"
    BY <1>2 DEF LockHeld, Holding, Threads, TypeOK
  <2> QED
    BY <1>1, <1>2, <2>1 DEF Wired
<1>3. ASSUME NEW t \in Threads, mu = t
      PROVE  \/ at[t] = "hung"
             \/ t \in Clients /\ at[t] \in {"switching", "switched"}
  <2>1. at[t] \in Holding
    BY <1>3 DEF LockHeld
  <2>2. CASE t \in Clients
    BY <1>1, <2>1, <2>2 DEF Calls, GoingDown, Holding, Places, ClientPlaces
  <2>3. CASE t \in Restarters
    BY <1>1, <2>1, <2>3 DEF Restarts, GoingDown, Holding, Places, RestartPlaces
  <2> QED
    BY <2>2, <2>3 DEF Threads
<1>4. ASSUME NEW t \in Threads, mu = t
      PROVE  \A c \in Clients : at[c] = "switched" => c = t
  BY <1>4 DEF LockHeld, Holding, Threads
<1>5. ASSUME NEW t \in Threads, mu = t, at[t] = "hung"
      PROVE  /\ routes = current /\ life[current] = "open" /\ serves[current] = cfg
             /\ \A c \in Clients : at[c] # "switched"
  BY <1>1, <1>4, <1>5 DEF Wired
<1>6. ASSUME NEW t \in Clients, mu = t, at[t] \in {"switching", "switched"}
      PROVE  /\ routes \in Managers /\ life[routes] = "open"
             /\ \/ serves[routes] = cfg /\ \A c \in Clients : at[c] # "switched"
                \/ at[t] = "switched" /\ serves[routes] = arg[t]
  BY <1>1, <1>4, <1>6 DEF Calls, Threads
<1>7. mu = None \/ \E t \in Threads : mu = t
  BY DEF TypeOK
<1> QED
  BY <1>1, <1>2, <1>3, <1>5, <1>6, <1>7

\* Whenever d.mu is free, a running daemon's data plane dials through the open
\* Manager of its config and the rules name the routes of that config; while
\* a Start replaces them, connections still find an open Manager, the old one
\* or the new.
THEOREM DataPlaneFits == Spec => []DataPlaneMatchesConfig
<1>1. IInv /\ Places => DataPlaneMatchesConfig
  <2> SUFFICES ASSUME IInv, Places
               PROVE  DataPlaneMatchesConfig
    OBVIOUS
  <2> USE DaemonAssumption
  <2>1. ASSUME mu = None, dstate = "running"
        PROVE  /\ routes = current /\ current # None
               /\ life[current] = "open"
               /\ serves[current] = cfg
               /\ rules = cfg
    BY <2>1 DEF IInv, Running, Wired
  <2>2. ASSUME tunnel # None
        PROVE  /\ routes # None
               /\ life[routes] = "open"
               /\ rules = cfg
               /\ \/ serves[routes] = cfg
                  \/ \E c \in Clients : at[c] = "switched" /\ serves[routes] = arg[c]
    <3>1. rules = cfg
      BY <2>2 DEF IInv, TunnelFeedsHandler, Running
    <3> QED
      BY <2>2, <3>1, CarriesNow
  <2> QED
    BY <2>1, <2>2 DEF DataPlaneMatchesConfig
<1> QED
  BY <1>1, Invariance, PlacesAlways, PTL

\* Every Manager that was made is the running tunnel's, a start's in progress,
\* or has been told to close.
THEOREM NoManagerLeak == Spec => []NoManagerLeaks
<1>1. IInv => NoManagerLeaks
  BY DEF IInv
<1> QED
  BY <1>1, Invariance, PTL

\* A daemon that says it is running has its tunnel up, unless a restart works
\* on it or a Start replaced the chains of one that slept.
THEOREM DownOnlyForRestart == Spec => []DownOnlyWhileRestarting
<1>1. IInv => DownOnlyWhileRestarting
  BY DEF IInv
<1> QED
  BY <1>1, Invariance, PTL

-----------------------------------------------------------------------------
(* What the app sees.  Only the step in which a call takes effect and the  *)
(* steps that bring the device up or down are steps of the service; all    *)
(* others, above all what Managers do, change nothing that is seen.        *)

\* What the app sees of the daemon's variables.
Told ==
    IF \E c \in Clients : at[c] = "switched" THEN serves[routes]
    ELSE IF dstate = "running" THEN cfg ELSE None
Device == IF tunnel = None THEN None ELSE serves[routes]

\* The device carries connections for the config the app is told.
Carries == tunnel # None => dstate = "running" /\ Told \in Configs /\ Device = Told

LEMMA CarriesTold == IInv /\ Places => Carries
<1> SUFFICES ASSUME IInv, Places, tunnel # None
             PROVE  dstate = "running" /\ Told \in Configs /\ Device = Told
  BY DEF Carries
<1>1. CASE \A c \in Clients : at[c] # "switched"
  BY <1>1, CarriesNow DEF Told, Device
<1>2. CASE \E c \in Clients : at[c] = "switched" /\ serves[routes] = arg[c]
  <2>1. serves[routes] \in Configs
    BY <1>2 DEF IInv, Calls
  <2> QED
    BY <1>2, <2>1, CarriesNow DEF Told, Device
<1> QED
  BY <1>1, <1>2, CarriesNow

\* Only the holder of the lock can be at the place where a Start has switched
\* and not returned.
LEMMA OneSwitches ==
  ASSUME IInv, NEW t \in Threads, mu = None \/ mu = t
  PROVE  \A c \in Clients : at[c] = "switched" => c = t
  BY DaemonAssumption DEF IInv, LockHeld, Holding, Threads

\* A client's step changes its own call only.
LEMMA ClientMoves ==
  ASSUME TypeOK, NEW c \in Clients, NEW place, Becomes(c, place)
  PROVE  Doing' = [Doing EXCEPT ![c] = CallAt(place)]
<1>1. at' = [at EXCEPT ![c] = place] /\ Clients \subseteq DOMAIN at
  BY DEF Becomes, TypeOK, Threads
<1>2. \A d \in Clients : at'[d] = IF d = c THEN place ELSE at[d]
  BY <1>1
<1> HIDE DEF CallAt
<1> QED
  BY <1>2 DEF Doing

\* A call that goes on is still the same call.
LEMMA ClientGoesOn ==
  ASSUME TypeOK, NEW c \in Clients, NEW place, Becomes(c, place),
         CallAt(place) = CallAt(at[c])
  PROVE  Doing' = Doing
<1>1. Doing' = [Doing EXCEPT ![c] = CallAt(place)]
  BY ClientMoves
<1> QED
  BY <1>1 DEF Doing

\* And a restart's step is nobody's call.
LEMMA RestartMoves ==
  ASSUME TypeOK, NEW g \in Restarters, NEW place, Becomes(g, place)
  PROVE  Doing' = Doing
<1>1. at' = [at EXCEPT ![g] = place] /\ Clients \subseteq DOMAIN at
  BY DEF Becomes, TypeOK, Threads
<1>2. \A d \in Clients : at'[d] = at[d]
  BY <1>1, DaemonAssumption
<1> QED
  BY <1>2 DEF Doing

\* Nor is what starts a restart.
LEMMA SpawnMoves ==
  ASSUME TypeOK, SpawnRestart \/ UNCHANGED at
  PROVE  Doing' = Doing
<1>1. CASE UNCHANGED at
  BY <1>1 DEF Doing
<1>2. CASE \E g \in Restarters : at[g] = "idle" /\ Becomes(g, "restart")
  BY <1>2, RestartMoves
<1> QED
  BY <1>1, <1>2 DEF SpawnRestart

\* A call that returns is over, and has brought what it brought.
LEMMA ReturnMoves ==
  ASSUME TypeOK, NEW c \in Clients, Returns(c)
  PROVE  Service!Returns(c, CallAt(at[c]))
<1>1. Doing' = [Doing EXCEPT ![c] = CallAt("idle")]
  BY ClientMoves DEF Returns
<1>2. CallAt("idle") = "none"
  BY DEF CallAt
<1>3. Doing[c] = CallAt(at[c])
  BY DEF Doing
<1> QED
  BY <1>1, <1>2, <1>3 DEF Service!Returns, Returns

\* A call begins.
LEMMA CallRefines ==
  ASSUME TypeOK, NEW c \in Clients, Call(c)
  PROVE  Service!Next
<1>1. /\ UNCHANGED <<dstate, cfg, tunnel, serves, routes>> /\ at[c] = "idle"
      /\ \E what \in {"start", "rules", "stop"} : at' = [at EXCEPT ![c] = what]
  BY DEF Call, CallSetRules, CallStop, CallStart, Becomes, daemonVars, platformVars, managerVars
<1>2. UNCHANGED <<dstate, Told, Device>> /\ Doing[c] = "none"
  <2>1. \A d \in Clients : at'[d] = "switched" <=> at[d] = "switched"
    BY <1>1 DEF TypeOK, Threads
  <2> QED
    BY <1>1, <2>1 DEF Told, Device, Doing, CallAt
<1>3. ASSUME NEW what \in {"start", "rules", "stop"}, Becomes(c, what)
      PROVE  Service!Call(c, what)
  <2>1. CallAt(what) = what
    BY DEF CallAt
  <2>2. Doing' = [Doing EXCEPT ![c] = what]
    BY <1>3, <2>1, ClientMoves
  <2> QED
    BY <1>2, <2>2 DEF Service!Call, Told, Device
<1>4. ASSUME NEW f \in Configs, CallStart(c, f)
      PROVE  Service!CallStart(c, f)
  BY <1>3, <1>4 DEF CallStart, Service!CallStart
<1>5. ASSUME CallSetRules(c) \/ CallStop(c)
      PROVE  Service!CallOther(c)
  BY <1>3, <1>5 DEF CallSetRules, CallStop, Service!CallOther
<1> QED
  BY <1>4, <1>5 DEF Call, Service!Next

\* What a call does once it is in: its last step is where it takes effect.
LEMMA ServeRefines ==
  ASSUME IInv, Places, Carries, Carries', NEW c \in Clients, Serve(c)
  PROVE  [Service!Next]_(Service!vars)
<1> USE DaemonAssumption
<1> DEFINE Plain == IF dstate = "running" THEN cfg ELSE None
<1>0. TypeOK /\ arg[c] \in Configs \cup {None} /\ Doing[c] = CallAt(at[c])
  BY DEF IInv, TypeOK, Doing
<1>1. /\ Device = IF tunnel = None THEN None ELSE Told
      /\ Device' = IF tunnel' = None THEN None ELSE Told'
      /\ tunnel # None => dstate = "running" /\ Told # None
      /\ tunnel' # None => dstate' = "running" /\ Told' # None
  BY DEF Carries, Device
<1>2. /\ CallAt("start") = "start" /\ CallAt("upping") = "start" /\ CallAt("failing") = "start"
      /\ CallAt("switching") = "start" /\ CallAt("switched") = "applied"
      /\ CallAt("stop") = "stop" /\ CallAt("stopping") = "stop" /\ CallAt("rules") = "rules"
      /\ CallAt("hung") = "stop"
  BY DEF CallAt
<1>a. mu = None \/ mu = c
  BY DEF IInv, LockHeld, Threads, Holding, Serve, StartRefused, StartSameRoutes, StartOtherRoutes,
     RoutesSwitched, StartApplied, StartFresh, StartSucceeds, StartFails, StartFailed, SetRules,
     StopNothing, Stop, Stopped, Hangs, Lock, LockBriefly
<1>b. \A d \in Clients : at[d] = "switched" => d = c
  BY <1>a, OneSwitches DEF Threads
<1>c. \E place : Becomes(c, place)
  BY DEF Serve, StartRefused, StartSameRoutes, StartOtherRoutes, RoutesSwitched, StartApplied,
     StartFresh, StartSucceeds, StartFails, StartFailed, SetRules, StopNothing, Stop, Stopped,
     Hangs, Returns
<1>d. \A d \in Clients \ {c} : at'[d] = at[d]
  BY <1>0, <1>c DEF Becomes, TypeOK, Threads
<1>3. /\ Told = IF at[c] = "switched" THEN serves[routes] ELSE Plain
      /\ Told' = IF at'[c] = "switched" THEN serves'[routes'] ELSE Plain'
  BY <1>b, <1>d DEF Told
<1>4. ASSUME NEW place, Becomes(c, place)
      PROVE  at'[c] = place
  BY <1>0, <1>4 DEF Becomes, TypeOK, Threads
<1>5. ASSUME Returns(c)
      PROVE  at'[c] = "idle"
  BY <1>4, <1>5 DEF Returns
<1> HIDE DEF Plain
<1> HIDE DEF CallAt
<1>6. CASE StartRefused(c)
  <2>1. /\ at[c] = "start" /\ at'[c] = "idle" /\ Service!Returns(c, "start")
        /\ UNCHANGED <<dstate, cfg, tunnel>>
    BY <1>0, <1>2, <1>5, <1>6, ReturnMoves DEF StartRefused, daemonVars, platformVars
  <2>2. UNCHANGED <<dstate, Told, Device>>
    BY <1>1, <1>3, <2>1 DEF Plain
  <2>3. Service!ChangesNothing(c)
    BY <1>0, <1>2, <2>1, <2>2 DEF Service!ChangesNothing, Told, Device
  <2> QED
    BY <2>3 DEF Service!Next
<1>7. CASE StartSameRoutes(c)
  <2>1. /\ at[c] = "start" /\ at'[c] = "idle" /\ Service!Returns(c, "start")
        /\ UNCHANGED <<dstate, cfg, tunnel>>
    BY <1>0, <1>2, <1>5, <1>7, ReturnMoves DEF StartSameRoutes, platformVars
  <2>2. UNCHANGED <<dstate, Told, Device>>
    BY <1>1, <1>3, <2>1 DEF Plain
  <2>3. Service!ChangesNothing(c)
    BY <1>0, <1>2, <2>1, <2>2 DEF Service!ChangesNothing, Told, Device
  <2> QED
    BY <2>3 DEF Service!Next
<1>8. CASE StartOtherRoutes(c) \/ StartFresh(c) \/ StartFails(c) \/ Hangs(c)
  <2>1. /\ \/ at[c] = "start" /\ Becomes(c, "switching")
           \/ at[c] = "start" /\ Becomes(c, "upping")
           \/ at[c] = "upping" /\ Becomes(c, "failing")
           \/ at[c] = "stop" /\ Becomes(c, "hung")
        /\ UNCHANGED <<dstate, cfg, tunnel, arg>>
    <3>1. at[c] # "restart"
      BY DEF Places, ClientPlaces
    <3> QED
      BY <1>8, <3>1
         DEF StartOtherRoutes, StartFresh, StartFails, Hangs, TunnelFails, daemonVars, platformVars
  <2>2. Doing' = Doing
    BY <1>0, <1>2, <2>1, ClientGoesOn
  <2>3. UNCHANGED <<dstate, Told, Device>>
    BY <1>1, <1>3, <1>4, <2>1 DEF Plain
  <2> QED
    BY <2>1, <2>2, <2>3 DEF Service!vars, Told, Device
<1>9. CASE RoutesSwitched(c)
  <2>1. /\ at[c] = "switching" /\ Becomes(c, "switched") /\ at'[c] = "switched"
        /\ UNCHANGED <<dstate, cfg, tunnel, arg, serves>> /\ routes' = current
    BY <1>4, <1>9 DEF RoutesSwitched, CancelManager, platformVars
  <2>2. /\ dstate = "running" /\ Told' = arg[c]
    BY <1>3, <2>1 DEF IInv, Calls
  <2>3. Doing' = [Doing EXCEPT ![c] = "applied"] /\ Doing[c] = "start"
    BY <1>0, <1>2, <2>1, ClientMoves
  <2>4. Device' = IF Device = None THEN None ELSE arg[c]
    BY <1>1, <2>1, <2>2
  <2>5. Service!Applied(c)
    BY <2>1, <2>2, <2>3, <2>4 DEF Service!Applied, Told, Device
  <2> QED
    BY <2>5 DEF Service!Next
<1>10. CASE StartApplied(c)
  <2>1. /\ at[c] = "switched" /\ at'[c] = "idle" /\ Service!Returns(c, "applied")
        /\ UNCHANGED <<dstate, tunnel>> /\ cfg' = arg[c]
    BY <1>0, <1>2, <1>5, <1>10, ReturnMoves DEF StartApplied, platformVars
  <2>2. UNCHANGED <<dstate, Told, Device>>
    BY <1>1, <1>3, <2>1 DEF IInv, Calls, Plain
  <2>3. Service!ChangesNothing(c)
    BY <1>0, <1>2, <2>1, <2>2 DEF Service!ChangesNothing, Told, Device
  <2> QED
    BY <2>3 DEF Service!Next
<1>11. CASE StartSucceeds(c)
  <2>1. /\ at[c] = "upping" /\ at'[c] = "idle" /\ Service!Returns(c, "start")
        /\ dstate' = "running" /\ cfg' = arg[c]
    BY <1>0, <1>2, <1>5, <1>11, ReturnMoves DEF StartSucceeds
  <2>2. tunnel' # None
    BY <1>11, DaemonAssumption DEF StartSucceeds, TunnelUp
  <2>3. dstate # "running"
    BY <2>1 DEF IInv, Calls
  <2>4. Told' = arg[c] /\ Device' = arg[c]
    BY <1>1, <1>3, <2>1, <2>2 DEF Plain
  <2>5. Service!Started(c)
    BY <2>1, <2>3, <2>4 DEF Service!Started, Told, Device
  <2> QED
    BY <2>5 DEF Service!Next
<1>12. CASE StartFailed(c)
  <2>1. /\ at[c] = "failing" /\ at'[c] = "idle" /\ Service!Returns(c, "start")
        /\ dstate' = "error" /\ tunnel' = None
    BY <1>0, <1>2, <1>5, <1>12, ReturnMoves DEF StartFailed, TunnelDown
  <2>2. dstate # "running"
    BY <2>1 DEF IInv, Calls
  <2>3. UNCHANGED <<Told, Device>>
    BY <1>1, <1>3, <2>1, <2>2 DEF Plain
  <2>4. Service!FailedToStart(c)
    BY <2>1, <2>2, <2>3 DEF Service!FailedToStart, Told, Device
  <2> QED
    BY <2>4 DEF Service!Next
<1>13. CASE SetRules(c)
  <2>1. /\ at[c] = "rules" /\ at'[c] = "idle" /\ Service!Returns(c, "rules")
        /\ UNCHANGED <<dstate, cfg, tunnel>>
    BY <1>0, <1>2, <1>5, <1>13, ReturnMoves DEF SetRules, platformVars
  <2>2. UNCHANGED <<dstate, Told, Device>>
    BY <1>1, <1>3, <2>1 DEF Plain
  <2>3. Service!ChangesNothing(c)
    BY <1>0, <1>2, <2>1, <2>2 DEF Service!ChangesNothing, Told, Device
  <2> QED
    BY <2>3 DEF Service!Next
<1>14. CASE StopNothing(c)
  <2>1. /\ at[c] = "stop" /\ at'[c] = "idle" /\ Service!Returns(c, "stop") /\ tunnel' = tunnel
        /\ dstate # "running" /\ dstate' = "idle"
    BY <1>0, <1>2, <1>5, <1>14, ReturnMoves DEF StopNothing, platformVars
  <2>2. Told' = None /\ Device = None /\ Device' = None
    BY <1>1, <1>3, <2>1 DEF Plain
  <2>3. Service!Stopped(c)
    BY <2>1, <2>2 DEF Service!Stopped, Told, Device
  <2> QED
    BY <2>3 DEF Service!Next
<1>15. CASE Stop(c)
  <2>1. /\ at[c] = "stop" /\ Becomes(c, "stopping") /\ tunnel' = None
        /\ UNCHANGED <<dstate, cfg, arg>> /\ dstate = "running"
    BY <1>15 DEF Stop, TunnelDown, daemonVars
  <2>2. Doing' = Doing
    BY <1>0, <1>2, <2>1, ClientGoesOn
  <2>3. Told' = Told /\ Device' = None
    BY <1>1, <1>3, <1>4, <2>1 DEF Plain
  <2>4. CASE tunnel = None
    BY <1>1, <2>1, <2>2, <2>3, <2>4 DEF Service!vars, Told, Device
  <2>5. CASE tunnel # None
    <3>1. Device # None
      BY <1>1, <2>5
    <3>2. Service!GoesDown
      BY <2>1, <2>2, <2>3, <3>1 DEF Service!GoesDown, Told, Device
    <3> QED
      BY <3>2 DEF Service!Next
  <2> QED
    BY <2>4, <2>5
<1>16. CASE Stopped(c)
  <2>1. /\ at[c] = "stopping" /\ at'[c] = "idle" /\ Service!Returns(c, "stop")
        /\ dstate' = "idle" /\ tunnel' = tunnel
    BY <1>0, <1>2, <1>5, <1>16, ReturnMoves DEF Stopped, platformVars
  <2>2. tunnel = None
    BY <2>1 DEF IInv, Calls, GoingDown
  <2>3. Told' = None /\ Device = None /\ Device' = None
    BY <1>1, <1>3, <2>1, <2>2 DEF Plain
  <2>4. Service!Stopped(c)
    BY <2>1, <2>3 DEF Service!Stopped, Told, Device
  <2> QED
    BY <2>4 DEF Service!Next
<1> QED
  BY <1>6, <1>7, <1>8, <1>9, <1>10, <1>11, <1>12, <1>13, <1>14, <1>15, <1>16 DEF Serve

\* A restart takes the device down, brings it back for the config there is
\* then, or gives it up.
LEMMA RestartRefines ==
  ASSUME IInv, Carries, Carries', NEW g \in Restarters, Restart(g)
  PROVE  [Service!Next]_(Service!vars)
<1> USE DaemonAssumption
<1>0. TypeOK
  BY DEF IInv
<1>1. /\ Device = IF tunnel = None THEN None ELSE Told
      /\ Device' = IF tunnel' = None THEN None ELSE Told'
      /\ tunnel # None => dstate = "running" /\ Told # None
      /\ tunnel' # None => dstate' = "running" /\ Told' # None
  BY DEF Carries, Device
<1>2. UNCHANGED <<cfg, arg>> /\ \E place : Becomes(g, place)
  BY DEF Restart, RestartSkipped, RestartBegins, RestartReplaces, RestartSucceeds,
     RestartSleeps, RestartOvertaken, RestartTriesAgain, RestartGivesUp, RestartFailed,
     RestartReturns, Hangs, daemonVars
<1>a. mu = None \/ mu = g
  BY DEF IInv, LockHeld, Threads, Holding, Restart, RestartSkipped, RestartBegins,
     RestartReplaces, RestartSucceeds, RestartSleeps, RestartOvertaken, RestartTriesAgain,
     RestartGivesUp, RestartFailed, Hangs, Lock, LockBriefly
<1>b. \A d \in Clients : at[d] # "switched"
  BY <1>a, OneSwitches DEF Threads
<1>c. \A d \in Clients : at'[d] = at[d]
  BY <1>0, <1>2 DEF Becomes, TypeOK, Threads
<1>d. /\ Told = IF dstate = "running" THEN cfg ELSE None
      /\ Told' = IF dstate' = "running" THEN cfg ELSE None
  BY <1>2, <1>b, <1>c DEF Told
<1>3. Doing' = Doing
  BY <1>0, <1>2, RestartMoves
<1>4. CASE UNCHANGED <<dstate, tunnel>>
  <2>1. UNCHANGED <<Told, Device>>
    BY <1>1, <1>4, <1>d
  <2> QED
    BY <1>2, <1>3, <1>4, <2>1 DEF Service!vars, Told, Device
<1>5. CASE RestartBegins(g)
  <2>1. dstate = "running" /\ dstate' = dstate /\ tunnel' = None
    BY <1>5 DEF RestartBegins, TunnelDown, daemonVars
  <2>2. CASE tunnel # None
    <3>1. Told' = Told /\ Device # None /\ Device' = None
      BY <1>1, <1>d, <2>1, <2>2
    <3>2. Service!GoesDown
      BY <1>2, <1>3, <2>1, <3>1 DEF Service!GoesDown, Told, Device
    <3> QED
      BY <3>2 DEF Service!Next
  <2> QED
    BY <1>4, <2>1, <2>2
<1>6. CASE RestartSucceeds(g)
  <2>1. dstate = "running" /\ dstate' = dstate /\ tunnel = None
    BY <1>6 DEF RestartSucceeds, IInv, Restarts, daemonVars
  <2>2. CASE tunnel' # None
    <3>1. Told' = Told /\ Device = None /\ Device' = Told
      BY <1>1, <1>d, <2>1, <2>2
    <3>2. Service!ComesBack
      BY <1>2, <1>3, <2>1, <3>1 DEF Service!ComesBack, Told, Device
    <3> QED
      BY <3>2 DEF Service!Next
  <2> QED
    BY <1>4, <2>1, <2>2
<1>7. CASE RestartSleeps(g)
  <2>1. dstate' = dstate /\ tunnel = None /\ tunnel' = None
    BY <1>7 DEF RestartSleeps, TunnelDown, IInv, Restarts, daemonVars
  <2> QED
    BY <1>4, <2>1
<1>8. CASE RestartFailed(g)
  <2>1. dstate = "running" /\ dstate' = "error" /\ tunnel = None /\ tunnel' = None
    BY <1>8 DEF RestartFailed, IInv, Restarts, platformVars
  <2>2. Told' = None /\ Device = None /\ Device' = None
    BY <1>1, <1>d, <2>1
  <2>3. Service!Lost
    BY <1>2, <1>3, <2>1, <2>2 DEF Service!Lost, Told, Device
  <2> QED
    BY <2>3 DEF Service!Next
<1>9. CASE RestartSkipped(g) \/ RestartReplaces(g) \/ RestartOvertaken(g) \/ RestartTriesAgain(g)
             \/ RestartGivesUp(g) \/ Hangs(g)
  BY <1>4, <1>9 DEF RestartSkipped, RestartReplaces, RestartOvertaken, RestartTriesAgain,
     RestartGivesUp, Hangs, daemonVars, platformVars
<1> QED
  BY <1>5, <1>6, <1>7, <1>8, <1>9 DEF Restart

\* What a Manager's goroutines do is seen by nobody.
LEMMA ManagerRefines ==
  ASSUME IInv, Carries, Carries', NEW m \in Managers, ManagerNext(m)
  PROVE  UNCHANGED Service!vars
<1> USE DaemonAssumption
<1>1. UNCHANGED <<dstate, cfg, tunnel, arg, routes>> /\ (SpawnRestart \/ UNCHANGED at)
  BY DEF ManagerNext, ManagerCloses, Wake, OnWake, DialStuck, OnStuck, daemonVars,
     platformVars, threadVars
<1>2. Doing' = Doing
  BY <1>1, SpawnMoves DEF IInv
<1>3. \A c \in Clients : at'[c] = "switched" <=> at[c] = "switched"
  <2>1. \A c \in Clients : CallAt(at[c]) = CallAt(at'[c])
    BY <1>2 DEF Doing
  <2>2. \A c \in Clients : \A x : CallAt(x) = "applied" <=> x = "switched"
    BY DEF CallAt
  <2> HIDE DEF CallAt
  <2> QED
    BY <2>1, <2>2
<1>4. ASSUME NEW c \in Clients, at[c] = "switched"
      PROVE  serves'[routes] = serves[routes]
  <2>1. routes \in Managers /\ life[routes] = "open"
    BY <1>4 DEF IInv, Calls, Running
  <2> QED
    BY <2>1 DEF ManagerNext, ManagerCloses, Wake, OnWake, DialStuck, OnStuck, managerVars, IInv,
       TypeOK
<1>5. Told' = Told
  BY <1>1, <1>3, <1>4 DEF Told
<1>6. Device' = Device
  BY <1>1, <1>5 DEF Carries, Device
<1> QED
  BY <1>1, <1>2, <1>5, <1>6 DEF Service!vars, Told, Device

\* So a step of the daemon is one of the service or is not seen.
LEMMA StepRefines ==
  IInv /\ Places /\ Carries /\ Carries' /\ [Next]_vars => [Service!Next]_(Service!vars)
<1> SUFFICES ASSUME IInv, Places, Carries, Carries', [Next]_vars
             PROVE  [Service!Next]_(Service!vars)
  OBVIOUS
<1>1. ASSUME NEW c \in Clients, Call(c)
      PROVE  Service!Next
  BY <1>1, CallRefines DEF IInv
<1>2. CASE Jam \/ UNCHANGED vars
  BY <1>2 DEF Jam, vars, daemonVars, platformVars, managerVars, threadVars, Service!vars, Doing
<1> QED
  BY <1>1, <1>2, ServeRefines, RestartRefines, ManagerRefines DEF Next

\* Every behaviour of the daemon, its restarts and their Managers is one
\* TunnelService allows.
THEOREM Implements == Spec => ImplementsService
<1>1. Init => Service!Init
  <2> SUFFICES ASSUME Init
               PROVE  Service!Init
    OBVIOUS
  <2>1. \A c \in Clients : Doing[c] = "none"
    BY DEF Init, Doing, CallAt, Threads
  <2>2. Doing = [c \in Clients |-> "none"]
    BY <2>1 DEF Doing
  <2>3. Told = None
    BY DEF Init, Told, Threads
  <2> QED
    BY <2>2, <2>3 DEF Init, Service!Init, Told
<1> QED
  BY <1>1, PlacesAlways, CarriesTold, StepRefines, Invariance, PTL
     DEF Spec, ImplementsService, Service!Spec
=============================================================================
