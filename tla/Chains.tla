------------------------------- MODULE Chains -------------------------------
(***************************************************************************)
(* go/tun2socks/internal/chains: a Manager keeps one SSH chain per route   *)
(* up, redials it whenever it drops, and makes connections wait a little   *)
(* for a route that is reconnecting.                                       *)
(*                                                                         *)
(* The processes are the run goroutine of every route, the goroutines that *)
(* probe a chain, whoever calls Nudge or Reset, the callers of             *)
(* DialContext, and Close.  A route's mutex makes each of its critical     *)
(* sections one action; everything between two of them interleaves.        *)
(*                                                                         *)
(* A chain (sshtun.Chain) is "open", "dropped" (Done is closed, its hops   *)
(* may still hold connections) or "closed" (Close ran).  A chain that is   *)
(* closed and that nobody refers to any more is garbage, and stands for a  *)
(* chain not dialed yet.  The time a timer takes is left out: it may fire  *)
(* at any moment after it was set.                                         *)
(***************************************************************************)
EXTENDS Integers, FiniteSets

CONSTANTS
    Routes,         \* the configured routes
    Chain,          \* identities of chains
    Callers,        \* goroutines that dial through a route
    NoChain,        \* Go's nil *sshtun.Chain
    QuickRetries,   \* quickRetries: 6 in the code
    Second,         \* time.Second: 10^9
    Width,          \* the bits of a time.Duration: 64
    MaxFailures     \* from here on backoff is no wait: 55 in the code

\* backoff(n): time.Second << (n - 1) in a signed integer, and at most 30s.  Once
\* the shift reaches the sign bit the duration may be negative, later it is 0, and
\* then route.wait does not wait.
Backoff(n) ==
    LET d == (Second * 2 ^ (n - 1)) % (2 ^ Width)
    IN  IF 0 < d /\ d < 2 ^ (Width - 1) THEN "backoff" ELSE "none"

ASSUME ChainsAssumption ==
    /\ NoChain \notin Chain
    /\ QuickRetries \in Nat \ {0}
    /\ MaxFailures \in Nat \ {0}

ASSUME BackoffAssumption ==
    /\ Second \in Nat \ {0} /\ Width \in Nat \ {0}
    /\ \A n \in MaxFailures .. MaxFailures + Width : Backoff(n) = "none"

VARIABLES
    manager,    \* "open"; "closing" once the context is cancelled; "closed" after wg.Wait
    pc,         \* where the run goroutine of a route is
    state,      \* route.state
    chain,      \* route.chain, what DialContext hands out
    dialed,     \* the run goroutine's own variable "chain"
    upClosed,   \* whether the route's current "up" channel is closed
    quick,      \* route.quick
    kick,       \* whether route.kick (capacity 1) holds a value
    failures,   \* the run goroutine's "failures", MaxFailures and more being one value
    wait,       \* the last wait the run goroutine chose: "fast" is fastRetry
    nudged,     \* history: routes nudged or reset since their last dial began
    kicking,    \* routes whose nudge or reset has yet to send the kick
    resetting,  \* the chain a reset has yet to close, by route
    link,       \* a chain: "open", "dropped" or "closed"
    broken,     \* open chains whose far end stopped answering
    probing,    \* chains with a probe in flight
    at,         \* where a caller is
    want,       \* the route a caller dials through
    signal,     \* the up channel a blocked caller waits on
    got         \* the chain a caller was given

mgrVars    == <<manager>>
runVars    == <<pc, state, chain, dialed, upClosed, failures, wait>>
retryVars  == <<quick, kick, nudged, kicking, resetting>>
chainVars  == <<link, broken, probing>>
callerVars == <<at, want, signal, got>>
vars == <<mgrVars, runVars, retryVars, chainVars, callerVars>>

Cancelled == manager # "open"

-----------------------------------------------------------------------------
(* Chains *)

\* Nothing in the program can reach c any more.
Garbage(c) ==
    /\ link[c] = "closed"
    /\ c \notin probing
    /\ \A r \in Routes : chain[r] # c /\ dialed[r] # c /\ resetting[r] # c
    /\ \A w \in Callers : got[w] # c

\* (*Chain).Close: a second call does nothing.
CloseChain(c) ==
    /\ link' = [link EXCEPT ![c] = "closed"]
    /\ broken' = broken \ {c}

\* A probe of a chain that is done returns at once.
StartProbe(c) == probing' = probing \cup {c}

-----------------------------------------------------------------------------
(* route.setState: a critical section of route.mu.  Entering "up" closes   *)
(* the up channel, leaving it makes a new one; callers blocked on the old  *)
(* one are woken by the close, or else left on a channel nobody closes.    *)

Signalled(r, becomesUp, leavesUp) ==
    [w \in Callers |->
        IF want[w] # r \/ signal[w] # "current" THEN signal[w]
        ELSE IF becomesUp THEN "closed"
        ELSE IF leavesUp THEN "abandoned"
        ELSE "current"]

\* Faulty variant: a new up channel on every change to another state.
SetStateRemaking(r, s, c) ==
    /\ state' = [state EXCEPT ![r] = s]
    /\ chain' = [chain EXCEPT ![r] = c]
    /\ upClosed' = [upClosed EXCEPT ![r] = (s = "up")]
    /\ signal' = Signalled(r, s = "up", s # "up")

SetState(r, s, c) ==
    LET wasUp     == state[r] = "up"
        becomesUp == s = "up" /\ ~wasUp
        leavesUp  == s # "up" /\ wasUp
    IN  /\ state' = [state EXCEPT ![r] = s]
        /\ chain' = [chain EXCEPT ![r] = c]
        /\ upClosed' = [upClosed EXCEPT ![r] = (@ \/ becomesUp) /\ ~leavesUp]
        /\ signal' = Signalled(r, becomesUp, leavesUp)

-----------------------------------------------------------------------------
(* route.run *)

\* The top of the loop, up to the call of sshtun.Dial.
StartDial(r) ==
    /\ pc[r] = "top"
    /\ SetState(r, "connecting", NoChain)
    /\ pc' = [pc EXCEPT ![r] = "dialing"]
    /\ nudged' = nudged \ {r}
    /\ UNCHANGED <<mgrVars, dialed, failures, wait, quick, kick, kicking, resetting,
                   chainVars, at, want, got>>

\* sshtun.Dial answers with a chain, which nobody else knows yet.
DialSucceeds(r) ==
    /\ pc[r] = "dialing"
    /\ \E c \in Chain :
        /\ Garbage(c)
        /\ link' = [link EXCEPT ![c] = "open"]
        /\ dialed' = [dialed EXCEPT ![r] = c]
    /\ pc' = [pc EXCEPT ![r] = "dialed"]
    /\ UNCHANGED <<mgrVars, state, chain, upClosed, failures, wait, retryVars,
                   broken, probing, callerVars>>

\* Faulty variant: the goroutine returns without a look at what Dial gave.
DialedTooLateLeaking(r) ==
    /\ pc[r] = "dialed"
    /\ Cancelled
    /\ dialed' = [dialed EXCEPT ![r] = NoChain]
    /\ pc' = [pc EXCEPT ![r] = "stopped"]
    /\ UNCHANGED <<mgrVars, state, chain, upClosed, failures, wait, retryVars,
                   chainVars, callerVars>>

\* ctx.Err() after a successful dial: the chain is closed, not published.
DialedTooLate(r) ==
    /\ pc[r] = "dialed"
    /\ Cancelled
    /\ CloseChain(dialed[r])
    /\ dialed' = [dialed EXCEPT ![r] = NoChain]
    /\ pc' = [pc EXCEPT ![r] = "stopped"]
    /\ UNCHANGED <<mgrVars, state, chain, upClosed, failures, wait, retryVars,
                   probing, callerVars>>

\* The context is still alive: the goroutine does not look at it again
\* before it serves the chain.
DialedInTime(r) ==
    /\ pc[r] = "dialed"
    /\ ~Cancelled
    /\ failures' = [failures EXCEPT ![r] = 0]
    /\ pc' = [pc EXCEPT ![r] = "publishing"]
    /\ UNCHANGED <<mgrVars, state, chain, dialed, upClosed, wait, retryVars,
                   chainVars, callerVars>>

\* The route is up, with the chain for everybody.
Established(r) ==
    /\ pc[r] = "publishing"
    /\ SetState(r, "up", dialed[r])
    /\ pc' = [pc EXCEPT ![r] = "serving"]
    /\ UNCHANGED <<mgrVars, dialed, failures, wait, retryVars, chainVars, at, want, got>>

\* sshtun.Dial fails while the manager is open.
DialFails(r) ==
    /\ pc[r] = "dialing"
    /\ ~Cancelled
    /\ pc' = [pc EXCEPT ![r] = "failing"]
    /\ UNCHANGED <<mgrVars, state, chain, dialed, upClosed, failures, wait, retryVars,
                   chainVars, callerVars>>

\* sshtun.Dial fails once the manager is closing: the goroutine returns.
DialFailsClosing(r) ==
    /\ pc[r] = "dialing"
    /\ Cancelled
    /\ pc' = [pc EXCEPT ![r] = "stopped"]
    /\ UNCHANGED <<mgrVars, state, chain, dialed, upClosed, failures, wait, retryVars,
                   chainVars, callerVars>>

\* The route is set down before the wait is chosen.
PublishFailure(r) ==
    /\ pc[r] = "failing"
    /\ SetState(r, "down", NoChain)
    /\ pc' = [pc EXCEPT ![r] = "failed"]
    /\ UNCHANGED <<mgrVars, dialed, failures, wait, retryVars, chainVars, at, want, got>>

\* How long to wait: fastRetry while quick lasts, and then the failure does
\* not count (failures++ is taken back), or else backoff(failures): after many
\* failures that is none, and the route is dialed again at once.
ChooseWait(r) ==
    /\ pc[r] = "failed"
    /\ \/ /\ quick[r] > 0
          /\ quick' = [quick EXCEPT ![r] = @ - 1]
          /\ wait' = [wait EXCEPT ![r] = "fast"]
          /\ UNCHANGED failures
       \/ /\ quick[r] = 0
          /\ failures' = [failures EXCEPT ![r] = IF @ < MaxFailures THEN @ + 1 ELSE @]
          /\ wait' = [wait EXCEPT ![r] = Backoff(failures'[r])]
          /\ UNCHANGED quick
    /\ pc' = [pc EXCEPT ![r] = "waiting"]
    /\ UNCHANGED <<mgrVars, state, chain, dialed, upClosed, kick, nudged, kicking,
                   resetting, chainVars, callerVars>>

\* route.wait with no time to wait asks the context alone.
Hot(r) == pc[r] = "waiting" /\ wait[r] = "none"

\* Faulty variant: no timer, only a kick ends the wait.
RetryWhenKicked(r, kicked) ==
    /\ pc[r] = "waiting"
    /\ kick[r]
    /\ kick' = [kick EXCEPT ![r] = FALSE]
    /\ pc' = [pc EXCEPT ![r] = "top"]
    /\ UNCHANGED <<mgrVars, state, chain, dialed, upClosed, failures, wait, quick,
                   nudged, kicking, resetting, chainVars, callerVars>>

\* route.wait returns: its timer fired, a kick cut it short, or there was none.
Retry(r, kicked) ==
    /\ pc[r] = "waiting"
    /\ kicked => kick[r]
    /\ Hot(r) => ~kicked /\ ~Cancelled
    /\ kick' = [kick EXCEPT ![r] = @ /\ ~kicked]
    /\ pc' = [pc EXCEPT ![r] = "top"]
    /\ UNCHANGED <<mgrVars, state, chain, dialed, upClosed, failures, wait, quick,
                   nudged, kicking, resetting, chainVars, callerVars>>

\* route.wait returns because the manager closes.
StopWaiting(r) ==
    /\ pc[r] = "waiting"
    /\ Cancelled
    /\ pc' = [pc EXCEPT ![r] = "stopped"]
    /\ UNCHANGED <<mgrVars, state, chain, dialed, upClosed, failures, wait, retryVars,
                   chainVars, callerVars>>

\* Faulty variant: a chain that dropped is taken to be closed already.
NoticeDropOnly(r) ==
    /\ pc[r] = "serving"
    /\ link[dialed[r]] # "open"
    /\ pc' = [pc EXCEPT ![r] = "dropping"]
    /\ UNCHANGED <<mgrVars, state, chain, dialed, upClosed, failures, wait, retryVars,
                   chainVars, callerVars>>

\* The chain serving the route is done: it is closed first ...
NoticeDrop(r) ==
    /\ pc[r] = "serving"
    /\ link[dialed[r]] # "open"
    /\ CloseChain(dialed[r])
    /\ pc' = [pc EXCEPT ![r] = "dropping"]
    /\ UNCHANGED <<mgrVars, state, chain, dialed, upClosed, failures, wait, retryVars,
                   probing, callerVars>>

\* ... and the route set down after that, and redialed.
PublishDrop(r) ==
    /\ pc[r] = "dropping"
    /\ SetState(r, "down", NoChain)
    /\ dialed' = [dialed EXCEPT ![r] = NoChain]
    /\ pc' = [pc EXCEPT ![r] = "top"]
    /\ UNCHANGED <<mgrVars, failures, wait, retryVars, chainVars, at, want, got>>

\* Faulty variant: run waits for its chain alone.
StopServingOnDrop(r) ==
    /\ pc[r] = "serving"
    /\ Cancelled
    /\ link[dialed[r]] # "open"
    /\ CloseChain(dialed[r])
    /\ dialed' = [dialed EXCEPT ![r] = NoChain]
    /\ pc' = [pc EXCEPT ![r] = "stopped"]
    /\ UNCHANGED <<mgrVars, state, chain, upClosed, failures, wait, retryVars,
                   probing, callerVars>>

\* The manager closes under a live chain.  The route stays "up".
StopServing(r) ==
    /\ pc[r] = "serving"
    /\ Cancelled
    /\ CloseChain(dialed[r])
    /\ dialed' = [dialed EXCEPT ![r] = NoChain]
    /\ pc' = [pc EXCEPT ![r] = "stopped"]
    /\ UNCHANGED <<mgrVars, state, chain, upClosed, failures, wait, retryVars,
                   probing, callerVars>>

-----------------------------------------------------------------------------
(* route.nudge and route.reset.  Manager.Nudge and Manager.Reset hold the  *)
(* manager's mutex, so one of them at a time works on a route; what they   *)
(* do after route.mu is released is a step of its own.                     *)

Untouched(r) == r \notin kicking /\ resetting[r] = NoChain

\* Faulty variant: a route that is not up is left to its wait.
NudgeLive(r) ==
    /\ Untouched(r)
    /\ quick' = [quick EXCEPT ![r] = QuickRetries]
    /\ nudged' = nudged \cup {r}
    /\ IF state[r] = "up" THEN StartProbe(chain[r]) ELSE UNCHANGED probing
    /\ UNCHANGED <<mgrVars, runVars, kick, kicking, resetting, link, broken, callerVars>>

Nudge(r) ==
    /\ Untouched(r)
    /\ quick' = [quick EXCEPT ![r] = QuickRetries]
    /\ nudged' = nudged \cup {r}
    /\ IF state[r] = "up"
       THEN StartProbe(chain[r]) /\ UNCHANGED kicking
       ELSE kicking' = kicking \cup {r} /\ UNCHANGED probing
    /\ UNCHANGED <<mgrVars, runVars, kick, resetting, link, broken, callerVars>>

Reset(r) ==
    /\ Untouched(r)
    /\ quick' = [quick EXCEPT ![r] = QuickRetries]
    /\ nudged' = nudged \cup {r}
    /\ IF state[r] = "up"
       THEN resetting' = [resetting EXCEPT ![r] = chain[r]] /\ UNCHANGED kicking
       ELSE kicking' = kicking \cup {r} /\ UNCHANGED resetting
    /\ UNCHANGED <<mgrVars, runVars, kick, chainVars, callerVars>>

\* The send on route.kick: a value already there is enough.
Kick(r) ==
    /\ r \in kicking
    /\ kick' = [kick EXCEPT ![r] = TRUE]
    /\ kicking' = kicking \ {r}
    /\ UNCHANGED <<mgrVars, runVars, quick, nudged, resetting, chainVars, callerVars>>

\* The chain.Close of a reset.
ResetCloses(r) ==
    /\ resetting[r] # NoChain
    /\ CloseChain(resetting[r])
    /\ resetting' = [resetting EXCEPT ![r] = NoChain]
    /\ UNCHANGED <<mgrVars, runVars, quick, kick, nudged, kicking, probing,
                   callerVars>>

-----------------------------------------------------------------------------
(* sshtun.Chain, as far as its owner sees it *)

\* The far end stops answering, and nothing says so.
Break(c) ==
    /\ link[c] = "open"
    /\ c \notin broken
    /\ broken' = broken \cup {c}
    /\ UNCHANGED <<mgrVars, runVars, retryVars, link, probing, callerVars>>

\* Chain.watch: the server hangs up, and the connection reports it.
HangUp(c) ==
    /\ link[c] = "open"
    /\ link' = [link EXCEPT ![c] = "dropped"]
    /\ broken' = broken \ {c}
    /\ UNCHANGED <<mgrVars, runVars, retryVars, probing, callerVars>>

\* Chain.keepAlive's tick: a probe, at most one at a time.
KeepAlive(c) ==
    /\ link[c] = "open"
    /\ c \notin probing
    /\ StartProbe(c)
    /\ UNCHANGED <<mgrVars, runVars, retryVars, link, broken, callerVars>>

\* Faulty variant: the probe's error is only reported.
ProbeFailsQuietly(c) ==
    /\ c \in probing
    /\ link[c] = "open"
    /\ c \in broken
    /\ probing' = probing \ {c}
    /\ UNCHANGED <<mgrVars, runVars, retryVars, link, broken, callerVars>>

\* Chain.Probe is not answered: the chain drops, and with an SSH server as
\* its last hop the connections under it are closed as well.
ProbeFails(c) ==
    /\ c \in probing
    /\ link[c] = "open"
    /\ c \in broken
    /\ \E after \in {"dropped", "closed"} : link' = [link EXCEPT ![c] = after]
    /\ broken' = broken \ {c}
    /\ probing' = probing \ {c}
    /\ UNCHANGED <<mgrVars, runVars, retryVars, callerVars>>

\* Chain.Probe is answered, finds the chain done, or its context ends.
ProbeEnds(c) ==
    /\ c \in probing
    /\ link[c] # "open" \/ c \notin broken \/ Cancelled
    /\ probing' = probing \ {c}
    /\ UNCHANGED <<mgrVars, runVars, retryVars, link, broken, callerVars>>

-----------------------------------------------------------------------------
(* Manager.DialContext: route.dial and route.waitUp *)

Call(w, r) ==
    /\ at[w] = "idle"
    /\ at' = [at EXCEPT ![w] = "looking"]
    /\ want' = [want EXCEPT ![w] = r]
    /\ UNCHANGED <<mgrVars, runVars, retryVars, chainVars, signal, got>>

\* waitUp's critical section: the chain of a route that is up, or else its
\* up channel to wait on.
LookUp(w) ==
    /\ at[w] = "looking"
    /\ IF state[want[w]] = "up"
       THEN /\ got' = [got EXCEPT ![w] = chain[want[w]]]
            /\ at' = [at EXCEPT ![w] = "holding"]
            /\ UNCHANGED signal
       ELSE /\ signal' = [signal EXCEPT ![w] = "current"]
            /\ at' = [at EXCEPT ![w] = "blocked"]
            /\ UNCHANGED got
    /\ UNCHANGED <<mgrVars, runVars, retryVars, chainVars, want>>

\* The up channel is closed: look again.
WakeUp(w) ==
    /\ at[w] = "blocked"
    /\ signal[w] = "closed"
    /\ at' = [at EXCEPT ![w] = "looking"]
    /\ signal' = [signal EXCEPT ![w] = "none"]
    /\ UNCHANGED <<mgrVars, runVars, retryVars, chainVars, want, got>>

\* Faulty variant: only a stopped manager ends the wait.
GiveUpStopped(w) ==
    /\ at[w] = "blocked"
    /\ Cancelled
    /\ at' = [at EXCEPT ![w] = "idle"]
    /\ signal' = [signal EXCEPT ![w] = "none"]
    /\ UNCHANGED <<mgrVars, runVars, retryVars, chainVars, want, got>>

\* WaitForRoute passed, the caller's context ended or the manager stopped.
GiveUp(w) ==
    /\ at[w] = "blocked"
    /\ at' = [at EXCEPT ![w] = "idle"]
    /\ signal' = [signal EXCEPT ![w] = "none"]
    /\ UNCHANGED <<mgrVars, runVars, retryVars, chainVars, want, got>>

\* chain.DialContext: a connection or the target refusing, or an error that
\* has the chain probed in the background.
UseChain(w) ==
    /\ at[w] = "holding"
    /\ UNCHANGED probing \/ StartProbe(got[w])
    /\ at' = [at EXCEPT ![w] = "idle"]
    /\ got' = [got EXCEPT ![w] = NoChain]
    /\ UNCHANGED <<mgrVars, runVars, retryVars, link, broken, want, signal>>

-----------------------------------------------------------------------------
(* Manager.Close *)

Cancel ==
    /\ manager = "open"
    /\ manager' = "closing"
    /\ UNCHANGED <<runVars, retryVars, chainVars, callerVars>>

\* Faulty variant: Close without wg.Wait.
CloseReturnsAtOnce ==
    /\ manager = "closing"
    /\ manager' = "closed"
    /\ UNCHANGED <<runVars, retryVars, chainVars, callerVars>>

\* wg.Wait: every run goroutine has returned.
CloseReturns ==
    /\ manager = "closing"
    /\ \A r \in Routes : pc[r] = "stopped"
    /\ manager' = "closed"
    /\ UNCHANGED <<runVars, retryVars, chainVars, callerVars>>

-----------------------------------------------------------------------------
(* New *)
Init ==
    /\ manager = "open"
    /\ pc = [r \in Routes |-> "top"]
    /\ state = [r \in Routes |-> "connecting"]
    /\ chain = [r \in Routes |-> NoChain]
    /\ dialed = [r \in Routes |-> NoChain]
    /\ upClosed = [r \in Routes |-> FALSE]
    /\ quick = [r \in Routes |-> QuickRetries]
    /\ kick = [r \in Routes |-> FALSE]
    /\ failures = [r \in Routes |-> 0]
    /\ wait = [r \in Routes |-> "fast"]
    /\ nudged = {}
    /\ kicking = {}
    /\ resetting = [r \in Routes |-> NoChain]
    /\ link = [c \in Chain |-> "closed"]
    /\ broken = {}
    /\ probing = {}
    /\ at = [w \in Callers |-> "idle"]
    /\ want \in [Callers -> Routes]
    /\ signal = [w \in Callers |-> "none"]
    /\ got = [w \in Callers |-> NoChain]

Run(r) ==
    \/ StartDial(r) \/ DialSucceeds(r) \/ DialedTooLate(r) \/ DialedInTime(r)
    \/ Established(r) \/ DialFails(r) \/ DialFailsClosing(r) \/ PublishFailure(r)
    \/ ChooseWait(r)
    \/ Retry(r, TRUE) \/ Retry(r, FALSE) \/ StopWaiting(r)
    \/ NoticeDrop(r) \/ PublishDrop(r) \/ StopServing(r)

RouteNext(r) == Run(r) \/ Nudge(r) \/ Reset(r) \/ Kick(r) \/ ResetCloses(r)

ChainNext(c) == Break(c) \/ HangUp(c) \/ KeepAlive(c) \/ ProbeFails(c) \/ ProbeEnds(c)

CallerNext(w) ==
    \/ \E r \in Routes : Call(w, r)
    \/ LookUp(w) \/ WakeUp(w) \/ GiveUp(w) \/ UseChain(w)

Next ==
    \/ \E r \in Routes : RouteNext(r)
    \/ \E c \in Chain : ChainNext(c)
    \/ \E w \in Callers : CallerNext(w)
    \/ Cancel \/ CloseReturns

Spec == Init /\ [][Next]_vars

(* What the scheduler and the timers give: a goroutine that can go on goes  *)
(* on; sshtun.Dial and Chain.Probe are bounded by timeouts; keepAlive has a *)
(* ticker; waitUp has one timer for all its rounds, which, once it fired,   *)
(* is ready in every select.                                                *)
Fairness ==
    /\ \A r \in Routes : WF_vars(Run(r)) /\ WF_vars(Kick(r)) /\ WF_vars(ResetCloses(r))
    /\ \A c \in Chain : WF_vars(KeepAlive(c)) /\ WF_vars(ProbeFails(c) \/ ProbeEnds(c))
    /\ \A w \in Callers : /\ WF_vars(LookUp(w) \/ WakeUp(w) \/ GiveUp(w) \/ UseChain(w))
                          /\ SF_vars(GiveUp(w))
    /\ WF_vars(CloseReturns)

\* A server that is not gone for good: a route dialed over and over gets a
\* chain in the end.
ServersAnswer == \A r \in Routes : SF_vars(DialSucceeds(r))

FairSpec == Spec /\ Fairness /\ ServersAnswer

-----------------------------------------------------------------------------
(* Properties *)

RunStates == {"top", "dialing", "dialed", "publishing", "serving", "dropping",
              "failing", "failed", "waiting", "stopped"}

TypeOK ==
    /\ manager \in {"open", "closing", "closed"}
    /\ pc \in [Routes -> RunStates]
    /\ state \in [Routes -> {"connecting", "up", "down"}]
    /\ chain \in [Routes -> Chain \cup {NoChain}]
    /\ dialed \in [Routes -> Chain \cup {NoChain}]
    /\ upClosed \in [Routes -> BOOLEAN]
    /\ quick \in [Routes -> 0..QuickRetries]
    /\ kick \in [Routes -> BOOLEAN]
    /\ failures \in [Routes -> 0..MaxFailures]
    /\ wait \in [Routes -> {"fast", "backoff", "none"}]
    /\ nudged \subseteq Routes
    /\ kicking \subseteq Routes
    /\ resetting \in [Routes -> Chain \cup {NoChain}]
    /\ link \in [Chain -> {"open", "dropped", "closed"}]
    /\ broken \subseteq Chain
    /\ probing \subseteq Chain
    /\ at \in [Callers -> {"idle", "looking", "blocked", "holding"}]
    /\ want \in [Callers -> Routes]
    /\ signal \in [Callers -> {"none", "current", "closed", "abandoned"}]
    /\ got \in [Callers -> Chain \cup {NoChain}]

\* No connection leaks: a chain that is not closed is in the hands of exactly
\* one run goroutine, which has yet to publish it or is serving it.  However
\* a chain ends (hung up, unanswered, reset, or the manager closed while it
\* was dialed), run closes it before it lets go of it.
NoChainLeaks ==
    \A c \in Chain : link[c] # "closed" =>
        \E r \in Routes : /\ dialed[r] = c
                          /\ pc[r] \in {"dialed", "publishing", "serving"}
                          /\ \A q \in Routes \ {r} : dialed[q] # c /\ chain[q] # c

\* What DialContext hands out is what the route's goroutine watches: a route
\* that is up has the chain run is serving, or is about to take down, or the
\* manager was closed.  A caller is never given a forgotten chain that
\* nothing would replace.
UpMeansServed ==
    \A r \in Routes :
        /\ (state[r] = "up") <=> (chain[r] # NoChain)
        /\ state[r] = "up" => \/ pc[r] \in {"serving", "dropping"} /\ chain[r] = dialed[r]
                              \/ pc[r] = "stopped" /\ Cancelled

\* The up channel is closed exactly while the route is up, so setState never
\* closes it twice, which would panic, and a caller blocked on it waits for
\* a channel the route's next up closes, or one that is closed already.
WaitersAreHeard ==
    /\ \A r \in Routes : upClosed[r] <=> state[r] = "up"
    /\ \A w \in Callers : at[w] = "blocked" =>
          \/ signal[w] = "closed"
          \/ signal[w] = "current" /\ state[want[w]] # "up"

\* "Routes waiting out a backoff retry now": a route that was nudged or reset
\* since its last dial began does not sit out a backoff, however the nudge
\* falls between a failed dial and the wait after it; a kick is on its way.
NudgeIsNeverLost ==
    \A r \in nudged : pc[r] = "waiting" /\ wait[r] = "backoff" => kick[r] \/ r \in kicking

\* Close returns only when nothing is left: no goroutine runs, no chain is
\* held open by a server that the user disconnected from.
ClosedHoldsNothing ==
    manager = "closed" => /\ \A r \in Routes : pc[r] = "stopped"
                          /\ \A c \in Chain : link[c] = "closed"

\* Close comes back, whatever the routes are doing at the time.
CloseFinishes == (manager = "closing") ~> (manager = "closed")

\* A connection that asks for a route is answered, also when the route goes
\* up and down under it all the time.
CallersAreAnswered == \A w \in Callers : (at[w] = "looking") ~> (at[w] = "idle")

\* A chain that died unnoticed does not stay: the keepalive drops it.
BrokenChainsDrop ==
    \A c \in Chain : (link[c] = "open" /\ c \in broken) ~> (link[c] # "open")

\* A route that is not up comes up again, if its server can be reached.
RoutesRecover == \A r \in Routes : (state[r] # "up") ~> (state[r] = "up" \/ Cancelled)

-----------------------------------------------------------------------------
(* What the rest of the program sees: its calls and their answers *)

Asking == [w \in Callers |-> IF at[w] = "idle" THEN "idle"
                             ELSE IF at[w] = "holding" THEN "given"
                             ELSE "asking"]

Service == INSTANCE RouteService WITH
    offered <- chain,
    closed  <- (manager = "closed"),
    asking  <- Asking,
    given   <- got

\* The goroutines of chains.go offer their callers what RouteService promises:
\* a new chain only after the old one was withdrawn, one that no other route
\* offers and no caller still uses, and none once Close has returned.
ImplementsService == Service!Spec
=============================================================================
