---------------------------- MODULE ChainsProofs ----------------------------
(***************************************************************************)
(* The safety properties of Chains hold for any number of routes, chains   *)
(* and callers, any number of quick retries and any width of a duration.   *)
(*                                                                         *)
(* None of them is inductive as it stands.  IInv adds what the goroutines  *)
(* rely on between two steps: which places of run hold a chain, that no    *)
(* two of them hold the same one, that a route which is up is being        *)
(* served, and that a nudge which finds a dial in flight leaves it quick   *)
(* retries to fail with.                                                   *)
(***************************************************************************)
EXTENDS Chains, TLAPS

\* Places of run where its local variable holds a chain.
Held == {"dialed", "publishing", "serving", "dropping"}

\* Places of run between the start of a dial and the choice of the wait.
InDial == {"dialing", "failing", "failed"}

\* What a route's goroutine knows at each place.
Places ==
    \A r \in Routes :
        /\ dialed[r] # NoChain <=> pc[r] \in Held
        /\ pc[r] = "stopped" => Cancelled

\* No chain is in the hands of two routes.
Apart ==
    \A r, q \in Routes :
        /\ dialed[r] # NoChain /\ dialed[r] = dialed[q] => r = q
        /\ dialed[r] # NoChain /\ dialed[r] = chain[q] => r = q

\* An open or dropped chain is held by a goroutine that has yet to close it.
Owned ==
    \A c \in Chain : link[c] # "closed" =>
        \E r \in Routes : dialed[r] = c /\ pc[r] \in {"dialed", "publishing", "serving"}

\* A chain nobody was shown yet is in nobody's hands.
Unseen ==
    \A r \in Routes, w \in Callers :
        pc[r] \in {"dialed", "publishing"} => got[w] # dialed[r]

\* A caller that was given a chain has one.
Given == \A w \in Callers : at[w] = "holding" => got[w] # NoChain

\* A route nudged while it dials has quick retries left when the dial fails.
QuickWhenNudged == \A r \in nudged : pc[r] \in InDial => quick[r] > 0

\* wg.Wait: Close returned after every goroutine.
Waited == manager = "closed" => \A r \in Routes : pc[r] = "stopped"

IInv ==
    /\ TypeOK /\ Places /\ UpMeansServed /\ Given
    /\ Apart /\ Owned /\ Unseen
    /\ WaitersAreHeard
    /\ QuickWhenNudged /\ NudgeIsNeverLost
    /\ Waited

-----------------------------------------------------------------------------
(* The initial states *)

LEMMA InitIInv == Init => IInv
  BY ChainsAssumption DEF Init, IInv, TypeOK, Places, UpMeansServed, Given, Apart, Owned, Unseen,
     WaitersAreHeard, QuickWhenNudged, NudgeIsNeverLost, Waited, Held, InDial, RunStates,
     Cancelled

-----------------------------------------------------------------------------
(* What a step leaves alone *)

\* Only run moves a route: the rest of the program leaves its place, what it
\* publishes and what it holds as they are.
LEMMA OnlyRunMoves == [Next]_vars => (\E r \in Routes : Run(r)) \/ UNCHANGED runVars
  BY DEF Next, RouteNext, ChainNext, CallerNext, Nudge, Reset, Kick, ResetCloses, Break,
     HangUp, KeepAlive, ProbeFails, ProbeEnds, Call, LookUp, WakeUp, GiveUp, UseChain,
     Cancel, CloseReturns, vars

\* Only Close moves the manager, and it never opens again.
LEMMA ManagerMoves == [Next]_vars => UNCHANGED manager \/ Cancel \/ CloseReturns
  BY DEF Next, RouteNext, Run, StartDial, DialSucceeds, DialedTooLate, DialedInTime,
     Established, DialFails, DialFailsClosing, PublishFailure, ChooseWait, Retry,
     StopWaiting, NoticeDrop, PublishDrop, StopServing,
     ChainNext, CallerNext, Nudge, Reset, Kick, ResetCloses, Break,
     HangUp, KeepAlive, ProbeFails, ProbeEnds, Call, LookUp, WakeUp, GiveUp, UseChain,
     vars, mgrVars

\* Once the context is cancelled it stays so.
LEMMA CancelledStays == [Next]_vars /\ Cancelled => Cancelled'
  BY ManagerMoves DEF Cancel, CloseReturns, Cancelled

-----------------------------------------------------------------------------
(* Types *)

\* Nothing an action assigns leaves its type, provided a route that is up has
\* a chain to probe and to reset and a caller that was given a chain has one.
LEMMA TypeStep == TypeOK /\ UpMeansServed /\ Given /\ [Next]_vars => TypeOK'
<1> SUFFICES ASSUME TypeOK, UpMeansServed, Given, [Next]_vars
             PROVE  TypeOK'
  OBVIOUS
<1> USE ChainsAssumption
<1> USE DEF vars, mgrVars, runVars, retryVars, chainVars, callerVars
<1>1. ASSUME NEW r \in Routes, Run(r)
      PROVE  TypeOK'
  <2>1. CASE StartDial(r)
    BY <2>1 DEF StartDial, SetState, Signalled, TypeOK, RunStates
  <2>2. CASE DialSucceeds(r)
    BY <2>2 DEF DialSucceeds, TypeOK, RunStates
  <2>3. CASE DialedTooLate(r)
    BY <2>3 DEF DialedTooLate, CloseChain, TypeOK, RunStates
  <2>4. CASE DialedInTime(r)
    BY <2>4 DEF DialedInTime, TypeOK, RunStates
  <2>5. CASE Established(r)
    BY <2>5 DEF Established, SetState, Signalled, TypeOK, RunStates
  <2>6. CASE DialFails(r)
    BY <2>6 DEF DialFails, TypeOK, RunStates
  <2>7. CASE DialFailsClosing(r)
    BY <2>7 DEF DialFailsClosing, TypeOK, RunStates
  <2>8. CASE PublishFailure(r)
    BY <2>8 DEF PublishFailure, SetState, Signalled, TypeOK, RunStates
  <2>9. CASE ChooseWait(r)
    <3>1. failures' \in [Routes -> 0..MaxFailures] /\ quick' \in [Routes -> 0..QuickRetries]
      BY <2>9 DEF ChooseWait, TypeOK
    <3>2. wait' \in [Routes -> {"fast", "backoff", "none"}]
      BY <2>9 DEF ChooseWait, Backoff, TypeOK
    <3>3. pc' \in [Routes -> RunStates]
      BY <2>9 DEF ChooseWait, TypeOK, RunStates
    <3> QED
      BY <2>9, <3>1, <3>2, <3>3 DEF ChooseWait, TypeOK
  <2>10. ASSUME NEW kicked \in BOOLEAN, Retry(r, kicked)
        PROVE  TypeOK'
    BY <2>10 DEF Retry, TypeOK, RunStates
  <2>11. CASE StopWaiting(r)
    BY <2>11 DEF StopWaiting, TypeOK, RunStates
  <2>12. CASE NoticeDrop(r)
    BY <2>12 DEF NoticeDrop, CloseChain, TypeOK, RunStates
  <2>13. CASE PublishDrop(r)
    BY <2>13 DEF PublishDrop, SetState, Signalled, TypeOK, RunStates
  <2>14. CASE StopServing(r)
    BY <2>14 DEF StopServing, CloseChain, TypeOK, RunStates
  <2> QED
    BY <1>1, <2>1, <2>2, <2>3, <2>4, <2>5, <2>6, <2>7, <2>8, <2>9, <2>10, <2>11, <2>12,
       <2>13, <2>14 DEF Run
<1>2. ASSUME NEW r \in Routes, Nudge(r) \/ Reset(r)
      PROVE  TypeOK'
  BY <1>2 DEF Nudge, Reset, StartProbe, UpMeansServed, TypeOK
<1>3. ASSUME NEW r \in Routes, Kick(r) \/ ResetCloses(r)
      PROVE  TypeOK'
  BY <1>3, ZenonT(60) DEF Kick, ResetCloses, CloseChain, TypeOK
<1>4. ASSUME NEW c \in Chain, ChainNext(c)
      PROVE  TypeOK'
  BY <1>4 DEF ChainNext, Break, HangUp, KeepAlive, ProbeFails, ProbeEnds, StartProbe, TypeOK
<1>5. ASSUME NEW w \in Callers, CallerNext(w)
      PROVE  TypeOK'
  BY <1>5 DEF CallerNext, Call, LookUp, WakeUp, GiveUp, UseChain, StartProbe, Given, TypeOK
<1>6. CASE Cancel \/ CloseReturns
  BY <1>6 DEF Cancel, CloseReturns, TypeOK
<1>7. CASE UNCHANGED vars
  BY <1>7 DEF TypeOK
<1> QED
  BY <1>1, <1>2, <1>3, <1>4, <1>5, <1>6, <1>7 DEF Next, RouteNext

-----------------------------------------------------------------------------
(* The places of run *)

\* A goroutine holds a chain at exactly the places of Held, and stops only
\* because the manager closes.
LEMMA PlacesStep == TypeOK /\ Places /\ [Next]_vars => Places'
<1> SUFFICES ASSUME TypeOK, Places, [Next]_vars
             PROVE  Places'
  OBVIOUS
<1> USE ChainsAssumption
<1> USE DEF runVars, Held, Places, TypeOK
<1>1. ASSUME NEW r \in Routes, Run(r)
      PROVE  Places'
  <2>1. CASE StartDial(r)
    BY <2>1, CancelledStays DEF StartDial, SetState, Signalled
  <2>2. CASE DialSucceeds(r)
    BY <2>2, CancelledStays DEF DialSucceeds
  <2>3. CASE DialedTooLate(r)
    BY <2>3, CancelledStays DEF DialedTooLate, CloseChain
  <2>4. CASE DialedInTime(r)
    BY <2>4, CancelledStays DEF DialedInTime
  <2>5. CASE Established(r)
    BY <2>5, CancelledStays DEF Established, SetState, Signalled
  <2>6. CASE DialFails(r)
    BY <2>6, CancelledStays DEF DialFails
  <2>7. CASE DialFailsClosing(r)
    BY <2>7, CancelledStays DEF DialFailsClosing
  <2>8. CASE PublishFailure(r)
    BY <2>8, CancelledStays DEF PublishFailure, SetState, Signalled
  <2>9. CASE ChooseWait(r)
    BY <2>9, CancelledStays DEF ChooseWait
  <2>10. ASSUME NEW kicked \in BOOLEAN, Retry(r, kicked)
        PROVE  Places'
    BY <2>10, CancelledStays DEF Retry
  <2>11. CASE StopWaiting(r)
    BY <2>11, CancelledStays DEF StopWaiting
  <2>12. CASE NoticeDrop(r)
    BY <2>12, CancelledStays DEF NoticeDrop, CloseChain
  <2>13. CASE PublishDrop(r)
    BY <2>13, CancelledStays DEF PublishDrop, SetState, Signalled
  <2>14. CASE StopServing(r)
    BY <2>14, CancelledStays DEF StopServing, CloseChain
  <2> QED
    BY <1>1, <2>1, <2>2, <2>3, <2>4, <2>5, <2>6, <2>7, <2>8, <2>9, <2>10, <2>11, <2>12,
       <2>13, <2>14 DEF Run
<1>2. CASE UNCHANGED runVars
  BY <1>2, CancelledStays
<1> QED
  BY <1>1, <1>2, OnlyRunMoves

\* A route is up with the chain its goroutine serves or is about to take down.
LEMMA UpStep == TypeOK /\ Places /\ UpMeansServed /\ [Next]_vars => UpMeansServed'
<1> SUFFICES ASSUME TypeOK, Places, UpMeansServed, [Next]_vars
             PROVE  UpMeansServed'
  OBVIOUS
<1> USE ChainsAssumption
<1> USE DEF runVars, Held, Places, UpMeansServed, TypeOK
<1>1. ASSUME NEW r \in Routes, Run(r)
      PROVE  UpMeansServed'
  <2>1. CASE StartDial(r)
    BY <2>1, CancelledStays DEF StartDial, SetState, Signalled
  <2>2. CASE DialSucceeds(r)
    BY <2>2, CancelledStays DEF DialSucceeds
  <2>3. CASE DialedTooLate(r)
    BY <2>3, CancelledStays DEF DialedTooLate, CloseChain
  <2>4. CASE DialedInTime(r)
    BY <2>4, CancelledStays DEF DialedInTime
  <2>5. CASE Established(r)
    BY <2>5, CancelledStays DEF Established, SetState, Signalled
  <2>6. CASE DialFails(r)
    BY <2>6, CancelledStays DEF DialFails
  <2>7. CASE DialFailsClosing(r)
    BY <2>7, CancelledStays DEF DialFailsClosing
  <2>8. CASE PublishFailure(r)
    BY <2>8, CancelledStays DEF PublishFailure, SetState, Signalled
  <2>9. CASE ChooseWait(r)
    BY <2>9, CancelledStays DEF ChooseWait
  <2>10. ASSUME NEW kicked \in BOOLEAN, Retry(r, kicked)
        PROVE  UpMeansServed'
    BY <2>10, CancelledStays DEF Retry
  <2>11. CASE StopWaiting(r)
    BY <2>11, CancelledStays DEF StopWaiting
  <2>12. CASE NoticeDrop(r)
    BY <2>12, CancelledStays DEF NoticeDrop, CloseChain
  <2>13. CASE PublishDrop(r)
    BY <2>13, CancelledStays DEF PublishDrop, SetState, Signalled
  <2>14. CASE StopServing(r)
    BY <2>14, CancelledStays DEF StopServing, CloseChain
  <2> QED
    BY <1>1, <2>1, <2>2, <2>3, <2>4, <2>5, <2>6, <2>7, <2>8, <2>9, <2>10, <2>11, <2>12,
       <2>13, <2>14 DEF Run
<1>2. CASE UNCHANGED runVars
  BY <1>2, CancelledStays
<1> QED
  BY <1>1, <1>2, OnlyRunMoves

-----------------------------------------------------------------------------
(* Who holds a chain *)

\* A caller keeps the chain it was given for as long as it uses it.
LEMMA GivenStep == TypeOK /\ UpMeansServed /\ Given /\ [Next]_vars => Given'
<1> SUFFICES ASSUME TypeOK, UpMeansServed, Given, [Next]_vars
             PROVE  Given'
  OBVIOUS
<1> USE ChainsAssumption DEF Given, TypeOK
<1>1. ASSUME NEW w \in Callers, CallerNext(w)
      PROVE  Given'
  BY <1>1 DEF CallerNext, Call, LookUp, WakeUp, GiveUp, UseChain, UpMeansServed
<1>2. CASE UNCHANGED <<at, got>>
  BY <1>2
<1> QED
  BY <1>1, <1>2 DEF Next, RouteNext, Run, StartDial, DialSucceeds, DialedTooLate,
     DialedInTime, Established, DialFails, DialFailsClosing, PublishFailure, ChooseWait,
     Retry, StopWaiting, NoticeDrop, PublishDrop, StopServing, Nudge, Reset, Kick,
     ResetCloses, ChainNext, Break, HangUp, KeepAlive, ProbeFails, ProbeEnds, Cancel,
     CloseReturns, vars, callerVars

\* The one action that gives run a chain takes one that nobody refers to, and
\* the one that publishes a chain publishes the route's own.
LEMMA ApartStep == TypeOK /\ Places /\ UpMeansServed /\ Apart /\ [Next]_vars => Apart'
<1> SUFFICES ASSUME TypeOK, Places, UpMeansServed, Apart, [Next]_vars
             PROVE  Apart'
  OBVIOUS
<1> USE ChainsAssumption
<1> USE DEF runVars, Held, Places, UpMeansServed, Apart, TypeOK
<1>1. ASSUME NEW r \in Routes, Run(r)
      PROVE  Apart'
  <2>1. CASE StartDial(r)
    BY <2>1 DEF StartDial, SetState, Signalled
  <2>2. CASE DialSucceeds(r)
    BY <2>2 DEF DialSucceeds, Garbage
  <2>3. CASE DialedTooLate(r)
    BY <2>3 DEF DialedTooLate, CloseChain
  <2>4. CASE DialedInTime(r)
    BY <2>4 DEF DialedInTime
  <2>5. CASE Established(r)
    BY <2>5 DEF Established, SetState, Signalled
  <2>6. CASE DialFails(r)
    BY <2>6 DEF DialFails
  <2>7. CASE DialFailsClosing(r)
    BY <2>7 DEF DialFailsClosing
  <2>8. CASE PublishFailure(r)
    BY <2>8 DEF PublishFailure, SetState, Signalled
  <2>9. CASE ChooseWait(r)
    BY <2>9 DEF ChooseWait
  <2>10. ASSUME NEW kicked \in BOOLEAN, Retry(r, kicked)
        PROVE  Apart'
    BY <2>10 DEF Retry
  <2>11. CASE StopWaiting(r)
    BY <2>11 DEF StopWaiting
  <2>12. CASE NoticeDrop(r)
    BY <2>12 DEF NoticeDrop, CloseChain
  <2>13. CASE PublishDrop(r)
    BY <2>13 DEF PublishDrop, SetState, Signalled
  <2>14. CASE StopServing(r)
    BY <2>14 DEF StopServing, CloseChain
  <2> QED
    BY <1>1, <2>1, <2>2, <2>3, <2>4, <2>5, <2>6, <2>7, <2>8, <2>9, <2>10, <2>11, <2>12,
       <2>13, <2>14 DEF Run
<1>2. CASE UNCHANGED runVars
  BY <1>2
<1> QED
  BY <1>1, <1>2, OnlyRunMoves


\* Every other action only takes a chain closer to being closed.
LEMMA LinksOnlyClose ==
  [Next]_vars /\ TypeOK =>
    \/ \E r \in Routes : DialSucceeds(r)
    \/ \A c \in Chain : link'[c] # "closed" => link[c] # "closed"
<1> SUFFICES ASSUME TypeOK, [Next]_vars, ~\E r \in Routes : DialSucceeds(r),
                    NEW c \in Chain, link'[c] # "closed"
             PROVE  link[c] # "closed"
  OBVIOUS
<1> USE DEF TypeOK
<1>1. ASSUME NEW r \in Routes, RouteNext(r)
      PROVE  link[c] # "closed"
  BY <1>1 DEF RouteNext, Run, StartDial, DialedTooLate, DialedInTime, Established, DialFails,
     DialFailsClosing, PublishFailure, ChooseWait, Retry, StopWaiting, NoticeDrop,
     PublishDrop, StopServing, Nudge, Reset, Kick, ResetCloses, CloseChain, chainVars
<1>2. ASSUME NEW d \in Chain, ChainNext(d)
      PROVE  link[c] # "closed"
  BY <1>2 DEF ChainNext, Break, HangUp, KeepAlive, ProbeFails, ProbeEnds
<1>3. ASSUME NEW w \in Callers, CallerNext(w)
      PROVE  link[c] # "closed"
  BY <1>3 DEF CallerNext, Call, LookUp, WakeUp, GiveUp, UseChain, chainVars
<1>4. CASE Cancel \/ CloseReturns \/ UNCHANGED vars
  BY <1>4 DEF Cancel, CloseReturns, vars, chainVars
<1> QED
  BY <1>1, <1>2, <1>3, <1>4 DEF Next

\* A chain is not let go of before it is closed: whoever takes a goroutine
\* away from the places that own a chain closes it in the same step.
LEMMA OwnedStep == TypeOK /\ Places /\ Apart /\ Owned /\ [Next]_vars => Owned'
<1> SUFFICES ASSUME TypeOK, Places, Apart, Owned, [Next]_vars
             PROVE  Owned'
  OBVIOUS
<1> USE ChainsAssumption
<1>1. ASSUME NEW r \in Routes, DialSucceeds(r)
      PROVE  Owned'
  BY <1>1 DEF DialSucceeds, Garbage, Owned, Places, Held, TypeOK
<1>2. ASSUME NEW r \in Routes, Run(r), ~DialSucceeds(r),
             \A c \in Chain : link'[c] # "closed" => link[c] # "closed"
      PROVE  Owned'
  <2> SUFFICES ASSUME NEW c \in Chain, link'[c] # "closed"
               PROVE  \E q \in Routes : /\ dialed'[q] = c
                                        /\ pc'[q] \in {"dialed", "publishing", "serving"}
    BY DEF Owned
  <2>1. PICK q \in Routes : dialed[q] = c /\ pc[q] \in {"dialed", "publishing", "serving"}
    BY <1>2 DEF Owned
  <2>2. CASE q # r
    <3>1. dialed'[q] = dialed[q] /\ pc'[q] = pc[q]
      BY <1>2, <2>2 DEF Run, StartDial, DialedTooLate, DialedInTime, Established, DialFails,
         DialFailsClosing, PublishFailure, ChooseWait, Retry, StopWaiting, NoticeDrop,
         PublishDrop, StopServing, TypeOK
    <3> QED
      BY <2>1, <3>1
  <2>3. CASE q = r
    <3>1. DialedInTime(r) \/ Established(r) \/ DialedTooLate(r) \/ NoticeDrop(r) \/ StopServing(r)
      BY <1>2, <2>1, <2>3 DEF Run, StartDial, DialFails, DialFailsClosing, PublishFailure,
         ChooseWait, Retry, StopWaiting, PublishDrop
    <3>2. ~DialedTooLate(r) /\ ~NoticeDrop(r) /\ ~StopServing(r)
      BY <2>1, <2>3 DEF DialedTooLate, NoticeDrop, StopServing, CloseChain, TypeOK
    <3>3. dialed'[r] = c /\ pc'[r] \in {"publishing", "serving"}
      BY <2>1, <2>3, <3>1, <3>2 DEF DialedInTime, Established, TypeOK
    <3> QED
      BY <3>3
  <2> QED
    BY <2>2, <2>3
<1>3. CASE /\ UNCHANGED runVars
           /\ \A c \in Chain : link'[c] # "closed" => link[c] # "closed"
  BY <1>3 DEF Owned, runVars
<1> QED
  BY <1>1, <1>2, <1>3, OnlyRunMoves, LinksOnlyClose

\* A caller is given only a chain that was published.
LEMMA UnseenStep ==
  TypeOK /\ Places /\ UpMeansServed /\ Apart /\ Unseen /\ [Next]_vars => Unseen'
<1> SUFFICES ASSUME TypeOK, Places, UpMeansServed, Apart, Unseen, [Next]_vars
             PROVE  Unseen'
  OBVIOUS
<1> USE ChainsAssumption DEF Places, Held, UpMeansServed, Apart, Unseen, TypeOK
<1>1. ASSUME NEW r \in Routes, Run(r)
      PROVE  Unseen'
  BY <1>1 DEF Run, StartDial, DialSucceeds, Garbage, DialedTooLate, DialedInTime, Established,
     DialFails, DialFailsClosing, PublishFailure, ChooseWait, Retry, StopWaiting, NoticeDrop,
     PublishDrop, StopServing, callerVars
<1>2. ASSUME NEW w \in Callers, CallerNext(w)
      PROVE  Unseen'
  BY <1>2, SMTT(30) DEF CallerNext, Call, LookUp, WakeUp, GiveUp, UseChain, runVars
<1>3. CASE UNCHANGED <<pc, dialed, got>>
  BY <1>3
<1> QED
  BY <1>1, <1>2, <1>3 DEF Next, RouteNext, Nudge, Reset, Kick, ResetCloses, ChainNext, Break,
     HangUp, KeepAlive, ProbeFails, ProbeEnds, Cancel, CloseReturns, vars, runVars, callerVars

-----------------------------------------------------------------------------
(* Callers, nudges and Close *)

\* A caller blocks on the channel a route that is not up has, and setState
\* replaces no channel that is still open.
LEMMA WaitersStep == TypeOK /\ WaitersAreHeard /\ [Next]_vars => WaitersAreHeard'
<1> SUFFICES ASSUME TypeOK, WaitersAreHeard, [Next]_vars
             PROVE  WaitersAreHeard'
  OBVIOUS
<1> USE DEF WaitersAreHeard, TypeOK
<1>1. ASSUME NEW r \in Routes, StartDial(r) \/ Established(r) \/ PublishFailure(r) \/ PublishDrop(r)
      PROVE  WaitersAreHeard'
  <2>1. PICK s \in {"connecting", "up", "down"}, c \in Chain \cup {NoChain} : SetState(r, s, c)
    BY <1>1 DEF StartDial, Established, PublishFailure, PublishDrop
  <2>2. at' = at /\ want' = want
    BY <1>1 DEF StartDial, Established, PublishFailure, PublishDrop
  <2> QED
    BY <2>1, <2>2, ZenonT(60) DEF SetState, Signalled
<1>2. ASSUME NEW w \in Callers, CallerNext(w)
      PROVE  WaitersAreHeard'
  BY <1>2 DEF CallerNext, Call, LookUp, WakeUp, GiveUp, UseChain, runVars
<1>3. CASE UNCHANGED <<state, upClosed, at, want, signal>>
  BY <1>3
<1> QED
  BY <1>1, <1>2, <1>3 DEF Next, RouteNext, Run, DialSucceeds, DialedTooLate, DialedInTime,
     DialFails, DialFailsClosing, ChooseWait, Retry, StopWaiting, NoticeDrop, StopServing,
     Nudge, Reset, Kick, ResetCloses, ChainNext, Break, HangUp, KeepAlive, ProbeFails,
     ProbeEnds, Cancel, CloseReturns, vars, runVars, callerVars

\* Only ChooseWait uses up a quick retry, and then the wait is a short one.
LEMMA QuickStep == TypeOK /\ QuickWhenNudged /\ [Next]_vars => QuickWhenNudged'
<1> SUFFICES ASSUME TypeOK, QuickWhenNudged, [Next]_vars
             PROVE  QuickWhenNudged'
  OBVIOUS
<1> USE ChainsAssumption DEF QuickWhenNudged, InDial, TypeOK
<1>1. ASSUME NEW r \in Routes, Run(r)
      PROVE  QuickWhenNudged'
  BY <1>1 DEF Run, StartDial, DialSucceeds, DialedTooLate, DialedInTime, Established,
     DialFails, DialFailsClosing, PublishFailure, ChooseWait, Retry, StopWaiting, NoticeDrop,
     PublishDrop, StopServing, retryVars
<1>2. ASSUME NEW r \in Routes, Nudge(r) \/ Reset(r)
      PROVE  QuickWhenNudged'
  BY <1>2 DEF Nudge, Reset, runVars
<1>3. CASE UNCHANGED <<pc, quick, nudged>>
  BY <1>3
<1> QED
  BY <1>1, <1>2, <1>3 DEF Next, RouteNext, Kick, ResetCloses, ChainNext, CallerNext, Break,
     HangUp, KeepAlive, ProbeFails, ProbeEnds, Call, LookUp, WakeUp, GiveUp, UseChain,
     Cancel, CloseReturns, vars, runVars, retryVars

\* A nudge that finds a route waiting is about to kick it, and one that came
\* before the wait was chosen has made it short, or there is none.
LEMMA NudgeStep ==
  TypeOK /\ UpMeansServed /\ QuickWhenNudged /\ NudgeIsNeverLost /\ [Next]_vars
    => NudgeIsNeverLost'
<1> SUFFICES ASSUME TypeOK, UpMeansServed, QuickWhenNudged, NudgeIsNeverLost, [Next]_vars
             PROVE  NudgeIsNeverLost'
  OBVIOUS
<1> USE ChainsAssumption DEF NudgeIsNeverLost, TypeOK
<1>1. ASSUME NEW r \in Routes, Run(r)
      PROVE  NudgeIsNeverLost'
  BY <1>1 DEF Run, StartDial, DialSucceeds, DialedTooLate, DialedInTime, Established,
     DialFails, DialFailsClosing, PublishFailure, ChooseWait, Retry, StopWaiting, NoticeDrop,
     PublishDrop, StopServing, retryVars, QuickWhenNudged, InDial
<1>2. ASSUME NEW r \in Routes, Nudge(r) \/ Reset(r)
      PROVE  NudgeIsNeverLost'
  BY <1>2 DEF Nudge, Reset, runVars, UpMeansServed
<1>3. ASSUME NEW r \in Routes, Kick(r) \/ ResetCloses(r)
      PROVE  NudgeIsNeverLost'
  BY <1>3 DEF Kick, ResetCloses, runVars
<1>4. CASE UNCHANGED <<pc, wait, kick, nudged, kicking>>
  BY <1>4
<1> QED
  BY <1>1, <1>2, <1>3, <1>4 DEF Next, RouteNext, ChainNext, CallerNext, Break,
     HangUp, KeepAlive, ProbeFails, ProbeEnds, Call, LookUp, WakeUp, GiveUp, UseChain,
     Cancel, CloseReturns, vars, runVars, retryVars

\* A goroutine that has returned does not come back.
LEMMA WaitedStep == TypeOK /\ Waited /\ [Next]_vars => Waited'
<1> SUFFICES ASSUME TypeOK, Waited, [Next]_vars
             PROVE  Waited'
  OBVIOUS
<1>1. \A r \in Routes : pc[r] = "stopped" => pc'[r] = "stopped"
  BY OnlyRunMoves DEF Run, StartDial, DialSucceeds, DialedTooLate, DialedInTime, Established,
     DialFails, DialFailsClosing, PublishFailure, ChooseWait, Retry, StopWaiting, NoticeDrop,
     PublishDrop, StopServing, runVars, TypeOK
<1> QED
  BY <1>1, ManagerMoves DEF Waited, Cancel, CloseReturns, runVars

-----------------------------------------------------------------------------
(* The theorems *)

LEMMA StepIInv == IInv /\ [Next]_vars => IInv'
  BY TypeStep, PlacesStep, UpStep, GivenStep, ApartStep, OwnedStep, UnseenStep,
     WaitersStep, QuickStep, NudgeStep, WaitedStep DEF IInv

LEMMA Inductive == Spec => []IInv
  BY InitIInv, StepIInv, PTL DEF Spec

\* Every variable keeps its type: quick never counts below zero, and each place
\* of run is one of the ten.  Nothing is said of how long a wait is.
THEOREM TypeCorrect == Spec => []TypeOK
<1>1. IInv => TypeOK
  BY DEF IInv
<1> QED
  BY <1>1, Inductive, PTL

\* Whatever ends a chain (its server, a failed probe, a reset, Close at any
\* moment of a dial), it is closed, and only one route ever has it.
THEOREM NoLeak == Spec => []NoChainLeaks
<1>1. IInv => NoChainLeaks
  <2> SUFFICES ASSUME IInv, NEW c \in Chain, link[c] # "closed"
               PROVE  \E r \in Routes : /\ dialed[r] = c
                                        /\ pc[r] \in {"dialed", "publishing", "serving"}
                                        /\ \A q \in Routes \ {r} : dialed[q] # c /\ chain[q] # c
    BY DEF NoChainLeaks
  <2>1. PICK r \in Routes : dialed[r] = c /\ pc[r] \in {"dialed", "publishing", "serving"}
    BY DEF IInv, Owned
  <2>2. dialed[r] # NoChain
    BY <2>1, ChainsAssumption
  <2>3. \A q \in Routes \ {r} : dialed[q] # c /\ chain[q] # c
    BY <2>1, <2>2 DEF IInv, Apart
  <2> QED
    BY <2>1, <2>3
<1> QED
  BY <1>1, Inductive, PTL

\* What DialContext hands out is a chain that run watches, or closes itself.
THEOREM UpIsServed == Spec => []UpMeansServed
<1>1. IInv => UpMeansServed
  BY DEF IInv
<1> QED
  BY <1>1, Inductive, PTL

\* A caller never waits on a channel that nobody is going to close, and no
\* channel is closed twice.
THEOREM WaitersHeard == Spec => []WaitersAreHeard
<1>1. IInv => WaitersAreHeard
  BY DEF IInv
<1> QED
  BY <1>1, Inductive, PTL

\* No interleaving of a nudge with a failing dial leaves the route in a
\* backoff that the nudge does not cut short.
THEOREM NudgeHeard == Spec => []NudgeIsNeverLost
<1>1. IInv => NudgeIsNeverLost
  BY DEF IInv
<1> QED
  BY <1>1, Inductive, PTL

\* Once Close has returned no goroutine runs and no chain is open.
THEOREM ClosedIsClosed == Spec => []ClosedHoldsNothing
<1>1. IInv => ClosedHoldsNothing
  BY DEF IInv, Waited, Owned, ClosedHoldsNothing
<1> QED
  BY <1>1, Inductive, PTL

-----------------------------------------------------------------------------
(* Refinement *)

\* A route's goroutine offers a chain, withdraws one, or does what nobody sees.
LEMMA RunRefines ==
  ASSUME IInv, NEW r \in Routes, Run(r)
  PROVE  [Service!Next]_(Service!vars)
<1> USE ChainsAssumption DEF IInv, TypeOK
<1>1. UNCHANGED <<manager, at, want, got>>
  BY DEF Run, StartDial, DialSucceeds, DialedTooLate, DialedInTime, Established, DialFails,
     DialFailsClosing, PublishFailure, ChooseWait, Retry, StopWaiting, NoticeDrop,
     PublishDrop, StopServing, mgrVars, callerVars
<1>2. UNCHANGED <<manager = "closed", Asking, want, got>>
  BY <1>1 DEF Asking
<1>3. CASE Established(r)
  <2>1. dialed[r] \in Chain /\ chain[r] = NoChain /\ manager # "closed"
    BY <1>3 DEF Established, Places, Held, UpMeansServed, Waited
  <2>2. (\A q \in Routes : chain[q] # dialed[r]) /\ \A w \in Callers : got[w] # dialed[r]
    BY <1>3, <2>1 DEF Established, Apart, Unseen
  <2>3. chain' = [chain EXCEPT ![r] = dialed[r]]
    BY <1>3 DEF Established, SetState
  <2>4. Service!Offer(r, dialed[r])
    BY <1>2, <2>1, <2>2, <2>3 DEF Service!Offer
  <2> QED
    BY <2>1, <2>4 DEF Service!Next
<1>4. CASE StartDial(r) \/ PublishFailure(r) \/ PublishDrop(r)
  <2>1. chain' = [chain EXCEPT ![r] = NoChain]
    BY <1>4 DEF StartDial, PublishFailure, PublishDrop, SetState
  <2>2. CASE chain[r] = NoChain
    BY <1>2, <2>1, <2>2 DEF Service!vars
  <2>3. CASE chain[r] # NoChain
    <3>1. Service!Withdraw(r)
      BY <1>2, <2>1, <2>3 DEF Service!Withdraw
    <3> QED
      BY <3>1 DEF Service!Next
  <2> QED
    BY <2>2, <2>3
<1>5. CASE UNCHANGED chain
  BY <1>2, <1>5 DEF Service!vars
<1> QED
  BY <1>3, <1>4, <1>5 DEF Run, DialSucceeds, DialedTooLate, DialedInTime, DialFails,
     DialFailsClosing, ChooseWait, Retry, StopWaiting, NoticeDrop, StopServing

\* A caller asks, is given what its route offers, or is turned away.
LEMMA CallerRefines ==
  ASSUME IInv, NEW w \in Callers, CallerNext(w)
  PROVE  [Service!Next]_(Service!vars)
<1> USE ChainsAssumption DEF IInv, TypeOK, Asking
<1>1. UNCHANGED <<manager, chain>>
  BY DEF CallerNext, Call, LookUp, WakeUp, GiveUp, UseChain, mgrVars, runVars
<1>2. ASSUME NEW r \in Routes, Call(w, r)
      PROVE  Service!Next
  <2>1. Service!Ask(w, r)
    BY <1>1, <1>2 DEF Call, Service!Ask
  <2> QED
    BY <2>1 DEF Service!Next
<1>3. CASE LookUp(w) /\ state[want[w]] = "up"
  <2>1. chain[want[w]] # NoChain
    BY <1>3 DEF UpMeansServed
  <2>2. at[w] = "looking" /\ at' = [at EXCEPT ![w] = "holding"]
    BY <1>3 DEF LookUp
  <2>3. Asking[w] = "asking" /\ Asking' = [Asking EXCEPT ![w] = "given"]
    BY <2>2
  <2>4. got' = [got EXCEPT ![w] = chain[want[w]]] /\ want' = want
    BY <1>3 DEF LookUp
  <2>5. Service!Give(w)
    BY <1>1, <2>1, <2>3, <2>4 DEF Service!Give
  <2> QED
    BY <2>5 DEF Service!Next
<1>4. CASE LookUp(w) /\ state[want[w]] # "up"
  BY <1>1, <1>4 DEF LookUp, Service!vars
<1>5. CASE WakeUp(w)
  BY <1>1, <1>5 DEF WakeUp, Service!vars
<1>6. CASE GiveUp(w)
  <2>1. Service!TurnAway(w)
    BY <1>1, <1>6 DEF GiveUp, Service!TurnAway
  <2> QED
    BY <2>1 DEF Service!Next
<1>7. CASE UseChain(w)
  <2>1. Service!Release(w)
    BY <1>1, <1>7 DEF UseChain, Service!Release
  <2> QED
    BY <2>1 DEF Service!Next
<1> QED
  BY <1>2, <1>3, <1>4, <1>5, <1>6, <1>7 DEF CallerNext

LEMMA StepRefines == IInv /\ [Next]_vars => [Service!Next]_(Service!vars)
<1> SUFFICES ASSUME IInv, [Next]_vars
             PROVE  [Service!Next]_(Service!vars)
  OBVIOUS
<1>1. CASE CloseReturns
  <2>1. Service!Close
    BY <1>1 DEF CloseReturns, Service!Close, Asking, runVars, callerVars
  <2> QED
    BY <2>1 DEF Service!Next
<1>2. CASE /\ UNCHANGED <<chain, at, want, got>>
           /\ UNCHANGED (manager = "closed")
  BY <1>2 DEF Service!vars, Asking
<1> QED
  BY <1>1, <1>2, RunRefines, CallerRefines DEF Next, RouteNext, Nudge, Reset, Kick,
     ResetCloses, ChainNext, Break, HangUp, KeepAlive, ProbeFails, ProbeEnds, Cancel,
     vars, mgrVars, runVars, callerVars

\* Every behaviour of the goroutines in chains.go is one RouteService allows.
THEOREM Implements == Spec => ImplementsService
<1>1. Init => Service!Init
  BY DEF Init, Service!Init, Asking
<1> QED
  BY <1>1, StepRefines, Inductive, PTL DEF Spec, ImplementsService, Service!Spec
=============================================================================
