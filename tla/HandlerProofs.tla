--------------------------- MODULE HandlerProofs ---------------------------
(***************************************************************************)
(* For any number of connections, names, places, rules and VPNs: whatever  *)
(* SetRouter comes between, an open connection follows the rules but for   *)
(* the one window FollowsRules names; the pool's two maps are inverse to   *)
(* each other and an answer holds until the pool has wrapped round; and    *)
(* the handler uses the pool as the pool expects.  And what holds of every *)
(* list of rules, of any length and with any entries.                      *)
(***************************************************************************)
EXTENDS Handler, Sequences, TLAPS, WellFoundedInduction

\* What the rules look at apart from the name and the address.
CONSTANTS Apps, Ports, RuleIds, Narrow, Blank, Bad

Lists == INSTANCE Router WITH Domains <- Names, IPs <- Places \cup Addrs

----------------------------------------------------------------------------
(* The pool, for any number of places and names. *)

\* The place that was handed out k places ago.
Back(k) == IF k < next THEN next - 1 - k ELSE next - 1 - k + Size

\* An answer that still holds is as many places behind as there are newer ones.
InOrder ==
    \A n \in Names : given[n] # None /\ newer[n] < Size =>
        given[n] = Back(newer[n]) /\ byIP[given[n]] = n

\* A name that has a place was given that place last.
LastGiven == \A n \in Names : byName[n] # None => given[n] = byName[n]

PoolInv == PoolTypeOK /\ PoolIsInverse /\ InOrder /\ LastGiven

----------------------------------------------------------------------------
LEMMA PoolInitInv == PoolInit => PoolInv
  BY PoolAssumption DEF PoolInit, PoolInv, PoolTypeOK, PoolIsInverse, InOrder, LastGiven, Places

\* The step that hands the next place to a name without one.
LEMMA AssignInv ==
  ASSUME PoolInv, NEW n \in Names, Assign(n), byName[n] = None
  PROVE  PoolInv'
<1> USE PoolAssumption
<1>1. /\ next \in 0 .. Size - 1
      /\ next' \in 0 .. Size - 1
      /\ next' = IF next + 1 = Size THEN 0 ELSE next + 1
  BY DEF PoolInv, PoolTypeOK, Assign, Advance, Places
<1>2. /\ byIP' \in [Places -> Names \cup {None}]
      /\ \A p \in Places : byIP'[p] = IF p = next THEN n ELSE byIP[p]
  BY <1>1 DEF PoolInv, PoolTypeOK, Assign, Places
<1>3. /\ byName' \in [Names -> Places \cup {None}]
      /\ \A m \in Names : byName'[m] = IF m = n THEN next
                                       ELSE IF m = byIP[next] THEN None ELSE byName[m]
  BY <1>1 DEF PoolInv, PoolTypeOK, Assign, Places
<1>4. /\ given' \in [Names -> Places \cup {None}]
      /\ \A m \in Names : given'[m] = IF m = n THEN next ELSE given[m]
  <2>1. given' = [given EXCEPT ![n] = next] /\ given \in [Names -> Places \cup {None}]
    BY DEF PoolInv, PoolTypeOK, Assign, Hand
  <2> QED
    BY <1>1, <2>1 DEF Places
<1>5. /\ newer' \in [Names -> 0 .. Size]
      /\ \A m \in Names : newer'[m] = IF m = n THEN 0
                                      ELSE IF newer[m] < Size THEN newer[m] + 1 ELSE Size
  <2>1. /\ newer' = [m \in Names |-> IF m = n THEN 0
                                   ELSE IF newer[m] < Size THEN newer[m] + 1 ELSE Size]
        /\ newer \in [Names -> 0 .. Size]
    BY DEF PoolInv, PoolTypeOK, Assign, Hand
  <2> QED
    BY <2>1
<1>6. PoolTypeOK'
  BY <1>1, <1>2, <1>3, <1>4, <1>5 DEF PoolTypeOK, Places
<1>7. PoolIsInverse'
  <2>1. ASSUME NEW m \in Names, byName'[m] # None  PROVE byIP'[byName'[m]] = m
    <3>1. CASE m = n
      BY <1>1, <1>2, <1>3, <3>1 DEF Places
    <3>2. CASE m # n
      <4>1. byName'[m] = byName[m] /\ byName[m] \in Places /\ byIP[byName[m]] = m
        BY <1>3, <2>1, <3>2 DEF PoolInv, PoolTypeOK, PoolIsInverse
      <4>2. byName[m] # next
        BY <1>3, <2>1, <3>2, <4>1
      <4> QED
        BY <1>2, <4>1, <4>2
    <3> QED
      BY <3>1, <3>2
  <2>2. ASSUME NEW p \in Places, byIP'[p] # None  PROVE byName'[byIP'[p]] = p
    <3>1. CASE p = next
      BY <1>2, <1>3, <3>1
    <3>2. CASE p # next
      <4>1. byIP'[p] = byIP[p] /\ byIP[p] \in Names /\ byName[byIP[p]] = p
        BY <1>2, <2>2, <3>2 DEF PoolInv, PoolTypeOK, PoolIsInverse
      <4>2. byIP[p] # n
        BY <4>1
      <4>3. byIP[p] # byIP[next]
        BY <1>1, <3>2, <4>1 DEF PoolInv, PoolIsInverse, Places
      <4> QED
        BY <1>3, <4>1, <4>2, <4>3
    <3> QED
      BY <3>1, <3>2
  <2> QED
    BY <2>1, <2>2 DEF PoolIsInverse
<1>8. LastGiven'
  BY <1>3, <1>4 DEF PoolInv, LastGiven
<1>9. ASSUME NEW m \in Names, given'[m] # None, newer'[m] < Size
      PROVE  given'[m] = Back(newer[m])' /\ byIP'[given'[m]] = m
  <2>1. CASE m = n
    BY <1>1, <1>2, <1>4, <1>5, <2>1 DEF Back, Places
  <2>2. CASE m # n
    <3>1. newer[m] \in 0 .. Size /\ newer[m] < Size - 1 /\ newer'[m] = newer[m] + 1
      BY <1>5, <1>9, <2>2 DEF PoolInv, PoolTypeOK
    <3>2. given'[m] = given[m] /\ given[m] = Back(newer[m]) /\ byIP[given[m]] = m
      BY <1>4, <1>9, <2>2, <3>1 DEF PoolInv, InOrder
    <3>3. Back(newer[m]) # next /\ Back(newer[m]) \in 0 .. Size - 1
      BY <1>1, <3>1 DEF Back
    <3>4. Back(newer[m])' = Back(newer[m])
      BY <1>1, <3>1 DEF Back
    <3> QED
      BY <1>2, <3>2, <3>3, <3>4 DEF Places
  <2> QED
    BY <2>1, <2>2
<1> QED
  BY <1>6, <1>7, <1>8, <1>9 DEF PoolInv, InOrder

LEMMA PoolStep ==
  ASSUME PoolInv, [PoolNext]_poolVars
  PROVE  PoolInv'
<1>1. CASE UNCHANGED poolVars
  BY <1>1 DEF PoolInv, PoolTypeOK, PoolIsInverse, InOrder, LastGiven, Back, poolVars
<1>2. ASSUME NEW n \in Names, Assign(n)  PROVE PoolInv'
  BY <1>1, <1>2, AssignInv DEF Assign
<1> QED
  BY <1>1, <1>2 DEF PoolNext

\* The pool keeps to its invariant.
THEOREM PoolInvariance == PoolSpec => []PoolInv
  BY PoolInitInv, PoolStep, PTL DEF PoolSpec

\* Assign and Lookup agree however often the pool has wrapped round.
THEOREM Inverse == PoolSpec => []PoolIsInverse
  BY PoolInvariance, PTL DEF PoolInv

\* A placeholder goes to another name only when it is the oldest.
THEOREM OldestFirst == PoolSpec => []AnswersHold
<1>1. PoolInv => AnswersHold
  BY DEF PoolInv, InOrder, AnswersHold
<1> QED
  BY PoolInvariance, <1>1, PTL

----------------------------------------------------------------------------
(* The handler. *)

\* What is known about a connection at each stage.
Known ==
    \A c \in Conns :
        /\ pc[c] # "idle" => meta[c] \in Metas
        /\ pc[c] \in {"decided", "dialing", "open"} => decision[c] \in Decisions

\* A connection that is decided goes a way the rules allow, unless they were
\* swapped since: then the scan is still to come, or missed it.
Pending ==
    \A c \in Conns : pc[c] = "decided" =>
        Follows(c) \/ setter = "scan" \/ c \in late

HInv == TypeOK /\ PoolInv /\ Known /\ Pending /\ FollowsRules

----------------------------------------------------------------------------
\* Every step of the handler is one of the pool's or leaves it alone.
LEMMA PoolUsed ==
  ASSUME [Next]_vars
  PROVE  [PoolNext]_poolVars
<1>1. CASE \E n \in Names : Ask(n)
  BY <1>1 DEF Ask, PoolNext
<1>2. CASE UNCHANGED poolVars
  BY <1>2
<1>3. ASSUME NEW n \in Names, NEW a \in Addrs, Remember(n, a)  PROVE UNCHANGED poolVars
  BY <1>3 DEF Remember
<1>4. ASSUME NEW c \in Conns, Attempt(c) \/ Finish(c) \/ CloseStale(c)  PROVE UNCHANGED poolVars
  BY <1>4 DEF Attempt, Decide, Track, Block, Dialed, DialFails, Finish, Return, CloseStale
<1>5. ASSUME NEW c \in Conns, NEW p \in Places, ArriveByName(c, p)  PROVE UNCHANGED poolVars
  BY <1>5 DEF ArriveByName
<1>6. ASSUME NEW c \in Conns, NEW a \in Addrs, ArriveByAddress(c, a)  PROVE UNCHANGED poolVars
  BY <1>6 DEF ArriveByAddress
<1>7. ASSUME NEW r \in Routers, Swap(r)  PROVE UNCHANGED poolVars
  BY <1>7 DEF Swap
<1>8. CASE Scan \/ SetRouterReturns \/ \E as \in SUBSET Addrs : Forget(as)
  BY <1>2, <1>8 DEF Scan, SetRouterReturns, Forget
<1>9. CASE \E vs \in SUBSET VPNs : VPNsChange(vs)
  BY <1>2, <1>9 DEF VPNsChange
<1>10. CASE UNCHANGED vars
  BY <1>2, <1>10 DEF vars
<1> QED
  BY <1>1, <1>2, <1>3, <1>4, <1>5, <1>6, <1>7, <1>8, <1>9, <1>10 DEF Next

\* What is decided now is allowed now.
LEMMA DecisionAllowed ==
  ASSUME TypeOK, NEW m \in Metas
  PROVE  DecideWhy(m) \in Decisions /\ DecideWhy(m) \in Verdicts(m)
<1> USE HandlerAssumption
<1>1. router[m] \in Decisions
  BY DEF TypeOK
<1>2. CASE ~router[m].rule /\ Claimant[m] \in vpns
  <2>1. Claimant[m] \in VPNs /\ DecideWhy(m) = IntoVPN(Claimant[m])
    BY <1>2 DEF TypeOK, DecideWhy
  <2>2. IntoVPN(Claimant[m]) \in Decisions
    BY <2>1 DEF IntoVPN, Decisions
  <2> QED
    BY <1>2, <2>1, <2>2 DEF Verdicts
<1>3. CASE ~(~router[m].rule /\ Claimant[m] \in vpns)
  BY <1>1, <1>3 DEF DecideWhy, Verdicts
<1> QED
  BY <1>2, <1>3

\* When a handler returns, its connection is nobody's business any more.
LEMMA ReturnInv ==
  ASSUME HInv, PoolInv', NEW c \in Conns, Return(c)
  PROVE  HInv'
<1>1. \A d \in Conns : /\ pc'[d] = IF d = c THEN "idle" ELSE pc[d]
                       /\ meta'[d] = IF d = c THEN None ELSE meta[d]
                       /\ decision'[d] = IF d = c THEN None ELSE decision[d]
  BY DEF HInv, TypeOK, Return
<1>2. TypeOK'
  BY <1>1 DEF HInv, TypeOK, Return, Stages, PoolInv
<1>3. Known' /\ Pending'
  BY <1>1 DEF HInv, Return, Known, Pending, Follows, Verdicts
<1>4. FollowsRules'
  BY <1>1 DEF HInv, TypeOK, Return, FollowsRules, Follows, Verdicts, Leaving
<1> QED
  BY <1>2, <1>3, <1>4 DEF HInv

LEMMA HInitInv == Init => HInv
<1> SUFFICES ASSUME Init PROVE HInv
  OBVIOUS
<1>1. PoolInv
  BY PoolInitInv DEF Init
<1>2. TypeOK
  BY <1>1 DEF Init, TypeOK, PoolInv, Stages
<1>3. Known /\ Pending /\ FollowsRules
  BY DEF Init, Known, Pending, FollowsRules
<1> QED
  BY <1>1, <1>2, <1>3 DEF HInv

LEMMA HStep ==
  ASSUME HInv, [Next]_vars
  PROVE  HInv'
<1>1. PoolInv'
  BY PoolUsed, PoolStep DEF HInv
<1>2. PoolTypeOK'
  BY <1>1 DEF PoolInv
<1>3. ASSUME UNCHANGED <<connVars, ruleVars>>, vpns' \subseteq VPNs,
             answered' \in [Addrs -> Names \cup {None}]
      PROVE  HInv'
  <2>1. TypeOK'
    BY <1>2, <1>3 DEF HInv, TypeOK, connVars, ruleVars
  <2>2. Known' /\ Pending' /\ FollowsRules'
    BY <1>3 DEF HInv, Known, Pending, FollowsRules, Follows, Verdicts, Leaving, connVars, ruleVars
  <2> QED
    BY <1>1, <2>1, <2>2 DEF HInv
<1>4. CASE UNCHANGED vars
  BY <1>3, <1>4 DEF HInv, TypeOK, vars
<1>5. ASSUME NEW n \in Names, Ask(n)  PROVE HInv'
  BY <1>3, <1>5 DEF Ask, HInv, TypeOK
<1>6. ASSUME NEW n \in Names, NEW a \in Addrs, Remember(n, a)  PROVE HInv'
  BY <1>3, <1>6 DEF Remember, HInv, TypeOK
<1>7. ASSUME NEW as \in SUBSET Addrs, Forget(as)  PROVE HInv'
  BY <1>3, <1>7 DEF Forget, HInv, TypeOK
<1>8. ASSUME NEW vs \in SUBSET VPNs, VPNsChange(vs)  PROVE HInv'
  BY <1>3, <1>8 DEF VPNsChange, HInv, TypeOK
<1>9. ASSUME NEW c \in Conns, NEW m \in Metas, pc[c] = "idle",
             pc' = [pc EXCEPT ![c] = "described"],
             meta' = [meta EXCEPT ![c] = m],
             UNCHANGED <<answered, decision, live, shut, late, ruleVars, vpns>>
      PROVE  HInv'
  <2>1. \A d \in Conns : /\ pc'[d] = IF d = c THEN "described" ELSE pc[d]
                         /\ meta'[d] = IF d = c THEN m ELSE meta[d]
    BY <1>9 DEF HInv, TypeOK
  <2>2. TypeOK'
    BY <1>2, <1>9, <2>1 DEF HInv, TypeOK, Stages, ruleVars
  <2>3. Known' /\ Pending' /\ FollowsRules'
    BY <1>9, <2>1 DEF HInv, TypeOK, Known, Pending, FollowsRules, Follows, Verdicts, Leaving,
       ruleVars
  <2> QED
    BY <1>1, <2>2, <2>3 DEF HInv
<1>10. ASSUME NEW c \in Conns, NEW p \in Places, ArriveByName(c, p)  PROVE HInv'
  <2>1. [name |-> byIP[p], addr |-> p] \in Metas
    BY <1>10 DEF ArriveByName, HInv, TypeOK, PoolTypeOK, Metas
  <2> QED
    BY <1>9, <1>10, <2>1 DEF ArriveByName
<1>11. ASSUME NEW c \in Conns, NEW a \in Addrs, ArriveByAddress(c, a)  PROVE HInv'
  <2>1. PICK n \in Names \cup {None} : meta' = [meta EXCEPT ![c] = [name |-> n, addr |-> a]]
    BY <1>11 DEF ArriveByAddress, HInv, TypeOK
  <2>2. [name |-> n, addr |-> a] \in Metas
    BY DEF Metas
  <2> QED
    BY <1>9, <1>11, <2>1, <2>2 DEF ArriveByAddress
<1>12. ASSUME NEW c \in Conns, Decide(c)  PROVE HInv'
  <2>1. meta[c] \in Metas
    BY <1>12 DEF Decide, HInv, Known
  <2>2. /\ DecideWhy(meta[c]) \in Decisions
        /\ DecideWhy(meta[c]) \in Verdicts(meta[c])
    BY <2>1, DecisionAllowed DEF HInv
  <2>3. \A d \in Conns : /\ pc'[d] = IF d = c THEN "decided" ELSE pc[d]
                         /\ decision'[d] = IF d = c THEN DecideWhy(meta[c]) ELSE decision[d]
    BY <1>12 DEF Decide, HInv, TypeOK
  <2>4. TypeOK'
    BY <1>2, <1>12, <2>2, <2>3 DEF Decide, HInv, TypeOK, Stages, ruleVars
  <2>5. Known'
    BY <1>12, <2>2, <2>3 DEF Decide, HInv, Known
  <2>6. Follows(c)'
    BY <1>12, <2>2, <2>3 DEF Decide, Follows, SameWay, Verdicts, ruleVars
  <2>7. Pending' /\ FollowsRules'
    BY <1>12, <2>3, <2>6 DEF Decide, HInv, TypeOK, Pending, FollowsRules, Follows, Verdicts,
       Leaving, ruleVars
  <2> QED
    BY <1>1, <2>4, <2>5, <2>7 DEF HInv
<1>13. ASSUME NEW c \in Conns, Track(c)  PROVE HInv'
  <2>1. \A d \in Conns : pc'[d] = IF d = c THEN "dialing" ELSE pc[d]
    BY <1>13 DEF Track, HInv, TypeOK
  <2>2. TypeOK'
    BY <1>2, <1>13, <2>1 DEF Track, HInv, TypeOK, Stages, ruleVars
  <2>3. Known' /\ Pending' /\ FollowsRules'
    BY <1>13, <2>1 DEF Track, HInv, Known, Pending, FollowsRules, Follows, Verdicts, Leaving,
       ruleVars
  <2> QED
    BY <1>1, <2>2, <2>3 DEF HInv
<1>14. ASSUME NEW c \in Conns, Dialed(c)  PROVE HInv'
  <2>1. \A d \in Conns : pc'[d] = IF d = c THEN "open" ELSE pc[d]
    BY <1>14 DEF Dialed, HInv, TypeOK
  <2>2. TypeOK'
    BY <1>2, <1>14, <2>1 DEF Dialed, HInv, TypeOK, Stages, ruleVars
  <2>3. Known' /\ Pending' /\ FollowsRules'
    BY <1>14, <2>1 DEF Dialed, HInv, Known, Pending, FollowsRules, Follows, Verdicts, Leaving,
       ruleVars
  <2> QED
    BY <1>1, <2>2, <2>3 DEF HInv
<1>15. ASSUME NEW c \in Conns, Block(c) \/ DialFails(c) \/ Finish(c)  PROVE HInv'
  BY <1>1, <1>15, ReturnInv DEF Block, DialFails, Finish
<1>16. ASSUME NEW r \in Routers, Swap(r)  PROVE HInv'
  <2>1. TypeOK'
    BY <1>2, <1>16 DEF Swap, HInv, TypeOK, connVars
  <2>2. Known' /\ Pending' /\ FollowsRules'
    BY <1>16 DEF Swap, HInv, Known, Pending, FollowsRules, connVars
  <2> QED
    BY <1>1, <2>1, <2>2 DEF HInv
<1>17. CASE Scan
  <2>1. TypeOK'
    BY <1>2, <1>17 DEF Scan, HInv, TypeOK
  <2>2. Known' /\ Pending'
    BY <1>17 DEF Scan, HInv, Known, Pending
  <2>3. FollowsRules'
    BY <1>17 DEF Scan, FollowsRules, Follows, Verdicts, Leaving
  <2> QED
    BY <1>1, <2>1, <2>2, <2>3 DEF HInv
<1>18. ASSUME NEW c \in Conns, CloseStale(c)  PROVE HInv'
  <2>1. TypeOK'
    BY <1>2, <1>18 DEF CloseStale, HInv, TypeOK
  <2>2. Known' /\ Pending' /\ FollowsRules'
    BY <1>18 DEF CloseStale, HInv, Known, Pending, FollowsRules, Follows, Verdicts, Leaving
  <2> QED
    BY <1>1, <2>1, <2>2 DEF HInv
<1>19. CASE SetRouterReturns
  <2>1. TypeOK'
    BY <1>2, <1>19 DEF SetRouterReturns, HInv, TypeOK, connVars
  <2>2. Known' /\ Pending' /\ FollowsRules'
    BY <1>19 DEF SetRouterReturns, HInv, Known, Pending, FollowsRules, Follows, Verdicts, Leaving,
       connVars
  <2> QED
    BY <1>1, <2>1, <2>2 DEF HInv
<1> QED
  BY <1>4, <1>5, <1>6, <1>7, <1>8, <1>10, <1>11, <1>12, <1>13, <1>14, <1>15, <1>16, <1>17,
     <1>18, <1>19 DEF Next, Attempt

----------------------------------------------------------------------------
(* The theorems. *)

\* The handler's state stays within its types; above all, h.live holds the
\* connections that are being dialed or open, and no others.
THEOREM TypeCorrect == Spec => []TypeOK
<1>1. Spec => []HInv
  BY HInitInv, HStep, PTL DEF Spec
<1>2. HInv => TypeOK
  BY DEF HInv
<1> QED
  BY <1>1, <1>2, PTL

\* However connections, DNS, VPNs and changes of the rules interleave, an open
\* connection goes a way the rules allow, is being closed, or was missed by the
\* last scan between its decision and its tracking.
THEOREM OpenFollow == Spec => []FollowsRules
<1>1. Spec => []HInv
  BY HInitInv, HStep, PTL DEF Spec
<1>2. HInv => FollowsRules
  BY DEF HInv
<1> QED
  BY <1>1, <1>2, PTL

\* The handler implements the pool's specification: what is proved of the pool
\* holds while connections look up what DNS hands out.
THEOREM UsesPool == Spec => PoolSpec
<1>1. Init => PoolInit
  BY DEF Init
<1> QED
  BY <1>1, PoolUsed, PTL DEF Spec, PoolSpec

----------------------------------------------------------------------------
(* The rules. *)

\* A rule list that compiled: what Compile returns without an error.
Good(cfg, known) == cfg \in Lists!Configs /\ known \subseteq Routes /\ Lists!Compiles(cfg, known)

----------------------------------------------------------------------------
\* A set of places has a first one.
LEMMA FirstIsLeast ==
  ASSUME NEW S \in SUBSET Nat, S # {}
  PROVE  Lists!First(S) \in S /\ \A j \in S : Lists!First(S) <= j
<1>1. PICK i \in S : \A j \in S : ~(<<j, i>> \in OpToRel(<, Nat))
  BY NatLessThanWellFounded, WFMin, Zenon
<1>2. ASSUME NEW j \in S  PROVE i <= j
  <2>1. ~(j < i)
    BY <1>1, <1>2 DEF OpToRel
  <2> QED
    BY <2>1
<1> QED
  BY <1>2 DEF Lists!First

\* Places in a list are numbers.
LEMMA PlacesOfRules ==
  ASSUME NEW cfg \in Lists!Configs, NEW m
  PROVE  /\ Lists!Enabled(cfg) \subseteq Nat
         /\ DOMAIN Lists!Compile(cfg).rules = Lists!Enabled(cfg)
         /\ Lists!Matching(Lists!Compile(cfg), m) \subseteq Lists!Enabled(cfg)
         /\ \A i \in Lists!Enabled(cfg) : Lists!Compile(cfg).rules[i] = Lists!Compiled(cfg.rules[i])
  BY DEF Lists!Configs, Lists!Enabled, Lists!Compile, Lists!Matching

\* Who decides: the default, or a rule that matches and before which none does.
LEMMA WhoDecides ==
  ASSUME NEW cfg \in Lists!Configs, NEW m
  PROVE  LET r == Lists!Compile(cfg)  M == Lists!Matching(r, m)
         IN  \/ M = {} /\ Lists!DecideWhy(r, m) = r.default
             \/ /\ Lists!First(M) \in M
                /\ \A j \in M : Lists!First(M) <= j
                /\ Lists!DecideWhy(r, m) = r.rules[Lists!First(M)].result
<1>1. Lists!Matching(Lists!Compile(cfg), m) \in SUBSET Nat
  BY PlacesOfRules
<1> QED
  BY <1>1, FirstIsLeast DEF Lists!DecideWhy

----------------------------------------------------------------------------
\* Every decision of rules that compiled names a route there is, or a VPN, or
\* neither, as its action needs (Compile, checkDecision): nothing is found out
\* when the first connection arrives.
THEOREM DecisionsAreKnown ==
  ASSUME NEW cfg, NEW known, Good(cfg, known)
  PROVE  Lists!DecidesWithin(Lists!Compile(cfg), known)
<1> DEFINE r == Lists!Compile(cfg)
<1> DEFINE Fine(d) == /\ d \in Lists!Decisions
                      /\ IF d.action = "route" THEN d.route \in known ELSE d.route = None
                      /\ (d.action = "vpn") = (d.vpn # None)
<1>0. cfg \in Lists!Configs /\ known \subseteq Routes /\ Lists!Compiles(cfg, known)
  BY DEF Good
<1>1. Fine(r.default)
  <2>1. /\ cfg.default.action \in Lists!Actions \cup {None}
        /\ cfg.default.route \in Routes \cup {None}
        /\ cfg.default.vpn \in VPNs \cup {None}
    BY <1>0 DEF Lists!Configs
  <2>2. Lists!Accepted(cfg.default, known)
    BY <1>0 DEF Lists!Compiles
  <2>3. r.default = Lists!Checked(cfg.default, None)
    BY DEF Lists!Compile
  <2> QED
    BY <1>0, <2>1, <2>2, <2>3 DEF Lists!Accepted, Lists!Checked, Lists!Decisions, Lists!Actions
<1>2. ASSUME NEW i \in Lists!Enabled(cfg)  PROVE Fine(r.rules[i].result)
  <2>1. cfg.rules[i] \in Lists!Rules
    BY <1>0 DEF Lists!Configs, Lists!Enabled
  <2>2. /\ cfg.rules[i].action \in Lists!Actions \cup {None}
        /\ cfg.rules[i].route \in Routes \cup {None}
        /\ cfg.rules[i].vpn \in VPNs \cup {None}
        /\ cfg.rules[i].id \in RuleIds \cup {None}
    BY <2>1 DEF Lists!Rules
  <2>3. Lists!Accepted(cfg.rules[i], known)
    BY <1>0 DEF Lists!Compiles
  <2>4. r.rules[i].result = Lists!Checked(cfg.rules[i], cfg.rules[i].id)
    <3>1. r.rules[i] = Lists!Compiled(cfg.rules[i])
      BY <1>0, PlacesOfRules
    <3> QED
      BY <3>1 DEF Lists!Compiled
  <2> QED
    BY <1>0, <2>2, <2>3, <2>4 DEF Lists!Accepted, Lists!Checked, Lists!Decisions, Lists!Actions
<1>3. ASSUME NEW m \in Lists!Metas  PROVE Fine(Lists!DecideWhy(r, m))
  BY <1>0, <1>1, <1>2, WhoDecides, PlacesOfRules
<1> QED
  BY <1>3 DEF Lists!DecidesWithin

----------------------------------------------------------------------------
\* Rules that do not look at domains decide alike whatever the name turns out to
\* be (UsesDomains): a connection need not wait for its first bytes.
THEOREM NoNeedToSniff ==
  ASSUME NEW cfg \in Lists!Configs, ~Lists!UsesDomains(Lists!Compile(cfg))
  PROVE  Lists!NamesDoNotMatter(Lists!Compile(cfg))
<1> DEFINE r == Lists!Compile(cfg)
<1> SUFFICES ASSUME NEW m \in Lists!Metas, NEW n \in Names \cup {None}
             PROVE  Lists!DecideWhy(r, [m EXCEPT !.domain = n]) = Lists!DecideWhy(r, m)
  BY DEF Lists!NamesDoNotMatter
<1> DEFINE k == [m EXCEPT !.domain = n]
<1>1. k.app = m.app /\ k.ip = m.ip /\ k.port = m.port
  BY DEF Lists!Metas
<1>2. ASSUME NEW i \in DOMAIN r.rules
      PROVE  Lists!Matches(r.rules[i], k) <=> Lists!Matches(r.rules[i], m)
  <2>1. r.rules[i].domains = {}
    BY DEF Lists!UsesDomains
  <2> HIDE DEF k, r
  <2> QED
    BY <1>1, <2>1 DEF Lists!Matches, Lists!MatchApp, Lists!MatchDomain,
       Lists!MatchIP, Lists!MatchPort
<1>3. Lists!Matching(r, k) = Lists!Matching(r, m)
  <2> HIDE DEF k, r
  <2> QED
    BY <1>2 DEF Lists!Matching
<1> HIDE DEF k, r
<1> QED
  BY <1>3 DEF Lists!DecideWhy, k

----------------------------------------------------------------------------
\* An address that BypassPrefixes takes out of the tunnel is let past it by the
\* rules as well, whatever app connects to whatever port, and never left to the
\* default; the one exception is a rule that comes before and matches.
THEOREM BypassedAsDecided ==
  ASSUME NEW cfg \in Lists!Configs
  PROVE  Lists!BypassAgrees(Lists!Compile(cfg))
<1> DEFINE r == Lists!Compile(cfg)
<1> SUFFICES ASSUME NEW i \in Lists!Bypassing(r), NEW m \in Lists!Metas,
                    NEW prefix \in Lists!BypassOf(r.rules[i]), m.ip \in prefix
             PROVE  \/ Lists!DecideWhy(r, m).action \in {"direct", "system"}
                    \/ Lists!First(Lists!Matching(r, m)) < i
  BY DEF Lists!BypassAgrees
<1>1. i \in DOMAIN r.rules /\ r.rules[i].apps = {} /\ r.rules[i].ports = {}
      /\ r.rules[i].result.action \in {"direct", "system"}
  BY DEF Lists!Bypassing
<1>2. prefix \in r.rules[i].cidrs
  BY DEF Lists!BypassOf
<1>3. Lists!Matches(r.rules[i], m)
  <2> HIDE DEF r
  <2> QED
    BY <1>1, <1>2 DEF Lists!Matches, Lists!MatchIP
<1>4. i \in Lists!Matching(r, m)
  <2> HIDE DEF r
  <2> QED
    BY <1>1, <1>3 DEF Lists!Matching
<1>5. /\ Lists!First(Lists!Matching(r, m)) \in Lists!Matching(r, m)
      /\ Lists!First(Lists!Matching(r, m)) <= i
      /\ Lists!DecideWhy(r, m) = r.rules[Lists!First(Lists!Matching(r, m))].result
  BY <1>4, WhoDecides
<1>6. Lists!Matching(r, m) \subseteq Nat
  BY PlacesOfRules
<1> HIDE DEF r
<1>7. CASE Lists!First(Lists!Matching(r, m)) = i
  BY <1>1, <1>5, <1>7
<1>8. CASE Lists!First(Lists!Matching(r, m)) # i
  BY <1>4, <1>5, <1>6, <1>8
<1> QED
  BY <1>7, <1>8

----------------------------------------------------------------------------
\* Switching off one rule changes no decision but those it made: every other
\* connection stays open when SetRouter compares.
THEOREM SwitchIsLocal ==
  ASSUME NEW cfg \in Lists!Configs, NEW i \in Lists!Enabled(cfg)
  PROVE  Lists!OnlyItsOwn(cfg, i)
<1> DEFINE off == Lists!SwitchedOff(cfg, i)
           r == Lists!Compile(cfg)
           s == Lists!Compile(off)
<1>1. /\ off.rules \in Seq(Lists!Rules) /\ DOMAIN off.rules = DOMAIN cfg.rules
      /\ \A j \in DOMAIN cfg.rules \ {i} : off.rules[j] = cfg.rules[j]
      /\ off.rules[i].disabled
      /\ off.default = cfg.default
  <2>1. cfg.rules \in Seq(Lists!Rules) /\ i \in DOMAIN cfg.rules
    BY DEF Lists!Configs, Lists!Enabled
  <2>2. cfg.rules[i] \in Lists!Rules
    BY <2>1
  <2>3. [cfg.rules[i] EXCEPT !.disabled = TRUE] \in Lists!Rules
        /\ [cfg.rules[i] EXCEPT !.disabled = TRUE].disabled
    BY <2>2 DEF Lists!Rules
  <2>4. off.rules = [cfg.rules EXCEPT ![i] = [@ EXCEPT !.disabled = TRUE]]
        /\ off.default = cfg.default
    BY DEF Lists!SwitchedOff
  <2> QED
    BY <2>1, <2>3, <2>4
<1>2. off \in Lists!Configs
  BY <1>1 DEF Lists!SwitchedOff, Lists!Configs
<1>3. Lists!Enabled(off) = Lists!Enabled(cfg) \ {i}
  BY <1>1 DEF Lists!Enabled
<1>4. r.default = s.default
  BY <1>1 DEF Lists!Compile
<1>5. \A j \in Lists!Enabled(off) : s.rules[j] = r.rules[j]
  BY <1>1, <1>2, <1>3, PlacesOfRules DEF Lists!Enabled
<1>6. DOMAIN r.rules = Lists!Enabled(cfg) /\ DOMAIN s.rules = Lists!Enabled(cfg) \ {i}
  BY <1>2, <1>3, PlacesOfRules
<1> SUFFICES ASSUME NEW m \in Lists!Metas,
                    i \notin Lists!Matching(r, m) \/ Lists!First(Lists!Matching(r, m)) # i
             PROVE  Lists!DecideWhy(s, m) = Lists!DecideWhy(r, m)
  BY DEF Lists!OnlyItsOwn
<1>7. Lists!Matching(s, m) = Lists!Matching(r, m) \ {i}
  <2> HIDE DEF r, s, off
  <2> QED
    BY <1>3, <1>5, <1>6 DEF Lists!Matching
<1>8. Lists!Matching(r, m) \in SUBSET Nat /\ Lists!Matching(s, m) \in SUBSET Nat
  BY <1>2, PlacesOfRules
<1>9. CASE i \notin Lists!Matching(r, m)
  <2>1. Lists!Matching(s, m) = Lists!Matching(r, m)
    BY <1>7, <1>9
  <2>2. CASE Lists!Matching(r, m) = {}
    BY <1>4, <2>1, <2>2 DEF Lists!DecideWhy
  <2>3. CASE Lists!Matching(r, m) # {}
    <3>1. Lists!First(Lists!Matching(r, m)) \in Lists!Matching(s, m)
      BY <1>8, <2>1, <2>3, FirstIsLeast
    <3>2. Lists!Matching(s, m) \subseteq Lists!Enabled(off)
      BY <1>2, PlacesOfRules
    <3> QED
      BY <1>5, <2>1, <2>3, <3>1, <3>2 DEF Lists!DecideWhy
  <2> QED
    BY <2>2, <2>3
<1>10. CASE i \in Lists!Matching(r, m) /\ Lists!First(Lists!Matching(r, m)) # i
  <2>1. Lists!First(Lists!Matching(r, m)) \in Lists!Matching(r, m)
        /\ \A j \in Lists!Matching(r, m) : Lists!First(Lists!Matching(r, m)) <= j
    BY <1>8, <1>10, FirstIsLeast
  <2>2. Lists!First(Lists!Matching(r, m)) \in Lists!Matching(s, m)
    BY <1>7, <1>10, <2>1
  <2>3. Lists!First(Lists!Matching(s, m)) \in Lists!Matching(s, m)
        /\ \A j \in Lists!Matching(s, m) : Lists!First(Lists!Matching(s, m)) <= j
    BY <1>8, <2>2, FirstIsLeast
  <2>4. Lists!First(Lists!Matching(s, m)) = Lists!First(Lists!Matching(r, m))
    <3> HIDE DEF r, s, off
    <3>1. /\ Lists!First(Lists!Matching(s, m)) \in Nat /\ Lists!First(Lists!Matching(r, m)) \in Nat
          /\ Lists!First(Lists!Matching(r, m)) <= Lists!First(Lists!Matching(s, m))
          /\ Lists!First(Lists!Matching(s, m)) <= Lists!First(Lists!Matching(r, m))
      BY <1>7, <1>8, <2>1, <2>2, <2>3
    <3> QED
      BY <3>1
  <2>5. Lists!Matching(s, m) \subseteq Lists!Enabled(off)
    BY <1>2, PlacesOfRules
  <2> QED
    BY <1>5, <1>10, <2>2, <2>3, <2>4, <2>5 DEF Lists!DecideWhy
<1> QED
  BY <1>9, <1>10

----------------------------------------------------------------------------
\* What a list decides of a connection that an app makes to a port.
Verdict(cfg, app, port, m) ==
    LET d == Lists!DecideWhy(Lists!Compile(cfg),
                             [app |-> app, domain |-> m.name, ip |-> m.addr, port |-> port])
    IN  [action |-> d.action, route |-> d.route, vpn |-> d.vpn, rule |-> d.rule # None]

\* Rules that compiled are a router as the handler takes it to be: whatever is
\* proved of the handler holds with any such list behind it.
THEOREM ListsAreRouters ==
  ASSUME NEW cfg, NEW known, Good(cfg, known), NEW app \in Apps \cup {None}, NEW port \in Ports
  PROVE  [m \in Metas |-> Verdict(cfg, app, port, m)] \in [Metas -> Decisions]
<1> SUFFICES ASSUME NEW m \in Metas  PROVE Verdict(cfg, app, port, m) \in Decisions
  OBVIOUS
<1> DEFINE k == [app |-> app, domain |-> m.name, ip |-> m.addr, port |-> port]
           d == Lists!DecideWhy(Lists!Compile(cfg), k)
<1>1. k \in Lists!Metas
  BY DEF Metas, Lists!Metas
<1>2. d \in Lists!Decisions
  BY <1>1, DecisionsAreKnown DEF Lists!DecidesWithin
<1> QED
  BY <1>2 DEF Verdict, Decisions, Lists!Decisions, Lists!Actions
=============================================================================
