---------------------------- MODULE RoutesProofs ----------------------------
(***************************************************************************)
(* For any number of first hops, networks, dials and events, whatever      *)
(* route(8) fails to add: the platform's routes go with the tunnel, they   *)
(* keep the first hops out of it whenever nothing is announced any more,   *)
(* and the tunnel is in front of the VPN when it should be and route(8)    *)
(* lets it, and only then.                                                 *)
(***************************************************************************)
EXTENDS Routes, TLAPS

\* What is in the table through a gateway is in p.pins or p.scoped.
Tracked(r) ==
    /\ \A h \in Bypass : r.at[h] # None => r.bypass[h] = r.at[h]
    /\ \A i \in Ifaces : r.through[i] # None => r.scoped = r.through[i] /\ Interface[r.scoped] = i

\* It goes through a network there is.
Present(r) ==
    /\ \A h \in Bypass : r.at[h] \in attached \cup {None}
    /\ \A i \in Ifaces : r.through[i] \in attached \cup {None}

Fits(r) == r \in Tables /\ Tracked(r) /\ Present(r)

\* Without a tunnel nothing is pinned.
Cleared(r) == r.bypass = Empty.bypass /\ r.scoped = None

\* The two halves of KeptOut.
KeepsOut(r) ==
    \A h \in Bypass \ r.refused : r.at[h] = net \/ (h \in Inside /\ vpn /\ r.at[h] = None)

HasDefault(r) == "scoped" \in r.refused \/ r.through[Interface[net]] = net

\* Once a change was announced and acted upon, the scoped default is right; the
\* pins are when ifMon has caught up as well.
Quiet == up /\ net # None /\ ~changed /\ ~timer
Defaulted == Quiet => HasDefault(rt)
Pinned == Quiet /\ known = Current => KeepsOut(rt)

\* A dial under way has a host.
Dialing == \A d \in Dials : dpc[d] # "idle" => host[d] \in Bypass

Right == up /\ fronting /\ vpn

\* What frontOfVPNs has found out so far is right.
Informed(f) ==
    \/ fpc[f] = "begin"
    \/ fpc[f] \in {"list", "look"} /\ want[f] = (up /\ fronting)
    \/ fpc[f] = "apply" /\ want[f] = Right

\* Where the tunnel is not as it should be towards the VPN, somebody will see to it.
Fronted ==
    /\ hidden => changed
    /\ front => up
    /\ front = (Right /\ ~denied) \/ changed \/ timer \/ \E f \in Fronts : Informed(f)

RInv ==
    /\ TypeOK
    /\ Fits(rt)
    /\ net = None => attached = {}
    /\ ~up => Cleared(rt)
    /\ Defaulted
    /\ Pinned
    /\ Dialing
    /\ Fronted

-----------------------------------------------------------------------------
(* route(8). *)

Pins == [Bypass -> Gateways \cup {None}]

\* A table is its eight parts.
LEMMA Parts ==
  ASSUME NEW r \in Tables
  PROVE  /\ r.at \in Pins /\ r.bypass \in Pins
         /\ r.through \in [Ifaces -> Gateways \cup {None}] /\ r.scoped \in Gateways \cup {None}
         /\ r.numb \subseteq Bypass \cup Ifaces /\ r.refused \subseteq Bypass \cup {"scoped"}
         /\ r.bad \subseteq Bypass \cup {"scoped"} /\ r.touched \in BOOLEAN
  BY DEF Tables, Pins

\* An add puts in the table what can be added, and remembers what was refused.
LEMMA AddPinsDoes ==
  ASSUME RoutesAssumption, NEW r \in Tables, NEW pins \in Pins
  PROVE  LET q == AddPins(r, pins)
         IN  /\ q \in Tables /\ q.bypass = r.bypass /\ q.through = r.through
             /\ q.scoped = r.scoped /\ q.bad = r.bad
             /\ \A h \in Bypass :
                   /\ q.at[h] = IF pins[h] # None /\ Addable(r, h, pins[h])
                                THEN pins[h] ELSE r.at[h]
                   /\ pins[h] # None /\ h \in r.bad => h \in q.refused
                   /\ pins[h] = None /\ h \in r.refused => h \in q.refused
             /\ "scoped" \in r.refused => "scoped" \in q.refused
             /\ r.touched => q.touched
<1> DEFINE asked == {h \in Bypass : pins[h] # None}
           added == {h \in asked : Addable(r, h, pins[h])}
           at == [h \in Bypass |-> IF h \in added THEN pins[h] ELSE r.at[h]]
           refused == (r.refused \ asked) \cup (asked \cap r.bad)
           q == AddPins(r, pins)
<1>1. q = [r EXCEPT !.at = at, !.numb = @ \ added, !.refused = refused,
                    !.touched = @ \/ added # {}]
  BY DEF AddPins
<1>2. asked \subseteq Bypass /\ added \subseteq Bypass
  OBVIOUS
<1>3. at \in Pins
  BY Parts DEF Pins
<1>4. refused \subseteq Bypass \cup {"scoped"}
  BY Parts
<1> HIDE DEF asked, added, at, refused, q
<1>5. /\ q \in Tables /\ q.bypass = r.bypass /\ q.through = r.through
      /\ q.scoped = r.scoped /\ q.bad = r.bad
      /\ q.at = at /\ q.refused = refused
      /\ q.touched = (r.touched \/ added # {})
  BY <1>1, <1>2, <1>3, <1>4 DEF Tables, Pins
<1> QED
  BY <1>5 DEF asked, added, at, refused, q, RoutesAssumption

\* A delete takes out what is there, and shows.
LEMMA DeletePinsDoes ==
  ASSUME RoutesAssumption, NEW r \in Tables, NEW pins \in Pins
  PROVE  LET q == DeletePins(r, pins)
         IN  /\ q \in Tables /\ q.bypass = r.bypass /\ q.through = r.through
             /\ q.scoped = r.scoped /\ q.bad = r.bad /\ q.refused = r.refused
             /\ \A h \in Bypass :
                   /\ q.at[h] = IF pins[h] # None /\ r.at[h] = pins[h]
                                THEN None ELSE r.at[h]
                   /\ pins[h] # None /\ r.at[h] = pins[h] => q.touched
             /\ r.touched => q.touched
<1> DEFINE gone == {h \in Bypass : pins[h] # None /\ r.at[h] = pins[h]}
           at == [h \in Bypass |-> IF h \in gone THEN None ELSE r.at[h]]
           q == DeletePins(r, pins)
<1>1. q = [r EXCEPT !.at = at, !.numb = @ \ gone, !.touched = @ \/ gone # {}]
  BY DEF DeletePins
<1>2. at \in Pins
  BY Parts DEF Pins
<1> HIDE DEF gone, at, q
<1>3. /\ q \in Tables /\ q.bypass = r.bypass /\ q.through = r.through
      /\ q.scoped = r.scoped /\ q.bad = r.bad /\ q.refused = r.refused
      /\ q.at = at /\ q.touched = (r.touched \/ gone # {})
  BY <1>1, <1>2 DEF Tables, Pins
<1> QED
  BY <1>3 DEF gone, at, q

\* The scoped default is there afterwards, or refused.
LEMMA AddDefaultDoes ==
  ASSUME RoutesAssumption, attached \subseteq Gateways, NEW r \in Tables, NEW g \in attached
  PROVE  LET q == AddDefault(r, g)
         IN  /\ q \in Tables /\ q.at = r.at /\ q.bypass = r.bypass
             /\ q.scoped = r.scoped /\ q.bad = r.bad
             /\ \A i \in Ifaces : q.through[i] = IF i = Interface[g] /\ "scoped" \notin r.bad
                                                  THEN g ELSE r.through[i]
             /\ "scoped" \in r.bad => "scoped" \in q.refused
             /\ r.touched => q.touched
<1> DEFINE done == Addable(r, "scoped", g)
           through == [r.through EXCEPT ![Interface[g]] = IF done THEN g ELSE @]
           numb == IF done THEN r.numb \ {Interface[g]} ELSE r.numb
           refused == (r.refused \ {"scoped"}) \cup ({"scoped"} \cap r.bad)
           q == AddDefault(r, g)
<1>1. q = [r EXCEPT !.through = through, !.numb = numb, !.refused = refused,
                    !.touched = @ \/ done]
  BY DEF AddDefault
<1>2. Interface[g] \in Ifaces /\ g \in Gateways /\ (done <=> "scoped" \notin r.bad)
  BY DEF Ifaces, Addable
<1>3. /\ through \in [Ifaces -> Gateways \cup {None}]
      /\ \A i \in Ifaces : through[i] = IF i = Interface[g] /\ done THEN g ELSE r.through[i]
  BY <1>2, Parts
<1>4. refused \subseteq Bypass \cup {"scoped"} /\ ("scoped" \in r.bad => "scoped" \in refused)
  BY Parts
<1>5. numb \subseteq Bypass \cup Ifaces
  BY Parts
<1>6. done \in BOOLEAN
  BY DEF Addable
<1> HIDE DEF done, through, numb, refused, q
<1>7. /\ q \in Tables /\ q.at = r.at /\ q.bypass = r.bypass
      /\ q.scoped = r.scoped /\ q.bad = r.bad
      /\ q.through = through /\ q.refused = refused /\ q.touched = (r.touched \/ done)
  BY <1>1, <1>3, <1>4, <1>5, <1>6 DEF Tables
<1> QED
  BY <1>2, <1>3, <1>4, <1>7 DEF q

\* Once the scoped default is removed there is none.
LEMMA RemoveScopedDoes ==
  ASSUME RoutesAssumption, NEW r, Fits(r)
  PROVE  LET q == RemoveScoped(r)
         IN  /\ q \in Tables /\ q.at = r.at /\ q.bypass = r.bypass /\ q.scoped = None
             /\ q.bad = r.bad /\ \A i \in Ifaces : q.through[i] = None
             /\ r.touched => q.touched
<1>0. r \in Tables /\ Tracked(r)
  BY DEF Fits
<1>1. CASE r.scoped = None
  <2>1. \A i \in Ifaces : r.through[i] = None
    BY <1>0, <1>1 DEF Tracked
  <2> QED
    BY <1>0, <1>1, <2>1 DEF RemoveScoped
<1>2. CASE r.scoped # None
  <2> DEFINE i == Interface[r.scoped]
             there == r.through[i] = r.scoped
             through == [r.through EXCEPT ![i] = IF there THEN None ELSE @]
             numb == IF there THEN r.numb \ {i} ELSE r.numb
             q == RemoveScoped(r)
  <2>1. q = [r EXCEPT !.through = through, !.numb = numb, !.scoped = None,
                      !.touched = @ \/ there]
    BY <1>2 DEF RemoveScoped
  <2>2. i \in Ifaces
    BY <1>0, <1>2, Parts DEF Ifaces
  <2>3. /\ through \in [Ifaces -> Gateways \cup {None}]
        /\ \A j \in Ifaces : through[j] = None
    BY <1>0, <2>2, Parts DEF Tracked
  <2>4. numb \subseteq Bypass \cup Ifaces
    BY <1>0, Parts
  <2>5. there \in BOOLEAN
    OBVIOUS
  <2> HIDE DEF i, there, through, numb, q
  <2>6. /\ q \in Tables /\ q.at = r.at /\ q.bypass = r.bypass /\ q.scoped = None
        /\ q.bad = r.bad /\ q.through = through /\ q.touched = (r.touched \/ there)
    BY <1>0, <2>1, <2>3, <2>4, <2>5 DEF Tables
  <2> QED
    BY <2>3, <2>6 DEF q
<1> QED
  BY <1>1, <1>2

-----------------------------------------------------------------------------
(* The pins. *)

\* What only changes pins leaves the scoped default alone.
Carries(r, q) ==
    /\ q.through = r.through /\ q.scoped = r.scoped /\ q.bad = r.bad
    /\ "scoped" \in r.refused => "scoped" \in q.refused
    /\ r.touched => q.touched

\* Pins that are missing are there afterwards, or refused.
LEMMA EnsurePinsDoes ==
  ASSUME RoutesAssumption, NEW r, Fits(r)
  PROVE  LET q == EnsurePins(r)
         IN  /\ Fits(q) /\ Carries(r, q) /\ q.bypass = r.bypass
             /\ \A h \in Bypass :
                   /\ q.at[h] = IF r.at[h] = None /\ Addable(r, h, r.bypass[h])
                                THEN r.bypass[h] ELSE r.at[h]
                   /\ r.at[h] = None /\ r.bypass[h] # None /\ h \in r.bad => h \in q.refused
<1> DEFINE pins == [h \in Bypass |-> IF r.at[h] = None THEN r.bypass[h] ELSE None]
           q == EnsurePins(r)
<1>1. r \in Tables /\ Tracked(r) /\ Present(r)
  BY DEF Fits
<1>2. pins \in Pins
  BY <1>1, Parts DEF Pins
<1>3. q = AddPins(r, pins)
  BY DEF EnsurePins
<1>4. \A h \in Bypass : pins[h] = IF r.at[h] = None THEN r.bypass[h] ELSE None
  OBVIOUS
<1> HIDE DEF pins, q
<1>5. /\ q \in Tables /\ Carries(r, q) /\ q.bypass = r.bypass
      /\ \A h \in Bypass :
            /\ q.at[h] = IF r.at[h] = None /\ r.bypass[h] # None /\ Addable(r, h, r.bypass[h])
                         THEN r.bypass[h] ELSE r.at[h]
            /\ r.at[h] = None /\ r.bypass[h] # None /\ h \in r.bad => h \in q.refused
  BY <1>1, <1>2, <1>3, <1>4, AddPinsDoes DEF Carries
<1>6. Tracked(q)
  BY <1>1, <1>5 DEF Tracked, Carries
<1>7. Present(q)
  BY <1>1, <1>5 DEF Present, Carries, Addable
<1> QED
  BY <1>5, <1>6, <1>7 DEF Fits, q

\* refreshVia loses no pin: one that does not come back stays in the group.
LEMMA RefreshViaDoes ==
  ASSUME RoutesAssumption, NEW r, Fits(r)
  PROVE  LET q == RefreshVia(r)
         IN  Fits(q) /\ Carries(r, q) /\ q.bypass = r.bypass
<1> DEFINE d == DeletePins(r, r.bypass)
           q == AddPins(d, r.bypass)
<1>1. r \in Tables /\ Tracked(r) /\ Present(r) /\ r.bypass \in Pins
  BY Parts DEF Fits
<1>2. /\ d \in Tables /\ Carries(r, d) /\ d.bypass = r.bypass
      /\ \A h \in Bypass : d.at[h] = None
  BY <1>1, DeletePinsDoes DEF Carries, Tracked
<1>3. /\ q \in Tables /\ Carries(d, q) /\ q.bypass = r.bypass
      /\ \A h \in Bypass : q.at[h] = IF r.bypass[h] # None /\ Addable(d, h, r.bypass[h])
                                     THEN r.bypass[h] ELSE None
  <2> HIDE DEF d
  <2> QED
    BY <1>1, <1>2, AddPinsDoes DEF Carries
<1> HIDE DEF d, q
<1>4. Carries(r, q)
  BY <1>2, <1>3 DEF Carries
<1>5. Tracked(q)
  BY <1>1, <1>3, <1>4 DEF Tracked, Carries
<1>6. Present(q)
  BY <1>1, <1>3, <1>4 DEF Present, Carries, Addable
<1> QED
  BY <1>3, <1>4, <1>5, <1>6 DEF Fits, q, d, RefreshVia

\* Whatever was pinned before, the new pins are there or refused; what is taken
\* out shows.
LEMMA SetViaDoes ==
  ASSUME RoutesAssumption, None \notin attached, NEW r, Fits(r), NEW pins \in Pins
  PROVE  LET q == SetVia(r, pins)
         IN  /\ Fits(q) /\ Carries(r, q)
             /\ \A h \in Bypass :
                   /\ pins[h] = None /\ r.at[h] = None => q.at[h] = None
                   /\ pins[h] = None /\ r.at[h] # None => q.touched
                   /\ pins[h] \in attached => q.at[h] = pins[h] \/ h \in q.refused
<1> DEFINE q == SetVia(r, pins)
<1>1. r \in Tables /\ Tracked(r) /\ Present(r) /\ r.bypass \in Pins
  BY Parts DEF Fits
<1>2. CASE pins = r.bypass
  <2>1. q = EnsurePins(r)
    BY <1>2 DEF SetVia
  <2>2. \A h \in Bypass : r.at[h] # None => r.at[h] = pins[h]
    BY <1>1, <1>2 DEF Tracked
  <2> QED
    BY <1>2, <2>1, <2>2, EnsurePinsDoes DEF Addable
<1>3. CASE pins # r.bypass
  <2> DEFINE d == DeletePins(r, r.bypass)
             e == AddPins(d, pins)
             bypass == [h \in Bypass |-> IF Addable(r, h, pins[h]) THEN pins[h] ELSE None]
  <2>1. q = [e EXCEPT !.bypass = bypass]
    BY <1>3 DEF SetVia
  <2>2. /\ d \in Tables /\ Carries(r, d)
        /\ \A h \in Bypass : d.at[h] = None /\ (r.at[h] # None => d.touched)
    BY <1>1, DeletePinsDoes DEF Carries, Tracked
  <2>3. /\ e \in Tables /\ Carries(d, e)
        /\ \A h \in Bypass :
              /\ e.at[h] = IF pins[h] # None /\ Addable(d, h, pins[h]) THEN pins[h] ELSE None
              /\ pins[h] # None /\ h \in d.bad => h \in e.refused
    <3> HIDE DEF d
    <3> QED
      BY <2>2, AddPinsDoes DEF Carries
  <2>4. bypass \in Pins
    BY DEF Pins
  <2>5. \A h \in Bypass : Addable(d, h, pins[h]) <=> pins[h] \in attached /\ h \notin r.bad
    BY <2>2 DEF Addable, Carries
  <2>6. \A h \in Bypass : bypass[h] = e.at[h]
    BY <2>3, <2>5 DEF Addable
  <2> HIDE DEF d, e, bypass, q
  <2>7. /\ q \in Tables /\ Carries(e, q) /\ q.at = e.at /\ q.bypass = bypass
        /\ q.refused = e.refused /\ q.touched = e.touched
    BY <2>1, <2>3, <2>4 DEF Tables, Pins, Carries
  <2>8. Carries(r, q)
    BY <2>2, <2>3, <2>7 DEF Carries
  <2>9. Tracked(q)
    BY <1>1, <2>6, <2>7, <2>8 DEF Tracked, Carries
  <2>10. Present(q)
    BY <1>1, <2>3, <2>5, <2>7, <2>8 DEF Present, Carries
  <2>11. ASSUME NEW h \in Bypass
         PROVE  /\ pins[h] = None /\ r.at[h] = None => q.at[h] = None
                /\ pins[h] = None /\ r.at[h] # None => q.touched
                /\ pins[h] \in attached => q.at[h] = pins[h] \/ h \in q.refused
    BY <2>2, <2>3, <2>5, <2>7 DEF Carries
  <2> QED
    BY <2>7, <2>8, <2>9, <2>10, <2>11 DEF Fits, q
<1> QED
  BY <1>2, <1>3

\* There is a default route when there is a network.
World ==
    /\ RoutesAssumption
    /\ attached \subseteq Gateways /\ net \in attached \cup {None}
    /\ net = None => attached = {}

\* With ifMon's interface, pinBypassLocked leaves each first hop its way past the
\* tunnel; or else it took a pin out, which is announced and looked at again.
LEMMA PinBypassDoes ==
  ASSUME World, NEW r, Fits(r), NEW i
  PROVE  LET q == PinBypass(r, i)
         IN  /\ Fits(q) /\ Carries(r, q)
             /\ net # None /\ i = Interface[net] => q.touched \/ KeepsOut(q)
<1> DEFINE pins == [h \in Bypass |-> IF LeavesBy(r, h) = i THEN net ELSE None]
           q == PinBypass(r, i)
<1>1. CASE net = None
  BY <1>1 DEF PinBypass, Carries
<1>2. CASE net # None
  <2>1. q = SetVia(r, pins)
    BY <1>2 DEF PinBypass
  <2>2. /\ RoutesAssumption /\ None \notin attached
        /\ net \in attached /\ net \in Gateways /\ Interface[net] \in Ifaces
    BY <1>2 DEF World, RoutesAssumption, Ifaces
  <2>3. pins \in Pins /\ \A h \in Bypass : pins[h] = IF LeavesBy(r, h) = i THEN net ELSE None
    BY <2>2 DEF Pins
  <2> HIDE DEF pins, q
  <2>4. /\ Fits(q) /\ Carries(r, q)
        /\ \A h \in Bypass :
              /\ pins[h] = None /\ r.at[h] = None => q.at[h] = None
              /\ pins[h] = None /\ r.at[h] # None => q.touched
              /\ pins[h] \in attached => q.at[h] = pins[h] \/ h \in q.refused
    BY <2>1, <2>2, <2>3, SetViaDoes
  <2>5. ASSUME i = Interface[net], ~q.touched, NEW h \in Bypass \ q.refused
        PROVE  q.at[h] = net \/ (h \in Inside /\ vpn /\ q.at[h] = None)
    <3>1. CASE LeavesBy(r, h) = i
      BY <2>2, <2>3, <2>4, <2>5, <3>1
    <3>2. CASE LeavesBy(r, h) # i
      <4>1. pins[h] = None /\ r.at[h] = None /\ q.at[h] = None
        BY <2>3, <2>4, <2>5, <3>2
      <4> QED
        BY <2>5, <3>2, <4>1 DEF LeavesBy
    <3> QED
      BY <3>1, <3>2
  <2> QED
    BY <2>4, <2>5 DEF KeepsOut, q
<1> QED
  BY <1>1, <1>2

-----------------------------------------------------------------------------
(* The scoped default, and what the platform does. *)

NoDefault(r) == \A i \in Ifaces : r.through[i] = None

\* addScopedDefault, where no scoped default is: it is there afterwards, and known.
LEMMA AddScopedDoes ==
  ASSUME World, NEW r, Fits(r), NoDefault(r)
  PROVE  LET q == AddScoped(r)
         IN  Fits(q) /\ (r.touched => q.touched) /\ (net # None => HasDefault(q))
<1> DEFINE q == AddScoped(r)
<1>1. r \in Tables /\ Tracked(r) /\ Present(r)
  BY DEF Fits
<1>2. CASE net = None
  <2>1. q = [r EXCEPT !.scoped = None]
    BY <1>2 DEF AddScoped
  <2> HIDE DEF q
  <2>2. /\ q \in Tables /\ q.at = r.at /\ q.bypass = r.bypass /\ q.through = r.through
        /\ q.touched = r.touched
    BY <1>1, <2>1 DEF Tables
  <2>3. Tracked(q) /\ Present(q)
    BY <1>1, <2>2 DEF Tracked, Present, NoDefault
  <2> QED
    BY <1>2, <2>2, <2>3 DEF Fits, q
<1>3. CASE net # None
  <2> DEFINE e == AddDefault(r, net)
             scoped == IF Addable(r, "scoped", net) THEN net ELSE None
  <2>1. /\ RoutesAssumption /\ attached \subseteq Gateways /\ net \in attached
        /\ net \in Gateways /\ Interface[net] \in Ifaces
    BY <1>3 DEF World, Ifaces
  <2>2. q = [e EXCEPT !.scoped = scoped]
    BY <1>3, <2>1 DEF AddScoped, NoDefault
  <2>3. /\ e \in Tables /\ e.at = r.at /\ e.bypass = r.bypass
        /\ \A i \in Ifaces : e.through[i] = IF i = Interface[net] /\ "scoped" \notin r.bad
                                            THEN net ELSE None
        /\ "scoped" \in r.bad => "scoped" \in e.refused
        /\ r.touched => e.touched
    BY <1>1, <2>1, AddDefaultDoes DEF NoDefault
  <2>4. scoped = IF "scoped" \notin r.bad THEN net ELSE None
    BY <2>1 DEF Addable
  <2> HIDE DEF e, scoped, q
  <2>5. /\ q \in Tables /\ q.at = e.at /\ q.bypass = e.bypass /\ q.through = e.through
        /\ q.scoped = scoped /\ q.refused = e.refused /\ q.touched = e.touched
    BY <2>1, <2>2, <2>3, <2>4 DEF Tables
  <2>6. Tracked(q)
    BY <1>1, <2>3, <2>4, <2>5 DEF Tracked
  <2>7. Present(q)
    BY <1>1, <2>1, <2>3, <2>5 DEF Present
  <2>8. HasDefault(q)
    BY <2>1, <2>3, <2>5 DEF HasDefault
  <2> QED
    BY <2>3, <2>5, <2>6, <2>7, <2>8 DEF Fits, q
<1> QED
  BY <1>2, <1>3

\* ensure of the scoped default there should be.
LEMMA EnsureScopedDoes ==
  ASSUME World, NEW r, Fits(r), net # None, r.scoped = net
  PROVE  LET q == EnsureScoped(r)
         IN  Fits(q) /\ (r.touched => q.touched) /\ HasDefault(q)
<1> DEFINE q == EnsureScoped(r)
<1>1. /\ RoutesAssumption /\ attached \subseteq Gateways /\ net \in attached
      /\ net \in Gateways /\ Interface[net] \in Ifaces
      /\ r \in Tables /\ Tracked(r) /\ Present(r)
  BY DEF World, Ifaces, Fits
<1>2. CASE r.through[Interface[net]] = net
  <2>1. q = r
    BY <1>2 DEF EnsureScoped
  <2> QED
    BY <1>2, <2>1 DEF HasDefault
<1>3. CASE r.through[Interface[net]] # net
  <2>1. q = AddDefault(r, net)
    BY <1>3 DEF EnsureScoped
  <2> HIDE DEF q
  <2>2. /\ q \in Tables /\ q.at = r.at /\ q.bypass = r.bypass /\ q.scoped = net
        /\ \A i \in Ifaces : q.through[i] = IF i = Interface[net] /\ "scoped" \notin r.bad
                                            THEN net ELSE r.through[i]
        /\ "scoped" \in r.bad => "scoped" \in q.refused
        /\ r.touched => q.touched
    BY <1>1, <2>1, AddDefaultDoes
  <2>3. Tracked(q)
    BY <1>1, <2>2 DEF Tracked
  <2>4. Present(q)
    BY <1>1, <2>2 DEF Present
  <2>5. HasDefault(q)
    BY <1>1, <2>2 DEF HasDefault
  <2> QED
    BY <2>2, <2>3, <2>4, <2>5 DEF Fits, q
<1> QED
  BY <1>2, <1>3

\* A scoped default that is removed leaves none.
LEMMA RemoveScopedFits ==
  ASSUME World, NEW r, Fits(r)
  PROVE  LET q == RemoveScoped(r)
         IN  /\ Fits(q) /\ NoDefault(q) /\ q.scoped = None /\ q.at = r.at /\ q.bypass = r.bypass
             /\ r.touched => q.touched
<1> DEFINE q == RemoveScoped(r)
<1>1. /\ q \in Tables /\ q.at = r.at /\ q.bypass = r.bypass /\ q.scoped = None
      /\ \A i \in Ifaces : q.through[i] = None
      /\ r.touched => q.touched
  BY RemoveScopedDoes DEF World
<1> HIDE DEF q
<1>2. Tracked(q) /\ Present(q)
  BY <1>1 DEF Tracked, Present, Fits
<1> QED
  BY <1>1, <1>2 DEF Fits, NoDefault, q

\* What every operation on the routes leaves behind while the tunnel is up, with i
\* for ifMon's interface.
Leaves(r, q, i) ==
    /\ Fits(q) /\ (r.touched => q.touched)
    /\ net # None => HasDefault(q)
    /\ net # None /\ i = Interface[net] => q.touched \/ KeepsOut(q)

LEMMA PinBypassLeaves ==
  ASSUME World, NEW r, Fits(r), net # None => HasDefault(r), NEW i
  PROVE  Leaves(r, PinBypass(r, i), i)
<1>1. /\ Fits(PinBypass(r, i)) /\ Carries(r, PinBypass(r, i))
      /\ net # None /\ i = Interface[net] => PinBypass(r, i).touched \/ KeepsOut(PinBypass(r, i))
  BY PinBypassDoes
<1> QED
  BY <1>1 DEF Leaves, Carries, HasDefault

LEMMA BringUpLeaves ==
  ASSUME World, NEW r, Fits(r), NoDefault(r)
  PROVE  Leaves(r, BringUp(r), known)
<1> DEFINE a == AddScoped(r)
<1>1. Fits(a) /\ (r.touched => a.touched) /\ (net # None => HasDefault(a))
  BY AddScopedDoes
<1> HIDE DEF a
<1>2. Leaves(a, PinBypass(a, known), known)
  BY <1>1, PinBypassLeaves
<1> QED
  BY <1>1, <1>2 DEF BringUp, a, Leaves

LEMMA HealLeaves ==
  ASSUME World, NEW r, Fits(r)
  PROVE  Leaves(r, Heal(r), known)
<1> DEFINE d == RemoveScoped(r)
           a == AddScoped(d)
           e == RefreshVia(a)
<1>1. Fits(d) /\ NoDefault(d) /\ (r.touched => d.touched)
  BY RemoveScopedFits
<1>2. Fits(a) /\ (d.touched => a.touched) /\ (net # None => HasDefault(a))
  <2> HIDE DEF d
  <2> QED
    BY <1>1, AddScopedDoes
<1>3. Fits(e) /\ Carries(a, e)
  <2> HIDE DEF a
  <2> QED
    BY <1>2, RefreshViaDoes DEF World
<1> HIDE DEF d, a, e
<1>4. net # None => HasDefault(e)
  BY <1>2, <1>3 DEF HasDefault, Carries
<1>5. Leaves(e, PinBypass(e, known), known)
  BY <1>3, <1>4, PinBypassLeaves
<1> QED
  BY <1>1, <1>2, <1>3, <1>5 DEF Heal, e, a, d, Leaves, Carries

LEMMA ReassertLeaves ==
  ASSUME World, NEW r, Fits(r)
  PROVE  Leaves(r, Reassert(r), known)
<1> DEFINE s == IF r.scoped = None THEN AddScoped(r)
                ELSE IF r.scoped = net THEN EnsureScoped(r)
                ELSE AddScoped(RemoveScoped(r))
           e == EnsurePins(s)
<1>1. Fits(s) /\ (r.touched => s.touched) /\ (net # None => HasDefault(s))
  <2>1. CASE r.scoped = None
    <3>1. NoDefault(r)
      BY <2>1 DEF NoDefault, Fits, Tracked
    <3> QED
      BY <2>1, <3>1, AddScopedDoes
  <2>2. CASE r.scoped # None /\ r.scoped = net
    BY <2>2, EnsureScopedDoes
  <2>3. CASE r.scoped # None /\ r.scoped # net
    <3> DEFINE d == RemoveScoped(r)
    <3>1. Fits(d) /\ NoDefault(d) /\ (r.touched => d.touched)
      BY RemoveScopedFits
    <3>2. s = AddScoped(d)
      BY <2>3
    <3> HIDE DEF d, s
    <3> QED
      BY <3>1, <3>2, AddScopedDoes
  <2> QED
    BY <2>1, <2>2, <2>3
<1>2. Fits(e) /\ Carries(s, e)
  <2> HIDE DEF s
  <2> QED
    BY <1>1, EnsurePinsDoes DEF World
<1>3. Reassert(r) = PinBypass(e, known)
  BY DEF Reassert
<1> HIDE DEF s, e
<1>4. net # None => HasDefault(e)
  BY <1>1, <1>2 DEF HasDefault, Carries
<1>5. Leaves(e, PinBypass(e, known), known)
  BY <1>2, <1>4, PinBypassLeaves
<1> QED
  BY <1>1, <1>2, <1>3, <1>5 DEF Leaves, Carries

\* downLocked takes everything back that there is.
LEMMA ClearAllDoes ==
  ASSUME World, NEW r, Fits(r)
  PROVE  Fits(ClearAll(r)) /\ Cleared(ClearAll(r))
<1> DEFINE d == RemoveScoped(r)
           e == DeletePins(d, r.bypass)
           q == [e EXCEPT !.bypass = Empty.bypass, !.refused = {}]
<1>1. Fits(d) /\ NoDefault(d) /\ d.scoped = None /\ d.bypass = r.bypass
  BY RemoveScopedFits
<1>2. d \in Tables /\ Tracked(d) /\ Present(d) /\ d.bypass \in Pins
  BY <1>1, Parts DEF Fits
<1> HIDE DEF d
<1>3. /\ e \in Tables /\ e.scoped = None /\ e.through = d.through
      /\ \A h \in Bypass : e.at[h] = None
  BY <1>1, <1>2, DeletePinsDoes DEF Tracked, World
<1>4. q = ClearAll(r)
  BY DEF ClearAll, d
<1>5. Empty.bypass \in Pins /\ Empty.bypass = [h \in Bypass |-> None]
  BY DEF Empty, Pins
<1> HIDE DEF e, q
<1>6. /\ q \in Tables /\ q.at = e.at /\ q.through = e.through /\ q.scoped = None
      /\ q.bypass = Empty.bypass
  BY <1>3, <1>5 DEF q, Tables, Pins
<1>7. Tracked(q) /\ Present(q)
  BY <1>1, <1>3, <1>6 DEF Tracked, Present, NoDefault
<1> QED
  BY <1>4, <1>6, <1>7 DEF Fits, Cleared

-----------------------------------------------------------------------------
(* What a call of Do leaves behind. *)

\* Before: what route(8) is going to refuse changes nothing else.
LEMMA Begun ==
  ASSUME TypeOK, Fits(rt), NEW bad \in SUBSET (Bypass \cup {"scoped"})
  PROVE  LET r == [rt EXCEPT !.bad = bad]
         IN  /\ Fits(r) /\ ~r.touched
             /\ (NoDefault(rt) => NoDefault(r))
             /\ (HasDefault(rt) => HasDefault(r))
             /\ [r EXCEPT !.bad = {}, !.touched = FALSE] = rt
<1> DEFINE r == [rt EXCEPT !.bad = bad]
           s == [r EXCEPT !.bad = {}, !.touched = FALSE]
<1>1. rt \in Tables /\ Tracked(rt) /\ Present(rt) /\ rt.bad = {} /\ rt.touched = FALSE
  BY DEF Fits, TypeOK, Tables
<1>2. /\ r \in Tables /\ r.at = rt.at /\ r.bypass = rt.bypass /\ r.through = rt.through
      /\ r.scoped = rt.scoped /\ r.refused = rt.refused /\ r.touched = rt.touched
  BY <1>1 DEF Tables
<1>3. s = rt
  BY <1>1 DEF Tables
<1> HIDE DEF r, s
<1>4. Tracked(r) /\ Present(r)
  BY <1>1, <1>2 DEF Tracked, Present
<1>5. ~r.touched /\ (NoDefault(rt) => NoDefault(r)) /\ (HasDefault(rt) => HasDefault(r))
  BY <1>1, <1>2 DEF NoDefault, HasDefault
<1> QED
  BY <1>2, <1>3, <1>4, <1>5 DEF Fits, r, s

\* After: a table of routes that is at rest again.
Calm(q) == Fits(q) /\ q.bad = {} /\ ~q.touched

LEMMA Finished ==
  ASSUME NEW q, Fits(q)
  PROVE  LET s == [q EXCEPT !.bad = {}, !.touched = FALSE]
         IN  /\ Calm(s)
             /\ (Cleared(q) => Cleared(s))
             /\ (HasDefault(q) => HasDefault(s))
             /\ (KeepsOut(q) => KeepsOut(s))
<1> DEFINE s == [q EXCEPT !.bad = {}, !.touched = FALSE]
<1>1. q \in Tables /\ Tracked(q) /\ Present(q)
  BY DEF Fits
<1>2. /\ s \in Tables /\ s.at = q.at /\ s.bypass = q.bypass /\ s.through = q.through
      /\ s.scoped = q.scoped /\ s.refused = q.refused /\ s.bad = {} /\ ~s.touched
  BY <1>1 DEF Tables
<1> HIDE DEF s
<1>3. Tracked(s) /\ Present(s)
  BY <1>1, <1>2 DEF Tracked, Present
<1>4. /\ (Cleared(q) => Cleared(s))
      /\ (HasDefault(q) => HasDefault(s))
      /\ (KeepsOut(q) => KeepsOut(s))
  BY <1>2 DEF Cleared, HasDefault, KeepsOut
<1> QED
  BY <1>2, <1>3, <1>4 DEF Calm, Fits, s

\* What a step that works on the routes has done to them, with i for ifMon's
\* interface: whatever it takes out is announced.
Mended(i) ==
    /\ Calm(rt')
    /\ changed' \in BOOLEAN /\ (changed => changed')
    /\ events' \in 0 .. MaxEvents
    /\ net # None => HasDefault(rt')
    /\ net # None /\ i = Interface[net] => changed' \/ KeepsOut(rt')

\* The common ending.
LEMMA LeavesMends ==
  ASSUME TypeOK, NEW r, NEW q, NEW i, Leaves(r, q, i),
         rt' = [q EXCEPT !.bad = {}, !.touched = FALSE], changed' = (changed \/ q.touched),
         events' \in 0 .. MaxEvents
  PROVE  Mended(i)
<1>1. /\ Fits(q) /\ q.touched \in BOOLEAN
      /\ net # None => HasDefault(q)
      /\ net # None /\ i = Interface[net] => q.touched \/ KeepsOut(q)
  BY Parts DEF Leaves, Fits
<1>2. /\ Calm(rt')
      /\ (HasDefault(q) => HasDefault(rt'))
      /\ (KeepsOut(q) => KeepsOut(rt'))
  BY <1>1, Finished
<1>3. changed' \in BOOLEAN /\ (changed => changed') /\ (q.touched => changed')
  BY <1>1 DEF TypeOK
<1> QED
  BY <1>1, <1>2, <1>3 DEF Mended

LEMMA ReassertMends ==
  ASSUME World, TypeOK, Fits(rt), Do(Reassert, 0)
  PROVE  Mended(known)
<1>1. PICK bad \in SUBSET (Bypass \cup {"scoped"}) :
         LET r == Reassert([rt EXCEPT !.bad = bad])
         IN  /\ events' = events + 0 + (IF bad = {} THEN 0 ELSE 1)
             /\ events' <= MaxEvents
             /\ rt' = [r EXCEPT !.bad = {}, !.touched = FALSE]
             /\ changed' = (changed \/ r.touched)
  BY DEF Do
<1>2. events' \in 0 .. MaxEvents
  BY <1>1 DEF TypeOK, World, RoutesAssumption
<1>3. Fits([rt EXCEPT !.bad = bad])
  BY Begun
<1>4. Leaves([rt EXCEPT !.bad = bad], Reassert([rt EXCEPT !.bad = bad]), known)
  BY <1>3, ReassertLeaves
<1> QED
  BY <1>1, <1>2, <1>4, LeavesMends

LEMMA HealMends ==
  ASSUME World, TypeOK, Fits(rt), NEW cost \in {0, 1}, Do(Heal, cost)
  PROVE  Mended(known)
<1>1. PICK bad \in SUBSET (Bypass \cup {"scoped"}) :
         LET r == Heal([rt EXCEPT !.bad = bad])
         IN  /\ events' = events + cost + (IF bad = {} THEN 0 ELSE 1)
             /\ events' <= MaxEvents
             /\ rt' = [r EXCEPT !.bad = {}, !.touched = FALSE]
             /\ changed' = (changed \/ r.touched)
  BY DEF Do
<1>2. events' \in 0 .. MaxEvents
  BY <1>1 DEF TypeOK, World, RoutesAssumption
<1>3. Fits([rt EXCEPT !.bad = bad])
  BY Begun
<1>4. Leaves([rt EXCEPT !.bad = bad], Heal([rt EXCEPT !.bad = bad]), known)
  BY <1>3, HealLeaves
<1> QED
  BY <1>1, <1>2, <1>4, LeavesMends

LEMMA PinBypassMends ==
  ASSUME World, TypeOK, Fits(rt), net # None /\ ~changed /\ ~timer => HasDefault(rt),
         Do(LAMBDA r : PinBypass(r, Current), 0)
  PROVE  /\ Calm(rt')
         /\ changed' \in BOOLEAN /\ (changed => changed')
         /\ events' \in 0 .. MaxEvents
         /\ net # None /\ ~changed /\ ~timer => HasDefault(rt')
         /\ net # None => changed' \/ KeepsOut(rt')
<1>1. PICK bad \in SUBSET (Bypass \cup {"scoped"}) :
         LET r == PinBypass([rt EXCEPT !.bad = bad], Current)
         IN  /\ events' = events + 0 + (IF bad = {} THEN 0 ELSE 1)
             /\ events' <= MaxEvents
             /\ rt' = [r EXCEPT !.bad = {}, !.touched = FALSE]
             /\ changed' = (changed \/ r.touched)
  BY DEF Do
<1> DEFINE r == [rt EXCEPT !.bad = bad]
           q == PinBypass(r, Current)
<1>2. events' \in 0 .. MaxEvents
  BY <1>1 DEF TypeOK, World, RoutesAssumption
<1>3. Fits(r) /\ (HasDefault(rt) => HasDefault(r))
  BY Begun
<1>4. rt' = [q EXCEPT !.bad = {}, !.touched = FALSE] /\ changed' = (changed \/ q.touched)
  BY <1>1
<1> HIDE DEF r
<1>5. /\ Fits(q) /\ Carries(r, q) /\ q.touched \in BOOLEAN
      /\ net # None /\ Current = Interface[net] => q.touched \/ KeepsOut(q)
  <2>1. /\ Fits(q) /\ Carries(r, q)
        /\ net # None /\ Current = Interface[net] => q.touched \/ KeepsOut(q)
    BY <1>3, PinBypassDoes
  <2> HIDE DEF q
  <2> QED
    BY <2>1, Parts DEF Fits
<1> HIDE DEF q
<1>6. /\ Calm(rt')
      /\ (HasDefault(q) => HasDefault(rt'))
      /\ (KeepsOut(q) => KeepsOut(rt'))
  BY <1>4, <1>5, Finished
<1>7. changed' \in BOOLEAN /\ (changed => changed') /\ (q.touched => changed')
  BY <1>4, <1>5 DEF TypeOK
<1>8. HasDefault(r) => HasDefault(q)
  BY <1>5 DEF HasDefault, Carries
<1> QED
  BY <1>2, <1>3, <1>5, <1>6, <1>7, <1>8 DEF Current

LEMMA BringUpMends ==
  ASSUME World, TypeOK, Fits(rt), NoDefault(rt), NEW dns \in BOOLEAN,
         Do(LAMBDA r : IF dns THEN BringUp(r) ELSE ClearAll(BringUp(r)), 1)
  PROVE  /\ Calm(rt')
         /\ changed' \in BOOLEAN /\ (changed => changed')
         /\ events' \in 0 .. MaxEvents
         /\ dns => Mended(known)
         /\ ~dns => Cleared(rt')
<1>1. PICK bad \in SUBSET (Bypass \cup {"scoped"}) :
         LET b == BringUp([rt EXCEPT !.bad = bad])
             r == IF dns THEN b ELSE ClearAll(b)
         IN  /\ events' = events + 1 + (IF bad = {} THEN 0 ELSE 1)
             /\ events' <= MaxEvents
             /\ rt' = [r EXCEPT !.bad = {}, !.touched = FALSE]
             /\ changed' = (changed \/ r.touched)
  BY DEF Do
<1> DEFINE r0 == [rt EXCEPT !.bad = bad]
           b == BringUp(r0)
<1>2. events' \in 0 .. MaxEvents
  BY <1>1 DEF TypeOK, World, RoutesAssumption
<1>3. Fits(r0) /\ NoDefault(r0)
  BY Begun
<1>4. Leaves(r0, b, known)
  <2> HIDE DEF r0
  <2> QED
    BY <1>3, BringUpLeaves
<1>5. CASE dns
  <2>1. rt' = [b EXCEPT !.bad = {}, !.touched = FALSE] /\ changed' = (changed \/ b.touched)
    BY <1>1, <1>5
  <2> HIDE DEF r0, b
  <2>2. Mended(known)
    BY <1>2, <1>4, <2>1, LeavesMends
  <2> QED
    BY <1>5, <2>2 DEF Mended
<1>6. CASE ~dns
  <2> DEFINE q == ClearAll(b)
  <2>1. rt' = [q EXCEPT !.bad = {}, !.touched = FALSE] /\ changed' = (changed \/ q.touched)
    BY <1>1, <1>6
  <2> HIDE DEF r0, b
  <2>2. Fits(q) /\ Cleared(q)
    BY <1>4, ClearAllDoes DEF Leaves
  <2> HIDE DEF q
  <2>3. q.touched \in BOOLEAN
    BY <2>2, Parts DEF Fits
  <2>4. Calm(rt') /\ Cleared(rt')
    BY <2>1, <2>2, Finished
  <2> QED
    BY <1>2, <1>6, <2>1, <2>3, <2>4 DEF TypeOK
<1> QED
  BY <1>5, <1>6

LEMMA ClearAllMends ==
  ASSUME World, TypeOK, Fits(rt), Do(ClearAll, 0)
  PROVE  /\ Calm(rt') /\ Cleared(rt')
         /\ changed' \in BOOLEAN /\ (changed => changed')
         /\ events' \in 0 .. MaxEvents
<1>1. PICK bad \in SUBSET (Bypass \cup {"scoped"}) :
         LET r == ClearAll([rt EXCEPT !.bad = bad])
         IN  /\ events' = events + 0 + (IF bad = {} THEN 0 ELSE 1)
             /\ events' <= MaxEvents
             /\ rt' = [r EXCEPT !.bad = {}, !.touched = FALSE]
             /\ changed' = (changed \/ r.touched)
  BY DEF Do
<1> DEFINE r == [rt EXCEPT !.bad = bad]
           q == ClearAll(r)
<1>2. events' \in 0 .. MaxEvents
  BY <1>1 DEF TypeOK, World, RoutesAssumption
<1>3. Fits(r)
  BY Begun
<1>4. rt' = [q EXCEPT !.bad = {}, !.touched = FALSE] /\ changed' = (changed \/ q.touched)
  BY <1>1
<1> HIDE DEF r
<1>5. Fits(q) /\ Cleared(q)
  BY <1>3, ClearAllDoes
<1> HIDE DEF q
<1>6. q.touched \in BOOLEAN
  BY <1>5, Parts DEF Fits
<1> QED
  BY <1>2, <1>4, <1>5, <1>6, Finished DEF TypeOK

-----------------------------------------------------------------------------
(* The steps.  Each part of the invariant, as far as a step leaves alone    *)
(* what it speaks of.                                                      *)

LEMMA InvWorld ==
  ASSUME RoutesAssumption, RInv
  PROVE  World
  BY DEF World, RInv, TypeOK

\* Where neither the routes nor the networks change, nothing about them does.
LEMMA RoutesRest ==
  ASSUME RInv, UNCHANGED <<system, rt, up, known>>, changed => changed', timer => timer'
  PROVE  /\ Fits(rt)' /\ (net = None => attached = {})' /\ (~up => Cleared(rt))'
         /\ Defaulted' /\ Pinned'
<1>1. /\ Fits(rt) /\ (net = None => attached = {}) /\ (~up => Cleared(rt))
      /\ Defaulted /\ Pinned
  BY DEF RInv
<1>2. Fits(rt)' /\ (net = None => attached = {})' /\ (~up => Cleared(rt))'
  BY <1>1 DEF system, Fits, Tracked, Present, Cleared
<1>3. Defaulted'
  BY <1>1 DEF system, Defaulted, Quiet, HasDefault
<1>4. Pinned'
  BY <1>1 DEF system, Pinned, Quiet, KeepsOut, Current
<1> QED
  BY <1>2, <1>3, <1>4

\* Where nothing about the VPN changes, it is followed as before.
LEMMA FrontRests ==
  ASSUME RInv, UNCHANGED <<system, up, fronting, fronts>>, hidden' => hidden,
         changed => changed', timer => timer'
  PROVE  Fronted'
<1>1. ASSUME NEW f \in Fronts, Informed(f)
      PROVE  Informed(f)'
  BY <1>1 DEF Informed, Right, system, fronts
<1> QED
  BY <1>1 DEF RInv, Fronted, Right, system, fronts

\* The routes were worked on while the tunnel is up.
LEMMA RoutesMended ==
  ASSUME World, UNCHANGED <<system, known>>, Mended(known), up'
  PROVE  /\ Fits(rt)' /\ (net = None => attached = {})' /\ (~up => Cleared(rt))'
         /\ Defaulted' /\ Pinned'
         /\ (rt \in Tables /\ rt.bad = {} /\ ~rt.touched)'
<1>1. /\ Fits(rt') /\ rt'.bad = {} /\ ~rt'.touched
      /\ net # None => HasDefault(rt')
      /\ net # None /\ known = Interface[net] => changed' \/ KeepsOut(rt')
  BY DEF Mended, Calm
<1>2. Fits(rt)' /\ (net = None => attached = {})' /\ (~up => Cleared(rt))'
  BY <1>1 DEF World, system, Fits, Tracked, Present
<1>3. Defaulted'
  BY <1>1 DEF system, Defaulted, Quiet, HasDefault
<1>4. Pinned'
  BY <1>1 DEF system, Pinned, Quiet, KeepsOut, Current
<1> QED
  BY <1>1, <1>2, <1>3, <1>4 DEF Fits

\* Without one nothing is left of them.
LEMMA RoutesCleared ==
  ASSUME World, UNCHANGED system, Calm(rt'), Cleared(rt'), ~up'
  PROVE  /\ Fits(rt)' /\ (net = None => attached = {})' /\ (~up => Cleared(rt))'
         /\ Defaulted' /\ Pinned'
         /\ (rt \in Tables /\ rt.bad = {} /\ ~rt.touched)'
<1>1. Fits(rt') /\ rt'.bad = {} /\ ~rt'.touched
  BY DEF Calm
<1>2. Fits(rt)' /\ (net = None => attached = {})' /\ (~up => Cleared(rt))'
  BY <1>1 DEF World, system, Fits, Tracked, Present, Cleared
<1> QED
  BY <1>1, <1>2 DEF Fits, Defaulted, Pinned, Quiet

LEMMA NetworksChangeKeeps ==
  ASSUME RoutesAssumption, RInv, NetworksChange
  PROVE  RInv'
<1>1. PICK a \in SUBSET Gateways :
         /\ attached' = a
         /\ net' \in (IF a = {} THEN {None} ELSE a)
         /\ LET kept(g) == IF g \in a THEN g ELSE None
                at == [h \in Bypass |-> kept(rt.at[h])]
                through == [i \in Ifaces |-> kept(rt.through[i])]
            IN rt' = [rt EXCEPT !.at = at, !.through = through,
                                !.numb = {x \in @ : IF x \in Bypass THEN at[x] # None
                                                                    ELSE through[x] # None}]
  BY DEF NetworksChange
<1> DEFINE at == [h \in Bypass |-> IF rt.at[h] \in a THEN rt.at[h] ELSE None]
           through == [i \in Ifaces |-> IF rt.through[i] \in a THEN rt.through[i] ELSE None]
           numb == {x \in rt.numb : IF x \in Bypass THEN at[x] # None ELSE through[x] # None}
<1>2. rt \in Tables /\ Tracked(rt) /\ rt.bad = {} /\ ~rt.touched
  BY DEF RInv, TypeOK, Fits
<1>3. rt' = [rt EXCEPT !.at = at, !.through = through, !.numb = numb]
  BY <1>1
<1>4. /\ at \in Pins /\ through \in [Ifaces -> Gateways \cup {None}]
      /\ numb \subseteq Bypass \cup Ifaces
  BY <1>2, Parts DEF Pins
<1> HIDE DEF numb
<1>5. /\ \A h \in Bypass : at[h] \in a \cup {None} /\ (at[h] # None => at[h] = rt.at[h])
      /\ \A i \in Ifaces :
            through[i] \in a \cup {None} /\ (through[i] # None => through[i] = rt.through[i])
  OBVIOUS
<1> HIDE DEF at, through
<1>6. /\ rt' \in Tables /\ rt'.at = at /\ rt'.through = through /\ rt'.bypass = rt.bypass
      /\ rt'.scoped = rt.scoped /\ rt'.bad = {} /\ ~rt'.touched
  BY <1>2, <1>3, <1>4 DEF Tables, Pins
<1>7. Tracked(rt)'
  BY <1>2, <1>5, <1>6 DEF Tracked
<1>8. Present(rt)'
  BY <1>1, <1>5, <1>6 DEF Present
<1>9. (~up => Cleared(rt))'
  BY <1>6 DEF RInv, Cleared, NetworksChange
<1>10. (net = None => attached = {})'
  BY <1>1 DEF RoutesAssumption
<1>11. TypeOK'
  BY <1>1, <1>6 DEF RInv, TypeOK, NetworksChange, fronts, lists, dials, RoutesAssumption
<1>12. Dialing'
  BY DEF RInv, Dialing, NetworksChange, dials
<1>13. Fronted'
  BY DEF RInv, Fronted, NetworksChange, fronts, lists
<1>14. Defaulted' /\ Pinned'
  BY DEF Defaulted, Pinned, Quiet, NetworksChange
<1> QED
  BY <1>6, <1>7, <1>8, <1>9, <1>10, <1>11, <1>12, <1>13, <1>14 DEF RInv, Fits

LEMMA VpnChangesKeeps ==
  ASSUME RoutesAssumption, RInv, VpnChanges
  PROVE  RInv'
<1>1. TypeOK'
  BY DEF RInv, TypeOK, VpnChanges, fronts, lists, dials, RoutesAssumption
<1>2. Fits(rt)' /\ (net = None => attached = {})' /\ (~up => Cleared(rt))'
  BY DEF RInv, VpnChanges, Fits, Tracked, Present, Cleared
<1>3. Defaulted' /\ Pinned'
  BY DEF Defaulted, Pinned, Quiet, VpnChanges
<1>4. Dialing' /\ Fronted'
  BY DEF RInv, Dialing, Fronted, VpnChanges, dials, lists, fronts
<1> QED
  BY <1>1, <1>2, <1>3, <1>4 DEF RInv

\* A route that leads nowhere is where it was.
LEMMA SleepKeeps ==
  ASSUME RoutesAssumption, RInv, Sleep
  PROVE  RInv'
<1> DEFINE numb == {h \in Bypass : rt.at[h] # None} \cup {i \in Ifaces : rt.through[i] # None}
<1>1. rt' = [rt EXCEPT !.numb = numb] /\ rt \in Tables
  BY DEF RInv, TypeOK, Sleep
<1>2. numb \subseteq Bypass \cup Ifaces
  OBVIOUS
<1> HIDE DEF numb
<1>3. /\ rt' \in Tables /\ rt'.at = rt.at /\ rt'.bypass = rt.bypass /\ rt'.through = rt.through
      /\ rt'.scoped = rt.scoped /\ rt'.refused = rt.refused /\ rt'.bad = rt.bad
      /\ rt'.touched = rt.touched
  BY <1>1, <1>2 DEF Tables
<1>4. TypeOK'
  BY <1>3 DEF RInv, TypeOK, Sleep, system, lists, fronts, dials, RoutesAssumption
<1>5. Fits(rt)' /\ (net = None => attached = {})' /\ (~up => Cleared(rt))'
  BY <1>3 DEF RInv, Sleep, system, Fits, Tracked, Present, Cleared
<1>6. Defaulted' /\ Pinned'
  BY <1>3 DEF RInv, Sleep, system, Defaulted, Pinned, Quiet, HasDefault, KeepsOut, Current
<1>7. Dialing'
  BY DEF RInv, Dialing, Sleep, dials
<1>8. Fronted'
  BY FrontRests DEF Sleep, lists
<1> QED
  BY <1>4, <1>5, <1>6, <1>7, <1>8 DEF RInv

\* What was announced is to be acted upon.
LEMMA AnnounceKeeps ==
  ASSUME RoutesAssumption, RInv, Announce
  PROVE  RInv'
<1>1. TypeOK'
  BY DEF RInv, TypeOK, Announce, system, fronts, dials
<1>2. Fits(rt)' /\ (net = None => attached = {})' /\ (~up => Cleared(rt))'
  BY DEF RInv, Announce, system, Fits, Tracked, Present, Cleared
<1>3. Defaulted' /\ Pinned'
  BY DEF Defaulted, Pinned, Quiet, Announce
<1>4. Dialing' /\ Fronted'
  BY DEF RInv, Dialing, Fronted, Announce, dials, system, fronts
<1> QED
  BY <1>1, <1>2, <1>3, <1>4 DEF RInv

LEMMA InterfaceChangesKeeps ==
  ASSUME RoutesAssumption, RInv, InterfaceChanges
  PROVE  RInv'
<1>1. TypeOK /\ World /\ Fits(rt) /\ (~up => Cleared(rt)) /\ Defaulted
  BY InvWorld DEF RInv
<1>2. Dialing'
  BY DEF RInv, Dialing, InterfaceChanges
<1>3. Current \in Ifaces \cup {None} /\ (net # None => Current = Interface[net])
  BY <1>1 DEF Current, Ifaces, World
<1>4. CASE up
  <2>1. Do(LAMBDA r : PinBypass(r, Current), 0)
    BY <1>4 DEF InterfaceChanges, DoIfUp
  <2>2. /\ Calm(rt')
        /\ changed' \in BOOLEAN /\ (changed => changed')
        /\ events' \in 0 .. MaxEvents
        /\ net # None /\ ~changed /\ ~timer => HasDefault(rt')
        /\ net # None => changed' \/ KeepsOut(rt')
    BY <1>1, <1>4, <2>1, PinBypassMends DEF Defaulted, Quiet
  <2>3. TypeOK'
    BY <1>1, <1>3, <2>2
       DEF TypeOK, InterfaceChanges, system, lists, fronts, Calm, Fits
  <2>4. Fits(rt)' /\ (net = None => attached = {})' /\ (~up => Cleared(rt))'
    BY <1>1, <1>4, <2>2
       DEF InterfaceChanges, system, World, Calm, Fits, Tracked, Present, Cleared
  <2>5. Defaulted' /\ Pinned'
    BY <2>2 DEF InterfaceChanges, system, Defaulted, Pinned, Quiet, HasDefault, KeepsOut
  <2>6. Fronted'
    BY <2>2, FrontRests DEF InterfaceChanges, lists
  <2> QED
    BY <1>2, <2>3, <2>4, <2>5, <2>6 DEF RInv
<1>5. CASE ~up
  <2>1. UNCHANGED <<rt, changed>> /\ events' \in 0 .. MaxEvents
    BY <1>1, <1>5 DEF InterfaceChanges, DoIfUp, Costs, TypeOK, World, RoutesAssumption
  <2>2. TypeOK'
    BY <1>1, <1>3, <2>1 DEF TypeOK, InterfaceChanges, system, lists, fronts
  <2>3. Fits(rt)' /\ (net = None => attached = {})' /\ (~up => Cleared(rt))'
    BY <1>1, <2>1 DEF InterfaceChanges, system, World, Fits, Tracked, Present, Cleared
  <2>4. Defaulted' /\ Pinned'
    BY <1>5 DEF InterfaceChanges, Defaulted, Pinned, Quiet
  <2>5. Fronted'
    BY <2>1, FrontRests DEF InterfaceChanges, lists
  <2> QED
    BY <1>2, <2>2, <2>3, <2>4, <2>5 DEF RInv
<1> QED
  BY <1>4, <1>5

LEMMA TimerFiresKeeps ==
  ASSUME RoutesAssumption, RInv, TimerFires
  PROVE  RInv'
<1>1. TypeOK /\ World /\ Fits(rt) /\ (~up => Cleared(rt))
  BY InvWorld DEF RInv
<1>2. Dialing'
  BY DEF RInv, Dialing, TimerFires, dials
<1>3. fpc' \in [Fronts -> {"idle", "begin", "list", "look", "apply"}] /\ fpc'["timer"] = "begin"
  BY <1>1 DEF TypeOK, TimerFires, Fronts
<1>4. changed => changed'
  <2>1. CASE up
    BY <1>1, <2>1, ReassertMends DEF TimerFires, DoIfUp, Mended
  <2>2. CASE ~up
    BY <2>2 DEF TimerFires, DoIfUp
  <2> QED
    BY <2>1, <2>2
<1>5. Fronted'
  <2>1. Informed("timer")'
    BY <1>3 DEF Informed
  <2>2. (hidden => changed)' /\ (front => up)'
    BY <1>4 DEF RInv, Fronted, TimerFires, system, lists
  <2> QED
    BY <2>1, <2>2 DEF Fronted, Fronts
<1>6. CASE up
  <2>1. Mended(known)
    BY <1>1, <1>6, ReassertMends DEF TimerFires, DoIfUp
  <2>2. /\ Fits(rt)' /\ (net = None => attached = {})' /\ (~up => Cleared(rt))'
        /\ Defaulted' /\ Pinned'
        /\ (rt \in Tables /\ rt.bad = {} /\ ~rt.touched)'
    BY <1>1, <1>6, <2>1, RoutesMended DEF TimerFires
  <2>3. TypeOK'
    BY <1>1, <1>3, <2>1, <2>2 DEF TypeOK, TimerFires, system, lists, dials, Mended
  <2> QED
    BY <1>2, <1>5, <2>2, <2>3 DEF RInv
<1>7. CASE ~up
  <2>1. UNCHANGED <<rt, changed>> /\ events' \in 0 .. MaxEvents
    BY <1>1, <1>7 DEF TimerFires, DoIfUp, Costs, TypeOK, World, RoutesAssumption
  <2>2. TypeOK'
    <3>1. UNCHANGED <<system, known, up, fronting, front, denied, want, lists, dials>>
      BY DEF TimerFires
    <3>2. timer' \in BOOLEAN
      BY DEF TimerFires
    <3> QED
      BY <1>1, <1>3, <2>1, <3>1, <3>2 DEF TypeOK, system, lists, dials
  <2>3. Fits(rt)' /\ (net = None => attached = {})' /\ (~up => Cleared(rt))'
    BY <1>1, <2>1 DEF TimerFires, system, World, Fits, Tracked, Present, Cleared
  <2>4. Defaulted' /\ Pinned'
    BY <1>7 DEF TimerFires, Defaulted, Pinned, Quiet
  <2> QED
    BY <1>2, <1>5, <2>2, <2>3, <2>4 DEF RInv
<1> QED
  BY <1>6, <1>7

\* What neither works on the routes nor has to do with the VPN.
LEMMA RestKeeps ==
  ASSUME RInv, TypeOK', Dialing', hidden' => hidden,
         UNCHANGED <<system, rt, up, known, fronting, fronts, changed, timer>>
  PROVE  RInv'
<1>1. /\ Fits(rt)' /\ (net = None => attached = {})' /\ (~up => Cleared(rt))'
      /\ Defaulted' /\ Pinned'
  BY RoutesRest
<1>2. Fronted'
  BY FrontRests
<1> QED
  BY <1>1, <1>2 DEF RInv

\* The list of VPNs and its lock.
LEMMA ListsKeep ==
  ASSUME RoutesAssumption, RInv, OthersList \/ OthersListed \/ UpJams
  PROVE  RInv'
<1>1. TypeOK /\ Dialing
  BY DEF RInv
<1>2. UNCHANGED <<system, rt, up, known, fronting, fronts, hidden, changed, timer, dials>>
  BY DEF OthersList, OthersListed, UpJams
<1>3. events' \in 0 .. MaxEvents
  BY <1>1 DEF OthersList, OthersListed, UpJams, Costs, TypeOK, RoutesAssumption
<1>4. listing' \in BOOLEAN /\ jammed' \in BOOLEAN
  BY <1>1 DEF OthersList, OthersListed, UpJams, TypeOK
<1>5. TypeOK' /\ Dialing'
  BY <1>1, <1>2, <1>3, <1>4 DEF TypeOK, Dialing, system, fronts, dials
<1> QED
  BY <1>2, <1>5, RestKeeps

LEMMA TakeVpnMuKeeps ==
  ASSUME RoutesAssumption, RInv, NEW f \in Fronts, TakeVpnMu(f)
  PROVE  RInv'
<1>1. TypeOK /\ Fronted
  BY DEF RInv
<1>2. TypeOK'
  BY <1>1 DEF TypeOK, TakeVpnMu, system, lists, dials
<1>3. Dialing'
  BY DEF RInv, Dialing, TakeVpnMu, dials
<1>4. /\ Fits(rt)' /\ (net = None => attached = {})' /\ (~up => Cleared(rt))'
      /\ Defaulted' /\ Pinned'
  BY RoutesRest DEF TakeVpnMu
<1>5. ASSUME NEW g \in Fronts, Informed(g)
      PROVE  Informed(g)'
  BY <1>1, <1>5 DEF TypeOK, Informed, Right, TakeVpnMu, system
<1>6. Fronted'
  BY <1>1, <1>5 DEF Fronted, Right, TakeVpnMu, system, lists
<1> QED
  BY <1>2, <1>3, <1>4, <1>6 DEF RInv

LEMMA BeginFrontKeeps ==
  ASSUME RoutesAssumption, RInv, NEW f \in Fronts, BeginFront(f)
  PROVE  RInv'
<1>1. TypeOK
  BY DEF RInv
<1>2. TypeOK'
  BY <1>1 DEF TypeOK, BeginFront, system, lists, dials
<1>3. Dialing'
  BY DEF RInv, Dialing, BeginFront, dials
<1>4. /\ Fits(rt)' /\ (net = None => attached = {})' /\ (~up => Cleared(rt))'
      /\ Defaulted' /\ Pinned'
  BY RoutesRest DEF BeginFront
<1>5. Informed(f)'
  BY <1>1 DEF TypeOK, Informed, Right, BeginFront, system
<1>6. Fronted'
  BY <1>5 DEF RInv, Fronted, BeginFront, system, lists
<1> QED
  BY <1>2, <1>3, <1>4, <1>6 DEF RInv

\* A list that does not show what happened is old only until that is announced.
LEMMA ListVPNsKeeps ==
  ASSUME RoutesAssumption, RInv, NEW f \in Fronts, ListVPNs(f)
  PROVE  RInv'
<1>1. TypeOK /\ Fronted
  BY DEF RInv
<1>2. PICK connected \in {vpn, vpn /= hidden} :
         want' = [want EXCEPT ![f] = @ /\ connected]
  BY DEF ListVPNs
<1>3. connected \in BOOLEAN /\ (~hidden => connected = vpn)
  BY <1>1 DEF TypeOK
<1>4. want' \in [Fronts -> BOOLEAN] /\ fpc' = [fpc EXCEPT ![f] = "apply"]
  BY <1>1, <1>2 DEF TypeOK, ListVPNs
<1>5. TypeOK'
  BY <1>1, <1>4 DEF TypeOK, ListVPNs, system, lists, dials
<1>6. Dialing'
  BY DEF RInv, Dialing, ListVPNs, dials
<1>7. /\ Fits(rt)' /\ (net = None => attached = {})' /\ (~up => Cleared(rt))'
      /\ Defaulted' /\ Pinned'
  BY RoutesRest DEF ListVPNs
<1>8. (hidden => changed)' /\ (front => up)'
  BY <1>1 DEF Fronted, ListVPNs, system, lists
<1>9. Fronted'
  <2>1. CASE hidden
    BY <1>1, <1>8, <2>1 DEF Fronted, ListVPNs, system, lists
  <2>2. CASE front = (Right /\ ~denied) \/ changed \/ timer
    BY <1>8, <2>2 DEF Fronted, ListVPNs, system, Right
  <2>3. ASSUME ~hidden, NEW g \in Fronts, Informed(g)
        PROVE  Informed(g)'
    <3>1. CASE g # f
      BY <1>1, <1>2, <1>4, <2>3, <3>1 DEF TypeOK, Informed, Right, ListVPNs, system, lists
    <3>2. CASE g = f
      <4>1. fpc[f] = "look" /\ want[f] = (up /\ fronting)
        BY <2>3, <3>2 DEF Informed, ListVPNs
      <4>2. want'[f] = (want[f] /\ vpn)
        BY <1>1, <1>2, <1>3, <2>3 DEF TypeOK
      <4>3. fpc'[f] = "apply"
        BY <1>1, <1>4 DEF TypeOK
      <4> QED
        BY <3>2, <4>1, <4>2, <4>3 DEF Informed, Right, ListVPNs, system, lists
    <3> QED
      BY <3>1, <3>2
  <2> QED
    BY <1>1, <1>8, <2>1, <2>2, <2>3 DEF Fronted
<1> QED
  BY <1>5, <1>6, <1>7, <1>9 DEF RInv

\* What was read before is put right: that it is wrong is announced as soon as it
\* is acted upon.
LEMMA ApplyFrontKeeps ==
  ASSUME RoutesAssumption, RInv, NEW f \in Fronts, ApplyFront(f)
  PROVE  RInv'
<1>1. TypeOK /\ Fronted
  BY DEF RInv
<1> DEFINE wanted == up /\ want[f]
<1>2. \/ front' = wanted /\ denied' = (denied /\ ~wanted) /\ UNCHANGED events
      \/ wanted /\ ~front /\ Costs(1) /\ denied' = TRUE /\ front' = front
  BY DEF ApplyFront
<1>2a. /\ want[f] \in BOOLEAN /\ front' \in BOOLEAN /\ denied' \in BOOLEAN
       /\ changed' \in BOOLEAN /\ events' \in 0 .. MaxEvents
  <2>1. want[f] \in BOOLEAN /\ up \in BOOLEAN /\ front \in BOOLEAN /\ denied \in BOOLEAN
    BY <1>1 DEF TypeOK
  <2>2. front' \in BOOLEAN /\ denied' \in BOOLEAN
    BY <1>2, <2>1
  <2>3. changed' \in BOOLEAN
    BY <1>1 DEF TypeOK, ApplyFront
  <2>4. events' \in 0 .. MaxEvents
    BY <1>1, <1>2 DEF TypeOK, Costs, RoutesAssumption
  <2> QED
    BY <2>1, <2>2, <2>3, <2>4
<1>3. TypeOK'
  BY <1>1, <1>2a DEF TypeOK, ApplyFront, system, lists, dials
<1>4. Dialing'
  BY DEF RInv, Dialing, ApplyFront, dials
<1>5. /\ Fits(rt)' /\ (net = None => attached = {})' /\ (~up => Cleared(rt))'
      /\ Defaulted' /\ Pinned'
  BY RoutesRest DEF ApplyFront
<1>6. (hidden => changed)' /\ (front => up)'
  BY <1>1 DEF Fronted, ApplyFront, system, lists
<1>7. Fronted'
  <2>1. CASE changed \/ timer \/ front' # front
    BY <1>6, <2>1 DEF Fronted, ApplyFront
  <2>2. CASE front = (Right /\ ~denied) /\ front' = front
    BY <1>2, <1>2a, <1>6, <2>2 DEF Fronted, ApplyFront, Right, system
  <2>3. CASE Informed(f)
    BY <1>2, <1>2a, <1>6, <2>3 DEF Fronted, Informed, ApplyFront, Right, system
  <2>4. ASSUME NEW g \in Fronts \ {f}, Informed(g)
        PROVE  Informed(g)'
    BY <1>1, <2>4 DEF TypeOK, Informed, ApplyFront, Right, system, lists
  <2> QED
    BY <1>1, <1>6, <2>1, <2>2, <2>3, <2>4 DEF Fronted
<1> QED
  BY <1>3, <1>4, <1>5, <1>7 DEF RInv

LEMMA UpKeeps ==
  ASSUME RoutesAssumption, RInv, NEW mayFront \in BOOLEAN, NEW dns \in BOOLEAN,
         Up(mayFront, dns)
  PROVE  RInv'
<1>1. TypeOK /\ World /\ Fits(rt) /\ Fronted
  BY InvWorld DEF RInv
<1>2. NoDefault(rt)
  BY DEF RInv, Up, Fits, Tracked, Cleared, NoDefault
<1>3. /\ Calm(rt')
      /\ changed' \in BOOLEAN /\ (changed => changed')
      /\ events' \in 0 .. MaxEvents
      /\ dns => Mended(known)
      /\ ~dns => Cleared(rt')
  BY <1>1, <1>2, BringUpMends DEF Up
<1>4. fpc' \in [Fronts -> {"idle", "begin", "list", "look", "apply"}] /\ fpc'["up"] = "begin"
  BY <1>1 DEF TypeOK, Up, Fronts
<1>5. /\ Fits(rt)' /\ (net = None => attached = {})' /\ (~up => Cleared(rt))'
      /\ Defaulted' /\ Pinned'
      /\ (rt \in Tables /\ rt.bad = {} /\ ~rt.touched)'
  <2>1. CASE dns
    BY <1>1, <1>3, <2>1, RoutesMended DEF Up
  <2>2. CASE ~dns
    BY <1>1, <1>3, <2>2, RoutesCleared DEF Up
  <2> QED
    BY <2>1, <2>2
<1>6. TypeOK'
  BY <1>1, <1>3, <1>4, <1>5 DEF TypeOK, Up, system, lists, dials
<1>7. Dialing'
  BY DEF RInv, Dialing, Up, dials
<1>8. Fronted'
  <2>1. Informed("up")'
    BY <1>4 DEF Informed
  <2>2. (hidden => changed)' /\ (front => up)'
    BY <1>1, <1>3 DEF Fronted, Up, system, lists
  <2> QED
    BY <2>1, <2>2 DEF Fronted, Fronts
<1> QED
  BY <1>5, <1>6, <1>7, <1>8 DEF RInv

LEMMA DownKeeps ==
  ASSUME RoutesAssumption, RInv, Down
  PROVE  RInv'
<1>1. TypeOK /\ World /\ Fits(rt) /\ Fronted
  BY InvWorld DEF RInv
<1>2. /\ Calm(rt') /\ Cleared(rt')
      /\ changed' \in BOOLEAN /\ (changed => changed')
      /\ events' \in 0 .. MaxEvents
  BY <1>1, ClearAllMends DEF Down
<1>3. /\ Fits(rt)' /\ (net = None => attached = {})' /\ (~up => Cleared(rt))'
      /\ Defaulted' /\ Pinned'
      /\ (rt \in Tables /\ rt.bad = {} /\ ~rt.touched)'
  BY <1>1, <1>2, RoutesCleared DEF Down
<1>4. TypeOK'
  BY <1>1, <1>2, <1>3 DEF TypeOK, Down, system, lists, dials
<1>5. Dialing'
  BY DEF RInv, Dialing, Down, dials
<1>6. Fronted'
  BY <1>1, <1>2 DEF Fronted, Right, Down, system, lists
<1> QED
  BY <1>3, <1>4, <1>5, <1>6 DEF RInv

\* healRoutes, whoever asks for it.
LEMMA HealRoutesKeeps ==
  ASSUME RoutesAssumption, RInv, NEW cost \in {0, 1}, HealRoutes(cost),
         UNCHANGED <<system, known, up, fronting, fronts, listing, timer, dead>>,
         dpc' \in [Dials -> {"idle", "first", "heal", "again"}],
         host' \in [Dials -> Bypass \cup {None}], heals' \in [Dials -> BOOLEAN], Dialing'
  PROVE  RInv'
<1>1. TypeOK /\ World /\ Fits(rt)
  BY InvWorld DEF RInv
<1>2. hidden' \in BOOLEAN /\ jammed' \in BOOLEAN /\ (hidden' => hidden)
  BY <1>1 DEF HealRoutes, TypeOK, VpnMuTaken
<1>3. CASE up /\ ~cooling
  <2>1. Mended(known)
    BY <1>1, <1>3, HealMends DEF HealRoutes, DoIfUp
  <2>2. /\ Fits(rt)' /\ (net = None => attached = {})' /\ (~up => Cleared(rt))'
        /\ Defaulted' /\ Pinned'
        /\ (rt \in Tables /\ rt.bad = {} /\ ~rt.touched)'
    BY <1>1, <1>3, <2>1, RoutesMended
  <2>3. TypeOK'
    BY <1>1, <1>2, <2>1, <2>2 DEF TypeOK, HealRoutes, system, fronts, Mended
  <2>4. Fronted'
    BY <1>2, <2>1, FrontRests DEF Mended
  <2> QED
    BY <2>2, <2>3, <2>4 DEF RInv
<1>4. CASE ~(up /\ ~cooling)
  <2>1. UNCHANGED <<rt, changed>> /\ events' \in 0 .. MaxEvents
    BY <1>1, <1>4 DEF HealRoutes, DoIfUp, Costs, TypeOK, World, RoutesAssumption
  <2>2. TypeOK'
    BY <1>1, <1>2, <2>1 DEF TypeOK, HealRoutes, system, fronts
  <2> QED
    BY <1>2, <2>1, <2>2, RestKeeps
<1> QED
  BY <1>3, <1>4

LEMMA DialEndsKeeps ==
  ASSUME RInv, NEW d \in Dials, DialEnds(d)
  PROVE  /\ dpc' \in [Dials -> {"idle", "first", "heal", "again"}]
         /\ host' \in [Dials -> Bypass \cup {None}] /\ heals' \in [Dials -> BOOLEAN]
         /\ Dialing'
  BY DEF RInv, TypeOK, Dialing, DialEnds

LEMMA DialsKeep ==
  ASSUME RoutesAssumption, RInv, NEW d \in Dials,
         \/ \E h \in Bypass : DialBegins(d, h)
         \/ DialSucceeds(d) \/ DialFails(d) \/ DialHeals(d) \/ DialFailsAgain(d)
  PROVE  RInv'
<1>1. TypeOK /\ Dialing
  BY DEF RInv
<1>2. ASSUME NEW h \in Bypass, DialBegins(d, h)
      PROVE  RInv'
  <2>1. TypeOK'
    BY <1>1, <1>2 DEF TypeOK, DialBegins, system, lists, fronts
  <2>2. Dialing'
    BY <1>1, <1>2 DEF TypeOK, Dialing, DialBegins
  <2> QED
    BY <1>2, <2>1, <2>2, RestKeeps DEF DialBegins, lists
<1>3. CASE DialSucceeds(d)
  <2>1. TypeOK' /\ Dialing'
    BY <1>1, <1>3, DialEndsKeeps DEF TypeOK, DialSucceeds, system, lists, fronts
  <2>2. UNCHANGED <<system, rt, up, known, fronting, fronts, hidden, changed, timer>>
    BY <1>3 DEF DialSucceeds, lists
  <2> QED
    BY <2>1, <2>2, RestKeeps
<1>4. CASE DialFails(d)
  <2>1. DialEnds(d) \/ (dpc' = [dpc EXCEPT ![d] = "heal"] /\ UNCHANGED <<host, heals>>)
    BY <1>4 DEF DialFails
  <2>2. /\ dpc' \in [Dials -> {"idle", "first", "heal", "again"}]
        /\ host' \in [Dials -> Bypass \cup {None}] /\ heals' \in [Dials -> BOOLEAN]
        /\ Dialing'
    BY <1>1, <1>4, <2>1, DialEndsKeeps DEF TypeOK, Dialing, DialFails
  <2>3. TypeOK'
    BY <1>1, <1>4, <2>2 DEF TypeOK, DialFails, system, lists, fronts
  <2>4. UNCHANGED <<system, rt, up, known, fronting, fronts, hidden, changed, timer>>
    BY <1>4 DEF DialFails, lists
  <2> QED
    BY <2>2, <2>3, <2>4, RestKeeps
<1>5. CASE DialHeals(d)
  <2>1. \/ DialEnds(d)
        \/ dpc' \in {dpc, [dpc EXCEPT ![d] = "again"]} /\ UNCHANGED <<host, heals>>
    BY <1>1, <1>5 DEF DialHeals, TypeOK
  <2>2. /\ dpc' \in [Dials -> {"idle", "first", "heal", "again"}]
        /\ host' \in [Dials -> Bypass \cup {None}] /\ heals' \in [Dials -> BOOLEAN]
        /\ Dialing'
    BY <1>1, <1>5, <2>1, DialEndsKeeps DEF TypeOK, Dialing, DialHeals
  <2> QED
    BY <1>5, <2>2, HealRoutesKeeps DEF DialHeals
<1>6. CASE DialFailsAgain(d)
  <2>1. host[d] \in Bypass
    BY <1>1, <1>6 DEF Dialing, DialFailsAgain
  <2>2. TypeOK' /\ Dialing'
    BY <1>1, <1>6, <2>1, DialEndsKeeps DEF TypeOK, DialFailsAgain, system, lists, fronts
  <2> QED
    BY <1>6, <2>2, RestKeeps DEF DialFailsAgain, lists
<1> QED
  BY <1>2, <1>3, <1>4, <1>5, <1>6

\* The clock, and waking up.
LEMMA TimeKeeps ==
  ASSUME RoutesAssumption, RInv,
         Wake \/ CoolingEnds \/ \E h \in Bypass : DeadExpires(h)
  PROVE  RInv'
<1>1. TypeOK /\ Dialing
  BY DEF RInv
<1>2. CASE Wake
  <2>1. /\ dpc' \in [Dials -> {"idle", "first", "heal", "again"}]
        /\ host' \in [Dials -> Bypass \cup {None}] /\ heals' \in [Dials -> BOOLEAN]
        /\ Dialing'
    BY <1>1, <1>2 DEF TypeOK, Dialing, Wake
  <2> QED
    BY <1>2, <2>1, HealRoutesKeeps DEF Wake
<1>3. CASE CoolingEnds
  <2>1. TypeOK'
    <3>1. cooling' \in BOOLEAN
      BY <1>3 DEF CoolingEnds
    <3>2. UNCHANGED <<system, known, rt, up, fronting, fronts, lists, changed, timer, dpc, host,
                      heals, dead, events>>
      BY <1>3 DEF CoolingEnds
    <3> QED
      BY <1>1, <3>1, <3>2 DEF TypeOK, system, lists, fronts
  <2>2. Dialing'
    BY <1>1, <1>3 DEF Dialing, CoolingEnds
  <2> QED
    BY <1>3, <2>1, <2>2, RestKeeps DEF CoolingEnds, lists
<1>4. ASSUME NEW h \in Bypass, DeadExpires(h)
      PROVE  RInv'
  <2>1. TypeOK' /\ Dialing'
    BY <1>1, <1>4 DEF TypeOK, Dialing, DeadExpires, system, lists, fronts
  <2> QED
    BY <1>4, <2>1, RestKeeps DEF DeadExpires, lists
<1> QED
  BY <1>2, <1>3, <1>4

-----------------------------------------------------------------------------
LEMMA Begins ==
  ASSUME RoutesAssumption, Init
  PROVE  RInv
<1>1. /\ Empty \in Tables /\ Empty.bad = {} /\ ~Empty.touched
      /\ Tracked(Empty) /\ Present(Empty) /\ Cleared(Empty)
  <2>1. Empty.bypass = [h \in Bypass |-> None] /\ Empty.at = [h \in Bypass |-> None]
    BY DEF Empty
  <2>2. Empty.through = [i \in Ifaces |-> None] /\ Empty.scoped = None
    BY DEF Empty
  <2>3. Empty \in Tables /\ Empty.bad = {} /\ ~Empty.touched
    BY DEF Empty, Tables
  <2> QED
    BY <2>1, <2>2, <2>3 DEF Tracked, Present, Cleared
<1>2. TypeOK
  <2>1. rt \in Tables /\ rt.bad = {} /\ ~rt.touched
    BY <1>1 DEF Init
  <2>2. attached \subseteq Gateways /\ net \in attached \cup {None} /\ known \in Ifaces \cup {None}
    BY DEF Init, RoutesAssumption, Ifaces
  <2>3. /\ vpn \in BOOLEAN /\ hidden \in BOOLEAN /\ up \in BOOLEAN
        /\ fronting \in BOOLEAN /\ front \in BOOLEAN /\ denied \in BOOLEAN
        /\ listing \in BOOLEAN /\ jammed \in BOOLEAN
        /\ changed \in BOOLEAN /\ timer \in BOOLEAN
    BY DEF Init
  <2>4. /\ fpc \in [Fronts -> {"idle", "begin", "list", "look", "apply"}]
        /\ want \in [Fronts -> BOOLEAN]
    BY DEF Init
  <2>5. /\ dpc \in [Dials -> {"idle", "first", "heal", "again"}]
        /\ host \in [Dials -> Bypass \cup {None}]
        /\ heals \in [Dials -> BOOLEAN]
    BY DEF Init
  <2>6. dead \subseteq Bypass /\ cooling \in BOOLEAN
    BY DEF Init
  <2>7. events \in 0 .. MaxEvents
    BY DEF Init, RoutesAssumption
  <2> QED
    BY <2>1, <2>2, <2>3, <2>4, <2>5, <2>6, <2>7 DEF TypeOK
<1>3. Fits(rt) /\ Cleared(rt)
  BY <1>1 DEF Init, Fits
<1> QED
  BY <1>2, <1>3
     DEF RInv, Init, Defaulted, Pinned, Quiet, Dialing, Fronted, Right, RoutesAssumption

LEMMA Keeps ==
  ASSUME RoutesAssumption, RInv, [Next]_vars
  PROVE  RInv'
<1>1. CASE UNCHANGED vars
  <2>1. TypeOK' /\ Dialing'
    BY <1>1 DEF RInv, TypeOK, Dialing, vars, system, lists, fronts, dials
  <2> QED
    BY <1>1, <2>1, RestKeeps DEF vars, lists
<1>2. CASE Next
  BY <1>2, NetworksChangeKeeps, VpnChangesKeeps, SleepKeeps, AnnounceKeeps,
     InterfaceChangesKeeps, TimerFiresKeeps, BeginFrontKeeps, TakeVpnMuKeeps,
     ListVPNsKeeps, ApplyFrontKeeps, ListsKeep, UpKeeps, DownKeeps, DialsKeep, TimeKeeps
     DEF Next
<1> QED
  BY <1>1, <1>2

LEMMA Always == Spec => []RInv
<1>1. Init => RInv
  BY RoutesAssumption, Begins
<1>2. RInv /\ [Next]_vars => RInv'
  BY RoutesAssumption, Keeps
<1> QED
  BY <1>1, <1>2, PTL DEF Spec

\* Every variable keeps its type; the table of routes and the groups, which each of
\* the platform's operations takes apart and puts together again, keep theirs.
THEOREM TypeCorrect == Spec => []TypeOK
<1>1. RInv => TypeOK
  BY DEF RInv
<1> QED
  BY <1>1, Always, PTL

\* When the tunnel is gone none of its routes through a gateway is left, for any
\* networks, first hops and failures of route(8): whatever was added is known to
\* p.pins or p.scoped until it is deleted (downLocked, clearScopedDefault).
THEOREM NothingIsLeft == Spec => []NothingLeft
<1>1. ASSUME RInv, ~up
      PROVE  rt.at = Empty.at /\ rt.through = Empty.through
  <2>1. rt \in Tables /\ Tracked(rt) /\ rt.bypass = [h \in Bypass |-> None] /\ rt.scoped = None
    BY <1>1 DEF RInv, Fits, Cleared, Empty
  <2>2. rt.at = [h \in Bypass |-> None]
    BY <2>1 DEF Tables, Tracked
  <2>3. rt.through = [i \in Ifaces |-> None]
    BY <2>1 DEF Tables, Tracked
  <2> QED
    BY <2>2, <2>3 DEF Empty
<1>2. RInv => NothingLeft
  BY <1>1 DEF NothingLeft
<1> QED
  BY <1>2, Always, PTL

\* Once everything announced was acted upon and ifMon agrees with the table, each
\* first hop goes past the tunnel, save those route(8) refused (pinBypassLocked,
\* addScopedDefault, reassertRoutes).
THEOREM FirstHopsKeptOut == Spec => []KeptOut
<1>1. RInv => KeptOut
  BY DEF RInv, KeptOut, AtRest, Current, Defaulted, Pinned, Quiet, HasDefault, KeepsOut
<1> QED
  BY <1>1, Always, PTL

\* What frontOfVPNs found out without the lock may be old when it acts upon it; it
\* is put right before the announcements come to rest.
THEOREM VpnsAreFollowed == Spec => []VpnsFollowed
<1>1. RInv => VpnsFollowed
  BY DEF RInv, VpnsFollowed, AtRest, Fronted, Informed, Right
<1> QED
  BY <1>1, Always, PTL
=============================================================================
