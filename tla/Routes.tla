------------------------------- MODULE Routes -------------------------------
(***************************************************************************)
(* The routes the macOS platform keeps while the tunnel is up              *)
(* (go/tun2socks/internal/daemon: platform_darwin.go,                      *)
(* pinned_routes_darwin.go, scoped_route_darwin.go, vpns_darwin.go), and   *)
(* the dials that repair them (direct_darwin.go, deadhosts.go):            *)
(*                                                                         *)
(*   - a host route through the physical gateway for each first hop, which *)
(*     keeps it out of the tunnel (p.pins, group "bypass"),                *)
(*   - a default route scoped to the physical interface (p.scoped),        *)
(*   - in front of other VPNs, routes into the tunnel (group "vpns").      *)
(*                                                                         *)
(* The system has its own view: networks come and go and take their routes *)
(* with them, and after a sleep a route can be in the table and lead       *)
(* nowhere.  It announces each change of the table, the daemon's own too:  *)
(* netMon then starts a timer of two seconds, and ifMon follows the        *)
(* default interface, later than the table.                                *)
(*                                                                         *)
(* What holds p.mu from beginning to end is one action; so is VPNs, which  *)
(* holds p.vpnMu and takes p.mu to look at the system, unless something    *)
(* comes in between.  What comes then, while p.mu is held, and asks for    *)
(* p.vpnMu, waits for ever with both locks taken (jammed).                 *)
(*                                                                         *)
(* Left out: IPv6, which is never pinned; the tunnel's route to its own    *)
(* subnet, which goes with it; scoped defaults of other interfaces; a      *)
(* default route that is another VPN's; DNS, which SystemDNS has; dials to *)
(* anything but a first hop; the count of dials that failed after a        *)
(* repair.  There is one other VPN, and the list of VPNs is a yes or no.   *)
(***************************************************************************)
EXTENDS Integers

CONSTANTS
    Bypass,     \* first hops, p.bypass4
    Inside,     \* those within the other VPN's network
    Gateways,   \* of the networks
    Home,       \* the one it begins with
    Interface,  \* a gateway's
    VpnIface,   \* the other VPN's
    Dials,
    MaxEvents,  \* from outside: networks, the VPN, sleeps, Up, others' VPNs(), failures
    None

ASSUME RoutesAssumption ==
    /\ Inside \subseteq Bypass /\ "scoped" \notin Bypass
    /\ Interface \in [Gateways -> STRING]
    /\ VpnIface \notin {Interface[g] : g \in Gateways}
    /\ Home \in Gateways
    /\ MaxEvents \in Nat
    /\ None \notin Gateways \cup Bypass

Ifaces == {Interface[g] : g \in Gateways}
Fronts == {"timer", "up"}       \* who runs frontOfVPNs

VARIABLES
    attached,   \* the networks there are
    net,        \* the default route's gateway
    known,      \* ifMon's default interface
    vpn,        \* the other VPN is connected
    hidden,     \* it came or went, and a cached list of VPNs may not show it
    rt,         \* the routes, see Empty
    up,         \* the tunnel is; p.device, p.pins
    fronting,   \* p.frontVPNs
    front,      \* group "vpns": the tunnel is in front of the VPN
    denied,     \* history: route(8) failed to add that when last asked
    changed,    \* a change of the table is to be announced
    timer,      \* the two seconds run
    fpc,        \* frontOfVPNs: where it is
    want,       \* and what it wants
    listing,    \* a call of VPNs for a connection or for the app has p.vpnMu
    jammed,     \* healRoutes or Up has p.mu, waits for p.vpnMu, and for ever
    dpc, host, heals,   \* a dial: where it is, to where, may it repair
    dead,       \* direct.dead
    cooling,    \* within three seconds of a heal
    events      \* counted up to MaxEvents

system == <<attached, net, vpn>>
fronts == <<fpc, want, front, denied>>
lists == <<hidden, listing, jammed>>
dials == <<dpc, host, heals, dead, cooling>>
vars == <<system, known, rt, up, fronting, fronts, lists, changed, timer, dials, events>>

(***************************************************************************)
(* at: the gateway of a host's route in the system's table                 *)
(* bypass: what p.pins has of it                                           *)
(* through, scoped: the same for the scoped default, per interface and     *)
(* p.scoped                                                                *)
(* numb: routes that are in the table and lead nowhere                     *)
(* refused: history: what route(8) failed to add when last asked           *)
(* bad, touched: what it fails to add at this call, and whether it changed *)
(* anything, if only by deleting a route and adding it again               *)
(***************************************************************************)
Empty == [at |-> [h \in Bypass |-> None], bypass |-> [h \in Bypass |-> None],
          through |-> [i \in Ifaces |-> None], scoped |-> None, numb |-> {}, refused |-> {},
          bad |-> {}, touched |-> FALSE]

Tables ==
    [at : [Bypass -> Gateways \cup {None}], bypass : [Bypass -> Gateways \cup {None}],
     through : [Ifaces -> Gateways \cup {None}], scoped : Gateways \cup {None},
     numb : SUBSET (Bypass \cup Ifaces), refused : SUBSET (Bypass \cup {"scoped"}),
     bad : SUBSET (Bypass \cup {"scoped"}), touched : BOOLEAN]

TypeOK ==
    /\ attached \subseteq Gateways
    /\ net \in attached \cup {None}
    /\ known \in Ifaces \cup {None}
    /\ vpn \in BOOLEAN /\ hidden \in BOOLEAN /\ up \in BOOLEAN
    /\ fronting \in BOOLEAN /\ front \in BOOLEAN /\ denied \in BOOLEAN
    /\ listing \in BOOLEAN /\ jammed \in BOOLEAN
    /\ rt \in Tables /\ rt.bad = {} /\ ~rt.touched
    /\ changed \in BOOLEAN /\ timer \in BOOLEAN
    /\ fpc \in [Fronts -> {"idle", "begin", "list", "look", "apply"}]
    /\ want \in [Fronts -> BOOLEAN]
    /\ dpc \in [Dials -> {"idle", "first", "heal", "again"}]
    /\ host \in [Dials -> Bypass \cup {None}]
    /\ heals \in [Dials -> BOOLEAN]
    /\ dead \subseteq Bypass
    /\ cooling \in BOOLEAN
    /\ events \in 0 .. MaxEvents

Init ==
    /\ net = Home /\ attached = {Home}
    /\ known = Interface[Home]
    /\ vpn \in BOOLEAN /\ hidden = FALSE
    /\ rt = Empty
    /\ up = FALSE /\ fronting = FALSE /\ front = FALSE /\ denied = FALSE
    /\ listing = FALSE /\ jammed = FALSE
    /\ changed = FALSE /\ timer = FALSE
    /\ fpc = [f \in Fronts |-> "idle"] /\ want = [f \in Fronts |-> FALSE]
    /\ dpc = [d \in Dials |-> "idle"] /\ host = [d \in Dials |-> None]
    /\ heals = [d \in Dials |-> FALSE]
    /\ dead = {} /\ cooling = FALSE
    /\ events = 0

-----------------------------------------------------------------------------
(***************************************************************************)
(* route(8).  An add that finds a route replaces it.                       *)
(***************************************************************************)
Addable(r, x, g) == g \in attached /\ x \notin r.bad

AddPins(r, pins) ==
    LET asked == {h \in Bypass : pins[h] # None}
        added == {h \in asked : Addable(r, h, pins[h])}
    IN [r EXCEPT !.at = [h \in Bypass |-> IF h \in added THEN pins[h] ELSE r.at[h]],
                 !.numb = @ \ added,
                 !.refused = (@ \ asked) \cup (asked \cap r.bad),
                 !.touched = @ \/ added # {}]

DeletePins(r, pins) ==
    LET gone == {h \in Bypass : pins[h] # None /\ r.at[h] = pins[h]}
    IN [r EXCEPT !.at = [h \in Bypass |-> IF h \in gone THEN None ELSE r.at[h]],
                 !.numb = @ \ gone, !.touched = @ \/ gone # {}]

\* ensure: a pin that is in the table, by its looks, is left alone
EnsurePins(r) ==
    AddPins(r, [h \in Bypass |-> IF r.at[h] = None THEN r.bypass[h] ELSE None])

\* Faulty variants: the old routes stay; what is the same is set anew.
SetViaAdding(r, pins) ==
    IF pins = r.bypass THEN EnsurePins(r)
    ELSE [AddPins(r, pins) EXCEPT
             !.bypass = [h \in Bypass |-> IF Addable(r, h, pins[h]) THEN pins[h] ELSE None]]

SetViaAnew(r, pins) ==
    [AddPins(DeletePins(r, r.bypass), pins) EXCEPT
        !.bypass = [h \in Bypass |-> IF Addable(r, h, pins[h]) THEN pins[h] ELSE None]]

SetVia(r, pins) ==
    IF pins = r.bypass THEN EnsurePins(r)
    ELSE [AddPins(DeletePins(r, r.bypass), pins) EXCEPT
             !.bypass = [h \in Bypass |-> IF Addable(r, h, pins[h]) THEN pins[h] ELSE None]]

\* one that fails to come back stays in the group
RefreshVia(r) == AddPins(DeletePins(r, r.bypass), r.bypass)

AddDefault(r, g) ==
    LET done == Addable(r, "scoped", g)
    IN [r EXCEPT !.through[Interface[g]] = IF done THEN g ELSE @,
                 !.numb = IF done THEN @ \ {Interface[g]} ELSE @,
                 !.refused = (@ \ {"scoped"}) \cup ({"scoped"} \cap r.bad),
                 !.touched = @ \/ done]

RemoveScoped(r) ==
    IF r.scoped = None THEN r
    ELSE LET i == Interface[r.scoped]
             there == r.through[i] = r.scoped
         IN [r EXCEPT !.through[i] = IF there THEN None ELSE @,
                      !.numb = IF there THEN @ \ {i} ELSE @,
                      !.scoped = None, !.touched = @ \/ there]

\* nothing to remove later where there is no gateway, or a route already
AddScoped(r) ==
    IF net = None THEN [r EXCEPT !.scoped = None]
    ELSE IF r.through[Interface[net]] # None THEN [r EXCEPT !.scoped = None]
    ELSE [AddDefault(r, net) EXCEPT !.scoped = IF Addable(r, "scoped", net) THEN net ELSE None]

EnsureScoped(r) ==
    IF r.through[Interface[r.scoped]] = r.scoped THEN r ELSE AddDefault(r, r.scoped)

\* routetable's Lookup, the tunnel's own routes left out
LeavesBy(r, h) ==
    IF r.at[h] # None THEN Interface[r.at[h]]
    ELSE IF h \in Inside /\ vpn THEN VpnIface
    ELSE Interface[net]

\* pinBypassLocked, with i for ifMon's interface
PinBypass(r, i) ==
    IF net = None THEN r
    ELSE SetVia(r, [h \in Bypass |-> IF LeavesBy(r, h) = i THEN net ELSE None])

BringUp(r) == PinBypass(AddScoped(r), known)

\* Faulty variant: only what is missing is added.
HealMissing(r) == PinBypass(EnsurePins(AddScoped(RemoveScoped(r))), known)

Heal(r) == PinBypass(RefreshVia(AddScoped(RemoveScoped(r))), known)

Reassert(r) ==
    LET s == IF r.scoped = None THEN AddScoped(r)
             ELSE IF r.scoped = net THEN EnsureScoped(r)
             ELSE AddScoped(RemoveScoped(r))
    IN PinBypass(EnsurePins(s), known)

ClearAll(r) ==
    [DeletePins(RemoveScoped(r), r.bypass) EXCEPT !.bypass = Empty.bypass, !.refused = {}]

(***************************************************************************)
(* p.mu is taken and one of the above is done; route(8) may fail to add    *)
(* some of it.  Together with the step itself it costs so many events.     *)
(***************************************************************************)
Do(Op(_), cost) ==
  /\ ~jammed
  /\ \E bad \in SUBSET (Bypass \cup {"scoped"}) :
        LET r == Op([rt EXCEPT !.bad = bad])
        IN  /\ events' = events + cost + (IF bad = {} THEN 0 ELSE 1)
            /\ events' <= MaxEvents
            /\ rt' = [r EXCEPT !.bad = {}, !.touched = FALSE]
            /\ changed' = (changed \/ r.touched)

Costs(cost) == events' = events + cost /\ events' <= MaxEvents

\* nothing is done when there is no tunnel
DoIfUp(Op(_), cost) ==
    IF up THEN Do(Op, cost)
          ELSE ~jammed /\ Costs(cost) /\ UNCHANGED <<rt, changed>>

\* somebody has p.vpnMu and still needs p.mu
VpnMuTaken == listing \/ \E f \in Fronts : fpc[f] = "look"

-----------------------------------------------------------------------------
(***************************************************************************)
(* The system.  A network that goes takes the routes through it along.     *)
(***************************************************************************)
NetworksChange ==
    /\ events < MaxEvents /\ events' = events + 1
    /\ \E a \in SUBSET Gateways :
        /\ attached' = a
        /\ net' \in (IF a = {} THEN {None} ELSE a)
        /\ <<attached', net'>> # <<attached, net>>
        /\ LET kept(g) == IF g \in a THEN g ELSE None
               at == [h \in Bypass |-> kept(rt.at[h])]
               through == [i \in Ifaces |-> kept(rt.through[i])]
           IN rt' = [rt EXCEPT !.at = at, !.through = through,
                               !.numb = {x \in @ : IF x \in Bypass THEN at[x] # None
                                                                   ELSE through[x] # None}]
    /\ changed' = TRUE
    /\ UNCHANGED <<known, vpn, up, fronting, fronts, lists, timer, dials>>

VpnChanges ==
    /\ events < MaxEvents /\ events' = events + 1
    /\ vpn' = ~vpn /\ hidden' = TRUE /\ changed' = TRUE
    /\ UNCHANGED <<attached, net, known, rt, up, fronting, fronts, listing, jammed, timer, dials>>

\* a sleep: the routes are still there and lead nowhere
Sleep ==
    /\ events < MaxEvents /\ events' = events + 1
    /\ rt' = [rt EXCEPT !.numb = {h \in Bypass : rt.at[h] # None}
                                 \cup {i \in Ifaces : rt.through[i] # None}]
    /\ UNCHANGED <<system, known, up, fronting, fronts, lists, changed, timer, dials>>

-----------------------------------------------------------------------------
(***************************************************************************)
(* The callbacks of netMon and ifMon, and the timer                        *)
(***************************************************************************)
Announce ==
    /\ changed /\ ~VpnMuTaken /\ ~jammed
    /\ changed' = FALSE /\ timer' = TRUE /\ hidden' = FALSE
    /\ UNCHANGED <<system, known, rt, up, fronting, fronts, listing, jammed, dials, events>>

Current == IF net = None THEN None ELSE Interface[net]

\* Faulty variant: the bypasses are left as they are.
InterfaceChangesOnly ==
    /\ known # Current /\ ~jammed
    /\ known' = Current
    /\ dead' = {}
    /\ UNCHANGED <<system, rt, up, fronting, fronts, lists, changed, timer, dpc, host, heals,
                   cooling, events>>

InterfaceChanges ==
    /\ known # Current
    /\ known' = Current
    /\ dead' = {}
    /\ DoIfUp(LAMBDA r : PinBypass(r, Current), 0)
    /\ UNCHANGED <<system, up, fronting, fronts, lists, timer, dpc, host, heals, cooling>>

\* Faulty variant: the VPNs are only looked at when a route was restored.
TimerFiresRestoring ==
    /\ timer /\ fpc["timer"] = "idle"
    /\ timer' = FALSE
    /\ DoIfUp(Reassert, 0)
    /\ fpc' = [fpc EXCEPT !["timer"] = IF changed' THEN "begin" ELSE @]
    /\ UNCHANGED <<system, known, up, fronting, front, denied, want, lists, dials>>

\* reassertRoutes; frontOfVPNs follows it
TimerFires ==
    /\ timer /\ fpc["timer"] = "idle"
    /\ timer' = FALSE
    /\ DoIfUp(Reassert, 0)
    /\ fpc' = [fpc EXCEPT !["timer"] = "begin"]
    /\ UNCHANGED <<system, known, up, fronting, front, denied, want, lists, dials>>

\* frontOfVPNs takes p.mu twice, and the list is made in between
BeginFront(f) ==
    /\ fpc[f] = "begin" /\ ~jammed
    /\ want' = [want EXCEPT ![f] = fronting /\ up]
    /\ fpc' = [fpc EXCEPT ![f] = IF want'[f] THEN "list" ELSE "apply"]
    /\ UNCHANGED <<system, known, rt, up, fronting, front, denied, lists, changed, timer, dials,
                   events>>

TakeVpnMu(f) ==
    /\ fpc[f] = "list" /\ ~VpnMuTaken
    /\ fpc' = [fpc EXCEPT ![f] = "look"]
    /\ UNCHANGED <<system, known, rt, up, fronting, front, denied, want, lists, changed, timer,
                   dials, events>>

\* VPNs: a list of before may be cached until the change is announced
ListVPNs(f) ==
    /\ fpc[f] = "look" /\ ~jammed
    /\ fpc' = [fpc EXCEPT ![f] = "apply"]
    /\ \E connected \in {vpn, vpn /= hidden} : want' = [want EXCEPT ![f] = @ /\ connected]
    /\ UNCHANGED <<system, known, rt, up, fronting, front, denied, lists, changed, timer, dials,
                   events>>

\* the last part of frontOfVPNs only looks whether there is a tunnel, and
\* route(8) may fail to add what is not there yet
ApplyFront(f) ==
    /\ fpc[f] = "apply" /\ ~jammed
    /\ fpc' = [fpc EXCEPT ![f] = "idle"]
    /\ want' = [want EXCEPT ![f] = FALSE]
    /\ LET wanted == up /\ want[f]
       IN \/ front' = wanted /\ denied' = (denied /\ ~wanted) /\ UNCHANGED events
          \/ /\ wanted /\ ~front /\ Costs(1)
             /\ denied' = TRUE /\ UNCHANGED front
    /\ changed' = (changed \/ front' # front)
    /\ UNCHANGED <<system, known, rt, up, fronting, lists, timer, dials>>

\* VPNs for a connection, a dial into the VPN or the app
OthersList ==
    /\ ~VpnMuTaken /\ Costs(1)
    /\ listing' = TRUE
    /\ UNCHANGED <<system, known, rt, up, fronting, fronts, hidden, jammed, changed, timer,
                   dials>>

OthersListed ==
    /\ listing /\ ~jammed
    /\ listing' = FALSE
    /\ UNCHANGED <<system, known, rt, up, fronting, fronts, hidden, jammed, changed, timer, dials,
                   events>>

-----------------------------------------------------------------------------
(***************************************************************************)
(* Up and Down.  mayFront: what is captured lets the tunnel go in front of *)
(* the VPN.  Up starts frontOfVPNs and then sets the DNS, which may fail.  *)
(***************************************************************************)
Up(mayFront, dns) ==
    /\ ~up /\ known # None /\ fpc["up"] = "idle" /\ ~VpnMuTaken
    /\ up' = dns
    /\ fronting' = mayFront
    /\ Do(LAMBDA r : IF dns THEN BringUp(r) ELSE ClearAll(BringUp(r)), 1)
    /\ fpc' = [fpc EXCEPT !["up"] = "begin"]
    /\ hidden' = FALSE
    /\ UNCHANGED <<system, known, front, denied, want, listing, jammed, timer, dials>>

\* its invalidateVPNs waits before the first route is added
UpJams ==
    /\ ~up /\ known # None /\ fpc["up"] = "idle" /\ VpnMuTaken /\ ~jammed
    /\ jammed' = TRUE
    /\ Costs(1)
    /\ UNCHANGED <<system, known, rt, up, fronting, fronts, hidden, listing, changed, timer,
                   dials>>

Down ==
    /\ up
    /\ up' = FALSE /\ front' = FALSE /\ denied' = FALSE
    /\ Do(ClearAll, 0)
    /\ UNCHANGED <<system, known, fronting, fpc, want, lists, timer, dials>>

-----------------------------------------------------------------------------
(***************************************************************************)
(* A dial past the tunnel, bound to the physical interface                 *)
(***************************************************************************)
LeadsNowhere(h) ==
    \/ net = None
    \/ h \in rt.numb
    \/ rt.at[h] = None /\ Current \in rt.numb

Outcomes(h) == IF LeadsNowhere(h) THEN {"unreachable"} ELSE {"ok", "error"}

DialBegins(d, h) ==
    /\ dpc[d] = "idle"
    /\ dpc' = [dpc EXCEPT ![d] = "first"]
    /\ host' = [host EXCEPT ![d] = h]
    /\ heals' = [heals EXCEPT ![d] = h \notin dead]
    /\ UNCHANGED <<system, known, rt, up, fronting, fronts, lists, changed, timer, dead, cooling,
                   events>>

DialEnds(d) ==
    /\ dpc' = [dpc EXCEPT ![d] = "idle"]
    /\ host' = [host EXCEPT ![d] = None]
    /\ heals' = [heals EXCEPT ![d] = FALSE]

DialSucceeds(d) ==
    /\ dpc[d] \in {"first", "again"} /\ "ok" \in Outcomes(host[d])
    /\ DialEnds(d)
    /\ dead' = dead \ {host[d]}
    /\ UNCHANGED <<system, known, rt, up, fronting, fronts, lists, changed, timer, cooling, events>>

DialFails(d) ==
    /\ dpc[d] = "first"
    /\ \E o \in Outcomes(host[d]) \ {"ok"} :
        IF o = "unreachable" /\ heals[d]
        THEN dpc' = [dpc EXCEPT ![d] = "heal"] /\ UNCHANGED <<host, heals>>
        ELSE DialEnds(d)
    /\ UNCHANGED <<system, known, rt, up, fronting, fronts, lists, changed, timer, dead, cooling,
                   events>>

\* healRoutes: not twice within three seconds.  Its invalidateVPNs comes
\* after the routes, with p.mu still held.
HealRoutes(cost) ==
    /\ cooling' = TRUE
    /\ IF cooling
       THEN Costs(cost) /\ UNCHANGED <<rt, changed, hidden, jammed>>
       ELSE /\ DoIfUp(Heal, cost)
            /\ jammed' = (up /\ VpnMuTaken)
            /\ hidden' = (hidden /\ (up => VpnMuTaken))

DialHeals(d) ==
    /\ dpc[d] = "heal"
    /\ HealRoutes(0)
    /\ IF up /\ ~cooling
       THEN dpc' = [dpc EXCEPT ![d] = IF jammed' THEN @ ELSE "again"] /\ UNCHANGED <<host, heals>>
       ELSE DialEnds(d)
    /\ UNCHANGED <<system, known, up, fronting, fronts, listing, timer, dead>>

DialFailsAgain(d) ==
    /\ dpc[d] = "again"
    /\ dead' = dead \cup {host[d]}
    /\ DialEnds(d)
    /\ UNCHANGED <<system, known, rt, up, fronting, fronts, lists, changed, timer, cooling, events>>

\* the daemon saw the clock jump
Wake ==
    /\ HealRoutes(1)
    /\ UNCHANGED <<system, known, up, fronting, fronts, listing, timer, dpc, host, heals, dead>>

\* the three seconds, and the ten minutes of a dead host
CoolingEnds ==
    /\ cooling /\ cooling' = FALSE
    /\ UNCHANGED <<system, known, rt, up, fronting, fronts, lists, changed, timer, dpc, host, heals,
                   dead, events>>

DeadExpires(h) ==
    /\ h \in dead /\ dead' = dead \ {h}
    /\ UNCHANGED <<system, known, rt, up, fronting, fronts, lists, changed, timer, dpc, host, heals,
                   cooling, events>>

-----------------------------------------------------------------------------
Next ==
    \/ NetworksChange \/ VpnChanges \/ Sleep
    \/ Announce \/ InterfaceChanges \/ TimerFires
    \/ \E f \in Fronts : BeginFront(f) \/ TakeVpnMu(f) \/ ListVPNs(f) \/ ApplyFront(f)
    \/ OthersList \/ OthersListed
    \/ \E mayFront, dns \in BOOLEAN : Up(mayFront, dns)
    \/ UpJams \/ Down
    \/ \E d \in Dials : \/ \E h \in Bypass : DialBegins(d, h)
                        \/ DialSucceeds(d) \/ DialFails(d) \/ DialHeals(d) \/ DialFailsAgain(d)
    \/ Wake \/ CoolingEnds
    \/ \E h \in Bypass : DeadExpires(h)

Spec == Init /\ [][Next]_vars

(***************************************************************************)
(* What is announced is heard and acted upon, and time passes, for as long *)
(* as the locks are let go.  Each first hop is dialed again and again: a   *)
(* route whose chain is down retries while its manager is open, unless it  *)
(* waits in healRoutes for ever.                                           *)
(***************************************************************************)
Callbacks ==
    \/ Announce \/ InterfaceChanges \/ TimerFires
    \/ \E f \in Fronts : BeginFront(f) \/ TakeVpnMu(f) \/ ListVPNs(f) \/ ApplyFront(f)
    \/ OthersListed

Due ==
    /\ ~jammed
    /\ changed \/ known # Current \/ timer \/ listing \/ \E f \in Fronts : fpc[f] # "idle"

Expiries == CoolingEnds \/ \E h \in Bypass : DeadExpires(h)

\* weak fairness of Callbacks, with what enables them written out
FairSpec ==
    /\ Spec
    /\ []<>~Due \/ []<><<Callbacks>>_vars
    /\ WF_vars(Expiries)
    /\ \A h \in Bypass : <>[]jammed \/ []<><<\E d \in Dials : DialBegins(d, h)>>_vars

-----------------------------------------------------------------------------
(***************************************************************************)
(* Once the tunnel is gone so are its routes through a gateway, whatever   *)
(* the networks did and whichever of its adds failed: p.pins and p.scoped  *)
(* know of each of them until it is deleted.                               *)
(***************************************************************************)
NothingLeft == ~up => <<rt.at, rt.through>> = <<Empty.at, Empty.through>>

(***************************************************************************)
(* When nothing is left to announce and ifMon agrees with the table, each  *)
(* first hop has its way past the tunnel: through the gateway there is     *)
(* now, or through a VPN that has its network; the scoped default goes     *)
(* there as well.  What route(8) refused is tried again with the next      *)
(* change.                                                                 *)
(***************************************************************************)
AtRest == ~changed /\ ~timer /\ known = Current

KeptOut ==
    up /\ AtRest /\ net # None =>
        /\ \A h \in Bypass \ rt.refused :
              rt.at[h] = net \/ (h \in Inside /\ vpn /\ rt.at[h] = None)
        /\ "scoped" \in rt.refused \/ rt.through[Current] = net

(***************************************************************************)
(* The tunnel is in front of the VPN when it should be, the VPN is there   *)
(* and route(8) lets it, and lets its network go otherwise: what           *)
(* frontOfVPNs read before the tunnel was taken down and brought up again  *)
(* does not last.                                                          *)
(***************************************************************************)
VpnsFollowed ==
    AtRest /\ (\A f \in Fronts : fpc[f] = "idle") => front = (up /\ fronting /\ vpn /\ ~denied)

(***************************************************************************)
(* The daemon's own changes of the table, each announced like any other,   *)
(* do not keep setting it off: without one from outside it comes to rest,  *)
(* or hangs because its two locks were taken in both orders.               *)
(***************************************************************************)
Settles == <>[](AtRest \/ jammed)

(***************************************************************************)
(* After a sleep a first hop's route that leads nowhere is repaired, in    *)
(* spite of the three seconds between repairs and of the memory of dead    *)
(* hosts, which keeps a host from asking for one, unless the repair itself *)
(* hangs: in healRoutes while somebody is inside VPNs.                     *)
(***************************************************************************)
FirstHopComesBack == \A h \in Bypass : []<>(jammed \/ (up /\ net # None => h \notin rt.numb))
=============================================================================
