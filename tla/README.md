# vzhukh: formal models

Vzhukh is a VPN over SSH. An app (Flutter, `lib/`) holds servers, routes and
rules; on macOS a helper (`go/tun2socks/cmd/vzhukhd`) owns the tunnel: it
captures traffic, decides by rules which *route* a connection takes, and
carries it through a *chain* of SSH servers. This directory holds TLA+ models
of that program, the TLC runs that check them and the TLAPS proofs about them.

## Inventory

`lib/...` and `internal/...` (for `go/tun2socks/internal/...`) are paths in the
repository.

| Component | State | Operations | Talks to | Hard about it |
|---|---|---|---|---|
| `internal/chains` | per route: state, chain, the `up` and `kick` channels, quick retries, failures | run loop, nudge, reset, DialContext, Close | sshtun below, daemon above (OnWake) | four kinds of goroutines meet at one mutex; what follows an unlock interleaves |
| `internal/sshtun` | clients, `done`, `closed` | Dial, Probe, Close, drop | servers | a chain ends in four ways, and several see it |
| `internal/daemon/daemon.go` | state, config, chains, handler, bypass, routes | Start, SetRules, Stop, restart, Status | platform, chains, handler | everything under one lock that is held while chains close; restart sleeps without it |
| `internal/daemon/platform_darwin.go`, `direct_darwin.go`, `pinned_routes_darwin.go`, `scoped_route_darwin.go`, `vpns_darwin.go` | tunnel device, host routes, pins, dead hosts | Up, Down, heal, reassert, front of VPNs, stuck notice | the system | its own changes come back as events; the table, the interface monitor and what it remembers disagree for a while; two locks are taken in both orders; callbacks into the daemon from a route's own dial |
| `internal/daemon/dns_darwin.go` | every service's DNS setting, a backup on disk | Apply, Restore, Reassert | the system | both outlive the process, which may be killed between two commands |
| `internal/daemon/handler.go` | router, live connections, DNS answers, udpgw cooldown | SetRouter, handleTCP, UDP relays, answerDNS | chains, fakedns, flows, router | decisions that go stale between decide and track |
| `internal/fakedns` | two maps and a cursor | Assign, Lookup | handler | wraps round while addresses are in use |
| `internal/flows` | ring, active entries, per-key statistics | Open, Update, Close, SetRecording, Clear, Snapshot | handler | entries outlive the table they were opened in |
| `internal/router` | rules | Compile, Decide, BypassPrefixes | handler, daemon | first match wins, and the bypass ignores it |
| `internal/{sniff,udpgw,engine,tunnel,mobile,procinfo,routetable}` | little | parsing, framing, glue | | sequential |
| `lib/vpn` | tunnel, status, retry timer, heartbeat; macOS: a poll of the helper | connect, disconnect, reconnect, nudge | SSH, the helper | every `await` lets another call in |
| `lib/sync` | pairings, shares, offers, grants, denials | pair, sync, copy, forget | other devices | two devices sync with each other at once; replies are lost |
| `lib/{storage,ssh,remote,models,ui}`, `lib/daemon` | JSON values, sessions | read-change-write, scripts | | sequential |

What makes each correct:

- chains: no SSH connection outlives its owner; a caller is given the chain
  that is watched, never waits for ever, and is answered; a nudge is not lost;
  Close comes back and leaves nothing; a dead chain is noticed and replaced.
- daemon: the tunnel, its handler, its chains and its rules belong to one
  config whenever the lock is free; no Manager dials on behind its back; a
  tunnel that is said to run is up; every call returns.
- handler: a connection follows the rules that are in force, or is closed;
  replies come from the address the app wrote to.
- platform: first hops stay out of the tunnel and everything is taken back with it;
  a route that leads nowhere is repaired; its own changes do not keep it busy.
- system DNS: whatever dies, what the user or a VPN client chose comes back.
- router: a decision names what exists; the shortcuts taken from the rules
  (no sniffing, host routes past the tunnel) agree with them.
- fakedns: the two maps are inverse to each other; a name keeps its address
  until the pool wraps.
- flows: listed connections are the open ones; totals add up; memory is bounded.
- app: the status shown is what the user asked for last; nothing listens after
  a disconnect.
- sync: what is received is what the owner shared last; an answer arrives
  once and is not lost; both sides of a pairing agree.

## Modules

| Module | Models | Kind |
|---|---|---|
| `RouteService` | what `internal/chains` promises: one chain on offer per route, given or refused, none after Close | abstract specification |
| `Chains` | `chains.go`, and `sshtun.Chain` as its owner sees it | component |
| `ChainsProofs` | safety of `Chains` and its refinement of `RouteService` | proofs |
| `TunnelService` | what `daemon.go` promises the app: calls that take effect at one instant, and a device that follows them | abstract specification |
| `Daemon` | `daemon.go`, a Manager and the platform seen from outside | component |
| `DaemonProofs` | safety of `Daemon` and its refinement of `TunnelService` | proofs |
| `Flows` | `flows.go` and `stats.go`: open connections, the ring of closed ones, the statistics by key | component |
| `FlowsProofs` | safety of `Flows`: its counts, sums, ring and table | proofs |
| `MCFlows` | symmetry for TLC | model checking |
| `Vpn` | `vpn_controller.dart` and `ssh_tunnel.dart` where the app owns the tunnel (macOS without the helper) | component |
| `VpnProofs` | safety of `Vpn` | proofs |
| `FakeDNS` | `fakedns.Pool`: one placeholder per name, handed out round robin | component, used by `Handler` |
| `Router` | `router.go`: rules compiled, the first match, and what the daemon asks of the rules besides | operators |
| `Handler` | `handler.go`: a connection from its arrival to its end, against SetRouter, DNS and other VPNs | component, extends `FakeDNS` |
| `MCHandler` | three lists of rules, compiled by `Router`, and a VPN's claim for TLC; `Router`'s claims on some five thousand lists | model checking |
| `Relay` | `handler.go` and `udpgw.Session`: one UDP session, its goroutines and its two maps of addresses | component |
| `RelayProofs` | safety of `Relay` | proofs |
| `Routes` | the macOS platform's routes, its callbacks and the dials that repair them | component |
| `RoutesProofs` | safety of `Routes` | proofs |
| `MCRoutes` | two networks for TLC | model checking |
| `SystemDNS` | `dns_darwin.go`: the system's DNS settings and their backup, across crashes | component |
| `SystemDNSProofs` | what a crash or a failure can lose | proofs |
| `HandlerProofs` | safety of the pool and of the handler, that the handler uses the pool, and what holds of every list of rules | proofs |

### Chains

One action is one critical section of a route's mutex, or one step between two
of them. `pc` is where the run goroutine is:

    top -> dialing -> dialed -> publishing -> serving -> dropping -> top
              |          \-> stopped             \-> stopped
              \-> failing -> failed -> waiting -> top | stopped

`dialed[r]` is run's local variable, `chain[r]` what `DialContext` hands out.
That the two are set in different steps, that the context is looked at only
once after a dial, and that a dropped chain is closed *before* the route is set
down, is what the interesting interleavings are made of. The `up` channel is
`upClosed`; a blocked caller's copy of it is `signal[w]`: still the route's
("current"), closed, or replaced without ever being closed ("abandoned").
`Nudge` and `Reset` are the critical section; `Kick` and `ResetCloses` are what
they do after it. `Manager.mu` lets only one of them at a time work on a route
(`Untouched`).

A chain is open, dropped or closed; `broken` ones have a far end that stopped
answering without saying so. A closed chain nobody refers to is used again as a
new one, so that behaviours have no end although `Chain` is finite.

Left out: hops and handshakes (one answer of `Dial`), error texts, the OnChange
callback, `retries` and `since` (only shown), the lengths of timers (a timer may
fire whenever it is set). `watchClock` calls Nudge or Reset, which may come at
any time.

A wait that is not above zero is no wait: `Hot`. `Backoff` computes `time.Second <<
(n-1)` in an integer of its width, so that it overflows like the code's, whose 64 bits
make it negative from the 35th failure on and zero from the 56th (for some of those
between it is positive, and then the cap). A server that stays away that long is then
dialed again at once, every time. `Second`, `Width` and `MaxFailures` make this happen
after two failures in the run; in the code they are 10^9, 64 and the number from which
the result does not change any more.

### Daemon

`mu` is the goroutine that holds `d.mu`. A call that does all its work in one critical
section is one action; one that brings the tunnel up or waits for a Manager to close
holds the lock over several. `life[m]` is a Manager's life; `clock[m]` and `runner[m]`
say whether its clock goroutine is inside OnWake, or a route's inside the platform's
stuck notice, both of which need `d.mu` and both of which `Manager.Close` waits for.
`routes` is `d.routes`, `tunnel` the handler the live device feeds. A Start that changes
the routes of a running tunnel replaces `d.chains` (`StartOtherRoutes`), `d.routes`
(`RoutesSwitched`) and the router (`StartApplied`) one after the other, with the lock
held, while connections are decided and dialed. `jammed` says that the platform's own
two locks wait for each other (`Jam`, see Routes): Up and Down do not return from then
on, nor does a dial that heals the routes, and a Stop or restart that calls Down hangs
with `d.mu` held (`Hangs`). `overtaken` is a history variable: a Start replaced the
chains of a sleeping restart.

A config is its routes; rules are known by the config whose routes they were
compiled against. Cooldowns are left out: a restart may be skipped or not.
`Status`, `Flows` and `Nudge` change no state of the daemon.

`TunnelService` is the daemon without its lock, its Managers and its restarts' sleep:
the state it reports, the config it runs with, the config the device carries
connections for, and which calls are under way. In `Daemon.tla` the mapping reads these
off: the device is `serves[routes]` when there is a tunnel, a call is under way from its
place before the lock to its return, and takes effect in the step that returns; while a Start
replaces the chains, the device already carries connections for the new config ("applied").

### Flows

`t.mu` guards the table, with two exceptions that make it worth a model: bytes
are counted without a lock (`Move`), and `Close` marks the entry under its own
mutex (`CloseBegins`) before it takes `t.mu` (`CloseRecorded`,
`CloseUnrecorded`). Bytes may move between any two steps, so the loops over the
open connections are taken entry by entry: `loop` says that one holds `t.mu` and
`todo` what it has yet to visit; `SetRecording` and `Clear` are such loops
(`StartRecording`, `StopRecording`, `Clear`, then `AttachNext` or `AccountNext`
until `LoopEnds`). `accountLocked` every ten seconds and at each `Stats` is
`Account`: its loop holds no state, so each of its steps stands alone.

An aggregate has an identity of its own because that is what can go wrong:
entries point to it (`agg`), the table lists it under a key (`keys`), and
eviction or a clear separates the two. `evictOldest` may drop any key with
nothing open, which is all that the order of `last` leaves open. The ring holds
sequence numbers, which is what a poll asks for. `due`, `gone` and `cleared` are
history variables: what the statistics should add up to, what went with evicted
keys, and where the ring starts after a clear. So is `late`: the goroutines of a UDP
relay outlive the Close of their entry (`handler.go:604`) and go on calling AddUpload and
AddDownload (`MoveLate`), which add to the table's totals and to an entry nothing reads
any more. An entry is used again for another connection when they are over (`RelayEnds`).

Left out: the five-minute buckets, the timeline, reasons, the number of
connections and errors per key, and the totals of the table, which are counters
of their own. Upload and download are one counter. A key does not change while a
connection is open: `Update` is only used for fields `keyOf` does not read.

### Vpn

One event loop runs everything, so an action is what runs between two awaits
that wait for an event, and a task is a call suspended at one. `pc[k]` is where:

    connect     asking -> tearing -> dialing -> binding -> returned
                                        \----------\--> failing -> returned
    disconnect  stopping -> returned
    the timer   rebuilding -> returned, or asking and so on

"asking" is `mac.isAvailable()`; "tearing", "failing" and "stopping" are
`_cleanupTunnel` while a listener closes, on behalf of connect, of its catch and
of disconnect. With no listener to close, the awaits there are of nulls and no
event gets in between, so the step is one with what follows. What follows sets
`_tunnel` to null whatever it is by then, which is what makes overlapping calls
interesting. `listening`, `stopped` and `chain` are the fields of an `SshTunnel`;
`port` is who has the port of the system; `open` and `silent` are chains as the
network sees them. Objects nobody refers to are used again as new ones.

`wish` and `overlapped` are history: what the user asked for last, and whether a connect
or disconnect began while another was under way. A connect that the retry timer makes
counts like the user's, so that a single Disconnect which falls into it is an overlap
too: it leaves the tunnel up by the same bug (`vpn_cancel`). The promises about what is
left after a disconnect only hold without overlaps; the others always do. The timer's
callback never finds `_userDisconnected` set (`TimerMeansWanted`, proved), so its early
return has no action.

Left out: lengths of timers, `_retryCount` with them, error messages, hops, the
SOCKS connections but for the probes they ask for, Android and iOS, which start
and watch a service.

### Handler and FakeDNS

`FakeDNS` is the pool alone: `next`, `byIP` and `byName` are its three fields, and
`Assign` its one operation, which holds a mutex throughout. `given` and `newer` are
history: what an app was told, and how many names were told something since.

`Handler` extends it. `pc[c]` is where a connection's goroutine is between two steps
that another goroutine can come between:

    idle -> described -> decided -> dialing -> open -> idle

"described" has its name and address, "decided" a decision that nobody else knows
of, and from "dialing" on it is in `live`, where SetRouter finds it. SetRouter is
three steps, as its own locking makes it: `Swap` the router, `Scan` the live
connections under `liveMu`, `CloseStale` one by one without it. The daemon's lock
lets in one SetRouter at a time. `shut` are connections it has closed and whose
goroutine has not seen that yet; `late` is history: the last scan came between
the decision and the tracking of a connection.

A router is a function from what is known of a connection to a decision; in
`MCHandler` it is `Router`'s `DecideWhy` of a list of rules. `Claimant` is `vpn.go`'s: the
connected VPN that takes what no rule decides. `Scan` asks the router and not
`DecideWhy`, and compares action and route only, as the code does.

`answered` remembers the name of a real answer. What is remembered when an answer
arrives is remembered here when the query is made, which no state tells apart.

Left out: the app and the port a rule may look at, which are fixed when a
connection arrives, names that always resolve for real, what happens in a UDP
session, which is `Relay`, pings, and the entry of a connection in the table of
flows, which is `Flows`.

### Router

Operators and no state: the router is immutable and `Handler` swaps it. An entry of
a rule is the set of what it matches, so paths, names, domains, CIDRs and ranges
are what their matchers do with them; `Blank` and `Bad` are the entries that
compile drops or refuses. `Compile` keeps each enabled rule at its place in the
list. `BypassPrefixes` is what the routing table keeps out of the tunnel for a
scoped capture. Known from the code and part of the model: a rule whose entries are
all blank has no criteria left and matches everything, and a rule without an ID
counts as no rule when a VPN's claims are asked.

### Relay

`stage` is handleUDP's goroutine, `reader`, `writer` and `ticker` the three it starts.
The reader resolves a placeholder outside the lock (`Read`, then `LookedUp` or
`LookupFails`), while the writer translates a reply with the map the reader fills
(`Answer`, then `Deliver`). Each of the three sends one error to a channel with room for
all, of which only the number counts; handleUDP takes one, closes both ends and leaves
(`Receive`). The far end is open while it has not. Anybody may answer: past the tunnel
the socket is not connected (`handler.go:859`), nor is that of the udpgw server, and a
packet from somebody nothing was sent to is shown as from its sender.

`Others` are the dials of further sessions over the same route. All that sessions share is the
minute without a gateway (`wait`): a dial that began before a session marked the route
marks it anew when it fails later (`OtherFails`, `CannotBegin`), and a session that
arrives meanwhile is refused without a dial (`Refuse`, `OtherArrives`). `missed` says that
the gateway was out of reach at some moment of a dial, which may then fail.

`had`, `told` and `sent` are history: the names a place has had while the reader ran, what
lookups answered for which name, and who was sent a packet by which address. The pool is
`FakeDNS` seen from here: any place may go to another name at any time.

Known from the code and part of the model: two names with one real address share one
entry of `realToPlace`, so a reply may come from the placeholder of the other
(`RepliesAreKnown` says what holds in spite of that); what a session resolved stays
when the pool gives the place to another name, so that a packet to it still goes to the former
name's address (`GoesToItsName` asks for a name the place has had since the session
began); whether a packet may go is decided
once for the session; and the ticker of a session over a route lives on for up to two
minutes after it.

Left out: ports, payload, frames, byte counts, and which error a session returns:
`resolve` in relayUDP assigns the `err` that handleUDP returns (handler.go:818 and
879), a data race that only changes what is logged.

### Routes

An action is what holds `p.mu` from beginning to end, with the calls of route(8) it
makes. `rt.at` and `rt.through` are the system's table, `rt.bypass` and `rt.scoped`
what `p.pins` and `p.scoped` know of it; `rt.numb` are routes that are in the table
and lead nowhere. A change of the table, the daemon's own too, sets `changed`, which
`Announce` turns into the timer of two seconds; `TimerFires` reasserts, and
frontOfVPNs goes on in steps of its own (`BeginFront`, `TakeVpnMu`, `ListVPNs`, `ApplyFront`)
because it lets the lock go in between. What it adds may be refused like any other route
(`denied`).

Two steps are needed for VPNs() because it takes `p.vpnMu` (`vpns_darwin.go:28`) and then
`p.mu` (`:102`), for frontOfVPNs as for anybody else (`OthersList`, `OthersListed`: the
handler asks it for a connection no rule decides, `handler.go:241`). healRoutes and Up
take the two the other way round, through invalidateRoutes (`platform_darwin.go:236`,
`:613`, `:440`). One that does so while VPNs is under way sets `jammed` (`HealRoutes`, `UpJams`):
`p.mu` and `p.vpnMu` are held for ever, and everything that needs either stands still. The
properties hold with that way out named.

`hidden` says that the list of VPNs was made before the last change of the VPN and may
still be used: for five seconds, or until a change is announced or healed. The
platform's interface monitor has its own idea of the default interface (`known`), which
`InterfaceChanges` brings up to date. A dial remembers from its beginning whether it may
repair (`heals`), as `directNet.dial` does. `Do` chooses what route(8) fails to add;
failures, networks, the VPN, sleeps and Ups are counted by `events`.

Known from the code and part of the model: between a change of the table and the
monitor's update pins through the former interface look like those of another VPN
and are dropped (pinBypassLocked's comment says they do not count; `KeptOut` says
that they come back); an add that fails is tried again with the next change of
routing only (`refused`), and while one fails each round takes the others away and
puts them back; a VPN that connects after the pin does not get its address; routing
that changes more often than every two seconds postpones the reassert.

Left out: IPv6, which is never pinned, scoped defaults of VPNs, the hijack of
name servers, dials to anything but first hops, the count of failed repairs that
ends in the stuck notice (`Daemon` has that), and a daemon that is killed.

### SystemDNS

A step is one `networksetup` command, one half of `os.WriteFile`, which empties the
file before it writes, or the removal of the file. `op` is what the daemon is doing
and `step` where in it; between any two steps users and VPN clients set a service
(`Choose`), a service goes (`Vanish`), a command fails (bounded by `MaxFails`), or the
daemon dies (`Die`), which forgets everything but settings and file. launchd starts
it again (`KeepAlive` in `lib/daemon/daemon_installer.dart:97`), and `Boot` restores a
leftover. `chosen` and `lost` are history: what somebody else set last, and the
services whose choice the daemon overwrote unread or had only in memory when it died.

Known from the code and part of the model: a backup torn by a death in the middle of
a write makes every later Restore and Apply fail until somebody deletes it. Not in
the model: `dnsState.Capture`, which nothing calls. `docs/macos-daemon.md:192` still
says that DNS settings are never changed.

## Runs

| Run | Question | Bounds | Result |
|---|---|---|---|
| `chains` | safety, refinement and liveness of one route | 1 route, 2 chains, 1 caller, 1 quick retry, 2 failures, a shift that overflows at the second | holds, 96 thousand states |
| `daemon` | does everything fit together when the lock is free, and is it released | 1 client, 2 restarts, 3 Managers, 2 handlers, 2 configs, 2 attempts | holds, 1.5 million states |
| `daemon_stop` | does Stop come back | 1 client, 1 restart, 3 Managers, 2 handlers, 1 config, 1 attempt | violated |
| `daemon_down` | is a running tunnel up | 1 client, 1 restart, 3 Managers, 2 handlers, 2 configs, 1 attempt | violated |
| `flows` | do the statistics add up, does their table stay small, and does a poll get each closed connection once | 2 connections, 3 keys with room for 1, ring of 2, 4 recorded, 2 bytes | holds, 410 thousand states up to symmetry |
| `vpn` | does anything come back, stay behind or get stuck, whatever is suspended | 2 tasks, 3 tunnels, 2 chains | holds, 190 thousand states |
| `vpn_cancel` | does Cancel stop everything | 2 tasks, 2 tunnels, 2 chains | violated |
| `handler` | does a connection follow the rules or get closed, and does a placeholder stand for its name | 1 connection, 3 names, 2 placeholders, 1 address, 3 sets of rules, 1 VPN | holds, 210 thousand states |
| `dns` | is a choice of DNS servers ever lost, a leftover left, the tunnel's DNS taken away | 2 services, 2 settings, 1 failed command, any number of deaths | holds, 290 thousand states |
| `dns_death` | does a death lose nothing | the same | violated |
| `relay` | do packets and replies keep their addresses, does everything end, is a route asked again | 2 names, 2 placeholders, 2 addresses, 1 further session, a hold of 2 | holds, 550 thousand states |
| `routes` | are first hops kept out, everything taken back, numb routes repaired, and does it rest | 1 first hop, inside the VPN's network, 2 networks, 1 dial, 3 events | holds, 430 thousand states |

Why these bounds are enough. Routes meet only in `Manager.Nudge` and `Close`, so one
route sees every interleaving of its own goroutines; the proofs cover any number. Two
chains let an old one be probed, reset or held by a caller while the next one serves.
One quick retry makes "some left" and "none left" happen; two failures with two bits
make a wait by the backoff and one that is none. In `Daemon`, two restarts overlap while
one sleeps; three Managers are one in use, one that a Start or restart opens and one
still closing (a call that needs a fourth waits, which is a bound: `Unused`); with two
attempts a restart that wakes up tries again once, and gives up after that. A second
caller waits for the lock, and its call then finds what any later call would;
`DaemonProofs` covers any number of both.

In `Flows`, two connections may share a key, be busy under two while a third is
wanted, or leave one idle for eviction; three aggregates are one more than can
be in use at once; a ring of two wraps round twice within four connections, with
a clear at any point; two bytes are one before and one after a switch.

In `Vpn`, two tasks are two overlapping calls, or a call and a rebuild; three
tunnels are one that listens unknown to the controller and one for each task;
two chains let an old one be probed or closed late while a new one serves.

In `Handler`, connections do not touch one another: each has its own goroutine,
and only SetRouter's loop sees several, which takes them one by one. One
connection therefore sees every interleaving with it, and `HandlerProofs` covers
any number. Three names over two placeholders make the pool wrap round with a
name that is asked for again before and after. The three sets of rules differ in
the route of a name, in its action, and in the default, and one name is the
VPN's business.

In `Relay`, two names over two placeholders and two real addresses let names share
an address, and a place go to the other name, while a lookup is under way; every
session begins with empty maps, so one after another is all there is of those. One further session
next to it is the least for a dial to fail after another has marked the route, and a hold of
two tells a route that is asked too early from one that is asked in time.

In `Routes`, one first hop within the VPN's network meets every kind of route; two
networks are there in turn or at once; three events are a change, a change back or a
failure, and a sleep on top; a call of VPNs from outside is one of them. `RoutesProofs`
covers any number.

In `SystemDNS`, two services are the least for a loop to be interrupted in the
middle; one failed command and any number of deaths fall on every step there is.

`MCFlows` uses symmetry over connections, keys and aggregates; it has no liveness
property. The daemon runs do not check deadlock: a daemon with nothing to do and the
hangs below are states without a step. Nor does `routes`, where everything may stand
still once `jammed`, nor `flows`, which stops at `MaxSeq`.

## Fairness

`Chains!Fairness`: a goroutine that can go on does (weak fairness of every run
goroutine, of what a nudge or reset still has to do, and of Close); a probe ends
because it has a timeout; `keepAlive` has a ticker; the caller's one timer, once
fired, is ready in every `select` of `waitUp`, hence strong fairness of
`GiveUp`. `ServersAnswer` is an assumption about the world: a server that is
dialed over and over answers some day. Only `RoutesRecover` needs it.

`Daemon!HolderFairness`: who holds the lock goes on, and a Manager's goroutine that is
not in a callback sees the cancelled context, as long as the platform's locks are not
`jammed`: Up, Down and a dial that heals the routes are disabled then, so that nothing
is assumed of them. `LockComesFree` needs no more, and names both ways it does not come
free. `Daemon!Fairness` adds that Go's mutex starves nobody (strong fairness):
`StopCompletes` is violated even so.

`Vpn!Fairness`: a suspended call is resumed (every await has a timeout or ends by
itself), timers fire, the heartbeat ticks, a probe ends. That a server dialed
over and over answers some day, and that the port can be had, are assumptions
about the world (strong fairness of `Dialed`, `Rebuilt` and `Bound`). `Recovers`
further assumes a user who leaves the buttons alone in the end.

`Handler!Fairness`: goroutines run; a dial ends by its timeout; a connection that
was shut fails the goroutine that reads from it; SetRouter's scan and loop go on.
Nothing is assumed of open connections that nobody closes.

`Relay!FairSpec`: time passes; dials and lookups end by their time limits; reading
from an end that was closed fails; goroutines run. Nothing is assumed of the app,
which may send nothing for ever, nor of the network. Of the further sessions it is assumed that
apps go on opening them and that none lasts for ever; a dial fails only if the gateway
was out of reach during it, which `IsAskedAgain` needs.

`Routes!FairSpec`: while a callback is due and the locks are not `jammed` some callback
runs, expiries come, and each first hop is dialed again and again, unless its dial hangs
in healRoutes. The last is `Chains`' retry loop: a route whose chain is down is dialed
for as long as its Manager is open. No particular callback is favoured, and nothing is
assumed of networks or of dials' results.

`SystemDNS!FairSpec`: launchd starts a dead daemon (`KeepAlive`), the platform
reasserts when settings change, and an operation under way takes its next step.
A daemon that is killed for ever is let off by name in `LeftoverIsPutBack`.

## Findings

- **Stop may hang.** `Stop`, `restart` and a failed `Start` wait under `d.mu` for
  goroutines that may be waiting for `d.mu` in OnWake (`daemon.go:449`) or in
  `routesUp` (`daemon.go:255`). From then on no call of the app is answered
  (`daemon_stop`; `LockComesFree` in `daemon` shows that the lock is lost in no other way
  than this, `WaitsForChains`, and the platform's, `WaitsForPlatform`, below).
- **Running, and down.** A Start with other routes while a restart sleeps ends
  the restart without a tunnel (`daemon_down`).
- **Cancel during the first dial does not cancel.** connect goes on when its dial
  is done: the app says connected, the port is taken, and no `_tunnel` refers to
  the listener, so no later disconnect stops it (`vpn_cancel`; `DESIGN.md:145`
  says that Cancel "stops everything").
- **A death while DNS is taken back loses a choice.** Reassert points a service back at
  the tunnel (`dns_darwin.go:264`) and rewrites the backup only after the loop over all
  services (line 278). A daemon killed in between restores older servers, although
  `dns_darwin.go:22` says that the previous setting "is written to a file before
  anything changes" (`dns_death`; `Recoverable` in `dns` shows which other way there is:
  a choice made after a service was read and before it is pointed at the tunnel).

## Proofs

`ChainsProofs` proves, for any sets of routes, chains and callers, any positive
number of quick retries (`ChainsAssumption`, which also says that nil is not a
chain) and any width of the backoff's shift, as long as enough failures make it none
(`BackoffAssumption`, which 64 bits meet):

- `TypeCorrect`, `NoLeak`, `UpIsServed`, `WaitersHeard`, `NudgeHeard` and
  `ClosedIsClosed`: type correctness, the safety invariants the run `chains` checks, and
  `UpMeansServed`, which is in no run;
- `Implements`: `Chains` implements `RouteService`.

The invariants are not inductive by themselves. `IInv` adds: run holds a chain at
exactly the places dialed, publishing, serving and dropping, and has stopped
only if the context is cancelled (`Places`); no chain is in the hands of two
routes (`Apart`); an open chain is held by a goroutine that has yet to close it
(`Owned`); a chain not yet published is in no caller's hands (`Unseen`); a route
nudged during a dial has a quick retry left when the dial fails
(`QuickWhenNudged`); Close returned after every goroutine (`Waited`). For each
part there is a lemma that a step preserves it. `NoLeak` is `Owned` and `Apart`;
`NudgeHeard` needs `QuickWhenNudged`: without it a nudge between the start of a
dial and its failure could be followed by a long wait. The refinement needs
`Apart` and `Unseen` for a new offer and `Waited` for "none after Close".

`DaemonProofs` proves, for any number of callers, restarts, Managers, handlers and
configs and any number of attempts (`DaemonAssumption`), `TypeCorrect`, `TunnelFeeds`,
`DataPlaneFits`, `NoManagerLeak` and `DownOnlyForRestart`: type correctness and the
safety the run `daemon` checks. Its inductive invariant says what holds at each place a
call can be in, because almost everything the properties ask for is true only while the
lock is free:

- `LockHeld`: exactly one caller or restart is at a place that holds `d.mu`, and
  it is `mu`'s; `Apart`: Managers in the hands of different goroutines differ, but for the
  one a Start is about to replace;
- `Running`, `GoingDown`, `Calls`, `Restarts`: what tunnel, chains, handler, rules
  and routes are when the daemon runs, is being stopped, is being started, is between
  the steps of a Start that replaces its chains, or of a restart;
- `Attempts`, `Sleepers`: a restart that tries has an attempt left, and one that
  wakes up and finds its own chains finds the daemon running with the tunnel
  down and the handler it left;
- `Wired`: a running daemon whose lock is free has open chains that serve its
  config and that its data plane dials through.

`TunnelFeeds` is where `Sleepers` is needed: a restart that wakes up after a Stop
and a Start must find other chains and leave.

`Implements` says that `Daemon` implements `TunnelService`, for the same constants. It
needs one more invariant, that callers and restarts keep to their own places (`Places`):
with `LockHeld`, `Calls` and `Restarts` it follows that whoever holds the lock finds the
tunnel down, is a Start that replaces the chains, or hangs in Down, so that a tunnel
that is up carries connections for the daemon's config or, once such a Start has
switched the data plane, for the new one (`Carries`). Then a client's step begins a
call, ends one, goes on with one, or, as Stop, brings the device down (`ServeRefines`);
a restart's brings it down or back or gives it up (`RestartRefines`); and what Managers
do is seen by nobody (`ManagerRefines`). `ImplementsService` is a theorem only: as a
property of the run `daemon` it doubles the time that takes. It was checked once by
itself with two callers and one restart that has one attempt (0.9 million states).

`FlowsProofs` proves, for any number of connections, keys and aggregates and any
limits (`FlowsAssumption`; connections are finitely many), `TypeCorrect`,
`OpenListed` (proved, and in no run), `CountsMatch`, `BytesCountedOnce`, `PollsExact` and
`TableStaysSmall`: all the safety of the run `flows`.

- An eviction is safe because a key that says it has nothing open has nothing that
  counts into it (`IdleIsIdle`), which is `OpenCountsMatch` and a fact about
  cardinalities; `OpenCountsMatch` needs that what is counted is listed (`Counting`) and
  that no two keys share an aggregate (`Separate`), which needs evictions to be safe.
  These parts are therefore proved together.
- `EveryByteOnce` is about sums over finite sets, which the library defines by a fold in
  an unknown order. The section "Sums" takes that apart: a function that counts down a
  set from its size is a tally of it (`IsTally`), there is one (`TallyExists`), every
  two orders give the same (`TallyOrder`), so a sum does not change with what it does
  not depend on (`SumOfSame`) and changes by one element's part (`SumTakesOne`,
  `SumButOne`). Induction is by least counterexample, since natural numbers are
  well-founded (`WFMin`). Then each step moves bytes between `Shown`, `Running` and
  `gone` and adds to `due` what it should, and what moves after a Close goes to `late`;
  an eviction moves a key's whole part to `gone`, which needs `Separate` again.
- `PollsAreExact` follows from what the ring holds (`Ring`): the last closed connections
  since the last clear, each at its number modulo the capacity (`Round`).
- `TableBounded` follows from `OpenCountsMatch` and `OpenAreListed`: if no listed key is
  idle there is an open connection for each (`NoneIdle`), and otherwise one is evicted
  for the one added.

`VpnProofs` proves, for any number of tasks, tunnels and chains (`VpnAssumption`: null
is none of them), `TypeCorrect`, `WantedOnly`, `Attendance`, `ListenerGetsChain` and
`DisconnectIsFinal`, which hold whether or not calls overlap, and `DisconnectStops` and
`NothingOrphaned`, which hold until a connect or disconnect falls into another, a
connect of the retry timer included: all the safety of the run `vpn`. The inductive
invariant has two halves:

- `Hands`, which tunnel a suspended call may still find current. The port decides:
  who closes a listener is alone and has the tunnel with the port (`Closes`), a
  start has a tunnel of its own without it, and finds it current only while the
  user wants it (`Starts`), a rebuild that finds its tunnel current finds it with
  the port (`Rebuilds`), and a disconnect that finds its tunnel current finds that
  nobody has wanted it since (`Stops`);
- `Promises`: `TimerMeansWanted`, `ListenerServed`, that a chain lost while its
  tunnel waits for the port is due to be replaced (`LostBinding`), and `Attended`,
  which is `NoOneForgets` for the rebuilds that count.

The hard step is `Disconnected`, which sets `_tunnel` to null whatever it is by
then: a rebuild of the tunnel it nulls would be disowned, and with it the status
"reconnecting". `Closes` and `Rebuilds` say that such a rebuild has the very
tunnel the disconnect has, and `Stops` that then the user wants none.

A third invariant, `Serial`, is about behaviours in which no connect or disconnect, the
user's or the timer's, has fallen into another yet. Then there is one call at a time
(`OneCall`), which has the current tunnel in hand (`InCall`); between calls a tunnel
runs or there is none (`Standing`); every open chain is the current tunnel's
(`Chained`); a rebuild may be suspended across all of it, and is of the current tunnel
or refused when it ends (`Replacing`); and who wants the tunnel down has none or is
closing it (`Down`).

`HandlerProofs` proves of the pool, for any set of names and any positive number of places
(`PoolAssumption`), `Inverse` and `OldestFirst`. The two maps being inverse is
inductive with their types. That an answer holds is not: `InOrder` adds that the
place of a name given `k` names ago lies `k` places behind the cursor, so that it is
next in turn exactly when as many names have come as there are places, and
`LastGiven` that a name which has a place was told so last.

Of the handler it proves, for any connections, names, addresses, VPNs and rules
(`HandlerAssumption`: rules decide on everything, a claim names a VPN or none),
`TypeCorrect` (proved, and in no run), `OpenFollow` and `UsesPool`. `FollowsRules` speaks of tracked
connections only; `Pending` adds what holds of a decided one, which is that its
decision is allowed unless a scan is still to come or has just missed it, and
`Known` that what is not idle is described and decided. `UsesPool` says that every
step of the handler is a step of the pool's specification or none, and with it
what is proved of the pool holds in the handler.

`RoutesProofs` proves, for any first hops, networks, dials and number of events, and
whatever route(8) fails to add (`RoutesAssumption`), `TypeCorrect`, `NothingIsLeft`,
`FirstHopsKeptOut` and `VpnsAreFollowed`: all the safety of the run `routes`. First come
lemmas about the operations on a table of routes, each for every table and every
failure: `setVia` and the others keep `Fits`, that what is in the table is in `p.pins`
or `p.scoped` (`Tracked`) and goes through a network there is (`Present`); and each
operation `Leaves` the scoped default right, and the pins right or something changed
that will be announced. On them rests the inductive invariant: `Cleared` without a
tunnel, `Defaulted` and `Pinned` once nothing is announced or due, and `Fronted`, which
says that where the tunnel is not as it should be towards the VPN, and route(8) did not
refuse it, a change is announced, the timer runs, or a frontOfVPNs under way has found
out nothing wrong (`Informed`). `FirstHopsKeptOut` does not follow from the pins alone:
with an interface that ifMon has not caught up with, pins may be dropped, and `Pinned`
holds because `InterfaceChanges` is still to come.

`SystemDNSProofs` proves, for any services, servers and number of failures
(`DNSAssumption`), `TypeCorrect` and `NothingElseIsLost`, the run's `Recoverable`. The
inductive invariant has one part for each loop: while Restore sets services the file
stays (`Restoring`); what Apply has taken is in the file (`Applying`); what Reassert has
taken is in memory (`Rewriting`).

`HandlerProofs` also proves four facts about every list of rules, of any length: a
decision of rules that compile names what exists (`DecisionsAreKnown`); rules without
domains decide alike whatever name the first bytes give (`NoNeedToSniff`), which is why
the handler may go on without them; an address the routing table keeps out of the
tunnel is let past it by the rules too, unless an earlier rule matches
(`BypassedAsDecided`); and switching off a rule changes only the decisions it made
(`SwitchIsLocal`). The first match exists because natural numbers are well-founded
(`FirstIsLeast`). `ListsAreRouters` joins the two halves: what a list that compiles
decides is a router as `HandlerAssumption` asks for one, so that the handler's theorems
hold with any such list behind it. `MCHandler` evaluates the four claims on some five
thousand lists before its run.

`RelayProofs` proves, for any names, placeholders, addresses and length of the hold
(`RelayAssumption`), `TypeCorrect`, `ShownAsKnown` and `NameKept`, the two invariants of
the run `relay`, and `NobodyHangs`. The inductive invariant says what the session's maps
hold (`Maps`): nothing in a session that dials (`Fresh`), what the reader has in hand
between its lookup and its write (`InHand`), that an address reached by a placeholder
has one that stands for it, which need not be the same (`BothWays`), and that a packet
went to whom the app means by the address it used (`SentRight`). `Answered` says that a
packet that came in has a sender, whoever that is. `Named` carries the address from the
lookup to the packet: the reader asks for a name its placeholder has had (`Asked`),
every address a placeholder stands for was told for such a name (`Told`), and the pool's
name of the moment is one of them (`Follows`). `NobodyHangs` is arithmetic: the errors
sent and the goroutines that still have one fit in the channel (`Fits`).

What is only model-checked: all liveness, which this prover cannot express under
fairness (`CloseFinishes`, `CallersAreAnswered`, `BrokenChainsDrop`, `RoutesRecover`;
`LockComesFree`; `Recovers`; `StaleEnds`; `LeftoverIsPutBack`, `TunnelKeepsDNS`;
`EveryoneEnds`, `IsAskedAgain`; `Settles`, `FirstHopComesBack`). Every safety property of
every run that passes is a theorem, and so are both refinements.

## Not modelled, and the plan

In this order:

1. What SetRouter's comparison means for connections a VPN claims: it compares action
   and route only, so one that moves between two VPNs is left alone.
2. The macOS backend's poll against connect and disconnect, next to `Vpn`: a status
   reply that was sent before a disconnect may arrive after it.
3. Sync: two devices, offers and copy answers over a network that loses and delays;
   pairing. It needs abstractions of its own for what a share holds.
4. The phone's engine and tunnel, where they differ from the daemon's handler.
5. A daemon that is killed with its routes in the table, which `Routes` leaves out.
6. Proofs: the safety halves of the liveness properties, such as that a numb route is
   always within reach of a dial that repairs it (`FirstHopComesBack`), or that a broken
   chain is always within reach of a probe (`BrokenChainsDrop`).

Left out for good: byte parsing (`sniff`, and the frames of `udpgw`), system calls
(`procinfo`, `routetable`, the macOS configuration readers), what runs on servers over
SSH, the ADB client, storage and widgets, which are sequential and do input and output
only.

Two more places where the code does not do what its comments say need no run to be seen.
A Start that changes the routes of a running tunnel changes neither `d.bypass` nor the
tunnel's host routes, so that the new first hops are kept out only by the interface
their sockets are bound to (`daemon.go:380`, against line 95); `Daemon` leaves
`d.bypass` out. And a Stop after a restart that failed returns before it clears the
config, keys included (`daemon.go:465`, against line 461); `StopNothing` does so too.

Known behaviours that are part of the models, and that the properties allow for by name where
they matter to them:

- The platform's two locks may wait for each other. VPNs() takes `p.vpnMu` and then
  `p.mu` (`vpns_darwin.go:28`, `:102`); Up and healRoutes take them the other way round
  (`platform_darwin.go:548`, `:225`, `:440`). From then on no callback of the platform
  runs, no dial to a first hop is repaired, and with an Up, a Stop or a restart under
  `d.mu` no call of the app is answered. `Routes` and `Daemon` reach this state
  (`jammed`), and `Settles`, `FirstHopComesBack` and `LockComesFree` hold but for it.
- After 55 failures in a row a route is dialed again without a pause, because the shift
  in `backoff` overflows (`chains.go:332`); from the 35th on that happens now and then.
  Failures counted before a nudge still count for the backoff after it (`Chains`).
- The bytes a UDP session's goroutines move after its entry was closed are in the totals
  and in no statistics (`handler.go:604`; `late` in `Flows`).
- A UDP session goes on sending to the address of the name a placeholder had, after the
  pool has given that to another name (`Relay`).
- The table of keys drops one for each it adds, so one that has grown while all were
  busy does not shrink (`Flows`).
- A connection decided just before a swap of the router and tracked just after the scan
  keeps to the old rules until the next change (`FollowsRules` allows for that window
  and no other).
