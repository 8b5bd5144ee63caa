------------------------------- MODULE Router -------------------------------
(***************************************************************************)
(* The rules, go/tun2socks/internal/router/router.go: a list of which the  *)
(* first rule that matches a connection decides it.                        *)
(*                                                                         *)
(* An entry of a rule is the set of what it matches: a path or a name some *)
(* apps, a domain the names under it, a CIDR addresses, a range ports.     *)
(* Two entries stand for what is no such set: Blank, spaces only, and Bad, *)
(* which cannot be parsed.  A rule without an ID has None for one.         *)
(***************************************************************************)
EXTENDS Integers, Sequences

CONSTANTS
    Apps,
    Domains,    \* names
    IPs,
    Ports,
    RuleIds,
    Routes,
    VPNs,
    Narrow,     \* the CIDRs that are public and no whole network
    Blank,
    Bad,
    None

\* How the constants are meant; no theorem needs it.
RouterAssumption ==
    /\ None \notin Apps \cup Domains \cup IPs \cup Routes \cup VPNs \cup RuleIds
    /\ \A entry \in (SUBSET Apps) \cup (SUBSET Domains) \cup (SUBSET IPs) \cup (SUBSET Ports) :
          entry \notin {Blank, Bad}
    /\ Narrow \subseteq SUBSET IPs

Actions == {"route", "direct", "vpn", "block", "system"}

Decisions ==
    [action : Actions, route : Routes \cup {None}, vpn : VPNs \cup {None},
     rule : RuleIds \cup {None}]

Metas ==
    [app : Apps \cup {None}, domain : Domains \cup {None}, ip : IPs \cup {None}, port : Ports]

\* As the user has them; a route need not be one there is.
Rules ==
    [id : RuleIds \cup {None}, disabled : BOOLEAN,
     apps : SUBSET ((SUBSET Apps) \cup {Blank}),
     domains : SUBSET ((SUBSET Domains) \cup {Blank}),
     cidrs : SUBSET ((SUBSET IPs) \cup {Blank, Bad}),
     ports : SUBSET ((SUBSET Ports) \cup {Blank, Bad}),
     action : Actions \cup {None}, route : Routes \cup {None}, vpn : VPNs \cup {None}]

Configs == [rules : Seq(Rules), default : [action : Actions \cup {None},
                                           route : Routes \cup {None}, vpn : VPNs \cup {None}]]

----------------------------------------------------------------------------
(* Compile. *)

\* checkDecision, of a rule or a default, with the routes there are.
Accepted(d, known) ==
    \/ d.action = "route" /\ d.route \in known
    \/ d.action = "vpn" /\ d.vpn # None
    \/ d.action \in {"direct", "block", "system"}

\* What is of no use to the action is dropped.
Checked(d, id) ==
    [action |-> d.action,
     route |-> IF d.action = "route" THEN d.route ELSE None,
     vpn |-> IF d.action = "vpn" THEN d.vpn ELSE None,
     rule |-> id]

\* Blank entries are dropped: a rule of nothing else has no criteria.
Compiled(rule) ==
    [apps |-> rule.apps \ {Blank}, domains |-> rule.domains \ {Blank},
     cidrs |-> rule.cidrs \ {Blank}, ports |-> rule.ports \ {Blank},
     result |-> Checked(rule, rule.id)]

\* A disabled rule is not looked at, wrong or not.
Enabled(cfg) == {i \in DOMAIN cfg.rules : ~cfg.rules[i].disabled}

Compiles(cfg, known) ==
    /\ Accepted(cfg.default, known)
    /\ \A i \in Enabled(cfg) :
          Accepted(cfg.rules[i], known) /\ Bad \notin cfg.rules[i].cidrs \cup cfg.rules[i].ports

\* The enabled rules, each at its place in the list.
Compile(cfg) ==
    [rules |-> [i \in Enabled(cfg) |-> Compiled(cfg.rules[i])],
     default |-> Checked(cfg.default, None)]

----------------------------------------------------------------------------
(* Decide. *)

MatchApp(c, m) == \E app \in c.apps : m.app \in app
MatchDomain(c, m) == \E domain \in c.domains : m.domain \in domain
MatchIP(c, m) == \E prefix \in c.cidrs : m.ip \in prefix
MatchPort(c, m) == \E range \in c.ports : m.port \in range

\* Each criterion there is; domains and addresses are one.
Matches(c, m) ==
    /\ c.apps # {} => MatchApp(c, m)
    /\ c.domains # {} \/ c.cidrs # {} => MatchDomain(c, m) \/ MatchIP(c, m)
    /\ c.ports # {} => MatchPort(c, m)

Matching(r, m) == {i \in DOMAIN r.rules : Matches(r.rules[i], m)}

First(S) == CHOOSE i \in S : \A j \in S : i <= j

DecideWhy(r, m) ==
    IF Matching(r, m) = {} THEN r.default ELSE r.rules[First(Matching(r, m))].result

----------------------------------------------------------------------------
(* What the daemon asks of the rules apart from that. *)

UsesDomains(r) == \E i \in DOMAIN r.rules : r.rules[i].domains # {}

\* The rules some of whose addresses the routing table keeps out of the tunnel.
Bypassing(r) ==
    {i \in DOMAIN r.rules :
        /\ r.rules[i].apps = {} /\ r.rules[i].ports = {}
        /\ r.rules[i].result.action \in {"system", "direct"}}

BypassOf(c) == IF c.result.action = "system" THEN c.cidrs ELSE c.cidrs \cap Narrow

BypassPrefixes(r) == UNION {BypassOf(r.rules[i]) : i \in Bypassing(r)}

----------------------------------------------------------------------------
(* Claims. *)

\* "A rule or default naming any other [route] is an error, not something to
\* find out when the first connection arrives."
DecidesWithin(r, known) ==
    \A m \in Metas :
        LET d == DecideWhy(r, m)
        IN  /\ d \in Decisions
            /\ IF d.action = "route" THEN d.route \in known ELSE d.route = None
            /\ (d.action = "vpn") = (d.vpn # None)

\* Without a rule that looks at domains "there is no point delaying a connection
\* to sniff its first bytes": the name does not change the decision.
NamesDoNotMatter(r) ==
    \A m \in Metas, n \in Domains \cup {None} :
        DecideWhy(r, [m EXCEPT !.domain = n]) = DecideWhy(r, m)

\* Whatever connects to an address that the routing table keeps out of the
\* tunnel, the rules let it go past it as well, unless one that comes before
\* matches: that one never gets to decide, and the address goes past the tunnel
\* although the first match says otherwise.
BypassAgrees(r) ==
    \A i \in Bypassing(r), m \in Metas :
        (\E prefix \in BypassOf(r.rules[i]) : m.ip \in prefix) =>
            \/ DecideWhy(r, m).action \in {"direct", "system"}
            \/ First(Matching(r, m)) < i

SwitchedOff(cfg, i) ==
    [rules |-> [cfg.rules EXCEPT ![i].disabled = TRUE], default |-> cfg.default]

\* Switching a rule off changes what it decides and nothing else, so SetRouter
\* closes no other connection.
OnlyItsOwn(cfg, i) ==
    \A m \in Metas :
        LET r == Compile(cfg)
        IN  i \notin Matching(r, m) \/ First(Matching(r, m)) # i
               => DecideWhy(Compile(SwitchedOff(cfg, i)), m) = DecideWhy(r, m)
=============================================================================
