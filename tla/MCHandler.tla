----------------------------- MODULE MCHandler -----------------------------
(***************************************************************************)
(* Three names over two placeholders.  The rules are lists of Router: they *)
(* differ in the route of n1, block it, send n2 into the VPN behind a rule *)
(* that also matches n1, or say nothing of it, and have another default;   *)
(* the VPN claims n3.  An app and a port are there for Router's claims.    *)
(***************************************************************************)
EXTENDS Handler

CONSTANTS n1, n2, n3, a1, r1, r2, v1, app, port, first, second, Blank, Bad

Lists == INSTANCE Router WITH
    Apps <- {app}, Domains <- Names, IPs <- Places \cup Addrs, Ports <- {port},
    RuleIds <- {first, second}, Narrow <- {{a1}}

ASSUME Lists!RouterAssumption

Rule(id, domains, action, route, vpn) ==
    [id |-> id, disabled |-> FALSE, apps |-> {}, domains |-> domains, cidrs |-> {},
     ports |-> {}, action |-> action, route |-> route, vpn |-> vpn]

List(rules, action, route) ==
    [rules |-> rules, default |-> [action |-> action, route |-> route, vpn |-> None]]

FirstList ==
    List(<<Rule(first, {{n1}}, "route", r1, None), Rule(second, {{n1, n2}}, "vpn", None, v1)>>,
         "direct", None)

OtherRoute == List(<<Rule(first, {{n1}}, "route", r2, None)>>, "direct", None)

Blocking == List(<<Rule(second, {{n1}}, "block", r1, None)>>, "route", r1)

\* What a list says of a connection to port.
Verdict(list, m) ==
    LET d == Lists!DecideWhy(Lists!Compile(list),
                             [app |-> None, domain |-> m.name, ip |-> m.addr, port |-> port])
    IN  [action |-> d.action, route |-> d.route, vpn |-> d.vpn, rule |-> d.rule # None]

MCRouters == {[m \in Metas |-> Verdict(list, m)] : list \in {FirstList, OtherRoute, Blocking}}
MCClaimant == [m \in Metas |-> IF m.name = n3 THEN v1 ELSE None]

\* Lists of up to two rules, with each of three criteria or without.
SomeRules ==
    [id : {first}, disabled : {FALSE}, apps : {{}, {{app}}, {Blank}}, domains : {{}, {{n1}}},
     cidrs : {{}, {{a1}}}, ports : {{}},
     action : {"direct", "block", "route"}, route : {r1, r2}, vpn : {None}]

SomeLists ==
    {List(rules, "route", r1) : rules \in {<<>>} \cup [1 .. 1 -> SomeRules] \cup [1 .. 2 -> SomeRules]}

\* Router's claims, of every such list.
ASSUME \A list \in SomeLists :
    LET r == Lists!Compile(list)
    IN  /\ Lists!Compiles(list, {r1}) => Lists!DecidesWithin(r, {r1})
        /\ ~Lists!UsesDomains(r) => Lists!NamesDoNotMatter(r)
        /\ Lists!BypassAgrees(r)
        /\ \A i \in DOMAIN list.rules : Lists!OnlyItsOwn(list, i)
=============================================================================
