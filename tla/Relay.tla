------------------------------- MODULE Relay -------------------------------
(***************************************************************************)
(* One UDP session of go/tun2socks/internal/daemon/handler.go, after it is *)
(* decided: relayUDPRoute, over a route to a udpgw server, and relayUDP,   *)
(* past the tunnel.                                                        *)
(*                                                                         *)
(*   stage    idle -> dialing -> relaying -> idle                          *)
(*   reader   reading -> looking -> sending -> reading ...       -> off    *)
(*   writer   receiving -> translating -> receiving ...          -> off    *)
(*   ticker   on -> off                         only over a route          *)
(*                                                                         *)
(* stage is handleUDP's own goroutine, reader takes the app's packets out, *)
(* writer the replies back.  Each of the three sends one error when it     *)
(* ends; handleUDP waits for the first, closes both ends and does not wait *)
(* for the others.  The next session begins when they have ended.          *)
(*                                                                         *)
(* An address is a placeholder or a real one.  The pool may give any place *)
(* to another name at any time.  A lookup answers with any real address,   *)
(* within its time limit.  Neither relayUDP's socket nor that of the udpgw *)
(* server is connected: once it is there, anybody's packets come in.       *)
(*                                                                         *)
(* Others are further sessions over the same route, of which there is the  *)
(* dial of the gateway: what sessions share is the minute without one.  A  *)
(* dial during which the gateway was out of reach may fail, for whatever   *)
(* reason, also after it is back; no other dial fails.                     *)
(*                                                                         *)
(* Left out: blocked sessions and the tracking, which Handler has; ports,  *)
(* payload and frames; byte counts; which error a session returns (past    *)
(* the tunnel resolve assigns the err that handleUDP returns).             *)
(***************************************************************************)
EXTENDS Integers

CONSTANTS
    Names,
    Places,     \* placeholder addresses
    Reals,      \* real addresses
    Unnamed,    \* those an app sends to without asking for a name
    Others,     \* further sessions over the route
    Hold,       \* how long a route without udpgw is not asked again
    None

ASSUME RelayAssumption ==
    /\ Places \cap Reals = {}
    /\ Unnamed \subseteq Reals
    /\ None \notin Names \cup Places \cup Reals
    /\ Hold \in Nat \ {0}

VARIABLES
    byIP,       \* the pool: the name of a place
    reachable,  \* a dial of the gateway succeeds
    wait,       \* for how long the route is refused
    others,     \* what each of Others is doing
    missed,     \* the gateway was out of reach during this session's dial
    stage,
    way,        \* "route" or "past" the tunnel
    open,       \* the app's end is open
    reader,
    writer,
    ticker,
    packet,     \* the reader's: where the app sent it
    real,       \* the reader's: where it goes
    reply,      \* the writer's: who it is from
    toReal,     \* placeToReal
    toPlace,    \* realToPlace
    errs,       \* how many errors are in the channel
    name,       \* the reader's: whose address it asks for
    had,        \* history: the names a place had while the reader ran
    told,       \* history: names and addresses the reader's lookups answered with
    sent        \* history: who got a packet, and where the app had sent it

pool == <<byIP, had>>
gateway == <<reachable, wait, others, missed>>
conn == <<stage, way, open>>
session == <<conn, errs>>
maps == <<toReal, toPlace>>
outward == <<reader, packet, real, maps, name, told, sent>>
inward == <<writer, reply>>
vars == <<pool, gateway, session, outward, inward, ticker>>

\* What an app sends to.
Targets == Places \cup Unnamed

TypeOK ==
    /\ byIP \in [Places -> Names \cup {None}]
    /\ reachable \in BOOLEAN
    /\ wait \in 0 .. Hold
    /\ others \in [Others -> {"idle", "dialing", "missed", "relaying"}]
    /\ missed \in BOOLEAN
    /\ stage \in {"idle", "dialing", "relaying"}
    /\ way \in {"route", "past"}
    /\ open \in BOOLEAN
    /\ reader \in {"off", "reading", "looking", "sending"}
    /\ writer \in {"off", "receiving", "translating"}
    /\ ticker \in {"off", "on"}
    /\ packet \in Targets \cup {None}
    /\ real \in Reals \cup {None}
    /\ reply \in Reals \cup {None}
    /\ toReal \in [Places -> Reals \cup {None}]
    /\ toPlace \in [Reals -> Places \cup {None}]
    /\ errs \in 0 .. 3
    /\ name \in Names \cup {None}
    /\ had \in [Places -> SUBSET Names]
    /\ told \subseteq Names \X Reals
    /\ sent \subseteq Reals \X Targets

Init ==
    /\ byIP \in [Places -> Names \cup {None}]
    /\ \A p, q \in Places : byIP[p] = byIP[q] => p = q \/ byIP[p] = None
    /\ reachable \in BOOLEAN
    /\ wait = 0
    /\ others = [o \in Others |-> "idle"]
    /\ missed = FALSE
    /\ stage = "idle"
    /\ way = "past"
    /\ open = FALSE
    /\ reader = "off"
    /\ writer = "off"
    /\ ticker = "off"
    /\ packet = None
    /\ real = None
    /\ reply = None
    /\ toReal = [p \in Places |-> None]
    /\ toPlace = [r \in Reals |-> None]
    /\ errs = 0
    /\ name = None
    /\ had = [p \in Places |-> {}]
    /\ told = {}
    /\ sent = {}

----------------------------------------------------------------------------
(* Around the session. *)

\* The pool has come round to p, and n asks.
Reassign(p, n) ==
    /\ \A q \in Places : byIP[q] # n
    /\ byIP' = [byIP EXCEPT ![p] = n]
    /\ had' = IF reader = "off" THEN had ELSE [had EXCEPT ![p] = @ \cup {n}]
    /\ UNCHANGED <<gateway, session, outward, inward, ticker>>

\* The route goes down or comes up, or the server's udpgw does.
GatewayChanges ==
    /\ reachable' = ~reachable
    /\ missed' = (missed \/ (reachable /\ stage = "dialing" /\ way = "route"))
    /\ others' = [o \in Others |->
                    IF reachable /\ others[o] = "dialing" THEN "missed" ELSE others[o]]
    /\ UNCHANGED <<wait, pool, session, outward, inward, ticker>>

Tick ==
    /\ wait > 0
    /\ wait' = wait - 1
    /\ UNCHANGED <<reachable, others, missed, pool, session, outward, inward, ticker>>

\* The app, its idle timer, or SetRouter.
CloseConn ==
    /\ open
    /\ open' = FALSE
    /\ UNCHANGED <<stage, way, errs, pool, gateway, outward, inward, ticker>>

\* Another session finds the route not refused and dials.
OtherArrives(o) ==
    /\ others[o] = "idle"
    /\ wait = 0
    /\ others' = [others EXCEPT ![o] = IF reachable THEN "dialing" ELSE "missed"]
    /\ UNCHANGED <<reachable, wait, missed, pool, session, outward, inward, ticker>>

OtherBegins(o) ==
    /\ others[o] \in {"dialing", "missed"}
    /\ reachable
    /\ others' = [others EXCEPT ![o] = "relaying"]
    /\ UNCHANGED <<reachable, wait, missed, pool, session, outward, inward, ticker>>

\* Its minute begins now, whatever is left of another's.
OtherFails(o) ==
    /\ others[o] = "missed"
    /\ others' = [others EXCEPT ![o] = "idle"]
    /\ wait' = Hold
    /\ UNCHANGED <<reachable, missed, pool, session, outward, inward, ticker>>

OtherEnds(o) ==
    /\ others[o] = "relaying"
    /\ others' = [others EXCEPT ![o] = "idle"]
    /\ UNCHANGED <<reachable, wait, missed, pool, session, outward, inward, ticker>>

----------------------------------------------------------------------------
(* handleUDP. *)

AllOff == reader = "off" /\ writer = "off" /\ ticker = "off"

\* Faulty variant: what an earlier session resolved is kept.
ArriveKnowing(w) ==
    /\ stage = "idle"
    /\ AllOff
    /\ way' = w
    /\ stage' = "dialing"
    /\ open' = TRUE
    /\ missed' = (w = "route" /\ ~reachable)
    /\ sent' = {}
    /\ errs' = 0
    /\ w = "route" => wait = 0
    /\ UNCHANGED <<pool, reachable, wait, others, reader, packet, real, maps, name, told,
                   writer, reply, ticker>>

\* A session over a route that is not to be asked ends here.
Arrive(w) ==
    /\ stage = "idle"
    /\ AllOff
    /\ w = "route" => wait = 0
    /\ way' = w
    /\ stage' = "dialing"
    /\ open' = TRUE
    /\ missed' = (w = "route" /\ ~reachable)
    /\ toReal' = [p \in Places |-> None]
    /\ toPlace' = [r \in Reals |-> None]
    /\ sent' = {}
    /\ errs' = 0
    /\ UNCHANGED <<pool, reachable, wait, others, reader, packet, real, name, told,
                   writer, reply, ticker>>

\* Faulty variant: a refusal counts as another failure.
RefuseAnew ==
    /\ stage = "idle"
    /\ wait > 0
    /\ wait' = Hold
    /\ UNCHANGED <<reachable, others, missed, pool, session, outward, inward, ticker>>

\* Within the minute, a session over the route is refused at once.
Refuse ==
    /\ stage = "idle"
    /\ wait > 0
    /\ UNCHANGED vars

Begin ==
    /\ stage = "dialing"
    /\ way = "route" => reachable
    /\ stage' = "relaying"
    /\ reader' = "reading"
    /\ writer' = "receiving"
    /\ ticker' = IF way = "route" THEN "on" ELSE "off"
    /\ missed' = FALSE
    /\ had' = [p \in Places |-> {byIP[p]} \ {None}]
    /\ UNCHANGED <<byIP, reachable, wait, others, way, open, errs, packet, real, maps,
                   name, told, sent, reply>>

\* No connection to the gateway, or no socket.
CannotBegin ==
    /\ stage = "dialing"
    /\ way = "route" => missed
    /\ wait' = IF way = "route" THEN Hold ELSE wait
    /\ stage' = "idle"
    /\ open' = FALSE
    /\ missed' = FALSE
    /\ UNCHANGED <<pool, reachable, others, way, errs, outward, inward, ticker>>

\* The first error ends the session; nobody receives the others.
Receive ==
    /\ stage = "relaying"
    /\ errs > 0
    /\ errs' = errs - 1
    /\ open' = FALSE
    /\ stage' = "idle"
    /\ UNCHANGED <<way, pool, gateway, outward, inward, ticker>>

----------------------------------------------------------------------------
(* The goroutines of a session. *)

\* Faulty variant: the channel has room for one.
SendErrOne ==
    /\ errs < 1
    /\ errs' = errs + 1

\* It has room for all of them.
SendErr ==
    /\ errs < (IF way = "route" THEN 3 ELSE 2)
    /\ errs' = errs + 1

ReaderEnds ==
    /\ SendErr
    /\ reader' = "off"
    /\ packet' = None
    /\ real' = None
    /\ name' = None
    /\ had' = [p \in Places |-> {}]
    /\ told' = {}
    /\ UNCHANGED <<byIP, gateway, conn, maps, sent, inward, ticker>>

\* The far end: closed with the session.
FarOpen == stage = "relaying"

\* Where packets to an address go, as far as the session knows.
Known(to) == IF to \in Reals THEN to ELSE toReal[to]

\* The app sends a packet to t.
Read(t) ==
    /\ reader = "reading"
    /\ open
    /\ \/ /\ Known(t) # None
          /\ reader' = "sending"
          /\ packet' = t
          /\ real' = Known(t)
          /\ UNCHANGED <<pool, gateway, session, maps, name, told, sent, inward, ticker>>
       \/ /\ Known(t) = None
          /\ byIP[t] # None
          /\ reader' = "looking"
          /\ packet' = t
          /\ name' = byIP[t]
          /\ UNCHANGED <<pool, gateway, session, maps, real, told, sent, inward, ticker>>
       \/ /\ Known(t) = None
          /\ byIP[t] = None
          /\ ReaderEnds

ReadFails ==
    /\ reader = "reading"
    /\ ~open
    /\ ReaderEnds

\* Faulty variant: only the way out is kept.
LookedUpOneWay(r) ==
    /\ reader = "looking"
    /\ reader' = "sending"
    /\ real' = r
    /\ toReal' = [toReal EXCEPT ![packet] = r]
    /\ told' = told \cup {<<name, r>>}
    /\ name' = None
    /\ UNCHANGED <<pool, gateway, session, packet, toPlace, sent, inward, ticker>>

LookedUp(r) ==
    /\ reader = "looking"
    /\ reader' = "sending"
    /\ real' = r
    /\ toReal' = [toReal EXCEPT ![packet] = r]
    /\ toPlace' = [toPlace EXCEPT ![r] = packet]
    /\ told' = told \cup {<<name, r>>}
    /\ name' = None
    /\ UNCHANGED <<pool, gateway, session, packet, sent, inward, ticker>>

LookupFails ==
    /\ reader = "looking"
    /\ ReaderEnds

Send ==
    /\ reader = "sending"
    /\ FarOpen
    /\ sent' = sent \cup {<<real, packet>>}
    /\ reader' = "reading"
    /\ packet' = None
    /\ real' = None
    /\ UNCHANGED <<pool, gateway, session, maps, name, told, inward, ticker>>

\* Also because the session has ended.
SendFails ==
    /\ reader = "sending"
    /\ ReaderEnds

\* A packet comes in; the server's socket is there once a packet went out.
Answer(r) ==
    /\ writer = "receiving"
    /\ FarOpen
    /\ way = "route" => sent # {}
    /\ writer' = "translating"
    /\ reply' = r
    /\ UNCHANGED <<pool, gateway, session, outward, ticker>>

\* Who the app is shown it is from.
Shown(r) == IF toPlace[r] # None THEN toPlace[r] ELSE r

Deliver ==
    /\ writer = "translating"
    /\ reply' = None
    /\ \/ /\ open
          /\ writer' = "receiving"
          /\ UNCHANGED errs
       \/ /\ ~open
          /\ SendErr
          /\ writer' = "off"
    /\ UNCHANGED <<pool, gateway, conn, outward, ticker>>

\* The far end is closed, fails, or, past the tunnel, has said nothing for two
\* minutes.
ReceiveFails ==
    /\ writer = "receiving"
    /\ SendErr
    /\ writer' = "off"
    /\ UNCHANGED <<pool, gateway, conn, outward, reply, ticker>>

\* Two minutes without a packet; the ticker outlives the session that long.
TickerEnds ==
    /\ ticker = "on"
    /\ SendErr
    /\ ticker' = "off"
    /\ UNCHANGED <<pool, gateway, conn, outward, inward>>

----------------------------------------------------------------------------
Handling == Begin \/ CannotBegin \/ Receive

Reading ==
    \/ ReadFails \/ LookupFails \/ Send \/ SendFails
    \/ \E r \in Reals : LookedUp(r)

Writing == Deliver \/ ReceiveFails \/ \E r \in Reals : Answer(r)

OtherDialEnds(o) == OtherBegins(o) \/ OtherFails(o)

Sharing == \E o \in Others : OtherArrives(o) \/ OtherDialEnds(o) \/ OtherEnds(o)

Next ==
    \/ Handling \/ Reading \/ Writing \/ TickerEnds \/ Sharing
    \/ \E t \in Targets : Read(t)
    \/ \E w \in {"route", "past"} : Arrive(w)
    \/ \E p \in Places, n \in Names : Reassign(p, n)
    \/ Refuse \/ GatewayChanges \/ Tick \/ CloseConn

Spec == Init /\ [][Next]_vars

\* Time passes, a dial and a lookup have a limit, a closed end returns an error;
\* apps go on opening sessions, and none lasts for ever.
FairSpec ==
    /\ Spec
    /\ WF_vars(Tick)
    /\ WF_vars(Handling)
    /\ WF_vars(Reading)
    /\ WF_vars(Deliver)
    /\ WF_vars(~FarOpen /\ ReceiveFails)
    /\ WF_vars(TickerEnds)
    /\ \A o \in Others :
        WF_vars(OtherArrives(o)) /\ WF_vars(OtherDialEnds(o)) /\ WF_vars(OtherEnds(o))

----------------------------------------------------------------------------
(* Properties. *)

\* The app is shown a packet as from a placeholder that stands for its sender,
\* or from the sender if the app sent nothing to it by a placeholder, also while a
\* lookup is changing the maps.
RepliesAreKnown ==
    writer = "translating" =>
        \/ Shown(reply) \in Places /\ toReal[Shown(reply)] = reply
        \/ Shown(reply) = reply /\ \A s \in sent : s[1] = reply => s[2] = reply

\* What the app sends to a placeholder goes to an address that this session was
\* told, by a lookup, for a name the placeholder had since it began.
GoesToItsName ==
    reader = "sending" /\ packet \in Places =>
        \E n \in had[packet] : <<n, real>> \in told

\* However a session ends, all its goroutines do.
EveryoneEnds == ~open ~> AllOff

\* Over a route whose gateway stays within reach, sessions come about again: dials
\* that go on failing late, each with a minute of its own, and refusals in the
\* meantime do not put it off for ever.
IsAskedAgain ==
    <>[]reachable => \A o \in Others : []<>(others[o] = "relaying")
=============================================================================
