---------------------------- MODULE RelayProofs ----------------------------
(***************************************************************************)
(* For any names, addresses, sessions and waits: a reply is shown as from  *)
(* the address the app wrote to, a packet goes to an address its session   *)
(* was told for a name of its placeholder, and no goroutine of a session   *)
(* waits for room in the error channel.                                    *)
(***************************************************************************)
EXTENDS Relay, TLAPS

\* How many errors fit in the channel.
Room == IF way = "route" THEN 3 ELSE 2

\* The goroutines that still have an error to send.
Running ==
    (IF reader = "off" THEN 0 ELSE 1) + (IF writer = "off" THEN 0 ELSE 1)
        + (IF ticker = "off" THEN 0 ELSE 1)

\* No error a session's goroutines send ever waits, though handleUDP takes only
\* the first.
NeverBlocked == ~AllOff => errs < Room

----------------------------------------------------------------------------
\* A session that dials has nothing of an earlier one, nor anyone running.
Fresh ==
    stage = "dialing" => AllOff /\ errs = 0 /\ \A p \in Places : toReal[p] = None

\* The errors sent and those to come fit in the channel; past the tunnel there is
\* no ticker.
Fits == errs + Running <= Room /\ (way = "past" => ticker = "off")

\* What the reader has in hand.
InHand ==
    /\ reader = "looking" => packet \in Places /\ toReal[packet] = None
    /\ reader = "sending" => packet \in Targets /\ real \in Reals /\ Known(packet) = real

\* A real address the app reached by a placeholder has one that stands for it.
BothWays ==
    /\ \A p \in Places : toReal[p] # None => toPlace[toReal[p]] # None
    /\ \A r \in Reals : toPlace[r] # None => toReal[toPlace[r]] = r

\* Who got a packet is who the app means by the address it had sent it to.
SentRight == \A s \in sent : Known(s[2]) = s[1]

\* A packet that came in has a sender.
Answered == writer = "translating" => reply \in Reals

\* What the reader asks for, and what it was told: each belongs to a name that the
\* placeholder had, and the pool's present name is one of these.
Asked == reader = "looking" => name \in had[packet]
Told == \A p \in Places : toReal[p] # None => \E n \in had[p] : <<n, toReal[p]>> \in told
Follows == \A p \in Places : byIP[p] # None => byIP[p] \in had[p]

Named == reader # "off" => Asked /\ Told /\ Follows

Maps == Fresh /\ InHand /\ BothWays /\ SentRight

IInv == TypeOK /\ Maps /\ Fits /\ Answered /\ Named

----------------------------------------------------------------------------
\* The rest of a session's end, whichever goroutine it is.
LEMMA OneMoreError ==
  ASSUME TypeOK, SendErr
  PROVE  errs' \in 0 .. 3 /\ errs' = errs + 1 /\ errs' <= Room
  BY DEF TypeOK, SendErr, Room

LEMMA InitIInv == Init => IInv
<1> SUFFICES ASSUME Init PROVE IInv
  OBVIOUS
<1> USE RelayAssumption
<1>1. TypeOK
  <2>1. reachable \in BOOLEAN /\ open \in BOOLEAN /\ missed \in BOOLEAN
    BY DEF Init
  <2>2. wait \in 0 .. Hold /\ errs \in 0 .. 3
    BY DEF Init
  <2>3. /\ toReal \in [Places -> Reals \cup {None}] /\ toPlace \in [Reals -> Places \cup {None}]
        /\ had \in [Places -> SUBSET Names] /\ byIP \in [Places -> Names \cup {None}]
        /\ others \in [Others -> {"idle", "dialing", "missed", "relaying"}]
    BY DEF Init
  <2> QED
    BY <2>1, <2>2, <2>3 DEF Init, TypeOK
<1>2. Fits
  BY DEF Init, Fits, Running, Room
<1>3. Maps /\ Answered /\ Named
  BY DEF Init, Maps, Fresh, InHand, BothWays, SentRight, Answered, Named, AllOff
<1> QED
  BY <1>1, <1>2, <1>3 DEF IInv

----------------------------------------------------------------------------
\* Types.
LEMMA TypeStep ==
  ASSUME TypeOK, InHand, Named, [Next]_vars
  PROVE  TypeOK'
<1> USE RelayAssumption
<1>1. ASSUME NEW p \in Places, NEW n \in Names, Reassign(p, n)  PROVE TypeOK'
  <2>1. had' \in [Places -> SUBSET Names]
    BY <1>1 DEF Reassign, TypeOK
  <2>2. byIP' \in [Places -> Names \cup {None}]
    BY <1>1 DEF Reassign, TypeOK
  <2> QED
    BY <1>1, <2>1, <2>2 DEF Reassign, TypeOK, gateway, session, conn, outward, maps, inward
<1>2. CASE GatewayChanges \/ Tick \/ CloseConn
  <2>1. reachable' \in BOOLEAN /\ open' \in BOOLEAN
    BY <1>2 DEF GatewayChanges, Tick, CloseConn, TypeOK, gateway, session, conn
  <2>2. wait' \in 0 .. Hold
    BY <1>2 DEF GatewayChanges, Tick, CloseConn, TypeOK, gateway
  <2>3. missed' \in BOOLEAN
    BY <1>2 DEF GatewayChanges, Tick, CloseConn, TypeOK, gateway
  <2>4. others' \in [Others -> {"idle", "dialing", "missed", "relaying"}]
    BY <1>2 DEF GatewayChanges, Tick, CloseConn, TypeOK, gateway
  <2>5. UNCHANGED <<pool, stage, way, errs, outward, inward, ticker>>
    BY <1>2 DEF GatewayChanges, Tick, CloseConn, session, conn
  <2> QED
    BY <2>1, <2>2, <2>3, <2>4, <2>5 DEF TypeOK, pool, outward, maps, inward
<1>3. ASSUME NEW w \in {"route", "past"}, Arrive(w)  PROVE TypeOK'
  <2>1. missed' \in BOOLEAN
    BY <1>3 DEF Arrive
  <2> QED
    BY <1>3, <2>1 DEF Arrive, TypeOK, pool
<1>4. CASE Begin
  <2>1. had' \in [Places -> SUBSET Names]
    BY <1>4 DEF Begin, TypeOK
  <2> QED
    BY <1>4, <2>1 DEF Begin, TypeOK, maps
<1>5. CASE CannotBegin
  <2>1. wait' \in 0 .. Hold
    BY <1>5 DEF CannotBegin, TypeOK
  <2>2. open' \in BOOLEAN /\ missed' \in BOOLEAN /\ reachable' \in BOOLEAN
    BY <1>5 DEF CannotBegin, TypeOK
  <2>3. others' \in [Others -> {"idle", "dialing", "missed", "relaying"}]
    BY <1>5 DEF CannotBegin, TypeOK
  <2> QED
    BY <1>5, <2>1, <2>2, <2>3 DEF CannotBegin, TypeOK, pool, outward, maps, inward
<1>6. CASE Receive
  <2>1. errs' \in 0 .. 3
    BY <1>6 DEF Receive, TypeOK
  <2>2. open' \in BOOLEAN
    BY <1>6 DEF Receive
  <2> QED
    BY <1>6, <2>1, <2>2 DEF Receive, TypeOK, pool, gateway, outward, maps, inward
<1>7. CASE ReaderEnds
  <2>1. errs' \in 0 .. 3
    BY <1>7, OneMoreError DEF ReaderEnds
  <2>2. had' \in [Places -> SUBSET Names]
    BY <1>7 DEF ReaderEnds
  <2> QED
    BY <1>7, <2>1, <2>2 DEF ReaderEnds, TypeOK, gateway, conn, maps, inward
<1>8. ASSUME NEW t \in Targets, Read(t)  PROVE TypeOK'
  <2>1. Known(t) \in Reals \cup {None}
    BY DEF Known, Targets, TypeOK
  <2>2. CASE Known(t) = None /\ byIP[t] = None
    BY <1>7, <1>8, <2>2 DEF Read
  <2>3. CASE Known(t) # None
    BY <1>8, <2>1, <2>3 DEF Read, TypeOK, pool, gateway, session, conn, maps, inward
  <2>4. CASE Known(t) = None /\ byIP[t] # None
    <3>1. t \in Places
      BY <2>4 DEF Known, Targets
    <3>2. name' \in Names
      BY <1>8, <2>4, <3>1 DEF Read, TypeOK
    <3> QED
      BY <1>8, <2>4, <3>2 DEF Read, TypeOK, pool, gateway, session, conn, maps, inward
  <2> QED
    BY <2>2, <2>3, <2>4
<1>9. CASE ReadFails \/ LookupFails \/ SendFails
  BY <1>7, <1>9 DEF ReadFails, LookupFails, SendFails
<1>10. ASSUME NEW r \in Reals, LookedUp(r)  PROVE TypeOK'
  <2>1. packet \in Places /\ name \in Names
    BY <1>10 DEF LookedUp, InHand, Named, Asked, TypeOK
  <2>2. toReal' \in [Places -> Reals \cup {None}] /\ toPlace' \in [Reals -> Places \cup {None}]
    BY <1>10, <2>1 DEF LookedUp, TypeOK
  <2>3. told' \subseteq Names \X Reals
    BY <1>10, <2>1 DEF LookedUp, TypeOK
  <2> QED
    BY <1>10, <2>2, <2>3 DEF LookedUp, TypeOK, pool, gateway, session, conn, inward
<1>11. CASE Send
  BY <1>11 DEF Send, InHand, TypeOK, pool, gateway, session, conn, maps, inward
<1>12. ASSUME NEW r \in Reals, Answer(r)  PROVE TypeOK'
  BY <1>12 DEF Answer, TypeOK, pool, gateway, session, conn, outward, maps
<1>13. CASE Deliver
  <2>1. errs' \in 0 .. 3
    BY <1>13, OneMoreError DEF Deliver, TypeOK
  <2> QED
    BY <1>13, <2>1 DEF Deliver, TypeOK, pool, gateway, conn, outward, maps
<1>14. CASE ReceiveFails
  <2>1. errs' \in 0 .. 3
    BY <1>14, OneMoreError DEF ReceiveFails
  <2> QED
    BY <1>14, <2>1 DEF ReceiveFails, TypeOK, pool, gateway, conn, outward, maps
<1>15. CASE TickerEnds
  <2>1. errs' \in 0 .. 3
    BY <1>15, OneMoreError DEF TickerEnds
  <2> QED
    BY <1>15, <2>1 DEF TickerEnds, TypeOK, pool, gateway, conn, outward, maps, inward
<1>16. CASE Sharing
  <2>1. wait' \in 0 .. Hold
    BY <1>16 DEF Sharing, OtherArrives, OtherDialEnds, OtherBegins, OtherFails, OtherEnds, TypeOK
  <2>2. others' \in [Others -> {"idle", "dialing", "missed", "relaying"}]
    BY <1>16 DEF Sharing, OtherArrives, OtherDialEnds, OtherBegins, OtherFails, OtherEnds, TypeOK
  <2>3. UNCHANGED <<reachable, missed, pool, session, outward, inward, ticker>>
    BY <1>16 DEF Sharing, OtherArrives, OtherDialEnds, OtherBegins, OtherFails, OtherEnds
  <2> QED
    BY <2>1, <2>2, <2>3 DEF TypeOK, pool, session, conn, outward, maps, inward
<1>17. CASE Refuse \/ UNCHANGED vars
  BY <1>17 DEF Refuse, TypeOK, vars, pool, gateway, session, conn, outward, maps, inward
<1> QED
  BY <1>1, <1>2, <1>3, <1>4, <1>5, <1>6, <1>8, <1>9, <1>10, <1>11, <1>12, <1>13, <1>14, <1>15,
     <1>16, <1>17 DEF Next, Handling, Reading, Writing

----------------------------------------------------------------------------
\* The error channel: whoever ends takes the room that was kept for it.
LEMMA FitsStep ==
  ASSUME TypeOK, Fresh, Fits, [Next]_vars
  PROVE  Fits'
<1> USE DEF Fits, Running, Room
<1>1. ASSUME NEW p \in Places, NEW n \in Names, Reassign(p, n)  PROVE Fits'
  BY <1>1 DEF Reassign, session, conn, outward, inward
<1>2. CASE GatewayChanges \/ Tick \/ CloseConn \/ Sharing
  BY <1>2 DEF GatewayChanges, Tick, CloseConn, Sharing, OtherArrives, OtherDialEnds, OtherBegins,
       OtherFails, OtherEnds, session, conn, outward, inward
<1>3. ASSUME NEW w \in {"route", "past"}, Arrive(w)  PROVE Fits'
  BY <1>3 DEF Arrive, AllOff
<1>4. CASE Begin
  BY <1>4 DEF Begin, Fresh, AllOff, TypeOK
<1>5. CASE CannotBegin
  BY <1>5 DEF CannotBegin, outward, inward
<1>6. CASE Receive
  BY <1>6 DEF Receive, TypeOK, outward, inward
<1>7. ASSUME ReaderEnds, reader # "off"  PROVE Fits'
  BY <1>7, OneMoreError DEF ReaderEnds, TypeOK, conn, inward
<1>8. ASSUME NEW t \in Targets, Read(t)  PROVE Fits'
  BY <1>7, <1>8 DEF Read, session, conn, inward
<1>9. CASE ReadFails \/ LookupFails \/ SendFails
  BY <1>7, <1>9 DEF ReadFails, LookupFails, SendFails
<1>10. ASSUME NEW r \in Reals, LookedUp(r)  PROVE Fits'
  BY <1>10 DEF LookedUp, session, conn, inward
<1>11. CASE Send
  BY <1>11 DEF Send, session, conn, inward
<1>12. ASSUME NEW r \in Reals, Answer(r)  PROVE Fits'
  BY <1>12 DEF Answer, session, conn, outward
<1>13. CASE Deliver
  BY <1>13, OneMoreError DEF Deliver, TypeOK, conn, outward
<1>14. CASE ReceiveFails
  BY <1>14, OneMoreError DEF ReceiveFails, TypeOK, conn, outward
<1>15. CASE TickerEnds
  BY <1>15, OneMoreError DEF TickerEnds, TypeOK, conn, outward, inward
<1>16. CASE Refuse \/ UNCHANGED vars
  BY <1>16 DEF Refuse, vars, session, conn, outward, inward
<1> QED
  BY <1>1, <1>2, <1>3, <1>4, <1>5, <1>6, <1>8, <1>9, <1>10, <1>11, <1>12, <1>13, <1>14, <1>15,
     <1>16 DEF Next, Handling, Reading, Writing

----------------------------------------------------------------------------
\* The maps: they are begun anew with the session, and a lookup that ends adds to
\* both what neither has yet.
LEMMA MapsStep ==
  ASSUME TypeOK, Maps, [Next]_vars
  PROVE  Maps'
<1> USE RelayAssumption DEF Maps
<1>1. ASSUME UNCHANGED <<stage, reader, writer, ticker, errs, packet, real, toReal, toPlace, sent>>
      PROVE  Maps'
  BY <1>1 DEF Fresh, InHand, BothWays, SentRight, Known, AllOff
<1>2. ASSUME NEW p \in Places, NEW n \in Names, Reassign(p, n)  PROVE Maps'
  <2>1. UNCHANGED <<stage, reader, writer, ticker, errs, packet, real, toReal, toPlace, sent>>
    BY <1>2 DEF Reassign, session, conn, outward, maps, inward
  <2> QED
    BY <1>1, <2>1
<1>3. CASE GatewayChanges \/ Tick \/ CloseConn \/ Sharing \/ Refuse \/ UNCHANGED vars
  <2>1. UNCHANGED <<stage, reader, writer, ticker, errs, packet, real, toReal, toPlace, sent>>
    BY <1>3 DEF GatewayChanges, Tick, CloseConn, Sharing, OtherArrives, OtherDialEnds,
         OtherBegins, OtherFails, OtherEnds, Refuse, vars, session, conn, outward, maps, inward
  <2> QED
    BY <1>1, <2>1
<1>4. ASSUME NEW w \in {"route", "past"}, Arrive(w)  PROVE Maps'
  BY <1>4 DEF Arrive, AllOff, Fresh, InHand, BothWays, SentRight
<1>5. ASSUME stage' # "dialing", UNCHANGED <<packet, real, toReal, toPlace, sent>>,
             reader' = reader \/ reader' = "reading"
      PROVE  Maps'
  BY <1>5 DEF Fresh, InHand, BothWays, SentRight, Known
<1>6. CASE Handling
  BY <1>5, <1>6 DEF Handling, Begin, CannotBegin, Receive, outward, maps
<1>7. ASSUME stage = "dialing" => AllOff,
             stage' = stage, reader # "off" \/ writer # "off" \/ ticker # "off"
      PROVE  Fresh'
  BY <1>7 DEF Fresh, AllOff
<1>8. stage = "dialing" => AllOff
  BY DEF Fresh
<1>9. ASSUME ReaderEnds, reader # "off"  PROVE Maps'
  <2>1. Fresh'
    BY <1>7, <1>8, <1>9 DEF ReaderEnds, conn
  <2> QED
    BY <1>9, <2>1 DEF ReaderEnds, maps, InHand, BothWays, SentRight, Known
<1>10. ASSUME NEW t \in Targets, Read(t)  PROVE Maps'
  <2>1. CASE Known(t) = None /\ byIP[t] = None
    BY <1>9, <1>10, <2>1 DEF Read
  <2>2. CASE Known(t) # None
    <3>1. Fresh'
      BY <1>7, <1>8, <1>10, <2>2 DEF Read, session, conn
    <3>2. InHand'
      BY <1>10, <2>2 DEF Read, maps, InHand, Known, Targets, TypeOK
    <3> QED
      BY <1>10, <2>2, <3>1, <3>2 DEF Read, maps, BothWays, SentRight, Known
  <2>3. CASE Known(t) = None /\ byIP[t] # None
    <3>1. t \in Places /\ toReal[t] = None
      BY <2>3 DEF Known, Targets
    <3>2. Fresh'
      BY <1>7, <1>8, <1>10, <2>3 DEF Read, session, conn
    <3>3. InHand'
      BY <1>10, <2>3, <3>1 DEF Read, maps, InHand
    <3> QED
      BY <1>10, <2>3, <3>2, <3>3 DEF Read, maps, BothWays, SentRight, Known
  <2> QED
    BY <2>1, <2>2, <2>3
<1>11. CASE ReadFails \/ LookupFails \/ SendFails
  BY <1>9, <1>11 DEF ReadFails, LookupFails, SendFails
<1>12. ASSUME NEW r \in Reals, LookedUp(r)  PROVE Maps'
  <2>1. packet \in Places /\ toReal[packet] = None /\ packet # None /\ packet \notin Reals
    BY <1>12 DEF LookedUp, InHand
  <2>2. /\ \A p \in Places : toReal'[p] = IF p = packet THEN r ELSE toReal[p]
        /\ \A q \in Reals : toPlace'[q] = IF q = r THEN packet ELSE toPlace[q]
    BY <1>12 DEF LookedUp, TypeOK
  <2>3. Fresh'
    BY <1>7, <1>8, <1>12 DEF LookedUp, session, conn
  <2>4. InHand'
    BY <1>12, <2>1, <2>2 DEF LookedUp, InHand, Known, Targets
  <2>5. BothWays'
    <3>1. \A p \in Places : toReal'[p] # None => toPlace'[toReal'[p]] # None
      BY <2>1, <2>2 DEF BothWays, TypeOK
    <3>2. \A q \in Reals : toPlace'[q] # None => toReal'[toPlace'[q]] = q
      BY <2>1, <2>2 DEF BothWays, TypeOK
    <3> QED
      BY <3>1, <3>2 DEF BothWays
  <2>6. SentRight'
    <3>1. \A s \in sent : s[1] \in Reals /\ s[2] \in Targets /\ Known(s[2]) = s[1]
      BY DEF SentRight, TypeOK
    <3>2. sent' = sent
      BY <1>12 DEF LookedUp
    <3>3. ASSUME NEW s \in sent  PROVE Known(s[2])' = s[1]
      BY <2>1, <2>2, <3>1 DEF Known, Targets
    <3> QED
      BY <3>2, <3>3 DEF SentRight
  <2> QED
    BY <2>3, <2>4, <2>5, <2>6
<1>13. CASE Send
  <2>1. Fresh'
    BY <1>7, <1>8, <1>13 DEF Send, session, conn
  <2>2. Known(packet) = real
    BY <1>13 DEF Send, InHand
  <2>3. SentRight'
    BY <1>13, <2>2 DEF Send, maps, SentRight, Known
  <2> QED
    BY <1>13, <2>1, <2>3 DEF Send, maps, InHand, BothWays
<1>14. ASSUME writer # "off" \/ ticker # "off", UNCHANGED <<conn, outward>>
      PROVE  Maps'
  <2>1. Fresh'
    BY <1>7, <1>8, <1>14 DEF conn
  <2> QED
    BY <1>14, <2>1 DEF outward, maps, InHand, BothWays, SentRight, Known
<1>15. ASSUME NEW r \in Reals, Answer(r)  PROVE Maps'
  BY <1>14, <1>15 DEF Answer, session
<1>16. CASE Deliver \/ ReceiveFails \/ TickerEnds
  BY <1>14, <1>16 DEF Deliver, ReceiveFails, TickerEnds
<1>17. QED
  <2> HIDE DEF Maps
  <2> QED
    BY <1>2, <1>3, <1>4, <1>6, <1>10, <1>11, <1>12, <1>13, <1>15, <1>16
       DEF Next, Reading, Writing

----------------------------------------------------------------------------
\* Whatever the writer has in hand came from somebody.
LEMMA AnsweredStep ==
  ASSUME TypeOK, Answered, [Next]_vars
  PROVE  Answered'
<1>1. ASSUME writer' = writer, reply' = reply  PROVE Answered'
  BY <1>1 DEF Answered
<1>2. ASSUME writer' # "translating"  PROVE Answered'
  BY <1>2 DEF Answered
<1>3. ASSUME NEW p \in Places, NEW n \in Names, Reassign(p, n)  PROVE Answered'
  BY <1>1, <1>3 DEF Reassign, inward
<1>4. CASE GatewayChanges \/ Tick \/ CloseConn \/ Sharing \/ Refuse \/ UNCHANGED vars
  BY <1>1, <1>4 DEF GatewayChanges, Tick, CloseConn, Sharing, OtherArrives, OtherDialEnds,
       OtherBegins, OtherFails, OtherEnds, Refuse, vars, inward
<1>5. ASSUME NEW w \in {"route", "past"}, Arrive(w)  PROVE Answered'
  BY <1>1, <1>5 DEF Arrive
<1>6. CASE Handling
  BY <1>1, <1>2, <1>6 DEF Handling, Begin, CannotBegin, Receive, inward
<1>7. ASSUME NEW t \in Targets, Read(t)  PROVE Answered'
  BY <1>1, <1>7 DEF Read, ReaderEnds, inward
<1>8. CASE Reading
  BY <1>1, <1>8 DEF Reading, ReadFails, LookupFails, Send, SendFails, LookedUp, ReaderEnds, inward
<1>9. ASSUME NEW r \in Reals, Answer(r)  PROVE Answered'
  BY <1>9 DEF Answer, Answered
<1>10. CASE Deliver \/ ReceiveFails
  BY <1>2, <1>10 DEF Deliver, ReceiveFails
<1>11. CASE TickerEnds
  BY <1>1, <1>11 DEF TickerEnds, inward
<1> QED
  BY <1>3, <1>4, <1>5, <1>6, <1>7, <1>8, <1>9, <1>10, <1>11 DEF Next, Writing

\* The names a placeholder had are noted from the session's beginning on, and a
\* lookup asks for one of them.
LEMMA NamedStep ==
  ASSUME TypeOK, Fresh, InHand, Named, [Next]_vars
  PROVE  Named'
<1> USE RelayAssumption
<1>1. ASSUME reader' = "off"  PROVE Named'
  BY <1>1 DEF Named
<1>2. ASSUME UNCHANGED <<reader, packet, toReal, name, told, pool>>  PROVE Named'
  BY <1>2 DEF Named, Asked, Told, Follows, pool
<1>3. ASSUME NEW p \in Places, NEW n \in Names, Reassign(p, n), reader # "off"  PROVE Named'
  <2>1. \A q \in Places : byIP'[q] = IF q = p THEN n ELSE byIP[q]
    BY <1>3 DEF Reassign, TypeOK
  <2>2. \A q \in Places : had'[q] = IF q = p THEN had[p] \cup {n} ELSE had[q]
    BY <1>3 DEF Reassign, TypeOK
  <2>3. Asked'
    BY <1>3, <2>2 DEF Reassign, outward, Named, Asked, InHand
  <2>4. Told'
    BY <1>3, <2>2 DEF Reassign, outward, maps, Named, Told
  <2>5. Follows'
    BY <1>3, <2>1, <2>2 DEF Named, Follows
  <2> QED
    BY <2>3, <2>4, <2>5 DEF Named
<1>4. CASE GatewayChanges \/ Tick \/ CloseConn \/ Sharing \/ Refuse \/ UNCHANGED vars
  BY <1>2, <1>4 DEF GatewayChanges, Tick, CloseConn, Sharing, OtherArrives, OtherDialEnds,
       OtherBegins, OtherFails, OtherEnds, Refuse, vars, outward, maps
<1>5. ASSUME NEW w \in {"route", "past"}, Arrive(w)  PROVE Named'
  BY <1>1, <1>5 DEF Arrive, AllOff
<1>6. CASE Begin
  <2>1. \A p \in Places : had'[p] = {byIP[p]} \ {None}
    BY <1>6 DEF Begin
  <2> QED
    BY <1>6, <2>1 DEF Begin, maps, Fresh, Named, Asked, Told, Follows
<1>7. CASE CannotBegin \/ Receive
  BY <1>2, <1>7 DEF CannotBegin, Receive, outward, maps
<1>8. ASSUME NEW t \in Targets, Read(t)  PROVE Named'
  <2>1. CASE Known(t) = None /\ byIP[t] = None
    BY <1>1, <1>8, <2>1 DEF Read, ReaderEnds
  <2>2. CASE Known(t) # None
    BY <1>8, <2>2 DEF Read, maps, Named, Asked, Told, Follows, pool
  <2>3. CASE Known(t) = None /\ byIP[t] # None
    <3>1. t \in Places
      BY <2>3 DEF Known, Targets
    <3> QED
      BY <1>8, <2>3, <3>1 DEF Read, maps, Named, Asked, Told, Follows, pool
  <2> QED
    BY <2>1, <2>2, <2>3
<1>9. CASE ReadFails \/ LookupFails \/ SendFails
  BY <1>1, <1>9 DEF ReadFails, LookupFails, SendFails, ReaderEnds
<1>10. ASSUME NEW r \in Reals, LookedUp(r)  PROVE Named'
  <2>1. \A q \in Places : toReal'[q] = IF q = packet THEN r ELSE toReal[q]
    BY <1>10 DEF LookedUp, TypeOK
  <2>2. name \in had[packet] /\ <<name, r>> \in told' /\ told \subseteq told' /\ had' = had
    BY <1>10 DEF LookedUp, Named, Asked, pool
  <2>3. Told'
    BY <1>10, <2>1, <2>2 DEF LookedUp, Named, Told
  <2> QED
    BY <1>10, <2>3 DEF LookedUp, Named, Asked, Follows, pool
<1>11. CASE Send
  BY <1>11 DEF Send, maps, Named, Asked, Told, Follows, pool
<1>12. ASSUME NEW r \in Reals, Answer(r)  PROVE Named'
  BY <1>2, <1>12 DEF Answer, outward, maps
<1>13. CASE Deliver \/ ReceiveFails \/ TickerEnds
  BY <1>2, <1>13 DEF Deliver, ReceiveFails, TickerEnds, outward, maps
<1>14. ASSUME NEW p \in Places, NEW n \in Names, Reassign(p, n)  PROVE Named'
  BY <1>1, <1>3, <1>14 DEF Reassign, outward
<1> QED
  BY <1>4, <1>5, <1>6, <1>7, <1>8, <1>9, <1>10, <1>11, <1>12, <1>13, <1>14
     DEF Next, Handling, Reading, Writing

----------------------------------------------------------------------------
(* The theorems. *)

\* The session's invariant.
THEOREM Invariance == Spec => []IInv
<1>1. IInv /\ [Next]_vars => IInv'
  BY TypeStep, FitsStep, MapsStep, AnsweredStep, NamedStep DEF IInv, Maps
<1> QED
  BY InitIInv, <1>1, PTL DEF Spec

\* The state of a session, its maps and its channel stays within its types.
THEOREM TypeCorrect == Spec => []TypeOK
<1>1. IInv => TypeOK
  BY DEF IInv
<1> QED
  BY Invariance, <1>1, PTL

\* A reply (translate, in both relays) is shown as from a placeholder that stands
\* for its sender, or from the sender if the app sent nothing to it by a
\* placeholder, wherever the reader is with its lookups and however the session
\* is ending.
THEOREM ShownAsKnown == Spec => []RepliesAreKnown
<1>1. ASSUME IInv, writer = "translating"
      PROVE  \/ Shown(reply) \in Places /\ toReal[Shown(reply)] = reply
             \/ Shown(reply) = reply /\ \A s \in sent : s[1] = reply => s[2] = reply
  <2>1. reply \in Reals /\ toPlace[reply] \in Places \cup {None}
    BY <1>1 DEF IInv, Answered, TypeOK
  <2>2. CASE toPlace[reply] # None
    BY <1>1, <2>1, <2>2 DEF IInv, Maps, BothWays, Shown
  <2>3. CASE toPlace[reply] = None
    <3>1. ASSUME NEW s \in sent, s[1] = reply  PROVE s[2] = reply
      <4>1. s[2] \in Targets /\ Known(s[2]) = reply
        BY <1>1, <3>1 DEF IInv, TypeOK, Maps, SentRight
      <4>2. s[2] \in Reals
        BY <1>1, <2>1, <2>3, <4>1, RelayAssumption DEF IInv, Maps, BothWays, Known, Targets
      <4> QED
        BY <4>1, <4>2 DEF Known
    <3> QED
      BY <2>3, <3>1 DEF Shown
  <2> QED
    BY <2>2, <2>3
<1>2. IInv => RepliesAreKnown
  BY <1>1 DEF RepliesAreKnown
<1> QED
  BY Invariance, <1>2, PTL

\* A packet to a placeholder goes to an address that a lookup of this session gave
\* for a name the placeholder had since the session began, however the pool gives
\* places away meanwhile: nothing of an earlier session, or of another
\* placeholder, decides where it goes.
THEOREM NameKept == Spec => []GoesToItsName
<1>1. ASSUME IInv, reader = "sending", packet \in Places
      PROVE  \E n \in had[packet] : <<n, real>> \in told
  <2>1. toReal[packet] = real /\ real \in Reals
    BY <1>1, RelayAssumption DEF IInv, Maps, InHand, Known
  <2>2. Told
    BY <1>1 DEF IInv, Named
  <2> QED
    BY <1>1, <2>1, <2>2, RelayAssumption DEF Told
<1>2. IInv => GoesToItsName
  BY <1>1 DEF GoesToItsName
<1> QED
  BY Invariance, <1>2, PTL

\* Whichever of a session's goroutines ends, and when, its error finds room in the
\* channel (make(chan error, 3) in relayUDPRoute, 2 in relayUDP), though nobody
\* receives after the first: none is left hanging.
THEOREM NobodyHangs == Spec => []NeverBlocked
<1>1. IInv => NeverBlocked
  BY DEF IInv, TypeOK, Fits, Running, Room, AllOff, NeverBlocked
<1> QED
  BY Invariance, <1>1, PTL
=============================================================================
