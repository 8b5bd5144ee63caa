------------------------------ MODULE FakeDNS ------------------------------
(***************************************************************************)
(* go/tun2socks/internal/fakedns: the pool of placeholder addresses, one   *)
(* per name, handed out round robin.  An address is its offset from the    *)
(* pool's base; names are normalized already.                              *)
(*                                                                         *)
(* Two histories say what an app may rely on: the last address it was      *)
(* given for a name, and how many names have got an address since.         *)
(***************************************************************************)
EXTENDS Integers

CONSTANTS
    Names,      \* but those that resolve for real whatever the rules say
    Size,       \* how many addresses there are
    None        \* no name, no address

Places == 0 .. Size - 1

ASSUME PoolAssumption ==
    /\ Size \in Nat \ {0}
    /\ None \notin Names
    /\ None \notin Places

VARIABLES
    next,       \* the place to hand out next
    byIP,       \* the name of a place
    byName,     \* the place of a name
    given,      \* history: what the last answer for a name was
    newer       \* history: names that got a place since this one did, up to Size

poolVars == <<next, byIP, byName, given, newer>>

PoolTypeOK ==
    /\ next \in Places
    /\ byIP \in [Places -> Names \cup {None}]
    /\ byName \in [Names -> Places \cup {None}]
    /\ given \in [Names -> Places \cup {None}]
    /\ newer \in [Names -> 0 .. Size]

PoolInit ==
    /\ next = 0
    /\ byIP = [p \in Places |-> None]
    /\ byName = [n \in Names |-> None]
    /\ given = [n \in Names |-> None]
    /\ newer = [n \in Names |-> 0]

----------------------------------------------------------------------------
Advance == next' = IF next + 1 = Size THEN 0 ELSE next + 1

\* History: n is given p.  A name that has a place was given it already.
Hand(n, p) ==
    /\ given' = [given EXCEPT ![n] = p]
    /\ newer' = [m \in Names |->
                    IF m = n THEN 0
                    ELSE IF newer[m] < Size THEN newer[m] + 1 ELSE Size]

\* Faulty variant: the name that had the place keeps it.
AssignShared(n) ==
    IF byName[n] # None
    THEN UNCHANGED poolVars
    ELSE /\ Advance
         /\ byIP' = [byIP EXCEPT ![next] = n]
         /\ byName' = [byName EXCEPT ![n] = next]
         /\ Hand(n, next)

\* Faulty variant: a place is used up by a name that has one.
AssignHasty(n) ==
    IF byName[n] # None
    THEN Advance /\ UNCHANGED <<byIP, byName, given, newer>>
    ELSE /\ Advance
         /\ byIP' = [byIP EXCEPT ![next] = n]
         /\ byName' = [m \in Names |->
                          IF m = n THEN next
                          ELSE IF m = byIP[next] THEN None ELSE byName[m]]
         /\ Hand(n, next)

\* The place of n; when it has none, the next one, whoever had it.
Assign(n) ==
    IF byName[n] # None
    THEN UNCHANGED poolVars
    ELSE /\ Advance
         /\ byIP' = [byIP EXCEPT ![next] = n]
         /\ byName' = [m \in Names |->
                          IF m = n THEN next
                          ELSE IF m = byIP[next] THEN None ELSE byName[m]]
         /\ Hand(n, next)

PoolNext == \E n \in Names : Assign(n)

PoolSpec == PoolInit /\ [][PoolNext]_poolVars

----------------------------------------------------------------------------
(* Properties. *)

\* The two maps of the pool are inverse to each other, also after it has
\* wrapped round: no place answers to a name that has another one.
PoolIsInverse ==
    /\ \A n \in Names : byName[n] # None => byIP[byName[n]] = n
    /\ \A p \in Places : byIP[p] # None => byName[byIP[p]] = p

\* What an app was told holds until as many names as there are places have
\* got one since: the oldest goes first, and asking again uses nothing up.
AnswersHold ==
    \A n \in Names : given[n] # None /\ newer[n] < Size => byIP[given[n]] = n
=============================================================================
