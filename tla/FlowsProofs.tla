---------------------------- MODULE FlowsProofs ----------------------------
(***************************************************************************)
(* The statistics of Flows hold together for any number of connections,    *)
(* keys and aggregates and any limit of either.                            *)
(*                                                                         *)
(* OpenCountsMatch is what makes it safe to evict a key that says it has   *)
(* nothing open, and OpenAreListed needs that; neither is inductive        *)
(* without the other, nor without knowing that no two keys share an        *)
(* aggregate (Separate).                                                   *)
(*                                                                         *)
(* The sums of EveryByteOnce are taken one element at a time in an order   *)
(* that is not known.  That they exist, and do not depend on the order, is *)
(* proved first (Sums): then a step that touches one connection, or one    *)
(* key, changes a sum by what it changes there.                            *)
(***************************************************************************)
EXTENDS Flows, TLAPS, FiniteSetTheorems, SequenceTheorems, WellFoundedInduction

\* The connections that count into a.
Attached(a) == {e \in Entries : agg[e] = a}

\* A loop runs while history is kept, and visits open connections.
Loops ==
    /\ loop # "none" => recording
    /\ loop = "none" => todo = {}

\* A handle that is not in use holds nothing; one that is has a key.
Handles ==
    \A e \in Entries :
        /\ e \notin Active => agg[e] = None
        /\ e \in Active => key[e] \in Keys
        /\ counted[e] <= moved[e]

\* No two keys have the same aggregate.
Separate == \A k, l \in Keys : keys[k] # None /\ keys[k] = keys[l] => k = l

\* Whatever an open connection counts into is listed under its key, and while
\* history is kept every one counts that the attaching loop has visited.
Counting ==
    /\ \A e \in Entries : agg[e] # None => agg[e] = keys[key[e]]
    /\ recording =>
          \A e \in Active : agg[e] # None \/ (loop = "attaching" /\ e \in todo)

\* A listed aggregate knows how many connections count into it.
Counts == \A k \in Listed : open[keys[k]] = Cardinality(Attached(keys[k]))

IInv == TypeOK /\ Loops /\ Handles /\ Separate /\ Counting /\ Counts

-----------------------------------------------------------------------------
(* Connections and the aggregates they count into *)

\* An entry that gets an aggregate makes one more there, and none elsewhere.
LEMMA OneMore ==
  ASSUME TypeOK,
         NEW e \in Entries, agg[e] = None,
         NEW a \in Aggregates, agg' = [agg EXCEPT ![e] = a]
  PROVE  /\ Cardinality(Attached(a)') = Cardinality(Attached(a)) + 1
         /\ \A b \in Aggregates : b # a => Attached(b)' = Attached(b)
<1> USE FlowsAssumption DEF TypeOK, Attached
<1>1. Attached(a)' = Attached(a) \cup {e} /\ e \notin Attached(a)
  OBVIOUS
<1>2. IsFiniteSet(Attached(a))
  BY FS_Subset
<1>3. Cardinality(Attached(a) \cup {e}) = Cardinality(Attached(a)) + 1
  BY <1>1, <1>2, FS_AddElement
<1>4. \A b \in Aggregates : b # a => Attached(b)' = Attached(b)
  OBVIOUS
<1> QED
  BY <1>1, <1>3, <1>4

\* An entry that lets go of its aggregate makes one less there.
LEMMA OneLess ==
  ASSUME TypeOK,
         NEW e \in Entries, agg[e] # None,
         agg' = [agg EXCEPT ![e] = None]
  PROVE  /\ Cardinality(Attached(agg[e])) \in Nat \ {0}
         /\ Cardinality({f \in Entries : agg'[f] = agg[e]}) = Cardinality(Attached(agg[e])) - 1
         /\ \A b \in Aggregates : b # agg[e] => Attached(b)' = Attached(b)
<1> USE FlowsAssumption DEF TypeOK, Attached
<1> DEFINE S == Attached(agg[e])
           T == {f \in Entries : agg'[f] = agg[e]}
<1>1. T = S \ {e} /\ e \in S
  OBVIOUS
<1>2. IsFiniteSet(S) /\ IsFiniteSet(S \ {e})
  BY FS_Subset
<1>3. Cardinality(S) \in Nat /\ Cardinality(S \ {e}) \in Nat
  BY <1>2, FS_CardinalityType
<1>4. Cardinality(S \ {e}) = Cardinality(S) - 1
  BY <1>1, <1>2, FS_RemoveElement
<1>5. \A b \in Aggregates : b # agg[e] => Attached(b)' = Attached(b)
  OBVIOUS
<1> HIDE DEF S, T
<1>6. Cardinality(S) \in Nat \ {0} /\ Cardinality(T) = Cardinality(S) - 1
  BY <1>1, <1>3, <1>4
<1> QED
  BY <1>5, <1>6 DEF S, T

\* A key that says it has nothing open can be dropped: nothing counts into it.
LEMMA IdleIsIdle ==
  ASSUME IInv, NEW k \in Idle
  PROVE  \A e \in Entries : agg[e] # keys[k]
<1>1. IsFiniteSet(Attached(keys[k]))
  BY FlowsAssumption, FS_Subset DEF Attached
<1>2. Cardinality(Attached(keys[k])) = 0
  BY DEF IInv, Counts, Idle
<1>3. Attached(keys[k]) = {}
  BY <1>1, <1>2, FS_EmptySet
<1> QED
  BY <1>3 DEF Attached

\* Attaching e to k leaves every other connection with its listed aggregate.
LEMMA AttachKeeps ==
  ASSUME IInv, NEW e \in Entries, agg[e] = None, NEW k \in Keys, Attach(e, k)
  PROVE  /\ keys' \in [Keys -> Aggregates \cup {None}]
         /\ open' \in [Aggregates -> Nat]
         /\ bytes' \in [Aggregates -> Nat]
         /\ gone' \in Nat
         /\ keys'[k] \in Aggregates
         /\ agg' = [agg EXCEPT ![e] = keys'[k]]
         /\ \A f \in Entries : agg[f] # None => keys'[key[f]] = agg[f]
         /\ Separate'
         /\ Counts'
<1> USE FlowsAssumption
<1>1. CASE JoinKey(e, k)
  <2> USE DEF JoinKey, IInv, TypeOK
  <2>1. keys[k] \in Aggregates
    BY <1>1
  <2>2. /\ Cardinality(Attached(keys[k])') = Cardinality(Attached(keys[k])) + 1
        /\ \A b \in Aggregates : b # keys[k] => Attached(b)' = Attached(b)
    BY <1>1, <2>1, OneMore
  <2>3. Separate'
    BY <1>1 DEF Separate
  <2>4. ASSUME NEW l \in Keys, keys[l] # None
        PROVE  open'[keys[l]] = Cardinality(Attached(keys[l])')
    <3>1. open[keys[l]] = Cardinality(Attached(keys[l]))
      BY <2>4 DEF Counts, Listed
    <3>2. CASE keys[l] = keys[k]
      BY <1>1, <2>1, <2>2, <3>1, <3>2
    <3>3. CASE keys[l] # keys[k]
      <4>1. keys[l] \in Aggregates
        BY <2>4
      <4>2. Attached(keys[l])' = Attached(keys[l])
        BY <1>1, <2>2, <3>3, <4>1 DEF Attached
      <4> QED
        BY <1>1, <3>1, <3>3, <4>1, <4>2
    <3> QED
      BY <3>2, <3>3
  <2>5. Counts'
    BY <1>1, <2>4 DEF Counts, Listed, Attached
  <2>6. /\ keys' \in [Keys -> Aggregates \cup {None}]
        /\ bytes' \in [Aggregates -> Nat] /\ gone' \in Nat
        /\ keys'[k] \in Aggregates
        /\ agg' = [agg EXCEPT ![e] = keys'[k]]
    BY <1>1, <2>1
  <2>7. open' \in [Aggregates -> Nat]
    <3>1. open' = [open EXCEPT ![keys[k]] = @ + 1] /\ open[keys[k]] + 1 \in Nat
      BY <1>1, <2>1
    <3> QED
      BY <2>1, <3>1
  <2>8. \A f \in Entries : agg[f] # None => keys'[key[f]] = agg[f]
    BY <1>1 DEF Counting
  <2> QED
    BY <2>3, <2>5, <2>6, <2>7, <2>8
<1>2. CASE AddKey(e, k)
  <2> USE DEF IInv, TypeOK
  <2>1. PICK a \in Unused :
            /\ agg' = [agg EXCEPT ![e] = a]
            /\ open' = [open EXCEPT ![a] = 1]
            /\ \/ /\ keys' = [keys EXCEPT ![k] = a]
                  /\ UNCHANGED <<bytes, gone>>
               \/ \E old \in Idle :
                     /\ keys' = [keys EXCEPT ![old] = None, ![k] = a]
                     /\ bytes' = [bytes EXCEPT ![keys[old]] = 0]
                     /\ gone' = gone + bytes[keys[old]]
    BY <1>2 DEF AddKey
  <2>2. /\ a \in Aggregates /\ a # None
        /\ \A l \in Keys : keys[l] # a
        /\ \A f \in Entries : agg[f] # a
        /\ keys[k] = None
    BY <1>2, <2>1 DEF AddKey, Unused
  <2>3. /\ keys' \in [Keys -> Aggregates \cup {None}]
        /\ keys'[k] = a
        /\ bytes' \in [Aggregates -> Nat]
        /\ gone' \in Nat
        /\ \A l \in Keys \ {k} : keys'[l] \in {keys[l], None}
    <3>1. CASE keys' = [keys EXCEPT ![k] = a] /\ UNCHANGED <<bytes, gone>>
      BY <2>2, <3>1
    <3>2. ASSUME NEW old \in Idle,
                 keys' = [keys EXCEPT ![old] = None, ![k] = a],
                 bytes' = [bytes EXCEPT ![keys[old]] = 0],
                 gone' = gone + bytes[keys[old]]
          PROVE  /\ keys' \in [Keys -> Aggregates \cup {None}]
                 /\ keys'[k] = a
                 /\ bytes' \in [Aggregates -> Nat]
                 /\ gone' \in Nat
                 /\ \A l \in Keys \ {k} : keys'[l] \in {keys[l], None}
      <4>1. keys[old] \in Aggregates /\ old \in Keys
        BY DEF Idle, Listed
      <4>2. old # k
        BY <2>2, <4>1 DEF Idle, Listed
      <4>3. /\ keys' \in [Keys -> Aggregates \cup {None}]
            /\ keys'[k] = a
            /\ \A l \in Keys \ {k} : keys'[l] \in {keys[l], None}
        BY <2>2, <3>2, <4>1, <4>2
      <4>4. bytes' \in [Aggregates -> Nat] /\ gone' \in Nat
        BY <3>2, <4>1, SMTT(30)
      <4> QED
        BY <4>3, <4>4
    <3> QED
      BY <2>1, <3>1, <3>2
  <2>4. \A f \in Entries : agg[f] # None => keys'[key[f]] = agg[f]
    <3> SUFFICES ASSUME NEW f \in Entries, agg[f] # None
                 PROVE  keys'[key[f]] = agg[f]
      OBVIOUS
    <3>1. keys[key[f]] = agg[f] /\ key[f] \in Keys
      BY DEF Counting, Handles
    <3>2. \A old \in Idle : key[f] # old
      BY <3>1, IdleIsIdle
    <3> QED
      BY <2>1, <2>2, <3>1, <3>2 DEF Idle, Listed
  <2>5. Separate'
    BY <2>2, <2>3 DEF Separate
  <2>6. Attached(a) = {}
    BY <2>2 DEF Attached
  <2>7. /\ Cardinality(Attached(a)') = 1
        /\ \A b \in Aggregates : b # a => Attached(b)' = Attached(b)
    <3>1. Cardinality(Attached(a)) = 0
      BY <2>6, FS_EmptySet
    <3>2. agg[e] = None /\ agg' = [agg EXCEPT ![e] = a]
      BY <2>1
    <3>3. /\ Cardinality(Attached(a)') = Cardinality(Attached(a)) + 1
          /\ \A b \in Aggregates : b # a => Attached(b)' = Attached(b)
      BY <2>2, <3>2, OneMore
    <3> QED
      BY <3>1, <3>3
  <2>8. ASSUME NEW l \in Keys, keys'[l] # None
        PROVE  open'[keys'[l]] = Cardinality({f \in Entries : agg'[f] = keys'[l]})
    <3>1. CASE l = k
      BY <2>1, <2>2, <2>3, <2>7, <3>1 DEF Attached
    <3>2. CASE l # k
      <4>1. keys'[l] = keys[l] /\ keys[l] # None /\ keys[l] \in Aggregates /\ keys[l] # a
        BY <2>2, <2>3, <2>8, <3>2
      <4>2. open[keys[l]] = Cardinality(Attached(keys[l]))
        BY <4>1 DEF Counts, Listed
      <4>3. {f \in Entries : agg'[f] = keys'[l]} = Attached(keys[l])
        BY <2>1, <2>2, <4>1 DEF Attached
      <4>4. open'[keys'[l]] = open[keys[l]]
        BY <2>1, <2>2, <4>1
      <4> QED
        BY <4>2, <4>3, <4>4
    <3> QED
      BY <3>1, <3>2
  <2>9. Counts'
    BY <2>8 DEF Counts, Listed, Attached
  <2> QED
    BY <2>1, <2>2, <2>3, <2>4, <2>5, <2>9
<1> QED
  BY <1>1, <1>2 DEF Attach

\* A connection that closes is taken off its key.
LEMMA LetGoKeeps ==
  ASSUME IInv, NEW e \in Entries,
         agg' = [agg EXCEPT ![e] = None],
         open' = IF agg[e] # None THEN [open EXCEPT ![agg[e]] = @ - 1] ELSE open,
         keys' = keys
  PROVE  open' \in [Aggregates -> Nat] /\ Counts'
<1> USE FlowsAssumption DEF IInv, TypeOK
<1>1. CASE agg[e] = None
  <2>1. agg' = agg /\ open' = open
    BY <1>1
  <2>2. \A k \in Keys : {f \in Entries : agg'[f] = keys'[k]} = Attached(keys[k])
    BY <2>1 DEF Attached
  <2>3. Counts'
    BY <2>1, <2>2, ZenonT(60) DEF Counts, Listed, Attached
  <2> QED
    BY <2>1, <2>3
<1>2. CASE agg[e] # None
  <2>1. agg[e] = keys[key[e]] /\ key[e] \in Keys /\ agg[e] \in Aggregates
    BY <1>2 DEF Counting, Handles
  <2>2. open[agg[e]] = Cardinality(Attached(agg[e]))
    BY <1>2, <2>1 DEF Counts, Listed
  <2>3. /\ Cardinality(Attached(agg[e])) \in Nat \ {0}
        /\ Cardinality({f \in Entries : agg'[f] = agg[e]}) = Cardinality(Attached(agg[e])) - 1
        /\ \A b \in Aggregates : b # agg[e] => Attached(b)' = Attached(b)
    BY <1>2, OneLess
  <2>4. open' \in [Aggregates -> Nat]
    BY <1>2, <2>1, <2>2, <2>3, SMTT(30)
  <2>5. ASSUME NEW l \in Keys, keys[l] # None
        PROVE  open'[keys[l]] = Cardinality({f \in Entries : agg'[f] = keys[l]})
    <3>1. open[keys[l]] = Cardinality(Attached(keys[l])) /\ keys[l] \in Aggregates
      BY <2>5 DEF Counts, Listed
    <3>2. CASE keys[l] = agg[e]
      BY <1>2, <2>1, <2>2, <2>3, <3>2
    <3>3. CASE keys[l] # agg[e]
      <4>1. {f \in Entries : agg'[f] = keys[l]} = Attached(keys[l])
        BY <3>1, <3>3 DEF Attached
      <4> QED
        BY <1>2, <2>1, <3>1, <3>3, <4>1
    <3> QED
      BY <3>2, <3>3
  <2> QED
    BY <2>4, <2>5, SMTT(30) DEF Counts, Listed, Attached
<1> QED
  BY <1>1, <1>2

\* The ring keeps its bounds, whether it still grows or has wrapped round.
LEMMA RememberKeeps ==
  ASSUME TypeOK, Remember
  PROVE  /\ closed' \in Seq(Nat) /\ Len(closed') <= Capacity
         /\ head' \in 0..(Capacity - 1)
         /\ seq' \in Nat
<1>1. closed \in Seq(Nat) /\ Len(closed) <= Capacity /\ head \in 0..(Capacity - 1)
  BY DEF TypeOK
<1>2. Capacity \in Nat \ {0} /\ seq \in Nat /\ seq' = seq + 1
  BY FlowsAssumption DEF TypeOK, Remember
<1>3. CASE Len(closed) < Capacity
  <2>1. closed' = Append(closed, seq + 1) /\ head' = head
    BY <1>3 DEF Remember
  <2> QED
    BY <1>1, <1>2, <1>3, <2>1
<1>4. CASE ~(Len(closed) < Capacity)
  <2>1. closed' = [closed EXCEPT ![head + 1] = seq + 1] /\ head' = (head + 1) % Capacity
    BY <1>4 DEF Remember
  <2>2. head + 1 \in 1..Len(closed) /\ seq + 1 \in Nat
    BY <1>1, <1>2, <1>4
  <2>3. closed' \in Seq(Nat) /\ Len(closed') = Len(closed)
    BY <1>1, <2>1, <2>2, ExceptSeq
  <2>4. head' \in 0..(Capacity - 1)
    BY <1>1, <1>2, <2>1
  <2> QED
    BY <1>1, <1>2, <2>3, <2>4
<1> QED
  BY <1>3, <1>4

\* Accounting for e takes nothing from its aggregate.
LEMMA AccountKeeps ==
  ASSUME TypeOK, Handles, NEW e \in Entries, agg[e] # None
  PROVE  /\ [bytes EXCEPT ![agg[e]] = @ + moved[e] - counted[e]] \in [Aggregates -> Nat]
         /\ [counted EXCEPT ![e] = moved[e]] \in [Entries -> Nat]
         /\ \A f \in Entries : [counted EXCEPT ![e] = moved[e]][f] <= moved[f]
<1>1. /\ bytes \in [Aggregates -> Nat] /\ agg[e] \in Aggregates
      /\ counted \in [Entries -> Nat] /\ moved \in [Entries -> Nat]
      /\ \A f \in Entries : counted[f] <= moved[f]
  BY DEF TypeOK, Handles
<1>2. bytes[agg[e]] + moved[e] - counted[e] \in Nat
  BY <1>1
<1> QED
  BY <1>1, <1>2

-----------------------------------------------------------------------------
(* Every step keeps each part of the invariant *)

\* Nothing an action assigns leaves its type: in particular, a key's number of
\* open connections is never taken below none.
\* The table has let go of the entry of a relay that ends.
LEMMA RelayLeavesNothing ==
  ASSUME TypeOK, NEW e \in Entries, RelayEnds(e)
  PROVE  /\ life' \in [Entries -> {"none", "open", "closing", "closed"}]
         /\ Active' = Active
BY DEF TypeOK, RelayEnds, Active

LEMMA TypeStep == IInv /\ [Next]_vars => TypeOK'
<1> SUFFICES ASSUME IInv, [Next]_vars
             PROVE  TypeOK'
  OBVIOUS
<1> USE FlowsAssumption
<1> USE DEF vars, loopVars, entryVars, statVars, ringVars, dueVars,
       Active, TypeOK, Handles, Loops, Counting, IInv
<1>1. ASSUME NEW e \in Entries, EntryNext(e)
      PROVE  TypeOK'
  <2>1. ASSUME NEW k \in Keys, Open(e, k)
       PROVE  TypeOK'
    <3>1. CASE recording
      <4>1. agg[e] = None /\ k \in Keys /\ Attach(e, k)
        BY <2>1, <3>1 DEF Open, Active
      <4>2. /\ keys' \in [Keys -> Aggregates \cup {None}]
            /\ open' \in [Aggregates -> Nat]
            /\ bytes' \in [Aggregates -> Nat]
            /\ gone' \in Nat
            /\ keys'[k] \in Aggregates
            /\ agg' = [agg EXCEPT ![e] = keys'[k]]
            /\ \A f \in Entries : agg[f] # None => keys'[key[f]] = agg[f]
            /\ Separate'
            /\ Counts'
        BY <4>1, AttachKeeps
      <4>3. /\ recording' \in BOOLEAN /\ loop' \in {"none", "attaching", "stopping"}
            /\ todo' \subseteq Active'
        BY <2>1, <3>1, <4>2 DEF Open, Unlocked
      <4>4. /\ life' \in [Entries -> {"none", "open", "closing", "closed"}]
            /\ key' \in [Entries -> Keys \cup {None}]
            /\ agg' \in [Entries -> Aggregates \cup {None}]
        BY <2>1, <3>1, <4>1, <4>2 DEF Open
      <4>5. moved' \in [Entries -> Nat] /\ counted' \in [Entries -> Nat]
        BY <2>1, <3>1, <4>2 DEF Open, Unlocked
      <4>6. /\ keys' \in [Keys -> Aggregates \cup {None}]
            /\ open' \in [Aggregates -> Nat]
            /\ bytes' \in [Aggregates -> Nat]
        BY <2>1, <3>1, <4>2 DEF Open, Unlocked
      <4>7. /\ closed' \in Seq(Nat) /\ Len(closed') <= Capacity
            /\ head' \in 0..(Capacity - 1)
        BY <2>1, <3>1, <4>2 DEF Open, Unlocked
      <4>8. {seq', cleared', due', late', gone'} \subseteq Nat
        BY <2>1, <3>1, <4>2 DEF Open, Unlocked
      <4> QED
        BY <4>3, <4>4, <4>5, <4>6, <4>7, <4>8
    <3>2. CASE ~(recording)
      BY <2>1, <3>2, SMTT(30) DEF Open, Unlocked, Active, Listed, Attached
    <3> QED
      BY <3>1, <3>2
  <2>2. CASE Move(e)
    <3>1. /\ recording' \in BOOLEAN /\ loop' \in {"none", "attaching", "stopping"}
          /\ todo' \subseteq Active'
      BY <2>2 DEF Move
    <3>2. /\ life' \in [Entries -> {"none", "open", "closing", "closed"}]
          /\ key' \in [Entries -> Keys \cup {None}]
          /\ agg' \in [Entries -> Aggregates \cup {None}]
      BY <2>2 DEF Move
    <3>3. moved' \in [Entries -> Nat] /\ counted' \in [Entries -> Nat]
      BY <2>2, SMTT(30) DEF Move
    <3>4. /\ keys' \in [Keys -> Aggregates \cup {None}]
          /\ open' \in [Aggregates -> Nat]
          /\ bytes' \in [Aggregates -> Nat]
      BY <2>2 DEF Move
    <3>5. /\ closed' \in Seq(Nat) /\ Len(closed') <= Capacity
          /\ head' \in 0..(Capacity - 1)
      BY <2>2 DEF Move
    <3>6. {seq', cleared', due', late', gone'} \subseteq Nat
      BY <2>2 DEF Move
    <3> QED
      BY <3>1, <3>2, <3>3, <3>4, <3>5, <3>6
  <2>3. CASE CloseBegins(e)
    BY <2>3 DEF CloseBegins
  <2>4. CASE CloseRecorded(e)
    <3>1. open' \in [Aggregates -> Nat]
      BY <2>4, LetGoKeeps DEF CloseRecorded, LetGo
    <3>2. /\ recording' \in BOOLEAN /\ loop' \in {"none", "attaching", "stopping"}
          /\ todo' \subseteq Active'
      BY <2>4 DEF CloseRecorded, LetGo, Unlocked
    <3>3. /\ life' \in [Entries -> {"none", "open", "closing", "closed"}]
          /\ key' \in [Entries -> Keys \cup {None}]
          /\ agg' \in [Entries -> Aggregates \cup {None}]
      BY <2>4 DEF CloseRecorded, LetGo, Unlocked
    <3>4. moved' \in [Entries -> Nat] /\ counted' \in [Entries -> Nat]
      BY <2>4 DEF CloseRecorded, LetGo, Unlocked
    <3>5. /\ keys' \in [Keys -> Aggregates \cup {None}]
          /\ open' \in [Aggregates -> Nat]
          /\ bytes' \in [Aggregates -> Nat]
      <4>1. CASE agg[e] # None
        <5>1. bytes' = [bytes EXCEPT ![agg[e]] = @ + moved[e] - counted[e]]
          BY <2>4, <4>1 DEF CloseRecorded
        <5>2. [bytes EXCEPT ![agg[e]] = @ + moved[e] - counted[e]] \in [Aggregates -> Nat]
          BY <4>1, AccountKeeps
        <5> QED
          BY <2>4, <3>1, <5>1, <5>2 DEF CloseRecorded
      <4>2. CASE agg[e] = None
        BY <2>4, <3>1, <4>2 DEF CloseRecorded
      <4> QED
        BY <4>1, <4>2
    <3>6. /\ closed' \in Seq(Nat) /\ Len(closed') <= Capacity
          /\ head' \in 0..(Capacity - 1)
      BY <2>4, RememberKeeps DEF CloseRecorded
    <3>7. {seq', cleared', due', late', gone'} \subseteq Nat
      <4>1. seq' \in Nat
        BY <2>4, RememberKeeps DEF CloseRecorded
      <4>2. UNCHANGED <<cleared, due, late, gone>>
        BY <2>4 DEF CloseRecorded
      <4> QED
        BY <4>1, <4>2
    <3> QED
      BY <3>2, <3>3, <3>4, <3>5, <3>6, <3>7
  <2>5. CASE CloseUnrecorded(e)
    <3>1. open' \in [Aggregates -> Nat] /\ Counts'
      BY <2>5, LetGoKeeps DEF CloseUnrecorded, LetGo
    <3> QED
      BY <2>5, <3>1 DEF CloseUnrecorded, LetGo, Unlocked, Active
  <2>6. CASE Account(e)
    <3>1. CASE agg[e] # None
      <4>1. agg[e] \in Aggregates /\ moved[e] - counted[e] \in Nat
        BY <3>1
      <4>2. bytes' \in [Aggregates -> Nat] /\ counted' \in [Entries -> Nat]
        BY <2>6, <3>1, <4>1, SMTT(30) DEF Account, AccountFor
      <4> QED
        BY <2>6, <4>2 DEF Account
    <3>2. CASE agg[e] = None
      BY <2>6, <3>2 DEF Account
    <3> QED
      BY <3>1, <3>2
  <2>7. CASE AttachNext(e)
    <3>1. CASE agg[e] = None
      <4>1. agg[e] = None /\ key[e] \in Keys /\ Attach(e, key[e])
        BY <2>7, <3>1 DEF AttachNext, Active
      <4>2. /\ keys' \in [Keys -> Aggregates \cup {None}]
            /\ open' \in [Aggregates -> Nat]
            /\ bytes' \in [Aggregates -> Nat]
            /\ gone' \in Nat
            /\ keys'[key[e]] \in Aggregates
            /\ agg' = [agg EXCEPT ![e] = keys'[key[e]]]
            /\ \A f \in Entries : agg[f] # None => keys'[key[f]] = agg[f]
            /\ Separate'
            /\ Counts'
        BY <4>1, AttachKeeps
      <4> QED
        BY <2>7, <3>1, <4>1, <4>2, ZenonT(60) DEF AttachNext, Unlocked, Active
    <3>2. CASE ~(agg[e] = None)
      <4>1. /\ recording' \in BOOLEAN /\ loop' \in {"none", "attaching", "stopping"}
            /\ todo' \subseteq Active'
        BY <2>7, <3>2 DEF AttachNext
      <4>2. /\ life' \in [Entries -> {"none", "open", "closing", "closed"}]
            /\ key' \in [Entries -> Keys \cup {None}]
            /\ agg' \in [Entries -> Aggregates \cup {None}]
        BY <2>7, <3>2 DEF AttachNext
      <4>3. moved' \in [Entries -> Nat] /\ counted' \in [Entries -> Nat]
        BY <2>7, <3>2 DEF AttachNext
      <4>4. /\ keys' \in [Keys -> Aggregates \cup {None}]
            /\ open' \in [Aggregates -> Nat]
            /\ bytes' \in [Aggregates -> Nat]
        BY <2>7, <3>2 DEF AttachNext
      <4>5. /\ closed' \in Seq(Nat) /\ Len(closed') <= Capacity
            /\ head' \in 0..(Capacity - 1)
        BY <2>7, <3>2 DEF AttachNext
      <4>6. {seq', cleared', due', late', gone'} \subseteq Nat
        BY <2>7, <3>2 DEF AttachNext
      <4> QED
        BY <4>1, <4>2, <4>3, <4>4, <4>5, <4>6
    <3> QED
      BY <3>1, <3>2
  <2>8. CASE AccountNext(e)
    <3>1. /\ recording' \in BOOLEAN /\ loop' \in {"none", "attaching", "stopping"}
          /\ todo' \subseteq Active'
      BY <2>8 DEF AccountNext
    <3>2. /\ life' \in [Entries -> {"none", "open", "closing", "closed"}]
          /\ key' \in [Entries -> Keys \cup {None}]
          /\ agg' \in [Entries -> Aggregates \cup {None}]
      BY <2>8 DEF AccountNext
    <3>3. moved' \in [Entries -> Nat] /\ counted' \in [Entries -> Nat]
      <4>1. CASE agg[e] # None
        <5>1. counted' = [counted EXCEPT ![e] = moved[e]] /\ UNCHANGED moved
          BY <2>8, <4>1 DEF AccountNext, AccountFor
        <5> QED
          BY <4>1, <5>1, AccountKeeps
      <4>2. CASE agg[e] = None
        BY <2>8, <4>2 DEF AccountNext
      <4> QED
        BY <4>1, <4>2
    <3>4. /\ keys' \in [Keys -> Aggregates \cup {None}]
          /\ open' \in [Aggregates -> Nat]
          /\ bytes' \in [Aggregates -> Nat]
      <4>1. CASE agg[e] # None
        <5>1. bytes' = [bytes EXCEPT ![agg[e]] = @ + moved[e] - counted[e]]
          BY <2>8, <4>1 DEF AccountNext, AccountFor
        <5>2. [bytes EXCEPT ![agg[e]] = @ + moved[e] - counted[e]] \in [Aggregates -> Nat]
          BY <4>1, AccountKeeps
        <5> QED
          BY <2>8, <5>1, <5>2 DEF AccountNext
      <4>2. CASE agg[e] = None
        BY <2>8, <4>2 DEF AccountNext
      <4> QED
        BY <4>1, <4>2
    <3>5. /\ closed' \in Seq(Nat) /\ Len(closed') <= Capacity
          /\ head' \in 0..(Capacity - 1)
      BY <2>8 DEF AccountNext
    <3>6. {seq', cleared', due', late', gone'} \subseteq Nat
      BY <2>8 DEF AccountNext
    <3> QED
      BY <3>1, <3>2, <3>3, <3>4, <3>5, <3>6
  <2>9. CASE MoveLate(e)
    <3>1. {seq', cleared', due', late', gone'} \subseteq Nat
      BY <2>9 DEF MoveLate
    <3>2. UNCHANGED <<loopVars, entryVars, statVars, closed, head>>
      BY <2>9 DEF MoveLate
    <3> QED
      BY <3>1, <3>2
  <2>10. CASE RelayEnds(e)
    BY <2>10, RelayLeavesNothing DEF RelayEnds
  <2> QED
    BY <1>1, <2>1, <2>2, <2>3, <2>4, <2>5, <2>6, <2>7, <2>8, <2>9, <2>10 DEF EntryNext
<1>2. CASE StartRecording
  BY <1>2 DEF StartRecording, Unlocked, Active
<1>3. CASE StopRecording
  BY <1>3 DEF StopRecording, Unlocked, Active
<1>4. CASE LoopEnds
  BY <1>4 DEF LoopEnds, Unlocked
<1>5. CASE Clear
  BY <1>5 DEF Clear, Unlocked, Active
<1>6. CASE UNCHANGED vars
  BY <1>6 DEF Active, Listed
<1> QED
  BY <1>1, <1>2, <1>3, <1>4, <1>5, <1>6 DEF Next

\* The loops keep t.mu until they have visited every open connection.
LEMMA LoopsStep == IInv /\ [Next]_vars => Loops'
<1> SUFFICES ASSUME IInv, [Next]_vars
             PROVE  Loops'
  OBVIOUS
<1> USE FlowsAssumption
<1> USE DEF vars, loopVars, entryVars, statVars, ringVars, dueVars,
       TypeOK, Loops, IInv
<1>1. ASSUME NEW e \in Entries, EntryNext(e)
      PROVE  Loops'
  <2>1. ASSUME NEW k \in Keys, Open(e, k)
       PROVE  Loops'
    BY <2>1 DEF Open, Attach, JoinKey, AddKey, Unused, Idle, Listed, Unlocked
  <2>2. CASE Move(e)
    BY <2>2 DEF Move, Recorded, Active
  <2>3. CASE CloseBegins(e)
    BY <2>3 DEF CloseBegins
  <2>4. CASE CloseRecorded(e)
    BY <2>4 DEF CloseRecorded, LetGo, Remember, Unlocked
  <2>5. CASE CloseUnrecorded(e)
    BY <2>5 DEF CloseUnrecorded, LetGo, Unlocked
  <2>6. CASE Account(e)
    BY <2>6 DEF Account, AccountFor, Unlocked, Active
  <2>7. CASE AttachNext(e)
    BY <2>7 DEF AttachNext, Attach, JoinKey, AddKey, Unused, Idle, Listed
  <2>8. CASE AccountNext(e)
    BY <2>8 DEF AccountNext, AccountFor
  <2>9. CASE MoveLate(e)
    BY <2>9 DEF MoveLate
  <2>10. CASE RelayEnds(e)
    BY <2>10 DEF RelayEnds
  <2> QED
    BY <1>1, <2>1, <2>2, <2>3, <2>4, <2>5, <2>6, <2>7, <2>8, <2>9, <2>10 DEF EntryNext
<1>2. CASE StartRecording
  BY <1>2 DEF StartRecording, Unlocked, Active
<1>3. CASE StopRecording
  BY <1>3 DEF StopRecording, Unlocked, Active
<1>4. CASE LoopEnds
  BY <1>4 DEF LoopEnds, Unlocked
<1>5. CASE Clear
  BY <1>5 DEF Clear, Unlocked, Active
<1>6. CASE UNCHANGED vars
  BY <1>6 DEF Active, Listed
<1> QED
  BY <1>1, <1>2, <1>3, <1>4, <1>5, <1>6 DEF Next

\* A handle is let go of with everything it holds.
LEMMA HandlesStep == IInv /\ [Next]_vars => Handles'
<1> SUFFICES ASSUME IInv, [Next]_vars
             PROVE  Handles'
  OBVIOUS
<1> USE FlowsAssumption
<1> USE DEF vars, loopVars, entryVars, statVars, ringVars, dueVars,
       Active, TypeOK, Handles, IInv
<1>1. ASSUME NEW e \in Entries, EntryNext(e)
      PROVE  Handles'
  <2>1. ASSUME NEW k \in Keys, Open(e, k)
       PROVE  Handles'
    <3>1. agg[e] = None
      BY <2>1 DEF Open
    <3>2. agg' = agg \/ Attach(e, k)
      BY <2>1 DEF Open
    <3>3. CASE agg' = agg
      BY <2>1, <3>3 DEF Open
    <3>4. CASE Attach(e, k)
      <4>1. agg' = [agg EXCEPT ![e] = keys'[k]]
        BY <3>1, <3>4, AttachKeeps
      <4> QED
        BY <2>1, <4>1 DEF Open
    <3> QED
      BY <3>2, <3>3, <3>4
  <2>2. CASE Move(e)
    BY <2>2 DEF Move, Recorded, Active
  <2>3. CASE CloseBegins(e)
    BY <2>3 DEF CloseBegins
  <2>4. CASE CloseRecorded(e)
    BY <2>4, SMTT(30) DEF CloseRecorded, LetGo, Remember, Unlocked
  <2>5. CASE CloseUnrecorded(e)
    BY <2>5 DEF CloseUnrecorded, LetGo, Unlocked
  <2>6. CASE Account(e)
    BY <2>6 DEF Account, AccountFor, Unlocked, Active
  <2>7. CASE AttachNext(e)
    <3>1. agg' = agg \/ (agg[e] = None /\ Attach(e, key[e]))
      BY <2>7 DEF AttachNext
    <3>2. CASE agg' = agg
      BY <2>7, <3>2 DEF AttachNext
    <3>3. CASE agg[e] = None /\ Attach(e, key[e])
      <4>1. key[e] \in Keys
        BY <2>7 DEF AttachNext
      <4>2. agg' = [agg EXCEPT ![e] = keys'[key[e]]]
        BY <3>3, <4>1, AttachKeeps
      <4> QED
        BY <2>7, <4>1, <4>2, SMTT(30) DEF AttachNext
    <3> QED
      BY <3>1, <3>2, <3>3
  <2>8. CASE AccountNext(e)
    <3>1. \A f \in Entries : counted'[f] <= moved[f]
      <4>1. CASE agg[e] # None
        <5>1. counted' = [counted EXCEPT ![e] = moved[e]]
          BY <2>8, <4>1 DEF AccountNext, AccountFor
        <5> QED
          BY <4>1, <5>1, AccountKeeps
      <4>2. CASE agg[e] = None
        BY <2>8, <4>2 DEF AccountNext
      <4> QED
        BY <4>1, <4>2
    <3> QED
      BY <2>8, <3>1 DEF AccountNext
  <2>9. CASE MoveLate(e)
    BY <2>9 DEF MoveLate
  <2>10. CASE RelayEnds(e)
    BY <2>10, RelayLeavesNothing DEF RelayEnds
  <2> QED
    BY <1>1, <2>1, <2>2, <2>3, <2>4, <2>5, <2>6, <2>7, <2>8, <2>9, <2>10 DEF EntryNext
<1>2. CASE StartRecording
  BY <1>2 DEF StartRecording, Unlocked, Active
<1>3. CASE StopRecording
  BY <1>3 DEF StopRecording, Unlocked, Active
<1>4. CASE LoopEnds
  BY <1>4 DEF LoopEnds, Unlocked
<1>5. CASE Clear
  BY <1>5 DEF Clear, Unlocked, Active
<1>6. CASE UNCHANGED vars
  BY <1>6 DEF Active, Listed
<1> QED
  BY <1>1, <1>2, <1>3, <1>4, <1>5, <1>6 DEF Next

\* A key gets an aggregate nobody else has.
LEMMA SeparateStep == IInv /\ [Next]_vars => Separate'
<1> SUFFICES ASSUME IInv, [Next]_vars
             PROVE  Separate'
  OBVIOUS
<1> USE FlowsAssumption
<1> USE DEF vars, loopVars, entryVars, statVars, ringVars, dueVars,
       TypeOK, Handles, Separate, IInv
<1>1. ASSUME NEW e \in Entries, EntryNext(e)
      PROVE  Separate'
  <2>1. ASSUME NEW k \in Keys, Open(e, k)
       PROVE  Separate'
    <3>1. CASE recording
      <4>1. agg[e] = None /\ k \in Keys /\ Attach(e, k)
        BY <2>1, <3>1 DEF Open, Active
      <4>2. /\ keys' \in [Keys -> Aggregates \cup {None}]
            /\ open' \in [Aggregates -> Nat]
            /\ bytes' \in [Aggregates -> Nat]
            /\ gone' \in Nat
            /\ keys'[k] \in Aggregates
            /\ agg' = [agg EXCEPT ![e] = keys'[k]]
            /\ \A f \in Entries : agg[f] # None => keys'[key[f]] = agg[f]
            /\ Separate'
            /\ Counts'
        BY <4>1, AttachKeeps
      <4> QED
        BY <2>1, <3>1, <4>1, <4>2 DEF Open, Unlocked, Active
    <3>2. CASE ~(recording)
      BY <2>1, <3>2 DEF Open, Unlocked, Active, Listed, Attached
    <3> QED
      BY <3>1, <3>2
  <2>2. CASE Move(e)
    BY <2>2 DEF Move, Recorded, Active
  <2>3. CASE CloseBegins(e)
    BY <2>3 DEF CloseBegins
  <2>4. CASE CloseRecorded(e)
    BY <2>4 DEF CloseRecorded, LetGo, Remember, Unlocked
  <2>5. CASE CloseUnrecorded(e)
    BY <2>5 DEF CloseUnrecorded, LetGo, Unlocked
  <2>6. CASE Account(e)
    BY <2>6 DEF Account, AccountFor, Unlocked, Active
  <2>7. CASE AttachNext(e)
    <3>1. CASE agg[e] = None
      <4>1. agg[e] = None /\ key[e] \in Keys /\ Attach(e, key[e])
        BY <2>7, <3>1 DEF AttachNext, Active
      <4>2. /\ keys' \in [Keys -> Aggregates \cup {None}]
            /\ open' \in [Aggregates -> Nat]
            /\ bytes' \in [Aggregates -> Nat]
            /\ gone' \in Nat
            /\ keys'[key[e]] \in Aggregates
            /\ agg' = [agg EXCEPT ![e] = keys'[key[e]]]
            /\ \A f \in Entries : agg[f] # None => keys'[key[f]] = agg[f]
            /\ Separate'
            /\ Counts'
        BY <4>1, AttachKeeps
      <4> QED
        BY <2>7, <3>1, <4>1, <4>2 DEF AttachNext, Unlocked, Active
    <3>2. CASE ~(agg[e] = None)
      BY <2>7, <3>2 DEF AttachNext, Unlocked, Active, Listed, Attached
    <3> QED
      BY <3>1, <3>2
  <2>8. CASE AccountNext(e)
    BY <2>8 DEF AccountNext, AccountFor
  <2>9. CASE MoveLate(e)
    BY <2>9 DEF MoveLate
  <2>10. CASE RelayEnds(e)
    BY <2>10 DEF RelayEnds
  <2> QED
    BY <1>1, <2>1, <2>2, <2>3, <2>4, <2>5, <2>6, <2>7, <2>8, <2>9, <2>10 DEF EntryNext
<1>2. CASE StartRecording
  BY <1>2 DEF StartRecording, Unlocked, Active
<1>3. CASE StopRecording
  BY <1>3 DEF StopRecording, Unlocked, Active
<1>4. CASE LoopEnds
  BY <1>4 DEF LoopEnds, Unlocked
<1>5. CASE Clear
  BY <1>5 DEF Clear, Unlocked, Active
<1>6. CASE UNCHANGED vars
  BY <1>6 DEF Active, Listed
<1> QED
  BY <1>1, <1>2, <1>3, <1>4, <1>5, <1>6 DEF Next

\* An eviction takes no aggregate from an open connection, and a switch of
\* the recording or a clear attaches every one before t.mu is released.
LEMMA CountingStep == IInv /\ [Next]_vars => Counting'
<1> SUFFICES ASSUME IInv, [Next]_vars
             PROVE  Counting'
  OBVIOUS
<1> USE FlowsAssumption
<1> USE DEF vars, loopVars, entryVars, statVars, ringVars, dueVars,
       Active, TypeOK, Loops, Handles, Separate, Counting, IInv
<1>1. ASSUME NEW e \in Entries, EntryNext(e)
      PROVE  Counting'
  <2>1. ASSUME NEW k \in Keys, Open(e, k)
       PROVE  Counting'
    <3>1. CASE recording
      <4>1. agg[e] = None /\ k \in Keys /\ Attach(e, k)
        BY <2>1, <3>1 DEF Open, Active
      <4>2. /\ keys' \in [Keys -> Aggregates \cup {None}]
            /\ open' \in [Aggregates -> Nat]
            /\ bytes' \in [Aggregates -> Nat]
            /\ gone' \in Nat
            /\ keys'[k] \in Aggregates
            /\ agg' = [agg EXCEPT ![e] = keys'[k]]
            /\ \A f \in Entries : agg[f] # None => keys'[key[f]] = agg[f]
            /\ Separate'
            /\ Counts'
        BY <4>1, AttachKeeps
      <4> QED
        BY <2>1, <3>1, <4>1, <4>2 DEF Open, Unlocked, Active
    <3>2. CASE ~(recording)
      BY <2>1, <3>2 DEF Open, Unlocked, Active, Listed, Attached
    <3> QED
      BY <3>1, <3>2
  <2>2. CASE Move(e)
    BY <2>2 DEF Move, Recorded, Active
  <2>3. CASE CloseBegins(e)
    BY <2>3 DEF CloseBegins
  <2>4. CASE CloseRecorded(e)
    BY <2>4 DEF CloseRecorded, LetGo, Remember, Unlocked
  <2>5. CASE CloseUnrecorded(e)
    BY <2>5 DEF CloseUnrecorded, LetGo, Unlocked
  <2>6. CASE Account(e)
    BY <2>6 DEF Account, AccountFor, Unlocked, Active
  <2>7. CASE AttachNext(e)
    <3>1. CASE agg[e] = None
      <4>1. agg[e] = None /\ key[e] \in Keys /\ Attach(e, key[e])
        BY <2>7, <3>1 DEF AttachNext, Active
      <4>2. /\ keys' \in [Keys -> Aggregates \cup {None}]
            /\ open' \in [Aggregates -> Nat]
            /\ bytes' \in [Aggregates -> Nat]
            /\ gone' \in Nat
            /\ keys'[key[e]] \in Aggregates
            /\ agg' = [agg EXCEPT ![e] = keys'[key[e]]]
            /\ \A f \in Entries : agg[f] # None => keys'[key[f]] = agg[f]
            /\ Separate'
            /\ Counts'
        BY <4>1, AttachKeeps
      <4> QED
        BY <2>7, <3>1, <4>1, <4>2 DEF AttachNext, Unlocked, Active
    <3>2. CASE ~(agg[e] = None)
      BY <2>7, <3>2 DEF AttachNext, Unlocked, Active, Listed, Attached
    <3> QED
      BY <3>1, <3>2
  <2>8. CASE AccountNext(e)
    BY <2>8 DEF AccountNext, AccountFor
  <2>9. CASE MoveLate(e)
    BY <2>9 DEF MoveLate
  <2>10. CASE RelayEnds(e)
    BY <2>10, RelayLeavesNothing DEF RelayEnds
  <2> QED
    BY <1>1, <2>1, <2>2, <2>3, <2>4, <2>5, <2>6, <2>7, <2>8, <2>9, <2>10 DEF EntryNext
<1>2. CASE StartRecording
  BY <1>2 DEF StartRecording, Unlocked, Active
<1>3. CASE StopRecording
  BY <1>3 DEF StopRecording, Unlocked, Active
<1>4. CASE LoopEnds
  BY <1>4 DEF LoopEnds, Unlocked
<1>5. CASE Clear
  BY <1>5 DEF Clear, Unlocked, Active
<1>6. CASE UNCHANGED vars
  BY <1>6 DEF Active, Listed
<1> QED
  BY <1>1, <1>2, <1>3, <1>4, <1>5, <1>6 DEF Next

\* What leaves keys, counts and connections alone leaves them matching.
LEMMA CountsStay == Counts /\ UNCHANGED <<keys, open, agg>> => Counts'
<1> SUFFICES ASSUME Counts, UNCHANGED <<keys, open, agg>>
             PROVE  Counts'
  OBVIOUS
<1>1. \A k \in Keys : {e \in Entries : agg'[e] = keys'[k]} = Attached(keys[k])
  BY DEF Attached
<1> QED
  BY <1>1 DEF Counts, Listed, Attached

\* Every connection that comes or goes is counted.
LEMMA CountsStep == IInv /\ [Next]_vars => Counts'
<1> SUFFICES ASSUME IInv, [Next]_vars
             PROVE  Counts'
  OBVIOUS
<1> USE FlowsAssumption
<1> USE DEF vars, loopVars, entryVars, statVars, ringVars, dueVars,
       TypeOK, Handles, IInv
<1>1. ASSUME NEW e \in Entries, EntryNext(e)
      PROVE  Counts'
  <2>1. ASSUME NEW k \in Keys, Open(e, k)
       PROVE  Counts'
    <3>1. CASE recording
      <4>1. agg[e] = None /\ k \in Keys /\ Attach(e, k)
        BY <2>1, <3>1 DEF Open, Active
      <4>2. /\ keys' \in [Keys -> Aggregates \cup {None}]
            /\ open' \in [Aggregates -> Nat]
            /\ bytes' \in [Aggregates -> Nat]
            /\ gone' \in Nat
            /\ keys'[k] \in Aggregates
            /\ agg' = [agg EXCEPT ![e] = keys'[k]]
            /\ \A f \in Entries : agg[f] # None => keys'[key[f]] = agg[f]
            /\ Separate'
            /\ Counts'
        BY <4>1, AttachKeeps
      <4> QED
        BY <2>1, <3>1, <4>1, <4>2 DEF Open, Unlocked, Active
    <3>2. CASE ~(recording)
      BY <2>1, <3>2, CountsStay DEF Open
    <3> QED
      BY <3>1, <3>2
  <2>2. CASE Move(e)
    BY <2>2, CountsStay DEF Move
  <2>3. CASE CloseBegins(e)
    BY <2>3, CountsStay DEF CloseBegins
  <2>4. CASE CloseRecorded(e)
    <3>1. open' \in [Aggregates -> Nat] /\ Counts'
      BY <2>4, LetGoKeeps DEF CloseRecorded, LetGo
    <3> QED
      BY <2>4, <3>1 DEF CloseRecorded, LetGo, Remember, Unlocked, Active
  <2>5. CASE CloseUnrecorded(e)
    <3>1. open' \in [Aggregates -> Nat] /\ Counts'
      BY <2>5, LetGoKeeps DEF CloseUnrecorded, LetGo
    <3> QED
      BY <2>5, <3>1 DEF CloseUnrecorded, LetGo, Unlocked, Active
  <2>6. CASE Account(e)
    BY <2>6, CountsStay DEF Account
  <2>7. CASE AttachNext(e)
    <3>1. CASE agg[e] = None
      <4>1. agg[e] = None /\ key[e] \in Keys /\ Attach(e, key[e])
        BY <2>7, <3>1 DEF AttachNext, Active
      <4>2. /\ keys' \in [Keys -> Aggregates \cup {None}]
            /\ open' \in [Aggregates -> Nat]
            /\ bytes' \in [Aggregates -> Nat]
            /\ gone' \in Nat
            /\ keys'[key[e]] \in Aggregates
            /\ agg' = [agg EXCEPT ![e] = keys'[key[e]]]
            /\ \A f \in Entries : agg[f] # None => keys'[key[f]] = agg[f]
            /\ Separate'
            /\ Counts'
        BY <4>1, AttachKeeps
      <4> QED
        BY <2>7, <3>1, <4>1, <4>2 DEF AttachNext, Unlocked, Active
    <3>2. CASE ~(agg[e] = None)
      BY <2>7, <3>2, CountsStay DEF AttachNext
    <3> QED
      BY <3>1, <3>2
  <2>8. CASE AccountNext(e)
    BY <2>8, CountsStay DEF AccountNext
  <2>9. CASE MoveLate(e)
    BY <2>9, CountsStay DEF MoveLate
  <2>10. CASE RelayEnds(e)
    BY <2>10, CountsStay DEF RelayEnds
  <2> QED
    BY <1>1, <2>1, <2>2, <2>3, <2>4, <2>5, <2>6, <2>7, <2>8, <2>9, <2>10 DEF EntryNext
<1>2. CASE StartRecording
  BY <1>2, CountsStay DEF StartRecording
<1>3. CASE StopRecording
  BY <1>3, CountsStay DEF StopRecording
<1>4. CASE LoopEnds
  BY <1>4, CountsStay DEF LoopEnds
<1>5. CASE Clear
  BY <1>5 DEF Clear, Counts, Listed
<1>6. CASE UNCHANGED vars
  BY <1>6, CountsStay
<1> QED
  BY <1>1, <1>2, <1>3, <1>4, <1>5, <1>6 DEF Next
-----------------------------------------------------------------------------
(* Theorems *)

\* The table starts empty, with nothing recorded.
LEMMA InitIInv == Init => IInv
<1> SUFFICES ASSUME Init
             PROVE  IInv
  OBVIOUS
<1> USE FlowsAssumption DEF Init
<1>1. TypeOK
  <2>1. /\ recording \in BOOLEAN /\ loop \in {"none", "attaching", "stopping"}
        /\ todo \subseteq Active
    OBVIOUS
  <2>2. /\ life \in [Entries -> {"none", "open", "closing", "closed"}]
        /\ key \in [Entries -> Keys \cup {None}]
        /\ agg \in [Entries -> Aggregates \cup {None}]
        /\ moved \in [Entries -> Nat] /\ counted \in [Entries -> Nat]
    OBVIOUS
  <2>3. /\ keys \in [Keys -> Aggregates \cup {None}]
        /\ open \in [Aggregates -> Nat] /\ bytes \in [Aggregates -> Nat]
    OBVIOUS
  <2>4. closed \in Seq(Nat) /\ Len(closed) <= Capacity /\ head \in 0..(Capacity - 1)
    OBVIOUS
  <2>5. {seq, cleared, due, late, gone} \subseteq Nat
    OBVIOUS
  <2> QED
    BY <2>1, <2>2, <2>3, <2>4, <2>5 DEF TypeOK
<1>2. Loops /\ Handles /\ Separate /\ Counting
  BY DEF Loops, Handles, Separate, Counting, Active
<1>3. Counts
  BY DEF Counts, Listed
<1> QED
  BY <1>1, <1>2, <1>3 DEF IInv

\* The invariant holds in every state of every behaviour.
THEOREM Invariance == Spec => []IInv
<1>1. IInv /\ [Next]_vars => IInv'
  BY TypeStep, LoopsStep, HandlesStep, SeparateStep, CountingStep, CountsStep DEF IInv
<1> QED
  BY InitIInv, <1>1, PTL DEF Spec

\* The statistics are well formed: no number of open connections, no sum and
\* no position of the ring ever leaves its range.
THEOREM TypeCorrect == Spec => []TypeOK
<1>1. IInv => TypeOK
  BY DEF IInv
<1> QED
  BY <1>1, Invariance, PTL

\* However many keys are evicted, an open connection counts where its key is
\* shown.
THEOREM OpenListed == Spec => []OpenAreListed
<1>1. IInv => OpenAreListed
  BY DEF IInv, Counting, OpenAreListed, Active
<1> QED
  BY <1>1, Invariance, PTL

\* The numbers of open connections are right for any number of connections
\* and keys.
THEOREM CountsMatch == Spec => []OpenCountsMatch
<1>1. ASSUME IInv
      PROVE  OpenCountsMatch
  <2>1. ASSUME NEW k \in Listed
        PROVE  open[keys[k]] = Cardinality({e \in Active : agg[e] = keys[k]})
    <3>1. {e \in Active : agg[e] = keys[k]} = Attached(keys[k])
      BY <1>1 DEF IInv, Handles, Active, Attached, Listed
    <3> QED
      BY <1>1, <3>1 DEF IInv, Counts
  <2> QED
    BY <2>1 DEF OpenCountsMatch
<1> QED
  BY <1>1, Invariance, PTL
-----------------------------------------------------------------------------
(* Sums *)

\* Induction, with the numbers something holds of as a set.
LEMMA SetInduction ==
  ASSUME NEW S \in SUBSET Nat, 0 \in S, \A n \in S : n + 1 \in S
  PROVE  S = Nat
<1> SUFFICES ASSUME Nat \ S # {}
             PROVE  FALSE
  OBVIOUS
<1>1. PICK n \in Nat \ S : \A j \in Nat \ S : ~(<<j, n>> \in OpToRel(<, Nat))
  <2>1. Nat \ S \in SUBSET Nat
    OBVIOUS
  <2> HIDE DEF OpToRel
  <2> QED
    BY <2>1, NatLessThanWellFounded, WFMin, Zenon
<1>2. n # 0 /\ n - 1 \in Nat
  OBVIOUS
<1>3. n - 1 \notin S
  <2>1. SUFFICES ASSUME n - 1 \in S PROVE FALSE
    OBVIOUS
  <2>2. (n - 1) + 1 \in S
    BY <2>1
  <2>3. (n - 1) + 1 = n
    BY <1>2
  <2> QED
    BY <2>2, <2>3
<1>4. ~(n - 1 < n)
  BY <1>1, <1>2, <1>3 DEF OpToRel
<1> QED
  BY <1>2, <1>4

\* g has the sum of f over every part of S, taken one element at a time as
\* SumFunctionOnSet takes it.
IsTally(f, S, g) ==
    g = [s \in SUBSET S |-> IF s = {} THEN 0
                            ELSE LET x == CHOOSE y \in s : TRUE IN f[x] + g[s \ {x}]]

\* SumFunctionOnSet is such a g, at S.
LEMMA SumIs ==
  ASSUME NEW f, NEW S 
  PROVE SumFunctionOnSet(f, S) = (CHOOSE g : IsTally(f, S, g))[S]
  BY Zenon DEF SumFunctionOnSet, FoldFunctionOnSet, MapThenFoldSet, IsTally

\* The parts of S that have at most n elements.
Small(S, n) == {s \in SUBSET S : Cardinality(s) <= n}

\* Over a finite set there is one: with the sums of the parts of n elements,
\* those of n + 1 can be taken.
LEMMA TallyExists ==
  ASSUME NEW f, NEW S, IsFiniteSet(S)
  PROVE  \E g : IsTally(f, S, g)
<1> DEFINE Step(g, s) == IF s = {} THEN 0
                         ELSE LET x == CHOOSE y \in s : TRUE IN f[x] + g[s \ {x}]
           Done == {n \in Nat : \E g : g = [s \in Small(S, n) |-> Step(g, s)]}
<1>1. 0 \in Done
  <2> DEFINE g == [s \in Small(S, 0) |-> 0]
  <2>1. \A s \in Small(S, 0) : s = {}
    BY FS_Subset, FS_CardinalityType, FS_EmptySet DEF Small
  <2>2. g = [s \in Small(S, 0) |-> Step(g, s)]
    BY <2>1
  <2> QED
    BY <2>2
<1>2. ASSUME NEW n \in Done
      PROVE  n + 1 \in Done
  <2> HIDE DEF Step
  <2>1. PICK g : g = [s \in Small(S, n) |-> Step(g, s)]
    BY <1>2
  <2> DEFINE h == [s \in Small(S, n + 1) |-> Step(g, s)]
  <2>2. ASSUME NEW s \in Small(S, n + 1)
        PROVE  Step(h, s) = Step(g, s)
    <3>1. CASE s = {}
      BY <3>1 DEF Step
    <3>2. CASE s # {}
      <4> DEFINE x == CHOOSE y \in s : TRUE
      <4>1. x \in s
        BY <3>2
      <4>2. s \in SUBSET S /\ IsFiniteSet(s) /\ Cardinality(s) \in Nat /\ Cardinality(s) <= n + 1
        BY FS_Subset, FS_CardinalityType DEF Small
      <4>3. Cardinality(s \ {x}) = Cardinality(s) - 1
        BY <4>1, <4>2, FS_RemoveElement
      <4> HIDE DEF x
      <4>4. s \ {x} \in Small(S, n)
        BY <4>2, <4>3 DEF Small
      <4>5. Small(S, n) \subseteq Small(S, n + 1)
        BY FS_Subset, FS_CardinalityType DEF Small
      <4>6. h[s \ {x}] = Step(g, s \ {x})
        BY <4>4, <4>5
      <4>7. g[s \ {x}] = Step(g, s \ {x})
        BY <2>1, <4>4
      <4>8. h[s \ {x}] = g[s \ {x}]
        BY <4>6, <4>7
      <4> HIDE DEF h
      <4> QED
        BY <3>2, <4>8 DEF Step, x
    <3> QED
      BY <3>1, <3>2
  <2>3. h = [s \in Small(S, n + 1) |-> Step(h, s)]
    BY <2>2
  <2> HIDE DEF h
  <2> QED
    BY <2>3
<1>3. Cardinality(S) \in Done
  <2> HIDE DEF Done
  <2>1. Done \in SUBSET Nat
    BY DEF Done
  <2> QED
    BY <1>1, <1>2, <2>1, SetInduction, FS_CardinalityType
<1>4. Small(S, Cardinality(S)) = SUBSET S
  BY FS_Subset DEF Small
<1> HIDE DEF Step
<1>5. \E g : g = [s \in SUBSET S |-> Step(g, s)]
  BY <1>3, <1>4
<1> QED
  BY <1>5 DEF IsTally, Step

\* A sum does not depend on the order in which it is taken.
LEMMA TallyOrder ==
  ASSUME NEW f, NEW S, IsFiniteSet(S), \A x \in S : f[x] \in Int,
         NEW g, IsTally(f, S, g)
  PROVE  \A s \in SUBSET S : /\ g[s] \in Int
                             /\ \A z \in s : g[s] = f[z] + g[s \ {z}]
<1> DEFINE Fine(s) == g[s] \in Int /\ \A z \in s : g[s] = f[z] + g[s \ {z}]
           Done == {n \in Nat : \A s \in Small(S, n) : Fine(s)}
<1>0. /\ IsFiniteSet({}) /\ Cardinality({}) = 0
      /\ \A s \in SUBSET S : IsFiniteSet(s) /\ Cardinality(s) \in Nat
      /\ \A s \in SUBSET S : Cardinality(s) = 0 => s = {}
  BY FS_Subset, FS_CardinalityType, FS_EmptySet
<1>1. g[{}] = 0
  BY DEF IsTally
<1>2. 0 \in Done
  <2>1. \A s \in Small(S, 0) : s = {}
    BY <1>0 DEF Small
  <2>2. Fine({})
    BY <1>1
  <2> HIDE DEF Fine
  <2> QED
    BY <2>1, <2>2
<1>3. ASSUME NEW n \in Done
      PROVE  n + 1 \in Done
  <2>0. \A s \in Small(S, n) : Fine(s)
    BY <1>3
  <2>1. ASSUME NEW s \in Small(S, n + 1)
        PROVE  Fine(s)
    <3>1. CASE s = {}
      BY <1>1, <3>1
    <3>2. CASE s # {}
      <4> DEFINE x == CHOOSE y \in s : TRUE
      <4>1. x \in s /\ s \in SUBSET S /\ Cardinality(s) <= n + 1 /\ IsFiniteSet(s) /\ Cardinality(s) \in Nat
        BY <1>0, <3>2 DEF Small
      <4>2. g[s] = f[x] + g[s \ {x}]
        BY <3>2, <4>1 DEF IsTally
      <4> HIDE DEF x, Fine
      <4>3. ASSUME NEW z \in s
            PROVE  Fine(s \ {z})
        <5>1. Cardinality(s \ {z}) = Cardinality(s) - 1
          BY <4>1, FS_RemoveElement
        <5>2. s \ {z} \in Small(S, n)
          BY <4>1, <5>1, <1>3 DEF Small
        <5> QED
          BY <2>0, <5>2
      <4>4. f[x] \in Int /\ g[s \ {x}] \in Int
        BY <4>1, <4>3 DEF Fine
      <4>5. ASSUME NEW z \in s
            PROVE  g[s] = f[z] + g[s \ {z}]
        <5>1. CASE z = x
          BY <4>2, <5>1
        <5>2. CASE z # x
          <6>1. g[s \ {x}] = f[z] + g[(s \ {x}) \ {z}]
            BY <4>1, <4>3, <5>2 DEF Fine
          <6>2. g[s \ {z}] = f[x] + g[(s \ {z}) \ {x}]
            BY <4>1, <4>3, <5>2 DEF Fine
          <6>3. (s \ {x}) \ {z} = (s \ {z}) \ {x}
            OBVIOUS
          <6>4. f[z] \in Int /\ g[s \ {z}] \in Int
            BY <4>1, <4>3 DEF Fine
          <6>5. g[(s \ {z}) \ {x}] \in Int
            <7>1. (s \ {z}) \in Small(S, n)
              <8>1. Cardinality(s \ {z}) = Cardinality(s) - 1
                BY <4>1, FS_RemoveElement
              <8> QED
                BY <4>1, <8>1, <1>3 DEF Small
            <7>2. Cardinality((s \ {z}) \ {x}) <= Cardinality(s \ {z})
              BY <4>1, <1>0, FS_Subset
            <7>3. (s \ {z}) \ {x} \in Small(S, n)
              BY <7>1, <7>2, <1>0, <1>3 DEF Small
            <7> QED
              BY <2>0, <7>3 DEF Fine
          <6>6. g[s \ {x}] = f[z] + g[(s \ {z}) \ {x}]
            BY <6>1, <6>3
          <6> QED
            BY <4>2, <4>4, <6>2, <6>4, <6>5, <6>6
        <5> QED
          BY <5>1, <5>2
      <4>6. g[s] \in Int
        BY <4>2, <4>4
      <4> QED
        BY <4>5, <4>6 DEF Fine
    <3> QED
      BY <3>1, <3>2
  <2> HIDE DEF Fine
  <2> QED
    BY <2>1
<1>4. Cardinality(S) \in Done
  <2> HIDE DEF Done
  <2>1. Done \in SUBSET Nat
    BY DEF Done
  <2> QED
    BY <1>2, <1>3, <2>1, SetInduction, FS_CardinalityType
<1>5. Small(S, Cardinality(S)) = SUBSET S
  BY FS_Subset DEF Small
<1> HIDE DEF Fine
<1>6. \A s \in SUBSET S : Fine(s)
  BY <1>4, <1>5
<1> QED
  BY <1>6 DEF Fine

\* Nor on what f is outside what is summed.
LEMMA TallySame ==
  ASSUME NEW f, NEW h, NEW S, NEW T, NEW g, NEW k, IsFiniteSet(S),
         T \in SUBSET S, \A x \in T : f[x] = h[x],
         IsTally(f, S, g), IsTally(h, T, k)
  PROVE  g[T] = k[T]
<1> DEFINE Done == {n \in Nat : \A s \in Small(T, n) : g[s] = k[s]}
<1>0. /\ IsFiniteSet({}) /\ Cardinality({}) = 0 /\ IsFiniteSet(T)
      /\ \A s \in SUBSET T : IsFiniteSet(s) /\ Cardinality(s) \in Nat
      /\ \A s \in SUBSET T : Cardinality(s) = 0 => s = {}
  BY FS_Subset, FS_CardinalityType, FS_EmptySet
<1>1. g[{}] = 0 /\ k[{}] = 0
  BY DEF IsTally
<1>2. 0 \in Done
  <2>1. \A s \in Small(T, 0) : s = {}
    BY <1>0 DEF Small
  <2> QED
    BY <1>1, <2>1
<1>3. ASSUME NEW n \in Done
      PROVE  n + 1 \in Done
  <2>1. ASSUME NEW s \in Small(T, n + 1)
        PROVE  g[s] = k[s]
    <3>1. CASE s = {}
      BY <1>1, <3>1
    <3>2. CASE s # {}
      <4> DEFINE x == CHOOSE y \in s : TRUE
      <4>1. x \in s /\ s \in SUBSET T /\ Cardinality(s) <= n + 1 /\ IsFiniteSet(s) /\ Cardinality(s) \in Nat
        BY <1>0, <3>2 DEF Small
      <4>2. g[s] = f[x] + g[s \ {x}] /\ k[s] = h[x] + k[s \ {x}]
        BY <3>2, <4>1 DEF IsTally
      <4> HIDE DEF x
      <4>3. Cardinality(s \ {x}) = Cardinality(s) - 1
        BY <4>1, FS_RemoveElement
      <4>4. s \ {x} \in Small(T, n)
        BY <4>1, <4>3, <1>3 DEF Small
      <4> QED
        BY <1>3, <4>1, <4>2, <4>4
    <3> QED
      BY <3>1, <3>2
  <2> QED
    BY <2>1
<1>4. Cardinality(T) \in Done
  <2> HIDE DEF Done
  <2>1. Done \in SUBSET Nat
    BY DEF Done
  <2> QED
    BY <1>0, <1>2, <1>3, <2>1, SetInduction, FS_CardinalityType
<1>5. T \in Small(T, Cardinality(T))
  BY <1>0 DEF Small
<1> QED
  BY <1>4, <1>5

\* Nothing adds up to nothing.
LEMMA SumOfNone ==
  ASSUME NEW f, DOMAIN f = {}
  PROVE  SumFunction(f) = 0
<1>1. \E g : IsTally(f, {}, g)
  BY TallyExists, FS_EmptySet
<1> DEFINE g == CHOOSE g : IsTally(f, {}, g)
<1>2. IsTally(f, {}, g)
  BY <1>1
<1>3. SumFunction(f) = g[{}]
  BY SumIs DEF SumFunction
<1> HIDE DEF g
<1>4. g[{}] = 0
  BY <1>2 DEF IsTally
<1> QED
  BY <1>3, <1>4

\* The same terms have the same sum.
LEMMA SumOfSame ==
  ASSUME NEW f, NEW h, NEW S, IsFiniteSet(S), \A x \in S : f[x] = h[x]
  PROVE  SumFunctionOnSet(f, S) = SumFunctionOnSet(h, S)
<1> DEFINE g == CHOOSE t : IsTally(f, S, t)
           k == CHOOSE t : IsTally(h, S, t)
<1>1. IsTally(f, S, g) /\ IsTally(h, S, k)
  BY TallyExists
<1> HIDE DEF g, k
<1>2. g[S] = k[S]
  BY <1>1, TallySame
<1> QED
  BY <1>2, SumIs DEF g, k

\* A sum is any one of its terms and the sum of the others.
LEMMA SumTakesOne ==
  ASSUME NEW f, NEW S, IsFiniteSet(S), \A x \in S : f[x] \in Int
  PROVE  /\ SumFunctionOnSet(f, S) \in Int
         /\ \A z \in S : SumFunctionOnSet(f, S) = f[z] + SumFunctionOnSet(f, S \ {z})
<1> DEFINE g == CHOOSE g : IsTally(f, S, g)
<1>1. IsTally(f, S, g)
  BY TallyExists
<1>2. SumFunctionOnSet(f, S) = g[S]
  BY SumIs
<1> HIDE DEF g
<1>3. g[S] \in Int /\ \A z \in S : g[S] = f[z] + g[S \ {z}]
  BY <1>1, TallyOrder
<1>4. ASSUME NEW z \in S
      PROVE  g[S \ {z}] = SumFunctionOnSet(f, S \ {z})
  <2> DEFINE k == CHOOSE k : IsTally(f, S \ {z}, k)
  <2>1. IsFiniteSet(S \ {z})
    BY FS_RemoveElement
  <2>2. IsTally(f, S \ {z}, k)
    BY <2>1, TallyExists
  <2> HIDE DEF k
  <2>3. g[S \ {z}] = k[S \ {z}]
    BY <1>1, <2>2, TallySame
  <2> QED
    BY <2>3, SumIs DEF k
<1> QED
  BY <1>2, <1>3, <1>4

\* Sums that differ in one term differ by that term.
LEMMA SumButOne ==
  ASSUME NEW S, NEW T, NEW z, IsFiniteSet(S), IsFiniteSet(T),
         NEW f \in [S -> Int], NEW h \in [T -> Int],
         S \ {z} = T \ {z}, \A x \in S \ {z} : f[x] = h[x]
  PROVE  /\ SumFunction(f) \in Int /\ SumFunction(h) \in Int
         /\ SumFunction(f) - (IF z \in S THEN f[z] ELSE 0) =
               SumFunction(h) - (IF z \in T THEN h[z] ELSE 0)
<1>1. SumFunction(f) = SumFunctionOnSet(f, S) /\ SumFunction(h) = SumFunctionOnSet(h, T)
  BY DEF SumFunction
<1>2. SumFunctionOnSet(f, S \ {z}) = SumFunctionOnSet(h, T \ {z})
  <2>1. IsFiniteSet(S \ {z})
    BY FS_RemoveElement
  <2>2. SumFunctionOnSet(f, S \ {z}) = SumFunctionOnSet(h, S \ {z})
    BY <2>1, SumOfSame
  <2> QED
    BY <2>2, Zenon
<1>3. /\ SumFunctionOnSet(f, S) \in Int
      /\ z \in S => SumFunctionOnSet(f, S) = f[z] + SumFunctionOnSet(f, S \ {z})
  BY SumTakesOne
<1>4. /\ SumFunctionOnSet(h, T) \in Int
      /\ z \in T => SumFunctionOnSet(h, T) = h[z] + SumFunctionOnSet(h, T \ {z})
  BY SumTakesOne
<1>5. z \notin S => S \ {z} = S
  OBVIOUS
<1>6. z \notin T => T \ {z} = T
  OBVIOUS
<1>7. SumFunctionOnSet(f, S \ {z}) \in Int
  <2>1. IsFiniteSet(S \ {z}) /\ \A x \in S \ {z} : f[x] \in Int
    BY FS_RemoveElement
  <2> QED
    BY <2>1, SumTakesOne
<1> DEFINE A == SumFunctionOnSet(f, S)
           B == SumFunctionOnSet(h, T)
           C == SumFunctionOnSet(f, S \ {z})
<1>8. A = (IF z \in S THEN f[z] ELSE 0) + C
  <2>1. z \in S => A = f[z] + C
    BY <1>3
  <2>2. z \notin S => A = C
    BY <1>5
  <2> QED
    BY <2>1, <2>2, <1>7
<1>9. B = (IF z \in T THEN h[z] ELSE 0) + C
  <2>1. z \in T => B = h[z] + C
    BY <1>2, <1>4
  <2>2. z \notin T => B = C
    BY <1>2, <1>6
  <2> QED
    BY <2>1, <2>2, <1>7
<1>10. (IF z \in S THEN f[z] ELSE 0) \in Int /\ (IF z \in T THEN h[z] ELSE 0) \in Int
  OBVIOUS
<1> HIDE DEF A, B, C
<1> QED
  BY <1>1, <1>3, <1>4, <1>7, <1>8, <1>9, <1>10 DEF A, B, C

-----------------------------------------------------------------------------
(* Bytes *)

\* An aggregate that is not listed has nothing left in it.
Empty == \A a \in Aggregates : (\A k \in Keys : keys[k] # a) => bytes[a] = 0

Kept == Empty /\ IsFiniteSet(Listed) /\ EveryByteOnce

\* What is yet to be counted of one connection, and what one key shows.
Owed(e) == IF Recorded(e) THEN moved[e] - counted[e] ELSE 0
Of(k) == IF keys[k] # None THEN bytes[keys[k]] ELSE 0

\* Where only e's part of what is running changes, all of it changes by that.
LEMMA RunningButOne ==
  ASSUME IInv, IInv', NEW e \in Entries,
         \A f \in Entries \ {e} : Recorded(f)' = Recorded(f),
         \A f \in Entries \ {e} : Recorded(f) => moved'[f] - counted'[f] = moved[f] - counted[f]
  PROVE  /\ Running \in Int /\ Running' \in Int
         /\ Owed(e) \in Int /\ Owed(e)' \in Int
         /\ Running - Owed(e) = Running' - Owed(e)'
<1> DEFINE S == {f \in Entries : Recorded(f)}
           T == {f \in Entries : Recorded(f)'}
           f1 == [f \in S |-> moved[f] - counted[f]]
           f2 == [f \in T |-> moved'[f] - counted'[f]]
<1>1. /\ moved \in [Entries -> Nat] /\ counted \in [Entries -> Nat]
      /\ moved' \in [Entries -> Nat] /\ counted' \in [Entries -> Nat]
  BY DEF IInv, TypeOK
<1>2. IsFiniteSet(S) /\ IsFiniteSet(T)
  BY FlowsAssumption, FS_Subset
<1>3. f1 \in [S -> Int] /\ f2 \in [T -> Int]
  BY <1>1
<1>4. S \ {e} = T \ {e}
  OBVIOUS
<1>5. \A f \in S \ {e} : f1[f] = f2[f]
  BY <1>4
<1>6. /\ Owed(e) = IF e \in S THEN f1[e] ELSE 0
      /\ Owed(e)' = IF e \in T THEN f2[e] ELSE 0
  BY DEF Owed
<1>7. Running = SumFunction(f1) /\ Running' = SumFunction(f2)
  BY Zenon DEF Running
<1>8. Owed(e) \in Int /\ Owed(e)' \in Int
  BY <1>3, <1>6
<1> HIDE DEF S, T, f1, f2
<1>9. /\ SumFunction(f1) \in Int /\ SumFunction(f2) \in Int
      /\ SumFunction(f1) - (IF e \in S THEN f1[e] ELSE 0) =
            SumFunction(f2) - (IF e \in T THEN f2[e] ELSE 0)
  BY <1>2, <1>3, <1>4, <1>5, SumButOne
<1> QED
  BY <1>6, <1>7, <1>8, <1>9

\* The same for k's part of what is shown.
LEMMA ShownButOne ==
  ASSUME IInv, IInv', IsFiniteSet(Listed), IsFiniteSet(Listed'), NEW k \in Keys,
         \A l \in Keys \ {k} : keys'[l] # None <=> keys[l] # None,
         \A l \in Keys \ {k} : keys[l] # None => bytes'[keys'[l]] = bytes[keys[l]]
  PROVE  /\ Shown \in Int /\ Shown' \in Int
         /\ Of(k) \in Int /\ Of(k)' \in Int
         /\ Shown - Of(k) = Shown' - Of(k)'
<1> DEFINE S == Listed
           T == Listed'
           f1 == [l \in S |-> bytes[keys[l]]]
           f2 == [l \in T |-> bytes'[keys'[l]]]
<1>1. /\ bytes \in [Aggregates -> Nat] /\ bytes' \in [Aggregates -> Nat]
      /\ \A l \in S : keys[l] \in Aggregates
      /\ \A l \in T : keys'[l] \in Aggregates
  BY DEF IInv, TypeOK, Listed
<1>3. f1 \in [S -> Int] /\ f2 \in [T -> Int]
  BY <1>1
<1>4. S \ {k} = T \ {k}
  BY DEF Listed
<1>5. \A l \in S \ {k} : f1[l] = f2[l]
  BY <1>4 DEF Listed
<1>6. /\ Of(k) = IF k \in S THEN f1[k] ELSE 0
      /\ Of(k)' = IF k \in T THEN f2[k] ELSE 0
  BY DEF Of, Listed
<1>7. Shown = SumFunction(f1) /\ Shown' = SumFunction(f2)
  BY Zenon DEF Shown
<1>8. Of(k) \in Int /\ Of(k)' \in Int
  BY <1>3, <1>6
<1> HIDE DEF S, T, f1, f2
<1>9. /\ SumFunction(f1) \in Int /\ SumFunction(f2) \in Int
      /\ SumFunction(f1) - (IF k \in S THEN f1[k] ELSE 0) =
            SumFunction(f2) - (IF k \in T THEN f2[k] ELSE 0)
  BY <1>3, <1>4, <1>5, SumButOne DEF S, T
<1> QED
  BY <1>6, <1>7, <1>8, <1>9

\* An eviction takes with it what it says is gone, and nothing else.
LEMMA AttachBytes ==
  ASSUME IInv, IInv', Empty, IsFiniteSet(Listed), NEW k \in Keys,
         NEW e \in Entries, Attach(e, k)
  PROVE  Empty' /\ IsFiniteSet(Listed') /\ Shown' + gone' = Shown + gone
<1>0. /\ bytes \in [Aggregates -> Nat] /\ keys \in [Keys -> Aggregates \cup {None}]
      /\ keys' \in [Keys -> Aggregates \cup {None}]
      /\ gone \in Nat /\ gone' \in Nat /\ None \notin Aggregates
      /\ \A l, m \in Keys : keys[l] # None /\ keys[l] = keys[m] => l = m
  BY FlowsAssumption DEF IInv, TypeOK, Separate
<1>1. CASE JoinKey(e, k)
  BY <1>1 DEF JoinKey, Empty, Listed, Shown
<1>2. ASSUME NEW a \in Unused, keys[k] = None,
             keys' = [keys EXCEPT ![k] = a], UNCHANGED <<bytes, gone>>
      PROVE  Empty' /\ IsFiniteSet(Listed') /\ Shown' + gone' = Shown + gone
  <2>1. a \in Aggregates /\ bytes[a] = 0
    BY DEF Unused, Empty
  <2>2. Listed' = Listed \cup {k}
    BY <1>0, <1>2, <2>1 DEF Listed
  <2>3. IsFiniteSet(Listed')
    BY <2>2, FS_AddElement
  <2>4. /\ \A l \in Keys \ {k} : keys'[l] # None <=> keys[l] # None
        /\ \A l \in Keys \ {k} : keys[l] # None => bytes'[keys'[l]] = bytes[keys[l]]
    BY <1>0, <1>2
  <2>5. Of(k) = 0 /\ Of(k)' = 0
    BY <1>0, <1>2, <2>1 DEF Of
  <2>6. Shown \in Int /\ Shown' \in Int /\ Shown - Of(k) = Shown' - Of(k)'
    BY <2>3, <2>4, ShownButOne
  <2>7. Empty'
    BY <1>0, <1>2 DEF Empty
  <2> QED
    BY <1>0, <1>2, <2>3, <2>5, <2>6, <2>7
<1>3. ASSUME NEW a \in Unused, keys[k] = None, NEW old \in Idle,
             keys' = [keys EXCEPT ![old] = None, ![k] = a],
             bytes' = [bytes EXCEPT ![keys[old]] = 0],
             gone' = gone + bytes[keys[old]]
      PROVE  Empty' /\ IsFiniteSet(Listed') /\ Shown' + gone' = Shown + gone
  <2>1. /\ a \in Aggregates /\ bytes[a] = 0 /\ \A l \in Keys : keys[l] # a
        /\ old \in Keys /\ old # k /\ keys[old] # None /\ keys[old] \in Aggregates
    BY <1>0, <1>3 DEF Unused, Empty, Idle, Listed
  <2>2. /\ keys'[k] = a /\ keys'[old] = None
        /\ \A l \in Keys \ {k, old} : keys'[l] = keys[l]
        /\ bytes'[keys[old]] = 0 /\ bytes'[a] = 0
        /\ \A b \in Aggregates : b # keys[old] => bytes'[b] = bytes[b]
    BY <1>0, <1>3, <2>1
  <2>3. Listed' = (Listed \ {old}) \cup {k}
    BY <1>0, <1>3, <2>1, <2>2 DEF Listed
  <2>4. IsFiniteSet(Listed \ {old}) /\ IsFiniteSet(Listed')
    BY <2>3, FS_AddElement, FS_RemoveElement
  <2> DEFINE S == Listed
             M == Listed \ {old}
             T == Listed'
             f1 == [l \in S |-> bytes[keys[l]]]
             m1 == [l \in M |-> bytes[keys[l]]]
             f2 == [l \in T |-> bytes'[keys'[l]]]
  <2>5. f1 \in [S -> Int] /\ m1 \in [M -> Int] /\ f2 \in [T -> Int]
    <3>1. /\ \A l \in S : bytes[keys[l]] \in Int
          /\ \A l \in M : bytes[keys[l]] \in Int
      BY <1>0 DEF Listed
    <3>2. \A l \in T : bytes'[keys'[l]] \in Int
      BY DEF IInv, TypeOK, Listed
    <3> QED
      BY <3>1, <3>2
  <2>6. SumFunction(f1) - bytes[keys[old]] = SumFunction(m1)
        /\ SumFunction(f1) \in Int /\ SumFunction(m1) \in Int
    <3>1. S \ {old} = M \ {old} /\ old \in S /\ old \notin M
      BY <2>1 DEF Listed
    <3>2. f1[old] = bytes[keys[old]] /\ \A l \in S \ {old} : f1[l] = m1[l]
      BY <3>1
    <3> HIDE DEF f1, m1, M, S
    <3>3. IsFiniteSet(S) /\ IsFiniteSet(M)
      BY <2>4 DEF S, M
    <3>4. /\ SumFunction(f1) \in Int /\ SumFunction(m1) \in Int
          /\ SumFunction(f1) - (IF old \in S THEN f1[old] ELSE 0) =
                SumFunction(m1) - (IF old \in M THEN m1[old] ELSE 0)
      BY <2>5, <3>1, <3>2, <3>3, SumButOne
    <3> QED
      BY <3>1, <3>2, <3>4
  <2>7. SumFunction(m1) = SumFunction(f2) /\ SumFunction(f2) \in Int
    <3>1. M \ {k} = T \ {k} /\ k \notin M /\ k \in T
      BY <1>3, <2>1, <2>3 DEF Listed
    <3>2. f2[k] = 0
      BY <2>2, <3>1
    <3>3. ASSUME NEW l \in M \ {k}
          PROVE  m1[l] = f2[l]
      <4>1. l \in Keys \ {k, old} /\ keys[l] # None /\ keys[l] \in Aggregates
        BY <1>0, <3>3 DEF Listed
      <4>2. keys[l] # keys[old] /\ keys'[l] = keys[l]
        BY <1>0, <2>1, <2>2, <4>1
      <4>3. bytes'[keys'[l]] = bytes[keys[l]]
        BY <2>2, <4>1, <4>2
      <4> QED
        BY <3>1, <3>3, <4>3
    <3> HIDE DEF f2, m1, M, T
    <3>4. IsFiniteSet(T) /\ IsFiniteSet(M)
      BY <2>4 DEF T, M
    <3>5. /\ SumFunction(m1) \in Int /\ SumFunction(f2) \in Int
          /\ SumFunction(m1) - (IF k \in M THEN m1[k] ELSE 0) =
                SumFunction(f2) - (IF k \in T THEN f2[k] ELSE 0)
      BY <2>5, <3>1, <3>3, <3>4, SumButOne
    <3> QED
      BY <3>1, <3>2, <3>5
  <2>8. Shown = SumFunction(f1) /\ Shown' = SumFunction(f2)
    BY Zenon DEF Shown
  <2> HIDE DEF f1, f2, m1, S, M, T
  <2>9. Empty'
    <3> SUFFICES ASSUME NEW b \in Aggregates, \A l \in Keys : keys'[l] # b
                 PROVE  bytes'[b] = 0
      BY DEF Empty
    <3>1. CASE b = keys[old]
      BY <2>2, <3>1
    <3>2. CASE b # keys[old]
      <4>1. \A l \in Keys : keys[l] # b
        BY <1>0, <1>3, <2>2, <3>2
      <4> QED
        BY <2>2, <3>2, <4>1 DEF Empty
    <3> QED
      BY <3>1, <3>2
  <2>10. bytes[keys[old]] \in Nat
    BY <1>0, <2>1
  <2> QED
    BY <1>0, <1>3, <2>4, <2>6, <2>7, <2>8, <2>9, <2>10
<1> QED
  BY <1>1, <1>2, <1>3 DEF Attach, AddKey

\* Accounting for e shows what it owed, under its key.
LEMMA AccountBytes ==
  ASSUME IInv, IInv', Empty, IsFiniteSet(Listed), NEW e \in Entries, agg[e] # None,
         UNCHANGED keys,
         bytes' = [bytes EXCEPT ![agg[e]] = @ + moved[e] - counted[e]]
  PROVE  /\ Empty' /\ IsFiniteSet(Listed')
         /\ Shown \in Int /\ Shown' = Shown + (moved[e] - counted[e])
<1>0. key[e] \in Keys /\ agg[e] = keys[key[e]]
  BY DEF IInv, Counting, Handles
<1> PICK k \in Keys : k = key[e]
  BY <1>0
<1>1. /\ agg[e] = keys[k] /\ keys[k] \in Aggregates /\ keys[k] # None
      /\ bytes \in [Aggregates -> Nat] /\ moved[e] \in Nat /\ counted[e] \in Nat
      /\ \A l, m \in Keys : keys[l] # None /\ keys[l] = keys[m] => l = m
      /\ keys \in [Keys -> Aggregates \cup {None}]
  BY <1>0 DEF IInv, TypeOK, Separate
<1>2. /\ bytes'[keys[k]] = bytes[keys[k]] + moved[e] - counted[e]
      /\ \A b \in Aggregates : b # keys[k] => bytes'[b] = bytes[b]
  BY <1>1
<1>3. Empty'
  BY <1>1, <1>2 DEF Empty
<1>4. Listed' = Listed
  BY DEF Listed
<1>5. \A l \in Keys \ {k} : keys[l] # None => bytes'[keys'[l]] = bytes[keys[l]]
  BY <1>1, <1>2
<1>6. /\ Shown \in Int /\ Shown' \in Int
      /\ Shown - Of(k) = Shown' - Of(k)'
  BY <1>1, <1>4, <1>5, ShownButOne
<1>7. Of(k) = bytes[keys[k]] /\ Of(k)' = bytes[keys[k]] + moved[e] - counted[e]
  BY <1>1, <1>2 DEF Of
<1> QED
  BY <1>1, <1>3, <1>4, <1>6, <1>7

\* Where nothing of a part changes, its sum does not.
LEMMA RunningStays ==
  ASSUME \A f \in Entries : Recorded(f)' = Recorded(f),
         \A f \in Entries : Recorded(f) => moved'[f] - counted'[f] = moved[f] - counted[f]
  PROVE  Running' = Running
<1>1. {f \in Entries : Recorded(f)'} = {f \in Entries : Recorded(f)}
  OBVIOUS
<1>2. [f \in {g \in Entries : Recorded(g)'} |-> moved'[f] - counted'[f]] =
         [f \in {g \in Entries : Recorded(g)} |-> moved[f] - counted[f]]
  BY <1>1
<1> QED
  BY <1>2, Zenon DEF Running

\* The statistics show what they did while nothing is assigned to them.
LEMMA StatsStay ==
  ASSUME UNCHANGED statVars
  PROVE  Shown' = Shown /\ gone' = gone /\ (Empty => Empty') /\ Listed' = Listed
BY DEF statVars, Shown, Empty, Listed

\* Nothing runs while no open connection is recorded, and no key shows nothing.
LEMMA NothingRuns ==
  /\ (\A f \in Entries : ~Recorded(f)) => Running = 0
  /\ (\A f \in Entries : ~Recorded(f)') => Running' = 0
<1>1. ASSUME \A f \in Entries : ~Recorded(f)
      PROVE  Running = 0
  <2>1. {f \in Entries : Recorded(f)} = {}
    BY <1>1
  <2> QED
    BY <2>1, SumOfNone DEF Running
<1>2. ASSUME \A f \in Entries : ~Recorded(f)'
      PROVE  Running' = 0
  <2>1. {f \in Entries : Recorded(f)'} = {}
    BY <1>2
  <2> QED
    BY <2>1, SumOfNone DEF Running
<1> QED
  BY <1>1, <1>2

LEMMA NothingShown == (Listed = {} => Shown = 0) /\ (Listed' = {} => Shown' = 0)
BY SumOfNone DEF Shown

-----------------------------------------------------------------------------
(* What each step does to the bytes *)

\* A connection that opens owes nothing yet.
LEMMA OpenBytes ==
  ASSUME IInv, IInv', Kept, NEW e \in Entries, NEW k \in Keys, Open(e, k)
  PROVE  Kept'
<1>1. Empty /\ IsFiniteSet(Listed) /\ Shown + gone + Running + late = due
  BY DEF Kept, EveryByteOnce
<1>2. /\ due' = due /\ late' = late /\ loop' = loop /\ todo' = todo /\ recording' = recording
      /\ life[e] = "none" /\ life' = [life EXCEPT ![e] = "open"]
      /\ moved' = [moved EXCEPT ![e] = 0] /\ counted' = [counted EXCEPT ![e] = 0]
  BY DEF Open, loopVars, dueVars
<1>3. /\ moved \in [Entries -> Nat] /\ counted \in [Entries -> Nat]
      /\ life \in [Entries -> {"none", "open", "closing", "closed"}]
      /\ gone \in Nat /\ gone' \in Nat /\ due \in Nat /\ late \in Nat
  BY DEF IInv, TypeOK
<1>4. Owed(e) = 0 /\ Owed(e)' = 0
  BY <1>2, <1>3 DEF Owed, Recorded, Active
<1>5. \A f \in Entries \ {e} : Recorded(f)' = Recorded(f)
  BY <1>2, <1>3 DEF Recorded, Active
<1>6. \A f \in Entries \ {e} : moved'[f] - counted'[f] = moved[f] - counted[f]
  BY <1>2, <1>3
<1>7. Running \in Int /\ Running' = Running
  BY <1>4, <1>5, <1>6, RunningButOne
<1>8. Empty' /\ IsFiniteSet(Listed') /\ Shown' + gone' = Shown + gone
  BY <1>1, AttachBytes, StatsStay DEF Open
<1> QED
  BY <1>1, <1>2, <1>7, <1>8 DEF Kept, EveryByteOnce

LEMMA ShownIs ==
  ASSUME IInv, IsFiniteSet(Listed)
  PROVE  Shown \in Int
<1>1. \A k \in Keys : keys[k] # None => bytes[keys[k]] \in Nat
  BY DEF IInv, TypeOK
<1>2. [k \in Listed |-> bytes[keys[k]]] \in [Listed -> Int]
  BY <1>1 DEF Listed
<1>3. SumFunction([k \in Listed |-> bytes[keys[k]]]) \in Int
  BY <1>2, SumButOne
<1> QED
  BY <1>3 DEF Shown

\* A byte that moves is due if it runs.
LEMMA MoveBytes ==
  ASSUME IInv, IInv', Kept, NEW e \in Entries, Move(e)
  PROVE  Kept'
<1>1. Empty /\ IsFiniteSet(Listed) /\ Shown + gone + Running + late = due
  BY DEF Kept, EveryByteOnce
<1>2. /\ due' = (IF Recorded(e) THEN due + 1 ELSE due) /\ late' = late
      /\ UNCHANGED <<recording, loop, todo, life, counted>> /\ UNCHANGED statVars
      /\ moved' = [moved EXCEPT ![e] = @ + 1]
  BY DEF Move, loopVars
<1>3. /\ moved \in [Entries -> Nat] /\ counted \in [Entries -> Nat]
      /\ gone \in Nat /\ due \in Nat /\ late \in Nat
  BY DEF IInv, TypeOK
<1>4. \A f \in Entries : Recorded(f)' = Recorded(f)
  BY <1>2 DEF Recorded, Active
<1>5. Owed(e)' = IF Recorded(e) THEN Owed(e) + 1 ELSE Owed(e)
  BY <1>2, <1>3, <1>4 DEF Owed
<1>6. \A f \in Entries \ {e} : moved'[f] - counted'[f] = moved[f] - counted[f]
  BY <1>2, <1>3
<1>7. /\ Running \in Int /\ Running' \in Int /\ Owed(e) \in Int
      /\ Running - Owed(e) = Running' - Owed(e)'
  BY <1>4, <1>6, RunningButOne
<1>8. Empty' /\ IsFiniteSet(Listed') /\ Shown' = Shown /\ gone' = gone
  BY <1>1, <1>2, StatsStay
<1>9. Running' = IF Recorded(e) THEN Running + 1 ELSE Running
  BY <1>5, <1>7
<1>10. Shown \in Int
  BY <1>1, ShownIs
<1>11. Shown + gone + Running' + late' = due'
  BY <1>1, <1>2, <1>3, <1>7, <1>9, <1>10
<1> QED
  BY <1>8, <1>11 DEF Kept, EveryByteOnce

\* A connection that is accounted for and then kept or let go owes nothing.
LEMMA AccountedBytes ==
  ASSUME IInv, IInv', Kept, NEW e \in Entries, agg[e] # None, Recorded(e),
         UNCHANGED <<keys, gone, due, late>>,
         bytes' = [bytes EXCEPT ![agg[e]] = @ + moved[e] - counted[e]],
         Owed(e)' = 0,
         \A f \in Entries \ {e} : Recorded(f)' = Recorded(f),
         \A f \in Entries \ {e} : moved'[f] - counted'[f] = moved[f] - counted[f]
  PROVE  Kept'
<1>1. Empty /\ IsFiniteSet(Listed) /\ Shown + gone + Running + late = due
  BY DEF Kept, EveryByteOnce
<1>2. gone \in Nat /\ due \in Nat /\ late \in Nat /\ moved[e] \in Nat /\ counted[e] \in Nat
  BY DEF IInv, TypeOK
<1>3. Owed(e) = moved[e] - counted[e]
  BY DEF Owed
<1>4. /\ Running \in Int /\ Running' \in Int /\ Running - Owed(e) = Running' - Owed(e)'
  BY RunningButOne
<1>5. /\ Empty' /\ IsFiniteSet(Listed')
      /\ Shown \in Int /\ Shown' = Shown + (moved[e] - counted[e])
  BY <1>1, AccountBytes
<1>6. Shown' + gone' + Running' + late' = due'
  BY <1>1, <1>2, <1>3, <1>4, <1>5
<1> QED
  BY <1>5, <1>6 DEF Kept, EveryByteOnce

\* What moved before recording began is not counted.
LEMMA AttachNextBytes ==
  ASSUME IInv, IInv', Kept, NEW e \in Entries, AttachNext(e)
  PROVE  Kept'
<1>1. Empty /\ IsFiniteSet(Listed) /\ Shown + gone + Running + late = due
  BY DEF Kept, EveryByteOnce
<1>2. /\ due' = due /\ late' = late /\ loop' = loop /\ recording' = recording
      /\ life' = life /\ moved' = moved
      /\ loop = "attaching" /\ e \in todo /\ todo' = todo \ {e}
      /\ counted' = [counted EXCEPT ![e] = moved[e]]
  BY DEF AttachNext, dueVars
<1>3. /\ moved \in [Entries -> Nat] /\ counted \in [Entries -> Nat]
      /\ gone \in Nat /\ gone' \in Nat /\ due \in Nat /\ late \in Nat
      /\ e \in Active
  BY <1>2 DEF IInv, TypeOK
<1>4. Owed(e) = 0 /\ Owed(e)' = 0
  BY <1>2, <1>3 DEF Owed, Recorded
<1>5. \A f \in Entries \ {e} : Recorded(f)' = Recorded(f)
  BY <1>2 DEF Recorded, Active
<1>6. \A f \in Entries \ {e} : moved'[f] - counted'[f] = moved[f] - counted[f]
  BY <1>2, <1>3
<1>7. Running \in Int /\ Running' = Running
  BY <1>4, <1>5, <1>6, RunningButOne
<1>8. key[e] \in Keys
  BY <1>3 DEF IInv, Handles, Active
<1>9. Empty' /\ IsFiniteSet(Listed') /\ Shown' + gone' = Shown + gone
  <2>1. CASE agg[e] = None
    <3> PICK k \in Keys : k = key[e]
      BY <1>8
    <3> QED
      BY <1>1, <2>1, AttachBytes DEF AttachNext, dueVars
  <2>2. CASE agg[e] # None
    BY <1>1, <2>2, StatsStay DEF AttachNext, dueVars
  <2> QED
    BY <2>1, <2>2
<1> QED
  BY <1>1, <1>2, <1>7, <1>9 DEF Kept, EveryByteOnce

\* Where what is recorded and what is shown stay, the sums do.
LEMMA BytesStay ==
  ASSUME Kept, UNCHANGED statVars, UNCHANGED <<due, late, moved, counted>>,
         \A f \in Entries : Recorded(f)' = Recorded(f)
  PROVE  Kept'
<1>1. Running' = Running
  BY RunningStays
<1> QED
  BY <1>1, StatsStay DEF Kept, EveryByteOnce

\* A byte that moves after its connection closed is late.
LEMMA LateBytes ==
  ASSUME IInv, IInv', Kept, NEW e \in Entries, MoveLate(e)
  PROVE  Kept'
<1>1. Empty /\ IsFiniteSet(Listed) /\ Shown + gone + Running + late = due
  BY DEF Kept, EveryByteOnce
<1>2. /\ due' = due + 1 /\ late' = late + 1 /\ UNCHANGED statVars
      /\ UNCHANGED <<recording, loop, todo, life, moved, counted>>
  BY DEF MoveLate, loopVars, entryVars
<1>3. gone \in Nat /\ due \in Nat /\ late \in Nat
  BY DEF IInv, TypeOK
<1>4. \A f \in Entries : Recorded(f)' = Recorded(f)
  BY <1>2 DEF Recorded, Active
<1>5. \A f \in Entries \ {e} : moved'[f] - counted'[f] = moved[f] - counted[f]
  BY <1>2
<1>6. Running \in Int /\ Running' = Running
  <2>1. Running \in Int
    BY <1>4, <1>5, RunningButOne
  <2>2. Running' = Running
    BY <1>2, <1>4, RunningStays
  <2> QED
    BY <2>1, <2>2
<1>7. Shown' = Shown /\ gone' = gone /\ Empty' /\ Listed' = Listed
  BY <1>1, <1>2, StatsStay
<1>8. Shown \in Int
  BY <1>1, ShownIs
<1>9. Shown' + gone' + Running' + late' = due'
  BY <1>1, <1>2, <1>3, <1>6, <1>7, <1>8
<1> QED
  BY <1>1, <1>7, <1>9 DEF Kept, EveryByteOnce

\* No step loses a byte or counts one twice.
LEMMA BytesStep == IInv /\ IInv' /\ Kept /\ [Next]_vars => Kept'
<1> SUFFICES ASSUME IInv, IInv', Kept, [Next]_vars
             PROVE  Kept'
  OBVIOUS
<1>0. /\ moved \in [Entries -> Nat] /\ counted \in [Entries -> Nat]
      /\ life \in [Entries -> {"none", "open", "closing", "closed"}]
      /\ loop \in {"none", "attaching", "stopping"}
      /\ loop = "none" => todo = {}
      /\ loop # "none" => recording
      /\ recording \in BOOLEAN
  BY DEF IInv, TypeOK, Loops
<1>1. ASSUME NEW e \in Entries, NEW k \in Keys, Open(e, k)
      PROVE  Kept'
  BY <1>1, OpenBytes
<1>2. ASSUME NEW e \in Entries, Move(e)
      PROVE  Kept'
  BY <1>2, MoveBytes
<1>3. ASSUME NEW e \in Entries, CloseBegins(e)
      PROVE  Kept'
  <2>1. \A f \in Entries : Recorded(f)' = Recorded(f)
    BY <1>0, <1>3 DEF CloseBegins, Recorded, Active, loopVars
  <2>2. UNCHANGED statVars /\ UNCHANGED <<due, late, moved, counted>>
    BY <1>3 DEF CloseBegins, dueVars
  <2> QED
    BY <2>1, <2>2, BytesStay
<1>4. ASSUME NEW e \in Entries, CloseRecorded(e)
      PROVE  Kept'
  <2>1. /\ Unlocked /\ recording /\ life[e] = "closing" /\ UNCHANGED <<recording, loop, todo>>
        /\ LetGo(e) /\ UNCHANGED <<keys, gone, due, late>>
    BY <1>4 DEF CloseRecorded, loopVars, dueVars
  <2>2. e \in Active /\ Recorded(e)
    BY <2>1 DEF Active, Recorded, Unlocked
  <2>3. agg[e] # None
    BY <2>1, <2>2 DEF IInv, Counting, Unlocked
  <2>4. bytes' = [bytes EXCEPT ![agg[e]] = @ + moved[e] - counted[e]]
    BY <1>4, <2>3 DEF CloseRecorded
  <2>5. Owed(e)' = 0
    BY <1>0, <2>1 DEF LetGo, Owed, Recorded, Active
  <2>6. \A f \in Entries \ {e} : Recorded(f)' = Recorded(f)
    BY <1>0, <2>1 DEF LetGo, Recorded, Active
  <2>7. \A f \in Entries \ {e} : moved'[f] - counted'[f] = moved[f] - counted[f]
    BY <1>0, <2>1 DEF LetGo
  <2> QED
    BY <2>1, <2>2, <2>3, <2>4, <2>5, <2>6, <2>7, AccountedBytes
<1>5. ASSUME NEW e \in Entries, CloseUnrecorded(e)
      PROVE  Kept'
  <2>1. ~recording /\ recording' = recording /\ UNCHANGED <<keys, bytes, gone, due, late>>
    BY <1>5 DEF CloseUnrecorded, loopVars, dueVars
  <2>2. /\ \A f \in Entries : ~Recorded(f)
        /\ \A f \in Entries : ~Recorded(f)'
    BY <2>1 DEF Recorded
  <2>3. Running = 0
    BY <2>2, NothingRuns
  <2>4. Running' = 0
    BY <2>2, NothingRuns
  <2>5. Shown' = Shown /\ Listed' = Listed /\ Empty'
    BY <2>1 DEF Shown, Listed, Empty, Kept
  <2> QED
    BY <2>1, <2>3, <2>4, <2>5 DEF Kept, EveryByteOnce
<1>6. ASSUME NEW e \in Entries, Account(e)
      PROVE  Kept'
  <2>1. /\ Unlocked /\ recording /\ e \in Active /\ agg[e] # None
        /\ UNCHANGED <<recording, loop, todo, life, moved, keys, gone, due, late>>
        /\ bytes' = [bytes EXCEPT ![agg[e]] = @ + moved[e] - counted[e]]
        /\ counted' = [counted EXCEPT ![e] = moved[e]]
    BY <1>6 DEF Account, AccountFor, loopVars, dueVars
  <2>2. Recorded(e) /\ \A f \in Entries : Recorded(f)' = Recorded(f)
    BY <2>1 DEF Recorded, Active, Unlocked
  <2>3. Owed(e)' = 0
    BY <1>0, <2>1 DEF Owed
  <2>4. \A f \in Entries \ {e} : moved'[f] - counted'[f] = moved[f] - counted[f]
    BY <1>0, <2>1
  <2> QED
    BY <2>1, <2>2, <2>3, <2>4, AccountedBytes
<1>7. ASSUME NEW e \in Entries, AttachNext(e)
      PROVE  Kept'
  BY <1>7, AttachNextBytes
<1>8. ASSUME NEW e \in Entries, AccountNext(e)
      PROVE  Kept'
  <2>1. /\ loop = "stopping" /\ e \in todo /\ todo' = todo \ {e}
        /\ UNCHANGED <<recording, loop, life, moved, keys, gone, due, late>>
    BY <1>8 DEF AccountNext, dueVars
  <2>2. e \in Active /\ Recorded(e)
    BY <1>0, <2>1 DEF IInv, TypeOK, Recorded
  <2>3. agg[e] # None
    BY <1>0, <2>1, <2>2 DEF IInv, Counting
  <2>4. /\ bytes' = [bytes EXCEPT ![agg[e]] = @ + moved[e] - counted[e]]
        /\ counted' = [counted EXCEPT ![e] = moved[e]]
    BY <1>8, <2>3 DEF AccountNext, AccountFor
  <2>5. Owed(e)' = 0
    BY <2>1 DEF Owed, Recorded
  <2>6. \A f \in Entries \ {e} : Recorded(f)' = Recorded(f)
    BY <2>1 DEF Recorded, Active
  <2>7. \A f \in Entries \ {e} : moved'[f] - counted'[f] = moved[f] - counted[f]
    BY <1>0, <2>1, <2>4
  <2> QED
    BY <2>1, <2>2, <2>3, <2>4, <2>5, <2>6, <2>7, AccountedBytes
<1>9. ASSUME StartRecording
      PROVE  Kept'
  <2>1. \A f \in Entries : Recorded(f)' = Recorded(f)
    BY <1>9 DEF StartRecording, Recorded, Active, entryVars
  <2>2. UNCHANGED statVars /\ UNCHANGED <<due, late, moved, counted>>
    BY <1>9 DEF StartRecording, entryVars, dueVars
  <2> QED
    BY <2>1, <2>2, BytesStay
<1>10. ASSUME StopRecording
       PROVE  Kept'
  <2>1. \A f \in Entries : Recorded(f)' = Recorded(f)
    BY <1>10 DEF StopRecording, Recorded, Active, entryVars, Unlocked
  <2>2. UNCHANGED statVars /\ UNCHANGED <<due, late, moved, counted>>
    BY <1>10 DEF StopRecording, entryVars, dueVars
  <2> QED
    BY <2>1, <2>2, BytesStay
<1>11. ASSUME LoopEnds
       PROVE  Kept'
  <2>1. \A f \in Entries : Recorded(f)' = Recorded(f)
    BY <1>0, <1>11 DEF LoopEnds, Recorded, Active, entryVars, Unlocked
  <2>2. UNCHANGED statVars /\ UNCHANGED <<due, late, moved, counted>>
    BY <1>11 DEF LoopEnds, entryVars, dueVars
  <2> QED
    BY <2>1, <2>2, BytesStay
<1>12. ASSUME Clear
       PROVE  Kept'
  <2>1. /\ keys' = [k \in Keys |-> None] /\ bytes' = [a \in Aggregates |-> 0]
        /\ due' = 0 /\ late' = 0 /\ gone' = 0 /\ recording' = recording /\ life' = life
        /\ loop' = IF recording THEN "attaching" ELSE "none"
        /\ todo' = IF recording THEN Active ELSE {}
    BY <1>12 DEF Clear
  <2>2. Listed' = {}
    BY <2>1 DEF Listed
  <2>3. \A f \in Entries : ~Recorded(f)'
    BY <2>1 DEF Recorded, Active
  <2>4. Running' = 0
    BY <2>3, NothingRuns
  <2>5. Shown' = 0
    BY <2>2, NothingShown
  <2>6. Empty'
    BY <2>1 DEF Empty
  <2> QED
    BY <2>1, <2>2, <2>4, <2>5, <2>6, FS_EmptySet DEF Kept, EveryByteOnce
<1>13. CASE UNCHANGED vars
  <2>1. UNCHANGED statVars /\ UNCHANGED <<due, late, moved, counted, recording, loop, todo, life>>
    BY <1>13 DEF vars, loopVars, entryVars, dueVars
  <2>2. \A f \in Entries : Recorded(f)' = Recorded(f)
    BY <2>1 DEF Recorded, Active
  <2> QED
    BY <2>1, <2>2, BytesStay
<1>14. ASSUME NEW e \in Entries, MoveLate(e)
       PROVE  Kept'
  BY <1>14, LateBytes
<1>15. ASSUME NEW e \in Entries, RelayEnds(e)
       PROVE  Kept'
  <2>1. UNCHANGED statVars /\ UNCHANGED <<due, late, moved, counted, recording, loop, todo>>
    BY <1>15 DEF RelayEnds, loopVars, dueVars
  <2>2. Active' = Active
    BY <1>15, RelayLeavesNothing DEF IInv
  <2>3. \A f \in Entries : Recorded(f)' = Recorded(f)
    BY <2>1, <2>2 DEF Recorded
  <2> QED
    BY <2>1, <2>3, BytesStay
<1>16. ASSUME NEW e \in Entries, EntryNext(e)
       PROVE  Kept'
  BY <1>1, <1>2, <1>3, <1>4, <1>5, <1>6, <1>7, <1>8, <1>14, <1>15, <1>16 DEF EntryNext
<1> QED
  BY <1>9, <1>10, <1>11, <1>12, <1>13, <1>16 DEF Next

\* And none has moved at the start.
LEMMA InitKept == Init => Kept
<1> SUFFICES ASSUME Init
             PROVE  Kept
  OBVIOUS
<1>1. Listed = {} /\ gone = 0 /\ due = 0 /\ late = 0 /\ ~recording
  BY DEF Init, Listed
<1>2. Running = 0
  BY <1>1, NothingRuns DEF Recorded
<1>3. Shown = 0
  BY <1>1, NothingShown
<1>4. Empty
  BY DEF Init, Empty
<1> QED
  BY <1>1, <1>2, <1>3, <1>4, FS_EmptySet DEF Kept, EveryByteOnce

\* Every byte that moves while recording is shown under one key once, save those
\* a relay counts after its connection closed, for any number of connections,
\* keys and limit: whatever is evicted, switched, cleared and closed in whatever
\* order, between any two steps of a loop.
THEOREM BytesCountedOnce == Spec => []EveryByteOnce
<1>1. Kept => EveryByteOnce
  BY DEF Kept
<1> QED
  BY <1>1, InitKept, BytesStep, Invariance, PTL DEF Spec
-----------------------------------------------------------------------------
(* The ring *)

\* The ring holds the last connections to close since the clear, the oldest
\* of them at head.
Ring ==
    /\ cleared <= seq
    /\ Len(closed) <= seq - cleared
    /\ Len(closed) < Capacity => Len(closed) = seq - cleared /\ head = 0
    /\ \A j \in 1..Len(closed) :
          closed[j] = IF j <= head THEN seq - head + j ELSE seq - Len(closed) - head + j

\* Going round a ring of n places once takes one back to its start.
LEMMA Round ==
  ASSUME NEW n \in Nat \ {0}, NEW a \in 0..(2 * n - 1)
  PROVE  a % n = IF a < n THEN a ELSE a - n
<1>1. a < n => a % n = a
  OBVIOUS
<1>2. a >= n => a % n = a - n
  OBVIOUS
<1> QED
  BY <1>1, <1>2

\* The one that closes takes the place of the oldest.
LEMMA RememberRing ==
  ASSUME TypeOK, Ring, Remember, UNCHANGED cleared
  PROVE  Ring'
<1>1. /\ closed \in Seq(Nat) /\ Len(closed) <= Capacity /\ head \in 0..(Capacity - 1)
      /\ Len(closed) \in Nat
      /\ seq \in Nat /\ cleared \in Nat /\ seq' = seq + 1 /\ cleared' = cleared
      /\ Capacity \in Nat \ {0}
  BY FlowsAssumption DEF TypeOK, Remember
<1>2. CASE Len(closed) < Capacity
  <2>1. closed' = Append(closed, seq + 1) /\ head' = 0 /\ head = 0 /\ Len(closed) = seq - cleared
    BY <1>2 DEF Remember, Ring
  <2>2. Len(closed') = Len(closed) + 1
    BY <1>1, <2>1
  <2>3. ASSUME NEW j \in 1..Len(closed')
        PROVE  closed'[j] = seq' - Len(closed') - head' + j
    <3>1. CASE j \in 1..Len(closed)
      <4>1. closed'[j] = closed[j]
        BY <1>1, <2>1, <3>1
      <4>2. closed[j] = seq - Len(closed) - head + j
        BY <2>1, <3>1 DEF Ring
      <4> QED
        BY <1>1, <2>1, <2>2, <4>1, <4>2
    <3>2. CASE j = Len(closed) + 1
      BY <1>1, <2>1, <2>2, <3>2
    <3> QED
      BY <1>1, <2>2, <3>1, <3>2
  <2>4. \A j \in 1..Len(closed') : ~(j <= head')
    BY <2>1
  <2>5. Len(closed') = seq' - cleared' /\ cleared' <= seq'
    BY <1>1, <2>1, <2>2
  <2> QED
    BY <2>1, <2>3, <2>4, <2>5 DEF Ring
<1>3. CASE ~(Len(closed) < Capacity)
  <2>1. /\ closed' = [closed EXCEPT ![head + 1] = seq + 1]
        /\ head' = (head + 1) % Capacity
        /\ Len(closed) = Capacity /\ head + 1 \in 1..Len(closed)
    BY <1>1, <1>3 DEF Remember
  <2>2. Len(closed') = Capacity /\ \A j \in 1..Capacity : closed'[j] = IF j = head + 1 THEN seq + 1 ELSE closed[j]
    BY <1>1, <2>1
  <2>3. head' = IF head + 1 < Capacity THEN head + 1 ELSE 0
    <3>1. head + 1 \in 0..(2 * Capacity - 1)
      BY <1>1
    <3> QED
      BY <1>1, <2>1, <3>1, Round
  <2>4. ASSUME NEW j \in 1..Capacity
        PROVE  closed'[j] = IF j <= head' THEN seq' - head' + j ELSE seq' - Capacity - head' + j
    <3>1. closed[j] = IF j <= head THEN seq - head + j ELSE seq - Capacity - head + j
      BY <2>1 DEF Ring
    <3> QED
      BY <1>1, <2>2, <2>3, <3>1
  <2>5. cleared' <= seq' /\ Len(closed') <= seq' - cleared'
    BY <1>1, <2>1, <2>2 DEF Ring
  <2> QED
    BY <2>2, <2>4, <2>5 DEF Ring
<1> QED
  BY <1>2, <1>3

\* Only a close and a clear touch the ring.
LEMMA RingStep == IInv /\ Ring /\ [Next]_vars => Ring'
<1> SUFFICES ASSUME IInv, Ring, [Next]_vars
             PROVE  Ring'
  OBVIOUS
<1>1. ASSUME UNCHANGED ringVars
      PROVE  Ring'
  BY <1>1 DEF Ring, ringVars
<1>2. ASSUME NEW e \in Entries, CloseRecorded(e)
      PROVE  Ring'
  BY <1>2, RememberRing DEF CloseRecorded, IInv
<1>3. ASSUME Clear
      PROVE  Ring'
  <2>1. closed' = <<>> /\ head' = 0 /\ cleared' = seq /\ seq' = seq /\ seq \in Nat
    BY <1>3 DEF Clear, IInv, TypeOK
  <2> QED
    BY <2>1 DEF Ring
<1>4. CASE UNCHANGED vars
  BY <1>1, <1>4 DEF vars, ringVars
<1>5. ASSUME NEW e \in Entries, EntryNext(e)
      PROVE  Ring'
  BY <1>1, <1>2, <1>5 DEF EntryNext, Open, Move, MoveLate, CloseBegins, CloseUnrecorded,
     RelayEnds, Account, AttachNext, AccountNext
<1>6. ASSUME StartRecording \/ StopRecording \/ LoopEnds
      PROVE  Ring'
  BY <1>1, <1>6 DEF StartRecording, StopRecording, LoopEnds
<1> QED
  BY <1>3, <1>4, <1>5, <1>6 DEF Next

\* Max of three numbers is one of them, and no less than any.
LEMMA MaxOfThree ==
  ASSUME NEW a \in Int, NEW b \in Int, NEW c \in Int
  PROVE  /\ Max({a, b, c}) \in {a, b, c}
         /\ a <= Max({a, b, c}) /\ b <= Max({a, b, c}) /\ c <= Max({a, b, c})
<1>1. \E x \in {a, b, c} : \A y \in {a, b, c} : x >= y
  <2>1. CASE a >= b /\ a >= c
    BY <2>1
  <2>2. CASE b >= a /\ b >= c
    BY <2>2
  <2>3. CASE c >= a /\ c >= b
    BY <2>3
  <2> QED
    BY <2>1, <2>2, <2>3
<1>2. /\ Max({a, b, c}) \in {a, b, c}
      /\ \A y \in {a, b, c} : Max({a, b, c}) >= y
  BY <1>1, Zenon DEF Max
<1> HIDE DEF Max
<1> QED
  BY <1>2

\* Min of two numbers.
LEMMA MinOfTwo ==
  ASSUME NEW a \in Int, NEW b \in Int
  PROVE  Min({a, b}) = IF a <= b THEN a ELSE b
<1>1. \E x \in {a, b} : \A y \in {a, b} : x =< y
  <2>1. CASE a <= b
    BY <2>1
  <2>2. CASE b <= a
    BY <2>2
  <2> QED
    BY <2>1, <2>2
<1>2. /\ Min({a, b}) \in {a, b}
      /\ \A y \in {a, b} : Min({a, b}) =< y
  BY <1>1, Zenon DEF Min
<1> HIDE DEF Min
<1> QED
  BY <1>2

\* Whatever the ring's capacity, a poll gets exactly what closed since the one
\* before and is still kept, in order.
THEOREM PollsExact == Spec => []PollsAreExact
<1>1. Init => Ring
  BY FlowsAssumption DEF Init, Ring
<1>2. ASSUME IInv, Ring
      PROVE  PollsAreExact
  <2>1. /\ Len(closed) \in Nat /\ Len(closed) <= Capacity
        /\ head \in 0..(Capacity - 1) /\ seq \in Nat /\ cleared \in Nat /\ Capacity \in Nat \ {0}
        /\ cleared <= seq /\ Len(closed) <= seq - cleared
        /\ Len(closed) < Capacity => Len(closed) = seq - cleared /\ head = 0
    BY <1>2, FlowsAssumption DEF IInv, TypeOK, Ring
  <2>2. ASSUME NEW since \in 0..(seq + 1)
        PROVE  Snapshot(since) =
                  [i \in 1..(seq - Max({since, cleared, seq - Capacity})) |->
                      Max({since, cleared, seq - Capacity}) + i]
    <3> DEFINE past == Max({since, cleared, seq - Capacity})
               n == IF since < seq THEN Min({seq - since, Len(closed)}) ELSE 0
               from == Len(closed) - n
    <3>1. /\ past \in {since, cleared, seq - Capacity}
          /\ since <= past /\ cleared <= past /\ seq - Capacity <= past
      <4>1. since \in Int /\ cleared \in Int /\ seq - Capacity \in Int
        BY <2>1
      <4> QED
        BY <4>1, MaxOfThree, Zenon
    <3>2. n = IF since < seq THEN (IF seq - since <= Len(closed) THEN seq - since ELSE Len(closed)) ELSE 0
      BY <2>1, MinOfTwo
    <3> HIDE DEF past, n
    <3>3. n \in 0..Len(closed) /\ (1..n) = 1..(seq - past) /\ (n > 0 => n = seq - past)
      BY <2>1, <3>1, <3>2
    <3>4. ASSUME NEW i \in 1..n
          PROVE  closed[((head + from + i - 1) % Len(closed)) + 1] = past + i
      <4> DEFINE a == head + from + i - 1
      <4>1. Len(closed) \in Nat \ {0} /\ a \in 0..(2 * Len(closed) - 1) /\ head < Len(closed)
        BY <2>1, <3>3
      <4>2. a % Len(closed) = IF a < Len(closed) THEN a ELSE a - Len(closed)
        BY <4>1, Round
      <4>3. CASE a < Len(closed)
        <5>1. a + 1 \in 1..Len(closed) /\ ~(a + 1 <= head)
          BY <2>1, <3>3, <4>1, <4>3
        <5>2. closed[a + 1] = seq - Len(closed) - head + (a + 1)
          BY <1>2, <5>1 DEF Ring
        <5> QED
          BY <2>1, <3>1, <3>3, <4>2, <4>3, <5>2
      <4>4. CASE ~(a < Len(closed))
        <5>1. a - Len(closed) + 1 \in 1..Len(closed) /\ a - Len(closed) + 1 <= head
          BY <2>1, <3>3, <4>1, <4>4
        <5>2. closed[a - Len(closed) + 1] = seq - head + (a - Len(closed) + 1)
          BY <1>2, <5>1 DEF Ring
        <5> QED
          BY <2>1, <3>1, <3>3, <4>2, <4>4, <5>2
      <4> QED
        BY <4>3, <4>4
    <3>5. Snapshot(since) = [i \in 1..n |-> closed[((head + from + i - 1) % Len(closed)) + 1]]
      BY DEF Snapshot, n
    <3> HIDE DEF from
    <3>6. Snapshot(since) = [i \in 1..(seq - past) |-> past + i]
      BY <3>3, <3>4, <3>5
    <3> QED
      BY <3>6 DEF past
  <2> QED
    BY <2>2 DEF PollsAreExact
<1> QED
  BY <1>1, <1>2, RingStep, Invariance, PTL DEF Spec
-----------------------------------------------------------------------------
(* The table of keys *)

\* Max of two numbers is one of them, and no less than either.
LEMMA MaxOfTwo ==
  ASSUME NEW a \in Int, NEW b \in Int
  PROVE  Max({a, b}) \in {a, b} /\ a <= Max({a, b}) /\ b <= Max({a, b})
<1>1. {a, b, b} = {a, b}
  OBVIOUS
<1> QED
  BY <1>1, MaxOfThree, Zenon

\* A table in which no key is idle has no more keys than connections.
LEMMA NoneIdle ==
  ASSUME IInv, IsFiniteSet(Listed), Idle = {}, NEW e \in Entries, agg[e] = None
  PROVE  Cardinality(Listed) <= Cardinality(Entries) - 1
<1> DEFINE S == Entries \ {e}
           f == [l \in Listed |-> CHOOSE d \in Entries : agg[d] = keys[l]]
<1>1. ASSUME NEW l \in Listed
      PROVE  f[l] \in S /\ agg[f[l]] = keys[l]
  <2>1. keys[l] # None /\ open[keys[l]] # 0 /\ open[keys[l]] = Cardinality(Attached(keys[l]))
    BY DEF Idle, Listed, IInv, Counts
  <2>2. Attached(keys[l]) # {}
    BY <2>1, FS_EmptySet
  <2>3. \E d \in Entries : agg[d] = keys[l]
    BY <2>2 DEF Attached
  <2> QED
    BY <2>1, <2>3
<1>2. f \in Injection(Listed, S)
  <2>1. f \in [Listed -> S]
    BY <1>1
  <2>2. ASSUME NEW l \in Listed, NEW m \in Listed, f[l] = f[m]
        PROVE  l = m
    <3>1. keys[l] = keys[m] /\ keys[l] # None /\ l \in Keys /\ m \in Keys
      BY <1>1, <2>2 DEF Listed
    <3> QED
      BY <3>1 DEF IInv, Separate
  <2> HIDE DEF f, S
  <2> QED
    BY <2>1, <2>2 DEF Injection, IsInjective
<1>3. IsFiniteSet(S) /\ Cardinality(S) = Cardinality(Entries) - 1
  BY FlowsAssumption, FS_RemoveElement
<1> HIDE DEF f, S
<1> QED
  BY <1>2, <1>3, FS_Injection

\* A new key takes a place that is free, or an old one's, or there is a
\* connection for every key.
LEMMA AttachBounded ==
  ASSUME IInv, IsFiniteSet(Listed), TableBounded,
         NEW e \in Entries, agg[e] = None, NEW k \in Keys, Attach(e, k)
  PROVE  TableBounded'
<1>0. /\ MaxKeys \in Int /\ Cardinality(Entries) \in Int /\ Cardinality(Listed) \in Nat
      /\ keys \in [Keys -> Aggregates \cup {None}] /\ None \notin Aggregates
  BY FlowsAssumption, FS_CardinalityType DEF IInv, TypeOK
<1>1. /\ MaxKeys <= Max({MaxKeys, Cardinality(Entries)})
      /\ Cardinality(Entries) <= Max({MaxKeys, Cardinality(Entries)})
      /\ Max({MaxKeys, Cardinality(Entries)}) \in Int
  BY <1>0, MaxOfTwo
<1>2. CASE JoinKey(e, k)
  BY <1>2 DEF JoinKey, TableBounded, Listed
<1>3. ASSUME NEW a \in Unused, keys[k] = None, keys' = [keys EXCEPT ![k] = a],
             Cardinality(Listed) < MaxKeys \/ Idle = {}
      PROVE  TableBounded'
  <2>1. Listed' = Listed \cup {k} /\ k \notin Listed
    BY <1>0, <1>3 DEF Listed, Unused
  <2>2. Cardinality(Listed') = Cardinality(Listed) + 1
    BY <2>1, FS_AddElement
  <2>3. Cardinality(Listed) + 1 <= MaxKeys \/ Cardinality(Listed) + 1 <= Cardinality(Entries)
    <3>1. CASE Cardinality(Listed) < MaxKeys
      BY <1>0, <3>1
    <3>2. CASE Idle = {}
      BY <1>0, <3>2, NoneIdle
    <3> QED
      BY <1>3, <3>1, <3>2
  <2> HIDE DEF Max
  <2> QED
    BY <1>0, <1>1, <2>2, <2>3 DEF TableBounded
<1>4. ASSUME NEW a \in Unused, keys[k] = None, NEW old \in Idle,
             keys' = [keys EXCEPT ![old] = None, ![k] = a]
      PROVE  TableBounded'
  <2>1. Listed' = (Listed \ {old}) \cup {k} /\ k \notin Listed \ {old} /\ old \in Listed
    BY <1>0, <1>4 DEF Listed, Unused, Idle
  <2>2. IsFiniteSet(Listed \ {old}) /\ Cardinality(Listed \ {old}) = Cardinality(Listed) - 1
    BY <2>1, FS_RemoveElement
  <2>3. Cardinality((Listed \ {old}) \cup {k}) = Cardinality(Listed \ {old}) + 1
    BY <2>1, <2>2, FS_AddElement
  <2>4. Cardinality(Listed') = Cardinality(Listed)
    BY <1>0, <2>1, <2>2, <2>3
  <2> QED
    BY <2>4 DEF TableBounded
<1> QED
  BY <1>2, <1>3, <1>4 DEF Attach, AddKey

\* Nothing else makes a key.
LEMMA BoundedStep == IInv /\ Kept /\ TableBounded /\ [Next]_vars => TableBounded'
<1> SUFFICES ASSUME IInv, Kept, TableBounded, [Next]_vars
             PROVE  TableBounded'
  OBVIOUS
<1>0. IsFiniteSet(Listed)
  BY DEF Kept
<1>1. ASSUME UNCHANGED keys
      PROVE  TableBounded'
  BY <1>1 DEF TableBounded, Listed
<1>2. ASSUME NEW e \in Entries, NEW k \in Keys, Open(e, k)
      PROVE  TableBounded'
  <2>1. CASE recording
    <3>1. agg[e] = None /\ Attach(e, k)
      BY <1>2, <2>1 DEF Open, IInv, Handles, Active
    <3> QED
      BY <1>0, <3>1, AttachBounded
  <2>2. CASE ~recording
    BY <1>1, <1>2, <2>2 DEF Open, statVars
  <2> QED
    BY <2>1, <2>2
<1>3. ASSUME NEW e \in Entries, AttachNext(e)
      PROVE  TableBounded'
  <2>1. CASE agg[e] = None
    <3>1. key[e] \in Keys
      BY <1>3 DEF AttachNext, IInv, TypeOK, Handles, Active
    <3> PICK k \in Keys : k = key[e]
      BY <3>1
    <3>2. Attach(e, k)
      BY <1>3, <2>1 DEF AttachNext
    <3> QED
      BY <1>0, <2>1, <3>2, AttachBounded
  <2>2. CASE agg[e] # None
    BY <1>1, <1>3, <2>2 DEF AttachNext, statVars
  <2> QED
    BY <2>1, <2>2
<1>4. ASSUME Clear
      PROVE  TableBounded'
  <2>1. Listed' = {}
    BY <1>4 DEF Clear, Listed
  <2>2. MaxKeys \in Nat /\ Cardinality(Entries) \in Int
    BY FlowsAssumption, FS_CardinalityType
  <2>3. 0 <= Max({MaxKeys, Cardinality(Entries)})
    BY <2>2, MaxOfTwo
  <2> HIDE DEF Max
  <2> QED
    BY <2>1, <2>3, FS_EmptySet DEF TableBounded
<1>5. ASSUME NEW e \in Entries, EntryNext(e)
      PROVE  TableBounded'
  BY <1>1, <1>2, <1>3, <1>5 DEF EntryNext, Move, MoveLate, CloseBegins, CloseRecorded,
     CloseUnrecorded, RelayEnds, Account, AccountNext, statVars
<1>6. ASSUME StartRecording \/ StopRecording \/ LoopEnds
      PROVE  TableBounded'
  BY <1>1, <1>6 DEF StartRecording, StopRecording, LoopEnds, statVars
<1>7. CASE UNCHANGED vars
  BY <1>1, <1>7 DEF vars, statVars
<1> QED
  BY <1>4, <1>5, <1>6, <1>7 DEF Next

\* For any limit, any keys and any number of connections: the table has at most
\* as many keys as the limit allows or as connections are open at once.
THEOREM TableStaysSmall == Spec => []TableBounded
<1>1. Init => TableBounded
  <2> SUFFICES ASSUME Init
               PROVE  TableBounded
    OBVIOUS
  <2>1. Listed = {}
    BY DEF Init, Listed
  <2>2. MaxKeys \in Nat /\ Cardinality(Entries) \in Int
    BY FlowsAssumption, FS_CardinalityType
  <2>3. 0 <= Max({MaxKeys, Cardinality(Entries)})
    BY <2>2, MaxOfTwo
  <2> HIDE DEF Max
  <2> QED
    BY <2>1, <2>3, FS_EmptySet DEF TableBounded
<1> QED
  BY <1>1, InitKept, BytesStep, BoundedStep, Invariance, PTL DEF Spec
=============================================================================
