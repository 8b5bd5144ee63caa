------------------------------- MODULE Flows -------------------------------
(***************************************************************************)
(* go/tun2socks/internal/flows: the connection list the app polls, and the *)
(* statistics by key.                                                      *)
(*                                                                         *)
(* t.mu guards all of it but two things: the bytes of an open connection   *)
(* are counted without a lock, and Close marks an entry under the entry's  *)
(* own mutex before it takes t.mu.  The loops over the open connections    *)
(* run under t.mu while bytes go on moving, so they are taken step by      *)
(* step.  The goroutines of a UDP relay outlive the connection's Close and *)
(* count on.                                                               *)
(*                                                                         *)
(* An aggregate is an object: entries point to it, and the table lists it  *)
(* under its key until it is evicted; then it is as good as a new one.     *)
(* Upload and download are one counter.  A flow in the ring is known by    *)
(* its sequence number.  A key's history by time, its reasons and its      *)
(* number of connections are left out, and so is the order in which keys   *)
(* were last seen: any one with nothing open may be the oldest.            *)
(***************************************************************************)
EXTENDS Integers, Sequences, FiniteSets, FiniteSetsExt, Functions

CONSTANTS
    Entries,        \* handles of open connections
    Keys,           \* what connections are summed by
    Aggregates,     \* identities of aggregate
    MaxKeys,        \* statsTable.maxKeys: 5000 in the code
    Capacity,       \* of the ring: 2000 in the code
    MaxSeq,         \* bound: connections that are recorded
    MaxBytes,       \* bound: bytes that move
    None            \* Go's nil

ASSUME FlowsAssumption ==
    /\ {MaxKeys, Capacity} \subseteq Nat \ {0}
    /\ {MaxSeq, MaxBytes} \subseteq Nat
    /\ None \notin Aggregates \cup Keys
    /\ IsFiniteSet(Entries)

VARIABLES
    recording,  \* t.recording
    loop,       \* what holds t.mu: "none", or a loop that is "attaching" or "stopping"
    todo,       \* the entries the loop has yet to visit
    life,       \* an entry: "none", "open", "closing" once Close marked it, "closed"
                \* when the table let it go and its relay may still count bytes
    key,        \* keyOf its flow
    agg,        \* e.agg
    moved,      \* e.up and e.down
    counted,    \* e.countedUp and e.countedDown
    keys,       \* t.stats.keys
    open,       \* an aggregate's open
    bytes,      \* an aggregate's total
    closed,     \* t.closed, the ring; t.count is its length
    head,       \* t.head
    seq,        \* t.seq
    cleared,    \* history: seq when the table was last cleared
    due,        \* history: bytes AddUpload and AddDownload counted since then while recording
    late,       \* history: those of them of connections that had closed
    gone        \* history: those of them in keys that were evicted

entryVars == <<life, key, agg, moved, counted>>
statVars  == <<keys, open, bytes, gone>>
ringVars  == <<closed, head, seq, cleared>>
loopVars  == <<recording, loop, todo>>
dueVars   == <<due, late>>
vars == <<loopVars, entryVars, statVars, ringVars, dueVars>>

\* t.active
Active == {e \in Entries : life[e] \in {"open", "closing"}}

Unlocked == loop = "none"

\* The bytes of e are being recorded.
Recorded(e) ==
    /\ recording
    /\ e \in Active
    /\ loop = "attaching" => e \notin todo
    /\ loop = "stopping" => e \in todo

-----------------------------------------------------------------------------
(* Statistics *)

Listed == {k \in Keys : keys[k] # None}

\* Keys that evictOldest may drop.
Idle == {k \in Listed : open[keys[k]] = 0}

Unused == {a \in Aggregates : (\A k \in Keys : keys[k] # a) /\ (\A e \in Entries : agg[e] # a)}

\* statsTable.at finds the aggregate ...
JoinKey(e, k) ==
    /\ keys[k] # None
    /\ agg' = [agg EXCEPT ![e] = keys[k]]
    /\ open' = [open EXCEPT ![keys[k]] = @ + 1]
    /\ UNCHANGED <<keys, bytes, gone>>

\* Faulty variant: a full table makes no room.
AddKeyAnyway(e, k) ==
    /\ keys[k] = None
    /\ \E a \in Unused :
        /\ agg' = [agg EXCEPT ![e] = a]
        /\ open' = [open EXCEPT ![a] = 1]
        /\ keys' = [keys EXCEPT ![k] = a]
        /\ UNCHANGED <<bytes, gone>>

\* ... or makes one, and evictOldest makes room for it if it can.
AddKey(e, k) ==
    /\ keys[k] = None
    /\ \E a \in Unused :
        /\ agg' = [agg EXCEPT ![e] = a]
        /\ open' = [open EXCEPT ![a] = 1]
        /\ \/ /\ Cardinality(Listed) < MaxKeys \/ Idle = {}
              /\ keys' = [keys EXCEPT ![k] = a]
              /\ UNCHANGED <<bytes, gone>>
           \/ /\ Cardinality(Listed) >= MaxKeys
              /\ \E old \in Idle :
                    /\ keys' = [keys EXCEPT ![old] = None, ![k] = a]
                    /\ bytes' = [bytes EXCEPT ![keys[old]] = 0]
                    /\ gone' = gone + bytes[keys[old]]

\* e.agg = t.stats.at(e.key); e.agg.open++
Attach(e, k) == JoinKey(e, k) \/ AddKey(e, k)

\* Faulty variant: what was counted already is counted again.
AccountTwice(e) ==
    /\ bytes' = [bytes EXCEPT ![agg[e]] = @ + moved[e]]
    /\ counted' = [counted EXCEPT ![e] = moved[e]]

\* Entry.account, for an entry that has an aggregate.
AccountFor(e) ==
    /\ bytes' = [bytes EXCEPT ![agg[e]] = @ + moved[e] - counted[e]]
    /\ counted' = [counted EXCEPT ![e] = moved[e]]

-----------------------------------------------------------------------------
(* Connections *)

\* Table.Open
Open(e, k) ==
    /\ Unlocked
    /\ life[e] = "none"
    /\ life' = [life EXCEPT ![e] = "open"]
    /\ key' = [key EXCEPT ![e] = k]
    /\ moved' = [moved EXCEPT ![e] = 0]
    /\ counted' = [counted EXCEPT ![e] = 0]
    /\ IF recording THEN Attach(e, k) ELSE UNCHANGED <<agg, statVars>>
    /\ UNCHANGED <<loopVars, ringVars, dueVars>>

\* AddUpload and AddDownload: no lock, and also while Close is under way.
Move(e) ==
    /\ e \in Active
    /\ moved[e] < MaxBytes /\ due < MaxBytes
    /\ moved' = [moved EXCEPT ![e] = @ + 1]
    /\ due' = IF Recorded(e) THEN due + 1 ELSE due
    /\ UNCHANGED <<loopVars, life, key, agg, counted, statVars, ringVars, late>>

\* The same once the entry is closed: e.up and e.down are not read any more.
MoveLate(e) ==
    /\ life[e] = "closed" /\ recording
    /\ due < MaxBytes
    /\ due' = due + 1 /\ late' = late + 1
    /\ UNCHANGED <<loopVars, entryVars, statVars, ringVars>>

\* Entry.Close under e.mu: only the first call counts.
CloseBegins(e) ==
    /\ life[e] = "open"
    /\ life' = [life EXCEPT ![e] = "closing"]
    /\ UNCHANGED <<loopVars, key, agg, moved, counted, statVars, ringVars, dueVars>>

\* Faulty variant: the oldest stays the first of the ring.
RememberAtHead ==
    /\ seq' = seq + 1
    /\ IF Len(closed) < Capacity
       THEN closed' = Append(closed, seq + 1) /\ UNCHANGED head
       ELSE closed' = [closed EXCEPT ![head + 1] = seq + 1] /\ UNCHANGED head

\* A closed connection goes into the ring.
Remember ==
    /\ seq' = seq + 1
    /\ IF Len(closed) < Capacity
       THEN closed' = Append(closed, seq + 1) /\ UNCHANGED head
       ELSE /\ closed' = [closed EXCEPT ![head + 1] = seq + 1]
            /\ head' = (head + 1) % Capacity

\* delete(t.active, f.ID); no loop visits it and no statistics read it any more.
LetGo(e) ==
    /\ life' = [life EXCEPT ![e] = "closed"]
    /\ key' = [key EXCEPT ![e] = None]
    /\ agg' = [agg EXCEPT ![e] = None]
    /\ moved' = [moved EXCEPT ![e] = 0]
    /\ counted' = [counted EXCEPT ![e] = 0]

\* Entry.Close under t.mu, with history being kept.
CloseRecorded(e) ==
    /\ Unlocked
    /\ life[e] = "closing"
    /\ recording
    /\ seq < MaxSeq
    /\ IF agg[e] # None
       THEN /\ bytes' = [bytes EXCEPT ![agg[e]] = @ + moved[e] - counted[e]]
            /\ open' = [open EXCEPT ![agg[e]] = @ - 1]
       ELSE UNCHANGED <<bytes, open>>
    /\ Remember
    /\ LetGo(e)
    /\ UNCHANGED <<loopVars, keys, gone, cleared, dueVars>>

\* Faulty variant: the key of a connection that ends unrecorded stays busy.
CloseUnrecordedBusy(e) ==
    /\ Unlocked
    /\ life[e] = "closing"
    /\ ~recording
    /\ LetGo(e)
    /\ UNCHANGED <<loopVars, statVars, ringVars, dueVars>>

\* The same without: its key has one connection less, and that is all.
CloseUnrecorded(e) ==
    /\ Unlocked
    /\ life[e] = "closing"
    /\ ~recording
    /\ open' = IF agg[e] # None THEN [open EXCEPT ![agg[e]] = @ - 1] ELSE open
    /\ LetGo(e)
    /\ UNCHANGED <<loopVars, keys, bytes, gone, ringVars, dueVars>>

\* The last goroutine that has the handle is over.
RelayEnds(e) ==
    /\ life[e] = "closed"
    /\ life' = [life EXCEPT ![e] = "none"]
    /\ UNCHANGED <<loopVars, key, agg, moved, counted, statVars, ringVars, dueVars>>

-----------------------------------------------------------------------------
(* The table *)

\* accountLocked, every ten seconds and at every Stats: one entry after the
\* other.
Account(e) ==
    /\ Unlocked
    /\ recording
    /\ e \in Active
    /\ agg[e] # None
    /\ AccountFor(e)
    /\ UNCHANGED <<loopVars, life, key, agg, moved, keys, open, gone, ringVars, dueVars>>

\* SetRecording(true)
StartRecording ==
    /\ Unlocked
    /\ ~recording
    /\ recording' = TRUE
    /\ loop' = "attaching"
    /\ todo' = Active
    /\ UNCHANGED <<entryVars, statVars, ringVars, dueVars>>

\* attach
AttachNext(e) ==
    /\ loop = "attaching"
    /\ e \in todo
    /\ todo' = todo \ {e}
    /\ counted' = [counted EXCEPT ![e] = moved[e]]
    /\ IF agg[e] = None THEN Attach(e, key[e]) ELSE UNCHANGED <<agg, statVars>>
    /\ UNCHANGED <<recording, loop, life, key, moved, ringVars, dueVars>>

\* SetRecording(false): everything that moved is accounted for first.
StopRecording ==
    /\ Unlocked
    /\ recording
    /\ loop' = "stopping"
    /\ todo' = Active
    /\ UNCHANGED <<recording, entryVars, statVars, ringVars, dueVars>>

AccountNext(e) ==
    /\ loop = "stopping"
    /\ e \in todo
    /\ todo' = todo \ {e}
    /\ IF agg[e] # None THEN AccountFor(e) ELSE UNCHANGED <<bytes, counted>>
    /\ UNCHANGED <<recording, loop, life, key, agg, moved, keys, open, gone, ringVars, dueVars>>

\* The loop is over and t.mu released.
LoopEnds ==
    /\ ~Unlocked
    /\ todo = {}
    /\ loop' = "none"
    /\ recording' = (loop = "attaching")
    /\ UNCHANGED <<todo, entryVars, statVars, ringVars, dueVars>>

\* Table.Clear: open connections are attached anew, if history is kept.
Clear ==
    /\ Unlocked
    /\ closed' = <<>>
    /\ head' = 0
    /\ cleared' = seq
    /\ keys' = [k \in Keys |-> None]
    /\ agg' = [e \in Entries |-> None]
    /\ due' = 0 /\ late' = 0 /\ gone' = 0
    /\ loop' = IF recording THEN "attaching" ELSE "none"
    /\ todo' = IF recording THEN Active ELSE {}
    /\ open' = [a \in Aggregates |-> 0]
    /\ bytes' = [a \in Aggregates |-> 0]
    /\ UNCHANGED <<recording, life, key, moved, counted, seq>>

\* What Snapshot(since) gives as closed, oldest first.
Snapshot(since) ==
    LET n == IF since < seq THEN Min({seq - since, Len(closed)}) ELSE 0
        from == Len(closed) - n
    IN  [i \in 1..n |-> closed[((head + from + i - 1) % Len(closed)) + 1]]

-----------------------------------------------------------------------------
\* New, and the daemon's SetRecording(false).
Init ==
    /\ recording = FALSE
    /\ loop = "none"
    /\ todo = {}
    /\ life = [e \in Entries |-> "none"]
    /\ key = [e \in Entries |-> None]
    /\ agg = [e \in Entries |-> None]
    /\ moved = [e \in Entries |-> 0]
    /\ counted = [e \in Entries |-> 0]
    /\ keys = [k \in Keys |-> None]
    /\ open = [a \in Aggregates |-> 0]
    /\ bytes = [a \in Aggregates |-> 0]
    /\ closed = <<>>
    /\ head = 0
    /\ seq = 0 /\ cleared = 0
    /\ due = 0 /\ late = 0 /\ gone = 0

EntryNext(e) ==
    \/ \E k \in Keys : Open(e, k)
    \/ Move(e) \/ MoveLate(e)
    \/ CloseBegins(e) \/ CloseRecorded(e) \/ CloseUnrecorded(e) \/ RelayEnds(e)
    \/ Account(e) \/ AttachNext(e) \/ AccountNext(e)

Next ==
    \/ \E e \in Entries : EntryNext(e)
    \/ StartRecording \/ StopRecording \/ LoopEnds \/ Clear

Spec == Init /\ [][Next]_vars

-----------------------------------------------------------------------------
(* Properties *)

TypeOK ==
    /\ recording \in BOOLEAN
    /\ loop \in {"none", "attaching", "stopping"}
    /\ todo \subseteq Active
    /\ life \in [Entries -> {"none", "open", "closing", "closed"}]
    /\ key \in [Entries -> Keys \cup {None}]
    /\ agg \in [Entries -> Aggregates \cup {None}]
    /\ moved \in [Entries -> Nat]
    /\ counted \in [Entries -> Nat]
    /\ keys \in [Keys -> Aggregates \cup {None}]
    /\ open \in [Aggregates -> Nat]
    /\ bytes \in [Aggregates -> Nat]
    /\ closed \in Seq(Nat) /\ Len(closed) <= Capacity
    /\ head \in 0..(Capacity - 1)
    /\ {seq, cleared, due, late, gone} \subseteq Nat

\* The statistics of an open connection are the ones the table shows: no
\* eviction, no switch of the recording and no clear leaves it counting into
\* an aggregate that is not listed under its key.
OpenAreListed ==
    \A e \in Active \ todo :
        /\ agg[e] # None => agg[e] = keys[key[e]]
        /\ recording => agg[e] # None

\* A key says how many of its connections are open, and is back at none when
\* the last one closed, however recording was switched meanwhile.
OpenCountsMatch ==
    \A k \in Listed : open[keys[k]] = Cardinality({e \in Active : agg[e] = keys[k]})

\* The table may outgrow its limit, as a key with a connection open is never
\* dropped, but not by more than there are connections open at once: what
\* closed makes room first.
TableBounded == Cardinality(Listed) <= Max({MaxKeys, Cardinality(Entries)})

\* What the listed keys show, and what is yet to be counted there.
Shown == SumFunction([k \in Listed |-> bytes[keys[k]]])
Running == SumFunction([e \in {f \in Entries : Recorded(f)} |-> moved[e] - counted[e]])

\* Every byte that moves while recording is counted under one key once, now or
\* the next time its connection is accounted for; only what a UDP relay moves
\* after its connection closed is in no statistics, though it is in the totals.
EveryByteOnce == Shown + gone + Running + late = due

\* A poll gets what closed since the last one and is still kept, each once
\* and the oldest first: the ring wraps round, and a clear starts it again.
PollsAreExact ==
    \A since \in 0..(seq + 1) :
        LET past == Max({since, cleared, seq - Capacity})
        IN  Snapshot(since) = [i \in 1..(seq - past) |-> past + i]

=============================================================================
