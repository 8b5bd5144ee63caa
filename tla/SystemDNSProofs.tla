-------------------------- MODULE SystemDNSProofs --------------------------
(***************************************************************************)
(* Safety of SystemDNS for any number of services, servers and failures.   *)
(* What makes Recoverable inductive is, for each step of an        *)
(* operation, how the file, the memory and the settings go together.       *)
(***************************************************************************)
EXTENDS SystemDNS, TLAPS

\* While Restore sets services, the file stays; those it is done with have what
\* was chosen, unless a set failed.
Restoring ==
    /\ step \in {"restore", "put"} => op \notin {"dead", "idle", "reassert"}
    /\ step = "put" =>
        /\ file = backup
        /\ todo \subseteq Entries(backup)
        /\ ~flag => \A s \in (Entries(backup) \cap present) \ (todo \cup lost) :
                        setting[s] = chosen[s]

\* Apply begins without a file and changes nothing before it has written one.
Applying ==
    op = "up" =>
        /\ step \in {"get", "truncate"} => file = None
        /\ step = "write" => file = Torn
        /\ step = "take" => file = backup

\* Reassert's memory is ahead of the file by what it took; nobody but the daemon
\* points a service at the tunnel.
Rewriting ==
    op = "reassert" =>
        /\ step \in {"get", "take", "truncate", "write"}
        /\ step # "write" => file \in Backups
        /\ step \in {"truncate", "write"} => flag
        /\ ~flag => backup = file
        /\ step = "take" => current \in Services \X Servers /\ setting[current[1]] # Tunnel

OnlyTheseWrite == step \in {"get", "take", "truncate", "write"} => op \in {"up", "reassert"}

Inv == TypeOK /\ Recoverable /\ Restoring /\ Applying /\ Rewriting /\ OnlyTheseWrite
----------------------------------------------------------------------------
LEMMA EnterTypes ==
  ASSUME NEW o \in Ops, NEW p \in Steps, Enter(o, p)
  PROVE  /\ op' \in Ops
         /\ step' \in Steps
         /\ backup' \in Backups
         /\ todo' \subseteq Services
         /\ current' \in (Services \X Servers) \cup {None}
         /\ flag' \in BOOLEAN
BY DEF Enter, Nothing, Backups

LEMMA FailTypes ==
  ASSUME TypeOK, Fail
  PROVE  fails' \in 0 .. MaxFails
BY DNSAssumption DEF TypeOK, Fail

LEMMA RestoredTypes ==
  ASSUME TypeOK, NEW error \in BOOLEAN, Restored(error)
  PROVE  /\ op' \in Ops
         /\ step' \in Steps
         /\ backup' \in Backups
         /\ todo' \subseteq Services
         /\ current' \in (Services \X Servers) \cup {None}
         /\ flag' \in BOOLEAN
         /\ failed' \in BOOLEAN
         /\ device' \in BOOLEAN
<1>1. /\ failed' \in BOOLEAN
      /\ device' \in BOOLEAN
  BY DEF Restored, TypeOK, Stay
<1>2. /\ {"idle", "unwind", "dead"} \subseteq Ops
      /\ {"none", "restore", "get"} \subseteq Steps
  BY DEF Ops, Steps
<1>3. CASE Enter("idle", "none") \/ Enter("unwind", "restore") \/ Enter("dead", "none")
  BY <1>1, <1>2, <1>3, EnterTypes
<1>4. CASE /\ step' = "get"
           /\ backup' = Nothing
           /\ todo' = present
           /\ flag' = FALSE
           /\ UNCHANGED <<op, current>>
  BY <1>1, <1>2, <1>4 DEF TypeOK, Nothing, Backups
<1> QED
  BY <1>3, <1>4 DEF Restored, Stay

LEMMA Types ==
  ASSUME Inv, [Next]_vars
  PROVE  TypeOK'
<1> USE DNSAssumption
<1>1. CASE Boot
  BY <1>1, EnterTypes DEF Boot, Inv, TypeOK, system, Ops, Steps
<1>2. CASE Uninstall
  BY <1>2, EnterTypes DEF Uninstall, Inv, TypeOK, system, Ops, Steps
<1>3. CASE Up
  BY <1>3, EnterTypes DEF Up, Inv, TypeOK, system, Ops, Steps
<1>4. CASE Down
  BY <1>4, EnterTypes DEF Down, Inv, TypeOK, system, Ops, Steps
<1>5. CASE Reassert
  BY <1>5 DEF Reassert, Inv, TypeOK, system, Ops, Steps
<1>6. CASE NoBackup
  BY <1>6, RestoredTypes DEF NoBackup, Inv, TypeOK, system
<1>7. CASE ReadBackup
  BY <1>7 DEF ReadBackup, Inv, TypeOK, system, Steps, Stay, Entries
<1>8. CASE RestoreEnds
  BY <1>8, RestoredTypes DEF RestoreEnds, Inv, TypeOK, system
<1>9. ASSUME NEW s \in Services, PutBack(s)  PROVE TypeOK'
  BY <1>9 DEF PutBack, Inv, TypeOK, Backups, Visit, Stay, Restoring, Entries
<1>10. ASSUME NEW s \in Services, PutBackFails(s)  PROVE TypeOK'
  BY <1>10, FailTypes DEF PutBackFails, Inv, TypeOK, system, Visit, Stay
<1>11. ASSUME NEW s \in Services, SetGone(s)  PROVE TypeOK'
  BY <1>11 DEF SetGone, Inv, TypeOK, system, Visit, Stay
<1>12. CASE GotAll
  BY <1>12 DEF GotAll, Inv, TypeOK, system, Steps, Stay
<1>13. CASE Truncate
  BY <1>13 DEF Truncate, Inv, TypeOK, system, Steps, Stay
<1>14. CASE Write
  BY <1>14 DEF Write, Inv, TypeOK, system, Steps, Stay, Entries
<1>15. CASE WriteFails
  BY <1>15, EnterTypes, FailTypes DEF WriteFails, Inv, TypeOK, Ops, Steps, Forget
<1>16. CASE Applied
  BY <1>16, EnterTypes DEF Applied, Inv, TypeOK, system, Ops, Steps
<1>17. ASSUME NEW s \in Services, Get(s)  PROVE TypeOK'
  BY <1>17 DEF Get, Inv, TypeOK, system, Backups, Visit, Stay
<1>18. ASSUME NEW s \in Services, GetFails(s)  PROVE TypeOK'
  BY <1>18, EnterTypes, FailTypes DEF GetFails, Inv, TypeOK, system, Ops, Steps
<1>19. ASSUME NEW s \in Services, Take(s)  PROVE TypeOK'
  BY <1>19 DEF Take, Inv, TypeOK, Visit, Stay, PointAtTunnel
<1>20. ASSUME NEW s \in Services, TakeFails(s)  PROVE TypeOK'
  BY <1>20, EnterTypes, FailTypes DEF TakeFails, Inv, TypeOK, system, Ops, Steps
<1>21. CASE TakeBack
  BY <1>21 DEF TakeBack, Inv, TypeOK, Backups, Steps, PointAtTunnel, Stay, Rewriting
<1>22. CASE TakeBackGone
  BY <1>22 DEF TakeBackGone, Inv, TypeOK, system, Steps, Stay
<1>23. CASE TakeBackFails
  BY <1>23, EnterTypes, FailTypes DEF TakeBackFails, Inv, TypeOK, Ops, Steps, Forget
<1>24. CASE LookedAtAll
  BY <1>24, EnterTypes DEF LookedAtAll, Inv, TypeOK, system, Ops, Steps
<1>25. CASE Rewrite
  BY <1>25, EnterTypes DEF Rewrite, Inv, TypeOK, system, Ops, Steps
<1>26. ASSUME NEW s \in Services, Look(s)  PROVE TypeOK'
  BY <1>26 DEF Look, Inv, TypeOK, system, Steps, Stay
<1>27. ASSUME NEW s \in Services, LookFails(s)  PROVE TypeOK'
  BY <1>27, FailTypes DEF LookFails, Inv, TypeOK, system, Visit, Stay
<1>28. CASE Die
  BY <1>28, EnterTypes DEF Die, Inv, TypeOK, Ops, Steps, Forget
<1>29. ASSUME NEW s \in Services, Vanish(s)  PROVE TypeOK'
  BY <1>29 DEF Vanish, Inv, TypeOK, work
<1>30. ASSUME NEW s \in Services, NEW v \in Servers, Choose(s, v)  PROVE TypeOK'
  BY <1>30 DEF Choose, Inv, TypeOK, work
<1>31. CASE UNCHANGED vars
  BY <1>31 DEF vars, Inv, TypeOK, system, work
<1> QED
  BY <1>1, <1>2, <1>3, <1>4, <1>5, <1>6, <1>7, <1>8, <1>9, <1>10, <1>11, <1>12, <1>13, <1>14, <1>15, <1>16, <1>17, <1>18, <1>19, <1>20, <1>21, <1>22, <1>23, <1>24, <1>25, <1>26, <1>27, <1>28, <1>29, <1>30, <1>31 DEF Next, Restore, Apply, Reasserting, Others

LEMMA Keeps ==
  ASSUME Inv, [Next]_vars, TypeOK'
  PROVE  Inv'
<1> USE DNSAssumption
<1>1. CASE Boot
  <2>1. Recoverable'
    BY <1>1 DEF Boot, Inv, system, Saved, Enter, Kept, Recoverable
  <2>2. Restoring'
    BY <1>1 DEF Boot, Enter, Restoring
  <2>3. Applying'
    BY <1>1 DEF Boot, Enter, Applying
  <2>4. Rewriting'
    BY <1>1 DEF Boot, Enter, Rewriting
  <2>5. OnlyTheseWrite'
    BY <1>1 DEF Boot, Enter, OnlyTheseWrite
  <2> QED
    BY <2>1, <2>2, <2>3, <2>4, <2>5 DEF Inv
<1>2. CASE Uninstall
  <2>1. Recoverable'
    BY <1>2 DEF Uninstall, Inv, system, Saved, Enter, Kept, Recoverable
  <2>2. Restoring'
    BY <1>2 DEF Uninstall, Enter, Restoring
  <2>3. Applying'
    BY <1>2 DEF Uninstall, Enter, Applying
  <2>4. Rewriting'
    BY <1>2 DEF Uninstall, Enter, Rewriting
  <2>5. OnlyTheseWrite'
    BY <1>2 DEF Uninstall, Enter, OnlyTheseWrite
  <2> QED
    BY <2>1, <2>2, <2>3, <2>4, <2>5 DEF Inv
<1>3. CASE Up
  <2>1. Recoverable'
    BY <1>3 DEF Up, Inv, system, Saved, Enter, Kept, Recoverable
  <2>2. Restoring'
    BY <1>3 DEF Up, Enter, Restoring
  <2>3. Applying'
    BY <1>3 DEF Up, Enter, Applying
  <2>4. Rewriting'
    BY <1>3 DEF Up, Enter, Rewriting
  <2>5. OnlyTheseWrite'
    BY <1>3 DEF Up, Enter, OnlyTheseWrite
  <2> QED
    BY <2>1, <2>2, <2>3, <2>4, <2>5 DEF Inv
<1>4. CASE Down
  <2>1. Recoverable'
    BY <1>4 DEF Down, Inv, system, Saved, Enter, Kept, Recoverable
  <2>2. Restoring'
    BY <1>4 DEF Down, Enter, Restoring
  <2>3. Applying'
    BY <1>4 DEF Down, Enter, Applying
  <2>4. Rewriting'
    BY <1>4 DEF Down, Enter, Rewriting
  <2>5. OnlyTheseWrite'
    BY <1>4 DEF Down, Enter, OnlyTheseWrite
  <2> QED
    BY <2>1, <2>2, <2>3, <2>4, <2>5 DEF Inv
<1>5. CASE Reassert
  <2>1. Recoverable'
    BY <1>5 DEF Reassert, Inv, system, Saved, Kept, Recoverable
  <2>2. Restoring'
    BY <1>5 DEF Reassert, Restoring
  <2>3. Applying'
    BY <1>5 DEF Reassert, Applying
  <2>4. Rewriting'
    BY <1>5 DEF Reassert, Rewriting
  <2>5. OnlyTheseWrite'
    BY <1>5 DEF Reassert, OnlyTheseWrite
  <2> QED
    BY <2>1, <2>2, <2>3, <2>4, <2>5 DEF Inv
<1>6. CASE NoBackup
  <2>1. Recoverable'
    BY <1>6 DEF NoBackup, Inv, system, Saved, Restored, Enter, Stay, Kept, Recoverable
  <2>2. Restoring'
    BY <1>6 DEF NoBackup, Restored, Enter, Restoring
  <2>3. Applying'
    BY <1>6 DEF NoBackup, TypeOK, Restored, Enter, Applying
  <2>4. Rewriting'
    BY <1>6 DEF NoBackup, Restored, Enter, Stay, Rewriting
  <2>5. OnlyTheseWrite'
    BY <1>6 DEF NoBackup, Restored, Enter, Stay, OnlyTheseWrite
  <2> QED
    BY <2>1, <2>2, <2>3, <2>4, <2>5 DEF Inv
<1>7. CASE ReadBackup
  <2>1. Recoverable'
    BY <1>7 DEF ReadBackup, Inv, system, Saved, Kept, Recoverable, Rewriting
  <2>2. Restoring'
    BY <1>7 DEF ReadBackup, Inv, Stay, Restoring
  <2>3. Applying'
    BY <1>7 DEF ReadBackup, Applying
  <2>4. Rewriting'
    BY <1>7 DEF ReadBackup, Inv, Stay, Rewriting
  <2>5. OnlyTheseWrite'
    BY <1>7 DEF ReadBackup, OnlyTheseWrite
  <2> QED
    BY <2>1, <2>2, <2>3, <2>4, <2>5 DEF Inv
<1>8. CASE RestoreEnds
  <2>1. Recoverable'
    BY <1>8 DEF RestoreEnds, Inv, TypeOK, system, Saved, Entries, Restored, Enter, Kept, Recoverable, Restoring
  <2>2. Restoring'
    BY <1>8 DEF RestoreEnds, Restored, Enter, Restoring
  <2>3. Applying'
    BY <1>8 DEF RestoreEnds, Restored, Enter, Applying
  <2>4. Rewriting'
    BY <1>8 DEF RestoreEnds, Restored, Enter, Stay, Rewriting
  <2>5. OnlyTheseWrite'
    BY <1>8 DEF RestoreEnds, Restored, Enter, Stay, OnlyTheseWrite
  <2> QED
    BY <2>1, <2>2, <2>3, <2>4, <2>5 DEF Inv
<1>9. ASSUME NEW s \in Services, PutBack(s)  PROVE Inv'
  <2>1. Recoverable'
    BY <1>9 DEF PutBack, Inv, TypeOK, Saved, Visit, Kept, Recoverable, Restoring
  <2>2. Restoring'
    BY <1>9 DEF PutBack, Inv, TypeOK, Saved, Visit, Stay, Kept, Recoverable, Restoring
  <2>3. Applying'
    BY <1>9 DEF PutBack, Visit, Applying
  <2>4. Rewriting'
    BY <1>9 DEF PutBack, Inv, Visit, Stay, Rewriting
  <2>5. OnlyTheseWrite'
    BY <1>9 DEF PutBack, Visit, OnlyTheseWrite
  <2> QED
    BY <2>1, <2>2, <2>3, <2>4, <2>5 DEF Inv
<1>10. ASSUME NEW s \in Services, PutBackFails(s)  PROVE Inv'
  <2>1. Recoverable'
    BY <1>10 DEF PutBackFails, Inv, system, Saved, Visit, Stay, Kept, Recoverable
  <2>2. Restoring'
    BY <1>10 DEF PutBackFails, Inv, Visit, Stay, Restoring
  <2>3. Applying'
    BY <1>10 DEF PutBackFails, Visit, Applying
  <2>4. Rewriting'
    BY <1>10 DEF PutBackFails, Inv, Visit, Stay, Rewriting
  <2>5. OnlyTheseWrite'
    BY <1>10 DEF PutBackFails, Visit, OnlyTheseWrite
  <2> QED
    BY <2>1, <2>2, <2>3, <2>4, <2>5 DEF Inv
<1>11. ASSUME NEW s \in Services, SetGone(s)  PROVE Inv'
  <2>1. Recoverable'
    BY <1>11 DEF SetGone, Inv, system, Saved, Visit, Stay, Kept, Recoverable
  <2>2. Restoring'
    BY <1>11 DEF SetGone, Inv, system, Visit, Stay, Restoring
  <2>3. Applying'
    BY <1>11 DEF SetGone, Inv, Visit, Applying
  <2>4. Rewriting'
    BY <1>11 DEF SetGone, Inv, Visit, Stay, Rewriting
  <2>5. OnlyTheseWrite'
    BY <1>11 DEF SetGone, Visit, Stay, OnlyTheseWrite
  <2> QED
    BY <2>1, <2>2, <2>3, <2>4, <2>5 DEF Inv
<1>12. CASE GotAll
  <2>1. Recoverable'
    BY <1>12 DEF GotAll, Inv, system, Saved, Stay, Kept, Recoverable
  <2>2. Restoring'
    BY <1>12 DEF GotAll, Restoring
  <2>3. Applying'
    BY <1>12 DEF GotAll, Inv, Applying
  <2>4. Rewriting'
    BY <1>12 DEF GotAll, Stay, Rewriting
  <2>5. OnlyTheseWrite'
    BY <1>12 DEF GotAll, Stay, OnlyTheseWrite
  <2> QED
    BY <2>1, <2>2, <2>3, <2>4, <2>5 DEF Inv
<1>13. CASE Truncate
  <2>1. Recoverable'
    BY <1>13 DEF Truncate, Inv, system, Backups, Saved, Stay, Kept, Recoverable, Applying, OnlyTheseWrite
  <2>2. Restoring'
    BY <1>13 DEF Truncate, Restoring
  <2>3. Applying'
    BY <1>13 DEF Truncate, Applying
  <2>4. Rewriting'
    BY <1>13 DEF Truncate, Inv, Stay, Rewriting
  <2>5. OnlyTheseWrite'
    BY <1>13 DEF Truncate, Inv, Stay, OnlyTheseWrite
  <2> QED
    BY <2>1, <2>2, <2>3, <2>4, <2>5 DEF Inv
<1>14. CASE Write
  <2>1. Recoverable'
    BY <1>14 DEF Write, Inv, TypeOK, system, Backups, Saved, Kept, Recoverable, Applying
  <2>2. Restoring'
    BY <1>14 DEF Write, Restoring
  <2>3. Applying'
    BY <1>14 DEF Write, Applying
  <2>4. Rewriting'
    BY <1>14 DEF Write, Stay, Rewriting
  <2>5. OnlyTheseWrite'
    BY <1>14 DEF Write, Stay, OnlyTheseWrite
  <2> QED
    BY <2>1, <2>2, <2>3, <2>4, <2>5 DEF Inv
<1>15. CASE WriteFails
  <2>1. Recoverable'
    BY <1>15 DEF WriteFails, Inv, TypeOK, Saved, Enter, Forget, Kept, Recoverable
  <2>2. Restoring'
    BY <1>15 DEF WriteFails, Enter, Restoring
  <2>3. Applying'
    BY <1>15 DEF WriteFails, Enter, Applying
  <2>4. Rewriting'
    BY <1>15 DEF WriteFails, Enter, Rewriting
  <2>5. OnlyTheseWrite'
    BY <1>15 DEF WriteFails, Enter, OnlyTheseWrite
  <2> QED
    BY <2>1, <2>2, <2>3, <2>4, <2>5 DEF Inv
<1>16. CASE Applied
  <2>1. Recoverable'
    BY <1>16 DEF Applied, Inv, system, Saved, Enter, Kept, Recoverable
  <2>2. Restoring'
    BY <1>16 DEF Applied, Enter, Restoring
  <2>3. Applying'
    BY <1>16 DEF Applied, Enter, Applying
  <2>4. Rewriting'
    BY <1>16 DEF Applied, Enter, Rewriting
  <2>5. OnlyTheseWrite'
    BY <1>16 DEF Applied, Enter, OnlyTheseWrite
  <2> QED
    BY <2>1, <2>2, <2>3, <2>4, <2>5 DEF Inv
<1>17. ASSUME NEW s \in Services, Get(s)  PROVE Inv'
  <2>1. Recoverable'
    BY <1>17 DEF Get, Inv, system, Saved, Visit, Stay, Kept, Recoverable
  <2>2. Restoring'
    BY <1>17 DEF Get, Visit, Restoring
  <2>3. Applying'
    BY <1>17 DEF Get, Inv, Visit, Applying
  <2>4. Rewriting'
    BY <1>17 DEF Get, Visit, Stay, Rewriting
  <2>5. OnlyTheseWrite'
    BY <1>17 DEF Get, Visit, Stay, OnlyTheseWrite
  <2> QED
    BY <2>1, <2>2, <2>3, <2>4, <2>5 DEF Inv
<1>18. ASSUME NEW s \in Services, GetFails(s)  PROVE Inv'
  <2>1. Recoverable'
    BY <1>18 DEF GetFails, Inv, system, Saved, Enter, Kept, Recoverable
  <2>2. Restoring'
    BY <1>18 DEF GetFails, Enter, Restoring
  <2>3. Applying'
    BY <1>18 DEF GetFails, Enter, Applying
  <2>4. Rewriting'
    BY <1>18 DEF GetFails, Enter, Rewriting
  <2>5. OnlyTheseWrite'
    BY <1>18 DEF GetFails, Enter, OnlyTheseWrite
  <2> QED
    BY <2>1, <2>2, <2>3, <2>4, <2>5 DEF Inv
<1>19. ASSUME NEW s \in Services, Take(s)  PROVE Inv'
  <2>1. Recoverable'
    BY <1>19 DEF Take, Inv, TypeOK, Saved, Visit, PointAtTunnel, Kept, Recoverable, Applying
  <2>2. Restoring'
    BY <1>19 DEF Take, Visit, Restoring
  <2>3. Applying'
    BY <1>19 DEF Take, Inv, Visit, Applying
  <2>4. Rewriting'
    BY <1>19 DEF Take, Visit, Stay, Rewriting
  <2>5. OnlyTheseWrite'
    BY <1>19 DEF Take, Visit, Stay, OnlyTheseWrite
  <2> QED
    BY <2>1, <2>2, <2>3, <2>4, <2>5 DEF Inv
<1>20. ASSUME NEW s \in Services, TakeFails(s)  PROVE Inv'
  <2>1. Recoverable'
    BY <1>20 DEF TakeFails, Inv, system, Saved, Enter, Kept, Recoverable
  <2>2. Restoring'
    BY <1>20 DEF TakeFails, Enter, Restoring
  <2>3. Applying'
    BY <1>20 DEF TakeFails, Enter, Applying
  <2>4. Rewriting'
    BY <1>20 DEF TakeFails, Enter, Rewriting
  <2>5. OnlyTheseWrite'
    BY <1>20 DEF TakeFails, Enter, OnlyTheseWrite
  <2> QED
    BY <2>1, <2>2, <2>3, <2>4, <2>5 DEF Inv
<1>21. CASE TakeBack
  <2>1. Recoverable'
    BY <1>21 DEF TakeBack, Inv, TypeOK, Backups, PointAtTunnel, Stay, Kept, Recoverable, Rewriting
  <2>2. Restoring'
    BY <1>21 DEF TakeBack, Restoring
  <2>3. Applying'
    BY <1>21 DEF TakeBack, Stay, Applying
  <2>4. Rewriting'
    BY <1>21 DEF TakeBack, Inv, Rewriting
  <2>5. OnlyTheseWrite'
    BY <1>21 DEF TakeBack, Stay, OnlyTheseWrite
  <2> QED
    BY <2>1, <2>2, <2>3, <2>4, <2>5 DEF Inv
<1>22. CASE TakeBackGone
  <2>1. Recoverable'
    BY <1>22 DEF TakeBackGone, Inv, system, Stay, Kept, Recoverable
  <2>2. Restoring'
    BY <1>22 DEF TakeBackGone, Restoring
  <2>3. Applying'
    BY <1>22 DEF TakeBackGone, Stay, Applying
  <2>4. Rewriting'
    BY <1>22 DEF TakeBackGone, Inv, Rewriting
  <2>5. OnlyTheseWrite'
    BY <1>22 DEF TakeBackGone, Stay, OnlyTheseWrite
  <2> QED
    BY <2>1, <2>2, <2>3, <2>4, <2>5 DEF Inv
<1>23. CASE TakeBackFails
  <2>1. Recoverable'
    BY <1>23 DEF TakeBackFails, Inv, TypeOK, Saved, Enter, Forget, Kept, Recoverable
  <2>2. Restoring'
    BY <1>23 DEF TakeBackFails, Enter, Restoring
  <2>3. Applying'
    BY <1>23 DEF TakeBackFails, Enter, Applying
  <2>4. Rewriting'
    BY <1>23 DEF TakeBackFails, Enter, Rewriting
  <2>5. OnlyTheseWrite'
    BY <1>23 DEF TakeBackFails, Enter, OnlyTheseWrite
  <2> QED
    BY <2>1, <2>2, <2>3, <2>4, <2>5 DEF Inv
<1>24. CASE LookedAtAll
  <2>1. Recoverable'
    BY <1>24 DEF LookedAtAll, Inv, system, Saved, Enter, Kept, Recoverable, Rewriting
  <2>2. Restoring'
    BY <1>24 DEF LookedAtAll, Enter, Restoring
  <2>3. Applying'
    BY <1>24 DEF LookedAtAll, Enter, Applying
  <2>4. Rewriting'
    BY <1>24 DEF LookedAtAll, Inv, Enter, Rewriting
  <2>5. OnlyTheseWrite'
    BY <1>24 DEF LookedAtAll, Enter, OnlyTheseWrite
  <2> QED
    BY <2>1, <2>2, <2>3, <2>4, <2>5 DEF Inv
<1>25. CASE Rewrite
  <2>1. Recoverable'
    BY <1>25 DEF Rewrite, Inv, TypeOK, system, Saved, Enter, Kept, Recoverable
  <2>2. Restoring'
    BY <1>25 DEF Rewrite, Enter, Restoring
  <2>3. Applying'
    BY <1>25 DEF Rewrite, Enter, Applying
  <2>4. Rewriting'
    BY <1>25 DEF Rewrite, Enter, Rewriting
  <2>5. OnlyTheseWrite'
    BY <1>25 DEF Rewrite, Enter, OnlyTheseWrite
  <2> QED
    BY <2>1, <2>2, <2>3, <2>4, <2>5 DEF Inv
<1>26. ASSUME NEW s \in Services, Look(s)  PROVE Inv'
  <2>1. Recoverable'
    BY <1>26 DEF Look, Inv, system, Stay, Kept, Recoverable
  <2>2. Restoring'
    BY <1>26 DEF Look, Restoring
  <2>3. Applying'
    BY <1>26 DEF Look, Stay, Applying
  <2>4. Rewriting'
    BY <1>26 DEF Look, Inv, TypeOK, system, Rewriting
  <2>5. OnlyTheseWrite'
    BY <1>26 DEF Look, Stay, OnlyTheseWrite
  <2> QED
    BY <2>1, <2>2, <2>3, <2>4, <2>5 DEF Inv
<1>27. ASSUME NEW s \in Services, LookFails(s)  PROVE Inv'
  <2>1. Recoverable'
    BY <1>27 DEF LookFails, Inv, system, Visit, Stay, Kept, Recoverable
  <2>2. Restoring'
    BY <1>27 DEF LookFails, Visit, Restoring
  <2>3. Applying'
    BY <1>27 DEF LookFails, Visit, Stay, Applying
  <2>4. Rewriting'
    BY <1>27 DEF LookFails, Inv, Visit, Rewriting
  <2>5. OnlyTheseWrite'
    BY <1>27 DEF LookFails, Visit, Stay, OnlyTheseWrite
  <2> QED
    BY <2>1, <2>2, <2>3, <2>4, <2>5 DEF Inv
<1>28. CASE Die
  <2>1. Recoverable'
    BY <1>28 DEF Die, Inv, TypeOK, Saved, Enter, Forget, Kept, Recoverable
  <2>2. Restoring'
    BY <1>28 DEF Die, Enter, Restoring
  <2>3. Applying'
    BY <1>28 DEF Die, Enter, Applying
  <2>4. Rewriting'
    BY <1>28 DEF Die, Enter, Rewriting
  <2>5. OnlyTheseWrite'
    BY <1>28 DEF Die, Enter, OnlyTheseWrite
  <2> QED
    BY <2>1, <2>2, <2>3, <2>4, <2>5 DEF Inv
<1>29. ASSUME NEW s \in Services, Vanish(s)  PROVE Inv'
  <2>1. Recoverable'
    BY <1>29 DEF Vanish, Inv, work, Saved, Kept, Recoverable
  <2>2. Restoring'
    BY <1>29 DEF Vanish, Inv, work, Restoring
  <2>3. Applying'
    BY <1>29 DEF Vanish, Inv, work, Applying
  <2>4. Rewriting'
    BY <1>29 DEF Vanish, Inv, work, Rewriting
  <2>5. OnlyTheseWrite'
    BY <1>29 DEF Vanish, Inv, work, OnlyTheseWrite
  <2> QED
    BY <2>1, <2>2, <2>3, <2>4, <2>5 DEF Inv
<1>30. ASSUME NEW s \in Services, NEW v \in Servers, Choose(s, v)  PROVE Inv'
  <2>1. Recoverable'
    BY <1>30 DEF Choose, Inv, TypeOK, work, Saved, Kept, Recoverable
  <2>2. Restoring'
    BY <1>30 DEF Choose, Inv, TypeOK, work, Restoring
  <2>3. Applying'
    BY <1>30 DEF Choose, Inv, work, Applying
  <2>4. Rewriting'
    BY <1>30 DEF Choose, Inv, work, Rewriting
  <2>5. OnlyTheseWrite'
    BY <1>30 DEF Choose, Inv, work, OnlyTheseWrite
  <2> QED
    BY <2>1, <2>2, <2>3, <2>4, <2>5 DEF Inv
<1>31. CASE UNCHANGED vars
  BY <1>31 DEF vars, Inv, system, work, Saved, Kept, Recoverable, Restoring, Applying, Rewriting, OnlyTheseWrite
<1> QED
  BY <1>1, <1>2, <1>3, <1>4, <1>5, <1>6, <1>7, <1>8, <1>9, <1>10, <1>11, <1>12, <1>13, <1>14, <1>15, <1>16, <1>17, <1>18, <1>19, <1>20, <1>21, <1>22, <1>23, <1>24, <1>25, <1>26, <1>27, <1>28, <1>29, <1>30, <1>31 DEF Next, Restore, Apply, Reasserting, Others

LEMMA Starts ==
  ASSUME Init
  PROVE  Inv
<1>1. TypeOK
  <2>1. setting \in [Services -> Servers \cup {Tunnel}] /\ chosen \in [Services -> Servers]
    BY DEF Init
  <2>2. backup \in Backups /\ fails \in 0 .. MaxFails
    BY DNSAssumption DEF Init, Nothing, Backups
  <2> QED
    BY <2>1, <2>2 DEF Init, TypeOK, Ops, Steps
<1>2. Recoverable /\ Restoring /\ Applying /\ Rewriting /\ OnlyTheseWrite
  BY DEF Init, Recoverable, Restoring, Applying, Rewriting, OnlyTheseWrite
<1> QED
  BY <1>1, <1>2 DEF Inv

LEMMA Invariance == Spec => []Inv
<1>1. Init => Inv
  BY Starts
<1>2. Inv /\ [Next]_vars => Inv'
  BY Types, Keeps
<1> QED
  BY <1>1, <1>2, PTL DEF Spec

\* Every variable keeps its type: no more commands fail than are counted, and
\* nothing but a backup or its remains is in the file.
THEOREM TypeCorrect == Spec => []TypeOK
<1>1. Inv => TypeOK
  BY DEF Inv
<1> QED
  BY <1>1, Invariance, PTL

\* Between any two commands, the servers of a service are set, or saved, or lost
\* in one of the two ways Recoverable names.
THEOREM NothingElseIsLost == Spec => []Recoverable
<1>1. Inv => Recoverable
  BY DEF Inv
<1> QED
  BY <1>1, Invariance, PTL
=============================================================================
