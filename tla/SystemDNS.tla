----------------------------- MODULE SystemDNS -----------------------------
(***************************************************************************)
(* dnsOverride of go/tun2socks/internal/daemon/dns_darwin.go: the DNS      *)
(* setting of every network service points at the tunnel while it is up,   *)
(* and a file keeps what was set before.  Settings and file outlive the    *)
(* daemon, which may die between any two commands; launchd starts it again.*)
(*                                                                         *)
(*   boot        restore                           NewDarwinPlatform       *)
(*   up          restore, get, truncate, write, take      Up, Apply        *)
(*   undo        restore                           Apply, after an error   *)
(*   unwind      restore                           Up's downLocked         *)
(*   down        restore                           Down                    *)
(*   reassert    get (take), truncate, write       Reassert                *)
(*   uninstall   restore                           vzhukhd -restore-dns    *)
(*                                                                         *)
(* The platform's lock lets one operation run at a time.  A step is one    *)
(* networksetup command or one half of os.WriteFile, which empties the     *)
(* file before it writes.  Users and VPN clients change settings, and add  *)
(* and remove services, between any two of them.                           *)
(*                                                                         *)
(* Left out: the device and its routes; an Up that leaves DNS alone; the   *)
(* servers Apply returns and Originals reads; a file that cannot be        *)
(* removed.                                                                *)
(***************************************************************************)
EXTENDS Integers

CONSTANTS
    Services,   \* names of network services
    Servers,    \* what they may be set to, DHCP's among them
    Tunnel,     \* the tunnel's DNS server
    None,       \* no service, no entry, no file
    Torn,       \* a file that is no backup
    MaxFails    \* how many commands fail

ASSUME DNSAssumption ==
    /\ Tunnel \notin Servers
    /\ None \notin Services \cup Servers \cup {Tunnel}
    /\ Torn # None
    /\ Torn \notin [Services -> Servers \cup {Tunnel, None}]
    /\ None \notin [Services -> Servers \cup {Tunnel, None}]
    /\ MaxFails \in Nat

VARIABLES
    present,    \* the services there are
    setting,    \* their DNS setting
    file,       \* the backup on disk
    op,         \* what the daemon is doing
    step,       \* and where in it
    backup,     \* the backup in memory
    todo,       \* services a loop has yet to visit
    current,    \* what Reassert just read: <<service, servers>>
    flag,       \* Restore: a set failed; Reassert: something was rewritten
    failed,     \* the last operation returned an error
    device,     \* the tunnel is up
    fails,      \* commands that failed
    chosen,     \* history: what somebody else set last
    lost        \* history: services whose choice is in no backup any more

system == <<present, setting, chosen, lost>>
work == <<op, step, backup, todo, current, flag>>
vars == <<system, file, work, failed, device, fails>>

Backups == [Services -> Servers \cup {Tunnel, None}]
Nothing == [s \in Services |-> None]

Ops == {"dead", "idle", "boot", "up", "undo", "unwind", "down", "reassert", "uninstall"}
Steps == {"none", "restore", "put", "get", "take", "truncate", "write"}

TypeOK ==
    /\ present \subseteq Services
    /\ setting \in [Services -> Servers \cup {Tunnel}]
    /\ file \in Backups \cup {None, Torn}
    /\ op \in Ops
    /\ step \in Steps
    /\ backup \in Backups
    /\ todo \subseteq Services
    /\ current \in (Services \X Servers) \cup {None}
    /\ flag \in BOOLEAN
    /\ failed \in BOOLEAN
    /\ device \in BOOLEAN
    /\ fails \in 0 .. MaxFails
    /\ chosen \in [Services -> Servers]
    /\ lost \subseteq Services

Init ==
    /\ present \in SUBSET Services
    /\ setting \in [Services -> Servers]
    /\ chosen = setting
    /\ lost = {}
    /\ file = None
    /\ op = "dead"
    /\ step = "none"
    /\ backup = Nothing
    /\ todo = {}
    /\ current = None
    /\ flag = FALSE
    /\ failed = FALSE
    /\ device = FALSE
    /\ fails = 0

----------------------------------------------------------------------------
\* What the file says was set before.
Saved(s) == IF file \in Backups THEN file[s] ELSE None

Entries(b) == {s \in Services : b[s] # None}

\* o is to be done next, from step p on.
Enter(o, p) ==
    /\ op' = o
    /\ step' = p
    /\ backup' = Nothing
    /\ todo' = {}
    /\ current' = None
    /\ flag' = FALSE

\* The same operation goes on.
Stay == UNCHANGED <<op, failed, device>>

\* The loop has done with s.
Visit(s) ==
    /\ s \in todo
    /\ todo' = todo \ {s}
    /\ UNCHANGED <<file, step, current>>
    /\ Stay

\* Nothing looks at the memory of an operation that is over.  What Reassert
\* took and has not written is lost with it.
Forget ==
    /\ lost' = IF op = "reassert"
               THEN lost \cup {s \in Services : backup[s] # Saved(s)}
               ELSE lost
    /\ UNCHANGED <<present, setting, chosen, file>>

Fail == fails < MaxFails /\ fails' = fails + 1

----------------------------------------------------------------------------
(* Users, VPN clients and the end of the daemon. *)

\* Somebody else sets s, which may be new.
Choose(s, v) ==
    /\ s \in present => setting[s] # v
    /\ present' = present \cup {s}
    /\ setting' = [setting EXCEPT ![s] = v]
    /\ chosen' = [chosen EXCEPT ![s] = v]
    /\ lost' = lost \ {s}
    /\ UNCHANGED <<file, work, failed, device, fails>>

Vanish(s) ==
    /\ s \in present
    /\ present' = present \ {s}
    /\ UNCHANGED <<setting, chosen, lost, file, work, failed, device, fails>>

Die ==
    /\ op # "dead"
    /\ Enter("dead", "none")
    /\ device' = FALSE
    /\ Forget
    /\ UNCHANGED <<failed, fails>>

----------------------------------------------------------------------------
(* Operations begin. *)

\* Faulty variant: the daemon starts without looking for a backup.
BootIdle ==
    /\ op = "dead"
    /\ Enter("idle", "none")
    /\ failed' = FALSE
    /\ UNCHANGED <<system, file, device, fails>>

Boot ==
    /\ op = "dead"
    /\ Enter("boot", "restore")
    /\ failed' = FALSE
    /\ UNCHANGED <<system, file, device, fails>>

Uninstall ==
    /\ op = "dead"
    /\ Enter("uninstall", "restore")
    /\ failed' = FALSE
    /\ UNCHANGED <<system, file, device, fails>>

Up ==
    /\ op = "idle"
    /\ ~device
    /\ Enter("up", "restore")
    /\ device' = TRUE
    /\ UNCHANGED <<system, file, failed, fails>>

\* Also with no tunnel up.
Down ==
    /\ op = "idle"
    /\ Enter("down", "restore")
    /\ UNCHANGED <<system, file, failed, device, fails>>

\* Every half minute, and when the network has changed.
Reassert ==
    /\ op = "idle"
    /\ device
    /\ file \in Backups
    /\ op' = "reassert"
    /\ step' = "get"
    /\ backup' = file
    /\ todo' = present
    /\ UNCHANGED <<system, file, current, flag, failed, device, fails>>

----------------------------------------------------------------------------
(* Restore. *)

\* Restore returned to whoever called it, with an error or not.
Restored(error) ==
    \/ /\ op = "boot"
       /\ Enter("idle", "none")
       /\ failed' = error
       /\ UNCHANGED device
    \/ /\ op = "up"
       /\ ~error
       /\ step' = "get"
       /\ backup' = Nothing
       /\ todo' = present
       /\ flag' = FALSE
       /\ UNCHANGED current
       /\ Stay
    \/ /\ op = "undo" \/ (op = "up" /\ error)
       /\ Enter("unwind", "restore")
       /\ UNCHANGED <<failed, device>>
    \/ /\ op \in {"unwind", "down"}
       /\ Enter("idle", "none")
       /\ failed' = (error \/ op = "unwind")
       /\ device' = FALSE
    \/ /\ op = "uninstall"
       /\ Enter("dead", "none")
       /\ failed' = error
       /\ UNCHANGED device

\* There is no backup, or none that can be read.
NoBackup ==
    /\ step = "restore"
    /\ file \notin Backups
    /\ Restored(file = Torn)
    /\ UNCHANGED <<system, file, fails>>

ReadBackup ==
    /\ step = "restore"
    /\ file \in Backups
    /\ step' = "put"
    /\ backup' = file
    /\ todo' = Entries(file)
    /\ UNCHANGED <<system, file, current, flag, fails>>
    /\ Stay

\* s gets its servers back, whatever it is set to.
PutBack(s) ==
    /\ step = "put"
    /\ s \in present
    /\ Visit(s)
    /\ setting' = [setting EXCEPT ![s] = backup[s]]
    /\ lost' = IF setting[s] \in {Tunnel, backup[s]} THEN lost ELSE lost \cup {s}
    /\ UNCHANGED <<present, chosen, backup, flag, fails>>

PutBackFails(s) ==
    /\ step = "put"
    /\ s \in present
    /\ Fail
    /\ Visit(s)
    /\ flag' = TRUE
    /\ UNCHANGED <<system, backup>>

\* A service that is gone is passed over, by Apply as by Restore.
SetGone(s) ==
    /\ step = "put" \/ (op = "up" /\ step = "take")
    /\ s \notin present
    /\ Visit(s)
    /\ UNCHANGED <<system, backup, flag, fails>>

\* Faulty variant: the file goes whether or not every service was set.
RestoreEndsAnyway ==
    /\ step = "put"
    /\ todo = {}
    /\ file' = None
    /\ Restored(flag)
    /\ UNCHANGED <<system, fails>>

\* The file stays for another try unless every service was set.
RestoreEnds ==
    /\ step = "put"
    /\ todo = {}
    /\ file' = IF flag THEN file ELSE None
    /\ Restored(flag)
    /\ UNCHANGED <<system, fails>>

----------------------------------------------------------------------------
(* Apply, once nothing is left over. *)

Get(s) ==
    /\ op = "up"
    /\ step = "get"
    /\ s \in present
    /\ Visit(s)
    /\ backup' = [backup EXCEPT ![s] = setting[s]]
    /\ UNCHANGED <<system, flag, fails>>

\* Up gives up before anything was changed, also over a service that is gone.
GetFails(s) ==
    /\ op = "up"
    /\ step = "get"
    /\ s \in todo
    /\ IF s \in present THEN Fail ELSE UNCHANGED fails
    /\ Enter("unwind", "restore")
    /\ UNCHANGED <<system, file, failed, device>>

GotAll ==
    /\ op = "up"
    /\ step = "get"
    /\ todo = {}
    /\ step' = "truncate"
    /\ UNCHANGED <<system, file, backup, todo, current, flag, fails>>
    /\ Stay

\* os.WriteFile opens the file and empties it; also Reassert's.
Truncate ==
    /\ step = "truncate"
    /\ file' = Torn
    /\ step' = "write"
    /\ UNCHANGED <<system, backup, todo, current, flag, fails>>
    /\ Stay

Write ==
    /\ op = "up"
    /\ step = "write"
    /\ file' = backup
    /\ step' = "take"
    /\ todo' = Entries(backup)
    /\ UNCHANGED <<system, backup, current, flag, fails>>
    /\ Stay

\* Up gives up, and Reassert takes no notice.
WriteFails ==
    /\ step \in {"truncate", "write"}
    /\ Fail
    /\ IF op = "up" THEN Enter("unwind", "restore") ELSE Enter("idle", "none")
    /\ Forget
    /\ UNCHANGED <<failed, device>>

\* s, whose servers the daemon takes to have been v, is pointed at the tunnel.
PointAtTunnel(s, v) ==
    /\ s \in present
    /\ setting' = [setting EXCEPT ![s] = Tunnel]
    /\ lost' = IF setting[s] \in {Tunnel, v} THEN lost ELSE lost \cup {s}
    /\ UNCHANGED <<present, chosen>>

Take(s) ==
    /\ op = "up"
    /\ step = "take"
    /\ Visit(s)
    /\ PointAtTunnel(s, backup[s])
    /\ UNCHANGED <<backup, flag, fails>>

\* Apply restores by itself before it returns the error.
TakeFails(s) ==
    /\ op = "up"
    /\ step = "take"
    /\ s \in todo \cap present
    /\ Fail
    /\ Enter("undo", "restore")
    /\ UNCHANGED <<system, file, failed, device>>

Applied ==
    /\ op = "up"
    /\ step = "take"
    /\ todo = {}
    /\ Enter("idle", "none")
    /\ failed' = FALSE
    /\ UNCHANGED <<system, file, device, fails>>

----------------------------------------------------------------------------
(* Reassert. *)

\* Faulty variant: a service with the servers it had before is left alone too.
LookKnown(s) ==
    /\ op = "reassert"
    /\ step = "get"
    /\ s \in todo
    /\ todo' = todo \ {s}
    /\ IF s \in present /\ setting[s] \notin {Tunnel, backup[s]}
       THEN step' = "take" /\ current' = <<s, setting[s]>>
       ELSE UNCHANGED <<step, current>>
    /\ UNCHANGED <<system, file, backup, flag, fails>>
    /\ Stay

\* A service that is gone or points at the tunnel is left alone.
Look(s) ==
    /\ op = "reassert"
    /\ step = "get"
    /\ s \in todo
    /\ todo' = todo \ {s}
    /\ IF s \in present /\ setting[s] # Tunnel
       THEN step' = "take" /\ current' = <<s, setting[s]>>
       ELSE UNCHANGED <<step, current>>
    /\ UNCHANGED <<system, file, backup, flag, fails>>
    /\ Stay

LookFails(s) ==
    /\ op = "reassert"
    /\ step = "get"
    /\ Fail
    /\ Visit(s)
    /\ UNCHANGED <<system, backup, flag>>

\* What was found replaces what is saved: in memory now, in the file when all
\* services have been looked at.
TakeBack ==
    /\ op = "reassert"
    /\ step = "take"
    /\ PointAtTunnel(current[1], current[2])
    /\ backup' = [backup EXCEPT ![current[1]] = current[2]]
    /\ flag' = TRUE
    /\ step' = "get"
    /\ current' = None
    /\ UNCHANGED <<file, todo, fails>>
    /\ Stay

TakeBackGone ==
    /\ op = "reassert"
    /\ step = "take"
    /\ current[1] \notin present
    /\ step' = "get"
    /\ current' = None
    /\ UNCHANGED <<system, file, backup, todo, flag, fails>>
    /\ Stay

\* Reassert returns there and then.
TakeBackFails ==
    /\ op = "reassert"
    /\ step = "take"
    /\ current[1] \in present
    /\ Fail
    /\ Enter("idle", "none")
    /\ Forget
    /\ UNCHANGED <<failed, device>>

LookedAtAll ==
    /\ op = "reassert"
    /\ step = "get"
    /\ todo = {}
    /\ IF flag
       THEN step' = "truncate" /\ UNCHANGED <<op, backup, todo, current, flag>>
       ELSE Enter("idle", "none")
    /\ UNCHANGED <<system, file, failed, device, fails>>

Rewrite ==
    /\ op = "reassert"
    /\ step = "write"
    /\ file' = backup
    /\ Enter("idle", "none")
    /\ UNCHANGED <<system, failed, device, fails>>

----------------------------------------------------------------------------
Restore ==
    \/ NoBackup \/ ReadBackup \/ RestoreEnds
    \/ \E s \in Services : PutBack(s) \/ PutBackFails(s) \/ SetGone(s)

Apply ==
    \/ GotAll \/ Truncate \/ Write \/ WriteFails \/ Applied
    \/ \E s \in Services : Get(s) \/ GetFails(s) \/ Take(s) \/ TakeFails(s)

Reasserting ==
    \/ TakeBack \/ TakeBackGone \/ TakeBackFails \/ LookedAtAll \/ Rewrite
    \/ \E s \in Services : Look(s) \/ LookFails(s)

Others ==
    \/ Die \/ Uninstall \/ Up \/ Down
    \/ \E s \in Services : Vanish(s) \/ \E v \in Servers : Choose(s, v)

Next == Boot \/ Reassert \/ Restore \/ Apply \/ Reasserting \/ Others

Spec == Init /\ [][Next]_vars

\* An operation goes on; launchd starts the daemon again; the ticker ticks.
FairSpec ==
    /\ Spec
    /\ WF_vars(Boot)
    /\ WF_vars(Reassert)
    /\ WF_vars(Restore \/ Apply \/ Reasserting)

----------------------------------------------------------------------------
(* Properties. *)

\* The servers a service gets back when the operation under way is over: what
\* Reassert has in memory, or else what the file has.
Kept(s) == IF op = "reassert" THEN backup[s] ELSE Saved(s)

\* Whatever dies, fails or is changed in between, a service has the servers
\* somebody chose for it, or points at the tunnel and a backup has them; but for
\* two ways to lose them: the daemon set the service without having read the
\* latest choice, or an unfinished Reassert had read it and not yet saved it.
Recoverable ==
    \A s \in present \ lost :
        \/ setting[s] = chosen[s]
        \/ setting[s] = Tunnel /\ Kept(s) = chosen[s]

\* A daemon that died with a backup on disk puts the settings back when launchd
\* has started it again, or says why not, unless it keeps dying.
LeftoverIsPutBack ==
    \/ []<>(op = "dead")
    \/ [](op = "dead" /\ file \in Backups => <>(file = None \/ failed))

\* A service that somebody points elsewhere while the tunnel is up is pointed
\* back at it, as long as the backup can be read.
TunnelKeepsDNS ==
    \A s \in Services :
        op = "idle" /\ device
            ~> setting[s] = Tunnel \/ s \notin present \/ ~device \/ file \notin Backups

\* "The previous one is written to a file before anything changes": a daemon
\* that dies while a service points at the tunnel has the servers it knows of in
\* the file, and not only in memory.
DeathLosesNothing ==
    [][op' = "dead" =>
         \A s \in present :
             setting[s] = Tunnel /\ Kept(s) = chosen[s] => Saved(s) = chosen[s]]_vars
=============================================================================
