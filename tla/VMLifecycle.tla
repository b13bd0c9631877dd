---------------------------- MODULE VMLifecycle -----------------------------
(***************************************************************************)
(* The umu commands that create, stop, copy, archive and remove VMs, and   *)
(* the host resources they handle: rows of the state store, Firecracker    *)
(* processes, TAP devices on the shared bridge, disk images, snapshots and *)
(* the S3 archive.                                                         *)
(*                                                                         *)
(* A command is an operating system process.  It reads the store once,     *)
(* works through a list of steps on the host, each of which may fail, and  *)
(* writes the store; nothing but the store's own checks orders two         *)
(* commands.  cmd[p].todo is what is left of the list.  A step that fails  *)
(* replaces it by the clean-up the code has for that failure; the steps of *)
(* clean-up are those of destroy.                                          *)
(*                                                                         *)
(* A method of the store is one step here (module AtomicStore; what its    *)
(* statements do when processes interleave is module StateStore).  Routes, *)
(* ports and DNS records of these commands are in module Exposure.         *)
(***************************************************************************)
EXTENDS ProjectTable, Sequences

CONSTANTS
    NoName,
    Procs,          \* processes that run commands
    Commands,       \* the commands operators give in this instance
    Exclusive,      \* operators wait for a command on a project to end
    MayFail,        \* pairs <<command, step>> that may fail
    Crashes,        \* processes may be killed, and the host rebooted
    MaxIndex,       \* bound: rowids
    MaxSaves,       \* bound: generation at which a row is last saved
    MaxVMs          \* bound: VMs when a command that starts one begins

ASSUME NoNameAssumption == NoName \notin Names
ASSUME NamesAssumption == {"none", "image"} \cap Names = {}
ASSUME FlagsAssumption == Exclusive \in BOOLEAN /\ Crashes \in BOOLEAN
ASSUME BoundsAssumption == {MaxIndex, MaxSaves, MaxVMs} \subseteq Nat

VARIABLES
    rows,           \* the projects table
    cmd,            \* what each process is doing
    vms,            \* running Firecracker processes
    taps,           \* TAP devices that exist, by the index in their name
    bridged,        \* TAP devices attached to the bridge
    bridge,         \* br-umu exists
    disks,          \* <name>.ext4: who wrote it last
    snapshots,      \* names with a snapshot
    archive         \* names with a disk in S3

vars == <<rows, cmd, vms, taps, bridged, bridge, disks, snapshots, archive>>
network == <<taps, bridged, bridge>>
storage == <<disks, snapshots, archive>>

\* A row has one service or none: net is the index that its addresses and its
\* TAP name are made from, 0 without a service; sock, a SocketPath.
Statuses == {"none", "creating", "running", "frozen"}

Project == [rowid : Nat, gen : Nat, status : Statuses, net : Nat, pid : Nat,
            sock : BOOLEAN]

NoProject == [rowid |-> 0, gen |-> 0, status |-> "none", net |-> 0, pid |-> 0,
              sock |-> FALSE]

HasService(row) == row.net # 0

\* link and disk: the VM still has the TAP and the disk file of those names.
VM == [pid : Nat, name : Names, net : Nat, link : BOOLEAN, disk : BOOLEAN,
       boot : {"cold", "snapshot"}]

\* A disk is a copy of the base image until a VM runs on it.
Disk == Names \cup {"none", "image"}

Ops == {"deploy", "destroy", "freeze", "unfreeze", "resize", "clone", "push",
        "load", "route"}

Steps == {"register", "tap", "disk", "init", "start", "save", "copy", "pull",
          "kill", "untap", "undisk", "count", "unbridge", "unrow", "snapshot",
          "ensure", "grow", "upload"}

\* kept: history, the project's disk existed when the command began.
Command == [op : Ops \cup {"none"}, name : Names \cup {NoName},
            src : Names \cup {NoName}, todo : Seq(Steps), copy : Project,
            kept : BOOLEAN]

Idle == [op |-> "none", name |-> NoName, src |-> NoName, todo |-> <<>>,
         copy |-> NoProject, kept |-> FALSE]

TypeOK ==
    /\ rows \in [Names -> Project]
    /\ cmd \in [Procs -> Command]
    /\ \A p \in Procs : cmd[p].todo # <<>> => cmd[p].name \in Names
    /\ vms \subseteq VM
    /\ taps \subseteq Nat
    /\ bridged \subseteq taps
    /\ bridge \in BOOLEAN
    /\ ~bridge => bridged = {}
    /\ disks \in [Names -> Disk]
    /\ snapshots \subseteq Names
    /\ archive \subseteq Names

Init ==
    /\ rows = [n \in Names |-> NoProject]
    /\ cmd = [p \in Procs |-> Idle]
    /\ vms = {}
    /\ taps = {}
    /\ bridged = {}
    /\ bridge = FALSE
    /\ disks = [n \in Names |-> "none"]
    /\ snapshots = {}
    /\ archive = {}

-----------------------------------------------------------------------------
(***************************************************************************)
(* Commands begin.  Every umu process makes sure of the bridge as it       *)
(* starts (init of internal/network), then looks the project up.           *)
(***************************************************************************)
Free(n) == Exclusive => \A q \in Procs : n \notin {cmd[q].name, cmd[q].src} \ {NoName}

Begin(p, op, n, src, copy, todo) ==
    /\ op \in Commands
    /\ cmd[p] = Idle
    /\ Free(n) /\ Free(src)
    /\ cmd' = [cmd EXCEPT ![p] = [op |-> op, name |-> n, src |-> src,
                                  todo |-> todo, copy |-> copy,
                                  kept |-> disks[n] # "none"]]
    /\ bridge' = TRUE
    /\ UNCHANGED <<rows, vms, taps, bridged, storage>>

Registering == {q \in Procs : cmd[q].op \in {"deploy", "clone", "load"}}

RoomForRow == \A n \in Names : rows[n].rowid + Cardinality(Registering) < MaxIndex
RoomForSave(n) == rows[n].gen < MaxSaves
RoomForSaves(n) == rows[n].gen + 1 < MaxSaves
RoomForVM == Cardinality(vms) < MaxVMs

Deploy(p, n) ==
    /\ ~Present(rows, n)
    /\ RoomForRow /\ RoomForVM
    /\ Begin(p, "deploy", n, NoName, NoProject,
             <<"register", "tap", "disk", "init", "start", "save">>)

Destroy_KeepsVM(p, n) ==
    /\ Present(rows, n)
    /\ \E keep \in BOOLEAN :
          Begin(p, "destroy", n, NoName, rows[n],
                IF ~HasService(rows[n]) THEN <<"count", "unbridge", "unrow">>
                ELSE IF keep THEN <<"untap", "count", "unbridge", "unrow">>
                ELSE <<"kill", "untap", "undisk", "count", "unbridge", "unrow">>)

\* --keep-disk leaves out undisk.  A row whose deploy never got to its end has
\* no service to clean up after.
Destroy(p, n) ==
    /\ Present(rows, n)
    /\ \E keep \in BOOLEAN :
          Begin(p, "destroy", n, NoName, rows[n],
                IF ~HasService(rows[n]) THEN <<"count", "unbridge", "unrow">>
                ELSE IF keep THEN <<"kill", "untap", "count", "unbridge", "unrow">>
                ELSE <<"kill", "untap", "undisk", "count", "unbridge", "unrow">>)

Freeze(p, n) ==
    /\ rows[n].status \in {"running", "frozen"}
    /\ RoomForSave(n)
    /\ Begin(p, "freeze", n, NoName, rows[n],
             IF rows[n].pid # 0 THEN <<"snapshot", "kill", "save">> ELSE <<"save">>)

Unfreeze(p, n) ==
    /\ rows[n].status = "frozen"
    /\ RoomForSave(n) /\ RoomForVM
    /\ Begin(p, "unfreeze", n, NoName, rows[n], <<"ensure", "start", "save">>)

\* With or without a new disk size.
Resize(p, n) ==
    /\ rows[n].status = "running"
    /\ HasService(rows[n])
    /\ RoomForSave(n)
    /\ Cardinality(vms) <= MaxVMs
    /\ \E todo \in {<<"kill", "ensure", "start", "save">>,
                     <<"kill", "grow", "ensure", "start", "save">>} :
          Begin(p, "resize", n, NoName, rows[n], todo)

Clone_OntoProject(p, src, n) ==
    /\ src # n
    /\ Present(rows, src)
    /\ rows[src].status # "running"
    /\ HasService(rows[src])
    /\ disks[src] # "none"
    /\ RoomForRow /\ RoomForVM
    /\ Begin(p, "clone", n, src, NoProject,
             <<"copy", "register", "tap", "start", "save">>)

Clone(p, src, n) ==
    /\ src # n
    /\ Present(rows, src)
    /\ rows[src].status # "running"
    /\ ~Present(rows, n)
    /\ HasService(rows[src])
    /\ disks[src] # "none"
    /\ RoomForRow /\ RoomForVM
    /\ Begin(p, "clone", n, src, NoProject,
             <<"copy", "register", "tap", "start", "save">>)

Load(p, n) ==
    /\ ~Present(rows, n)
    /\ RoomForRow /\ RoomForVM
    /\ Begin(p, "load", n, NoName, NoProject,
             <<"pull", "register", "tap", "start", "save">>)

Push(p, n) ==
    /\ Present(rows, n)
    /\ rows[n].status # "running"
    /\ HasService(rows[n])
    /\ Begin(p, "push", n, NoName, rows[n], <<"upload", "unrow">>)

\* route add: of its effects, the status.
Route(p, n) ==
    /\ HasService(rows[n])
    /\ RoomForSaves(n)
    /\ Begin(p, "route", n, NoName, rows[n], <<"save">>)

\* list, status, ssh ..., and the commands refused above.
OtherCommand(p) ==
    /\ cmd[p] = Idle
    /\ bridge' = TRUE
    /\ UNCHANGED <<rows, cmd, vms, taps, bridged, storage>>
-----------------------------------------------------------------------------
(***************************************************************************)
(* Control of a command.                                                   *)
(***************************************************************************)
At(p, step) == cmd[p].todo # <<>> /\ Head(cmd[p].todo) = step

Continue(p, c) == cmd' = [cmd EXCEPT ![p] = IF c.todo = <<>> THEN Idle ELSE c]

Advance(p) == Continue(p, [cmd[p] EXCEPT !.todo = Tail(@)])

AdvanceWith(p, copy) == Continue(p, [cmd[p] EXCEPT !.todo = Tail(@), !.copy = copy])

\* Clean-up after a failed step, deferred functions last.
Cleanup_KeepsDisk(op, step) ==
    CASE op = "deploy" /\ step # "register"           -> <<"untap", "unrow">>
      [] op = "clone" /\ step \in {"tap", "save"}     -> <<"unrow">>
      [] op = "clone" /\ step = "start"               -> <<"untap", "unrow">>
      [] OTHER                                        -> <<>>

Cleanup_KeepsRow(op, step) ==
    CASE op = "deploy" /\ step = "disk"               -> <<"untap">>
      [] op = "deploy" /\ step \in {"init", "start"}  -> <<"untap", "undisk">>
      [] op = "clone" /\ step # "copy"                -> <<"undisk">>
      [] OTHER                                        -> <<>>

Cleanup(op, step) ==
    CASE op = "deploy" /\ step \in {"tap", "save"}    -> <<"unrow">>
      [] op = "deploy" /\ step = "disk"               -> <<"untap", "unrow">>
      [] op = "deploy" /\ step \in {"init", "start"}  -> <<"untap", "undisk", "unrow">>
      [] op = "clone" /\ step = "register"            -> <<"undisk">>
      [] op = "clone" /\ step \in {"tap", "save"}     -> <<"unrow", "undisk">>
      [] op = "clone" /\ step = "start"               -> <<"untap", "unrow", "undisk">>
      [] op = "load" /\ step \in {"register", "tap"}  -> <<"undisk">>
      [] op = "load" /\ step = "start"                -> <<"untap">>
      [] OTHER                                        -> <<>>

Fails(p, step) ==
    Continue(p, [cmd[p] EXCEPT !.todo = Cleanup(cmd[p].op, step)])

MayFailAt(p, step) == <<cmd[p].op, step>> \in MayFail

-----------------------------------------------------------------------------
(***************************************************************************)
(* Steps on the store.                                                     *)
(***************************************************************************)

\* Register, and the index kept for the addresses of the service.
Register(p) ==
    /\ At(p, "register")
    /\ LET n == cmd[p].name IN
       \/ /\ ~Present(rows, n)
          /\ \E r \in NextRowid(rows) :
                LET row == [NoProject EXCEPT !.rowid = r, !.gen = 1, !.status = "creating"]
                IN /\ rows' = [rows EXCEPT ![n] = row]
                   /\ AdvanceWith(p, [row EXCEPT !.net = r])
       \/ /\ Present(rows, n) \/ MayFailAt(p, "register")
          /\ Fails(p, "register")
          /\ UNCHANGED rows
    /\ UNCHANGED <<vms, network, storage>>

StatusAfter_Stopped(op, status) ==
    CASE op = "freeze" -> "stopped"
      [] op = "resize" -> status
      [] OTHER         -> "running"

StatusAfter(op, status) ==
    CASE op = "freeze" -> "frozen"
      [] op = "resize" -> status
      [] OTHER         -> "running"

Save(p) ==
    /\ At(p, "save")
    /\ LET n == cmd[p].name
           new == [cmd[p].copy EXCEPT !.status = StatusAfter(cmd[p].op, @)]
       IN
       \/ /\ ~Present(rows, n)
          /\ \E r \in NextRowid(rows) :
                rows' = [rows EXCEPT ![n] = [new EXCEPT !.rowid = r, !.gen = 1]]
          /\ Advance(p)
       \/ /\ Present(rows, n)
          /\ ~Stale(rows[n], cmd[p].copy)
          /\ rows' = [rows EXCEPT ![n] = [new EXCEPT !.rowid = rows[n].rowid,
                                                     !.gen = NextGen(rows[n], new)]]
          /\ Advance(p)
       \/ /\ \/ Present(rows, n) /\ Stale(rows[n], cmd[p].copy)
             \/ MayFailAt(p, "save")
          /\ Fails(p, "save")
          /\ UNCHANGED rows
    /\ UNCHANGED <<vms, network, storage>>

\* Delete.  Whoever calls it is at its end or ignores the error.
Unrow(p) ==
    /\ At(p, "unrow")
    /\ \/ rows' = [rows EXCEPT ![cmd[p].name] = NoProject]
       \/ MayFailAt(p, "unrow") /\ UNCHANGED rows
    /\ Advance(p)
    /\ UNCHANGED <<vms, network, storage>>

-----------------------------------------------------------------------------
(***************************************************************************)
(* Steps on the network.  A deleted TAP is gone for the VM that used it.   *)
(***************************************************************************)
DeleteTap(i) ==
    /\ taps' = taps \ {i}
    /\ bridged' = bridged \ {i}
    /\ vms' = {IF v.net = i THEN [v EXCEPT !.link = FALSE] ELSE v : v \in vms}

\* Every caller of DestroyTAP ignores its error.
DestroyTAP(p, i) ==
    \/ DeleteTap(i)
    \/ MayFailAt(p, "untap") /\ UNCHANGED <<vms, taps, bridged>>

\* DestroyTAP of whatever has the name, then CreateVMTAP, which removes its
\* TAP again when it cannot attach it to the bridge: what a failure leaves is
\* the old TAP, the new one or none.
Tap(p) ==
    /\ At(p, "tap")
    /\ LET i == cmd[p].copy.net IN
       \/ /\ bridge
          /\ taps' = taps \cup {i}
          /\ bridged' = bridged \cup {i}
          /\ vms' = {IF v.net = i THEN [v EXCEPT !.link = FALSE] ELSE v : v \in vms}
          /\ Advance(p)
       \/ /\ ~bridge \/ MayFailAt(p, "tap")
          /\ \/ DestroyTAP(p, i)
             \/ /\ MayFailAt(p, "untap")
                /\ taps' = taps \cup {i}
                /\ bridged' = bridged \ {i}
                /\ vms' = {IF v.net = i THEN [v EXCEPT !.link = FALSE] ELSE v : v \in vms}
          /\ Fails(p, "tap")
    /\ UNCHANGED <<rows, bridge, storage>>

\* EnsureTAP: a TAP that exists is attached again if it can be, without an
\* error if not.  resize goes on without a TAP.
Ensure(p) ==
    /\ At(p, "ensure")
    /\ LET i == cmd[p].copy.net IN
       \/ /\ bridge
          /\ taps' = taps \cup {i}
          /\ bridged' = bridged \cup {i}
          /\ Advance(p)
       \/ /\ ~bridge \/ MayFailAt(p, "ensure")
          /\ IF i \in taps \/ cmd[p].op = "resize" THEN Advance(p)
                                                   ELSE Fails(p, "ensure")
          /\ UNCHANGED <<taps, bridged>>
    /\ UNCHANGED <<rows, vms, bridge, storage>>

Untap(p) ==
    /\ At(p, "untap")
    /\ DestroyTAP(p, cmd[p].copy.net)
    /\ Advance(p)
    /\ UNCHANGED <<rows, bridge, storage>>

\* CountTAPOnBridge: destroy goes on to DestroySharedBridge when it sees none,
\* which an error says too.
Count(p) ==
    /\ At(p, "count")
    /\ \/ /\ bridged = {} \/ MayFailAt(p, "count")
          /\ Advance(p)
       \/ /\ bridged # {}
          /\ Continue(p, [cmd[p] EXCEPT !.todo = Tail(Tail(@))])
    /\ UNCHANGED <<rows, vms, network, storage>>

\* Deleting the bridge leaves its TAP devices without a master.  destroy ignores
\* the error.
Unbridge(p) ==
    /\ At(p, "unbridge")
    /\ \/ bridge' = FALSE /\ bridged' = {}
       \/ MayFailAt(p, "unbridge") /\ UNCHANGED <<bridge, bridged>>
    /\ Advance(p)
    /\ UNCHANGED <<rows, vms, taps, storage>>

-----------------------------------------------------------------------------
(***************************************************************************)
(* Steps on disks and archive.  A file that is removed or renamed over is  *)
(* no longer the one a running VM has open; cp writes into the same file.  *)
(***************************************************************************)
LoseDisk(n) == {IF v.name = n THEN [v EXCEPT !.disk = FALSE] ELSE v : v \in vms}

\* CloneDisk refuses an existing disk; a failed cp leaves what it has written.
MakeDisk(p) ==
    /\ At(p, "disk")
    /\ LET n == cmd[p].name IN
       \/ /\ disks[n] = "none"
          /\ disks' = [disks EXCEPT ![n] = "image"]
          /\ Advance(p)
       \/ /\ disks[n] # "none"
          /\ Fails(p, "disk")
          /\ UNCHANGED disks
       \/ /\ disks[n] = "none"
          /\ MayFailAt(p, "disk")
          /\ disks' \in {disks, [disks EXCEPT ![n] = "image"]}
          /\ Fails(p, "disk")
    /\ UNCHANGED <<rows, vms, network, snapshots, archive>>

\* ResizeDisk and InjectInit in deploy, ResizeDisk in resize.
PrepareDisk(p) ==
    /\ \E step \in {"init", "grow"} :
          /\ At(p, step)
          /\ \/ Advance(p)
             \/ MayFailAt(p, step) /\ Fails(p, step)
    /\ UNCHANGED <<rows, vms, network, storage>>

CopyDisk(p) ==
    /\ At(p, "copy")
    /\ LET src == cmd[p].src
           n == cmd[p].name
       IN
       \/ /\ disks[src] # "none"
          /\ disks' = [disks EXCEPT ![n] = disks[src]]
          /\ Advance(p)
       \/ /\ disks[src] = "none"
          /\ Fails(p, "copy")
          /\ UNCHANGED disks
       \/ /\ MayFailAt(p, "copy")
          /\ disks' \in {disks, [disks EXCEPT ![n] = "image"]}
          /\ Fails(p, "copy")
    /\ UNCHANGED <<rows, vms, network, snapshots, archive>>

\* Pull downloads to a file of its own and renames it.
Pull(p) ==
    /\ At(p, "pull")
    /\ LET n == cmd[p].name IN
       \/ /\ n \in archive
          /\ disks' = [disks EXCEPT ![n] = n]
          /\ vms' = LoseDisk(n)
          /\ Advance(p)
       \/ /\ n \notin archive \/ MayFailAt(p, "pull")
          /\ Fails(p, "pull")
          /\ UNCHANGED <<disks, vms>>
    /\ UNCHANGED <<rows, network, snapshots, archive>>

\* Every caller of DeleteDisk, or os.Remove, ignores its error.
Undisk(p) ==
    /\ At(p, "undisk")
    /\ \/ /\ disks' = [disks EXCEPT ![cmd[p].name] = "none"]
          /\ vms' = LoseDisk(cmd[p].name)
       \/ MayFailAt(p, "undisk") /\ UNCHANGED <<disks, vms>>
    /\ Advance(p)
    /\ UNCHANGED <<rows, network, snapshots, archive>>

Upload(p) ==
    /\ At(p, "upload")
    /\ LET n == cmd[p].name IN
       \/ /\ disks[n] # "none"
          /\ archive' = archive \cup {n}
          /\ Advance(p)
       \/ /\ disks[n] = "none" \/ MayFailAt(p, "upload")
          /\ Fails(p, "upload")
          /\ UNCHANGED archive
    /\ UNCHANGED <<rows, vms, network, disks, snapshots>>

-----------------------------------------------------------------------------
(***************************************************************************)
(* Steps on Firecracker processes.                                         *)
(***************************************************************************)

\* The kernel does not give out a PID again that someone still has in mind.
Pids == {v.pid : v \in vms} \cup {rows[n].pid : n \in Names}
           \cup {cmd[p].copy.pid : p \in Procs}

FreshPid == LET limit == Cardinality(vms) + Cardinality(Names) + Cardinality(Procs)
            IN {k \in 1 .. limit + 1 : k \notin Pids /\ 1 .. k - 1 \subseteq Pids}

\* unfreeze boots from a snapshot when there is one and SocketPath is empty.
BootOf(p) == IF /\ cmd[p].op = "unfreeze"
                /\ cmd[p].name \in snapshots
                /\ ~cmd[p].copy.sock
             THEN "snapshot" ELSE "cold"

\* Firecracker needs its disk file and its TAP, which one process can open.
CanStart(p) ==
    /\ disks[cmd[p].name] # "none"
    /\ cmd[p].copy.net \in taps
    /\ \A v \in vms : ~(v.net = cmd[p].copy.net /\ v.link)

Start(p) ==
    /\ At(p, "start")
    /\ LET n == cmd[p].name IN
       \/ /\ CanStart(p)
          /\ \E k \in FreshPid :
                /\ vms' = vms \cup {[pid |-> k, name |-> n, net |-> cmd[p].copy.net,
                                     link |-> TRUE, disk |-> TRUE, boot |-> BootOf(p)]}
                /\ AdvanceWith(p, [cmd[p].copy EXCEPT !.pid = k, !.sock = TRUE])
          /\ disks' = [disks EXCEPT ![n] = n]
       \/ /\ ~CanStart(p) \/ MayFailAt(p, "start")
          /\ Fails(p, "start")
          /\ UNCHANGED <<vms, disks>>
    /\ UNCHANGED <<rows, network, snapshots, archive>>

\* StopVMByPID, and the SIGKILL of freeze and resize.
Kill_Not(p) ==
    /\ At(p, "kill")
    /\ AdvanceWith(p, [cmd[p].copy EXCEPT !.pid = 0])
    /\ UNCHANGED <<rows, vms, network, storage>>

Kill(p) ==
    /\ At(p, "kill")
    /\ vms' = {v \in vms : v.pid # cmd[p].copy.pid}
    /\ AdvanceWith(p, [cmd[p].copy EXCEPT !.pid = 0])
    /\ UNCHANGED <<rows, network, storage>>

\* CreateSnapshot: an error is a warning.
Snapshot(p) ==
    /\ At(p, "snapshot")
    /\ \/ snapshots' = snapshots \cup {cmd[p].name}
       \/ MayFailAt(p, "snapshot") /\ UNCHANGED snapshots
    /\ Advance(p)
    /\ UNCHANGED <<rows, vms, network, disks, archive>>

-----------------------------------------------------------------------------
\* Interrupted or killed: nothing deferred runs, the VM it started stays.
Crash(p) ==
    /\ Crashes
    /\ cmd[p] # Idle
    /\ cmd' = [cmd EXCEPT ![p] = Idle]
    /\ UNCHANGED <<rows, vms, network, storage>>

Reboot ==
    /\ Crashes
    /\ cmd' = [p \in Procs |-> Idle]
    /\ vms' = {}
    /\ taps' = {}
    /\ bridged' = {}
    /\ bridge' = FALSE
    /\ UNCHANGED <<rows, storage>>

BeginCommand(p) ==
    \/ \E n \in Names :
          \/ Deploy(p, n)
          \/ Destroy(p, n)
          \/ Freeze(p, n)
          \/ Unfreeze(p, n)
          \/ Resize(p, n)
          \/ Load(p, n)
          \/ Push(p, n)
          \/ Route(p, n)
          \/ \E src \in Names : Clone(p, src, n)
    \/ OtherCommand(p)

StepOnStore(p) == Register(p) \/ Save(p) \/ Unrow(p)
StepOnNetwork(p) == Tap(p) \/ Ensure(p) \/ Untap(p) \/ Count(p) \/ Unbridge(p)
StepOnDisk(p) == MakeDisk(p) \/ PrepareDisk(p) \/ CopyDisk(p) \/ Pull(p)
                    \/ Undisk(p) \/ Upload(p)
StepOnVM(p) == Start(p) \/ Kill(p) \/ Snapshot(p)

Step(p) == StepOnStore(p) \/ StepOnNetwork(p) \/ StepOnDisk(p) \/ StepOnVM(p)

Next ==
    \/ \E p \in Procs : BeginCommand(p) \/ Step(p) \/ Crash(p)
    \/ Reboot

Spec == Init /\ [][Next]_vars

-----------------------------------------------------------------------------
(***************************************************************************)
(* Properties.                                                             *)
(***************************************************************************)

\* The addresses, the MAC and the TAP name of a VM are its own: no other VM
\* on the bridge has them ("guaranteed-unique", network.go:378).
UniqueNetwork == \A v, w \in vms : v.net = w.net => v = w

\* No two VMs write to one disk image.
OneVMPerDisk == \A v, w \in vms : v.name = w.name /\ v.disk /\ w.disk => v = w

\* No command takes away the TAP or the disk of a VM that runs.
VMKeepsItsResources == \A v \in vms : v.link /\ v.disk

\* The TAP of a running VM is on the bridge: the bridge is deleted only when
\* no TAP remains (destroy.go:131).
VMIsBridged == \A v \in vms : v.net \in bridged

\* Between commands, the row of a project says what is the case ("Status
\* represents the current state of a project VM", state.go:34): a running
\* project has its VM, with its TAP and disk, and no other; a frozen one has
\* its disk and no VM; without a row there is no VM.
StatusIsTrue ==
    \A n \in Names :
       LET own == {v \in vms : v.name = n}
       IN (\A p \in Procs : cmd[p].name # n) =>
             CASE rows[n].status = "running" ->
                     \E v \in own : /\ own = {v}
                                    /\ v.pid = rows[n].pid
                                    /\ v.net = rows[n].net
                                    /\ v.link /\ v.disk
               [] rows[n].status = "frozen" -> own = {} /\ disks[n] = n
               [] OTHER -> own = {} /\ ~Present(rows, n)

\* A deploy or clone that does not end with a running project leaves no row,
\* no VM, and no disk but one that was there before; and it gives its index
\* back only when no TAP has it any more.
FailedLeavesNothing ==
    [][\A p \in Procs :
          LET n == cmd[p].name
          IN cmd[p].op \in {"deploy", "clone"}
             => /\ cmd'[p] = Idle /\ rows'[n].status # "running"
                   => /\ ~Present(rows', n)
                      /\ \A v \in vms' : v.name # n
                      /\ disks'[n] = "none" \/ cmd[p].kept
                /\ Present(rows, n) /\ ~Present(rows', n)
                   => cmd[p].copy.net \notin taps']_vars

\* The disk of a project that is up or frozen is lost to no other command
\* than its own destroy, whatever fails, is killed or races.
DataSurvives ==
    [][\A n \in Names :
          /\ rows[n].status \in {"running", "frozen"}
          /\ disks[n] = n
          /\ disks'[n] # n
          => \E p \in Procs : cmd[p].op = "destroy" /\ cmd[p].name = n]_vars

\* Projects in the store have distinct addresses, even after failures.
RowsHaveOwnNetwork ==
    \A m, n \in Names : HasService(rows[m]) /\ rows[m].net = rows[n].net => m = n
=============================================================================
