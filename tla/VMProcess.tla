------------------------------ MODULE VMProcess ------------------------------
(***************************************************************************)
(* Firecracker processes on the host: the jail directory with the API      *)
(* socket and the cgroup that each has, how commands start and stop them,  *)
(* and the goroutine that cleans up after a VM for as long as the command  *)
(* that has started it lives.                                              *)
(*                                                                         *)
(* Directory, socket and cgroup have their names from JailerName, which    *)
(* JailOf gives; a row has the PID and, through the name, the socket path. *)
(* What else a command does to its project is in VMLifecycle, and so is    *)
(* one command at a time on a project, which Begin has here as well.       *)
(***************************************************************************)
EXTENDS Naturals, Sequences, FiniteSets

CONSTANTS
    Names,
    NoName,
    Jails,          \* names of jail directories
    JailOf,         \* JailerName of each project
    Procs,
    MayFail,        \* steps that may fail
    Crashes,        \* commands may be killed
    PidReuse,       \* the kernel may give out a PID that a row still has
    MaxPid          \* bound: PIDs

ASSUME NoNameAssumption == NoName \notin Names
ASSUME JailAssumption == JailOf \in [Names -> Jails]
ASSUME FlagsAssumption == {Crashes, PidReuse} \subseteq BOOLEAN
ASSUME MaxPidAssumption == MaxPid \in Nat

VARIABLES
    rows,           \* status and PID of each project
    cmd,            \* what each process is doing
    watched,        \* PID that the goroutine of each command waits for, or 0
    vms,            \* Firecracker processes
    sockets,        \* jail directories, by the PID that listens or did
    cgroups         \* cgroup directories

vars == <<rows, cmd, watched, vms, sockets, cgroups>>

Row == [status : {"none", "running", "frozen"}, pid : Nat]

\* asked: to shut down; limited: in the cgroup of its jail.
VM == [pid : Nat, name : Names, asked : BOOLEAN, paused : BOOLEAN, limited : BOOLEAN]

Plan == [deploy   |-> <<"clean", "launch", "limit", "save">>,
         unfreeze |-> <<"clean", "launch", "limit", "save">>,
         resize   |-> <<"ask", "poll", "kill", "clean", "launch", "limit", "save">>,
         freeze   |-> <<"pause", "create", "resume", "kill", "save">>,
         destroy  |-> <<"ask", "poll", "kill", "uncgroup", "unjail", "unrow">>]

Ops == DOMAIN Plan

Steps == UNION {{Plan[op][i] : i \in DOMAIN Plan[op]} : op \in Ops}

Idle == [op |-> "none", name |-> NoName, pid |-> 0, todo |-> <<>>]

\* A command that was killed.
Killed == [Idle EXCEPT !.op = "killed"]

Command == [op : Ops, name : Names, pid : Nat, todo : Seq(Steps) \ {<<>>}]

\* sockets has 0 for a directory that is not there.
TypeOK ==
    /\ rows \in [Names -> Row]
    /\ cmd \in [Procs -> {Idle, Killed} \cup Command]
    /\ watched \in [Procs -> Nat]
    /\ vms \subseteq VM
    /\ \A v, w \in vms : v.pid = w.pid => v = w
    /\ sockets \in [Jails -> Nat]
    /\ cgroups \subseteq Jails

Init ==
    /\ rows = [n \in Names |-> [status |-> "none", pid |-> 0]]
    /\ cmd = [p \in Procs |-> Idle]
    /\ watched = [p \in Procs |-> 0]
    /\ vms = {}
    /\ sockets = [j \in Jails |-> 0]
    /\ cgroups = {}

-----------------------------------------------------------------------------
Free(n) == \A p \in Procs : cmd[p].name # n

\* Without a PID there is nothing for destroy and freeze to stop.
PlanFor(op, pid) == CASE op = "destroy" /\ pid = 0 -> <<"unrow">>
                      [] op = "freeze" /\ pid = 0  -> <<"save">>
                      [] OTHER                     -> Plan[op]

Begin(p, op, n) ==
    /\ cmd[p] \in {Idle, Killed}
    /\ Free(n)
    /\ CASE op = "deploy"                -> rows[n].status = "none"
         [] op = "unfreeze"              -> rows[n].status = "frozen"
         [] op = "resize"                -> rows[n].status = "running"
         [] op \in {"freeze", "destroy"} -> rows[n].status # "none"
    /\ cmd' = [cmd EXCEPT ![p] = [op |-> op, name |-> n, pid |-> rows[n].pid,
                                  todo |-> PlanFor(op, rows[n].pid)]]
    /\ UNCHANGED <<rows, watched, vms, sockets, cgroups>>

At(p, step) == cmd[p].todo # <<>> /\ Head(cmd[p].todo) = step

\* The goroutine ends with the process.
Continue(p, c) ==
    IF c.todo = <<>>
    THEN /\ cmd' = [cmd EXCEPT ![p] = Idle]
         /\ watched' = [watched EXCEPT ![p] = 0]
    ELSE /\ cmd' = [cmd EXCEPT ![p] = c]
         /\ UNCHANGED watched

Advance(p) == Continue(p, [cmd[p] EXCEPT !.todo = Tail(@)])

Skip(p, k) == Continue(p, [cmd[p] EXCEPT !.todo = SubSeq(@, k + 1, Len(@))])

Return(p) == Continue(p, [cmd[p] EXCEPT !.todo = <<>>])

MayFailAt(p, step) == <<cmd[p].op, step>> \in MayFail

\* One directory for all.
Jail_One(p) == JailOf[CHOOSE n \in Names : TRUE]

Jail(p) == JailOf[cmd[p].name]

Runs(pid) == \E v \in vms : v.pid = pid

\* Whoever answers on the socket of a jail.
Listening(j) == {v \in vms : v.pid = sockets[j]}

-----------------------------------------------------------------------------
(***************************************************************************)
(* StartVM.                                                                *)
(***************************************************************************)

\* The directory of a former VM.
CleanJail(p) ==
    /\ At(p, "clean")
    /\ sockets' = [sockets EXCEPT ![Jail(p)] = 0]
    /\ Advance(p)
    /\ UNCHANGED <<rows, vms, cgroups>>

UsedPids == {v.pid : v \in vms} \cup {sockets[j] : j \in Jails}
               \cup IF PidReuse THEN {}
                    ELSE {rows[n].pid : n \in Names} \cup {cmd[p].pid : p \in Procs}

\* A socket that is left has nobody listening any more.
FreshPids == {k \in 1 .. MaxPid : k \notin UsedPids /\ 1 .. k - 1 \subseteq UsedPids}

\* The jailer makes the directory and the VM starts, or the directory is
\* removed.  resize has no row to go back to.
Launch(p) ==
    /\ At(p, "launch")
    /\ \/ /\ sockets[Jail(p)] = 0
          /\ \E k \in FreshPids :
                /\ vms' = vms \cup {[pid |-> k, name |-> cmd[p].name,
                                     asked |-> FALSE, paused |-> FALSE,
                                     limited |-> FALSE]}
                /\ sockets' = [sockets EXCEPT ![Jail(p)] = k]
                /\ cmd' = [cmd EXCEPT ![p].todo = Tail(@), ![p].pid = k]
                /\ watched' = [watched EXCEPT ![p] = k]
       \/ /\ sockets[Jail(p)] # 0 \/ MayFailAt(p, "launch")
          /\ sockets' = [sockets EXCEPT ![Jail(p)] = 0]
          /\ Return(p)
          /\ UNCHANGED vms
    /\ UNCHANGED <<rows, cgroups>>

\* SetupCgroup: an error is a warning.
Limit(p) ==
    /\ At(p, "limit")
    /\ \/ /\ cgroups' = cgroups \cup {Jail(p)}
          /\ vms' = {IF v.pid = cmd[p].pid THEN [v EXCEPT !.limited = TRUE] ELSE v :
                        v \in vms}
       \/ /\ MayFailAt(p, "limit")
          /\ cgroups' \in {cgroups, cgroups \cup {Jail(p)}}
          /\ UNCHANGED vms
    /\ Advance(p)
    /\ UNCHANGED <<rows, sockets>>

\* The kernel keeps a cgroup that has a process in it.
CgroupsWithout(j) ==
    IF \E v \in vms : JailOf[v.name] = j /\ v.limited THEN cgroups ELSE cgroups \ {j}

Reap_Early(p) ==
    /\ watched[p] # 0
    /\ sockets' = [sockets EXCEPT ![Jail(p)] = 0]
    /\ cgroups' = CgroupsWithout(Jail(p))
    /\ watched' = [watched EXCEPT ![p] = 0]
    /\ UNCHANGED <<rows, cmd, vms>>

\* The goroutine of StartVM, when the VM has ended.
Reap(p) ==
    /\ watched[p] # 0
    /\ ~Runs(watched[p])
    /\ sockets' = [sockets EXCEPT ![Jail(p)] = 0]
    /\ cgroups' = CgroupsWithout(Jail(p))
    /\ watched' = [watched EXCEPT ![p] = 0]
    /\ UNCHANGED <<rows, cmd, vms>>

-----------------------------------------------------------------------------
(***************************************************************************)
(* StopVMByPID, and how resize and freeze stop a VM.                       *)
(***************************************************************************)
Change(v, w) == vms' = (vms \ {v}) \cup {w}

\* SendCtrlAltDel, to whoever listens: destroy does not wait when it is not
\* answered.
Ask(p) ==
    /\ At(p, "ask")
    /\ \/ /\ Listening(Jail(p)) = {} \/ MayFailAt(p, "ask")
          /\ IF cmd[p].op = "destroy" THEN Skip(p, 2) ELSE Advance(p)
          /\ UNCHANGED vms
       \/ /\ \E v \in Listening(Jail(p)) : Change(v, [v EXCEPT !.asked = TRUE])
          /\ Advance(p)
    /\ UNCHANGED <<rows, sockets, cgroups>>

\* The answer to Ctrl+Alt+Del is taken for the end of the VM.
Poll_Not(p) ==
    /\ At(p, "poll")
    /\ IF cmd[p].op = "destroy" THEN Skip(p, 4) ELSE Advance(p)
    /\ UNCHANGED <<rows, vms, sockets, cgroups>>

\* The process is gone, or 40 polls are over.  destroy is then at the end of
\* StopVMByPID: directory and cgroup stay.
Poll(p) ==
    /\ At(p, "poll")
    /\ IF Runs(cmd[p].pid) \/ cmd[p].op = "resize" THEN Advance(p) ELSE Skip(p, 4)
    /\ UNCHANGED <<rows, vms, sockets, cgroups>>

\* SIGKILL, and polls that are taken to be enough for it.
Kill(p) ==
    /\ At(p, "kill")
    /\ vms' = {v \in vms : v.pid # cmd[p].pid}
    /\ Advance(p)
    /\ UNCHANGED <<rows, sockets, cgroups>>

RemoveCgroup(p) ==
    /\ At(p, "uncgroup")
    /\ cgroups' = CgroupsWithout(Jail(p))
    /\ Advance(p)
    /\ UNCHANGED <<rows, vms, sockets>>

RemoveJail(p) ==
    /\ At(p, "unjail")
    /\ sockets' = [sockets EXCEPT ![Jail(p)] = 0]
    /\ Advance(p)
    /\ UNCHANGED <<rows, vms, cgroups>>

\* CreateSnapshot: an error before the VM is resumed ends it, with a warning.
Pause(p) ==
    /\ At(p, "pause")
    /\ \/ /\ \E v \in Listening(Jail(p)) : Change(v, [v EXCEPT !.paused = TRUE])
          /\ Advance(p)
       \/ /\ Listening(Jail(p)) = {} \/ MayFailAt(p, "pause")
          /\ Skip(p, 3)
          /\ UNCHANGED vms
    /\ UNCHANGED <<rows, sockets, cgroups>>

CreateSnapshot(p) ==
    /\ At(p, "create")
    /\ \/ Listening(Jail(p)) # {} /\ Advance(p)
       \/ (Listening(Jail(p)) = {} \/ MayFailAt(p, "create")) /\ Skip(p, 2)
    /\ UNCHANGED <<rows, vms, sockets, cgroups>>

Resume(p) ==
    /\ At(p, "resume")
    /\ \/ \E v \in Listening(Jail(p)) : Change(v, [v EXCEPT !.paused = FALSE])
       \/ (Listening(Jail(p)) = {} \/ MayFailAt(p, "resume")) /\ UNCHANGED vms
    /\ Advance(p)
    /\ UNCHANGED <<rows, sockets, cgroups>>

-----------------------------------------------------------------------------
RowAfter_Stopped(c) == IF c.op = "freeze" THEN [status |-> "stopped", pid |-> 0]
                                          ELSE [status |-> "running", pid |-> c.pid]

RowAfter(c) == IF c.op = "freeze" THEN [status |-> "frozen", pid |-> 0]
                                  ELSE [status |-> "running", pid |-> c.pid]

\* A row that is not written: of a deploy there is none, then.
Save(p) ==
    /\ At(p, "save")
    /\ \/ rows' = [rows EXCEPT ![cmd[p].name] = RowAfter(cmd[p])]
       \/ MayFailAt(p, "save") /\ UNCHANGED rows
    /\ Advance(p)
    /\ UNCHANGED <<vms, sockets, cgroups>>

Unrow(p) ==
    /\ At(p, "unrow")
    /\ rows' = [rows EXCEPT ![cmd[p].name] = [status |-> "none", pid |-> 0]]
    /\ Advance(p)
    /\ UNCHANGED <<vms, sockets, cgroups>>

\* The guest shuts down, asked or not, or Firecracker dies.
Halt(v) ==
    /\ vms' = vms \ {v}
    /\ UNCHANGED <<rows, cmd, watched, sockets, cgroups>>

\* The VM of a command that is killed stays; its goroutine does not.
Crash(p) ==
    /\ Crashes
    /\ cmd[p] \notin {Idle, Killed}
    /\ cmd' = [cmd EXCEPT ![p] = Killed]
    /\ watched' = [watched EXCEPT ![p] = 0]
    /\ UNCHANGED <<rows, vms, sockets, cgroups>>

StartVM(p) == CleanJail(p) \/ Launch(p) \/ Limit(p) \/ Reap(p)
StopVM(p) == Ask(p) \/ Poll(p) \/ Kill(p) \/ RemoveCgroup(p) \/ RemoveJail(p)
TakeSnapshot(p) == Pause(p) \/ CreateSnapshot(p) \/ Resume(p)

Next ==
    \/ \E p \in Procs :
          \/ \E op \in Ops, n \in Names : Begin(p, op, n)
          \/ StartVM(p) \/ StopVM(p) \/ TakeSnapshot(p)
          \/ Save(p) \/ Unrow(p) \/ Crash(p)
    \/ \E v \in vms : Halt(v)

Spec == Init /\ [][Next]_vars

-----------------------------------------------------------------------------
(***************************************************************************)
(* Properties.                                                             *)
(***************************************************************************)

\* The VM that a row knows can be reached through its socket path, and its
\* cgroup is there: no command, goroutine or clean-up of a former VM has
\* removed them (vm.go:41, vm.go:190, vm.go:270).
VMKeepsJail ==
    \A v \in vms :
       Free(v.name) /\ rows[v.name] = [status |-> "running", pid |-> v.pid]
       => /\ sockets[JailOf[v.name]] = v.pid
          /\ v.limited => JailOf[v.name] \in cgroups

\* No command asks, pauses or kills the VM of another project.
TouchesOwnVM ==
    [][\A p \in Procs :
          cmd'[p] # cmd[p] => \A v \in vms \ vms' : v.name = cmd[p].name]_vars

\* A command that stops a VM does not go on while it still runs: destroy and
\* freeze do not end, whatever has become of Ctrl+Alt+Del or the snapshot, and
\* resize does not start the next one.
StoppedIsGone ==
    [][\A p \in Procs :
          /\ cmd[p].op \in {"destroy", "freeze"} /\ cmd'[p] = Idle
             => \A v \in vms' : v.pid # cmd[p].pid
          /\ cmd[p].op = "resize" /\ At(p, "launch")
             => \A v \in vms : v.pid # rows[cmd[p].name].pid]_vars
=============================================================================
