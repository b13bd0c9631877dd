---------------------------- MODULE VMProcessProofs ----------------------------
(***************************************************************************)
(* Commands stop and clean up after their own VMs only, if no two projects *)
(* share a JailerName and the kernel gives out no PID that is still noted  *)
(* somewhere: for any number of projects and processes, whichever steps    *)
(* fail and wherever commands are killed.                                  *)
(*                                                                         *)
(* A command is at a position of the plan of its operation; the invariant  *)
(* says what is known of its row and of its VM from which step on.  The    *)
(* row of a project leads to no VM of another, and while a command works   *)
(* on directory and cgroup it leads to no VM at all.                       *)
(***************************************************************************)
EXTENDS VMProcess, Integers, SequenceTheorems, TLAPS

Injective == \A m, n \in Names : JailOf[m] = JailOf[n] => m = n

-----------------------------------------------------------------------------
(***************************************************************************)
(* Plans.                                                                  *)
(***************************************************************************)
From(op, i) == SubSeq(Plan[op], i, Len(Plan[op]))

Positioned(c) ==
    /\ c \in Command
    /\ \E i \in 1 .. Len(Plan[c.op]) : c.todo = From(c.op, i)

Active(p) == cmd[p] \notin {Idle, Killed}

Types ==
    /\ TypeOK
    /\ \A p \in Procs : Active(p) => Positioned(cmd[p])
    /\ \A v \in vms : v.pid # 0

-----------------------------------------------------------------------------
(***************************************************************************)
(* The invariant.                                                          *)
(***************************************************************************)
Starts == {"deploy", "unfreeze", "resize"}

\* The VM has been started, and no row has it yet.
Started(c) == c.op \in Starts /\ Head(c.todo) \in {"limit", "save"}

\* The VM of the row is gone, or there was none.
Down == {"clean", "launch", "limit", "save", "uncgroup", "unjail", "unrow"}

OneEach ==
    \A p, q \in Procs : Active(p) /\ Active(q) /\ cmd[p].name = cmd[q].name => p = q

\* Whoever has noted the PID of a VM means that VM.
PidsAreTrue ==
    \A v \in vms :
       /\ \A n \in Names : rows[n].pid = v.pid => v.name = n
       /\ \A p \in Procs : cmd[p].pid = v.pid => v.name = cmd[p].name
       /\ \A j \in Jails : sockets[j] = v.pid => JailOf[v.name] = j

RowPids == \A n \in Names : rows[n].status # "running" => rows[n].pid = 0

\* Socket and cgroup of the VMs with a PID.
Reachable(pid, n) ==
    \A v \in vms : v.pid = pid =>
       /\ sockets[JailOf[n]] = pid
       /\ v.limited => JailOf[n] \in cgroups

Gone(pid) == \A v \in vms : v.pid # pid

Knows(c) ==
    /\ ~Started(c) => c.pid = rows[c.name].pid
    /\ Head(c.todo) \in Down => Gone(rows[c.name].pid)
    /\ Started(c) => Reachable(c.pid, c.name)

Watches ==
    \A p \in Procs : watched[p] # 0 =>
       Active(p) /\ Started(cmd[p]) /\ watched[p] = cmd[p].pid

IInv ==
    /\ Types
    /\ OneEach
    /\ PidsAreTrue
    /\ RowPids
    /\ \A n \in Names : Reachable(rows[n].pid, n)
    /\ \A p \in Procs : Active(p) => Knows(cmd[p])
    /\ Watches

-----------------------------------------------------------------------------
LEMMA PlanTypes ==
    /\ Ops = {"deploy", "unfreeze", "resize", "freeze", "destroy"}
    /\ \A op \in Ops : Plan[op] \in Seq(Steps) /\ Len(Plan[op]) \in 4 .. 7
<1>1. Ops = {"deploy", "unfreeze", "resize", "freeze", "destroy"}
  BY DEF Ops, Plan
<1>2. ASSUME NEW op \in Ops PROVE Plan[op] \in Seq(Steps) /\ Len(Plan[op]) \in 4 .. 7
  <2>1. \A i \in DOMAIN Plan[op] : Plan[op][i] \in Steps
    BY DEF Steps
  <2>2. Len(Plan[op]) \in 4 .. 7 /\ DOMAIN Plan[op] = 1 .. Len(Plan[op])
    BY <1>1 DEF Plan
  <2>3. Plan[op] = [i \in 1 .. Len(Plan[op]) |-> Plan[op][i]]
    BY <1>1, <2>2 DEF Plan
  <2> QED
    BY <2>1, <2>2, <2>3
<1> QED
  BY <1>1, <1>2

\* What follows a step in the plans that have it.
LEMMA PlanSteps ==
    ASSUME NEW op \in Ops, NEW i \in 1 .. Len(Plan[op])
    PROVE  /\ Plan[op][i] \in {"clean", "launch", "limit"} => i < Len(Plan[op]) /\ op \in Starts
           /\ Plan[op][i] = "clean" => Plan[op][i + 1] = "launch"
           /\ Plan[op][i] = "launch" => Plan[op][i + 1] = "limit"
           /\ Plan[op][i] = "limit" => Plan[op][i + 1] = "save"
           /\ Plan[op][i] = "save" => i = Len(Plan[op]) /\ op # "destroy"
           /\ Plan[op][i] = "ask" =>
                 i < Len(Plan[op]) /\ Plan[op][i + 1] = "poll" /\ op \in {"resize", "destroy"}
           /\ Plan[op][i] = "ask" /\ op = "destroy" =>
                 i + 2 <= Len(Plan[op]) /\ Plan[op][i + 2] = "kill"
           /\ Plan[op][i] = "poll" =>
                 i < Len(Plan[op]) /\ Plan[op][i + 1] = "kill" /\ op \in {"resize", "destroy"}
           /\ Plan[op][i] = "poll" /\ op = "destroy" =>
                 i + 4 <= Len(Plan[op]) /\ Plan[op][i + 4] = "unrow"
           /\ Plan[op][i] = "kill" =>
                 /\ i < Len(Plan[op])
                 /\ Plan[op][i + 1] \in {"clean", "save", "uncgroup"}
                 /\ Plan[op][i + 1] = "save" => op = "freeze"
           /\ Plan[op][i] = "uncgroup" => i < Len(Plan[op]) /\ Plan[op][i + 1] = "unjail"
           /\ Plan[op][i] = "unjail" => i < Len(Plan[op]) /\ Plan[op][i + 1] = "unrow"
           /\ Plan[op][i] = "unrow" => i = Len(Plan[op]) /\ op = "destroy"
           /\ Plan[op][i] \in {"pause", "create", "resume"} => op = "freeze"
           /\ Plan[op][i] = "pause" =>
                 /\ i + 3 <= Len(Plan[op]) /\ Plan[op][i + 1] = "create"
                 /\ Plan[op][i + 3] = "kill"
           /\ Plan[op][i] = "create" =>
                 /\ i + 2 <= Len(Plan[op]) /\ Plan[op][i + 1] = "resume"
                 /\ Plan[op][i + 2] = "kill"
           /\ Plan[op][i] = "resume" => i < Len(Plan[op]) /\ Plan[op][i + 1] = "kill"
<1>1. CASE op = "deploy" \/ op = "unfreeze"
  <2>1. Plan[op] = <<"clean", "launch", "limit", "save">>
    BY <1>1 DEF Plan
  <2>2. i \in 1 .. 4
    BY <2>1
  <2> QED
    BY <1>1, <2>1, <2>2 DEF Starts
<1>2. CASE op = "resize"
  <2>1. Plan[op] = <<"ask", "poll", "kill", "clean", "launch", "limit", "save">> /\ i \in 1 .. 7
    BY <1>2 DEF Plan
  <2> QED
    BY <1>2, <2>1 DEF Starts
<1>3. CASE op = "freeze"
  <2>1. Plan[op] = <<"pause", "create", "resume", "kill", "save">> /\ i \in 1 .. 5
    BY <1>3 DEF Plan
  <2> QED
    BY <1>3, <2>1 DEF Starts
<1>4. CASE op = "destroy"
  <2>1. Plan[op] = <<"ask", "poll", "kill", "uncgroup", "unjail", "unrow">> /\ i \in 1 .. 6
    BY <1>4 DEF Plan
  <2> QED
    BY <1>4, <2>1 DEF Starts
<1> QED
  BY <1>1, <1>2, <1>3, <1>4, PlanTypes

\* The rest of a plan.
LEMMA RestOfPlan ==
    ASSUME NEW op \in Ops, NEW i \in 1 .. Len(Plan[op])
    PROVE  /\ From(op, i) \in Seq(Steps) /\ From(op, i) # <<>>
           /\ Head(From(op, i)) = Plan[op][i]
           /\ Tail(From(op, i)) = SubSeq(From(op, i), 2, Len(From(op, i)))
           /\ \A k \in Nat \ {0} :
                 /\ i + k <= Len(Plan[op]) =>
                       SubSeq(From(op, i), k + 1, Len(From(op, i))) = From(op, i + k)
                 /\ i + k > Len(Plan[op]) =>
                       SubSeq(From(op, i), k + 1, Len(From(op, i))) = <<>>
<1>1. Plan[op] \in Seq(Steps) /\ Len(Plan[op]) \in Nat
  BY PlanTypes
<1>2. From(op, i) \in Seq(Steps) /\ Len(From(op, i)) = Len(Plan[op]) - i + 1
  BY <1>1, SubSeqProperties DEF From
<1>3. \A j \in 1 .. Len(From(op, i)) : From(op, i)[j] = Plan[op][i + j - 1]
  BY <1>1, SubSeqProperties DEF From
<1>4. From(op, i) # <<>> /\ Head(From(op, i)) = Plan[op][i]
  BY <1>1, <1>2, <1>3
<1>5. Tail(From(op, i)) = SubSeq(From(op, i), 2, Len(From(op, i)))
  BY <1>2, <1>4
<1>6. ASSUME NEW k \in Nat \ {0}, i + k <= Len(Plan[op])
      PROVE  SubSeq(From(op, i), k + 1, Len(From(op, i))) = From(op, i + k)
  <2>1. k + 1 \in 1 .. Len(Plan[op]) - i + 1 /\ Len(From(op, i)) \in 1 .. Len(Plan[op]) - i + 1
    BY <1>1, <1>2, <1>6
  <2>2. SubSeq(SubSeq(Plan[op], i, Len(Plan[op])), k + 1, Len(From(op, i)))
           = SubSeq(Plan[op], i + (k + 1) - 1, i + Len(From(op, i)) - 1)
    BY <1>1, <2>1, SubSeqOfSubSeq
  <2>3. i + (k + 1) - 1 = i + k /\ i + Len(From(op, i)) - 1 = Len(Plan[op])
    BY <1>1, <1>2
  <2> QED
    BY <2>2, <2>3 DEF From
<1>7. ASSUME NEW k \in Nat \ {0}, i + k > Len(Plan[op])
      PROVE  SubSeq(From(op, i), k + 1, Len(From(op, i))) = <<>>
  <2>1. k + 1 > Len(From(op, i))
    BY <1>1, <1>2, <1>7
  <2> QED
    BY <1>1, <1>2, <2>1, SubSeqProperties
<1> QED
  BY <1>2, <1>4, <1>5, <1>6, <1>7

-----------------------------------------------------------------------------
(***************************************************************************)
(* Where a command goes from a step.                                       *)
(***************************************************************************)
Same(c, d) == c.op = d.op /\ c.name = d.name /\ c.pid = d.pid

MovesTo(p, step) ==
    \E c : /\ Positioned(c) /\ Same(c, cmd[p]) /\ Head(c.todo) = step
           /\ cmd' = [cmd EXCEPT ![p] = c]
           /\ UNCHANGED watched

Ends(p) ==
    /\ cmd' = [cmd EXCEPT ![p] = Idle]
    /\ watched' = [watched EXCEPT ![p] = 0]

LEMMA AtStep ==
    ASSUME Types, NEW p \in Procs, NEW step, At(p, step)
    PROVE  /\ Active(p) /\ cmd[p] \in Command /\ Head(cmd[p].todo) = step
           /\ \E i \in 1 .. Len(Plan[cmd[p].op]) :
                 cmd[p].todo = From(cmd[p].op, i) /\ Plan[cmd[p].op][i] = step
<1>1. Active(p)
  BY DEF At, Active, Idle, Killed
<1>2. Positioned(cmd[p]) /\ cmd[p].op \in Ops
  BY <1>1 DEF Types, Positioned, Command
<1>3. PICK i \in 1 .. Len(Plan[cmd[p].op]) : cmd[p].todo = From(cmd[p].op, i)
  BY <1>2 DEF Positioned
<1>4. Plan[cmd[p].op][i] = step
  BY <1>2, <1>3, RestOfPlan DEF At
<1> QED
  BY <1>1, <1>2, <1>3, <1>4 DEF Positioned, At

LEMMA ActiveName ==
    ASSUME Types, NEW p \in Procs
    PROVE  /\ Active(p) => cmd[p].name \in Names /\ cmd[p].op \in Ops /\ cmd[p].pid \in Nat
           /\ ~Active(p) => cmd[p].name = NoName /\ cmd[p].pid = 0
  BY DEF Types, Positioned, Command, Active, Idle, Killed

LEMMA SkipMoves ==
    ASSUME Types, NEW p \in Procs, Active(p), NEW i \in 1 .. Len(Plan[cmd[p].op]),
           cmd[p].todo = From(cmd[p].op, i), NEW k \in Nat \ {0}, Skip(p, k)
    PROVE  /\ i + k <= Len(Plan[cmd[p].op]) => MovesTo(p, Plan[cmd[p].op][i + k])
           /\ i + k > Len(Plan[cmd[p].op]) => Ends(p)
<1> DEFINE op == cmd[p].op
           c == [cmd[p] EXCEPT !.todo = SubSeq(@, k + 1, Len(@))]
<1>1. cmd[p] \in Command /\ op \in Ops /\ Len(Plan[op]) \in Nat
  BY PlanTypes DEF Types, Positioned, Command
<1>2. c = [cmd[p] EXCEPT !.todo = SubSeq(From(op, i), k + 1, Len(From(op, i)))]
  OBVIOUS
<1>3. CASE i + k <= Len(Plan[op])
  <2>0. i + k \in 1 .. Len(Plan[op]) /\ SubSeq(From(op, i), k + 1, Len(From(op, i))) = From(op, i + k)
    BY <1>1, <1>3, RestOfPlan
  <2>1. c = [cmd[p] EXCEPT !.todo = From(op, i + k)] /\ i + k \in 1 .. Len(Plan[op])
    BY <1>2, <2>0
  <2>2. /\ From(op, i + k) \in Seq(Steps) /\ From(op, i + k) # <<>>
        /\ Head(From(op, i + k)) = Plan[op][i + k]
    BY <1>1, <2>1, RestOfPlan
  <2>3. c \in Command /\ c.todo = From(op, i + k) /\ Same(c, cmd[p])
    BY <1>1, <2>1, <2>2 DEF Command, Same
  <2>4. Positioned(c)
    BY <1>1, <2>1, <2>3 DEF Positioned, Same
  <2>5. cmd' = [cmd EXCEPT ![p] = c] /\ UNCHANGED watched
    BY <2>2, <2>3 DEF Skip, Continue
  <2> HIDE DEF c
  <2>6. MovesTo(p, Plan[op][i + k])
    BY <2>2, <2>3, <2>4, <2>5 DEF MovesTo
  <2> QED
    BY <1>1, <1>3, <2>6
<1>4. CASE i + k > Len(Plan[op])
  <2>0. SubSeq(From(op, i), k + 1, Len(From(op, i))) = <<>>
    BY <1>1, <1>4, RestOfPlan
  <2>1. c.todo = <<>>
    BY <1>1, <1>2, <2>0 DEF Command
  <2> QED
    BY <1>1, <1>4, <2>1 DEF Skip, Continue, Ends
<1> QED
  BY <1>1, <1>3, <1>4

LEMMA AdvanceIsSkip ==
    ASSUME Types, NEW p \in Procs, Active(p), Advance(p)
    PROVE  Skip(p, 1)
<1>1. PICK i \in 1 .. Len(Plan[cmd[p].op]) : cmd[p].todo = From(cmd[p].op, i)
  BY DEF Types, Positioned
<1>2. cmd[p].op \in Ops
  BY ActiveName
<1>3. Tail(cmd[p].todo) = SubSeq(cmd[p].todo, 1 + 1, Len(cmd[p].todo))
  BY <1>1, <1>2, RestOfPlan
<1> QED
  BY <1>3 DEF Advance, Skip

\* The steps that can follow.
LEMMA Onward ==
    ASSUME Types, NEW p \in Procs, NEW step, At(p, step)
    PROVE  /\ Advance(p) =>
                 /\ step = "clean" => MovesTo(p, "launch")
                 /\ step = "limit" => MovesTo(p, "save")
                 /\ step \in {"save", "unrow"} => Ends(p)
                 /\ step = "ask" => MovesTo(p, "poll")
                 /\ step \in {"poll", "resume"} => MovesTo(p, "kill")
                 /\ step = "kill" =>
                       \/ MovesTo(p, "clean")
                       \/ MovesTo(p, "save") /\ cmd[p].op = "freeze"
                       \/ MovesTo(p, "uncgroup")
                 /\ step = "uncgroup" => MovesTo(p, "unjail")
                 /\ step = "unjail" => MovesTo(p, "unrow")
                 /\ step = "pause" => MovesTo(p, "create")
                 /\ step = "create" => MovesTo(p, "resume")
           /\ step = "ask" /\ cmd[p].op = "destroy" /\ Skip(p, 2) => MovesTo(p, "kill")
           /\ step = "poll" /\ cmd[p].op = "destroy" /\ Skip(p, 4) => MovesTo(p, "unrow")
           /\ step = "pause" /\ Skip(p, 3) => MovesTo(p, "kill")
           /\ step = "create" /\ Skip(p, 2) => MovesTo(p, "kill")
           /\ step \in {"clean", "launch", "limit"} => cmd[p].op \in Starts
           /\ step = "save" => cmd[p].op # "destroy"
           /\ step = "unrow" => cmd[p].op = "destroy"
           /\ step \in {"ask", "poll"} => cmd[p].op \in {"resize", "destroy"}
<1>1. Active(p) /\ cmd[p].op \in Ops
  BY AtStep DEF Command
<1>2. PICK i \in 1 .. Len(Plan[cmd[p].op]) :
         cmd[p].todo = From(cmd[p].op, i) /\ Plan[cmd[p].op][i] = step
  BY AtStep
<1> DEFINE op == cmd[p].op
<1>3. \A k \in Nat \ {0} : Skip(p, k) /\ i + k <= Len(Plan[op]) => MovesTo(p, Plan[op][i + k])
  BY <1>1, <1>2, SkipMoves
<1>4. Len(Plan[op]) \in Nat /\ i \in Nat /\ i + 1 \in Nat
  BY <1>1, PlanTypes
<1>5. Advance(p) /\ i < Len(Plan[op]) => MovesTo(p, Plan[op][i + 1])
  <2>1. Advance(p) => Skip(p, 1)
    BY <1>1, AdvanceIsSkip
  <2> QED
    BY <1>3, <1>4, <2>1
<1>6. Advance(p) /\ i = Len(Plan[op]) => Ends(p)
  <2>1. Advance(p) => Skip(p, 1)
    BY <1>1, AdvanceIsSkip
  <2> QED
    BY <1>1, <1>2, <1>4, <2>1, SkipMoves
<1> HIDE DEF op
<1>7. op \in Ops /\ i \in 1 .. Len(Plan[op]) /\ Plan[op][i] = step
  BY <1>1, <1>2 DEF op
<1>8. /\ step = "ask" /\ op = "destroy" /\ Skip(p, 2) => MovesTo(p, "kill")
      /\ step = "poll" /\ op = "destroy" /\ Skip(p, 4) => MovesTo(p, "unrow")
      /\ step = "pause" /\ Skip(p, 3) => MovesTo(p, "kill")
      /\ step = "create" /\ Skip(p, 2) => MovesTo(p, "kill")
  BY <1>3, <1>7, PlanSteps, SMTT(30)
<1>9. ASSUME Advance(p)
      PROVE  /\ step = "clean" => MovesTo(p, "launch")
             /\ step = "limit" => MovesTo(p, "save")
             /\ step \in {"save", "unrow"} => Ends(p)
             /\ step = "ask" => MovesTo(p, "poll")
             /\ step \in {"poll", "resume"} => MovesTo(p, "kill")
             /\ step = "uncgroup" => MovesTo(p, "unjail")
             /\ step = "unjail" => MovesTo(p, "unrow")
             /\ step = "pause" => MovesTo(p, "create")
             /\ step = "create" => MovesTo(p, "resume")
  <2>1. /\ step \in {"save", "unrow"} => i = Len(Plan[op])
        /\ step \in {"clean", "limit", "ask", "poll", "resume", "uncgroup", "unjail", "pause",
                     "create"} => i < Len(Plan[op])
    BY <1>4, <1>7, PlanSteps
  <2> QED
    BY <1>5, <1>6, <1>7, <1>9, <2>1, PlanSteps
<1>10. ASSUME Advance(p), step = "kill"
      PROVE  \/ MovesTo(p, "clean")
             \/ MovesTo(p, "save") /\ op = "freeze"
             \/ MovesTo(p, "uncgroup")
  <2>1. /\ i < Len(Plan[op]) /\ Plan[op][i + 1] \in {"clean", "save", "uncgroup"}
        /\ Plan[op][i + 1] = "save" => op = "freeze"
    BY <1>7, <1>10, PlanSteps
  <2> QED
    BY <1>5, <1>10, <2>1
<1>11. /\ step \in {"clean", "launch", "limit"} => op \in Starts
       /\ step = "save" => op # "destroy"
       /\ step = "unrow" => op = "destroy"
       /\ step \in {"ask", "poll"} => op \in {"resize", "destroy"}
  BY <1>7, PlanSteps
<1> QED
  BY <1>8, <1>9, <1>10, <1>11 DEF op

-----------------------------------------------------------------------------
(***************************************************************************)
(* What a step leaves alone.                                               *)
(***************************************************************************)

\* VMs are the old ones, and only the jail of n changes.
OnlyOf(n) ==
    /\ vms' \subseteq VM
    /\ \A v, w \in vms' : v.pid = w.pid => v = w
    /\ \A v \in vms' : \E u \in vms :
          u.pid = v.pid /\ u.name = v.name /\ (v.limited => u.limited \/ v.name = n)
    /\ sockets' \in [Jails -> Nat] /\ cgroups' \subseteq Jails
    /\ \A j \in Jails : sockets'[j] \in {sockets[j], 0}
    /\ \A j \in Jails \ {JailOf[n]} : sockets'[j] = sockets[j] /\ (j \in cgroups => j \in cgroups')

LEMMA ReachableStays ==
    ASSUME Injective, NEW m \in Names, NEW n \in Names \ {m}, OnlyOf(m), NEW pid,
           Reachable(pid, n), \A v \in vms : v.pid = pid => v.name = n
    PROVE  Reachable(pid, n)'
<1>1. JailOf[n] \in Jails \ {JailOf[m]}
  BY JailAssumption DEF Injective
<1>2. ASSUME NEW v \in vms', v.pid = pid
      PROVE  sockets'[JailOf[n]] = pid /\ (v.limited => JailOf[n] \in cgroups')
  <2>1. PICK u \in vms : u.pid = v.pid /\ u.name = v.name /\ (v.limited => u.limited \/ v.name = m)
    BY DEF OnlyOf
  <2>2. u.name = n /\ sockets[JailOf[n]] = pid /\ (u.limited => JailOf[n] \in cgroups)
    BY <1>2, <2>1 DEF Reachable
  <2> QED
    BY <1>1, <2>1, <2>2 DEF OnlyOf
<1> QED
  BY <1>2 DEF Reachable

LEMMA GoneStays ==
    ASSUME NEW n, OnlyOf(n), NEW pid, Gone(pid)
    PROVE  Gone(pid)'
  BY DEF OnlyOf, Gone

\* Other projects and their commands.
LEMMA OthersStay ==
    ASSUME IInv, Injective, NEW p \in Procs, Active(p), OnlyOf(cmd[p].name),
           \A n \in Names \ {cmd[p].name} : rows'[n] = rows[n],
           \A q \in Procs \ {p} : cmd'[q] = cmd[q] /\ watched'[q] = watched[q]
    PROVE  /\ \A n \in Names \ {cmd[p].name} : Reachable(rows[n].pid, n)'
           /\ \A q \in Procs \ {p} : Active(q)' => Knows(cmd[q])'
           /\ \A q \in Procs \ {p} : watched'[q] # 0 =>
                 Active(q)' /\ Started(cmd'[q]) /\ watched'[q] = cmd'[q].pid
<1> DEFINE m == cmd[p].name
<1>1. m \in Names /\ Types
  BY ActiveName DEF IInv
<1>2. ASSUME NEW n \in Names \ {m} PROVE Reachable(rows[n].pid, n)'
  <2>1. Reachable(rows[n].pid, n) /\ \A v \in vms : v.pid = rows[n].pid => v.name = n
    BY DEF IInv, PidsAreTrue
  <2>2. Reachable(rows[n].pid, n) /\ (\A v \in vms : v.pid = rows[n].pid => v.name = n) =>
           \A pid : pid = rows[n].pid => Reachable(pid, n)'
    BY <1>1, ReachableStays
  <2>3. \A pid : pid = rows[n].pid => Reachable(pid, n)'
    BY <2>1, <2>2
  <2> QED
    BY <2>3 DEF Reachable
<1>3. ASSUME NEW q \in Procs \ {p}, Active(q)' PROVE Knows(cmd[q])'
  <2>1. Active(q) /\ cmd'[q] = cmd[q]
    BY <1>3 DEF Active
  <2>2. cmd[q].name \in Names \ {m} /\ Knows(cmd[q])
    BY <1>1, <2>1, ActiveName DEF IInv, OneEach
  <2>3. \A v \in vms : v.pid = cmd[q].pid => v.name = cmd[q].name
    BY DEF IInv, PidsAreTrue
  <2>4. rows'[cmd[q].name] = rows[cmd[q].name]
    BY <2>2
  <2>5. Started(cmd[q]) => Reachable(cmd[q].pid, cmd[q].name)'
    <3>1. \A pid, n : pid = cmd[q].pid /\ n = cmd[q].name /\ Reachable(pid, n) => Reachable(pid, n)'
      BY <1>1, <2>2, <2>3, ReachableStays
    <3>2. Started(cmd[q]) =>
             \A pid, n : pid = cmd[q].pid /\ n = cmd[q].name => Reachable(pid, n)'
      BY <2>2, <3>1 DEF Knows
    <3> QED
      BY <2>1, <3>2 DEF Reachable
  <2>6. Gone(rows[cmd[q].name].pid) => Gone(rows[cmd[q].name].pid)'
    <3>1. \A pid : pid = rows[cmd[q].name].pid /\ Gone(pid) => Gone(pid)'
      BY GoneStays
    <3> QED
      BY <2>1, <2>4, <3>1 DEF Gone
  <2> QED
    BY <2>1, <2>2, <2>4, <2>5, <2>6 DEF Knows, Started, Reachable, Gone
<1>4. ASSUME NEW q \in Procs \ {p}, watched'[q] # 0
      PROVE  Active(q)' /\ Started(cmd'[q]) /\ watched'[q] = cmd'[q].pid
  BY <1>4 DEF IInv, Watches, Active
<1> QED
  BY <1>2, <1>3, <1>4

\* PIDs are only forgotten, or noted again for the same project.
LEMMA PidsStayTrue ==
    ASSUME Types, PidsAreTrue, NEW m, OnlyOf(m),
           \A n \in Names : rows'[n].pid \in {rows[n].pid, 0}
                               \/ \E p \in Procs : cmd[p].name = n /\ rows'[n].pid = cmd[p].pid,
           \A p \in Procs : cmd'[p].pid # 0 =>
              cmd'[p].pid = cmd[p].pid /\ cmd'[p].name = cmd[p].name
    PROVE  PidsAreTrue'
<1> SUFFICES ASSUME NEW v \in vms'
             PROVE  /\ \A n \in Names : rows'[n].pid = v.pid => v.name = n
                    /\ \A p \in Procs : cmd'[p].pid = v.pid => v.name = cmd'[p].name
                    /\ \A j \in Jails : sockets'[j] = v.pid => JailOf[v.name] = j
  BY DEF PidsAreTrue
<1>1. PICK u \in vms : u.pid = v.pid /\ u.name = v.name
  BY DEF OnlyOf
<1>2. v.pid # 0
  BY <1>1 DEF Types
<1>3. /\ \A n \in Names : rows[n].pid = v.pid => v.name = n
      /\ \A p \in Procs : cmd[p].pid = v.pid => v.name = cmd[p].name
      /\ \A j \in Jails : sockets[j] = v.pid => JailOf[v.name] = j
  BY <1>1 DEF PidsAreTrue
<1>4. \A j \in Jails : sockets'[j] = v.pid => JailOf[v.name] = j
  BY <1>2, <1>3 DEF OnlyOf
<1>5. \A p \in Procs : cmd'[p].pid = v.pid => v.name = cmd'[p].name
  BY <1>2, <1>3
<1>6. \A n \in Names : rows'[n].pid = v.pid => v.name = n
  BY <1>2, <1>3
<1> QED
  BY <1>4, <1>5, <1>6


\* A command that goes on to another step, or comes to its end.
LEMMA CommandStep ==
    ASSUME IInv, Injective, NEW p \in Procs, Active(p), NEW m, m = cmd[p].name, OnlyOf(m),
           UNCHANGED rows,
           Reachable(rows[m].pid, m)',
           NEW step, MovesTo(p, step) \/ Ends(p),
           MovesTo(p, step) =>
              /\ step = "save" \/ ~Started(cmd[p])
              /\ step \in {"limit", "save"} /\ cmd[p].op \in Starts =>
                    Started(cmd[p]) /\ Reachable(cmd[p].pid, m)'
              /\ step \in Down => Gone(rows[m].pid)'
    PROVE  IInv'
<1>0. Types /\ m \in Names /\ cmd[p].op \in Ops /\ cmd[p].pid \in Nat
  BY ActiveName DEF IInv
<1>1. /\ \A q \in Procs \ {p} : cmd'[q] = cmd[q] /\ watched'[q] = watched[q]
      /\ \/ /\ cmd'[p] = Idle /\ watched'[p] = 0
         \/ /\ MovesTo(p, step)
            /\ Positioned(cmd'[p]) /\ Same(cmd'[p], cmd[p]) /\ Head(cmd'[p].todo) = step
            /\ watched'[p] = watched[p]
      /\ cmd' \in [Procs -> {Idle, Killed} \cup Command]
      /\ watched' \in [Procs -> Nat]
  <2>0. cmd \in [Procs -> {Idle, Killed} \cup Command] /\ watched \in [Procs -> Nat]
    BY <1>0 DEF Types, TypeOK
  <2>1. CASE Ends(p)
    BY <2>0, <2>1 DEF Ends
  <2>2. CASE MovesTo(p, step)
    BY <2>0, <2>2 DEF MovesTo, Positioned
  <2> QED
    BY <2>1, <2>2
<1>2. Idle.pid = 0 /\ Idle.name = NoName /\ Idle \notin Command /\ Killed \notin Command
  BY DEF Idle, Killed, Command, Ops, Plan
<1>3. Types'
  <2>1. TypeOK'
    BY <1>0, <1>1 DEF Types, TypeOK, OnlyOf
  <2>2. \A v \in vms' : v.pid # 0
    BY <1>0 DEF Types, OnlyOf
  <2>3. \A q \in Procs : Active(q)' => Positioned(cmd'[q])
    BY <1>0, <1>1 DEF Types, Active
  <2> QED
    BY <2>1, <2>2, <2>3 DEF Types, Positioned
<1>4. OneEach'
  <2>1. \A q \in Procs : Active(q)' => Active(q) /\ cmd'[q].name = cmd[q].name
    BY <1>1 DEF Active, Same
  <2> QED
    BY <2>1 DEF IInv, OneEach
<1>5. PidsAreTrue'
  <2>1. \A q \in Procs : cmd'[q].pid # 0 => cmd'[q].pid = cmd[q].pid /\ cmd'[q].name = cmd[q].name
    BY <1>1, <1>2 DEF Same
  <2>2. \A n \in Names : rows'[n].pid = rows[n].pid
    OBVIOUS
  <2> QED
    BY <1>0, <2>1, <2>2, PidsStayTrue DEF IInv
<1>6. /\ \A n \in Names \ {m} : Reachable(rows[n].pid, n)'
      /\ \A q \in Procs \ {p} : Active(q)' => Knows(cmd[q])'
      /\ \A q \in Procs \ {p} : watched'[q] # 0 =>
            Active(q)' /\ Started(cmd'[q]) /\ watched'[q] = cmd'[q].pid
  BY <1>1, OthersStay
<1>7. Active(p)' => Knows(cmd[p])'
  <2> SUFFICES ASSUME Active(p)' PROVE Knows(cmd[p])'
    OBVIOUS
  <2>1. MovesTo(p, step) /\ Same(cmd'[p], cmd[p]) /\ Head(cmd'[p].todo) = step
    BY <1>1 DEF Active
  <2>2. Knows(cmd[p])
    BY DEF IInv
  <2>3. ~Started(cmd'[p]) => cmd'[p].pid = rows'[cmd'[p].name].pid
    BY <2>1, <2>2 DEF Knows, Started, Same
  <2>4. Head(cmd'[p].todo) \in Down => Gone(rows[m].pid)'
    BY <2>1 DEF Same, Gone
  <2>5. Started(cmd'[p]) => Reachable(cmd[p].pid, m)'
    BY <2>1 DEF Started, Same, Reachable
  <2> QED
    BY <2>1, <2>3, <2>4, <2>5 DEF Knows, Same
<1>8. watched'[p] # 0 => Active(p)' /\ Started(cmd'[p]) /\ watched'[p] = cmd'[p].pid
  <2> SUFFICES ASSUME watched'[p] # 0
               PROVE  Active(p)' /\ Started(cmd'[p]) /\ watched'[p] = cmd'[p].pid
    OBVIOUS
  <2>1. /\ MovesTo(p, step) /\ Positioned(cmd'[p]) /\ Same(cmd'[p], cmd[p])
        /\ Head(cmd'[p].todo) = step /\ watched'[p] = watched[p]
    BY <1>1
  <2>2. Started(cmd[p]) /\ watched[p] = cmd[p].pid
    BY <2>1 DEF IInv, Watches
  <2>3. step = "save"
    BY <2>1, <2>2
  <2> QED
    BY <1>2, <2>1, <2>2, <2>3 DEF Started, Same, Active, Positioned
<1>9. RowPids'
  BY DEF IInv, RowPids
<1> QED
  BY <1>0, <1>3, <1>4, <1>5, <1>6, <1>7, <1>8, <1>9 DEF IInv, Watches

\* A jail is cleared.
LEMMA JailCleared ==
    ASSUME Types, NEW m \in Names, UNCHANGED vms,
           sockets' \in {sockets, [sockets EXCEPT ![JailOf[m]] = 0]},
           cgroups' \subseteq Jails, cgroups \ {JailOf[m]} \subseteq cgroups'
    PROVE  OnlyOf(m)
  BY JailAssumption DEF Types, TypeOK, OnlyOf

\* VMs end, or one of them is asked or paused.
LEMMA VMsChange ==
    ASSUME Types, NEW m, UNCHANGED <<sockets, cgroups>>,
           \/ vms' \subseteq vms
           \/ \E v \in vms : \E w \in VM :
                 Change(v, w) /\ w.pid = v.pid /\ w.name = v.name /\ w.limited = v.limited
    PROVE  OnlyOf(m) /\ \A pid, n : Reachable(pid, n) => Reachable(pid, n)'
<1>1. CASE vms' \subseteq vms
  BY <1>1 DEF Types, TypeOK, OnlyOf, Reachable
<1>2. ASSUME NEW v \in vms, NEW w \in VM,
             Change(v, w), w.pid = v.pid, w.name = v.name, w.limited = v.limited
      PROVE  OnlyOf(m) /\ \A pid, n : Reachable(pid, n) => Reachable(pid, n)'
  <2>1. vms' = (vms \ {v}) \cup {w}
    BY <1>2 DEF Change
  <2>2. vms' \subseteq VM /\ \A x, y \in vms' : x.pid = y.pid => x = y
    BY <1>2, <2>1 DEF Types, TypeOK
  <2>3. \A x \in vms' : \E u \in vms : u.pid = x.pid /\ u.name = x.name /\ u.limited = x.limited
    BY <1>2, <2>1
  <2> QED
    BY <2>2, <2>3 DEF Types, TypeOK, OnlyOf, Reachable
<1> QED
  BY <1>1, <1>2

LEMMA SameVMs ==
    ASSUME Types, NEW m, UNCHANGED <<vms, sockets, cgroups>>
    PROVE  OnlyOf(m) /\ \A pid, n : Reachable(pid, n) => Reachable(pid, n)'
  BY VMsChange

\* The record of a VM, changed in a field that matters to nobody here.
LEMMA VMRecords ==
    ASSUME Types, NEW v \in vms, NEW b \in BOOLEAN
    PROVE  /\ [v EXCEPT !.asked = b] \in VM /\ [v EXCEPT !.asked = b].pid = v.pid
           /\ [v EXCEPT !.asked = b].name = v.name /\ [v EXCEPT !.asked = b].limited = v.limited
           /\ [v EXCEPT !.paused = b] \in VM /\ [v EXCEPT !.paused = b].pid = v.pid
           /\ [v EXCEPT !.paused = b].name = v.name /\ [v EXCEPT !.paused = b].limited = v.limited
<1>1. v \in VM
  BY DEF Types, TypeOK
<1> QED
  BY <1>1 DEF VM

\* The facts about a command at a step, as its actions need them.
LEMMA CommandAt ==
    ASSUME IInv, NEW p \in Procs, NEW step, At(p, step)
    PROVE  /\ Types /\ Active(p) /\ Knows(cmd[p]) /\ Head(cmd[p].todo) = step
           /\ cmd[p].name \in Names /\ cmd[p].op \in Ops /\ cmd[p].pid \in Nat
           /\ Jail(p) = JailOf[cmd[p].name]
           /\ Reachable(rows[cmd[p].name].pid, cmd[p].name)
  BY AtStep, ActiveName DEF IInv, Jail

\* The directory is cleared when the row leads to no VM.
LEMMA CleanJailInv ==
    ASSUME IInv, Injective, NEW p \in Procs, CleanJail(p)
    PROVE  IInv'
<1>1. At(p, "clean") /\ Advance(p) /\ UNCHANGED <<rows, vms, cgroups>>
  BY DEF CleanJail
<1>2. PICK m \in Names : m = cmd[p].name
  BY <1>1, CommandAt
<1>3. /\ Types /\ Active(p) /\ Jail(p) = JailOf[m] /\ Gone(rows[m].pid) /\ ~Started(cmd[p])
  BY <1>1, <1>2, CommandAt DEF Knows, Down, Started
<1>4. OnlyOf(m)
  BY <1>1, <1>3, JailCleared DEF CleanJail, Types, TypeOK
<1>5. MovesTo(p, "launch")
  BY <1>1, <1>3, Onward
<1>6. Gone(rows[m].pid)' /\ Reachable(rows[m].pid, m)'
  BY <1>1, <1>3 DEF Gone, Reachable
<1> QED
  BY <1>1, <1>2, <1>3, <1>4, <1>5, <1>6, CommandStep

\* The VM that the command has started goes into its cgroup.
LEMMA LimitInv ==
    ASSUME IInv, Injective, NEW p \in Procs, Limit(p)
    PROVE  IInv'
<1>1. At(p, "limit") /\ Advance(p) /\ UNCHANGED <<rows, sockets>>
  BY DEF Limit
<1>2. PICK m \in Names : m = cmd[p].name
  BY <1>1, CommandAt
<1>3. /\ Types /\ Active(p) /\ Jail(p) = JailOf[m] /\ JailOf[m] \in Jails
      /\ Head(cmd[p].todo) = "limit" /\ Knows(cmd[p])
  BY <1>1, <1>2, CommandAt, JailAssumption
<1>4. Started(cmd[p])
  BY <1>1, <1>3, Onward DEF Started
<1>5. Gone(rows[m].pid) /\ Reachable(cmd[p].pid, m)
  BY <1>2, <1>3, <1>4 DEF Knows, Down
<1>6. cgroups' \in {cgroups, cgroups \cup {JailOf[m]}}
  BY <1>3 DEF Limit
<1>7. /\ OnlyOf(m) /\ Gone(rows[m].pid)'
      /\ \A v \in vms' : v.pid = cmd[p].pid =>
            sockets'[JailOf[m]] = cmd[p].pid /\ (v.limited => JailOf[m] \in cgroups')
  <2> DEFINE Lim(v) == IF v.pid = cmd[p].pid THEN [v EXCEPT !.limited = TRUE] ELSE v
  <2>1. CASE vms' = {Lim(v) : v \in vms} /\ cgroups' = cgroups \cup {JailOf[m]}
    <3>1. \A v \in vms : v \in VM /\ (v.pid = cmd[p].pid => v.name = m)
      BY <1>2, <1>3 DEF Types, TypeOK, IInv, PidsAreTrue
    <3>2. \A v \in vms : /\ Lim(v) \in VM /\ Lim(v).pid = v.pid /\ Lim(v).name = v.name
                         /\ Lim(v).limited => v.limited \/ v.pid = cmd[p].pid
      BY <3>1 DEF VM
    <3> HIDE DEF Lim
    <3>3. \A v, w \in vms' : v.pid = w.pid => v = w
      BY <1>3, <2>1, <3>2 DEF Types, TypeOK
    <3>4. \A v \in vms' : \E u \in vms :
             u.pid = v.pid /\ u.name = v.name /\ (v.limited => u.limited \/ v.name = m)
      BY <2>1, <3>1, <3>2
    <3>5. OnlyOf(m)
      BY <1>1, <1>3, <2>1, <3>2, <3>3, <3>4 DEF Types, TypeOK, OnlyOf
    <3> QED
      BY <1>1, <1>5, <2>1, <3>2, <3>5 DEF Gone, Reachable
  <2>2. CASE UNCHANGED vms
    <3>1. OnlyOf(m)
      BY <1>1, <1>3, <1>6, <2>2, JailCleared DEF Types, TypeOK
    <3> QED
      BY <1>1, <1>5, <1>6, <2>2, <3>1 DEF Gone, Reachable
  <2> QED
    BY <1>3, <2>1, <2>2 DEF Limit
<1>8. MovesTo(p, "save")
  BY <1>1, <1>3, Onward
<1>9. Reachable(cmd[p].pid, m)'
  BY <1>7, <1>8 DEF Reachable, MovesTo, Same, Types, TypeOK
<1>10. Reachable(rows[m].pid, m)'
  BY <1>7 DEF Gone, Reachable
<1> QED
  BY <1>1, <1>2, <1>3, <1>4, <1>7, <1>8, <1>9, <1>10, CommandStep

\* The steps of stopping, up to the SIGKILL.
LEMMA AskPollInv ==
    ASSUME IInv, Injective, NEW p \in Procs, Ask(p) \/ Poll(p)
    PROVE  IInv'
<1>1. PICK step \in {"ask", "poll"} : At(p, step)
  BY DEF Ask, Poll
<1>2. PICK m \in Names : m = cmd[p].name
  BY <1>1, CommandAt
<1>3. /\ Types /\ Active(p) /\ Head(cmd[p].todo) = step /\ Knows(cmd[p])
      /\ cmd[p].op \in {"resize", "destroy"} /\ Reachable(rows[m].pid, m)
  BY <1>1, <1>2, CommandAt, Onward
<1>4. ~Started(cmd[p]) /\ cmd[p].pid = rows[m].pid
  BY <1>2, <1>3 DEF Started, Knows
<1>5. UNCHANGED <<rows, sockets, cgroups>>
  BY DEF Ask, Poll
<1>6. OnlyOf(m) /\ \A pid, n : Reachable(pid, n) => Reachable(pid, n)'
  <2>1. CASE UNCHANGED vms
    BY <1>3, <1>5, <2>1, SameVMs
  <2>2. CASE \E v \in Listening(Jail(p)) : Change(v, [v EXCEPT !.asked = TRUE])
    BY <1>3, <1>5, <2>2, VMsChange, VMRecords DEF Listening
  <2> QED
    BY <2>1, <2>2 DEF Ask, Poll
<1>7. Reachable(rows[m].pid, m)'
  <2>1. \A pid : pid = rows[m].pid => Reachable(pid, m)'
    BY <1>3, <1>6
  <2> QED
    BY <1>5, <2>1 DEF Reachable
<1>8. \/ MovesTo(p, "poll") \/ MovesTo(p, "kill")
      \/ MovesTo(p, "unrow") /\ UNCHANGED vms /\ ~Runs(cmd[p].pid)
  BY <1>3, Onward DEF Ask, Poll
<1>9. MovesTo(p, "unrow") /\ UNCHANGED vms /\ ~Runs(cmd[p].pid) => Gone(rows[m].pid)'
  BY <1>4, <1>5 DEF Runs, Gone
<1>10. CASE MovesTo(p, "poll") \/ MovesTo(p, "kill")
  BY <1>2, <1>3, <1>4, <1>5, <1>6, <1>7, <1>10, CommandStep DEF Down
<1>11. CASE MovesTo(p, "unrow") /\ UNCHANGED vms /\ ~Runs(cmd[p].pid)
  BY <1>2, <1>3, <1>4, <1>5, <1>6, <1>7, <1>9, <1>11, CommandStep
<1> QED
  BY <1>8, <1>10, <1>11

\* SIGKILL goes to the VM of the row, and to no other.
LEMMA KillInv ==
    ASSUME IInv, Injective, NEW p \in Procs, Kill(p)
    PROVE  IInv'
<1>1. At(p, "kill") /\ Advance(p) /\ UNCHANGED <<rows, sockets, cgroups>>
  BY DEF Kill
<1>2. PICK m \in Names : m = cmd[p].name
  BY <1>1, CommandAt
<1>3. Types /\ Active(p) /\ Head(cmd[p].todo) = "kill" /\ Knows(cmd[p])
  BY <1>1, CommandAt
<1>4. ~Started(cmd[p]) /\ cmd[p].pid = rows[m].pid
  BY <1>2, <1>3 DEF Started, Knows
<1>5. vms' \subseteq vms /\ \A v \in vms' : v.pid # rows[m].pid
  BY <1>4 DEF Kill
<1>6. OnlyOf(m)
  BY <1>1, <1>3, <1>5, VMsChange
<1>7. Gone(rows[m].pid)' /\ Reachable(rows[m].pid, m)'
  BY <1>1, <1>5 DEF Gone, Reachable
<1>8. \/ MovesTo(p, "clean") \/ MovesTo(p, "uncgroup")
      \/ MovesTo(p, "save") /\ cmd[p].op = "freeze"
  BY <1>1, <1>3, Onward
<1>9. "freeze" \notin Starts
  BY DEF Starts
<1>10. CASE MovesTo(p, "clean") \/ MovesTo(p, "uncgroup")
  BY <1>1, <1>2, <1>3, <1>4, <1>6, <1>7, <1>10, CommandStep
<1>11. CASE MovesTo(p, "save") /\ cmd[p].op = "freeze"
  BY <1>1, <1>2, <1>3, <1>4, <1>6, <1>7, <1>9, <1>11, CommandStep
<1> QED
  BY <1>8, <1>10, <1>11

\* destroy removes cgroup and directory of a VM that is gone.
LEMMA RemoveInv ==
    ASSUME IInv, Injective, NEW p \in Procs, RemoveCgroup(p) \/ RemoveJail(p)
    PROVE  IInv'
<1>1. PICK step \in {"uncgroup", "unjail"} : At(p, step)
  BY DEF RemoveCgroup, RemoveJail
<1>2. PICK m \in Names : m = cmd[p].name
  BY <1>1, CommandAt
<1>3. /\ Types /\ Active(p) /\ Jail(p) = JailOf[m] /\ Gone(rows[m].pid) /\ ~Started(cmd[p])
  BY <1>1, <1>2, CommandAt DEF Knows, Down, Started
<1>4. UNCHANGED <<rows, vms>>
  BY DEF RemoveCgroup, RemoveJail
<1>5. OnlyOf(m)
  <2>1. cgroups \subseteq Jails
    BY <1>3 DEF Types, TypeOK
  <2> QED
    BY <1>3, <1>4, <2>1, JailCleared DEF RemoveCgroup, RemoveJail, CgroupsWithout
<1>6. MovesTo(p, "unjail") \/ MovesTo(p, "unrow")
  BY <1>3, Onward DEF RemoveCgroup, RemoveJail
<1>7. Gone(rows[m].pid)' /\ Reachable(rows[m].pid, m)'
  BY <1>3, <1>4 DEF Gone, Reachable
<1> QED
  BY <1>2, <1>3, <1>4, <1>5, <1>6, <1>7, CommandStep

\* A snapshot, taken or not, leaves the VM where it is.
LEMMA SnapshotInv ==
    ASSUME IInv, Injective, NEW p \in Procs, TakeSnapshot(p)
    PROVE  IInv'
<1>1. PICK step \in {"pause", "create", "resume"} : At(p, step)
  BY DEF TakeSnapshot, Pause, CreateSnapshot, Resume
<1>2. PICK m \in Names : m = cmd[p].name
  BY <1>1, CommandAt
<1>3. /\ Types /\ Active(p) /\ ~Started(cmd[p]) /\ Reachable(rows[m].pid, m)
  BY <1>1, <1>2, CommandAt DEF Started
<1>4. UNCHANGED <<rows, sockets, cgroups>>
  BY DEF TakeSnapshot, Pause, CreateSnapshot, Resume
<1>5. OnlyOf(m) /\ \A pid, n : Reachable(pid, n) => Reachable(pid, n)'
  <2>1. CASE UNCHANGED vms
    BY <1>3, <1>4, <2>1, SameVMs
  <2>2. CASE \E v \in Listening(Jail(p)) : \E b \in BOOLEAN : Change(v, [v EXCEPT !.paused = b])
    <3>1. PICK v \in vms, b \in BOOLEAN : Change(v, [v EXCEPT !.paused = b])
      BY <2>2 DEF Listening
    <3>2. PICK w : w = [v EXCEPT !.paused = b]
      OBVIOUS
    <3>3. w \in VM /\ w.pid = v.pid /\ w.name = v.name /\ w.limited = v.limited
      BY <1>3, <3>2, VMRecords
    <3> QED
      BY <1>3, <1>4, <3>1, <3>2, <3>3, VMsChange
  <2> QED
    BY <2>1, <2>2 DEF TakeSnapshot, Pause, CreateSnapshot, Resume
<1>6. Reachable(rows[m].pid, m)'
  <2>1. \A pid : pid = rows[m].pid => Reachable(pid, m)'
    BY <1>3, <1>5
  <2> QED
    BY <1>4, <2>1 DEF Reachable
<1>7. MovesTo(p, "create") \/ MovesTo(p, "resume") \/ MovesTo(p, "kill")
  BY <1>3, Onward DEF TakeSnapshot, Pause, CreateSnapshot, Resume
<1> QED
  BY <1>2, <1>3, <1>4, <1>5, <1>6, <1>7, CommandStep DEF Down

\* A command comes to its end, or is killed, and may write its row before.
LEMMA EndStep ==
    ASSUME IInv, Injective, NEW p \in Procs, Active(p), NEW m \in Names, m = cmd[p].name,
           NEW c \in {Idle, Killed}, cmd' = [cmd EXCEPT ![p] = c],
           watched' = [watched EXCEPT ![p] = 0],
           UNCHANGED <<vms, sockets, cgroups>>,
           NEW r \in Row, rows' = [rows EXCEPT ![m] = r],
           r.pid \in {0, cmd[p].pid, rows[m].pid}, r.status # "running" => r.pid = 0,
           r.pid # 0 => Reachable(r.pid, m)
    PROVE  IInv'
<1>0. Types /\ cmd[p].pid \in Nat
  BY ActiveName DEF IInv
<1>1. /\ OnlyOf(m) /\ \A pid, n : Reachable(pid, n) => Reachable(pid, n)'
      /\ rows \in [Names -> Row] /\ rows' \in [Names -> Row] /\ rows'[m] = r
      /\ \A n \in Names \ {m} : rows'[n] = rows[n]
  BY <1>0, SameVMs DEF Types, TypeOK
<1>2. /\ \A q \in Procs \ {p} : cmd'[q] = cmd[q] /\ watched'[q] = watched[q]
      /\ cmd'[p] = c /\ watched'[p] = 0 /\ ~Active(p)' /\ c.pid = 0
  BY <1>0 DEF Types, TypeOK, Active, Idle, Killed
<1>3. Types'
  <2>1. TypeOK'
    BY <1>0, <1>1 DEF Types, TypeOK
  <2>2. \A q \in Procs : Active(q)' => Active(q) /\ cmd'[q] = cmd[q]
    BY <1>2 DEF Active
  <2> QED
    BY <1>0, <2>1, <2>2 DEF Types, Positioned
<1>4. OneEach'
  <2>1. \A q \in Procs : Active(q)' => Active(q) /\ cmd'[q] = cmd[q]
    BY <1>2 DEF Active
  <2> QED
    BY <2>1 DEF IInv, OneEach
<1>5. PidsAreTrue'
  <2>1. \A n \in Names : rows'[n].pid \in {rows[n].pid, 0}
                            \/ \E q \in Procs : cmd[q].name = n /\ rows'[n].pid = cmd[q].pid
    BY <1>1
  <2>2. \A q \in Procs : cmd'[q].pid # 0 => cmd'[q].pid = cmd[q].pid /\ cmd'[q].name = cmd[q].name
    BY <1>2
  <2> QED
    BY <1>0, <1>1, <2>1, <2>2, PidsStayTrue DEF IInv
<1>6. /\ \A n \in Names \ {m} : Reachable(rows[n].pid, n)'
      /\ \A q \in Procs \ {p} : Active(q)' => Knows(cmd[q])'
      /\ \A q \in Procs \ {p} : watched'[q] # 0 =>
            Active(q)' /\ Started(cmd'[q]) /\ watched'[q] = cmd'[q].pid
  BY <1>1, <1>2, OthersStay
<1>7. Reachable(rows[m].pid, m)'
  <2>1. CASE r.pid = 0
    BY <1>0, <1>1, <2>1 DEF Types, Reachable
  <2>2. CASE r.pid # 0
    BY <1>1, <2>2 DEF Reachable
  <2> QED
    BY <2>1, <2>2
<1>8. RowPids'
  BY <1>1 DEF IInv, RowPids
<1> QED
  BY <1>2, <1>3, <1>4, <1>5, <1>6, <1>7, <1>8 DEF IInv, Watches

\* The row gets the PID of the VM that has been started, or none.
LEMMA SaveInv ==
    ASSUME IInv, Injective, NEW p \in Procs, Save(p)
    PROVE  IInv'
<1>1. At(p, "save") /\ Advance(p) /\ UNCHANGED <<vms, sockets, cgroups>>
  BY DEF Save
<1>2. PICK m \in Names : m = cmd[p].name
  BY <1>1, CommandAt
<1>3. /\ Types /\ Active(p) /\ Head(cmd[p].todo) = "save" /\ Knows(cmd[p])
      /\ cmd[p].op \in Ops \ {"destroy"} /\ cmd[p].pid \in Nat
      /\ Reachable(rows[m].pid, m)
  BY <1>1, <1>2, CommandAt, Onward
<1>4. Ends(p)
  BY <1>1, <1>3, Onward
<1>5. rows \in [Names -> Row]
  BY <1>3 DEF Types, TypeOK
<1>6. CASE UNCHANGED rows
  <2>1. rows' = [rows EXCEPT ![m] = rows[m]] /\ rows[m] \in Row
    BY <1>5, <1>6
  <2>2. rows[m].status # "running" => rows[m].pid = 0
    BY DEF IInv, RowPids
  <2> QED
    BY <1>1, <1>2, <1>3, <1>4, <2>1, <2>2, EndStep DEF Ends
<1>7. CASE rows' = [rows EXCEPT ![m] = RowAfter(cmd[p])]
  <2>1. CASE cmd[p].op = "freeze"
    <3>1. RowAfter(cmd[p]) \in Row /\ RowAfter(cmd[p]).pid = 0
      BY <2>1 DEF RowAfter, Row
    <3> QED
      BY <1>1, <1>2, <1>3, <1>4, <1>7, <3>1, EndStep DEF Ends
  <2>2. CASE cmd[p].op # "freeze"
    <3>1. /\ RowAfter(cmd[p]) \in Row /\ RowAfter(cmd[p]).pid = cmd[p].pid
          /\ RowAfter(cmd[p]).status = "running"
      BY <1>3, <2>2 DEF RowAfter, Row
    <3>2. Started(cmd[p])
      BY <1>3, <2>2, PlanTypes DEF Started, Starts
    <3>3. Reachable(cmd[p].pid, m)
      BY <1>2, <1>3, <3>2 DEF Knows
    <3> QED
      BY <1>1, <1>2, <1>3, <1>4, <1>7, <3>1, <3>3, EndStep DEF Ends
  <2> QED
    BY <2>1, <2>2
<1> QED
  BY <1>2, <1>6, <1>7 DEF Save

LEMMA UnrowInv ==
    ASSUME IInv, Injective, NEW p \in Procs, Unrow(p)
    PROVE  IInv'
<1>1. At(p, "unrow") /\ Advance(p) /\ UNCHANGED <<vms, sockets, cgroups>>
  BY DEF Unrow
<1>2. PICK m \in Names : m = cmd[p].name
  BY <1>1, CommandAt
<1>3. Active(p) /\ Ends(p)
  BY <1>1, CommandAt, Onward
<1>4. [status |-> "none", pid |-> 0] \in Row
  BY DEF Row
<1> QED
  BY <1>1, <1>2, <1>3, <1>4, EndStep DEF Ends, Unrow

LEMMA CrashInv ==
    ASSUME IInv, Injective, NEW p \in Procs, Crash(p)
    PROVE  IInv'
<1>1. Active(p)
  BY DEF Crash, Active
<1>2. PICK m \in Names : m = cmd[p].name
  BY <1>1, ActiveName DEF IInv
<1>3. rows \in [Names -> Row] /\ rows' = [rows EXCEPT ![m] = rows[m]] /\ rows[m] \in Row
  BY DEF IInv, Types, TypeOK, Crash
<1>4. (rows[m].status # "running" => rows[m].pid = 0) /\ Reachable(rows[m].pid, m)
  BY DEF IInv, RowPids
<1>5. /\ cmd' = [cmd EXCEPT ![p] = Killed] /\ watched' = [watched EXCEPT ![p] = 0]
      /\ UNCHANGED <<vms, sockets, cgroups>>
  BY DEF Crash
<1> QED
  BY <1>1, <1>2, <1>3, <1>4, <1>5, EndStep

\* The goroutine cleans up after a VM that has ended before its row was
\* written.
LEMMA ReapInv ==
    ASSUME IInv, Injective, NEW p \in Procs, Reap(p)
    PROVE  IInv'
<1>1. /\ Active(p) /\ Started(cmd[p]) /\ watched[p] = cmd[p].pid /\ Gone(cmd[p].pid)
      /\ Head(cmd[p].todo) \in Down /\ Knows(cmd[p]) /\ Types
  BY DEF Reap, IInv, Watches, Runs, Gone, Started, Down
<1>2. PICK m \in Names : m = cmd[p].name
  BY <1>1, ActiveName
<1>3. UNCHANGED <<rows, cmd, vms>> /\ watched' = [watched EXCEPT ![p] = 0] /\ Jail(p) = JailOf[m]
  BY <1>2 DEF Reap, Jail
<1>4. Gone(rows[m].pid)
  BY <1>1, <1>2 DEF Knows
<1>5. OnlyOf(m) /\ sockets' \in [Jails -> Nat] /\ cgroups' \subseteq Jails
  <2>1. cgroups \subseteq Jails
    BY <1>1 DEF Types, TypeOK
  <2>2. OnlyOf(m)
    BY <1>1, <1>3, <2>1, JailCleared DEF Reap, CgroupsWithout
  <2> QED
    BY <2>2 DEF OnlyOf
<1>6. /\ \A q \in Procs \ {p} : cmd'[q] = cmd[q] /\ watched'[q] = watched[q]
      /\ watched' \in [Procs -> Nat] /\ watched'[p] = 0
  BY <1>1, <1>3 DEF Types, TypeOK
<1>7. /\ \A n \in Names \ {m} : Reachable(rows[n].pid, n)'
      /\ \A q \in Procs \ {p} : Active(q)' => Knows(cmd[q])'
      /\ \A q \in Procs \ {p} : watched'[q] # 0 =>
            Active(q)' /\ Started(cmd'[q]) /\ watched'[q] = cmd'[q].pid
  BY <1>1, <1>2, <1>3, <1>5, <1>6, OthersStay
<1>8. Types' /\ OneEach' /\ RowPids'
  BY <1>3, <1>5, <1>6 DEF IInv, Types, TypeOK, Positioned, Active, OneEach, RowPids
<1>9. PidsAreTrue'
  BY <1>1, <1>3, <1>5, PidsStayTrue DEF IInv
<1>10. Reachable(rows[m].pid, m)'
  BY <1>3, <1>4 DEF Gone, Reachable
<1>11. Knows(cmd[p])'
  BY <1>1, <1>2, <1>3, <1>4 DEF Knows, Gone, Reachable, Started
<1> QED
  BY <1>6, <1>7, <1>8, <1>9, <1>10, <1>11 DEF IInv, Watches

LEMMA HaltInv ==
    ASSUME IInv, NEW v \in vms, Halt(v)
    PROVE  IInv'
<1>1. UNCHANGED <<rows, cmd, watched, sockets, cgroups>> /\ vms' \subseteq vms /\ Types
  BY DEF Halt, IInv
<1>2. \A pid, n : Reachable(pid, n) => Reachable(pid, n)'
  BY <1>1, VMsChange
<1>3. Types' /\ OneEach' /\ RowPids' /\ Watches'
  BY <1>1 DEF IInv, Types, TypeOK, Positioned, Active, OneEach, RowPids, Watches
<1>4. PidsAreTrue'
  BY <1>1 DEF IInv, PidsAreTrue
<1>5. \A n \in Names : Reachable(rows[n].pid, n)'
  BY <1>1 DEF IInv, Reachable
<1>6. \A q \in Procs : Active(q)' => Knows(cmd[q])'
  BY <1>1 DEF IInv, Active, Knows, Reachable, Gone
<1> QED
  BY <1>3, <1>4, <1>5, <1>6 DEF IInv

\* Where a command begins.
LEMMA FirstStep ==
    ASSUME NEW op \in Ops, NEW pid \in Nat
    PROVE  \E i \in 1 .. Len(Plan[op]) :
              /\ PlanFor(op, pid) = From(op, i)
              /\ Plan[op][i] \in Down => op \in {"deploy", "unfreeze"} \/ pid = 0
              /\ op \in Starts => Plan[op][i] \notin {"limit", "save"}
<1>1. Plan[op] \in Seq(Steps) /\ Len(Plan[op]) \in 4 .. 7
  BY PlanTypes
<1>2. CASE op = "destroy" /\ pid = 0
  <2>1. Len(Plan[op]) = 6 /\ Plan[op][6] = "unrow"
    BY <1>2 DEF Plan
  <2>2. /\ From(op, 6) \in Seq(Steps) /\ Len(From(op, 6)) = 1
        /\ From(op, 6)[1] = "unrow"
    BY <1>1, <2>1, SubSeqProperties DEF From
  <2>3. From(op, 6) = <<"unrow">>
    BY <2>2
  <2> QED
    BY <1>2, <2>1, <2>3 DEF PlanFor, Starts
<1>3. CASE op = "freeze" /\ pid = 0
  <2>1. Len(Plan[op]) = 5 /\ Plan[op][5] = "save"
    BY <1>3 DEF Plan
  <2>2. /\ From(op, 5) \in Seq(Steps) /\ Len(From(op, 5)) = 1
        /\ From(op, 5)[1] = "save"
    BY <1>1, <2>1, SubSeqProperties DEF From
  <2>3. From(op, 5) = <<"save">>
    BY <2>2
  <2> QED
    BY <1>3, <2>1, <2>3 DEF PlanFor, Starts
<1>4. CASE ~(op \in {"destroy", "freeze"} /\ pid = 0)
  <2>1. PlanFor(op, pid) = From(op, 1)
    BY <1>1, <1>4, SubSeqFull DEF PlanFor, From
  <2>2. Plan[op][1] \in {"clean", "ask", "pause"}
        /\ (Plan[op][1] = "clean" => op \in {"deploy", "unfreeze"})
    BY PlanTypes DEF Plan
  <2> QED
    BY <1>1, <2>1, <2>2 DEF Down
<1> QED
  BY <1>2, <1>3, <1>4

\* A command begins on a project that no other command works on, and with
\* its row as it is.
LEMMA BeginInv ==
    ASSUME IInv, NEW p \in Procs, NEW op \in Ops, NEW m \in Names, Begin(p, op, m)
    PROVE  IInv'
<1> DEFINE c == [op |-> op, name |-> m, pid |-> rows[m].pid, todo |-> PlanFor(op, rows[m].pid)]
<1>1. /\ Types /\ ~Active(p) /\ \A q \in Procs : cmd[q].name # m
      /\ cmd' = [cmd EXCEPT ![p] = c] /\ UNCHANGED <<rows, watched, vms, sockets, cgroups>>
  BY DEF Begin, IInv, Active, Free
<1>2. rows[m] \in Row /\ rows[m].pid \in Nat
  BY <1>1 DEF Types, TypeOK, Row
<1>3. PICK i \in 1 .. Len(Plan[op]) :
         /\ PlanFor(op, rows[m].pid) = From(op, i)
         /\ Plan[op][i] \in Down => op \in {"deploy", "unfreeze"} \/ rows[m].pid = 0
         /\ op \in Starts => Plan[op][i] \notin {"limit", "save"}
  <2>1. PICK pid : pid = rows[m].pid
    OBVIOUS
  <2> QED
    BY <1>2, <2>1, FirstStep, ZenonT(40)
<1>4. /\ From(op, i) \in Seq(Steps) /\ From(op, i) # <<>>
      /\ Head(From(op, i)) = Plan[op][i]
  BY RestOfPlan
<1>5. /\ c \in Command /\ c.op = op /\ c.name = m /\ c.pid = rows[m].pid
      /\ c.todo = From(op, i)
  BY <1>2, <1>3, <1>4 DEF Command
<1>6. Positioned(c) /\ ~Started(c) /\ Head(c.todo) = Plan[op][i]
  BY <1>3, <1>4, <1>5 DEF Positioned, Started
<1> HIDE DEF c
<1>7. cmd'[p] = c /\ \A q \in Procs \ {p} : cmd'[q] = cmd[q]
  BY <1>1 DEF Types, TypeOK
<1>8. Types'
  <2>1. TypeOK'
    BY <1>1, <1>5 DEF Types, TypeOK
  <2> QED
    BY <1>1, <1>6, <1>7, <2>1 DEF Types, Positioned, Active
<1>9. OneEach'
  BY <1>1, <1>5, <1>7 DEF IInv, OneEach, Active
<1>10. PidsAreTrue'
  <2>1. \A v \in vms : v.pid = c.pid => v.name = m
    BY <1>5 DEF IInv, PidsAreTrue
  <2> QED
    BY <1>1, <1>5, <1>7, <2>1 DEF IInv, PidsAreTrue
<1>11. RowPids' /\ \A n \in Names : Reachable(rows[n].pid, n)'
  BY <1>1 DEF IInv, RowPids, Reachable
<1>12. Watches'
  <2>1. watched[p] = 0
    BY <1>1 DEF IInv, Watches
  <2> QED
    BY <1>1, <1>7, <2>1 DEF IInv, Watches, Active
<1>13. ASSUME NEW q \in Procs, Active(q)' PROVE Knows(cmd[q])'
  <2>1. CASE q # p
    BY <1>1, <1>7, <1>13, <2>1 DEF IInv, Active, Knows, Reachable, Gone
  <2>2. CASE q = p
    <3>1. Head(c.todo) \in Down => Gone(rows[m].pid)
      <4>1. op \in {"deploy", "unfreeze"} => rows[m].pid = 0
        BY DEF Begin, IInv, RowPids
      <4> QED
        BY <1>1, <1>3, <1>6, <4>1 DEF Gone, Types
    <3> QED
      BY <1>1, <1>5, <1>6, <1>7, <2>2, <3>1 DEF Knows, Gone
  <2> QED
    BY <2>1, <2>2
<1> QED
  BY <1>8, <1>9, <1>10, <1>11, <1>12, <1>13 DEF IInv

\* A new VM has a PID that nobody has noted.
LEMMA LaunchInv ==
    ASSUME IInv, Injective, ~PidReuse, NEW p \in Procs, Launch(p)
    PROVE  IInv'
<1>1. At(p, "launch") /\ UNCHANGED <<rows, cgroups>>
  BY DEF Launch
<1>2. PICK m \in Names : m = cmd[p].name
  BY <1>1, CommandAt
<1>3. /\ Types /\ Active(p) /\ Jail(p) = JailOf[m] /\ JailOf[m] \in Jails
      /\ Gone(rows[m].pid) /\ ~Started(cmd[p]) /\ cmd[p].pid = rows[m].pid
      /\ cmd[p].op \in Starts /\ cmd[p].name = m
  BY <1>1, <1>2, CommandAt, Onward, JailAssumption DEF Knows, Down, Started
<1>4. PICK i \in 1 .. Len(Plan[cmd[p].op]) :
         cmd[p].todo = From(cmd[p].op, i) /\ Plan[cmd[p].op][i] = "launch"
  BY <1>1, <1>3, AtStep
<1>5. CASE Return(p) /\ UNCHANGED vms /\ sockets' = [sockets EXCEPT ![JailOf[m]] = 0]
  <2>1. Ends(p)
    <3>1. cmd[p] \in Command
      BY <1>1, <1>3, AtStep
    <3> QED
      BY <1>5, <3>1 DEF Return, Continue, Ends, Command
  <2>2. OnlyOf(m)
    BY <1>1, <1>3, <1>5, JailCleared DEF Types, TypeOK
  <2>3. Gone(rows[m].pid)' /\ Reachable(rows[m].pid, m)'
    BY <1>1, <1>3, <1>5 DEF Gone, Reachable
  <2> QED
    BY <1>1, <1>2, <1>3, <2>1, <2>2, <2>3, CommandStep
<1>6. ASSUME NEW k \in FreshPids,
             vms' = vms \cup {[pid |-> k, name |-> m, asked |-> FALSE, paused |-> FALSE,
                               limited |-> FALSE]},
             sockets' = [sockets EXCEPT ![JailOf[m]] = k],
             cmd' = [cmd EXCEPT ![p].todo = Tail(@), ![p].pid = k],
             watched' = [watched EXCEPT ![p] = k]
      PROVE  IInv'
  <2> DEFINE new == [pid |-> k, name |-> m, asked |-> FALSE, paused |-> FALSE, limited |-> FALSE]
             c == [cmd[p] EXCEPT !.todo = From(cmd[p].op, i + 1), !.pid = k]
  <2>1. /\ k \in Nat /\ k # 0 /\ \A v \in vms : v.pid # k
        /\ \A j \in Jails : sockets[j] # k
        /\ \A n \in Names : rows[n].pid # k
        /\ \A q \in Procs : cmd[q].pid # k
    BY MaxPidAssumption DEF FreshPids, UsedPids
  <2>2. /\ cmd[p] \in Command /\ cmd[p].op \in Ops /\ i < Len(Plan[cmd[p].op])
        /\ Plan[cmd[p].op][i + 1] = "limit" /\ Len(Plan[cmd[p].op]) \in Nat
    <3>1. cmd[p] \in Command /\ cmd[p].op \in Ops
      BY <1>1, <1>3, AtStep DEF Command
    <3>2. i < Len(Plan[cmd[p].op]) /\ Plan[cmd[p].op][i + 1] = "limit"
      BY <1>4, <3>1, PlanSteps
    <3> QED
      BY <3>1, <3>2, PlanTypes
  <2>3. i + 1 \in 1 .. Len(Plan[cmd[p].op])
    BY <2>2
  <2>4. Tail(cmd[p].todo) = From(cmd[p].op, i + 1)
    <3>1. /\ Tail(From(cmd[p].op, i)) = SubSeq(From(cmd[p].op, i), 1 + 1, Len(From(cmd[p].op, i)))
          /\ SubSeq(From(cmd[p].op, i), 1 + 1, Len(From(cmd[p].op, i))) = From(cmd[p].op, i + 1)
      <4>1. Tail(From(cmd[p].op, i)) = SubSeq(From(cmd[p].op, i), 2, Len(From(cmd[p].op, i)))
        BY <2>2, RestOfPlan
      <4>2. i + 1 <= Len(Plan[cmd[p].op])
        BY <2>3
      <4>3. SubSeq(From(cmd[p].op, i), 1 + 1, Len(From(cmd[p].op, i))) = From(cmd[p].op, i + 1)
        BY <2>2, <4>2, RestOfPlan
      <4> QED
        BY <4>1, <4>3
    <3> QED
      BY <1>4, <3>1
  <2>5. /\ From(cmd[p].op, i + 1) \in Seq(Steps) /\ From(cmd[p].op, i + 1) # <<>>
        /\ Head(From(cmd[p].op, i + 1)) = "limit"
    BY <2>2, <2>3, RestOfPlan
  <2>6. cmd'[p] = c /\ \A q \in Procs \ {p} : cmd'[q] = cmd[q]
    BY <1>3, <1>6, <2>2, <2>4 DEF Types, TypeOK, Command
  <2>7. /\ c \in Command /\ c.op = cmd[p].op /\ c.name = m /\ c.pid = k
        /\ c.todo = From(c.op, i + 1) /\ Head(c.todo) = "limit"
    BY <1>3, <2>1, <2>2, <2>5 DEF Command
  <2>8. Positioned(c) /\ Started(c)
    BY <1>3, <2>3, <2>7 DEF Positioned, Started
  <2> HIDE DEF c
  <2>9. new \in VM /\ new.pid = k /\ new.name = m /\ ~new.limited
    BY <2>1 DEF VM
  <2> HIDE DEF new
  <2>10. vms' = vms \cup {new}
    BY <1>6 DEF new
  <2>11. /\ sockets' \in [Jails -> Nat] /\ sockets'[JailOf[m]] = k
         /\ \A j \in Jails \ {JailOf[m]} : sockets'[j] = sockets[j]
    BY <1>3, <1>6, <2>1 DEF Types, TypeOK
  <2>12. /\ watched' \in [Procs -> Nat] /\ watched'[p] = k
         /\ \A q \in Procs \ {p} : watched'[q] = watched[q]
    BY <1>3, <1>6, <2>1 DEF Types, TypeOK
  <2>13. Types'
    <3>1. cmd' \in [Procs -> {Idle, Killed} \cup Command]
      <4>1. cmd \in [Procs -> {Idle, Killed} \cup Command]
        BY <1>3 DEF Types, TypeOK
      <4>2. cmd' = [cmd EXCEPT ![p] = c]
        BY <1>6, <2>6, <4>1
      <4> QED
        BY <2>7, <4>1, <4>2
    <3>2. /\ vms' \subseteq VM /\ \A v, w \in vms' : v.pid = w.pid => v = w
          /\ \A v \in vms' : v.pid # 0
      BY <1>3, <2>1, <2>9, <2>10 DEF Types, TypeOK
    <3>3. TypeOK'
      BY <1>1, <1>3, <2>11, <2>12, <3>1, <3>2 DEF Types, TypeOK
    <3> QED
      BY <1>3, <2>6, <2>8, <3>2, <3>3 DEF Types, Positioned, Active
  <2>14. OneEach'
    <3>1. \A q \in Procs : Active(q)' => Active(q) /\ cmd'[q].name = cmd[q].name
      BY <1>3, <2>6, <2>7 DEF Active
    <3> QED
      BY <3>1 DEF IInv, OneEach
  <2>15. PidsAreTrue'
    <3>1. /\ \A n \in Names : rows'[n].pid # k
          /\ \A q \in Procs \ {p} : cmd'[q].pid # k
          /\ \A j \in Jails \ {JailOf[m]} : sockets'[j] # k
      BY <1>1, <2>1, <2>6, <2>11
    <3>2. ASSUME NEW v \in vms
          PROVE  /\ \A n \in Names : rows'[n].pid = v.pid => v.name = n
                 /\ \A q \in Procs : cmd'[q].pid = v.pid => v.name = cmd'[q].name
                 /\ \A j \in Jails : sockets'[j] = v.pid => JailOf[v.name] = j
      <4>1. v.pid # k
        BY <2>1
      <4> QED
        BY <1>1, <2>6, <2>7, <2>11, <4>1 DEF IInv, PidsAreTrue
    <3> QED
      BY <2>6, <2>7, <2>9, <2>10, <3>1, <3>2 DEF PidsAreTrue
  <2>16. \A pid, n : n \in Names \ {m} /\ pid # k /\ Reachable(pid, n) => Reachable(pid, n)'
    <3>1. \A n \in Names \ {m} : JailOf[n] \in Jails \ {JailOf[m]}
      BY JailAssumption DEF Injective
    <3> QED
      BY <1>1, <2>9, <2>10, <2>11, <3>1 DEF Reachable
  <2>17. \A pid : pid # k /\ Gone(pid) => Gone(pid)'
    BY <2>9, <2>10 DEF Gone
  <2>18. \A n \in Names : Reachable(rows[n].pid, n)'
    <3> SUFFICES ASSUME NEW n \in Names PROVE Reachable(rows[n].pid, n)'
      OBVIOUS
    <3>2. CASE n = m
      BY <1>1, <1>3, <2>1, <2>9, <2>10, <3>2 DEF Gone, Reachable
    <3>3. CASE n # m
      <4>1. \A pid : pid = rows[n].pid => Reachable(pid, n)'
        BY <2>1, <2>16, <3>3 DEF IInv
      <4> QED
        BY <1>1, <4>1 DEF Reachable
    <3> QED
      BY <3>2, <3>3
  <2>19. Knows(cmd[p])'
    <3>1. Reachable(k, m)'
      BY <1>3, <2>1, <2>9, <2>10, <2>11 DEF Reachable
    <3>2. Gone(rows[m].pid)'
      BY <1>1, <1>3, <2>1, <2>9, <2>10 DEF Gone
    <3> QED
      BY <1>1, <2>6, <2>7, <2>8, <3>1, <3>2 DEF Knows, Reachable, Gone
  <2>20. ASSUME NEW q \in Procs \ {p}, Active(q)' PROVE Knows(cmd[q])'
    <3>1. Active(q) /\ cmd'[q] = cmd[q] /\ Knows(cmd[q])
      BY <1>3, <2>6, <2>20 DEF Active, IInv
    <3>2. PICK n \in Names \ {m} : n = cmd[q].name
      BY <1>3, <3>1, ActiveName DEF IInv, OneEach
    <3>3. Started(cmd[q]) => Reachable(cmd[q].pid, n)'
      <4>1. Started(cmd[q]) => \A pid : pid = cmd[q].pid => Reachable(pid, n)'
        BY <2>1, <2>16, <3>1, <3>2 DEF Knows
      <4> QED
        BY <3>1, <4>1 DEF Reachable
    <3>4. Head(cmd[q].todo) \in Down => Gone(rows[n].pid)'
      <4>1. Head(cmd[q].todo) \in Down => \A pid : pid = rows[n].pid => Gone(pid)'
        BY <2>1, <2>17, <3>1, <3>2 DEF Knows
      <4> QED
        BY <1>1, <4>1 DEF Gone
    <3> QED
      BY <1>1, <3>1, <3>2, <3>3, <3>4 DEF Knows, Reachable, Gone
  <2>21. Watches'
    <3>1. Active(p)' /\ Started(cmd'[p]) /\ watched'[p] = cmd'[p].pid
      <4>1. Idle \notin Command /\ Killed \notin Command
        BY DEF Idle, Killed, Command, Ops, Plan
      <4> QED
        BY <2>6, <2>7, <2>8, <2>12, <4>1 DEF Active
    <3> QED
      BY <2>6, <2>12, <3>1 DEF IInv, Watches, Active
  <2>22. RowPids'
    BY <1>1 DEF IInv, RowPids
  <2> QED
    BY <2>13, <2>14, <2>15, <2>18, <2>19, <2>20, <2>21, <2>22 DEF IInv
<1> QED
  BY <1>3, <1>5, <1>6 DEF Launch

-----------------------------------------------------------------------------
LEMMA InitInv == Init => IInv
<1> SUFFICES ASSUME Init PROVE IInv
  OBVIOUS
<1>1. \A p \in Procs : ~Active(p) /\ watched[p] = 0 /\ cmd[p] = Idle
  BY DEF Init, Active
<1>2. Types
  <2>1. TypeOK
    BY DEF Init, TypeOK, Row
  <2> QED
    BY <1>1, <2>1 DEF Init, Types
<1>3. \A n \in Names : rows[n].pid = 0 /\ vms = {}
  BY DEF Init
<1>4. OneEach /\ PidsAreTrue /\ RowPids /\ Watches
  BY <1>1, <1>3 DEF OneEach, PidsAreTrue, RowPids, Watches, Init
<1> QED
  BY <1>1, <1>2, <1>3, <1>4 DEF IInv, Reachable

LEMMA NextInv ==
    ASSUME Injective, ~PidReuse
    PROVE  IInv /\ [Next]_vars => IInv'
<1> SUFFICES ASSUME IInv, [Next]_vars PROVE IInv'
  OBVIOUS
<1>1. CASE UNCHANGED vars
  <2>1. UNCHANGED <<rows, cmd, watched, vms, sockets, cgroups>>
    BY <1>1 DEF vars
  <2> QED
    BY <2>1 DEF IInv, Types, TypeOK, Positioned, Active, OneEach, PidsAreTrue, RowPids,
                Reachable, Knows, Started, Gone, Watches
<1>2. ASSUME NEW p \in Procs, NEW op \in Ops, NEW n \in Names, Begin(p, op, n) PROVE IInv'
  BY <1>2, BeginInv
<1>3. ASSUME NEW p \in Procs, StartVM(p) PROVE IInv'
  BY <1>3, CleanJailInv, LaunchInv, LimitInv, ReapInv DEF StartVM
<1>4. ASSUME NEW p \in Procs, StopVM(p) PROVE IInv'
  BY <1>4, AskPollInv, KillInv, RemoveInv DEF StopVM
<1>5. ASSUME NEW p \in Procs, TakeSnapshot(p) PROVE IInv'
  BY <1>5, SnapshotInv
<1>6. ASSUME NEW p \in Procs, Save(p) \/ Unrow(p) \/ Crash(p) PROVE IInv'
  BY <1>6, SaveInv, UnrowInv, CrashInv
<1>7. ASSUME NEW v \in vms, Halt(v) PROVE IInv'
  BY <1>7, HaltInv
<1> QED
  BY <1>1, <1>2, <1>3, <1>4, <1>5, <1>6, <1>7 DEF Next

LEMMA Inductive ==
    ASSUME Injective, ~PidReuse
    PROVE  Spec => []IInv
  BY InitInv, NextInv, PTL DEF Spec

-----------------------------------------------------------------------------
\* The VM that a row has, by its PID, can be reached at its socket, and what
\* limits it is there: no StartVM, StopVMByPID or goroutine has cleaned up
\* after a former VM too late (vm.go:41, vm.go:190, vm.go:270).
THEOREM JailKept ==
    ASSUME Injective, ~PidReuse
    PROVE  Spec => []VMKeepsJail
<1>1. IInv => VMKeepsJail
  <2> SUFFICES ASSUME IInv, NEW v \in vms, rows[v.name] = [status |-> "running", pid |-> v.pid]
               PROVE  /\ sockets[JailOf[v.name]] = v.pid
                      /\ v.limited => JailOf[v.name] \in cgroups
    BY DEF VMKeepsJail
  <2>1. v.name \in Names /\ rows[v.name].pid = v.pid
    BY DEF IInv, Types, TypeOK, VM
  <2> QED
    BY <2>1 DEF IInv, Reachable
<1> QED
  BY Inductive, <1>1, PTL

\* A step of one command is none of another.
LEMMA OthersGoOn ==
    ASSUME Types, NEW p \in Procs, NEW q \in Procs \ {p},
           StartVM(q) \/ StopVM(q) \/ TakeSnapshot(q) \/ Save(q) \/ Unrow(q) \/ Crash(q)
    PROVE  cmd'[p] = cmd[p]
<1>1. cmd \in [Procs -> {Idle, Killed} \cup Command]
  BY DEF Types, TypeOK
<1>2. ASSUME NEW c, Continue(q, c) PROVE cmd'[p] = cmd[p]
  BY <1>1, <1>2 DEF Continue
<1>3. Advance(q) \/ Return(q) \/ (\E k : Skip(q, k)) => cmd'[p] = cmd[p]
  BY <1>2 DEF Advance, Return, Skip
<1>4. Launch(q) => cmd'[p] = cmd[p]
  <2>1. CASE \E k \in FreshPids : cmd' = [cmd EXCEPT ![q].todo = Tail(@), ![q].pid = k]
    BY <1>1, <2>1
  <2> QED
    BY <1>3, <2>1 DEF Launch
<1>5. Crash(q) => cmd'[p] = cmd[p]
  BY <1>1 DEF Crash
<1>6. Reap(q) => cmd'[p] = cmd[p]
  BY DEF Reap
<1> QED
  BY <1>3, <1>4, <1>5, <1>6
     DEF StartVM, StopVM, TakeSnapshot, CleanJail, Limit, Ask, Poll, Kill, RemoveCgroup, RemoveJail,
         Pause, CreateSnapshot, Resume, Save, Unrow

\* A step of a command that asks, pauses, limits or kills a VM means the VM
\* of its own project, whether it finds it by PID or at the socket.
LEMMA StepTouchesOwn ==
    ASSUME IInv, Injective, [Next]_vars, NEW p \in Procs, cmd'[p] # cmd[p],
           NEW v \in vms \ vms'
    PROVE  v.name = cmd[p].name
<1>1. \A q \in Procs : cmd[q].pid = v.pid => v.name = cmd[q].name
  BY DEF IInv, PidsAreTrue
<1>2. \A q \in Procs : Active(q) /\ v \in Listening(Jail(q)) => v.name = cmd[q].name
  <2> SUFFICES ASSUME NEW q \in Procs, Active(q), v \in Listening(Jail(q))
               PROVE  v.name = cmd[q].name
    OBVIOUS
  <2>1. cmd[q].name \in Names /\ v.name \in Names /\ Jail(q) \in Jails
    BY ActiveName, JailAssumption DEF IInv, Types, TypeOK, VM, Jail
  <2>2. JailOf[v.name] = JailOf[cmd[q].name]
    BY <2>1 DEF Listening, Jail, IInv, PidsAreTrue
  <2> QED
    BY <2>1, <2>2 DEF Injective
<1>3. ASSUME NEW q \in Procs, q # p, StartVM(q) \/ StopVM(q) \/ TakeSnapshot(q)
                                         \/ Save(q) \/ Unrow(q) \/ Crash(q)
      PROVE  FALSE
  BY <1>3, OthersGoOn DEF IInv
<1>4. CASE Limit(p)
  <2>1. v.pid = cmd[p].pid
    BY <1>4 DEF Limit
  <2> QED
    BY <1>1, <2>1
<1>5. CASE Ask(p) \/ Pause(p) \/ Resume(p)
  <2>1. v \in Listening(Jail(p))
    BY <1>5 DEF Ask, Pause, Resume, Change
  <2>2. Active(p)
    BY <1>5, AtStep DEF Ask, Pause, Resume, IInv
  <2> QED
    BY <1>2, <2>1, <2>2
<1>6. CASE Kill(p)
  BY <1>1, <1>6 DEF Kill
<1>7. StartVM(p) \/ StopVM(p) \/ TakeSnapshot(p)
  <2>1. ASSUME NEW q \in Procs, NEW op, NEW m, Begin(q, op, m) PROVE FALSE
    BY <2>1 DEF Begin
  <2>2. ASSUME NEW w \in vms, Halt(w) PROVE FALSE
    BY <2>2 DEF Halt
  <2>3. ~Save(p) /\ ~Unrow(p) /\ ~Crash(p)
    BY DEF Save, Unrow, Crash
  <2>4. ~UNCHANGED vars
    BY DEF vars
  <2> QED
    BY <1>3, <2>1, <2>2, <2>3, <2>4 DEF Next
<1>8. ~CleanJail(p) /\ ~Launch(p) /\ ~Reap(p)
  BY DEF CleanJail, Launch, Reap
<1>9. ~Poll(p) /\ ~RemoveCgroup(p) /\ ~RemoveJail(p) /\ ~CreateSnapshot(p)
  BY DEF Poll, RemoveCgroup, RemoveJail, CreateSnapshot
<1> QED
  BY <1>4, <1>5, <1>6, <1>7, <1>8, <1>9 DEF StartVM, StopVM, TakeSnapshot

\* No command asks, pauses or kills the VM of another project: neither by a
\* PID that is no longer true nor at a socket that is no longer its own.
THEOREM OwnVMOnly ==
    ASSUME Injective, ~PidReuse
    PROVE  Spec => TouchesOwnVM
<1>1. IInv /\ [Next]_vars =>
         [\A p \in Procs :
             cmd'[p] # cmd[p] => \A v \in vms \ vms' : v.name = cmd[p].name]_vars
  BY StepTouchesOwn
<1> QED
  BY Inductive, <1>1, PTL DEF Spec, TouchesOwnVM

\* Where destroy and freeze end, the VM they were to stop is gone.
LEMMA StepLeavesNone ==
    ASSUME IInv, [Next]_vars, NEW p \in Procs,
           cmd[p].op \in {"destroy", "freeze"}, cmd'[p] = Idle
    PROVE  \A v \in vms' : v.pid # cmd[p].pid
<1>1. Types /\ Active(p)
  BY DEF IInv, Active, Idle, Killed
<1>2. cmd[p] # Idle /\ Idle # Killed
  BY DEF Idle, Killed
<1>3. \A step : ~MovesTo(p, step)
  <2> SUFFICES ASSUME NEW step, MovesTo(p, step) PROVE FALSE
    OBVIOUS
  <2>1. cmd'[p] \in Command
    BY <1>1 DEF MovesTo, Positioned, Types, TypeOK
  <2> QED
    BY <2>1 DEF Idle, Command, Ops, Plan
<1>4. cmd[p].op \notin Starts
  BY DEF Starts
<1>5. CASE Save(p) \/ Unrow(p)
  <2>1. PICK step \in {"save", "unrow"} : At(p, step)
    BY <1>5 DEF Save, Unrow
  <2>2. Knows(cmd[p]) /\ Head(cmd[p].todo) \in Down
    BY <2>1, CommandAt DEF Down
  <2>3. ~Started(cmd[p]) /\ UNCHANGED vms
    BY <1>4, <1>5 DEF Started, Save, Unrow
  <2> QED
    BY <2>2, <2>3 DEF Knows, Gone
<1>6. CASE StopVM(p) \/ TakeSnapshot(p)
  BY <1>1, <1>3, <1>6, Onward
     DEF StopVM, TakeSnapshot, Ask, Poll, Kill, RemoveCgroup, RemoveJail, Pause, CreateSnapshot,
         Resume
<1>7. ~(CleanJail(p) \/ Launch(p) \/ Limit(p))
  BY <1>1, <1>4, Onward DEF CleanJail, Launch, Limit
<1>8. cmd'[p] # cmd[p]
  BY <1>2 DEF Idle
<1>9. ASSUME NEW q \in Procs, NEW op \in Ops, NEW n \in Names, Begin(q, op, n) PROVE FALSE
  <2>1. cmd \in [Procs -> {Idle, Killed} \cup Command]
    BY <1>1 DEF Types, TypeOK
  <2>2. q # p
    BY <1>9 DEF Begin, Idle, Killed
  <2> QED
    BY <1>8, <1>9, <2>1, <2>2 DEF Begin
<1>10. cmd'[p] # Killed
  BY <1>2
<1>11. ~Crash(p)
  BY <1>1, <1>10 DEF Crash, Types, TypeOK
<1>12. ASSUME NEW q \in Procs \ {p}, StartVM(q) \/ StopVM(q) \/ TakeSnapshot(q)
                                        \/ Save(q) \/ Unrow(q) \/ Crash(q)
       PROVE  FALSE
  BY <1>1, <1>8, <1>12, OthersGoOn
<1>13. ~Reap(p) /\ ~(UNCHANGED vars) /\ ~(\E v \in vms : Halt(v))
  BY <1>8 DEF Reap, vars, Halt
<1> QED
  BY <1>5, <1>6, <1>7, <1>9, <1>11, <1>12, <1>13 DEF Next, StartVM

\* destroy and freeze end, and resize goes on, when the VM is gone and not
\* before, whatever becomes of Ctrl+Alt+Del and of the snapshot.
THEOREM StoppedBefore ==
    ASSUME Injective, ~PidReuse
    PROVE  Spec => StoppedIsGone
<1>1. ASSUME IInv, [Next]_vars, NEW p \in Procs, cmd[p].op = "resize", At(p, "launch")
      PROVE  \A v \in vms : v.pid # rows[cmd[p].name].pid
  BY <1>1, CommandAt DEF Knows, Down, Gone
<1>2. IInv /\ [Next]_vars =>
         [\A p \in Procs :
             /\ cmd[p].op \in {"destroy", "freeze"} /\ cmd'[p] = Idle
                => \A v \in vms' : v.pid # cmd[p].pid
             /\ cmd[p].op = "resize" /\ At(p, "launch")
                => \A v \in vms : v.pid # rows[cmd[p].name].pid]_vars
  BY <1>1, StepLeavesNone
<1> QED
  BY Inductive, <1>2, PTL DEF Spec, StoppedIsGone

-----------------------------------------------------------------------------
(***************************************************************************)
(* The types need none of the two assumptions.                             *)
(***************************************************************************)
CommandTypes ==
    /\ cmd \in [Procs -> {Idle, Killed} \cup Command]
    /\ \A p \in Procs : Active(p) => Positioned(cmd[p])
    /\ watched \in [Procs -> Nat]

VMTypes ==
    /\ vms \subseteq VM
    /\ \A v, w \in vms : v.pid = w.pid => v = w
    /\ \A v \in vms : v.pid # 0

LEMMA CommandTypesStep ==
    ASSUME CommandTypes, NEW p \in Procs, NEW c, c \in {Idle, Killed} \/ Positioned(c),
           cmd' = [cmd EXCEPT ![p] = c], watched' \in [Procs -> Nat]
    PROVE  CommandTypes'
<1>1. c \in {Idle, Killed} \cup Command
  BY DEF Positioned
<1>2. cmd'[p] = c /\ \A q \in Procs \ {p} : cmd'[q] = cmd[q]
  BY DEF CommandTypes
<1>3. \A q \in Procs : Active(q)' => Positioned(cmd'[q])
  BY <1>2 DEF CommandTypes, Active
<1> QED
  BY <1>1, <1>3 DEF CommandTypes, Positioned

LEMMA GoesOnTypes ==
    ASSUME CommandTypes, NEW p \in Procs, Ends(p) \/ \E step : MovesTo(p, step)
    PROVE  CommandTypes'
<1>1. CASE Ends(p)
  BY <1>1, CommandTypesStep DEF Ends, CommandTypes
<1>2. CASE \E step : MovesTo(p, step)
  BY <1>2, CommandTypesStep DEF MovesTo, CommandTypes
<1> QED
  BY <1>1, <1>2

LEMMA LaunchTypes ==
    ASSUME Types, NEW p \in Procs, Launch(p)
    PROVE  CommandTypes' /\ VMTypes' /\ sockets' \in [Jails -> Nat]
<1>1. CommandTypes /\ VMTypes /\ sockets \in [Jails -> Nat]
  BY DEF Types, TypeOK, CommandTypes, VMTypes
<1>2. At(p, "launch") /\ Active(p) /\ cmd[p] \in Command /\ cmd[p].op \in Ops /\ cmd[p].name \in Names
  BY AtStep DEF Launch, Command
<1>3. CASE Return(p) /\ UNCHANGED vms /\ sockets' = [sockets EXCEPT ![Jail(p)] = 0]
  <2>1. Ends(p)
    BY <1>2, <1>3 DEF Return, Continue, Ends, Command
  <2> QED
    BY <1>1, <1>3, <2>1, GoesOnTypes DEF VMTypes
<1>4. ASSUME NEW k \in FreshPids,
             vms' = vms \cup {[pid |-> k, name |-> cmd[p].name, asked |-> FALSE,
                               paused |-> FALSE, limited |-> FALSE]},
             sockets' = [sockets EXCEPT ![Jail(p)] = k],
             cmd' = [cmd EXCEPT ![p].todo = Tail(@), ![p].pid = k],
             watched' = [watched EXCEPT ![p] = k]
      PROVE  CommandTypes' /\ VMTypes' /\ sockets' \in [Jails -> Nat]
  <2>1. k \in Nat /\ k # 0 /\ \A v \in vms : v.pid # k
    BY MaxPidAssumption DEF FreshPids, UsedPids
  <2>2. PICK i \in 1 .. Len(Plan[cmd[p].op]) :
           cmd[p].todo = From(cmd[p].op, i) /\ Plan[cmd[p].op][i] = "launch"
    BY <1>2, AtStep
  <2>3. i < Len(Plan[cmd[p].op]) /\ Len(Plan[cmd[p].op]) \in Nat
    BY <1>2, <2>2, PlanSteps, PlanTypes, SMTT(30)
  <2>4. Tail(cmd[p].todo) = From(cmd[p].op, i + 1) /\ i + 1 \in 1 .. Len(Plan[cmd[p].op])
    <3>1. Tail(From(cmd[p].op, i)) = SubSeq(From(cmd[p].op, i), 2, Len(From(cmd[p].op, i)))
      BY <1>2, RestOfPlan
    <3>2. i + 1 <= Len(Plan[cmd[p].op])
      BY <2>3
    <3>3. SubSeq(From(cmd[p].op, i), 1 + 1, Len(From(cmd[p].op, i))) = From(cmd[p].op, i + 1)
      BY <1>2, <3>2, RestOfPlan
    <3> QED
      BY <2>2, <2>3, <3>1, <3>3, SMTT(30)
  <2> DEFINE c == [cmd[p] EXCEPT !.todo = From(cmd[p].op, i + 1), !.pid = k]
  <2>5. From(cmd[p].op, i + 1) \in Seq(Steps) /\ From(cmd[p].op, i + 1) # <<>>
    BY <1>2, <2>4, RestOfPlan
  <2>6. c \in Command /\ c.op = cmd[p].op /\ c.todo = From(c.op, i + 1)
    BY <1>2, <2>1, <2>5 DEF Command
  <2>7. Positioned(c)
    BY <2>4, <2>6 DEF Positioned
  <2>8. cmd' = [cmd EXCEPT ![p] = c]
    BY <1>1, <1>2, <1>4, <2>4 DEF CommandTypes, Command
  <2>9. watched' \in [Procs -> Nat] /\ sockets' \in [Jails -> Nat]
    BY <1>1, <1>4, <2>1 DEF CommandTypes
  <2> HIDE DEF c
  <2>10. CommandTypes'
    BY <1>1, <2>7, <2>8, <2>9, CommandTypesStep
  <2>11. VMTypes'
    <3>1. [pid |-> k, name |-> cmd[p].name, asked |-> FALSE, paused |-> FALSE,
           limited |-> FALSE] \in VM
      BY <1>2, <2>1 DEF VM
    <3> DEFINE new == [pid |-> k, name |-> cmd[p].name, asked |-> FALSE,
                       paused |-> FALSE, limited |-> FALSE]
    <3>2. new \in VM /\ new.pid = k /\ vms' = vms \cup {new}
      BY <1>4, <3>1
    <3> HIDE DEF new
    <3> QED
      BY <1>1, <2>1, <3>2 DEF VMTypes
  <2> QED
    BY <2>9, <2>10, <2>11
<1> QED
  BY <1>2, <1>3, <1>4 DEF Launch

LEMMA LimitTypes ==
    ASSUME Types, NEW p \in Procs, Limit(p)
    PROVE  VMTypes'
<1>1. CASE UNCHANGED vms
  BY <1>1 DEF Types, TypeOK, VMTypes
<1>2. CASE vms' = {IF v.pid = cmd[p].pid THEN [v EXCEPT !.limited = TRUE] ELSE v : v \in vms}
  <2> DEFINE Lim(v) == IF v.pid = cmd[p].pid THEN [v EXCEPT !.limited = TRUE] ELSE v
  <2>1. \A v \in vms : v \in VM
    BY DEF Types, TypeOK
  <2>2. \A v \in vms : Lim(v) \in VM /\ Lim(v).pid = v.pid
    BY <2>1 DEF VM
  <2>3. vms' = {Lim(v) : v \in vms}
    BY <1>2
  <2> HIDE DEF Lim
  <2> QED
    BY <2>2, <2>3 DEF Types, TypeOK, VMTypes
<1> QED
  BY <1>1, <1>2 DEF Limit

\* Steps that ask, pause or resume a VM, or end one.
LEMMA ChangeTypes ==
    ASSUME Types,
           \/ vms' \subseteq vms
           \/ \E v \in vms : \E b \in BOOLEAN :
                 Change(v, [v EXCEPT !.asked = b]) \/ Change(v, [v EXCEPT !.paused = b])
    PROVE  VMTypes'
<1>1. CASE vms' \subseteq vms
  BY <1>1 DEF Types, TypeOK, VMTypes
<1>2. ASSUME NEW v \in vms, NEW w \in VM, Change(v, w), w.pid = v.pid
      PROVE  VMTypes'
  BY <1>2 DEF Types, TypeOK, VMTypes, Change
<1> QED
  BY <1>1, <1>2, VMRecords

LEMMA TypesInv == Types /\ [Next]_vars => Types'
<1> SUFFICES ASSUME Types, [Next]_vars PROVE Types'
  OBVIOUS
<1>0. /\ CommandTypes /\ VMTypes /\ rows \in [Names -> Row] /\ sockets \in [Jails -> Nat]
      /\ cgroups \subseteq Jails
  BY DEF Types, TypeOK, CommandTypes, VMTypes
<1>1. SUFFICES /\ CommandTypes' /\ VMTypes' /\ rows' \in [Names -> Row]
               /\ sockets' \in [Jails -> Nat] /\ cgroups' \subseteq Jails
  BY DEF Types, TypeOK, CommandTypes, VMTypes, Positioned, Active
<1>2. ASSUME NEW p \in Procs, NEW op \in Ops, NEW n \in Names, Begin(p, op, n)
      PROVE  CommandTypes'
  <2> DEFINE c == [op |-> op, name |-> n, pid |-> rows[n].pid, todo |-> PlanFor(op, rows[n].pid)]
  <2>1. rows[n].pid \in Nat
    BY <1>0 DEF Row
  <2>2. PICK i \in 1 .. Len(Plan[op]) : PlanFor(op, rows[n].pid) = From(op, i)
    BY <2>1, FirstStep
  <2>3. From(op, i) \in Seq(Steps) /\ From(op, i) # <<>>
    BY RestOfPlan
  <2>4. Positioned(c)
    BY <2>1, <2>2, <2>3 DEF Positioned, Command
  <2>5. cmd' = [cmd EXCEPT ![p] = c] /\ watched' \in [Procs -> Nat]
    BY <1>0, <1>2 DEF Begin, CommandTypes
  <2> HIDE DEF c
  <2> QED
    BY <1>0, <2>4, <2>5, CommandTypesStep
<1>3. ASSUME NEW p \in Procs, StopVM(p) \/ TakeSnapshot(p) \/ CleanJail(p) \/ Limit(p)
                                \/ Save(p) \/ Unrow(p)
      PROVE  CommandTypes'
  <2>1. Ends(p) \/ \E step : MovesTo(p, step)
    BY <1>3, Onward DEF StopVM, TakeSnapshot, CleanJail, Limit, Save, Unrow, Ask, Poll, Kill,
           RemoveCgroup, RemoveJail, Pause, CreateSnapshot, Resume
  <2> QED
    BY <1>0, <2>1, GoesOnTypes
<1>4. ASSUME NEW p \in Procs, Crash(p) PROVE CommandTypes'
  BY <1>0, <1>4, CommandTypesStep DEF Crash, CommandTypes
<1>5. ASSUME NEW p \in Procs, Reap(p) PROVE CommandTypes'
  BY <1>0, <1>5 DEF Reap, CommandTypes, Active, Positioned
<1>6. CommandTypes'
  <2>1. CASE UNCHANGED <<cmd, watched>>
    BY <1>0, <2>1 DEF CommandTypes, Active, Positioned
  <2> QED
    BY <1>2, <1>3, <1>4, <1>5, <2>1, LaunchTypes DEF Next, StartVM, Halt, vars
<1>7. ASSUME NEW p \in Procs, StopVM(p) \/ TakeSnapshot(p) PROVE VMTypes'
  <2>1. \/ vms' \subseteq vms
        \/ \E v \in vms : \E b \in BOOLEAN :
              Change(v, [v EXCEPT !.asked = b]) \/ Change(v, [v EXCEPT !.paused = b])
    BY <1>7 DEF StopVM, TakeSnapshot, Ask, Poll, Kill, RemoveCgroup, RemoveJail, Pause,
           CreateSnapshot, Resume, Listening
  <2> QED
    BY <2>1, ChangeTypes
<1>8. VMTypes'
  <2>1. CASE vms' \subseteq vms
    BY <2>1, ChangeTypes
  <2> QED
    BY <1>7, <2>1, LaunchTypes, LimitTypes
       DEF Next, StartVM, Halt, vars, CleanJail, Reap, Begin, Save, Unrow, Crash
<1>9. rows' \in [Names -> Row]
  <2>1. ASSUME NEW p \in Procs, Save(p) PROVE rows' \in [Names -> Row]
    <3>1. cmd[p].pid \in Nat
      BY <2>1, AtStep DEF Save, Command
    <3>2. RowAfter(cmd[p]) \in Row
      BY <3>1 DEF RowAfter, Row
    <3> QED
      BY <1>0, <2>1, <3>2 DEF Save
  <2>2. ASSUME NEW p \in Procs, Unrow(p) PROVE rows' \in [Names -> Row]
    BY <1>0, <2>2 DEF Unrow, Row
  <2>3. CASE UNCHANGED rows
    BY <1>0, <2>3
  <2> QED
    BY <2>1, <2>2, <2>3
       DEF Next, StartVM, StopVM, TakeSnapshot, Halt, vars, CleanJail, Launch, Limit, Reap, Ask,
           Poll, Kill, RemoveCgroup, RemoveJail, Pause, CreateSnapshot, Resume, Begin, Crash
<1>10. sockets' \in [Jails -> Nat]
  <2>1. CASE UNCHANGED sockets
    BY <1>0, <2>1
  <2>2. ASSUME NEW p \in Procs, sockets' = [sockets EXCEPT ![Jail(p)] = 0]
        PROVE  sockets' \in [Jails -> Nat]
    BY <1>0, <2>2
  <2> QED
    BY <2>1, <2>2, LaunchTypes
       DEF Next, StartVM, StopVM, TakeSnapshot, Halt, vars, CleanJail, Limit, Reap, Ask,
           Poll, Kill, RemoveCgroup, RemoveJail, Pause, CreateSnapshot, Resume, Begin, Save,
           Unrow, Crash
<1>11. cgroups' \subseteq Jails
  <2>1. CASE cgroups' \subseteq cgroups
    BY <1>0, <2>1
  <2>2. ASSUME NEW p \in Procs, Limit(p) PROVE cgroups' \subseteq Jails
    <3>1. Jail(p) \in Jails
      BY <2>2, AtStep, ActiveName, JailAssumption DEF Limit, Jail
    <3> QED
      BY <1>0, <2>2, <3>1 DEF Limit
  <2> QED
    BY <2>1, <2>2
       DEF Next, StartVM, StopVM, TakeSnapshot, Halt, vars, CleanJail, Launch, Reap, Ask,
           Poll, Kill, RemoveCgroup, RemoveJail, Pause, CreateSnapshot, Resume, Begin, Save,
           Unrow, Crash, CgroupsWithout
<1> QED
  BY <1>0, <1>6, <1>8, <1>9, <1>10, <1>11

\* Rows, commands, VMs and what they have on the host keep their types: a
\* PID is that of one VM, whether or not the kernel gives out noted ones.
THEOREM TypeCorrect == Spec => []TypeOK
<1>1. Init => Types
  BY InitInv DEF IInv
<1>2. Types => TypeOK
  BY DEF Types
<1> QED
  BY <1>1, <1>2, TypesInv, PTL DEF Spec
=============================================================================
