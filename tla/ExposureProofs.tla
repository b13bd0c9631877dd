--------------------------- MODULE ExposureProofs ---------------------------
(***************************************************************************)
(* Types, what a rule, record or route is made for, and what is left of a  *)
(* project that is gone: for any projects, hostnames, ports and commands   *)
(* at a time.                                                              *)
(*                                                                         *)
(* The invariant Core says what all lists of steps have in common, those   *)
(* that are left after a failure included: whose steps they are (Fits), in *)
(* which order they come (Ordered), and that the project of a command that *)
(* has registered it keeps its index to the end (OwnsRow).  The proofs     *)
(* follow a list to its end without knowing which command made it.         *)
(***************************************************************************)
EXTENDS Exposure, FiniteSetTheorems, SequenceTheorems, WellFoundedInduction, TLAPS

-----------------------------------------------------------------------------
(* Sequences of steps. *)

LEMMA Elements ==
    ASSUME NEW S, NEW s \in Seq(S)
    PROVE  /\ ToSet(s) \subseteq S
           /\ \A k \in DOMAIN s : s[k] \in ToSet(s)
           /\ DOMAIN s = 1 .. Len(s)
           /\ s # <<>> => Head(s) \in ToSet(s) /\ Len(s) > 0
BY LenProperties DEF ToSet

LEMMA TailElements ==
    ASSUME NEW S, NEW s \in Seq(S), s # <<>>
    PROVE  /\ Tail(s) \in Seq(S)
           /\ Len(Tail(s)) = Len(s) - 1
           /\ \A k \in DOMAIN Tail(s) : k + 1 \in DOMAIN s /\ Tail(s)[k] = s[k + 1]
           /\ ToSet(s) = {Head(s)} \cup ToSet(Tail(s))
<1>1. Tail(s) \in Seq(S) /\ Len(Tail(s)) = Len(s) - 1 /\ Len(s) \in Nat /\ Len(s) > 0
  BY HeadTailProperties, LenProperties, EmptySeq
<1>2. \A k \in DOMAIN Tail(s) : k + 1 \in DOMAIN s /\ Tail(s)[k] = s[k + 1]
  BY <1>1, HeadTailProperties, LenProperties
<1>3. \A k \in DOMAIN s : k = 1 \/ (k - 1 \in DOMAIN Tail(s) /\ s[k] = Tail(s)[k - 1])
  BY <1>1, <1>2, LenProperties
<1>4. s[1] = Head(s) /\ 1 \in DOMAIN s
  BY <1>1, LenProperties
<1>6. \A x \in ToSet(s) : x = Head(s) \/ x \in ToSet(Tail(s))
  <2> TAKE x \in ToSet(s)
  <2>1. PICK k \in DOMAIN s : x = s[k]
    BY DEF ToSet
  <2>2. CASE k = 1
    BY <1>4, <2>1, <2>2
  <2>3. CASE k - 1 \in DOMAIN Tail(s) /\ s[k] = Tail(s)[k - 1]
    BY <2>1, <2>3 DEF ToSet
  <2> QED
    BY <1>3, <2>2, <2>3
<1>7. \A x \in ToSet(Tail(s)) : x \in ToSet(s)
  BY <1>2 DEF ToSet
<1>8. Head(s) \in ToSet(s)
  BY <1>4 DEF ToSet
<1> QED
  BY <1>1, <1>2, <1>6, <1>7, <1>8

LEMMA ConcatElements ==
    ASSUME NEW S, NEW s \in Seq(S), NEW t \in Seq(S)
    PROVE  /\ s \o t \in Seq(S)
           /\ ToSet(s \o t) = ToSet(s) \cup ToSet(t)
           /\ \A k \in DOMAIN (s \o t) :
                 \/ k \in DOMAIN s /\ (s \o t)[k] = s[k]
                 \/ k - Len(s) \in DOMAIN t /\ (s \o t)[k] = t[k - Len(s)]
<1>1. s \o t \in Seq(S) /\ Len(s \o t) = Len(s) + Len(t) /\ Len(s) \in Nat /\ Len(t) \in Nat
  BY ConcatProperties, LenProperties
<1>2. \A k \in DOMAIN (s \o t) :
         \/ k \in DOMAIN s /\ (s \o t)[k] = s[k]
         \/ k - Len(s) \in DOMAIN t /\ (s \o t)[k] = t[k - Len(s)]
  BY <1>1, ConcatProperties, LenProperties
<1>3. \A k \in DOMAIN s : k \in DOMAIN (s \o t) /\ (s \o t)[k] = s[k]
  BY <1>1, ConcatProperties, LenProperties
<1>4. \A k \in DOMAIN t : k + Len(s) \in DOMAIN (s \o t) /\ (s \o t)[k + Len(s)] = t[k]
  BY <1>1, ConcatProperties, LenProperties
<1>5. ToSet(s \o t) \subseteq ToSet(s) \cup ToSet(t)
  BY <1>2 DEF ToSet
<1>6. ToSet(s) \cup ToSet(t) \subseteq ToSet(s \o t)
  BY <1>3, <1>4 DEF ToSet
<1> QED
  BY <1>1, <1>2, <1>5, <1>6

-----------------------------------------------------------------------------
(* What a command still has to do. *)

\* The operations that have a step of a kind, with their clean-up.
Users(kind) ==
    CASE kind = "register"               -> {"deploy", "clone", "load"}
      [] kind = "boot"                   -> {"deploy", "clone", "load", "unfreeze"}
      [] kind \in {"serve", "route"}     -> {"deploy", "clone", "unfreeze", "route add"}
      [] kind = "unroute"                -> {"destroy", "freeze", "route remove", "unexpose"}
      [] kind \in {"open", "forward"}    -> {"deploy", "clone", "port open", "daemon"}
      [] kind = "unforward"              -> {"destroy", "port open", "port close"}
      [] kind = "save"                   -> Ops \ {"push", "destroy", "daemon"}
      [] kind = "dns"                    -> {"deploy", "clone", "load", "route add",
                                             "route remove", "unexpose"}
      [] kind = "undns"                  -> {"destroy"}
      [] kind = "unrow"                  -> {"push", "destroy", "deploy", "clone"}
      [] kind = "ready"                  -> {"daemon"}

\* y may come after x in operation op.
Follows(op, x, y) ==
    /\ y[1] \notin {"register", "serve", "forward"}
    /\ x[1] \notin {"unrow", "ready"}
    /\ op \in {"deploy", "clone"} => x[1] # "dns"
    /\ op = "route add" => y[1] # "dns"
    /\ y[1] = "boot" => x[1] = "register"
    /\ x[1] = "save" => y[1] \in {"dns", "unroute"}
    /\ y[1] = "unrow" => x[1] \in {"unroute", "unforward", "undns"}

Ordered(op, todo) == \A j, k \in DOMAIN todo : j < k => Follows(op, todo[j], todo[k])

\* A step of operation op on project n.
Fits(step, op, n) ==
    /\ op \in Users(step[1])
    /\ op # "daemon" /\ step[1] \in {"open", "forward", "unforward"} => step[3] = Own
    /\ step[1] \in {"route", "unroute", "dns", "undns"} => step[2] \in HostsOf(n)

Has(todo, kind) == \E step \in ToSet(todo) : step[1] = kind

\* The command c is somewhere in its work.
Shaped(c) ==
    /\ c \in Command
    /\ c.op \in Ops
    /\ c.op # "daemon" => c.name \in Names /\ c.row.domain \in {NoHost} \cup HostsOf(c.name)
    /\ c.op = "daemon" => c.name = NoName
    /\ c.todo # <<>>
    /\ \A step \in ToSet(c.todo) : Fits(step, c.op, c.name)
    /\ Ordered(c.op, c.todo)
    /\ Head(c.todo)[1] = "serve" => Tail(c.todo) # <<>> /\ Head(Tail(c.todo))[1] = "route"

\* The project of c has no row before c has registered it, and then the index
\* that c knows.
OwnsRow(c) ==
    c.op \in Ops \ {"daemon"} =>
       IF Has(c.todo, "register")
       THEN ~Present(rows, c.name)
       ELSE \/ HasIndex(c.name, c.row.rowid)
            \/ \A step \in ToSet(c.todo) : step[1] = "unroute"

\* What the daemon read of the store is still there.
ReadsRows(c) ==
    c.op = "daemon" =>
       \A step \in ToSet(c.todo) :
          step[1] \in {"open", "forward"} =>
             \E n \in Names : HasIndex(n, step[3]) /\ step[2] \in rows[n].ports

RowsAreProjects ==
    /\ \A n \in Names : Present(rows, n) \/ rows[n] = NoProject
    /\ \A m, n \in Names : Present(rows, m) /\ rows[m].rowid = rows[n].rowid => m = n
    /\ \A n \in Names : rows[n].domain \in {NoHost} \cup HostsOf(n)

OnePerProject == \A p, q \in Procs : cmd[p].name = cmd[q].name => p = q \/ cmd[p].name = NoName

DaemonIsAlone ==
    DaemonAlone =>
       /\ \A p, q \in Procs : cmd[p].op = "daemon" /\ cmd[q] # Idle => p = q
       /\ \A p \in Procs : ReadsRows(cmd[p])

Core ==
    /\ TypeOK
    /\ RowsAreProjects
    /\ OnePerProject
    /\ DaemonIsAlone
    /\ \A p \in Procs : (cmd[p] = Idle \/ Shaped(cmd[p])) /\ OwnsRow(cmd[p])

LEMMA IdleCommand == Idle \in Command /\ NoProject \in Project /\ Idle.op \notin Ops
  BY EmptySeq, NoneAssumption DEF Idle, NoProject, Command, Project, Ops

LEMMA IdleIs == Idle.op = "none" /\ Idle.name = NoName /\ Idle.todo = <<>>
  BY DEF Idle

HostTypes ==
    /\ server \in BOOLEAN
    /\ routes \in [Hosts -> Nat]
    /\ lost \subseteq Hosts
    /\ dns \in [Hosts -> Nat \cup {HostIP}]
    /\ rules \in [Ports -> Seq(Nat)]
    /\ restored \in BOOLEAN

\* OwnsRow and ReadsRows see only the rows of the command's own project, and
\* all rows.
LEMMA SameRowOwned ==
    ASSUME NEW c, c.op \in Ops \ {"daemon"} => rows'[c.name] = rows[c.name], OwnsRow(c)
    PROVE  OwnsRow(c)'
BY DEF OwnsRow, Present, HasIndex

LEMMA SameRowsRead ==
    ASSUME NEW c, rows' = rows, ReadsRows(c)
    PROVE  ReadsRows(c)'
BY DEF ReadsRows, Present, HasIndex

LEMMA IdleOwns == OwnsRow(Idle) /\ ReadsRows(Idle) /\ OwnsRow(Idle)' /\ ReadsRows(Idle)'
  BY DEF Idle, OwnsRow, ReadsRows, Ops

\* A step of one command, or its end.
LEMMA CoreStep ==
    ASSUME Core, NEW p \in Procs, cmd[p] # Idle, NEW c,
           cmd' = [cmd EXCEPT ![p] = c],
           c = Idle \/ (Shaped(c) /\ c.op = cmd[p].op /\ c.name = cmd[p].name),
           OwnsRow(c)', DaemonAlone => ReadsRows(c)',
           rows' \in [Names -> Project], HostTypes', RowsAreProjects',
           \A n \in Names : n # cmd[p].name => rows'[n] = rows[n]
    PROVE  Core'
<1>1. cmd \in [Procs -> Command] /\ cmd'[p] = c /\ \A q \in Procs : q # p => cmd'[q] = cmd[q]
  BY DEF Core, TypeOK
<1>3. TypeOK'
  <2>1. c \in Command
    BY IdleCommand DEF Shaped
  <2> QED
    BY <1>1, <2>1 DEF TypeOK, HostTypes
<1>4. OnePerProject'
  BY <1>1, NoneAssumption DEF Core, OnePerProject, Idle
<1>5. \A q \in Procs : cmd'[q] = Idle \/ Shaped(cmd'[q])
  BY <1>1 DEF Core
<1>6. \A q \in Procs : OwnsRow(cmd[q])'
  <2> TAKE q \in Procs
  <2>1. CASE q = p
    <3>1. \A x : x = c => OwnsRow(x)'
      OBVIOUS
    <3> QED
      BY <1>1, <2>1, <3>1 DEF OwnsRow
  <2>2. CASE q # p
    <3> DEFINE d == cmd[q]
    <3>1. OwnsRow(d) /\ (d.op \in Ops \ {"daemon"} => rows'[d.name] = rows[d.name])
      <4>1. CASE d = Idle
        BY <4>1, IdleCommand DEF Core
      <4>2. CASE Shaped(d) /\ d.op \in Ops \ {"daemon"}
        <5>1. d.name \in Names /\ d.name # cmd[p].name
          BY <2>2, <4>2, NoneAssumption DEF Core, OnePerProject, Shaped
        <5> QED
          BY <5>1 DEF Core
      <4> QED
        BY <4>1, <4>2 DEF Core, Shaped
    <3>2. \A x : OwnsRow(x) /\ (x.op \in Ops \ {"daemon"} => rows'[x.name] = rows[x.name])
                    => OwnsRow(x)'
      BY SameRowOwned
    <3> QED
      BY <1>1, <2>2, <3>1, <3>2 DEF OwnsRow
  <2> QED
    BY <2>1, <2>2
<1>7. DaemonIsAlone'
  <2> SUFFICES ASSUME DaemonAlone
               PROVE  /\ \A q, r \in Procs : cmd'[q].op = "daemon" /\ cmd'[r] # Idle => q = r
                      /\ \A q \in Procs : ReadsRows(cmd[q])'
    BY DEF DaemonIsAlone
  <2>1. \A q, r \in Procs : cmd[q].op = "daemon" /\ cmd[r] # Idle => q = r
    BY DEF Core, DaemonIsAlone
  <2>2. \A q \in Procs : cmd'[q] = Idle \/ (cmd[q] # Idle /\ cmd'[q].op = cmd[q].op)
    BY <1>1
  <2>3. Idle.op # "daemon"
    BY DEF Idle
  <2>4. ASSUME NEW q \in Procs PROVE ReadsRows(cmd[q])'
    <3>1. CASE q = p
      <4>1. \A x : x = c => ReadsRows(x)'
        OBVIOUS
      <4> QED
        BY <1>1, <3>1, <4>1 DEF ReadsRows
    <3>2. CASE q # p
      <4>1. cmd'[q].op # "daemon"
        BY <1>1, <2>1, <3>2
      <4> QED
        BY <4>1 DEF ReadsRows
    <3> QED
      BY <3>1, <3>2
  <2> QED
    BY <2>1, <2>2, <2>3, <2>4
<1> QED
  BY <1>3, <1>4, <1>5, <1>6, <1>7 DEF Core

\* A command begins.
LEMMA CoreBegin ==
    ASSUME Core, NEW p \in Procs, NEW op, NEW n, NEW row, NEW todo, Begin(p, op, n, row, todo),
           NEW c, c = [op |-> op, name |-> n, row |-> row, todo |-> todo],
           Shaped(c), OwnsRow(c), DaemonAlone => ReadsRows(c),
           op = "daemon" /\ DaemonAlone => \A q \in Procs : cmd[q] = Idle
    PROVE  Core' /\ rows' = rows
<1>1. /\ cmd[p] = Idle /\ cmd' = [cmd EXCEPT ![p] = c] /\ rows' = rows
      /\ n # NoName => \A q \in Procs : cmd[q].name # n
      /\ DaemonAlone => \A q \in Procs : cmd[q].op # "daemon"
      /\ UNCHANGED <<server, routes, lost, dns, rules, restored>>
  BY DEF Begin, DaemonRuns, caddy
<1>2. cmd \in [Procs -> Command] /\ cmd'[p] = c /\ \A q \in Procs : q # p => cmd'[q] = cmd[q]
  BY <1>1 DEF Core, TypeOK
<1>3. TypeOK'
  BY <1>1, <1>2 DEF Core, TypeOK, Shaped
<1>4. RowsAreProjects'
  BY <1>1 DEF Core, RowsAreProjects, Present
<1>5. OnePerProject'
  BY <1>1, <1>2 DEF Core, OnePerProject
<1>6. \A q \in Procs : (cmd'[q] = Idle \/ Shaped(cmd'[q])) /\ OwnsRow(cmd'[q])
  BY <1>2 DEF Core
<1>7. \A q \in Procs : OwnsRow(cmd[q])'
  BY <1>1, <1>6 DEF OwnsRow, Present, HasIndex
<1>8. DaemonIsAlone'
  <2> SUFFICES ASSUME DaemonAlone
               PROVE  /\ \A q, r \in Procs : cmd'[q].op = "daemon" /\ cmd'[r] # Idle => q = r
                      /\ \A q \in Procs : ReadsRows(cmd[q])'
    BY DEF DaemonIsAlone
  <2>1. \A q \in Procs : ReadsRows(cmd'[q])
    BY <1>2 DEF Core, DaemonIsAlone
  <2>2. \A q \in Procs : ReadsRows(cmd[q])'
    BY <1>1, <2>1 DEF ReadsRows, Present, HasIndex
  <2>3. \A q, r \in Procs : cmd'[q].op = "daemon" /\ cmd'[r] # Idle => q = r
    BY <1>1, <1>2
  <2> QED
    BY <2>2, <2>3
<1> QED
  BY <1>1, <1>3, <1>4, <1>5, <1>6, <1>7, <1>8 DEF Core

\* A part of what operation op does to project n.
Part(s, op, n) ==
    /\ s \in Seq(Step)
    /\ Ordered(op, s)
    /\ \A step \in ToSet(s) : Fits(step, op, n)

LEMMA OneStep ==
    ASSUME NEW x \in Step, NEW op, NEW n, Fits(x, op, n)
    PROVE  Part(<<x>>, op, n) /\ ToSet(<<x>>) = {x}
<1>1. <<x>> \in Seq(Step) /\ DOMAIN <<x>> = {1} /\ <<x>>[1] = x
  OBVIOUS
<1>2. ToSet(<<x>>) = {x}
  BY <1>1 DEF ToSet
<1> QED
  BY <1>1, <1>2 DEF Part, Ordered

LEMMA JoinedParts ==
    ASSUME NEW s, NEW t, NEW op, NEW n, Part(s, op, n), Part(t, op, n),
           \A x \in ToSet(s), y \in ToSet(t) : Follows(op, x, y)
    PROVE  Part(s \o t, op, n) /\ ToSet(s \o t) = ToSet(s) \cup ToSet(t)
<1>1. s \in Seq(Step) /\ t \in Seq(Step) /\ Len(s) \in Nat /\ DOMAIN s = 1 .. Len(s)
         /\ DOMAIN t = 1 .. Len(t)
  BY LenProperties DEF Part
<1>2. /\ s \o t \in Seq(Step)
      /\ ToSet(s \o t) = ToSet(s) \cup ToSet(t)
      /\ \A k \in DOMAIN (s \o t) :
            \/ k \in DOMAIN s /\ (s \o t)[k] = s[k]
            \/ k - Len(s) \in DOMAIN t /\ (s \o t)[k] = t[k - Len(s)]
  BY <1>1, ConcatElements
<1>3. Ordered(op, s \o t)
  <2> SUFFICES ASSUME NEW j \in DOMAIN (s \o t), NEW k \in DOMAIN (s \o t), j < k
               PROVE  Follows(op, (s \o t)[j], (s \o t)[k])
    BY DEF Ordered
  <2>0. j \in Int /\ k \in Int
    BY <1>2, LenProperties
  <2>1. CASE k \in DOMAIN s /\ (s \o t)[k] = s[k]
    <3>1. j \in DOMAIN s /\ (s \o t)[j] = s[j]
      BY <1>1, <1>2, <2>0, <2>1
    <3> QED
      BY <2>1, <3>1 DEF Part, Ordered
  <2>2. CASE k - Len(s) \in DOMAIN t /\ (s \o t)[k] = t[k - Len(s)]
    <3>1. CASE j \in DOMAIN s /\ (s \o t)[j] = s[j]
      <4>1. s[j] \in ToSet(s) /\ t[k - Len(s)] \in ToSet(t)
        BY <2>2, <3>1 DEF ToSet
      <4> QED
        BY <2>2, <3>1, <4>1
    <3>2. CASE j - Len(s) \in DOMAIN t /\ (s \o t)[j] = t[j - Len(s)]
      <4>1. j - Len(s) < k - Len(s)
        BY <1>1, <2>0
      <4> QED
        BY <2>2, <3>2, <4>1 DEF Part, Ordered
    <3> QED
      BY <1>2, <3>1, <3>2
  <2> QED
    BY <1>2, <2>1, <2>2
<1> QED
  BY <1>2, <1>3 DEF Part

LEMMA WhenPart ==
    ASSUME NEW condition, NEW x, NEW op, NEW n, condition => x \in Step /\ Fits(x, op, n)
    PROVE  Part(When(condition, x), op, n) /\ ToSet(When(condition, x)) = {y \in {x} : condition}
<1>1. CASE condition
  BY <1>1, OneStep DEF When
<1>2. CASE ~condition
  <2>1. ToSet(<<>>) = {} /\ <<>> \in Seq(Step) /\ DOMAIN <<>> = {}
    BY DEF ToSet
  <2> QED
    BY <1>2, <2>1 DEF When, Part, Ordered
<1> QED
  BY <1>1, <1>2

\* An order of a set has each of its elements.
LEMMA OrderOfSet ==
    ASSUME NEW P, IsFiniteSet(P), NEW order \in SetToSeqs(P)
    PROVE  order \in Seq(P) /\ ToSet(order) = P /\ IsInjective(order)
<1>1. Cardinality(P) \in Nat
  BY FS_CardinalityType
<1>2. /\ order \in [1 .. Cardinality(P) -> P]
      /\ \A i, j \in 1 .. Cardinality(P) : i # j => order[i] # order[j]
  BY DEF SetToSeqs
<1>3. order \in Injection(1 .. Cardinality(P), P)
  BY <1>2 DEF Injection, IsInjective
<1>4. IsFiniteSet(1 .. Cardinality(P)) /\ Cardinality(1 .. Cardinality(P)) = Cardinality(P)
  BY <1>1, FS_Interval
<1>5. order \in Surjection(1 .. Cardinality(P), P)
  BY <1>3, <1>4, FS_Injection
<1>6. ToSet(order) = P
  <2>1. \A x \in P : \E i \in 1 .. Cardinality(P) : order[i] = x
    BY <1>5 DEF Surjection
  <2> QED
    BY <1>2, <2>1 DEF ToSet
<1> QED
  BY <1>1, <1>2, <1>6 DEF IsInjective

\* Steps made from an order of a set.
LEMMA StepsInOrder ==
    ASSUME NEW P, IsFiniteSet(P), NEW order \in SetToSeqs(P), NEW f \in [P -> Step],
           NEW s, s = [k \in DOMAIN order |-> f[order[k]]]
    PROVE  /\ s \in Seq(Step)
           /\ ToSet(s) = {f[x] : x \in P}
           /\ DOMAIN s = DOMAIN order
           /\ \A j, k \in DOMAIN s : j # k => order[j] # order[k]
<1>1. order \in Seq(P) /\ ToSet(order) = P /\ IsInjective(order)
  BY OrderOfSet
<1>2. Len(order) \in Nat /\ DOMAIN order = 1 .. Len(order) /\ order \in [1 .. Len(order) -> P]
  BY <1>1, LenProperties
<1>3. s \in [1 .. Len(order) -> Step]
  BY <1>2
<1>4. s \in Seq(Step)
  BY <1>2, <1>3
<1>5. \A k \in DOMAIN order : order[k] \in P /\ s[k] = f[order[k]]
  BY <1>2
<1>6. ToSet(s) = {f[x] : x \in P}
  <2>1. ASSUME NEW y \in ToSet(s) PROVE y \in {f[x] : x \in P}
    BY <1>5 DEF ToSet
  <2>2. ASSUME NEW x \in P PROVE f[x] \in ToSet(s)
    <3>1. PICK k \in DOMAIN order : x = order[k]
      BY <1>1 DEF ToSet
    <3>2. k \in DOMAIN s /\ s[k] = f[x]
      BY <1>5, <3>1
    <3> QED
      BY <3>2 DEF ToSet
  <2> QED
    BY <2>1, <2>2
<1> QED
  BY <1>1, <1>4, <1>6 DEF IsInjective

LEMMA OpeningPart ==
    ASSUME NEW ports \in SUBSET Ports, NEW s \in Opening(ports), NEW n,
           NEW op \in {"deploy", "clone"}
    PROVE  Part(s, op, n) /\ ToSet(s) = {OpenPort(port, Own) : port \in ports}
<1>1. PICK order \in SetToSeqs(ports) : s = [k \in DOMAIN order |-> OpenPort(order[k], Own)]
  BY DEF Opening
<1> DEFINE f == [port \in ports |-> OpenPort(port, Own)]
<1>2. IsFiniteSet(ports) /\ f \in [ports -> Step]
  <2>1. \A port \in ports : OpenPort(port, Own) \in Step
    BY DEF OpenPort, Step, Own
  <2>2. IsFiniteSet(ports)
    BY FS_Subset, FiniteAssumption
  <2> QED
    BY <2>1, <2>2 DEF OpenPort
<1>3. order \in Seq(ports)
  BY <1>2, OrderOfSet
<1>4. s = [k \in DOMAIN order |-> f[order[k]]]
  BY <1>1, <1>3, LenProperties
<1> HIDE DEF f
<1>5. s \in Seq(Step) /\ ToSet(s) = {f[x] : x \in ports}
  BY <1>2, <1>4, StepsInOrder
<1>6. ToSet(s) = {OpenPort(port, Own) : port \in ports}
  <2>2. {f[x] : x \in ports} = {OpenPort(x, Own) : x \in ports}
    BY DEF OpenPort, f
  <2> QED
    BY <1>5, <2>2
<1>7. \A step \in ToSet(s) : step[1] = "open" /\ step[3] = Own
  BY <1>6 DEF OpenPort
<1>8. \A k \in DOMAIN s : s[k][1] = "open"
  BY <1>5, <1>7, Elements
<1>9. Ordered(op, s)
  BY <1>8 DEF Ordered, Follows
<1>10. \A step \in ToSet(s) : Fits(step, op, n)
  BY <1>7 DEF Fits, Users
<1> QED
  BY <1>5, <1>6, <1>9, <1>10 DEF Part

LEMMA ClosingPart ==
    ASSUME NEW ports \in SUBSET Ports, NEW s \in Closing(ports), NEW n
    PROVE  Part(s, "destroy", n) /\ ToSet(s) = {ClosePort(port, Own) : port \in ports}
<1>1. PICK order \in SetToSeqs(ports) : s = [k \in DOMAIN order |-> ClosePort(order[k], Own)]
  BY DEF Closing
<1> DEFINE f == [port \in ports |-> ClosePort(port, Own)]
<1>2. IsFiniteSet(ports) /\ f \in [ports -> Step]
  <2>1. \A port \in ports : ClosePort(port, Own) \in Step
    BY DEF ClosePort, Step, Own
  <2>2. IsFiniteSet(ports)
    BY FS_Subset, FiniteAssumption
  <2> QED
    BY <2>1, <2>2 DEF ClosePort
<1>3. order \in Seq(ports)
  BY <1>2, OrderOfSet
<1>4. s = [k \in DOMAIN order |-> f[order[k]]]
  BY <1>1, <1>3, LenProperties
<1> HIDE DEF f
<1>5. s \in Seq(Step) /\ ToSet(s) = {f[x] : x \in ports}
  BY <1>2, <1>4, StepsInOrder
<1>6. ToSet(s) = {ClosePort(port, Own) : port \in ports}
  <2>2. {f[x] : x \in ports} = {ClosePort(x, Own) : x \in ports}
    BY DEF ClosePort, f
  <2> QED
    BY <1>5, <2>2
<1>7. \A step \in ToSet(s) : step[1] = "unforward" /\ step[3] = Own
  BY <1>6 DEF ClosePort
<1>8. \A k \in DOMAIN s : s[k][1] = "unforward"
  BY <1>5, <1>7, Elements
<1>9. Ordered("destroy", s)
  BY <1>8 DEF Ordered, Follows
<1>10. \A step \in ToSet(s) : Fits(step, "destroy", n)
  BY <1>7 DEF Fits, Users
<1> QED
  BY <1>5, <1>6, <1>9, <1>10 DEF Part

LEMMA TwoSteps ==
    ASSUME NEW x \in Step, NEW y \in Step, NEW op, NEW n, Fits(x, op, n), Fits(y, op, n),
           Follows(op, x, y)
    PROVE  Part(<<x, y>>, op, n) /\ ToSet(<<x, y>>) = {x, y}
<1>1. /\ <<x, y>> \in Seq(Step) /\ DOMAIN <<x, y>> = {1, 2}
      /\ <<x, y>>[1] = x /\ <<x, y>>[2] = y
  OBVIOUS
<1>2. ToSet(<<x, y>>) = {x, y}
  BY <1>1 DEF ToSet
<1> QED
  BY <1>1, <1>2 DEF Part, Ordered

LEMMA PartShaped ==
    ASSUME NEW op \in Ops, NEW n, NEW row \in Project, NEW todo, Part(todo, op, n),
           ToSet(todo) # {}, \A step \in ToSet(todo) : step[1] # "serve",
           IF op = "daemon" THEN n = NoName
                            ELSE n \in Names /\ row.domain \in {NoHost} \cup HostsOf(n)
    PROVE  Shaped([op |-> op, name |-> n, row |-> row, todo |-> todo])
<1>1. todo \in Seq(Step) /\ todo # <<>>
  BY DEF Part, ToSet
<1>2. Head(todo) \in ToSet(todo)
  BY <1>1, Elements
<1> QED
  BY <1>1, <1>2 DEF Part, Shaped, Command

LEMMA StepsOfProject ==
    ASSUME NEW n \in Names
    PROVE  /\ \A h \in HostsOf(n) : /\ <<"route", h, Own>> \in Step
                                    /\ <<"unroute", h>> \in Step
                                    /\ <<"undns", h>> \in Step
                                    /\ \A i \in {Own, HostIP} : <<"dns", h, i>> \in Step
           /\ \A port \in Ports : OpenPort(port, Own) \in Step /\ ClosePort(port, Own) \in Step
           /\ {<<"register">>, <<"boot">>, <<"save">>, <<"unrow">>, <<"ready">>} \subseteq Step
           /\ Fqdn[n] \in HostsOf(n) /\ Bare[n] \in HostsOf(n) /\ DomainsOf[n] \subseteq HostsOf(n)
<1>1. \A h \in HostsOf(n) : h \in Hosts
  BY HostsAssumption
<1> QED
  BY <1>1 DEF Step, OpenPort, ClosePort, Own, HostsOf

LEMMA SavePart ==
    ASSUME NEW op \in Ops \ {"push", "destroy", "daemon"}, NEW n
    PROVE  /\ <<"save">> \in Step /\ Fits(<<"save">>, op, n)
           /\ Part(<< <<"save">> >>, op, n) /\ ToSet(<< <<"save">> >>) = {<<"save">>}
<1>1. <<"save">> \in Step /\ Fits(<<"save">>, op, n)
  BY DEF Step, Fits, Users
<1> QED
  BY <1>1, OneStep

-----------------------------------------------------------------------------
(* The steps that each command begins with. *)

\* deploy and clone have the same steps, in another order.
BeginsNew(p, op, n) ==
    \E row \in Project, todo \in Seq(Step), port \in BOOLEAN, h \in HostsOf(n) :
       /\ Begin(p, op, n, row, todo)
       /\ row.domain \in {NoHost} \cup HostsOf(n)
       /\ row.made /\ row.status = "running" /\ (port => row.expose)
       /\ Part(todo, op, n)
       /\ ToSet(todo) = {<<"register">>, <<"boot">>, <<"save">>, <<"dns", Fqdn[n], Own>>}
                           \cup {y \in {<<"route", h, Own>>} : port}
                           \cup {OpenPort(x, Own) : x \in row.ports}

LEMMA DeploySteps ==
    ASSUME TypeOK, NEW p \in Procs, NEW n \in Names, Deploy(p, n)
    PROVE  BeginsNew(p, "deploy", n)
<1>1. PICK expose \in BOOLEAN, port \in BOOLEAN, ports \in SUBSET Ports,
           h \in DomainsOf[n] \cup {Fqdn[n]} : \E opening \in Opening(ports) :
         Begin(p, "deploy", n,
               [Making EXCEPT !.expose = expose \/ port, !.ports = ports],
               << <<"register">>, <<"boot">> >>
                  \o When(port, <<"route", h, Own>>)
                  \o opening
                  \o << <<"save">>, <<"dns", Fqdn[n], Own>> >>)
  BY DEF Deploy
<1>0. PICK opening \in Opening(ports) :
         Begin(p, "deploy", n,
               [Making EXCEPT !.expose = expose \/ port, !.ports = ports],
               << <<"register">>, <<"boot">> >>
                  \o When(port, <<"route", h, Own>>)
                  \o opening
                  \o << <<"save">>, <<"dns", Fqdn[n], Own>> >>)
  BY <1>1
<1> DEFINE row == [Making EXCEPT !.expose = expose \/ port, !.ports = ports]
           s1 == << <<"register">>, <<"boot">> >>
           s2 == When(port, <<"route", h, Own>>)
           s4 == << <<"save">>, <<"dns", Fqdn[n], Own>> >>
<1>2. row \in Project /\ row.ports \in SUBSET Ports /\ opening \in Opening(row.ports)
         /\ row.domain = NoHost /\ row.made /\ row.status = "running" /\ (port => row.expose)
  BY DEF Making, NoProject, Project
<1> HIDE DEF row
<1>3. h \in HostsOf(n)
  BY StepsOfProject
<1>4. Part(s1, "deploy", n) /\ ToSet(s1) = {<<"register">>, <<"boot">>}
  BY StepsOfProject, TwoSteps DEF Fits, Users, Follows
<1>5. Part(s2, "deploy", n) /\ ToSet(s2) = {y \in {<<"route", h, Own>>} : port}
  BY <1>3, StepsOfProject, WhenPart DEF Fits, Users
<1>6. Part(opening, "deploy", n) /\ ToSet(opening) = {OpenPort(x, Own) : x \in row.ports}
  BY <1>2, OpeningPart
<1>7. Part(s4, "deploy", n) /\ ToSet(s4) = {<<"save">>, <<"dns", Fqdn[n], Own>>}
  <2>1. /\ <<"save">> \in Step /\ Fits(<<"save">>, "deploy", n)
        /\ <<"dns", Fqdn[n], Own>> \in Step /\ Fits(<<"dns", Fqdn[n], Own>>, "deploy", n)
    BY StepsOfProject DEF Fits, Users, Ops
  <2> QED
    BY <2>1, TwoSteps DEF Follows
<1>8. /\ \A x \in ToSet(s1) : x[1] \in {"register", "boot"}
      /\ \A x \in ToSet(s2) : x[1] = "route"
      /\ \A x \in ToSet(opening) : x[1] = "open"
      /\ \A x \in ToSet(s4) : x[1] \in {"save", "dns"}
  BY <1>4, <1>5, <1>6, <1>7 DEF OpenPort
<1> HIDE DEF s1, s2, s4
<1>9. Part(s1 \o s2, "deploy", n) /\ ToSet(s1 \o s2) = ToSet(s1) \cup ToSet(s2)
  BY <1>4, <1>5, <1>8, JoinedParts DEF Follows
<1>10. Part(s1 \o s2 \o opening, "deploy", n)
          /\ ToSet(s1 \o s2 \o opening) = ToSet(s1) \cup ToSet(s2) \cup ToSet(opening)
  BY <1>6, <1>8, <1>9, JoinedParts DEF Follows
<1>11. Part(s1 \o s2 \o opening \o s4, "deploy", n)
          /\ ToSet(s1 \o s2 \o opening \o s4)
                = ToSet(s1) \cup ToSet(s2) \cup ToSet(opening) \cup ToSet(s4)
  BY <1>7, <1>8, <1>10, JoinedParts, ZenonT(60) DEF Follows
<1>12. Begin(p, "deploy", n, row, s1 \o s2 \o opening \o s4)
  BY <1>0 DEF s1, s2, s4, row
<1> DEFINE todo == s1 \o s2 \o opening \o s4
<1>13. /\ ToSet(todo) = {<<"register">>, <<"boot">>, <<"save">>, <<"dns", Fqdn[n], Own>>}
                            \cup {y \in {<<"route", h, Own>>} : port}
                            \cup {OpenPort(x, Own) : x \in row.ports}
       /\ todo \in Seq(Step)
  BY <1>4, <1>5, <1>6, <1>7, <1>11 DEF Part
<1>14. Begin(p, "deploy", n, row, todo) /\ Part(todo, "deploy", n)
  BY <1>11, <1>12
<1> HIDE DEF todo
<1> QED
  BY <1>2, <1>3, <1>13, <1>14 DEF BeginsNew

LEMMA CloneSteps ==
    ASSUME TypeOK, NEW p \in Procs, NEW src \in Names, NEW n \in Names, Clone(p, src, n)
    PROVE  BeginsNew(p, "clone", n)
<1>1. PICK expose \in BOOLEAN, port \in BOOLEAN, opening \in Opening(rows[src].ports),
           given \in {NoHost} \cup DomainsOf[n] :
         Begin(p, "clone", n,
               [Making EXCEPT !.expose = expose \/ port, !.domain = given,
                              !.ports = rows[src].ports],
               << <<"register">>, <<"boot">> >>
                  \o opening
                  \o When(port, <<"route", IF given = NoHost THEN Fqdn[n] ELSE given, Own>>)
                  \o << <<"save">>, <<"dns", Fqdn[n], Own>> >>)
  BY ZenonT(60) DEF Clone
<1> DEFINE row == [Making EXCEPT !.expose = expose \/ port, !.domain = given,
                                 !.ports = rows[src].ports]
           h == IF given = NoHost THEN Fqdn[n] ELSE given
           s1 == << <<"register">>, <<"boot">> >>
           s3 == When(port, <<"route", h, Own>>)
           s4 == << <<"save">>, <<"dns", Fqdn[n], Own>> >>
<1>2. row \in Project /\ row.ports \in SUBSET Ports /\ opening \in Opening(row.ports)
         /\ row.domain = given /\ row.made /\ row.status = "running" /\ (port => row.expose)
  <2>1. given \in Hosts \cup {NoHost}
    BY StepsOfProject, HostsAssumption
  <2> QED
    BY <2>1 DEF Making, NoProject, Project, TypeOK
<1>3. h \in HostsOf(n)
  BY StepsOfProject
<1> HIDE DEF row, h
<1>4. Part(s1, "clone", n) /\ ToSet(s1) = {<<"register">>, <<"boot">>}
  BY StepsOfProject, TwoSteps DEF Fits, Users, Follows
<1>5. Part(s3, "clone", n) /\ ToSet(s3) = {y \in {<<"route", h, Own>>} : port}
  BY <1>3, StepsOfProject, WhenPart DEF Fits, Users
<1>6. Part(opening, "clone", n) /\ ToSet(opening) = {OpenPort(x, Own) : x \in row.ports}
  BY <1>2, OpeningPart
<1>7. Part(s4, "clone", n) /\ ToSet(s4) = {<<"save">>, <<"dns", Fqdn[n], Own>>}
  <2>1. /\ <<"save">> \in Step /\ Fits(<<"save">>, "clone", n)
        /\ <<"dns", Fqdn[n], Own>> \in Step /\ Fits(<<"dns", Fqdn[n], Own>>, "clone", n)
    BY StepsOfProject DEF Fits, Users, Ops
  <2> QED
    BY <2>1, TwoSteps DEF Follows
<1>8. /\ \A x \in ToSet(s1) : x[1] \in {"register", "boot"}
      /\ \A x \in ToSet(s3) : x[1] = "route"
      /\ \A x \in ToSet(opening) : x[1] = "open"
      /\ \A x \in ToSet(s4) : x[1] \in {"save", "dns"}
  BY <1>4, <1>5, <1>6, <1>7 DEF OpenPort
<1> HIDE DEF s1, s3, s4
<1>9. Part(s1 \o opening, "clone", n) /\ ToSet(s1 \o opening) = ToSet(s1) \cup ToSet(opening)
  BY <1>4, <1>6, <1>8, JoinedParts DEF Follows
<1>10. Part(s1 \o opening \o s3, "clone", n)
          /\ ToSet(s1 \o opening \o s3) = ToSet(s1) \cup ToSet(opening) \cup ToSet(s3)
  BY <1>5, <1>8, <1>9, JoinedParts, ZenonT(60) DEF Follows
<1> DEFINE todo == s1 \o opening \o s3 \o s4
<1>11. Part(todo, "clone", n)
          /\ ToSet(todo) = ToSet(s1) \cup ToSet(opening) \cup ToSet(s3) \cup ToSet(s4)
  BY <1>7, <1>8, <1>10, JoinedParts, ZenonT(60) DEF Follows
<1>12. Begin(p, "clone", n, row, todo)
  BY <1>1 DEF s1, s3, s4, row, h
<1> HIDE DEF todo
<1>13. /\ ToSet(todo) = {<<"register">>, <<"boot">>, <<"save">>, <<"dns", Fqdn[n], Own>>}
                            \cup {y \in {<<"route", h, Own>>} : port}
                            \cup {OpenPort(x, Own) : x \in row.ports}
       /\ todo \in Seq(Step)
  BY <1>4, <1>5, <1>6, <1>7, <1>11 DEF Part
<1> QED
  BY <1>2, <1>3, <1>11, <1>12, <1>13, StepsOfProject DEF BeginsNew

LEMMA LoadSteps ==
    ASSUME NEW p \in Procs, NEW n \in Names, Load(p, n)
    PROVE  \E todo \in Seq(Step) :
              /\ Begin(p, "load", n, Making, todo)
              /\ Part(todo, "load", n)
              /\ ToSet(todo) = {<<"register">>, <<"boot">>, <<"save">>, <<"dns", Bare[n], Own>>}
<1> DEFINE a == <<"register">>
           b == <<"boot">>
           c == <<"save">>
           d == <<"dns", Bare[n], Own>>
           todo == <<a, b, c, d>>
<1>1. Begin(p, "load", n, Making, todo)
  BY DEF Load
<1>2. {a, b, c, d} \subseteq Step /\ \A step \in {a, b, c, d} : Fits(step, "load", n)
  <2>1. d \in Step /\ Fits(d, "load", n)
    BY StepsOfProject DEF Fits, Users
  <2>2. {a, b, c} \subseteq Step /\ Fits(a, "load", n) /\ Fits(b, "load", n) /\ Fits(c, "load", n)
    BY StepsOfProject DEF Fits, Users, Ops
  <2> QED
    BY <2>1, <2>2
<1>3. /\ Follows("load", a, b) /\ Follows("load", a, c) /\ Follows("load", a, d)
      /\ Follows("load", b, c) /\ Follows("load", b, d) /\ Follows("load", c, d)
  BY DEF Follows
<1> HIDE DEF a, b, c, d
<1>4. /\ todo \in Seq(Step) /\ DOMAIN todo = {1, 2, 3, 4}
      /\ todo[1] = a /\ todo[2] = b /\ todo[3] = c /\ todo[4] = d
  BY <1>2
<1>5. ToSet(todo) = {a, b, c, d}
  BY <1>4 DEF ToSet
<1>6. Ordered("load", todo)
  BY <1>3, <1>4 DEF Ordered
<1> HIDE DEF todo
<1>7. Part(todo, "load", n)
  BY <1>2, <1>4, <1>5, <1>6 DEF Part
<1> QED
  BY <1>1, <1>4, <1>5, <1>7 DEF a, b, c, d

LEMMA PushSteps ==
    ASSUME NEW p \in Procs, NEW n \in Names, Push(p, n)
    PROVE  \E todo \in Seq(Step) :
              /\ Begin(p, "push", n, rows[n], todo)
              /\ Part(todo, "push", n)
              /\ ToSet(todo) = {<<"unrow">>}
<1>1. <<"unrow">> \in Step /\ Fits(<<"unrow">>, "push", n)
  BY StepsOfProject DEF Fits, Users
<1>2. Part(<< <<"unrow">> >>, "push", n) /\ ToSet(<< <<"unrow">> >>) = {<<"unrow">>}
  BY <1>1, OneStep
<1> QED
  BY <1>1, <1>2 DEF Push, Part

LEMMA DestroySteps ==
    ASSUME TypeOK, NEW p \in Procs, NEW n \in Names, Destroy(p, n)
    PROVE  \E todo \in Seq(Step) :
              /\ Begin(p, "destroy", n, rows[n], todo)
              /\ Part(todo, "destroy", n)
              /\ ToSet(todo) = {y \in {<<"unroute", Fqdn[n]>>} : rows[n].expose}
                                  \cup {ClosePort(x, Own) : x \in rows[n].ports}
                                  \cup {<<"undns", Fqdn[n]>>, <<"unrow">>}
<1> DEFINE s1 == When(rows[n].expose, <<"unroute", Fqdn[n]>>)
           s3 == << <<"undns", Fqdn[n]>>, <<"unrow">> >>
<1>1. PICK closing \in Closing(rows[n].ports) :
         Begin(p, "destroy", n, rows[n], s1 \o closing \o s3)
  BY DEF Destroy
<1>2. rows[n].ports \in SUBSET Ports /\ rows[n].expose \in BOOLEAN
  BY DEF TypeOK, Project
<1>3. Part(s1, "destroy", n) /\ ToSet(s1) = {y \in {<<"unroute", Fqdn[n]>>} : rows[n].expose}
  <2>1. <<"unroute", Fqdn[n]>> \in Step /\ Fits(<<"unroute", Fqdn[n]>>, "destroy", n)
    BY StepsOfProject DEF Fits, Users
  <2> QED
    BY <1>2, <2>1, WhenPart
<1>4. Part(closing, "destroy", n)
         /\ ToSet(closing) = {ClosePort(x, Own) : x \in rows[n].ports}
  BY <1>2, ClosingPart
<1>5. Part(s3, "destroy", n) /\ ToSet(s3) = {<<"undns", Fqdn[n]>>, <<"unrow">>}
  <2>1. /\ <<"unrow">> \in Step /\ Fits(<<"unrow">>, "destroy", n)
        /\ <<"undns", Fqdn[n]>> \in Step /\ Fits(<<"undns", Fqdn[n]>>, "destroy", n)
    BY StepsOfProject DEF Fits, Users, Ops
  <2> QED
    BY <2>1, TwoSteps DEF Follows
<1>6. /\ \A x \in ToSet(s1) : x[1] = "unroute"
      /\ \A x \in ToSet(closing) : x[1] = "unforward"
      /\ \A x \in ToSet(s3) : x[1] \in {"undns", "unrow"}
  BY <1>3, <1>4, <1>5 DEF ClosePort
<1> HIDE DEF s1, s3
<1>7. Part(s1 \o closing, "destroy", n) /\ ToSet(s1 \o closing) = ToSet(s1) \cup ToSet(closing)
  BY <1>3, <1>4, <1>6, JoinedParts DEF Follows
<1> DEFINE todo == s1 \o closing \o s3
<1>8. Part(todo, "destroy", n) /\ ToSet(todo) = ToSet(s1) \cup ToSet(closing) \cup ToSet(s3)
  BY <1>5, <1>6, <1>7, JoinedParts DEF Follows
<1>9. Begin(p, "destroy", n, rows[n], todo)
  BY <1>1
<1> HIDE DEF todo
<1> QED
  BY <1>3, <1>4, <1>5, <1>8, <1>9 DEF Part

LEMMA FreezeSteps ==
    ASSUME TypeOK, NEW p \in Procs, NEW n \in Names, Freeze(p, n)
    PROVE  \E todo \in Seq(Step) :
              /\ Begin(p, "freeze", n, [rows[n] EXCEPT !.status = "frozen"], todo)
              /\ Part(todo, "freeze", n)
              /\ ToSet(todo) = {<<"save">>} \cup {y \in {<<"unroute", Bare[n]>>} : rows[n].expose}
<1>1. rows[n].expose \in BOOLEAN
  BY DEF TypeOK, Project
<1> DEFINE s1 == When(rows[n].expose, <<"unroute", Bare[n]>>)
           s2 == << <<"save">> >>
           todo == s1 \o s2
<1>2. Part(s1, "freeze", n) /\ ToSet(s1) = {y \in {<<"unroute", Bare[n]>>} : rows[n].expose}
  <2>1. <<"unroute", Bare[n]>> \in Step /\ Fits(<<"unroute", Bare[n]>>, "freeze", n)
    BY StepsOfProject DEF Fits, Users
  <2> QED
    BY <1>1, <2>1, WhenPart
<1>3. Part(s2, "freeze", n) /\ ToSet(s2) = {<<"save">>}
  <2>1. "freeze" \in Ops \ {"push", "destroy", "daemon"}
    BY DEF Ops
  <2> QED
    BY <2>1, SavePart
<1>4. (\A x \in ToSet(s1) : x[1] = "unroute") /\ (\A x \in ToSet(s2) : x[1] = "save")
  BY <1>2, <1>3
<1>5. Begin(p, "freeze", n, [rows[n] EXCEPT !.status = "frozen"], todo)
  BY DEF Freeze
<1> HIDE DEF s1, s2
<1>6. Part(todo, "freeze", n) /\ ToSet(todo) = ToSet(s1) \cup ToSet(s2)
  BY <1>2, <1>3, <1>4, JoinedParts DEF Follows
<1> HIDE DEF todo
<1> QED
  BY <1>2, <1>3, <1>5, <1>6 DEF Part

LEMMA UnfreezeSteps ==
    ASSUME TypeOK, NEW p \in Procs, NEW n \in Names, Unfreeze(p, n)
    PROVE  \E todo \in Seq(Step) :
              /\ Begin(p, "unfreeze", n, [rows[n] EXCEPT !.status = "running"], todo)
              /\ Part(todo, "unfreeze", n)
              /\ ToSet(todo) = {<<"boot">>, <<"save">>}
                                  \cup {y \in {<<"route", Bare[n], Own>>} : rows[n].expose}
<1>1. rows[n].expose \in BOOLEAN
  BY DEF TypeOK, Project
<1> DEFINE s1 == << <<"boot">> >>
           s2 == When(rows[n].expose, <<"route", Bare[n], Own>>)
           s3 == << <<"save">> >>
           todo == s1 \o s2 \o s3
<1>2. Part(s2, "unfreeze", n) /\ ToSet(s2) = {y \in {<<"route", Bare[n], Own>>} : rows[n].expose}
  <2>1. <<"route", Bare[n], Own>> \in Step /\ Fits(<<"route", Bare[n], Own>>, "unfreeze", n)
    BY StepsOfProject DEF Fits, Users
  <2> QED
    BY <1>1, <2>1, WhenPart
<1>3. Part(s1, "unfreeze", n) /\ ToSet(s1) = {<<"boot">>}
  BY StepsOfProject, OneStep DEF Fits, Users
<1>4. Part(s3, "unfreeze", n) /\ ToSet(s3) = {<<"save">>}
  <2>1. "unfreeze" \in Ops \ {"push", "destroy", "daemon"}
    BY DEF Ops
  <2> QED
    BY <2>1, SavePart
<1>5. /\ \A x \in ToSet(s1) : x[1] = "boot"
      /\ \A x \in ToSet(s2) : x[1] = "route"
      /\ \A x \in ToSet(s3) : x[1] = "save"
  BY <1>2, <1>3, <1>4
<1>6. Begin(p, "unfreeze", n, [rows[n] EXCEPT !.status = "running"], todo)
  BY DEF Unfreeze
<1> HIDE DEF s1, s2, s3
<1>7. Part(s1 \o s2, "unfreeze", n) /\ ToSet(s1 \o s2) = ToSet(s1) \cup ToSet(s2)
  BY <1>2, <1>3, <1>5, JoinedParts DEF Follows
<1>8. Part(todo, "unfreeze", n) /\ ToSet(todo) = ToSet(s1) \cup ToSet(s2) \cup ToSet(s3)
  BY <1>4, <1>5, <1>7, JoinedParts DEF Follows
<1> HIDE DEF todo
<1> QED
  BY <1>2, <1>3, <1>4, <1>6, <1>8 DEF Part

LEMMA RouteAddSteps ==
    ASSUME NEW p \in Procs, NEW n \in Names, RouteAdd(p, n)
    PROVE  \E todo \in Seq(Step), h \in HostsOf(n) :
              /\ Begin(p, "route add", n, [rows[n] EXCEPT !.status = "running", !.expose = TRUE,
                                                          !.domain = h], todo)
              /\ Part(todo, "route add", n)
              /\ ToSet(todo) = {<<"route", h, Own>>, <<"save">>}
                                  \cup {y \in {<<"dns", h, HostIP>>} : h = Fqdn[n]}
<1>1. PICK h \in HostsOf(n) :
         Begin(p, "route add", n,
               [rows[n] EXCEPT !.status = "running", !.expose = TRUE, !.domain = h],
               When(h = Fqdn[n], <<"dns", h, HostIP>>) \o << <<"route", h, Own>>, <<"save">> >>)
  BY DEF RouteAdd, HostsOf
<1> DEFINE s1 == When(h = Fqdn[n], <<"dns", h, HostIP>>)
           s2 == << <<"route", h, Own>>, <<"save">> >>
           todo == s1 \o s2
<1>2. Part(s1, "route add", n) /\ ToSet(s1) = {y \in {<<"dns", h, HostIP>>} : h = Fqdn[n]}
  <2>1. <<"dns", h, HostIP>> \in Step /\ Fits(<<"dns", h, HostIP>>, "route add", n)
    BY StepsOfProject DEF Fits, Users
  <2> QED
    BY <2>1, WhenPart
<1>3. Part(s2, "route add", n) /\ ToSet(s2) = {<<"route", h, Own>>, <<"save">>}
  <2>1. <<"route", h, Own>> \in Step /\ Fits(<<"route", h, Own>>, "route add", n)
    BY StepsOfProject DEF Fits, Users
  <2>2. <<"save">> \in Step /\ Fits(<<"save">>, "route add", n)
    BY StepsOfProject DEF Fits, Users, Ops
  <2> QED
    BY <2>1, <2>2, TwoSteps DEF Follows
<1>4. (\A x \in ToSet(s1) : x[1] = "dns") /\ (\A x \in ToSet(s2) : x[1] \in {"route", "save"})
  <2>1. \A x \in ToSet(s1) : x = <<"dns", h, HostIP>>
    BY <1>2
  <2>2. \A x \in ToSet(s1) : x[1] = "dns"
    BY <2>1
  <2>3. ASSUME NEW x \in ToSet(s2) PROVE x[1] \in {"route", "save"}
    <3>1. x = <<"route", h, Own>> \/ x = <<"save">>
      BY <1>3
    <3> QED
      BY <3>1
  <2> QED
    BY <2>2, <2>3
<1> HIDE DEF s1, s2
<1>5. Part(todo, "route add", n) /\ ToSet(todo) = ToSet(s1) \cup ToSet(s2)
  <2>1. \A x \in ToSet(s1), y \in ToSet(s2) : Follows("route add", x, y)
    BY <1>4 DEF Follows
  <2> QED
    BY <1>2, <1>3, <2>1, JoinedParts
<1>6. Begin(p, "route add", n,
            [rows[n] EXCEPT !.status = "running", !.expose = TRUE, !.domain = h], todo)
  BY <1>1 DEF s1, s2
<1> HIDE DEF todo
<1> QED
  BY <1>2, <1>3, <1>5, <1>6, ZenonT(60) DEF Part

\* The one of a hostname that a row records, and the other.
LEMMA RouteRemoveSteps ==
    ASSUME NEW p \in Procs, NEW n \in Names, RouteRemove(p, n)
    PROVE  \E todo \in Seq(Step), h \in HostsOf(n), row \in {Unexposed(rows[n]), rows[n]} :
              /\ Begin(p, "route remove", n, row, todo)
              /\ Part(todo, "route remove", n)
              /\ \/ /\ rows[n].made /\ rows[n].domain = h
                    /\ row = Unexposed(rows[n])
                    /\ ToSet(todo) = {<<"save">>, <<"unroute", h>>}
                                        \cup {y \in {<<"dns", h, Own>>} : h = Fqdn[n]}
                 \/ /\ ~(rows[n].made /\ rows[n].domain = h)
                    /\ row = rows[n]
                    /\ ToSet(todo) = {<<"unroute", h>>}
<1>1. PICK h \in HostsOf(n) :
         IF rows[n].made /\ rows[n].domain = h
         THEN Begin(p, "route remove", n, Unexposed(rows[n]),
                    << <<"save">> >> \o When(h = Fqdn[n], <<"dns", h, Own>>)
                       \o << <<"unroute", h>> >>)
         ELSE Begin(p, "route remove", n, rows[n], << <<"unroute", h>> >>)
  BY DEF RouteRemove
<1> DEFINE s1 == << <<"save">> >>
           s2 == When(h = Fqdn[n], <<"dns", h, Own>>)
           s3 == << <<"unroute", h>> >>
           todo == s1 \o s2 \o s3
<1>2. Part(s1, "route remove", n) /\ ToSet(s1) = {<<"save">>}
  <2>1. "route remove" \in Ops \ {"push", "destroy", "daemon"}
    BY DEF Ops
  <2> QED
    BY <2>1, SavePart
<1>3. Part(s2, "route remove", n) /\ ToSet(s2) = {y \in {<<"dns", h, Own>>} : h = Fqdn[n]}
  <2>1. <<"dns", h, Own>> \in Step /\ Fits(<<"dns", h, Own>>, "route remove", n)
    BY StepsOfProject DEF Fits, Users
  <2> QED
    BY <2>1, WhenPart
<1>4. Part(s3, "route remove", n) /\ ToSet(s3) = {<<"unroute", h>>}
  BY StepsOfProject, OneStep DEF Fits, Users
<1>5. /\ \A x \in ToSet(s1) : x[1] = "save"
      /\ \A x \in ToSet(s2) : x[1] = "dns"
      /\ \A x \in ToSet(s3) : x[1] = "unroute"
  <2>1. \A x \in ToSet(s2) : x = <<"dns", h, Own>>
    BY <1>3
  <2>2. \A x \in ToSet(s2) : x[1] = "dns"
    BY <2>1
  <2>3. ASSUME NEW x \in ToSet(s1) PROVE x[1] = "save"
    <3>1. x = <<"save">>
      BY <1>2
    <3> QED
      BY <3>1
  <2>4. ASSUME NEW x \in ToSet(s3) PROVE x[1] = "unroute"
    <3>1. x = <<"unroute", h>>
      BY <1>4
    <3> QED
      BY <3>1
  <2> QED
    BY <2>2, <2>3, <2>4
<1> HIDE DEF s1, s2, s3
<1>6. Part(s1 \o s2, "route remove", n) /\ ToSet(s1 \o s2) = ToSet(s1) \cup ToSet(s2)
  <2>1. \A x \in ToSet(s1), y \in ToSet(s2) : Follows("route remove", x, y)
    BY <1>5 DEF Follows
  <2> QED
    BY <1>2, <1>3, <2>1, JoinedParts
<1>7. Part(todo, "route remove", n) /\ ToSet(todo) = ToSet(s1) \cup ToSet(s2) \cup ToSet(s3)
  BY <1>4, <1>5, <1>6, JoinedParts DEF Follows
<1>8. CASE rows[n].made /\ rows[n].domain = h
  <2>1. Begin(p, "route remove", n, Unexposed(rows[n]), todo)
    BY <1>1, <1>8 DEF s1, s2, s3
  <2> HIDE DEF todo
  <2>2. ToSet(todo) = {<<"save">>, <<"unroute", h>>} \cup {y \in {<<"dns", h, Own>>} : h = Fqdn[n]}
    BY <1>2, <1>3, <1>4, <1>7
  <2>3. todo \in Seq(Step)
    BY <1>7 DEF Part
  <2> QED
    BY <1>7, <1>8, <2>1, <2>2, <2>3
<1>9. CASE ~(rows[n].made /\ rows[n].domain = h)
  <2>1. Begin(p, "route remove", n, rows[n], s3)
    BY <1>1, <1>9 DEF s3
  <2> QED
    BY <1>4, <1>9, <2>1 DEF Part
<1> QED
  BY <1>8, <1>9

\* The hostname that a project is exposed under.
Exposed(n) == IF rows[n].domain = NoHost THEN Fqdn[n] ELSE rows[n].domain

LEMMA UnexposeSteps ==
    ASSUME TypeOK, NEW p \in Procs, NEW n \in Names, Unexpose(p, n),
           rows[n].domain \in {NoHost} \cup HostsOf(n)
    PROVE  \E todo \in Seq(Step) :
              /\ Begin(p, "unexpose", n, Unexposed(rows[n]), todo)
              /\ Part(todo, "unexpose", n)
              /\ ToSet(todo) =
                    {<<"save">>}
                       \cup {y \in {<<"unroute", Exposed(n)>>} : rows[n].expose}
                       \cup {y \in {<<"dns", Exposed(n), Own>>} :
                                rows[n].expose /\ Exposed(n) = Fqdn[n]}
<1> DEFINE h == Exposed(n)
           e == rows[n].expose
           s1 == When(e, <<"unroute", h>>)
           s2 == When(e /\ h = Fqdn[n], <<"dns", h, Own>>)
           s3 == << <<"save">> >>
           todo == s1 \o s2 \o s3
<1>1. e \in BOOLEAN /\ h \in HostsOf(n)
  BY StepsOfProject DEF TypeOK, Project, Exposed
<1>2. Begin(p, "unexpose", n, Unexposed(rows[n]), todo)
  BY DEF Unexpose, Exposed
<1>3. /\ <<"unroute", h>> \in Step /\ Fits(<<"unroute", h>>, "unexpose", n)
      /\ <<"dns", h, Own>> \in Step /\ Fits(<<"dns", h, Own>>, "unexpose", n)
  <2> HIDE DEF h
  <2> QED
    BY <1>1, StepsOfProject DEF Fits, Users
<1> HIDE DEF h, e
<1>4. Part(s1, "unexpose", n) /\ ToSet(s1) = {y \in {<<"unroute", h>>} : e}
  BY <1>1, <1>3, WhenPart
<1>5. Part(s2, "unexpose", n) /\ ToSet(s2) = {y \in {<<"dns", h, Own>>} : e /\ h = Fqdn[n]}
  BY <1>1, <1>3, WhenPart
<1>6. Part(s3, "unexpose", n) /\ ToSet(s3) = {<<"save">>}
  <2>1. "unexpose" \in Ops \ {"push", "destroy", "daemon"}
    BY DEF Ops
  <2> QED
    BY <2>1, SavePart
<1>7. /\ \A x \in ToSet(s1) : x[1] = "unroute"
      /\ \A x \in ToSet(s2) : x[1] = "dns"
      /\ \A x \in ToSet(s3) : x[1] = "save"
  BY <1>4, <1>5, <1>6
<1> HIDE DEF s1, s2, s3
<1>8. Part(s1 \o s2, "unexpose", n) /\ ToSet(s1 \o s2) = ToSet(s1) \cup ToSet(s2)
  <2>1. \A x \in ToSet(s1), y \in ToSet(s2) : Follows("unexpose", x, y)
    BY <1>7 DEF Follows
  <2> QED
    BY <1>4, <1>5, <2>1, JoinedParts
<1>9. Part(todo, "unexpose", n) /\ ToSet(todo) = ToSet(s1) \cup ToSet(s2) \cup ToSet(s3)
  BY <1>6, <1>7, <1>8, JoinedParts DEF Follows
<1> HIDE DEF todo
<1>10. ToSet(todo) = {<<"save">>} \cup {y \in {<<"unroute", h>>} : e}
                        \cup {y \in {<<"dns", h, Own>>} : e /\ h = Fqdn[n]}
  BY <1>4, <1>5, <1>6, <1>9
<1> QED
  BY <1>2, <1>9, <1>10 DEF Part, h, e

LEMMA PortSteps ==
    ASSUME TypeOK, NEW p \in Procs, NEW n \in Names, PortOpen(p, n) \/ PortClose(p, n)
    PROVE  \E todo \in Seq(Step), port \in Ports :
              \/ /\ port \notin rows[n].ports
                 /\ Begin(p, "port open", n, [rows[n] EXCEPT !.ports = @ \cup {port}], todo)
                 /\ Part(todo, "port open", n)
                 /\ ToSet(todo) = {OpenPort(port, Own), <<"save">>}
              \/ /\ port \in rows[n].ports
                 /\ Begin(p, "port close", n, [rows[n] EXCEPT !.ports = @ \ {port}], todo)
                 /\ Part(todo, "port close", n)
                 /\ ToSet(todo) = {ClosePort(port, Own), <<"save">>}
<1>1. CASE PortOpen(p, n)
  <2>1. PICK port \in Ports \ rows[n].ports :
           Begin(p, "port open", n, [rows[n] EXCEPT !.ports = @ \cup {port}],
                 << OpenPort(port, Own), <<"save">> >>)
    BY <1>1 DEF PortOpen
  <2>2. "port open" \in Ops \ {"push", "destroy", "daemon"}
    BY DEF Ops
  <2>3. OpenPort(port, Own) \in Step /\ Fits(OpenPort(port, Own), "port open", n)
    BY StepsOfProject DEF OpenPort, Fits, Users
  <2>4. Follows("port open", OpenPort(port, Own), <<"save">>)
    BY DEF Follows, OpenPort
  <2>5. LET todo == << OpenPort(port, Own), <<"save">> >>
        IN  Part(todo, "port open", n) /\ ToSet(todo) = {OpenPort(port, Own), <<"save">>}
    BY <2>2, <2>3, <2>4, SavePart, TwoSteps
  <2> QED
    BY <2>1, <2>5 DEF Part
<1>2. CASE PortClose(p, n)
  <2>1. PICK port \in rows[n].ports :
           Begin(p, "port close", n, [rows[n] EXCEPT !.ports = @ \ {port}],
                 << ClosePort(port, Own), <<"save">> >>)
    BY <1>2 DEF PortClose
  <2>2. "port close" \in Ops \ {"push", "destroy", "daemon"} /\ port \in Ports
    BY DEF Ops, TypeOK, Project
  <2>3. ClosePort(port, Own) \in Step /\ Fits(ClosePort(port, Own), "port close", n)
    BY <2>2, StepsOfProject DEF ClosePort, Fits, Users
  <2>4. Follows("port close", ClosePort(port, Own), <<"save">>)
    BY DEF Follows, ClosePort
  <2>5. LET todo == << ClosePort(port, Own), <<"save">> >>
        IN  Part(todo, "port close", n) /\ ToSet(todo) = {ClosePort(port, Own), <<"save">>}
    BY <2>2, <2>3, <2>4, SavePart, TwoSteps
  <2> QED
    BY <2>1, <2>2, <2>5 DEF Part
<1> QED
  BY <1>1, <1>2

LEMMA DaemonSteps ==
    ASSUME TypeOK, NEW p \in Procs, Daemon(p)
    PROVE  \E todo \in Seq(Step) :
              /\ Begin(p, "daemon", NoName, NoProject, todo)
              /\ Part(todo, "daemon", NoName)
              /\ ToSet(todo) = {<<"ready">>}
                    \cup {<<"open", x[1], x[2]>> :
                             x \in UNION {rows[n].ports \X {rows[n].rowid} : n \in Names}}
<1> DEFINE P == UNION {rows[n].ports \X {rows[n].rowid} : n \in Names}
<1>1. PICK order \in SetToSeqs(P) :
         Begin(p, "daemon", NoName, NoProject,
               [k \in DOMAIN order |-> OpenPort(order[k][1], order[k][2])] \o << <<"ready">> >>)
  BY DEF Daemon
<1> DEFINE s1 == [k \in DOMAIN order |-> OpenPort(order[k][1], order[k][2])]
           s2 == << <<"ready">> >>
           todo == s1 \o s2
           f == [x \in P |-> <<"open", x[1], x[2]>>]
<1>2. \A x \in P : x \in Ports \X {rows[n].rowid : n \in Names} /\ x \in Ports \X Nat
  BY DEF TypeOK, Project
<1>3. IsFiniteSet(P)
  <2> DEFINE g == [n \in Names |-> rows[n].rowid]
  <2>1. g \in Surjection(Names, {rows[n].rowid : n \in Names})
    BY DEF Surjection
  <2> HIDE DEF g
  <2>2. IsFiniteSet({rows[n].rowid : n \in Names})
    BY <2>1, FS_Surjection, FiniteAssumption
  <2> HIDE DEF P
  <2>3. IsFiniteSet(Ports \X {rows[n].rowid : n \in Names})
    BY <2>2, FS_Product, FiniteAssumption
  <2>4. P \in SUBSET (Ports \X {rows[n].rowid : n \in Names})
    BY <1>2
  <2> QED
    BY <2>3, <2>4, FS_Subset
<1> HIDE DEF P
<1>4. f \in [P -> Step] /\ \A x \in P : f[x] = <<"open", x[1], x[2]>>
  BY <1>2 DEF Step
<1>5. order \in Seq(P)
  BY <1>3, OrderOfSet
<1>6. s1 = [k \in DOMAIN order |-> f[order[k]]]
  BY <1>4, <1>5, LenProperties DEF OpenPort
<1>7. {f[x] : x \in P} = {<<"open", x[1], x[2]>> : x \in P}
  BY <1>4
<1> HIDE DEF f
<1>8. s1 \in Seq(Step) /\ ToSet(s1) = {f[x] : x \in P}
  BY <1>3, <1>4, <1>6, StepsInOrder
<1>9. \A step \in ToSet(s1) : step[1] = "open"
  BY <1>7, <1>8
<1>10. \A k \in DOMAIN s1 : s1[k][1] = "open"
  BY <1>8, <1>9, Elements
<1> HIDE DEF s1
<1>11. Ordered("daemon", s1)
  BY <1>10 DEF Ordered, Follows
<1>12. \A step \in ToSet(s1) : Fits(step, "daemon", NoName)
  BY <1>9 DEF Fits, Users
<1>13. Part(s1, "daemon", NoName)
  BY <1>8, <1>11, <1>12 DEF Part
<1>14. Part(s2, "daemon", NoName) /\ ToSet(s2) = {<<"ready">>}
  <2>1. <<"ready">> \in Step /\ Fits(<<"ready">>, "daemon", NoName)
    BY DEF Step, Fits, Users
  <2> QED
    BY <2>1, OneStep
<1> HIDE DEF s2
<1>15. \A x \in ToSet(s1), y \in ToSet(s2) : Follows("daemon", x, y)
  BY <1>9, <1>14 DEF Follows
<1>16. Part(todo, "daemon", NoName) /\ ToSet(todo) = ToSet(s1) \cup ToSet(s2)
  BY <1>13, <1>14, <1>15, JoinedParts
<1>17. Begin(p, "daemon", NoName, NoProject, todo)
  BY <1>1 DEF s1, s2
<1> HIDE DEF todo
<1>18. ToSet(todo) = {<<"ready">>} \cup {<<"open", x[1], x[2]>> : x \in P}
  BY <1>7, <1>8, <1>14, <1>16
<1> QED
  BY <1>16, <1>17, <1>18 DEF P, Part

\* The command c has just begun: its row and the steps that it has before it.
Started(c) ==
    LET n == c.name
        steps == ToSet(c.todo)
    IN \/ /\ c.op \in {"deploy", "clone"} /\ n \in Names
          /\ ~Present(rows, n)
          /\ c.row.made /\ c.row.status = "running"
          /\ \E port \in BOOLEAN, h \in HostsOf(n) :
                /\ port => c.row.expose
                /\ steps = {<<"register">>, <<"boot">>, <<"save">>, <<"dns", Fqdn[n], Own>>}
                              \cup {y \in {<<"route", h, Own>>} : port}
                              \cup {OpenPort(x, Own) : x \in c.row.ports}
       \/ /\ c.op = "load" /\ n \in Names
          /\ ~Present(rows, n)
          /\ c.row = Making
          /\ steps = {<<"register">>, <<"boot">>, <<"save">>, <<"dns", Bare[n], Own>>}
       \/ /\ c.op = "push" /\ n \in Names
          /\ rows[n].made /\ rows[n].status # "running" /\ c.row = rows[n]
          /\ steps = {<<"unrow">>}
       \/ /\ c.op = "destroy" /\ n \in Names
          /\ Present(rows, n) /\ c.row = rows[n]
          /\ steps = {y \in {<<"unroute", Fqdn[n]>>} : rows[n].expose}
                        \cup {ClosePort(x, Own) : x \in rows[n].ports}
                        \cup {<<"undns", Fqdn[n]>>, <<"unrow">>}
       \/ /\ c.op = "freeze" /\ n \in Names
          /\ rows[n].status \in {"running", "frozen"}
          /\ c.row = [rows[n] EXCEPT !.status = "frozen"]
          /\ steps = {<<"save">>} \cup {y \in {<<"unroute", Bare[n]>>} : rows[n].expose}
       \/ /\ c.op = "unfreeze" /\ n \in Names
          /\ rows[n].status = "frozen"
          /\ c.row = [rows[n] EXCEPT !.status = "running"]
          /\ steps = {<<"boot">>, <<"save">>} \cup {y \in {<<"route", Bare[n], Own>>} : rows[n].expose}
       \/ /\ c.op = "route add" /\ n \in Names
          /\ rows[n].made
          /\ \E h \in HostsOf(n) :
                /\ c.row = [rows[n] EXCEPT !.status = "running", !.expose = TRUE, !.domain = h]
                /\ steps = {<<"route", h, Own>>, <<"save">>}
                              \cup {y \in {<<"dns", h, HostIP>>} : h = Fqdn[n]}
       \/ /\ c.op = "route remove" /\ n \in Names
          /\ \E h \in HostsOf(n) :
                \/ /\ rows[n].made /\ rows[n].domain = h
                   /\ c.row = Unexposed(rows[n])
                   /\ steps = {<<"save">>, <<"unroute", h>>}
                                 \cup {y \in {<<"dns", h, Own>>} : h = Fqdn[n]}
                \/ /\ ~(rows[n].made /\ rows[n].domain = h)
                   /\ c.row = rows[n]
                   /\ steps = {<<"unroute", h>>}
       \/ /\ c.op = "unexpose" /\ n \in Names
          /\ Present(rows, n)
          /\ c.row = Unexposed(rows[n])
          /\ steps = {<<"save">>}
                        \cup {y \in {<<"unroute", Exposed(n)>>} : rows[n].expose}
                        \cup {y \in {<<"dns", Exposed(n), Own>>} :
                                 rows[n].expose /\ Exposed(n) = Fqdn[n]}
       \/ /\ c.op \in {"port open", "port close"} /\ n \in Names
          /\ rows[n].made
          /\ \E port \in Ports :
                \/ /\ c.op = "port open" /\ port \notin rows[n].ports
                   /\ c.row = [rows[n] EXCEPT !.ports = @ \cup {port}]
                   /\ steps = {OpenPort(port, Own), <<"save">>}
                \/ /\ c.op = "port close" /\ port \in rows[n].ports
                   /\ c.row = [rows[n] EXCEPT !.ports = @ \ {port}]
                   /\ steps = {ClosePort(port, Own), <<"save">>}
       \/ /\ c.op = "daemon" /\ n = NoName
          /\ steps = {<<"ready">>}
                        \cup {<<"open", x[1], x[2]>> :
                                 x \in UNION {rows[m].ports \X {rows[m].rowid} : m \in Names}}

\* As its fields are.
LEMMA StartedAs ==
    ASSUME Core, NEW p \in Procs, NEW op, NEW n, NEW row, NEW todo, Begin(p, op, n, row, todo)
    PROVE  cmd'[p].op = op /\ cmd'[p].name = n /\ cmd'[p].row = row /\ cmd'[p].todo = todo
<1> DEFINE c == [op |-> op, name |-> n, row |-> row, todo |-> todo]
<1>1. cmd'[p] = c
  BY DEF Begin, Core, TypeOK
<1>2. c.op = op /\ c.name = n /\ c.row = row /\ c.todo = todo
  OBVIOUS
<1> HIDE DEF c
<1> QED
  BY <1>1, <1>2

-----------------------------------------------------------------------------
(* Core is kept. *)

\* What is not there is nothing's project.
LEMMA OnlyRows ==
    ASSUME Core, NEW n \in Names,
           rows[n].made \/ rows[n].status \in {"running", "frozen"} \/ rows[n].ports # {}
    PROVE  Present(rows, n)
BY DEF Core, RowsAreProjects, NoProject

LEMMA BeginCore ==
    ASSUME Core, NEW p \in Procs, BeginCommand(p)
    PROVE  Core' /\ rows' = rows
<1>0. /\ TypeOK
      /\ \A n \in Names : rows[n] \in Project
      /\ \A n \in Names : rows[n].domain \in {NoHost} \cup HostsOf(n)
  BY DEF Core, TypeOK, RowsAreProjects
<1>a. Making \in Project /\ Making.domain = NoHost
  BY DEF Making, NoProject, Project
\* A command on a project: all but the daemon.
<1>1. ASSUME NEW op \in Ops \ {"daemon"}, NEW n \in Names, NEW row \in Project, NEW todo,
             Begin(p, op, n, row, todo), Part(todo, op, n), ToSet(todo) # {},
             row.domain \in {NoHost} \cup HostsOf(n),
             \A step \in ToSet(todo) : step[1] # "serve",
             IF Has(todo, "register")
             THEN ~Present(rows, n)
             ELSE HasIndex(n, row.rowid) \/ \A step \in ToSet(todo) : step[1] = "unroute"
      PROVE  Core' /\ rows' = rows
  <2> DEFINE c == [op |-> op, name |-> n, row |-> row, todo |-> todo]
  <2>1. Shaped(c)
    BY <1>1, PartShaped
  <2>2. OwnsRow(c)
    BY <1>1 DEF OwnsRow
  <2>3. ReadsRows(c)
    BY DEF ReadsRows
  <2> QED
    BY <1>1, <2>1, <2>2, <2>3, CoreBegin
<1>2. ASSUME NEW op \in {"deploy", "clone"}, NEW n \in Names, BeginsNew(p, op, n), ~Present(rows, n)
      PROVE  Core' /\ rows' = rows
  <2>1. PICK row \in Project, todo \in Seq(Step), port \in BOOLEAN, h \in HostsOf(n) :
           /\ Begin(p, op, n, row, todo)
           /\ row.domain \in {NoHost} \cup HostsOf(n)
           /\ Part(todo, op, n)
           /\ ToSet(todo) = {<<"register">>, <<"boot">>, <<"save">>, <<"dns", Fqdn[n], Own>>}
                               \cup {y \in {<<"route", h, Own>>} : port}
                               \cup {OpenPort(x, Own) : x \in row.ports}
    BY <1>2 DEF BeginsNew
  <2>2. <<"register">> \in ToSet(todo) /\ \A step \in ToSet(todo) : step[1] # "serve"
    BY <2>1 DEF OpenPort
  <2>3. Has(todo, "register") /\ ToSet(todo) # {}
    BY <2>2 DEF Has
  <2>4. op \in Ops \ {"daemon"}
    BY <1>2 DEF Ops
  <2> QED
    BY <1>1, <1>2, <2>1, <2>2, <2>3, <2>4
<1>3. ASSUME NEW n \in Names, NEW src \in Names, Deploy(p, n) \/ Clone(p, src, n)
      PROVE  Core' /\ rows' = rows
  <2>1. BeginsNew(p, "deploy", n) \/ BeginsNew(p, "clone", n)
    BY <1>0, <1>3, DeploySteps, CloneSteps
  <2>2. ~Present(rows, n)
    BY <1>3 DEF Deploy, Clone
  <2> QED
    BY <1>2, <2>1, <2>2
<1>4. ASSUME NEW n \in Names, Load(p, n) PROVE Core' /\ rows' = rows
  <2>1. PICK todo \in Seq(Step) :
           /\ Begin(p, "load", n, Making, todo)
           /\ Part(todo, "load", n)
           /\ ToSet(todo) = {<<"register">>, <<"boot">>, <<"save">>, <<"dns", Bare[n], Own>>}
    BY <1>4, LoadSteps
  <2>2. <<"register">> \in ToSet(todo) /\ \A step \in ToSet(todo) : step[1] # "serve"
    BY <2>1
  <2>3. Has(todo, "register") /\ ToSet(todo) # {}
    BY <2>2 DEF Has
  <2>4. ~Present(rows, n) /\ "load" \in Ops \ {"daemon"}
    BY <1>4 DEF Load, Ops
  <2> QED
    BY <1>1, <1>a, <2>1, <2>2, <2>3, <2>4
<1>5. ASSUME NEW n \in Names, Push(p, n) PROVE Core' /\ rows' = rows
  <2> DEFINE row == rows[n]
  <2>1. PICK todo \in Seq(Step) :
           /\ Begin(p, "push", n, row, todo)
           /\ Part(todo, "push", n)
           /\ ToSet(todo) = {<<"unrow">>}
    BY <1>0, <1>5, PushSteps
  <2>2. <<"unrow">> \in ToSet(todo) /\ \A step \in ToSet(todo) : step[1] \notin {"serve", "register"}
    BY <2>1
  <2>3. ~Has(todo, "register") /\ ToSet(todo) # {}
    BY <2>2 DEF Has
  <2>4. Present(rows, n) /\ "push" \in Ops \ {"daemon"}
    BY <1>5, OnlyRows DEF Push, Ops
  <2>5. row \in Project /\ row.domain \in {NoHost} \cup HostsOf(n) /\ HasIndex(n, row.rowid)
    BY <1>0, <2>4 DEF HasIndex, Project
  <2> HIDE DEF row
  <2> QED
    BY <1>1, <2>1, <2>2, <2>3, <2>4, <2>5
<1>6. ASSUME NEW n \in Names, Destroy(p, n) PROVE Core' /\ rows' = rows
  <2> DEFINE row == rows[n]
  <2>1. PICK todo \in Seq(Step) :
           /\ Begin(p, "destroy", n, row, todo)
           /\ Part(todo, "destroy", n)
           /\ ToSet(todo) = {y \in {<<"unroute", Fqdn[n]>>} : rows[n].expose}
                               \cup {ClosePort(x, Own) : x \in rows[n].ports}
                               \cup {<<"undns", Fqdn[n]>>, <<"unrow">>}
    BY <1>0, <1>6, DestroySteps
  <2>2. <<"unrow">> \in ToSet(todo) /\ \A step \in ToSet(todo) : step[1] \notin {"serve", "register"}
    BY <2>1 DEF ClosePort
  <2>3. ~Has(todo, "register") /\ ToSet(todo) # {}
    BY <2>2 DEF Has
  <2>4. Present(rows, n) /\ "destroy" \in Ops \ {"daemon"}
    BY <1>6 DEF Destroy, Ops
  <2>5. row \in Project /\ row.domain \in {NoHost} \cup HostsOf(n) /\ HasIndex(n, row.rowid)
    BY <1>0, <2>4 DEF HasIndex, Project
  <2> HIDE DEF row
  <2> QED
    BY <1>1, <2>1, <2>2, <2>3, <2>4, <2>5
<1>7. ASSUME NEW n \in Names, Freeze(p, n) PROVE Core' /\ rows' = rows
  <2> DEFINE row == [rows[n] EXCEPT !.status = "frozen"]
  <2>1. PICK todo \in Seq(Step) :
           /\ Begin(p, "freeze", n, row, todo)
           /\ Part(todo, "freeze", n)
           /\ ToSet(todo) = {<<"save">>} \cup {y \in {<<"unroute", Bare[n]>>} : rows[n].expose}
    BY <1>0, <1>7, FreezeSteps
  <2>2. <<"save">> \in ToSet(todo) /\ \A step \in ToSet(todo) : step[1] \notin {"serve", "register"}
    BY <2>1
  <2>3. ~Has(todo, "register") /\ ToSet(todo) # {}
    BY <2>2 DEF Has
  <2>4. Present(rows, n) /\ "freeze" \in Ops \ {"daemon"}
    BY <1>7, OnlyRows DEF Freeze, Ops
  <2>5. row \in Project /\ row.domain \in {NoHost} \cup HostsOf(n) /\ HasIndex(n, row.rowid)
    BY <1>0, <2>4 DEF HasIndex, Project
  <2> HIDE DEF row
  <2> QED
    BY <1>1, <2>1, <2>2, <2>3, <2>4, <2>5
<1>8. ASSUME NEW n \in Names, Unfreeze(p, n) PROVE Core' /\ rows' = rows
  <2> DEFINE row == [rows[n] EXCEPT !.status = "running"]
  <2>1. PICK todo \in Seq(Step) :
           /\ Begin(p, "unfreeze", n, row, todo)
           /\ Part(todo, "unfreeze", n)
           /\ ToSet(todo) = {<<"boot">>, <<"save">>}
                               \cup {y \in {<<"route", Bare[n], Own>>} : rows[n].expose}
    BY <1>0, <1>8, UnfreezeSteps
  <2>2. <<"save">> \in ToSet(todo) /\ \A step \in ToSet(todo) : step[1] \notin {"serve", "register"}
    BY <2>1
  <2>3. ~Has(todo, "register") /\ ToSet(todo) # {}
    BY <2>2 DEF Has
  <2>4. Present(rows, n) /\ "unfreeze" \in Ops \ {"daemon"}
    BY <1>8, OnlyRows DEF Unfreeze, Ops
  <2>5. row \in Project /\ row.domain \in {NoHost} \cup HostsOf(n) /\ HasIndex(n, row.rowid)
    BY <1>0, <2>4 DEF HasIndex, Project
  <2> HIDE DEF row
  <2> QED
    BY <1>1, <2>1, <2>2, <2>3, <2>4, <2>5
<1>9. ASSUME NEW n \in Names, RouteAdd(p, n) PROVE Core' /\ rows' = rows
  <2>1. PICK todo \in Seq(Step), h \in HostsOf(n) :
           /\ Begin(p, "route add", n, [rows[n] EXCEPT !.status = "running", !.expose = TRUE,
                                                       !.domain = h], todo)
           /\ Part(todo, "route add", n)
           /\ ToSet(todo) = {<<"route", h, Own>>, <<"save">>}
                               \cup {y \in {<<"dns", h, HostIP>>} : h = Fqdn[n]}
    BY <1>9, RouteAddSteps
  <2> DEFINE row == [rows[n] EXCEPT !.status = "running", !.expose = TRUE, !.domain = h]
  <2>2. <<"save">> \in ToSet(todo) /\ \A step \in ToSet(todo) : step[1] \notin {"serve", "register"}
    <3>1. <<"save">> \in ToSet(todo)
      BY <2>1
    <3>2. ASSUME NEW step \in ToSet(todo) PROVE step[1] \notin {"serve", "register"}
      <4>1. step \in {<<"route", h, Own>>, <<"save">>, <<"dns", h, HostIP>>}
        BY <2>1
      <4> QED
        BY <4>1
    <3> QED
      BY <3>1, <3>2
  <2>3. ~Has(todo, "register") /\ ToSet(todo) # {}
    BY <2>2 DEF Has
  <2>4. Present(rows, n) /\ "route add" \in Ops \ {"daemon"}
    BY <1>9, OnlyRows DEF RouteAdd, Ops
  <2>5. row \in Project /\ row.domain \in {NoHost} \cup HostsOf(n) /\ HasIndex(n, row.rowid)
    <3>1. h \in Hosts /\ row.domain = h /\ row.rowid = rows[n].rowid
      BY <1>0, HostsAssumption DEF Project
    <3>2. row \in Project
      BY <1>0, <3>1 DEF Project
    <3> QED
      BY <2>4, <3>1, <3>2 DEF HasIndex
  <2>6. Begin(p, "route add", n, row, todo)
    BY <2>1
  <2> HIDE DEF row
  <2> QED
    BY <1>1, <2>1, <2>2, <2>3, <2>4, <2>5, <2>6
<1>10. ASSUME NEW n \in Names, RouteRemove(p, n) PROVE Core' /\ rows' = rows
  <2>1. PICK todo \in Seq(Step), h \in HostsOf(n), row \in {Unexposed(rows[n]), rows[n]} :
           /\ Begin(p, "route remove", n, row, todo)
           /\ Part(todo, "route remove", n)
           /\ \/ /\ rows[n].made /\ rows[n].domain = h
                 /\ row = Unexposed(rows[n])
                 /\ ToSet(todo) = {<<"save">>, <<"unroute", h>>}
                                     \cup {y \in {<<"dns", h, Own>>} : h = Fqdn[n]}
              \/ /\ ~(rows[n].made /\ rows[n].domain = h)
                 /\ row = rows[n]
                 /\ ToSet(todo) = {<<"unroute", h>>}
    BY <1>10, RouteRemoveSteps
  <2>2. /\ <<"unroute", h>> \in ToSet(todo)
        /\ \A step \in ToSet(todo) : step[1] \notin {"serve", "register"}
    <3>1. <<"unroute", h>> \in ToSet(todo)
      BY <2>1
    <3>2. ASSUME NEW step \in ToSet(todo) PROVE step[1] \notin {"serve", "register"}
      <4>1. step \in {<<"unroute", h>>, <<"save">>, <<"dns", h, Own>>}
        BY <2>1
      <4> QED
        BY <4>1
    <3> QED
      BY <3>1, <3>2
  <2>3. ~Has(todo, "register") /\ ToSet(todo) # {}
    BY <2>2 DEF Has
  <2>4. "route remove" \in Ops \ {"daemon"}
    BY DEF Ops
  <2>5. row \in Project /\ row.domain \in {NoHost} \cup HostsOf(n) /\ row.rowid = rows[n].rowid
    BY <1>0, <2>1 DEF Project, Unexposed
  <2>6. HasIndex(n, row.rowid) \/ \A step \in ToSet(todo) : step[1] = "unroute"
    <3>1. CASE rows[n].made
      BY <2>5, <3>1, OnlyRows DEF HasIndex
    <3>2. CASE ~rows[n].made
      <4>1. ToSet(todo) = {<<"unroute", h>>}
        BY <2>1, <3>2
      <4>2. \A step \in ToSet(todo) : step = <<"unroute", h>>
        BY <4>1
      <4> QED
        BY <4>2
    <3> QED
      BY <3>1, <3>2
  <2> QED
    BY <1>1, <2>1, <2>2, <2>3, <2>4, <2>5, <2>6
<1>11. ASSUME NEW n \in Names, Unexpose(p, n) PROVE Core' /\ rows' = rows
  <2> DEFINE row == Unexposed(rows[n])
  <2>1. PICK todo \in Seq(Step) :
           /\ Begin(p, "unexpose", n, row, todo)
           /\ Part(todo, "unexpose", n)
           /\ ToSet(todo) = {<<"save">>}
                  \cup {y \in {<<"unroute", Exposed(n)>>} : rows[n].expose}
                  \cup {y \in {<<"dns", Exposed(n), Own>>} : rows[n].expose /\ Exposed(n) = Fqdn[n]}
    BY <1>0, <1>11, UnexposeSteps
  <2>2. <<"save">> \in ToSet(todo) /\ \A step \in ToSet(todo) : step[1] \notin {"serve", "register"}
    BY <2>1
  <2>3. ~Has(todo, "register") /\ ToSet(todo) # {}
    BY <2>2 DEF Has
  <2>4. Present(rows, n) /\ "unexpose" \in Ops \ {"daemon"}
    BY <1>11 DEF Unexpose, Ops
  <2>5. row \in Project /\ row.domain \in {NoHost} \cup HostsOf(n) /\ HasIndex(n, row.rowid)
    BY <1>0, <2>4 DEF HasIndex, Project, Unexposed
  <2> HIDE DEF row
  <2> QED
    BY <1>1, <2>1, <2>2, <2>3, <2>4, <2>5
<1>12. ASSUME NEW n \in Names, PortOpen(p, n) \/ PortClose(p, n) PROVE Core' /\ rows' = rows
  <2>0. Present(rows, n)
    BY <1>12, OnlyRows DEF PortOpen, PortClose
  <2>1. PICK todo \in Seq(Step), port \in Ports :
           \/ /\ port \notin rows[n].ports
              /\ Begin(p, "port open", n, [rows[n] EXCEPT !.ports = @ \cup {port}], todo)
              /\ Part(todo, "port open", n)
              /\ ToSet(todo) = {OpenPort(port, Own), <<"save">>}
           \/ /\ port \in rows[n].ports
              /\ Begin(p, "port close", n, [rows[n] EXCEPT !.ports = @ \ {port}], todo)
              /\ Part(todo, "port close", n)
              /\ ToSet(todo) = {ClosePort(port, Own), <<"save">>}
    BY <1>0, <1>12, PortSteps
  <2>2. PICK op \in {"port open", "port close"}, ports \in SUBSET Ports :
           /\ Begin(p, op, n, [rows[n] EXCEPT !.ports = ports], todo)
           /\ Part(todo, op, n)
    <3>1. rows[n].ports \in SUBSET Ports
      BY <1>0 DEF Project
    <3>2. CASE Begin(p, "port open", n, [rows[n] EXCEPT !.ports = @ \cup {port}], todo)
                  /\ Part(todo, "port open", n)
      <4>1. [rows[n] EXCEPT !.ports = @ \cup {port}]
               = [rows[n] EXCEPT !.ports = rows[n].ports \cup {port}]
        OBVIOUS
      <4>2. rows[n].ports \cup {port} \in SUBSET Ports
        BY <3>1
      <4> QED
        BY <3>2, <4>1, <4>2
    <3>3. CASE Begin(p, "port close", n, [rows[n] EXCEPT !.ports = @ \ {port}], todo)
                  /\ Part(todo, "port close", n)
      <4>1. [rows[n] EXCEPT !.ports = @ \ {port}]
               = [rows[n] EXCEPT !.ports = rows[n].ports \ {port}]
        OBVIOUS
      <4>2. rows[n].ports \ {port} \in SUBSET Ports
        BY <3>1
      <4> QED
        BY <3>3, <4>1, <4>2
    <3> QED
      BY <2>1, <3>2, <3>3
  <2>3. <<"save">> \in ToSet(todo) /\ \A step \in ToSet(todo) : step[1] \notin {"serve", "register"}
    <3>1. <<"save">> \in ToSet(todo)
      BY <2>1
    <3>2. ASSUME NEW step \in ToSet(todo) PROVE step[1] \notin {"serve", "register"}
      <4>1. \/ step = <<"save">> \/ step = <<"open", port, Own>>
            \/ step = <<"unforward", port, Own>>
        BY <2>1 DEF OpenPort, ClosePort
      <4>2. step[1] = "save" \/ step[1] = "open" \/ step[1] = "unforward"
        <5>1. <<"save">>[1] = "save"
          OBVIOUS
        <5>2. <<"open", port, Own>>[1] = "open" /\ <<"unforward", port, Own>>[1] = "unforward"
          OBVIOUS
        <5> QED
          BY <4>1, <5>1, <5>2, Zenon
      <4> QED
        BY <4>2
    <3> QED
      BY <3>1, <3>2
  <2>4. ~Has(todo, "register") /\ ToSet(todo) # {} /\ op \in Ops \ {"daemon"}
    BY <2>3 DEF Has, Ops
  <2> DEFINE row == [rows[n] EXCEPT !.ports = ports]
  <2>5. row \in Project /\ row.domain \in {NoHost} \cup HostsOf(n) /\ HasIndex(n, row.rowid)
    BY <1>0, <2>0 DEF HasIndex, Project
  <2>6. Begin(p, op, n, row, todo)
    BY <2>2
  <2> HIDE DEF row
  <2> QED
    BY <1>1, <2>2, <2>3, <2>4, <2>5, <2>6
<1>13. CASE Daemon(p)
  <2>1. PICK todo \in Seq(Step) :
           /\ Begin(p, "daemon", NoName, NoProject, todo)
           /\ Part(todo, "daemon", NoName)
           /\ ToSet(todo) = {<<"ready">>}
                 \cup {<<"open", x[1], x[2]>> :
                          x \in UNION {rows[n].ports \X {rows[n].rowid} : n \in Names}}
    BY <1>0, <1>13, DaemonSteps
  <2> DEFINE c == [op |-> "daemon", name |-> NoName, row |-> NoProject, todo |-> todo]
  <2>2. <<"ready">> \in ToSet(todo) /\ \A step \in ToSet(todo) : step[1] # "serve"
    BY <2>1
  <2>3. Shaped(c)
    BY <2>1, <2>2, PartShaped, IdleCommand DEF Ops
  <2>4. OwnsRow(c)
    BY DEF OwnsRow
  <2>5. ReadsRows(c)
    <3> SUFFICES ASSUME NEW step \in ToSet(todo), step[1] \in {"open", "forward"}
                 PROVE  \E n \in Names : HasIndex(n, step[3]) /\ step[2] \in rows[n].ports
      BY DEF ReadsRows
    <3>0. PICK x \in UNION {rows[n].ports \X {rows[n].rowid} : n \in Names} :
             step = <<"open", x[1], x[2]>>
      BY <2>1
    <3>1. PICK n \in Names : x \in rows[n].ports \X {rows[n].rowid}
      BY <3>0
    <3>2. step[2] \in rows[n].ports /\ step[3] = rows[n].rowid
      BY <3>0, <3>1
    <3>3. Present(rows, n)
      BY <3>2 DEF Core, RowsAreProjects, NoProject
    <3> QED
      BY <3>2, <3>3 DEF HasIndex
  <2>6. DaemonAlone => \A q \in Procs : cmd[q] = Idle
    BY <1>13 DEF Daemon
  <2> QED
    BY <2>1, <2>3, <2>4, <2>5, <2>6, CoreBegin
<1> QED
  BY <1>3, <1>4, <1>5, <1>6, <1>7, <1>8, <1>9, <1>10, <1>11, <1>12, <1>13
     DEF BeginCommand

LEMMA StepTypes ==
    ASSUME NEW step \in Step
    PROVE  /\ step[1] \in {"route", "unroute", "dns", "undns"} => step[2] \in Hosts
           /\ step[1] = "route" => step[3] = Own
           /\ step[1] = "dns" => step[3] \in {Own, HostIP}
           /\ step[1] \in {"open", "forward", "unforward"} => step[2] \in Ports /\ step[3] \in Nat
           /\ step[1] \in {"open", "forward", "unforward"} =>
                 \A kind \in {"open", "forward", "unforward"} : <<kind, step[2], step[3]>> \in Step
BY DEF Step

\* The step that p takes, and what is left.
LEMMA AtStep ==
    ASSUME Core, NEW p \in Procs, NEW kind, At(p, kind)
    PROVE  /\ cmd[p] # Idle /\ Shaped(cmd[p]) /\ OwnsRow(cmd[p])
           /\ cmd[p].todo \in Seq(Step) /\ cmd[p].todo # <<>>
           /\ NextStep(p) = Head(cmd[p].todo)
           /\ NextStep(p) \in Step /\ NextStep(p)[1] = kind
           /\ NextStep(p) \in ToSet(cmd[p].todo)
           /\ Fits(NextStep(p), cmd[p].op, cmd[p].name)
           /\ cmd[p].op # "daemon" => cmd[p].name \in Names
           /\ cmd[p].op \in Ops
           /\ cmd[p].op \in Users(kind)
<1>1. cmd[p].todo # <<>> /\ NextStep(p) = Head(cmd[p].todo) /\ NextStep(p)[1] = kind
  BY DEF At, NextStep
<1>2. cmd[p] # Idle
  BY <1>1 DEF Idle
<1>3. Shaped(cmd[p]) /\ OwnsRow(cmd[p])
  BY <1>2 DEF Core
<1>4. cmd[p].todo \in Seq(Step)
  BY <1>3 DEF Shaped, Command
<1>5. NextStep(p) \in ToSet(cmd[p].todo) /\ NextStep(p) \in Step
  BY <1>1, <1>4, Elements
<1> QED
  BY <1>1, <1>2, <1>3, <1>4, <1>5 DEF Shaped, Fits

\* What is left after the first step.
LEMMA RestShaped ==
    ASSUME NEW c, Shaped(c), NEW d \in Command, d.op = c.op, d.name = c.name,
           d.op # "daemon" => d.row.domain \in {NoHost} \cup HostsOf(d.name),
           d.todo = Tail(c.todo), d.todo # <<>>
    PROVE  /\ Shaped(d)
           /\ ToSet(c.todo) = {Head(c.todo)} \cup ToSet(d.todo)
           /\ \A step \in ToSet(d.todo) : Follows(c.op, Head(c.todo), step)
<1>1. c.todo \in Seq(Step) /\ c.todo # <<>> /\ Ordered(c.op, c.todo)
  BY DEF Shaped, Command
<1>2. /\ Len(d.todo) = Len(c.todo) - 1 /\ d.todo \in Seq(Step)
      /\ \A k \in DOMAIN d.todo : k + 1 \in DOMAIN c.todo /\ d.todo[k] = c.todo[k + 1]
      /\ ToSet(c.todo) = {Head(c.todo)} \cup ToSet(d.todo)
  BY <1>1, TailElements
<1>3. \A k \in DOMAIN d.todo : k \in Nat /\ k > 0
  BY <1>2, LenProperties
<1>4. Ordered(d.op, d.todo)
  <2> SUFFICES ASSUME NEW j \in DOMAIN d.todo, NEW k \in DOMAIN d.todo, j < k
               PROVE  Follows(d.op, d.todo[j], d.todo[k])
    BY DEF Ordered
  <2>1. j + 1 < k + 1
    BY <1>3
  <2> QED
    BY <1>1, <1>2, <2>1 DEF Ordered
<1>5. \A step \in ToSet(d.todo) : Follows(c.op, Head(c.todo), step)
  <2> TAKE step \in ToSet(d.todo)
  <2>1. PICK k \in DOMAIN d.todo : step = d.todo[k]
    BY DEF ToSet
  <2>2. 1 \in DOMAIN c.todo /\ Head(c.todo) = c.todo[1] /\ 1 < k + 1
    BY <1>1, <1>3, LenProperties, EmptySeq
  <2> QED
    BY <1>1, <1>2, <2>1, <2>2 DEF Ordered
<1>6. Head(d.todo) \in ToSet(d.todo)
  BY <1>2, Elements
<1>7. Head(d.todo)[1] # "serve"
  BY <1>5, <1>6 DEF Follows
<1> QED
  BY <1>2, <1>4, <1>5, <1>7 DEF Shaped

LEMMA EndCore ==
    ASSUME Core, NEW p \in Procs, cmd[p] # Idle, cmd' = [cmd EXCEPT ![p] = Idle],
           rows' \in [Names -> Project], HostTypes', RowsAreProjects',
           \A n \in Names : n # cmd[p].name => rows'[n] = rows[n]
    PROVE  Core'
BY CoreStep, IdleOwns

\* Without a row, nothing is owned before or after.
LEMMA AdvanceCore ==
    ASSUME Core, NEW p \in Procs, NEW kind, At(p, kind),
           NEW d \in Command, d.op = cmd[p].op, d.name = cmd[p].name,
           d.op # "daemon" => d.row.domain \in {NoHost} \cup HostsOf(d.name),
           d.todo = Tail(cmd[p].todo), Continue(p, d),
           d.op # "daemon" => \/ HasIndex(d.name, d.row.rowid)'
                              \/ \A step \in ToSet(d.todo) : step[1] = "unroute",
           rows' \in [Names -> Project], HostTypes', RowsAreProjects',
           \A n \in Names : n # cmd[p].name => rows'[n] = rows[n]
    PROVE  Core'
<1>1. cmd[p] # Idle /\ Shaped(cmd[p]) /\ cmd[p].op \in Ops
  BY AtStep
<1>2. CASE d.todo = <<>>
  <2>1. cmd' = [cmd EXCEPT ![p] = Idle]
    BY <1>2 DEF Continue
  <2> QED
    BY <1>1, <2>1, EndCore
<1>3. CASE d.todo # <<>>
  <2>1. cmd' = [cmd EXCEPT ![p] = d]
    BY <1>3 DEF Continue
  <2>2. Shaped(d) /\ \A step \in ToSet(d.todo) : Follows(cmd[p].op, Head(cmd[p].todo), step)
    BY <1>1, <1>3, RestShaped
  <2>3. ~Has(d.todo, "register")
    BY <2>2 DEF Has, Follows
  <2>4. OwnsRow(d)'
    BY <2>3 DEF OwnsRow
  <2>5. DaemonAlone => ReadsRows(d)'
    <3> SUFFICES ASSUME DaemonAlone, d.op = "daemon"
                 PROVE  ReadsRows(d)'
      BY DEF ReadsRows
    <3>1. ReadsRows(cmd[p]) /\ ToSet(d.todo) \subseteq ToSet(cmd[p].todo)
      <4>1. ReadsRows(cmd[p])
        BY DEF Core, DaemonIsAlone
      <4>2. ToSet(cmd[p].todo) = {Head(cmd[p].todo)} \cup ToSet(d.todo)
        BY <1>1, <1>3, RestShaped
      <4> QED
        BY <4>1, <4>2
    <3>2. \A n \in Names : rows'[n] = rows[n]
      BY <1>1, NoneAssumption DEF Shaped
    <3> QED
      BY <3>1, <3>2 DEF ReadsRows, HasIndex, Present
  <2> QED
    BY <1>1, <2>1, <2>2, <2>4, <2>5, CoreStep
<1> QED
  BY <1>2, <1>3

\* A step that changes no row.
LEMMA PassCore ==
    ASSUME Core, NEW p \in Procs, NEW kind, At(p, kind), kind # "register",
           NEW d \in Command, d.op = cmd[p].op, d.name = cmd[p].name,
           d.row.rowid = cmd[p].row.rowid, d.row.domain = cmd[p].row.domain,
           d.todo = Tail(cmd[p].todo), Continue(p, d), HostTypes', rows' = rows
    PROVE  Core'
<1>1. Shaped(cmd[p]) /\ OwnsRow(cmd[p]) /\ cmd[p].op \in Ops /\ cmd[p].todo \in Seq(Step)
         /\ cmd[p].todo # <<>> /\ Head(cmd[p].todo)[1] = kind
  BY AtStep
<1>2. ToSet(cmd[p].todo) = {Head(cmd[p].todo)} \cup ToSet(d.todo)
  BY <1>1, TailElements
<1>3. d.op # "daemon" => d.row.domain \in {NoHost} \cup HostsOf(d.name)
  BY <1>1 DEF Shaped
<1>4. ASSUME d.op # "daemon"
      PROVE  HasIndex(d.name, d.row.rowid)' \/ \A step \in ToSet(d.todo) : step[1] = "unroute"
  <2>1. ~Has(cmd[p].todo, "register")
    <3>1. \A k \in DOMAIN cmd[p].todo : cmd[p].todo[k][1] # "register"
      <4> TAKE k \in DOMAIN cmd[p].todo
      <4>1. k \in Nat /\ k > 0 /\ 1 \in DOMAIN cmd[p].todo /\ Head(cmd[p].todo) = cmd[p].todo[1]
        BY <1>1, LenProperties, EmptySeq
      <4>2. k = 1 \/ Follows(cmd[p].op, cmd[p].todo[1], cmd[p].todo[k])
        BY <1>1, <4>1 DEF Shaped, Ordered
      <4> QED
        BY <1>1, <4>1, <4>2 DEF Follows
    <3> QED
      BY <3>1 DEF Has, ToSet
  <2> QED
    BY <1>1, <1>2, <1>4, <2>1 DEF OwnsRow, HasIndex, Present
<1>5. rows' \in [Names -> Project] /\ RowsAreProjects'
  BY DEF Core, TypeOK, RowsAreProjects, Present
<1> QED
  BY <1>3, <1>4, <1>5, AdvanceCore

LEMMA AdvancePassCore ==
    ASSUME Core, NEW p \in Procs, NEW kind, At(p, kind), kind # "register",
           Advance(p), HostTypes', rows' = rows
    PROVE  Core'
<1>1. cmd[p] \in Command /\ cmd[p].todo \in Seq(Step) /\ cmd[p].todo # <<>>
  BY AtStep DEF Shaped
<1> DEFINE d == [cmd[p] EXCEPT !.todo = Tail(@)]
<1>2. Tail(cmd[p].todo) \in Seq(Step)
  BY <1>1, TailElements
<1>3. d \in Command /\ d.op = cmd[p].op /\ d.name = cmd[p].name /\ d.row = cmd[p].row
         /\ d.todo = Tail(cmd[p].todo)
  BY <1>1, <1>2 DEF Command
<1>4. Continue(p, d)
  BY DEF Advance
<1> HIDE DEF d
<1> QED
  BY <1>3, <1>4, PassCore

LEMMA StopCore ==
    ASSUME Core, NEW p \in Procs, NEW kind, At(p, kind), GiveUp(p, <<>>), HostTypes', rows' = rows
    PROVE  Core'
<1>1. cmd[p] # Idle /\ cmd' = [cmd EXCEPT ![p] = Idle]
  <2>1. cmd[p] \in Command
    BY AtStep DEF Shaped
  <2>2. [cmd[p] EXCEPT !.todo = <<>>].todo = <<>>
    BY <2>1 DEF Command
  <2> QED
    BY <2>2, AtStep DEF GiveUp, Continue
<1>2. rows' \in [Names -> Project] /\ RowsAreProjects'
  BY DEF Core, TypeOK, RowsAreProjects, Present
<1> QED
  BY <1>1, <1>2, EndCore

LEMMA LaterSteps ==
    ASSUME NEW c, Shaped(c)
    PROVE  \A step \in ToSet(c.todo) : step = Head(c.todo) \/ Follows(c.op, Head(c.todo), step)
<1>1. c.todo \in Seq(Step) /\ c.todo # <<>> /\ Ordered(c.op, c.todo)
  BY DEF Shaped, Command
<1> SUFFICES ASSUME NEW k \in DOMAIN c.todo
             PROVE  c.todo[k] = Head(c.todo) \/ Follows(c.op, Head(c.todo), c.todo[k])
  BY DEF ToSet
<1>2. k \in Nat /\ k > 0 /\ 1 \in DOMAIN c.todo /\ Head(c.todo) = c.todo[1]
  BY <1>1, LenProperties, EmptySeq
<1> QED
  BY <1>1, <1>2 DEF Ordered

\* Once it is registered, a command that does more than remove a route knows the
\* index of its project.
LEMMA OwnRow ==
    ASSUME Core, NEW p \in Procs, NEW kind, At(p, kind), kind # "register"
    PROVE  /\ ~Has(cmd[p].todo, "register")
           /\ kind # "unroute" /\ cmd[p].op # "daemon"
                => HasIndex(cmd[p].name, cmd[p].row.rowid)
<1>1. Shaped(cmd[p]) /\ OwnsRow(cmd[p]) /\ cmd[p].op \in Ops
         /\ Head(cmd[p].todo) \in ToSet(cmd[p].todo) /\ Head(cmd[p].todo)[1] = kind
  BY AtStep
<1>2. ~Has(cmd[p].todo, "register")
  BY <1>1, LaterSteps DEF Has, Follows
<1> QED
  BY <1>1, <1>2 DEF OwnsRow

\* Other steps instead of what was left.
LEMMA InsteadCore ==
    ASSUME Core, NEW p \in Procs, NEW kind, At(p, kind), kind \notin {"register", "unroute"},
           cmd[p].op # "daemon",
           NEW s, s # <<>>, Part(s, cmd[p].op, cmd[p].name),
           \A step \in ToSet(s) : step[1] \notin {"serve", "register"},
           NEW d, d = [cmd[p] EXCEPT !.todo = s],
           GiveUp(p, s), HostTypes', rows' = rows
    PROVE  Core' /\ cmd'[p] = d
<1>1. cmd[p] # Idle /\ Shaped(cmd[p]) /\ cmd[p] \in Command
  BY AtStep DEF Shaped
<1>2. /\ d \in Command /\ d.op = cmd[p].op /\ d.name = cmd[p].name /\ d.row = cmd[p].row
      /\ d.todo = s
  BY <1>1 DEF Part, Command
<1>3. cmd' = [cmd EXCEPT ![p] = d]
  BY <1>2 DEF GiveUp, Continue
<1>4. Head(s) \in ToSet(s)
  BY Elements DEF Part
<1>5. Shaped(d)
  BY <1>1, <1>2, <1>4 DEF Shaped, Part
<1>6. OwnsRow(d)' /\ ReadsRows(d)'
  <2>1. ~Has(s, "register")
    BY DEF Has
  <2>2. HasIndex(d.name, d.row.rowid)
    BY <1>2, OwnRow
  <2>3. OwnsRow(d) /\ ReadsRows(d)
    BY <1>2, <2>1, <2>2 DEF OwnsRow, ReadsRows
  <2> QED
    BY <2>3, SameRowOwned, SameRowsRead
<1>7. rows' \in [Names -> Project] /\ RowsAreProjects'
  BY DEF Core, TypeOK, RowsAreProjects, Present
<1>8. Core'
  BY <1>1, <1>2, <1>3, <1>5, <1>6, <1>7, CoreStep
<1>9. cmd'[p] = d
  BY <1>3 DEF Core, TypeOK
<1> QED
  BY <1>8, <1>9

LEMMA Prepended ==
    ASSUME NEW S, NEW x \in S, NEW s \in Seq(S)
    PROVE  /\ <<x>> \o s \in Seq(S) /\ <<x>> \o s # <<>>
           /\ Head(<<x>> \o s) = x
           /\ Tail(<<x>> \o s) = s
           /\ ToSet(<<x>> \o s) = {x} \cup ToSet(s)
<1>1. <<x>> \in Seq(S) /\ Len(<<x>>) = 1 /\ <<x>>[1] = x
  OBVIOUS
<1>2. /\ <<x>> \o s \in Seq(S) /\ Len(s) \in Nat
      /\ Len(<<x>> \o s) = 1 + Len(s)
      /\ \A k \in 1 .. 1 + Len(s) : (<<x>> \o s)[k] = IF k <= 1 THEN <<x>>[k] ELSE s[k - 1]
  BY <1>1, ConcatProperties, LenProperties
<1> DEFINE t == <<x>> \o s
<1>3. t \in Seq(S) /\ Len(t) = 1 + Len(s) /\ t[1] = x /\ \A k \in 1 .. Len(s) : t[k + 1] = s[k]
  BY <1>1, <1>2
<1> HIDE DEF t
<1>4. t # <<>> /\ Head(t) = x
  BY <1>2, <1>3, EmptySeq
<1>5. Tail(t) \in Seq(S) /\ Len(Tail(t)) = Len(s) /\ \A k \in DOMAIN Tail(t) : Tail(t)[k] = t[k + 1]
  BY <1>2, <1>3, <1>4, TailElements
<1>6. \A k \in 1 .. Len(s) : Tail(t)[k] = s[k]
  BY <1>3, <1>5, LenProperties
<1>7. Tail(t) = s
  BY <1>5, <1>6, SeqEqual
<1>8. ToSet(t) = {x} \cup ToSet(s)
  BY <1>3, <1>4, <1>7, TailElements
<1> QED
  BY <1>3, <1>4, <1>7, <1>8 DEF t

\* A step before what is left.
LEMMA BeforeCore ==
    ASSUME Core, NEW p \in Procs, NEW kind, At(p, kind), kind \notin {"register", "unroute"},
           NEW x \in Step, Fits(x, cmd[p].op, cmd[p].name), NEW s \in Seq(Step),
           s \in {cmd[p].todo, Tail(cmd[p].todo)},
           x[1] # "register", \A y \in ToSet(s) : Follows(cmd[p].op, x, y),
           x[1] = "serve" => s # <<>> /\ Head(s)[1] = "route",
           x[1] \in {"open", "forward"} =>
              <<"open", x[2], x[3]>> \in ToSet(cmd[p].todo),
           NEW d, d = [cmd[p] EXCEPT !.todo = <<x>> \o s],
           Continue(p, d), HostTypes', rows' = rows
    PROVE  Core' /\ cmd'[p] = d
<1>1. cmd[p] # Idle /\ Shaped(cmd[p]) /\ cmd[p] \in Command /\ cmd[p].todo \in Seq(Step)
         /\ cmd[p].todo # <<>> /\ cmd[p].op \in Ops
  BY AtStep DEF Shaped
<1>2. /\ <<x>> \o s \in Seq(Step) /\ <<x>> \o s # <<>>
      /\ Head(<<x>> \o s) = x /\ Tail(<<x>> \o s) = s
      /\ ToSet(<<x>> \o s) = {x} \cup ToSet(s)
  BY Prepended
<1>3. /\ d \in Command /\ d.op = cmd[p].op /\ d.name = cmd[p].name /\ d.row = cmd[p].row
      /\ d.todo = <<x>> \o s
  BY <1>1, <1>2 DEF Command
<1>4. cmd' = [cmd EXCEPT ![p] = d]
  BY <1>2, <1>3 DEF Continue
<1>5. ToSet(s) \subseteq ToSet(cmd[p].todo)
  BY <1>1, TailElements
<1>6. Ordered(cmd[p].op, s)
  <2>1. CASE s = cmd[p].todo
    BY <1>1, <2>1 DEF Shaped
  <2>2. CASE s = Tail(cmd[p].todo)
    <3>1. /\ \A k \in DOMAIN s : k + 1 \in DOMAIN cmd[p].todo /\ s[k] = cmd[p].todo[k + 1]
          /\ \A k \in DOMAIN s : k \in Nat
      BY <1>1, <2>2, TailElements, LenProperties
    <3>2. Ordered(cmd[p].op, cmd[p].todo)
      BY <1>1 DEF Shaped
    <3>3. ASSUME NEW j \in DOMAIN s, NEW k \in DOMAIN s, j < k
          PROVE  Follows(cmd[p].op, s[j], s[k])
      <4>1. j + 1 < k + 1
        BY <3>1, <3>3
      <4> QED
        BY <3>1, <3>2, <4>1 DEF Ordered
    <3> QED
      BY <3>3 DEF Ordered
  <2> QED
    BY <2>1, <2>2
<1>7. Ordered(cmd[p].op, <<x>> \o s)
  <2>1. Part(<<x>>, cmd[p].op, cmd[p].name) /\ ToSet(<<x>>) = {x}
    BY OneStep
  <2>2. Part(s, cmd[p].op, cmd[p].name)
    BY <1>1, <1>5, <1>6 DEF Part, Shaped
  <2>3. \A a \in ToSet(<<x>>), y \in ToSet(s) : Follows(cmd[p].op, a, y)
    BY <2>1
  <2>4. Part(<<x>> \o s, cmd[p].op, cmd[p].name)
    BY <2>1, <2>2, <2>3, JoinedParts
  <2> QED
    BY <2>4 DEF Part
<1>8. Shaped(d)
  BY <1>1, <1>2, <1>3, <1>5, <1>7 DEF Shaped
<1>9. OwnsRow(d)'
  <2>1. ~Has(d.todo, "register")
    BY <1>2, <1>3, <1>5, OwnRow DEF Has
  <2> QED
    BY <1>3, <2>1, OwnRow DEF OwnsRow, HasIndex, Present
<1>10. DaemonAlone => ReadsRows(d)'
  <2> SUFFICES ASSUME DaemonAlone, d.op = "daemon", NEW step \in ToSet(d.todo),
                      step[1] \in {"open", "forward"}
               PROVE  \E n \in Names : HasIndex(n, step[3]) /\ step[2] \in rows[n].ports
    BY DEF ReadsRows, HasIndex, Present
  <2>1. ReadsRows(cmd[p])
    BY DEF Core, DaemonIsAlone
  <2>2. CASE step \in ToSet(s)
    BY <1>3, <1>5, <2>1, <2>2 DEF ReadsRows
  <2>3. CASE step = x
    <3>1. <<"open", x[2], x[3]>> \in ToSet(cmd[p].todo)
      BY <2>3
    <3> QED
      BY <1>3, <2>1, <2>3, <3>1 DEF ReadsRows
  <2> QED
    BY <1>2, <1>3, <2>2, <2>3
<1>11. rows' \in [Names -> Project] /\ RowsAreProjects'
  BY DEF Core, TypeOK, RowsAreProjects, Present
<1>12. Core'
  BY <1>1, <1>3, <1>4, <1>8, <1>9, <1>10, <1>11, CoreStep
<1> QED
  BY <1>4, <1>12 DEF Core, TypeOK

\* One of two steps is skipped.
LEMMA SkipCore ==
    ASSUME Core, NEW p \in Procs, NEW kind, At(p, kind), kind \notin {"register", "unroute"},
           cmd[p].op # "daemon", Tail(cmd[p].todo) # <<>>,
           NEW d, d = [cmd[p] EXCEPT !.todo = Tail(Tail(@))],
           Continue(p, d), HostTypes', rows' = rows
    PROVE  Core'
<1> DEFINE s == Tail(cmd[p].todo)
<1>1. cmd[p] # Idle /\ Shaped(cmd[p]) /\ cmd[p] \in Command /\ cmd[p].todo \in Seq(Step)
         /\ cmd[p].todo # <<>>
  BY AtStep DEF Shaped
<1>2. s \in Seq(Step) /\ s # <<>>
  BY <1>1, TailElements
<1>3. Tail(s) \in Seq(Step) /\ ToSet(s) = {Head(s)} \cup ToSet(Tail(s))
  BY <1>2, TailElements
<1>4. /\ d \in Command /\ d.op = cmd[p].op /\ d.name = cmd[p].name /\ d.row = cmd[p].row
      /\ d.todo = Tail(s)
  BY <1>1, <1>3 DEF Command
<1>5. rows' \in [Names -> Project] /\ RowsAreProjects'
  BY DEF Core, TypeOK, RowsAreProjects, Present
<1>6. CASE d.todo = <<>>
  <2>1. cmd' = [cmd EXCEPT ![p] = Idle]
    BY <1>6 DEF Continue
  <2> QED
    BY <1>1, <1>5, <2>1, EndCore
<1>7. CASE d.todo # <<>>
  <2>1. cmd' = [cmd EXCEPT ![p] = d]
    BY <1>7 DEF Continue
  <2> DEFINE c == [cmd[p] EXCEPT !.todo = s]
  <2>2. /\ c \in Command /\ c.op = cmd[p].op /\ c.name = cmd[p].name /\ c.row = cmd[p].row
        /\ c.todo = s
    BY <1>1, <1>2 DEF Command
  <2>3. cmd[p].op # "daemon" => cmd[p].row.domain \in {NoHost} \cup HostsOf(cmd[p].name)
    BY <1>1 DEF Shaped
  <2> HIDE DEF c
  <2>4. Shaped(c) /\ \A step \in ToSet(s) : Follows(cmd[p].op, Head(cmd[p].todo), step)
    BY <1>1, <1>2, <2>2, <2>3, RestShaped
  <2>5. Shaped(d)
    <3>1. d \in Command /\ d.op = c.op /\ d.name = c.name /\ d.row = c.row /\ d.todo = Tail(c.todo)
      BY <1>4, <2>2
    <3>2. d.op # "daemon" => d.row.domain \in {NoHost} \cup HostsOf(d.name)
      BY <1>4, <2>3
    <3> QED
      BY <1>7, <2>4, <3>1, <3>2, RestShaped
  <2>6. ~Has(d.todo, "register")
    BY <1>3, <1>4, <2>4 DEF Has, Follows
  <2>7. OwnsRow(d) /\ ReadsRows(d)
    BY <1>4, <2>6, OwnRow DEF OwnsRow, ReadsRows
  <2>8. OwnsRow(d)' /\ ReadsRows(d)'
    BY <2>7, SameRowOwned, SameRowsRead
  <2> QED
    BY <1>1, <1>4, <1>5, <2>1, <2>5, <2>8, CoreStep
<1> QED
  BY <1>6, <1>7

LEMMA RegisterCore ==
    ASSUME Core, NEW p \in Procs, Register(p)
    PROVE  Core'
<1> DEFINE n == cmd[p].name
<1>1. At(p, "register") /\ HostTypes'
  BY DEF Register, caddy, Core, TypeOK, HostTypes
<1>2. /\ cmd[p] # Idle /\ Shaped(cmd[p]) /\ OwnsRow(cmd[p]) /\ cmd[p].op \in {"deploy", "clone", "load"}
      /\ n \in Names /\ cmd[p] \in Command /\ cmd[p].todo \in Seq(Step) /\ cmd[p].todo # <<>>
      /\ NextStep(p) \in ToSet(cmd[p].todo) /\ NextStep(p)[1] = "register"
      /\ cmd[p].op \in Ops
  BY <1>1, AtStep DEF Users, Shaped
<1>4. rows \in [Names -> Project] /\ RowsAreProjects
  BY DEF Core, TypeOK
<1>5. ASSUME NEW r \in NextRowid(rows),
             rows' = [rows EXCEPT ![n] = [NoProject EXCEPT !.rowid = r, !.status = "creating"]],
             Continue(p, [cmd[p] EXCEPT !.todo = Tail(@), !.row.rowid = r])
      PROVE  Core'
  <2>1. PICK m \in Names : r = rows[m].rowid + 1 /\ \A k \in Names : rows[k].rowid <= rows[m].rowid
    BY <1>5 DEF NextRowid
  <2>2. \A k \in Names : rows[k].rowid \in Nat
    BY <1>4 DEF Project
  <2>3. r \in Nat /\ r # 0 /\ \A k \in Names : rows[k].rowid # r
    BY <2>1, <2>2
  <2> DEFINE new == [NoProject EXCEPT !.rowid = r, !.status = "creating"]
  <2>4. new \in Project /\ new.rowid = r /\ new.domain = NoHost
    BY <2>3, IdleCommand DEF NoProject, Project
  <2> HIDE DEF new
  <2>5. /\ rows' \in [Names -> Project] /\ rows'[n] = new
        /\ \A k \in Names : k # n => rows'[k] = rows[k]
    BY <1>2, <1>4, <1>5, <2>4 DEF new
  <2>6. RowsAreProjects'
    BY <1>4, <2>3, <2>4, <2>5 DEF RowsAreProjects, Present
  <2>7. PICK d : d = [cmd[p] EXCEPT !.todo = Tail(@), !.row.rowid = r]
    OBVIOUS
  <2>8. Tail(cmd[p].todo) \in Seq(Step)
    BY <1>2, TailElements
  <2>9. /\ d \in Command /\ d.op = cmd[p].op /\ d.name = n /\ d.row.rowid = r
        /\ d.row.domain = cmd[p].row.domain /\ d.todo = Tail(cmd[p].todo)
    BY <1>2, <2>3, <2>7, <2>8 DEF Command, Project
  <2>10. HasIndex(d.name, d.row.rowid)'
    BY <1>2, <2>3, <2>4, <2>5, <2>9 DEF HasIndex, Present
  <2>11. d.row.domain \in {NoHost} \cup HostsOf(d.name)
    BY <1>2, <2>9 DEF Shaped
  <2> QED
    BY <1>1, <1>5, <2>5, <2>6, <2>7, <2>9, <2>10, <2>11, AdvanceCore
<1>6. CASE GiveUp(p, <<>>) /\ rows' = rows
  BY <1>1, <1>6, StopCore
<1> QED
  BY Zenon, <1>5, <1>6 DEF Register

LEMMA BootCore ==
    ASSUME Core, NEW p \in Procs, Boot(p)
    PROVE  Core'
<1>1. At(p, "boot") /\ HostTypes' /\ rows' = rows
  BY DEF Boot, caddy, Core, TypeOK, HostTypes
<1>2. CASE Advance(p)
  BY <1>1, <1>2, AdvancePassCore
<1>3. CASE GiveUp(p, <<>>)
  BY <1>1, <1>3, StopCore
<1>4. CASE cmd[p].op \in {"deploy", "clone"} /\ GiveUp(p, << <<"unrow">> >>)
  <2>1. <<"unrow">> \in Step /\ Fits(<<"unrow">>, cmd[p].op, cmd[p].name)
    BY <1>4 DEF Step, Fits, Users
  <2> DEFINE s == << <<"unrow">> >>
  <2>2. Part(s, cmd[p].op, cmd[p].name) /\ ToSet(s) = {<<"unrow">>} /\ s # <<>>
    BY <2>1, OneStep
  <2>3. \A step \in ToSet(s) : step[1] \notin {"serve", "register"}
    BY <2>2
  <2>4. PICK d : d = [cmd[p] EXCEPT !.todo = s]
    OBVIOUS
  <2>5. GiveUp(p, s)
    BY <1>4
  <2> HIDE DEF s
  <2> QED
    BY <1>1, <1>4, <2>2, <2>3, <2>4, <2>5, InsteadCore
<1> QED
  BY <1>2, <1>3, <1>4 DEF Boot, When

LEMMA FindNoServerCore ==
    ASSUME Core, NEW p \in Procs, FindNoServer(p)
    PROVE  Core'
<1>1. At(p, "route") /\ HostTypes' /\ rows' = rows
  BY DEF FindNoServer, caddy, Core, TypeOK, HostTypes
<1>2. /\ Shaped(cmd[p]) /\ cmd[p].op \in Users("route") /\ cmd[p].todo \in Seq(Step)
      /\ cmd[p].todo # <<>> /\ Head(cmd[p].todo)[1] = "route"
  BY <1>1, AtStep
<1> DEFINE x == <<"serve">>
           s == cmd[p].todo
<1>3. x \in Step /\ Fits(x, cmd[p].op, cmd[p].name) /\ x[1] = "serve"
  BY <1>2 DEF Step, Fits, Users
<1>4. \A y \in ToSet(s) : Follows(cmd[p].op, x, y)
  BY <1>2, LaterSteps DEF Follows
<1>5. PICK d : d = [cmd[p] EXCEPT !.todo = <<x>> \o s]
  OBVIOUS
<1>6. Continue(p, d)
  BY <1>5 DEF FindNoServer
<1> HIDE DEF x, s
<1>7. s = cmd[p].todo
  BY DEF s
<1> QED
  BY <1>1, <1>2, <1>3, <1>4, <1>5, <1>6, <1>7, BeforeCore

LEMMA NatWellFounded == IsWellFoundedOn({ss \in Nat \X Nat : ss[1] < ss[2]}, Nat)
  BY NatLessThanWellFounded DEF OpToRel

LEMMA MinimumOf ==
    ASSUME NEW I \in SUBSET Nat, I # {}
    PROVE  Min(I) \in I
<1> DEFINE R == {ss \in Nat \X Nat : ss[1] < ss[2]}
<1>1. IsWellFoundedOn(R, Nat)
  BY NatWellFounded
<1>2. \A x, y \in Nat : <<y, x>> \in R <=> y < x
  OBVIOUS
<1> HIDE DEF R
<1>3. PICK x \in I : \A y \in I : ~ (<<y, x>> \in R)
  BY <1>1, WFMin
<1>4. ASSUME NEW y \in I PROVE x <= y
  <2>1. ~ (y < x) /\ x \in Nat /\ y \in Nat
    BY <1>2, <1>3
  <2> QED
    BY <2>1
<1> QED
  BY <1>3, <1>4 DEF Min

\* Rules stay sequences of indexes.
LEMMA RemovedFirst ==
    ASSUME NEW S, NEW s \in Seq(S), NEW e
    PROVE  /\ RemoveFirst(s, e) \in Seq(S)
           /\ \A k \in DOMAIN RemoveFirst(s, e) : RemoveFirst(s, e)[k] \in ToSet(s)
           /\ IsInjective(s) =>
                 /\ IsInjective(RemoveFirst(s, e))
                 /\ ToSet(RemoveFirst(s, e)) = ToSet(s) \ {e}
<1>0. Len(s) \in Nat /\ DOMAIN s = 1 .. Len(s) /\ \A k \in DOMAIN s : s[k] \in S /\ s[k] \in ToSet(s)
  BY LenProperties DEF ToSet
<1>1. CASE ~ \E i \in 1 .. Len(s) : s[i] = e
  <2>1. RemoveFirst(s, e) = s /\ e \notin ToSet(s)
    BY <1>0, <1>1 DEF RemoveFirst, ToSet
  <2> QED
    BY <1>0, <2>1
<1>2. CASE \E i \in 1 .. Len(s) : s[i] = e
  <2> DEFINE I == {i \in 1 .. Len(s) : s[i] = e}
             j == Min(I)
  <2>1. j \in I
    <3>1. I \subseteq Nat /\ I # {}
      BY <1>2
    <3> HIDE DEF I
    <3> QED
      BY <3>1, MinimumOf
  <2>2. RemoveFirst(s, e) = SubSeq(s, 1, j - 1) \o SubSeq(s, j + 1, Len(s))
    BY <1>2 DEF RemoveFirst, SelectInSeq, RemoveAt
  <2> DEFINE a == SubSeq(s, 1, j - 1)
             b == SubSeq(s, j + 1, Len(s))
             t == a \o b
  <2>3. j \in 1 .. Len(s) /\ s[j] = e
    BY <2>1
  <2> HIDE DEF j, I
  <2>4. a \in Seq(S) /\ Len(a) = j - 1 /\ \A k \in 1 .. j - 1 : a[k] = s[k]
    <3>1. \A i \in 1 .. j - 1 : s[i] \in S
      BY <1>0, <2>3
    <3> QED
      BY <1>0, <2>3, <3>1, SubSeqProperties, Z3
  <2>5. b \in Seq(S) /\ Len(b) = Len(s) - j /\ \A k \in 1 .. Len(s) - j : b[k] = s[j + k]
    <3>1. \A i \in j + 1 .. Len(s) : s[i] \in S
      BY <1>0, <2>3
    <3>2. j + 1 \in Int /\ Len(s) \in Int
      BY <1>0, <2>3
    <3>3. /\ b \in Seq(S)
          /\ Len(b) = IF j + 1 <= Len(s) THEN Len(s) - (j + 1) + 1 ELSE 0
          /\ \A i \in 1 .. Len(s) - (j + 1) + 1 : b[i] = s[j + 1 + i - 1]
      BY <3>1, <3>2, SubSeqProperties
    <3> HIDE DEF b
    <3>4. Len(b) = Len(s) - j
      <4>1. Len(s) \in Nat /\ j \in Nat /\ 1 <= j /\ j <= Len(s)
        BY <1>0, <2>3
      <4>2. Len(b) = IF j + 1 <= Len(s) THEN Len(s) - (j + 1) + 1 ELSE 0
        BY <3>3
      <4> QED
        BY <4>1, <4>2
    <3>5. ASSUME NEW k \in 1 .. Len(s) - j PROVE b[k] = s[j + k]
      <4>1. k \in 1 .. Len(s) - (j + 1) + 1 /\ j + 1 + k - 1 = j + k
        BY <1>0, <2>3
      <4> QED
        BY <3>3, <4>1
    <3> QED
      BY <3>3, <3>4, <3>5
  <2> HIDE DEF a, b
  <2>6. /\ t \in Seq(S) /\ Len(t) = Len(s) - 1
        /\ \A k \in 1 .. Len(s) - 1 : t[k] = IF k < j THEN s[k] ELSE s[k + 1]
    <3>1. /\ t \in Seq(S) /\ Len(t) = Len(a) + Len(b)
          /\ \A k \in 1 .. Len(a) + Len(b) : t[k] = IF k <= Len(a) THEN a[k] ELSE b[k - Len(a)]
      BY <2>4, <2>5, ConcatProperties
    <3>2. Len(a) + Len(b) = Len(s) - 1
      BY <1>0, <2>3, <2>4, <2>5
    <3>3. ASSUME NEW k \in 1 .. Len(s) - 1 PROVE t[k] = IF k < j THEN s[k] ELSE s[k + 1]
      <4>1. CASE k < j
        BY <1>0, <2>3, <2>4, <3>1, <3>2, <4>1
      <4>2. CASE ~ (k < j)
        <5>1. k - (j - 1) \in 1 .. Len(s) - j /\ j + (k - (j - 1)) = k + 1 /\ ~ (k <= j - 1)
          BY <1>0, <2>3, <4>2
        <5>2. t[k] = b[k - (j - 1)]
          BY <2>4, <3>1, <3>2, <5>1
        <5> QED
          BY <2>5, <4>2, <5>1, <5>2
      <4> QED
        BY <4>1, <4>2
    <3> QED
      BY <3>1, <3>2, <3>3
  <2> HIDE DEF t
  <2>7. DOMAIN t = 1 .. Len(s) - 1
    BY <2>6, LenProperties
  <2>8. \A k \in DOMAIN t : t[k] \in ToSet(s)
    BY <1>0, <2>3, <2>6, <2>7
  <2>9. ASSUME IsInjective(s)
        PROVE  IsInjective(t) /\ ToSet(t) = ToSet(s) \ {e}
    <3>1. \A x, y \in DOMAIN s : s[x] = s[y] => x = y
      BY <2>9 DEF IsInjective
    <3>2. ASSUME NEW x \in DOMAIN t, NEW y \in DOMAIN t, t[x] = t[y]
          PROVE  x = y
      <4> DEFINE Src(k) == IF k < j THEN k ELSE k + 1
      <4>1. \A k \in DOMAIN t : Src(k) \in DOMAIN s /\ t[k] = s[Src(k)] /\ k \in Nat
        BY <1>0, <2>3, <2>6, <2>7
      <4>2. Src(x) = Src(y)
        <5> HIDE DEF Src
        <5> QED
          BY <3>1, <3>2, <4>1
      <4> QED
        <5>1. x \in Nat /\ y \in Nat
          BY <4>1
        <5>2. (IF x < j THEN x ELSE x + 1) = (IF y < j THEN y ELSE y + 1)
          BY <4>2
        <5> HIDE DEF Src
        <5> QED
          BY <2>3, <5>1, <5>2
    <3>3. ASSUME NEW x \in DOMAIN t PROVE t[x] # e
      BY <1>0, <2>3, <2>6, <2>7, <3>1, SMTT(40)
    <3>4. ASSUME NEW x \in DOMAIN s, s[x] # e
          PROVE  \E k \in DOMAIN t : t[k] = s[x]
      <4>1. CASE x < j
        BY <1>0, <2>3, <2>6, <2>7, <4>1
      <4>2. CASE x > j
        <5>1. x - 1 \in DOMAIN t /\ t[x - 1] = s[x]
          BY <1>0, <2>3, <2>6, <2>7, <4>2
        <5> QED
          BY <5>1
      <4> QED
        BY <1>0, <2>3, <3>4, <4>1, <4>2
    <3>5. ToSet(s) \ {e} \subseteq ToSet(t)
      BY <3>4 DEF ToSet
    <3>6. ToSet(t) \subseteq ToSet(s) \ {e}
      BY <2>8, <3>3 DEF ToSet
    <3> QED
      BY <3>2, <3>5, <3>6 DEF IsInjective
  <2> QED
    BY <2>2, <2>6, <2>8, <2>9 DEF t, a, b
<1> QED
  BY <1>1, <1>2

LEMMA StepData ==
    ASSUME Core, NEW p \in Procs, NEW kind, At(p, kind)
    PROVE  /\ cmd[p] \in Command /\ cmd[p].row \in Project
           /\ cmd[p].row.rowid \in Nat /\ cmd[p].row.ports \subseteq Ports
           /\ kind = "route" => Key(p) \in Hosts /\ Index(p) = cmd[p].row.rowid
           /\ kind \in {"unroute", "dns", "undns"} => Key(p) \in Hosts
           /\ kind = "dns" => Index(p) \in Nat \cup {HostIP}
           /\ kind \in {"open", "forward", "unforward"} => Key(p) \in Ports /\ Index(p) \in Nat
<1>1. cmd[p] \in Command /\ NextStep(p) \in Step /\ NextStep(p)[1] = kind
  BY AtStep DEF Shaped
<1>2. cmd[p].row \in Project /\ cmd[p].row.rowid \in Nat /\ cmd[p].row.ports \subseteq Ports
  BY <1>1 DEF Command, Project
<1> QED
  BY <1>1, <1>2, StepTypes DEF Key, Index, Own

\* RouteFails ends or goes on.
LEMMA ServeCore ==
    ASSUME Core, NEW p \in Procs, Serve(p)
    PROVE  Core'
<1>1. At(p, "serve") /\ rows' = rows /\ HostTypes'
  <2>1. TypeOK
    BY DEF Core
  <2>2. server' \in BOOLEAN /\ routes' \in [Hosts -> Nat]
    <3>1. [h \in Hosts |-> 0] \in [Hosts -> Nat]
      OBVIOUS
    <3>2. (server' = TRUE \/ server' = server) /\ (routes' = [h \in Hosts |-> 0] \/ routes' = routes)
      BY DEF Serve
    <3> QED
      BY <2>1, <3>1, <3>2 DEF TypeOK
  <2> QED
    BY <2>1, <2>2 DEF Serve, TypeOK, HostTypes
<1>2. CASE Advance(p)
  BY <1>1, <1>2, AdvancePassCore
<1>3. CASE GiveUp(p, <<>>)
  BY <1>1, <1>3, StopCore
<1>4. CASE Continue(p, [cmd[p] EXCEPT !.todo = Tail(Tail(cmd[p].todo))])
  <2>1. cmd[p].op # "daemon" /\ Tail(cmd[p].todo) # <<>>
    BY <1>1, AtStep DEF Users, Shaped
  <2>2. PICK d : d = [cmd[p] EXCEPT !.todo = Tail(Tail(@))]
    OBVIOUS
  <2>3. Continue(p, d)
    BY <1>4, <2>2
  <2> QED
    BY <1>1, <2>1, <2>2, <2>3, SkipCore
<1> QED
  BY <1>2, <1>3, <1>4 DEF Serve, RouteFails

LEMMA RouteCore ==
    ASSUME Core, NEW p \in Procs, Route(p)
    PROVE  Core'
<1>1. At(p, "route") /\ rows' = rows
  BY DEF Route
<1>2. Key(p) \in Hosts /\ Index(p) \in Nat
  BY <1>1, StepData
<1>3. HostTypes'
  <2>1. TypeOK
    BY DEF Core
  <2>2. routes' \in [Hosts -> Nat] /\ lost' \subseteq Hosts
    BY <1>2, <2>1 DEF Route, TypeOK
  <2> QED
    BY <2>1, <2>2 DEF Route, TypeOK, HostTypes
<1>4. CASE Advance(p)
  BY <1>1, <1>3, <1>4, AdvancePassCore
<1>5. CASE GiveUp(p, <<>>)
  BY <1>1, <1>3, <1>5, StopCore
<1> QED
  BY <1>4, <1>5 DEF Route, RouteFails, Advance

LEMMA UnrouteCore ==
    ASSUME Core, NEW p \in Procs, Unroute(p)
    PROVE  Core'
<1>1. At(p, "unroute") /\ rows' = rows /\ Advance(p)
  BY DEF Unroute
<1>2. Key(p) \in Hosts
  BY <1>1, StepData
<1>3. HostTypes'
  BY <1>2 DEF Unroute, Core, TypeOK, HostTypes
<1> QED
  BY <1>1, <1>3, AdvancePassCore

LEMMA RecordCore ==
    ASSUME Core, NEW p \in Procs, Record(p)
    PROVE  Core'
<1>1. rows' = rows /\ Advance(p) /\ (At(p, "dns") \/ At(p, "undns"))
  BY DEF Record
<1>2. HostTypes'
  <2>1. dns \in [Hosts -> Nat \cup {HostIP}]
    BY DEF Core, TypeOK
  <2>2. dns' \in [Hosts -> Nat \cup {HostIP}]
    <3>1. CASE At(p, "dns") /\ dns' = [dns EXCEPT ![Key(p)] = Index(p)]
      BY <2>1, <3>1, StepData
    <3>2. CASE At(p, "undns") /\ dns' = [dns EXCEPT ![Key(p)] = 0]
      BY <2>1, <3>2, StepData
    <3> QED
      BY <2>1, <3>1, <3>2 DEF Record
  <2> QED
    BY <2>2 DEF Record, Core, TypeOK, HostTypes, caddy
<1>3. CASE At(p, "dns")
  BY <1>1, <1>2, <1>3, AdvancePassCore
<1>4. CASE At(p, "undns")
  BY <1>1, <1>2, <1>4, AdvancePassCore
<1> QED
  BY <1>1, <1>3, <1>4

LEMMA DeletedType ==
    ASSUME Core, NEW p \in Procs, NEW kind \in {"open", "unforward"}, At(p, kind)
    PROVE  /\ Deleted(p) \in [Ports -> Seq(Nat)]
           /\ Deleted(p)[Key(p)] = RemoveFirst(rules[Key(p)], Index(p))
           /\ \A port \in Ports : port # Key(p) => Deleted(p)[port] = rules[port]
<1>1. Key(p) \in Ports /\ rules \in [Ports -> Seq(Nat)]
  BY StepData DEF Core, TypeOK
<1>2. RemoveFirst(rules[Key(p)], Index(p)) \in Seq(Nat)
  BY <1>1, RemovedFirst
<1> QED
  BY <1>1, <1>2 DEF Deleted

LEMMA UnforwardCore ==
    ASSUME Core, NEW p \in Procs, Unforward(p)
    PROVE  Core'
<1>1. At(p, "unforward") /\ rows' = rows /\ Advance(p) /\ rules' \in {Deleted(p), rules}
  BY DEF Unforward, DeleteRule
<1>2. HostTypes'
  BY <1>1, DeletedType DEF Unforward, Core, TypeOK, HostTypes, caddy
<1> QED
  BY <1>1, <1>2, AdvancePassCore

LEMMA ReopenCore ==
    ASSUME Core, NEW p \in Procs, Reopen(p)
    PROVE  Core'
<1>1. At(p, "open") /\ rows' = rows /\ rules' \in {Deleted(p), rules}
  BY DEF Reopen, DeleteRule
<1>2. HostTypes'
  BY <1>1, DeletedType DEF Reopen, Core, TypeOK, HostTypes, caddy
<1>3. /\ Shaped(cmd[p]) /\ cmd[p].todo \in Seq(Step) /\ cmd[p].todo # <<>>
      /\ NextStep(p) = Head(cmd[p].todo) /\ NextStep(p) \in Step /\ NextStep(p)[1] = "open"
      /\ NextStep(p) \in ToSet(cmd[p].todo) /\ Fits(NextStep(p), cmd[p].op, cmd[p].name)
  BY <1>1, AtStep
<1>4. PICK x : x = <<"forward", Key(p), NextStep(p)[3]>>
  OBVIOUS
<1>5. x \in Step /\ x[1] = "forward" /\ x[2] = Key(p) /\ x[3] = NextStep(p)[3]
  BY <1>3, <1>4, StepTypes DEF Key
<1>6. Fits(x, cmd[p].op, cmd[p].name)
  BY <1>3, <1>5 DEF Fits, Users, Key
<1>7. PICK s : s = Tail(cmd[p].todo)
  OBVIOUS
<1>8. s \in Seq(Step) /\ ToSet(cmd[p].todo) = {Head(cmd[p].todo)} \cup ToSet(s)
  BY <1>3, <1>7, TailElements
<1>9. \A y \in ToSet(s) : Follows(cmd[p].op, x, y)
  <2> TAKE y \in ToSet(s)
  <2>1. Follows(cmd[p].op, NextStep(p), y)
    <3>1. PICK k \in DOMAIN s : y = s[k]
      BY DEF ToSet
    <3>2. k + 1 \in DOMAIN cmd[p].todo /\ y = cmd[p].todo[k + 1] /\ k \in Nat /\ k > 0
      BY <1>3, <1>7, <1>8, <3>1, TailElements, LenProperties
    <3>3. 1 \in DOMAIN cmd[p].todo /\ NextStep(p) = cmd[p].todo[1] /\ 1 < k + 1
      BY <1>3, <3>2, LenProperties, EmptySeq
    <3> QED
      BY <1>3, <3>2, <3>3 DEF Shaped, Ordered
  <2> QED
    BY <1>3, <1>5, <2>1 DEF Follows
<1>10. NextStep(p) = <<"open", x[2], x[3]>>
  BY <1>3, <1>5 DEF Step, Key
<1>11. <<"open", x[2], x[3]>> \in ToSet(cmd[p].todo)
  BY <1>3, <1>10
<1>12. PICK d : d = [cmd[p] EXCEPT !.todo = <<x>> \o s]
  OBVIOUS
<1>13. Continue(p, d)
  BY <1>4, <1>7, <1>12 DEF Reopen
<1> QED
  BY <1>1, <1>2, <1>5, <1>6, <1>7, <1>8, <1>9, <1>11, <1>12, <1>13, BeforeCore

LEMMA ForwardCore ==
    ASSUME Core, NEW p \in Procs, Forward(p)
    PROVE  Core'
<1>1. At(p, "forward") /\ rows' = rows
  BY DEF Forward
<1>2. /\ cmd[p] \in Command /\ cmd[p].row \in Project /\ cmd[p].todo \in Seq(Step)
      /\ cmd[p].todo # <<>> /\ Key(p) \in Ports /\ Index(p) \in Nat
  BY <1>1, AtStep, StepData
<1>3. HostTypes'
  <2>1. TypeOK
    BY DEF Core
  <2> DEFINE new == [rules EXCEPT ![Key(p)] = <<Index(p)>> \o @]
  <2>2. new \in [Ports -> Seq(Nat)]
    <3>1. <<Index(p)>> \o rules[Key(p)] \in Seq(Nat)
      BY <1>2, <2>1, Prepended DEF TypeOK
    <3> QED
      BY <1>2, <2>1, <3>1 DEF TypeOK
  <2>3. rules' \in {rules, new}
    BY DEF Forward
  <2> HIDE DEF new
  <2> QED
    BY <2>1, <2>2, <2>3 DEF Forward, TypeOK, HostTypes, caddy
<1>4. CASE Advance(p)
  BY <1>1, <1>3, <1>4, AdvancePassCore
<1>5. CASE GiveUp(p, <<>>)
  BY <1>1, <1>3, <1>5, StopCore
<1>6. CASE Continue(p, [cmd[p] EXCEPT !.todo = Tail(@), !.row.ports = @ \ {Key(p)}])
  <2>1. PICK d : d = [cmd[p] EXCEPT !.todo = Tail(@), !.row.ports = @ \ {Key(p)}]
    OBVIOUS
  <2>2. Tail(cmd[p].todo) \in Seq(Step)
    BY <1>2, TailElements
  <2>3. /\ d \in Command /\ d.op = cmd[p].op /\ d.name = cmd[p].name
        /\ d.row.rowid = cmd[p].row.rowid /\ d.row.domain = cmd[p].row.domain
        /\ d.todo = Tail(cmd[p].todo)
    <3>1. [cmd[p].row EXCEPT !.ports = @ \ {Key(p)}] \in Project
      BY <1>2 DEF Project
    <3>2. d = [[cmd[p] EXCEPT !.todo = Tail(@)]
                  EXCEPT !.row = [cmd[p].row EXCEPT !.ports = @ \ {Key(p)}]]
      BY <1>2, <2>1 DEF Command
    <3>3. /\ d.row = [cmd[p].row EXCEPT !.ports = @ \ {Key(p)}]
          /\ d \in Command /\ d.op = cmd[p].op /\ d.name = cmd[p].name
          /\ d.todo = Tail(cmd[p].todo)
      BY <1>2, <2>2, <3>1, <3>2 DEF Command
    <3> QED
      BY <1>2, <3>3 DEF Project
  <2>4. Continue(p, d)
    BY <1>6, <2>1
  <2> QED
    BY <1>1, <1>3, <2>3, <2>4, PassCore
<1> QED
  BY <1>4, <1>5, <1>6 DEF Forward

LEMMA SavedCore ==
    ASSUME Core, NEW p \in Procs, At(p, "save"), Advance(p), HostTypes',
           rows' = [rows EXCEPT ![cmd[p].name] = cmd[p].row]
    PROVE  Core'
<1> DEFINE n == cmd[p].name
<1>1. /\ Shaped(cmd[p]) /\ cmd[p] \in Command /\ cmd[p].op \in Ops \ {"daemon"}
      /\ n \in Names /\ cmd[p].todo \in Seq(Step) /\ cmd[p].todo # <<>> /\ cmd[p].row \in Project
      /\ cmd[p].row.domain \in {NoHost} \cup HostsOf(n)
  BY AtStep, StepData DEF Users, Shaped
<1>2. HasIndex(n, cmd[p].row.rowid)
  BY <1>1, OwnRow
<1>3. /\ rows' \in [Names -> Project] /\ rows'[n] = cmd[p].row
      /\ \A k \in Names : k # n => rows'[k] = rows[k]
  BY <1>1 DEF Core, TypeOK
<1>4. RowsAreProjects'
  <2>1. \A k \in Names : rows'[k].rowid = rows[k].rowid
    BY <1>2, <1>3 DEF HasIndex
  <2>2. RowsAreProjects /\ rows'[n].rowid # 0
    BY <1>2, <2>1 DEF Core, HasIndex, Present
  <2> QED
    BY <1>1, <1>3, <2>1, <2>2 DEF RowsAreProjects, Present
<1>5. PICK d : d = [cmd[p] EXCEPT !.todo = Tail(@)]
  OBVIOUS
<1>6. Tail(cmd[p].todo) \in Seq(Step)
  BY <1>1, TailElements
<1>7. d \in Command /\ d.op = cmd[p].op /\ d.name = n /\ d.row = cmd[p].row
         /\ d.todo = Tail(cmd[p].todo)
  BY <1>1, <1>5, <1>6 DEF Command
<1>8. HasIndex(d.name, d.row.rowid)'
  BY <1>2, <1>3, <1>7 DEF HasIndex, Present
<1>9. Continue(p, d)
  BY <1>5 DEF Advance
<1> QED
  BY <1>1, <1>3, <1>4, <1>7, <1>8, <1>9, AdvanceCore

\* port open works on one port that its project does not have yet.
OpensPort(c) ==
    c.op = "port open" =>
       \E port \in Ports :
          /\ port \notin rows[c.name].ports
          /\ c.row.ports = rows[c.name].ports \cup {port}
          /\ \A step \in ToSet(c.todo) : step[1] # "save" => step[2] = port

OpensPorts == \A p \in Procs : OpensPort(cmd[p])

LEMMA SaveCore ==
    ASSUME Core, OpensPorts, NEW p \in Procs, Save(p)
    PROVE  Core'
<1>1. At(p, "save") /\ HostTypes'
  BY DEF Save, caddy, Core, TypeOK, HostTypes
<1>2. CASE rows' = [rows EXCEPT ![cmd[p].name] = cmd[p].row] /\ Advance(p)
  BY <1>1, <1>2, SavedCore
<1>3. ASSUME rows' = rows, NEW x \in Step, GiveUp(p, <<x>>), Fits(x, cmd[p].op, cmd[p].name),
             x[1] \notin {"serve", "register"}
      PROVE  Core'
  <2> DEFINE s == <<x>>
  <2>1. Part(s, cmd[p].op, cmd[p].name) /\ ToSet(s) = {x} /\ s # <<>>
    BY <1>3, OneStep
  <2>2. \A step \in ToSet(s) : step[1] \notin {"serve", "register"}
    BY <1>3, <2>1
  <2>3. PICK d : d = [cmd[p] EXCEPT !.todo = s]
    OBVIOUS
  <2>4. GiveUp(p, s) /\ cmd[p].op # "daemon"
    BY <1>1, <1>3, AtStep DEF Users
  <2> HIDE DEF s
  <2> QED
    BY <1>1, <1>3, <2>1, <2>2, <2>3, <2>4, InsteadCore
<1>4. CASE rows' = rows /\ GiveUp(p, AfterFailedSave(p)) /\ cmd[p].op \in {"deploy", "clone"}
  <2>1. AfterFailedSave(p) = << <<"unrow">> >>
    BY <1>4 DEF AfterFailedSave
  <2>2. <<"unrow">> \in Step /\ Fits(<<"unrow">>, cmd[p].op, cmd[p].name)
           /\ <<"unrow">>[1] = "unrow"
    BY <1>4 DEF Step, Fits, Users
  <2> QED
    BY <1>3, <1>4, <2>1, <2>2
<1>5. CASE rows' = rows /\ GiveUp(p, AfterFailedSave(p)) /\ cmd[p].op = "port open"
  <2>1. PICK port \in Ports : /\ port \notin rows[cmd[p].name].ports
                              /\ cmd[p].row.ports = rows[cmd[p].name].ports \cup {port}
    BY <1>5 DEF OpensPorts, OpensPort
  <2> DEFINE q == CHOOSE k \in cmd[p].row.ports : k \notin rows[cmd[p].name].ports
  <2>2. q = port
    BY <2>1
  <2>3. AfterFailedSave(p) = << <<"unforward", q, Own>> >>
    BY <1>5 DEF AfterFailedSave, ClosePort
  <2> HIDE DEF q
  <2> DEFINE x == <<"unforward", port, Own>>
  <2>4. x \in Step /\ x[1] = "unforward" /\ x[3] = Own
    BY DEF Step, Own
  <2>5. Fits(x, cmd[p].op, cmd[p].name)
    BY <1>5, <2>4 DEF Fits, Users
  <2>6. GiveUp(p, <<x>>)
    BY <1>5, <2>2, <2>3
  <2> HIDE DEF x
  <2> QED
    BY <1>3, <1>5, <2>4, <2>5, <2>6
<1>6. CASE rows' = rows /\ GiveUp(p, AfterFailedSave(p)) /\ cmd[p].op = "route remove"
  <2>1. GiveUp(p, Tail(cmd[p].todo))
    BY <1>6 DEF AfterFailedSave
  <2>2. Advance(p)
    BY <2>1 DEF GiveUp, Advance
  <2> QED
    BY <1>1, <1>6, <2>2, AdvancePassCore
<1>7. CASE rows' = rows /\ GiveUp(p, <<>>)
  BY <1>1, <1>7, StopCore
<1> QED
  BY <1>2, <1>4, <1>5, <1>6, <1>7 DEF Save, AfterFailedSave

LEMMA UnrowCore ==
    ASSUME Core, NEW p \in Procs, Unrow(p)
    PROVE  Core'
<1> DEFINE n == cmd[p].name
<1>1. At(p, "unrow") /\ HostTypes' /\ Advance(p)
         /\ (rows' = [rows EXCEPT ![n] = NoProject] \/ rows' = rows)
  BY DEF Unrow, caddy, Core, TypeOK, HostTypes
<1>2. /\ cmd[p] # Idle /\ Shaped(cmd[p]) /\ cmd[p] \in Command /\ cmd[p].op \in Ops \ {"daemon"}
      /\ n \in Names /\ cmd[p].todo \in Seq(Step) /\ cmd[p].todo # <<>>
      /\ Head(cmd[p].todo)[1] = "unrow"
  <2>1. cmd[p].op \in Users("unrow") /\ cmd[p].op \in Ops
    BY <1>1, AtStep
  <2>2. cmd[p].op \in Ops \ {"daemon"}
    BY <2>1 DEF Users
  <2> QED
    BY <1>1, <2>2, AtStep DEF Shaped
<1>3. CASE rows' = rows
  BY <1>1, <1>3, AdvancePassCore
<1>4. CASE rows' = [rows EXCEPT ![n] = NoProject]
  <2>1. rows \in [Names -> Project] /\ RowsAreProjects
    BY DEF Core, TypeOK
  <2>2. /\ rows' \in [Names -> Project] /\ rows'[n] = NoProject
        /\ \A k \in Names : k # n => rows'[k] = rows[k]
    BY <1>2, <1>4, <2>1, IdleCommand
  <2>3. RowsAreProjects'
    BY <2>1, <2>2 DEF RowsAreProjects, Present, NoProject
  <2>4. Tail(cmd[p].todo) = <<>>
    <3>1. Tail(cmd[p].todo) \in Seq(Step)
      BY <1>2, TailElements
    <3>2. SUFFICES ASSUME Tail(cmd[p].todo) # <<>>
                   PROVE  FALSE
      OBVIOUS
    <3>3. 1 \in DOMAIN Tail(cmd[p].todo)
      BY <3>1, <3>2, LenProperties, EmptySeq
    <3>4. 2 \in DOMAIN cmd[p].todo /\ 1 \in DOMAIN cmd[p].todo /\ cmd[p].todo[1][1] = "unrow"
      BY <1>2, <3>3, TailElements, LenProperties
    <3>5. Follows(cmd[p].op, cmd[p].todo[1], cmd[p].todo[2])
      BY <1>2, <3>4 DEF Shaped, Ordered
    <3> QED
      BY <3>4, <3>5 DEF Follows
  <2>5. cmd' = [cmd EXCEPT ![p] = Idle]
    <3>1. [cmd[p] EXCEPT !.todo = Tail(@)].todo = <<>>
      BY <1>2, <2>4 DEF Command
    <3> QED
      BY <1>1, <3>1 DEF Advance, Continue
  <2> QED
    BY <1>1, <1>2, <2>2, <2>3, <2>5, EndCore
<1> QED
  BY <1>1, <1>3, <1>4

LEMMA ReadyCore ==
    ASSUME Core, NEW p \in Procs, Ready(p)
    PROVE  Core'
<1>1. At(p, "ready") /\ rows' = rows /\ HostTypes' /\ Advance(p)
  BY DEF Ready, caddy, Core, TypeOK, HostTypes
<1> QED
  BY <1>1, AdvancePassCore

LEMMA SameCore ==
    ASSUME Core, rows' = rows, cmd' = cmd, HostTypes'
    PROVE  Core'
<1>1. TypeOK'
  BY DEF Core, TypeOK, HostTypes
<1>2. RowsAreProjects' /\ OnePerProject'
  BY DEF Core, RowsAreProjects, Present, OnePerProject
<1>3. \A p \in Procs : OwnsRow(cmd[p])' /\ (cmd'[p] = Idle \/ Shaped(cmd'[p]))
  BY DEF Core, OwnsRow, Present, HasIndex
<1>4. DaemonIsAlone'
  BY DEF Core, DaemonIsAlone, ReadsRows, Present, HasIndex
<1> QED
  BY <1>1, <1>2, <1>3, <1>4 DEF Core

LEMMA RebootCore ==
    ASSUME Core, Reboot
    PROVE  Core'
<1>1. HostTypes'
  <2>1. TypeOK
    BY DEF Core
  <2>2. routes' \in [Hosts -> Nat] /\ lost' \subseteq Hosts
    BY <2>1 DEF Reboot, TypeOK
  <2>3. rules' \in [Ports -> Seq(Nat)]
    <3>1. <<>> \in Seq(Nat)
      BY EmptySeq
    <3> QED
      BY <3>1 DEF Reboot
  <2> QED
    BY <2>1, <2>2, <2>3 DEF Reboot, TypeOK, HostTypes
<1> QED
  BY <1>1, SameCore DEF Reboot

LEMMA StutterCore ==
    ASSUME Core, UNCHANGED vars
    PROVE  Core'
<1>1. HostTypes' /\ rows' = rows /\ cmd' = cmd
  BY DEF vars, caddy, Core, TypeOK, HostTypes
<1> QED
  BY <1>1, SameCore

LEMMA DoStepCore ==
    ASSUME Core, OpensPorts, NEW p \in Procs, DoStep(p)
    PROVE  Core'
BY RegisterCore, BootCore, FindNoServerCore, ServeCore, RouteCore, UnrouteCore, RecordCore,
   ReopenCore, ForwardCore, UnforwardCore, SaveCore, UnrowCore, ReadyCore DEF DoStep

\* The next of a command's steps tells which action it takes.
LEMMA StepIs ==
    ASSUME NEW p \in Procs, DoStep(p)
    PROVE  \/ At(p, "register") /\ Register(p)
           \/ At(p, "boot") /\ Boot(p)
           \/ At(p, "route") /\ (FindNoServer(p) \/ Route(p))
           \/ At(p, "serve") /\ Serve(p)
           \/ At(p, "unroute") /\ Unroute(p)
           \/ (At(p, "dns") \/ At(p, "undns")) /\ Record(p)
           \/ At(p, "open") /\ Reopen(p)
           \/ At(p, "forward") /\ Forward(p)
           \/ At(p, "unforward") /\ Unforward(p)
           \/ At(p, "save") /\ Save(p)
           \/ At(p, "unrow") /\ Unrow(p)
           \/ At(p, "ready") /\ Ready(p)
<1>1. /\ Register(p) => At(p, "register")
      /\ Boot(p) => At(p, "boot")
      /\ FindNoServer(p) \/ Route(p) => At(p, "route")
      /\ Serve(p) => At(p, "serve")
      /\ Unroute(p) => At(p, "unroute")
      /\ Record(p) => At(p, "dns") \/ At(p, "undns")
  BY DEF Register, Boot, FindNoServer, Route, Serve, Unroute, Record
<1>2. /\ Reopen(p) => At(p, "open")
      /\ Forward(p) => At(p, "forward")
      /\ Unforward(p) => At(p, "unforward")
      /\ Save(p) => At(p, "save")
      /\ Unrow(p) => At(p, "unrow")
      /\ Ready(p) => At(p, "ready")
  BY DEF Reopen, Forward, Unforward, Save, Unrow, Ready
<1> QED
  BY <1>1, <1>2 DEF DoStep

LEMMA TakesStep ==
    ASSUME NEW p \in Procs, DoStep(p)
    PROVE  \E kind : At(p, kind)
BY StepIs

\* What a command does to the others and to their rows: nothing.
LEMMA OnlyOwn ==
    ASSUME Core, NEW p \in Procs, DoStep(p)
    PROVE  /\ cmd[p] # Idle
           /\ \A q \in Procs : q # p => cmd'[q] = cmd[q]
           /\ \A n \in Names : n # cmd[p].name => rows'[n] = rows[n]
           /\ \A q \in Procs :
                 q # p /\ cmd[q].name \in Names => rows'[cmd[q].name] = rows[cmd[q].name]
<1>1. cmd \in [Procs -> Command] /\ rows \in [Names -> Project]
  BY DEF Core, TypeOK
<1>2. \A c : Continue(p, c) => \A q \in Procs : q # p => cmd'[q] = cmd[q]
  BY <1>1 DEF Continue
<1>3. \A q \in Procs : q # p => cmd'[q] = cmd[q]
  BY Zenon, <1>2 DEF DoStep, Register, Boot, FindNoServer, Serve, Route, Unroute, Record, Reopen,
        Forward, Unforward, Save, Unrow, Ready, Advance, GiveUp, RouteFails
<1>4. \A n \in Names : n # cmd[p].name => rows'[n] = rows[n]
  BY Zenon, <1>1 DEF DoStep, Register, Boot, FindNoServer, Serve, Route, Unroute, Record, Reopen,
        Forward, Unforward, Save, Unrow, Ready
<1>5. cmd[p] # Idle
  <2>1. \E kind : At(p, kind)
    BY TakesStep
  <2> QED
    BY <2>1 DEF At, Idle
<1>6. \A q \in Procs : q # p /\ cmd[q].name \in Names => cmd[q].name # cmd[p].name
  BY NoneAssumption DEF Core, OnePerProject
<1> QED
  BY <1>3, <1>4, <1>5, <1>6

\* What begins is a command of that kind.
LEMMA BegunAs ==
    ASSUME Core, NEW p \in Procs, NEW op, NEW n, NEW row, NEW todo, Begin(p, op, n, row, todo)
    PROVE  /\ cmd[p] = Idle /\ cmd'[p] = [op |-> op, name |-> n, row |-> row, todo |-> todo]
           /\ \A q \in Procs : q # p => cmd'[q] = cmd[q]
           /\ \A q \in Procs : n # NoName => cmd[q].name # n
           /\ UNCHANGED <<rows, server, routes, lost, dns, rules, restored>>
BY DEF Begin, Core, TypeOK, caddy

\* A command that begins is one of these.
Begun(p, op) ==
    /\ cmd[p] = Idle /\ cmd'[p].op = op
    /\ \A q \in Procs : q # p => cmd'[q] = cmd[q]
    /\ UNCHANGED <<rows, server, routes, lost, dns, rules, restored>>

LEMMA OnlyOwnBegins ==
    ASSUME Core, NEW p \in Procs, BeginCommand(p)
    PROVE  /\ cmd[p] = Idle
           /\ \A q \in Procs : q # p => cmd'[q] = cmd[q]
           /\ UNCHANGED <<rows, server, routes, lost, dns, rules, restored>>
           /\ cmd'[p].op = "port open" => \E n \in Names : PortOpen(p, n)
<1>1. ASSUME NEW op, NEW n, NEW row, NEW todo, Begin(p, op, n, row, todo)
      PROVE  Begun(p, op)
  <2> DEFINE c == [op |-> op, name |-> n, row |-> row, todo |-> todo]
  <2>1. /\ cmd[p] = Idle /\ cmd'[p] = c
        /\ \A q \in Procs : q # p => cmd'[q] = cmd[q]
        /\ UNCHANGED <<rows, server, routes, lost, dns, rules, restored>>
    BY <1>1, BegunAs
  <2>2. c.op = op
    OBVIOUS
  <2> HIDE DEF c
  <2> QED
    BY <2>1, <2>2 DEF Begun
<1>2. ASSUME NEW n \in Names, Deploy(p, n) PROVE Begun(p, "deploy")
  BY <1>1, <1>2 DEF Deploy
<1>3. ASSUME NEW n \in Names, Load(p, n) PROVE Begun(p, "load")
  BY <1>1, <1>3 DEF Load
<1>4. ASSUME NEW n \in Names, Push(p, n) PROVE Begun(p, "push")
  BY <1>1, <1>4 DEF Push
<1>5. ASSUME NEW n \in Names, Destroy(p, n) PROVE Begun(p, "destroy")
  BY <1>1, <1>5 DEF Destroy
<1>6. ASSUME NEW n \in Names, Freeze(p, n) PROVE Begun(p, "freeze")
  BY <1>1, <1>6 DEF Freeze
<1>7. ASSUME NEW n \in Names, Unfreeze(p, n) PROVE Begun(p, "unfreeze")
  BY <1>1, <1>7 DEF Unfreeze
<1>8. ASSUME NEW n \in Names, RouteAdd(p, n) PROVE Begun(p, "route add")
  BY <1>1, <1>8 DEF RouteAdd
<1>9. ASSUME NEW n \in Names, RouteRemove(p, n) PROVE Begun(p, "route remove")
  BY <1>1, <1>9 DEF RouteRemove
<1>10. ASSUME NEW n \in Names, Unexpose(p, n) PROVE Begun(p, "unexpose")
  BY <1>1, <1>10 DEF Unexpose
<1>11. ASSUME NEW n \in Names, PortOpen(p, n) PROVE Begun(p, "port open")
  BY <1>1, <1>11 DEF PortOpen
<1>12. ASSUME NEW n \in Names, PortClose(p, n) PROVE Begun(p, "port close")
  BY <1>1, <1>12 DEF PortClose
<1>13. ASSUME NEW n \in Names, NEW src \in Names, Clone(p, src, n) PROVE Begun(p, "clone")
  BY <1>1, <1>13 DEF Clone
<1>14. ASSUME Daemon(p) PROVE Begun(p, "daemon")
  BY <1>1, <1>14 DEF Daemon
<1>15. CASE Daemon(p)
  BY <1>14, <1>15 DEF Begun
<1>16. CASE \E n, src \in Names : Clone(p, src, n)
  BY <1>13, <1>16 DEF Begun
<1>17. CASE \E n \in Names : PortOpen(p, n)
  BY <1>11, <1>17 DEF Begun
<1>18. CASE \E n \in Names : Deploy(p, n) \/ Load(p, n) \/ Push(p, n) \/ Destroy(p, n)
  BY <1>2, <1>3, <1>4, <1>5, <1>18 DEF Begun
<1>19. CASE \E n \in Names : Freeze(p, n) \/ Unfreeze(p, n) \/ RouteAdd(p, n)
  BY <1>6, <1>7, <1>8, <1>19 DEF Begun
<1>20. CASE \E n \in Names : RouteRemove(p, n) \/ Unexpose(p, n) \/ PortClose(p, n)
  BY <1>9, <1>10, <1>12, <1>20 DEF Begun
<1> QED
  BY <1>15, <1>16, <1>17, <1>18, <1>19, <1>20 DEF BeginCommand

LEMMA BeginOpensPorts ==
    ASSUME Core, OpensPorts, NEW p \in Procs, BeginCommand(p)
    PROVE  OpensPorts'
<1> SUFFICES ASSUME NEW q \in Procs PROVE OpensPort(cmd[q])'
  BY DEF OpensPorts
<1>1. rows' = rows /\ (q # p => cmd'[q] = cmd[q])
  BY OnlyOwnBegins
<1>2. CASE q # p
  <2>1. OpensPort(cmd[q])
    BY DEF OpensPorts
  <2>2. cmd'[q] = cmd[q]
    BY <1>1, <1>2
  <2> QED
    BY <1>1, <2>1, <2>2 DEF OpensPort
<1>3. CASE q = p /\ cmd'[p].op = "port open"
  <2>1. PICK n \in Names : PortOpen(p, n)
    BY <1>3, OnlyOwnBegins
  <2>2. PICK port \in Ports \ rows[n].ports :
           Begin(p, "port open", n, [rows[n] EXCEPT !.ports = @ \cup {port}],
                 << OpenPort(port, Own), <<"save">> >>)
    BY <2>1 DEF PortOpen
  <2>3. cmd'[p] = [op |-> "port open", name |-> n, row |-> [rows[n] EXCEPT !.ports = @ \cup {port}],
                   todo |-> << OpenPort(port, Own), <<"save">> >>]
    <3> DEFINE row == [rows[n] EXCEPT !.ports = @ \cup {port}]
               todo == << OpenPort(port, Own), <<"save">> >>
    <3>1. Begin(p, "port open", n, row, todo)
      BY <2>2
    <3> HIDE DEF row, todo
    <3>2. cmd'[p] = [op |-> "port open", name |-> n, row |-> row, todo |-> todo]
      BY <3>1, BegunAs
    <3> QED
      BY <3>2 DEF row, todo
  <2>4. /\ cmd'[p].name = n /\ cmd'[p].row.ports = rows[n].ports \cup {port}
        /\ cmd'[p].todo = << <<"open", port, Own>>, <<"save">> >>
    <3>1. rows[n] \in Project
      BY DEF Core, TypeOK
    <3> DEFINE row == [rows[n] EXCEPT !.ports = @ \cup {port}]
    <3>2. row.ports = rows[n].ports \cup {port}
      BY <3>1 DEF Project
    <3> HIDE DEF row
    <3> DEFINE c == [op |-> "port open", name |-> n, row |-> row,
                     todo |-> << <<"open", port, Own>>, <<"save">> >>]
    <3>3. cmd'[p] = c
      BY <2>3 DEF row, OpenPort
    <3>4. c.name = n /\ c.row = row /\ c.todo = << <<"open", port, Own>>, <<"save">> >>
      OBVIOUS
    <3> HIDE DEF c
    <3> QED
      BY <3>2, <3>3, <3>4
  <2>5. ASSUME NEW step \in ToSet(cmd'[p].todo), step[1] # "save" PROVE step[2] = port
    <3>1. step = <<"open", port, Own>> \/ step = <<"save">>
      BY <2>4 DEF ToSet
    <3>2. <<"save">>[1] = "save"
      OBVIOUS
    <3> QED
      BY <2>5, <3>1, <3>2
  <2> QED
    BY <1>1, <1>3, <2>4, <2>5 DEF OpensPort
<1>4. CASE q = p /\ cmd'[p].op # "port open"
  BY <1>4 DEF OpensPort
<1> QED
  BY <1>2, <1>3, <1>4

\* After a command's save of a project, only its hostnames are left to do.
LEMMA AfterSave ==
    ASSUME Core, NEW p \in Procs, At(p, "save")
    PROVE  \A step \in ToSet(Tail(cmd[p].todo)) : step[1] \in {"dns", "unroute"}
<1>1. Shaped(cmd[p]) /\ cmd[p].todo \in Seq(Step) /\ cmd[p].todo # <<>>
         /\ Head(cmd[p].todo)[1] = "save"
  BY AtStep
<1> SUFFICES ASSUME NEW k \in DOMAIN Tail(cmd[p].todo)
             PROVE  Tail(cmd[p].todo)[k][1] \in {"dns", "unroute"}
  BY DEF ToSet
<1>2. Tail(cmd[p].todo) \in Seq(Step) /\ k + 1 \in DOMAIN cmd[p].todo
         /\ Tail(cmd[p].todo)[k] = cmd[p].todo[k + 1] /\ k \in Nat /\ k > 0
  BY <1>1, TailElements, LenProperties
<1>3. 1 \in DOMAIN cmd[p].todo /\ cmd[p].todo[1][1] = "save" /\ 1 < k + 1
  BY <1>1, <1>2, LenProperties, EmptySeq
<1>4. Follows(cmd[p].op, cmd[p].todo[1], cmd[p].todo[k + 1])
  BY <1>1, <1>2, <1>3 DEF Shaped, Ordered
<1> QED
  BY <1>2, <1>3, <1>4 DEF Follows

\* A command that goes on is still the same.
LEMMA SameOp ==
    ASSUME Core, NEW p \in Procs, DoStep(p)
    PROVE  cmd'[p] = Idle \/ (cmd'[p].op = cmd[p].op /\ cmd'[p].name = cmd[p].name)
<1>1. cmd \in [Procs -> Command] /\ cmd[p] \in Command
  BY DEF Core, TypeOK
<1> DEFINE Same == cmd'[p] = Idle \/ (cmd'[p].op = cmd[p].op /\ cmd'[p].name = cmd[p].name)
<1>2. ASSUME NEW c, c.op = cmd[p].op, c.name = cmd[p].name, Continue(p, c) PROVE Same
  BY <1>1, <1>2 DEF Continue
<1>3. \A s : Continue(p, [cmd[p] EXCEPT !.todo = s]) => Same
  BY <1>1, <1>2 DEF Command
<1>4. \A s, x : Continue(p, [cmd[p] EXCEPT !.todo = s, !.row.rowid = x]) => Same
  BY <1>1, <1>2 DEF Command
<1>5. \A s, x : Continue(p, [cmd[p] EXCEPT !.todo = s, !.row.ports = x]) => Same
  BY Zenon, <1>1, <1>2 DEF Command
<1>6. Register(p) => Same
  BY Zenon, <1>3, <1>4 DEF Register, GiveUp
<1>7. Boot(p) \/ Serve(p) \/ Route(p) => Same
  BY <1>3 DEF Boot, Serve, Route, GiveUp, Advance, RouteFails
<1>8. FindNoServer(p) \/ Reopen(p) => Same
  BY <1>3 DEF FindNoServer, Reopen
<1>9. Unroute(p) \/ Record(p) \/ Unforward(p) \/ Unrow(p) \/ Ready(p) => Same
  BY <1>3 DEF Unroute, Record, Unforward, Unrow, Ready, Advance
<1>10. Forward(p) => Same
  BY <1>3, <1>5 DEF Forward, Advance, GiveUp
<1>11. Save(p) => Same
  BY <1>3 DEF Save, Advance, GiveUp
<1> QED
  BY <1>6, <1>7, <1>8, <1>9, <1>10, <1>11 DEF DoStep

\* The command of p goes on with the same row and fewer steps, or ends.
LEMMA OpensPortGoesOn ==
    ASSUME Core, OpensPorts, NEW p \in Procs, cmd[p].op = "port open",
           rows'[cmd[p].name] = rows[cmd[p].name],
           NEW s, \A step \in ToSet(s) : \/ step \in ToSet(cmd[p].todo)
                                         \/ \E x \in ToSet(cmd[p].todo) :
                                               x[1] # "save" /\ step[2] = x[2],
           Continue(p, [cmd[p] EXCEPT !.todo = s])
    PROVE  OpensPort(cmd[p])'
<1>1. cmd[p] \in Command /\ cmd \in [Procs -> Command]
  BY DEF Core, TypeOK
<1>2. CASE s = <<>>
  <2>1. cmd'[p] = Idle
    <3>1. [cmd[p] EXCEPT !.todo = s].todo = <<>>
      BY <1>1, <1>2 DEF Command
    <3> QED
      BY <1>1, <3>1 DEF Continue
  <2>2. cmd'[p].op = "none"
    BY <2>1, IdleIs
  <2> QED
    BY <2>2 DEF OpensPort
<1>3. CASE s # <<>>
  <2>1. cmd'[p] = [cmd[p] EXCEPT !.todo = s]
    <3>1. [cmd[p] EXCEPT !.todo = s].todo # <<>>
      BY <1>1, <1>3 DEF Command
    <3> QED
      BY <1>1, <3>1 DEF Continue
  <2>2. cmd'[p].name = cmd[p].name /\ cmd'[p].row = cmd[p].row /\ cmd'[p].todo = s
    BY <1>1, <2>1 DEF Command
  <2>3. PICK port \in Ports :
          /\ port \notin rows[cmd[p].name].ports
          /\ cmd[p].row.ports = rows[cmd[p].name].ports \cup {port}
          /\ \A step \in ToSet(cmd[p].todo) : step[1] # "save" => step[2] = port
    BY DEF OpensPorts, OpensPort
  <2>4. ASSUME NEW step \in ToSet(s), step[1] # "save" PROVE step[2] = port
    <3>1. CASE step \in ToSet(cmd[p].todo)
      BY <2>3, <2>4, <3>1
    <3>2. ASSUME NEW x \in ToSet(cmd[p].todo), x[1] # "save", step[2] = x[2] PROVE step[2] = port
      BY <2>3, <3>2
    <3> QED
      BY <3>1, <3>2
  <2>5. rows'[cmd'[p].name] = rows[cmd[p].name]
    BY <2>2
  <2>6. port \notin rows'[cmd'[p].name].ports
    BY <2>3, <2>5
  <2>7. cmd'[p].row.ports = rows'[cmd'[p].name].ports \cup {port}
    BY <2>2, <2>3, <2>5
  <2>8. \A step \in ToSet(cmd'[p].todo) : step[1] # "save" => step[2] = port
    BY <2>2, <2>4
  <2> QED
    BY <2>6, <2>7, <2>8 DEF OpensPort
<1> QED
  BY <1>2, <1>3

LEMMA StepOpensPorts ==
    ASSUME Core, OpensPorts, NEW p \in Procs, DoStep(p)
    PROVE  OpensPorts'
<1> SUFFICES ASSUME NEW q \in Procs PROVE OpensPort(cmd[q])'
  BY DEF OpensPorts
<1>1. CASE q # p
  <2>1. cmd'[q] = cmd[q] /\ (cmd[q].name \in Names => rows'[cmd[q].name] = rows[cmd[q].name])
    BY <1>1, OnlyOwn
  <2>2. cmd[q].op = "port open" => cmd[q].name \in Names
    BY IdleIs DEF Core, Shaped
  <2>3. OpensPort(cmd[q])
    BY DEF OpensPorts
  <2>4. CASE cmd[q].op # "port open"
    BY <2>1, <2>4 DEF OpensPort
  <2>5. CASE cmd[q].op = "port open"
    <3>1. rows'[cmd[q].name] = rows[cmd[q].name]
      BY <2>1, <2>2, <2>5
    <3> QED
      BY <2>1, <2>3, <3>1 DEF OpensPort
  <2> QED
    BY <2>4, <2>5
<1>2. CASE q = p /\ cmd'[p].op # "port open"
  BY <1>2 DEF OpensPort
<1>3. CASE q = p /\ cmd'[p].op = "port open"
  <2>0. cmd[p].op = "port open"
    BY <1>3, IdleIs, SameOp
  <2>1. \A kind : At(p, kind) => /\ "port open" \in Users(kind)
                                 /\ cmd[p].todo \in Seq(Step) /\ cmd[p].todo # <<>>
    BY <2>0, AtStep
  <2>2. \E kind \in {"open", "forward", "unforward", "save"} : At(p, kind)
    <3>1. \A kind \in {"register", "boot", "route", "serve", "unroute", "dns", "undns", "unrow", "ready"} :
             ~ At(p, kind)
      BY <2>1 DEF Users
    <3> QED
      BY <3>1, StepIs
  <2> DEFINE s == Tail(cmd[p].todo)
  <2>3. cmd[p].todo \in Seq(Step) /\ cmd[p].todo # <<>> /\ s \in Seq(Step)
           /\ ToSet(cmd[p].todo) = {NextStep(p)} \cup ToSet(s)
    BY <2>1, <2>2, TailElements DEF NextStep
  <2>4. CASE Advance(p) /\ rows' = rows
    BY <1>3, <2>0, <2>3, <2>4, OpensPortGoesOn DEF Advance
  <2>5. CASE GiveUp(p, <<>>) /\ rows' = rows
    <3>1. ToSet(<<>>) = {}
      BY DEF ToSet
    <3> QED
      BY <1>3, <2>0, <2>5, <3>1, OpensPortGoesOn DEF GiveUp
  <2>6. CASE Reopen(p)
    <3>1. At(p, "open") /\ rows' = rows
      BY <2>6 DEF Reopen
    <3>a. PICK x : x = <<"forward", Key(p), NextStep(p)[3]>>
      OBVIOUS
    <3> DEFINE t == <<x>> \o s
    <3>2. x \in Step /\ NextStep(p)[1] = "open"
      BY <3>1, <3>a, AtStep, StepTypes DEF Key
    <3>3. ToSet(t) = {x} \cup ToSet(s)
      <4> HIDE DEF s
      <4> QED
        BY <2>3, <3>2, Prepended
    <3>4. x[2] = NextStep(p)[2]
      BY <3>a DEF Key
    <3>5. \A step \in ToSet(t) : \/ step \in ToSet(cmd[p].todo)
                                 \/ \E y \in ToSet(cmd[p].todo) : y[1] # "save" /\ step[2] = y[2]
      BY <2>3, <3>2, <3>3, <3>4
    <3>6. Continue(p, [cmd[p] EXCEPT !.todo = t])
      BY <2>6, <3>a DEF Reopen
    <3> HIDE DEF t
    <3> QED
      BY <1>3, <2>0, <3>1, <3>5, <3>6, OpensPortGoesOn
  <2>7. CASE Forward(p)
    BY <2>0, <2>4, <2>5, <2>7 DEF Forward
  <2>8. CASE Unforward(p)
    BY <2>4, <2>8 DEF Unforward
  <2>9. CASE Save(p) /\ Advance(p)
    <3>1. At(p, "save")
      BY <2>9 DEF Save
    <3>2. ASSUME NEW step \in ToSet(s) PROVE FALSE
      <4>1. step[1] \in {"dns", "unroute"}
        BY <3>1, AfterSave
      <4>2. Fits(step, "port open", cmd[p].name)
        BY <2>0, <2>3, <3>1, AtStep DEF Shaped
      <4> QED
        BY <4>1, <4>2 DEF Fits, Users
    <3>3. ToSet(s) = {}
      BY <3>2
    <3>4. s = <<>>
      <4> HIDE DEF s
      <4>1. s # <<>> => Head(s) \in ToSet(s)
        BY <2>3, Elements
      <4> QED
        BY <3>3, <4>1
    <3>5. [cmd[p] EXCEPT !.todo = Tail(@)].todo = <<>>
      BY <3>1, <3>4, StepData DEF Command
    <3>6. cmd'[p] = Idle
      BY <2>9, <3>5 DEF Advance, Continue, Core, TypeOK
    <3>7. Idle.op = "none"
      BY DEF Idle
    <3> QED
      BY <1>3, <3>6, <3>7
  <2>10. CASE Save(p) /\ GiveUp(p, AfterFailedSave(p)) /\ rows' = rows
    <3>0. At(p, "save")
      BY <2>10 DEF Save
    <3>1. PICK port \in Ports : /\ port \notin rows[cmd[p].name].ports
                                /\ cmd[p].row.ports = rows[cmd[p].name].ports \cup {port}
      BY <2>0 DEF OpensPorts, OpensPort
    <3> DEFINE k == CHOOSE k \in cmd[p].row.ports : k \notin rows[cmd[p].name].ports
               t == << <<"unforward", k, Own>> >>
    <3>2. k = port
      BY <3>1
    <3>3. GiveUp(p, t)
      BY <2>0, <2>10 DEF AfterFailedSave, ClosePort
    <3>4. cmd'[p] = [cmd[p] EXCEPT !.todo = t]
      <4>1. [cmd[p] EXCEPT !.todo = t].todo # <<>>
        BY <3>0, StepData DEF Command
      <4> QED
        BY <3>3, <4>1 DEF GiveUp, Continue, Core, TypeOK
    <3>5. cmd'[p].name = cmd[p].name /\ cmd'[p].row = cmd[p].row /\ cmd'[p].todo = t
      BY <3>0, <3>4, StepData DEF Command
    <3>6. \A step \in ToSet(t) : step[2] = k
      BY DEF ToSet
    <3> HIDE DEF k, t
    <3> QED
      BY <1>3, <2>10, <3>1, <3>2, <3>5, <3>6 DEF OpensPort
  <2>11. Save(p) => Advance(p) \/ (GiveUp(p, AfterFailedSave(p)) /\ rows' = rows)
    BY DEF Save
  <2>12. Reopen(p) \/ Forward(p) \/ Unforward(p) \/ Save(p)
    <3>1. \A kind, other : At(p, kind) /\ At(p, other) => kind = other
      BY DEF At
    <3> QED
      BY <2>2, <3>1, StepIs
  <2> QED
    BY <2>6, <2>7, <2>8, <2>9, <2>10, <2>11, <2>12
<1> QED
  BY <1>1, <1>2, <1>3

\* Core is an invariant.
LEMMA CoreInv == Spec => [](Core /\ OpensPorts)
<1>1. Init => Core /\ OpensPorts
  <2> SUFFICES ASSUME Init PROVE Core /\ OpensPorts
    OBVIOUS
  <2>1. cmd \in [Procs -> Command] /\ \A p \in Procs : cmd[p] = Idle
    BY IdleCommand DEF Init
  <2>2. rows \in [Names -> Project] /\ \A n \in Names : rows[n] = NoProject
    BY IdleCommand DEF Init
  <2>3. TypeOK
    <3>1. <<>> \in Seq(Nat)
      BY EmptySeq
    <3>2. [port \in Ports |-> <<>>] \in [Ports -> Seq(Nat)] /\ [h \in Hosts |-> 0] \in [Hosts -> Nat]
             /\ [h \in Hosts |-> 0] \in [Hosts -> Nat \cup {HostIP}]
      BY <3>1
    <3> QED
      BY <2>1, <2>2, <3>2 DEF Init, TypeOK
  <2>4. NoProject.domain = NoHost /\ NoProject.rowid = 0 /\ Idle.op = "none" /\ Idle.name = NoName
    BY DEF NoProject, Idle
  <2>5. RowsAreProjects
    BY <2>2, <2>4 DEF RowsAreProjects, Present
  <2>6. OnePerProject
    BY <2>1, <2>4 DEF OnePerProject
  <2>7. DaemonIsAlone
    BY <2>1, IdleOwns DEF DaemonIsAlone
  <2>8. OpensPorts
    BY <2>1, <2>4 DEF OpensPorts, OpensPort
  <2> QED
    BY <2>1, <2>3, <2>5, <2>6, <2>7, <2>8, IdleOwns DEF Core
<1>2. Core /\ OpensPorts /\ [Next]_vars => (Core /\ OpensPorts)'
  <2> SUFFICES ASSUME Core, OpensPorts, [Next]_vars PROVE Core' /\ OpensPorts'
    OBVIOUS
  <2>1. ASSUME NEW p \in Procs, BeginCommand(p) PROVE Core' /\ OpensPorts'
    BY <2>1, BeginCore, BeginOpensPorts
  <2>2. ASSUME NEW p \in Procs, DoStep(p) PROVE Core' /\ OpensPorts'
    BY <2>2, DoStepCore, StepOpensPorts
  <2>3. CASE Reboot
    BY <2>3, RebootCore DEF Reboot, OpensPorts, OpensPort
  <2>4. CASE UNCHANGED vars
    BY <2>4, StutterCore DEF vars, OpensPorts, OpensPort
  <2> QED
    BY <2>1, <2>2, <2>3, <2>4 DEF Next
<1> QED
  BY <1>1, <1>2, PTL DEF Spec

\* Whatever fails and in whatever order commands run, every variable keeps its
\* type: a command's steps are always those that its operation has.
THEOREM TypeCorrect == Spec => []TypeOK
<1>1. Core => TypeOK
  BY DEF Core
<1> QED
  BY <1>1, CoreInv, PTL

LEMMA ForOwner == ASSUME Core, DaemonAlone PROVE MadeForOwner
<1> SUFFICES ASSUME NEW p \in Procs,
                    At(p, "route") \/ At(p, "forward") \/ (At(p, "dns") /\ NextStep(p)[3] = Own)
             PROVE  \E n \in Names : HasIndex(n, Index(p))
  BY DEF MadeForOwner
<1>1. PICK kind \in {"route", "forward", "dns"} : At(p, kind) /\ (kind = "dns" => NextStep(p)[3] = Own)
  OBVIOUS
<1>2. CASE cmd[p].op = "daemon"
  <2>1. kind = "forward"
    BY <1>1, <1>2, AtStep DEF Users
  <2>2. ReadsRows(cmd[p]) /\ NextStep(p) \in ToSet(cmd[p].todo) /\ NextStep(p)[1] = "forward"
    BY <1>1, <2>1, AtStep DEF Core, DaemonIsAlone
  <2>3. PICK n \in Names : HasIndex(n, NextStep(p)[3])
    BY <1>2, <2>2 DEF ReadsRows
  <2>4. NextStep(p)[3] # Own
    BY <2>3 DEF HasIndex, Present, Own
  <2> QED
    BY <2>3, <2>4 DEF Index
<1>3. CASE cmd[p].op # "daemon"
  <2>1. HasIndex(cmd[p].name, cmd[p].row.rowid) /\ cmd[p].name \in Names
    BY <1>1, <1>3, OwnRow, AtStep
  <2>2. NextStep(p)[3] = Own
    <3>1. NextStep(p) \in Step /\ NextStep(p)[1] = kind /\ Fits(NextStep(p), cmd[p].op, cmd[p].name)
      BY <1>1, AtStep
    <3> QED
      BY <1>1, <1>3, <3>1, StepTypes DEF Fits
  <2> QED
    BY <2>1, <2>2 DEF Index
<1> QED
  BY <1>2, <1>3

\* While commands wait for the daemon to reopen ports, a route, a record and a
\* rule are only made for a project that has its row, with that index.
THEOREM OnlyForOwner == ASSUME DaemonAlone PROVE Spec => []MadeForOwner
<1>1. Core => MadeForOwner
  BY ForOwner
<1> QED
  BY <1>1, CoreInv, PTL

LEMMA Beginning ==
    ASSUME Core, NEW p \in Procs, BeginCommand(p), NEW c, c = cmd'[p]
    PROVE  Started(c)
<1>0. TypeOK
  BY DEF Core
<1>1. ASSUME NEW op \in {"deploy", "clone"}, NEW n \in Names, BeginsNew(p, op, n), ~Present(rows, n)
      PROVE  Started(c)
  <2>1. PICK row \in Project, todo \in Seq(Step), port \in BOOLEAN, h \in HostsOf(n) :
              /\ Begin(p, op, n, row, todo)
              /\ row.made /\ row.status = "running" /\ (port => row.expose)
              /\ ToSet(todo) = {<<"register">>, <<"boot">>, <<"save">>, <<"dns", Fqdn[n], Own>>}
                                  \cup {y \in {<<"route", h, Own>>} : port}
                                  \cup {OpenPort(x, Own) : x \in row.ports}
    BY <1>1 DEF BeginsNew
  <2>2. c.op = op /\ c.name = n /\ c.row = row /\ c.todo = todo
    BY <2>1, StartedAs
  <2> QED
    BY <1>1, <2>1, <2>2 DEF Started
<1>2. ASSUME NEW n \in Names, NEW src \in Names, Deploy(p, n) \/ Clone(p, src, n)
      PROVE  Started(c)
  <2>1. BeginsNew(p, "deploy", n) \/ BeginsNew(p, "clone", n)
    BY <1>0, <1>2, DeploySteps, CloneSteps
  <2>2. ~Present(rows, n)
    BY <1>2 DEF Deploy, Clone
  <2> QED
    BY <1>1, <2>1, <2>2
<1>3. ASSUME NEW n \in Names, Load(p, n) PROVE Started(c)
  <2>1. PICK todo \in Seq(Step) :
           /\ Begin(p, "load", n, Making, todo)
           /\ ToSet(todo) = {<<"register">>, <<"boot">>, <<"save">>, <<"dns", Bare[n], Own>>}
    BY <1>3, LoadSteps
  <2>2. c.op = "load" /\ c.name = n /\ c.row = Making /\ c.todo = todo
    BY <2>1, StartedAs
  <2>3. ~Present(rows, n)
    BY <1>3 DEF Load
  <2> QED
    BY <2>1, <2>2, <2>3 DEF Started
<1>4. ASSUME NEW n \in Names, Push(p, n) PROVE Started(c)
  <2>1. PICK todo \in Seq(Step) : Begin(p, "push", n, rows[n], todo) /\ ToSet(todo) = {<<"unrow">>}
    BY <1>0, <1>4, PushSteps
  <2>2. c.op = "push" /\ c.name = n /\ c.row = rows[n] /\ c.todo = todo
    BY <2>1, StartedAs
  <2>3. rows[n].made /\ rows[n].status # "running"
    BY <1>4 DEF Push
  <2> QED
    BY <2>1, <2>2, <2>3 DEF Started
<1>5. ASSUME NEW n \in Names, Destroy(p, n) PROVE Started(c)
  <2>1. PICK todo \in Seq(Step) :
           /\ Begin(p, "destroy", n, rows[n], todo)
           /\ ToSet(todo) = {y \in {<<"unroute", Fqdn[n]>>} : rows[n].expose}
                               \cup {ClosePort(x, Own) : x \in rows[n].ports}
                               \cup {<<"undns", Fqdn[n]>>, <<"unrow">>}
    BY <1>0, <1>5, DestroySteps
  <2>2. c.op = "destroy" /\ c.name = n /\ c.row = rows[n] /\ c.todo = todo
    BY <2>1, StartedAs
  <2>3. Present(rows, n)
    BY <1>5 DEF Destroy
  <2> QED
    BY <2>1, <2>2, <2>3 DEF Started
<1>6. ASSUME NEW n \in Names, Freeze(p, n) PROVE Started(c)
  <2> DEFINE row == [rows[n] EXCEPT !.status = "frozen"]
  <2>1. PICK todo \in Seq(Step) :
           /\ Begin(p, "freeze", n, row, todo)
           /\ ToSet(todo) = {<<"save">>} \cup {y \in {<<"unroute", Bare[n]>>} : rows[n].expose}
    BY <1>0, <1>6, FreezeSteps
  <2> HIDE DEF row
  <2>2. c.op = "freeze" /\ c.name = n /\ c.row = row /\ c.todo = todo
    BY <2>1, StartedAs
  <2>3. rows[n].status \in {"running", "frozen"}
    BY <1>6 DEF Freeze
  <2> QED
    BY <2>1, <2>2, <2>3 DEF Started, row
<1>7. ASSUME NEW n \in Names, Unfreeze(p, n) PROVE Started(c)
  <2> DEFINE row == [rows[n] EXCEPT !.status = "running"]
  <2>1. PICK todo \in Seq(Step) :
           /\ Begin(p, "unfreeze", n, row, todo)
           /\ ToSet(todo) = {<<"boot">>, <<"save">>}
                               \cup {y \in {<<"route", Bare[n], Own>>} : rows[n].expose}
    BY <1>0, <1>7, UnfreezeSteps
  <2> HIDE DEF row
  <2>2. c.op = "unfreeze" /\ c.name = n /\ c.row = row /\ c.todo = todo
    BY <2>1, StartedAs
  <2>3. rows[n].status = "frozen"
    BY <1>7 DEF Unfreeze
  <2> QED
    BY <2>1, <2>2, <2>3 DEF Started, row
<1>8. ASSUME NEW n \in Names, RouteAdd(p, n) PROVE Started(c)
  <2>1. PICK todo \in Seq(Step), h \in HostsOf(n) :
           /\ Begin(p, "route add", n, [rows[n] EXCEPT !.status = "running", !.expose = TRUE,
                                                       !.domain = h], todo)
           /\ Part(todo, "route add", n)
           /\ ToSet(todo) = {<<"route", h, Own>>, <<"save">>}
                               \cup {y \in {<<"dns", h, HostIP>>} : h = Fqdn[n]}
    BY <1>8, RouteAddSteps
  <2> DEFINE row == [rows[n] EXCEPT !.status = "running", !.expose = TRUE, !.domain = h]
  <2>2. Begin(p, "route add", n, row, todo)
    BY <2>1
  <2> HIDE DEF row
  <2>3. c.op = "route add" /\ c.name = n /\ c.row = row /\ c.todo = todo
    BY <2>2, StartedAs
  <2>4. rows[n].made
    BY <1>8 DEF RouteAdd
  <2>5. \E g \in HostsOf(c.name) :
           /\ c.row = [rows[c.name] EXCEPT !.status = "running", !.expose = TRUE, !.domain = g]
           /\ ToSet(c.todo) = {<<"route", g, Own>>, <<"save">>}
                                 \cup {y \in {<<"dns", g, HostIP>>} : g = Fqdn[c.name]}
    <3>1. h \in HostsOf(n) /\ c.name = n
      BY <2>1, <2>3
    <3>2. c.row = [rows[n] EXCEPT !.status = "running", !.expose = TRUE, !.domain = h]
      BY <2>3 DEF row
    <3>3. ToSet(c.todo) = {<<"route", h, Own>>, <<"save">>}
                             \cup {y \in {<<"dns", h, HostIP>>} : h = Fqdn[n]}
      BY <2>1, <2>3
    <3> QED
      BY <3>1, <3>2, <3>3, ZenonT(40)
  <2> QED
    BY <2>3, <2>4, <2>5 DEF Started
<1>9. ASSUME NEW n \in Names, RouteRemove(p, n) PROVE Started(c)
  <2>1. PICK todo \in Seq(Step), h \in HostsOf(n), row \in {Unexposed(rows[n]), rows[n]} :
           /\ Begin(p, "route remove", n, row, todo)
           /\ Part(todo, "route remove", n)
           /\ \/ /\ rows[n].made /\ rows[n].domain = h
                 /\ row = Unexposed(rows[n])
                 /\ ToSet(todo) = {<<"save">>, <<"unroute", h>>}
                                     \cup {y \in {<<"dns", h, Own>>} : h = Fqdn[n]}
              \/ /\ ~(rows[n].made /\ rows[n].domain = h)
                 /\ row = rows[n]
                 /\ ToSet(todo) = {<<"unroute", h>>}
    BY <1>9, RouteRemoveSteps
  <2>2. c.op = "route remove" /\ c.name = n /\ c.row = row /\ c.todo = todo
    BY <2>1, StartedAs
  <2>3. \/ /\ rows[n].made /\ rows[n].domain = h
           /\ c.row = Unexposed(rows[n])
           /\ ToSet(c.todo) = {<<"save">>, <<"unroute", h>>} \cup {y \in {<<"dns", h, Own>>} : h = Fqdn[n]}
        \/ /\ ~(rows[n].made /\ rows[n].domain = h)
           /\ c.row = rows[n]
           /\ ToSet(c.todo) = {<<"unroute", h>>}
    BY <2>1, <2>2
  <2>4. \E g \in HostsOf(c.name) :
           \/ /\ rows[c.name].made /\ rows[c.name].domain = g
              /\ c.row = Unexposed(rows[c.name])
              /\ ToSet(c.todo) = {<<"save">>, <<"unroute", g>>}
                                    \cup {y \in {<<"dns", g, Own>>} : g = Fqdn[c.name]}
           \/ /\ ~(rows[c.name].made /\ rows[c.name].domain = g)
              /\ c.row = rows[c.name]
              /\ ToSet(c.todo) = {<<"unroute", g>>}
    BY <2>2, <2>3
  <2> QED
    BY <2>2, <2>4 DEF Started
<1>10. ASSUME NEW n \in Names, Unexpose(p, n) PROVE Started(c)
  <2>0. rows[n].domain \in {NoHost} \cup HostsOf(n)
    BY DEF Core, RowsAreProjects
  <2>1. PICK todo \in Seq(Step) :
           /\ Begin(p, "unexpose", n, Unexposed(rows[n]), todo)
           /\ Part(todo, "unexpose", n)
           /\ ToSet(todo) = {<<"save">>}
                  \cup {y \in {<<"unroute", Exposed(n)>>} : rows[n].expose}
                  \cup {y \in {<<"dns", Exposed(n), Own>>} : rows[n].expose /\ Exposed(n) = Fqdn[n]}
    BY <1>0, <1>10, <2>0, UnexposeSteps
  <2>2. c.op = "unexpose" /\ c.name = n /\ c.row = Unexposed(rows[n]) /\ c.todo = todo
    BY <2>1, StartedAs
  <2>3. Present(rows, n)
    BY <1>10 DEF Unexpose
  <2> QED
    BY <2>1, <2>2, <2>3 DEF Started
<1>11. ASSUME NEW n \in Names, PortOpen(p, n) \/ PortClose(p, n) PROVE Started(c)
  <2>1. PICK todo \in Seq(Step), port \in Ports :
           \/ /\ port \notin rows[n].ports
              /\ Begin(p, "port open", n, [rows[n] EXCEPT !.ports = @ \cup {port}], todo)
              /\ Part(todo, "port open", n)
              /\ ToSet(todo) = {OpenPort(port, Own), <<"save">>}
           \/ /\ port \in rows[n].ports
              /\ Begin(p, "port close", n, [rows[n] EXCEPT !.ports = @ \ {port}], todo)
              /\ Part(todo, "port close", n)
              /\ ToSet(todo) = {ClosePort(port, Own), <<"save">>}
    BY <1>0, <1>11, PortSteps
  <2> DEFINE more == [rows[n] EXCEPT !.ports = @ \cup {port}]
             fewer == [rows[n] EXCEPT !.ports = @ \ {port}]
  <2>2. \/ /\ port \notin rows[n].ports
           /\ Begin(p, "port open", n, more, todo)
           /\ ToSet(todo) = {OpenPort(port, Own), <<"save">>}
        \/ /\ port \in rows[n].ports
           /\ Begin(p, "port close", n, fewer, todo)
           /\ ToSet(todo) = {ClosePort(port, Own), <<"save">>}
    BY <2>1
  <2> HIDE DEF more, fewer
  <2>3. \/ /\ port \notin rows[n].ports
           /\ c.op = "port open" /\ c.name = n /\ c.row = more /\ c.todo = todo
           /\ ToSet(todo) = {OpenPort(port, Own), <<"save">>}
        \/ /\ port \in rows[n].ports
           /\ c.op = "port close" /\ c.name = n /\ c.row = fewer /\ c.todo = todo
           /\ ToSet(todo) = {ClosePort(port, Own), <<"save">>}
    BY <2>2, StartedAs
  <2>4. rows[n].made
    BY <1>11 DEF PortOpen, PortClose
  <2> QED
    BY <2>3, <2>4 DEF Started, more, fewer
<1>12. CASE Daemon(p)
  <2>1. PICK todo \in Seq(Step) :
           /\ Begin(p, "daemon", NoName, NoProject, todo)
           /\ ToSet(todo) = {<<"ready">>}
                 \cup {<<"open", x[1], x[2]>> :
                          x \in UNION {rows[n].ports \X {rows[n].rowid} : n \in Names}}
    BY <1>0, <1>12, DaemonSteps
  <2>2. c.op = "daemon" /\ c.name = NoName /\ c.todo = todo
    BY <2>1, StartedAs
  <2> QED
    BY <2>1, <2>2 DEF Started
<1> QED
  BY <1>1, <1>2, <1>3, <1>4, <1>5, <1>6, <1>7, <1>8, <1>9, <1>10, <1>11, <1>12 DEF BeginCommand

-----------------------------------------------------------------------------
(* What a step leaves. *)

LEMMA TailFollows ==
    ASSUME Core, NEW p \in Procs, NEW kind, At(p, kind)
    PROVE  /\ Tail(cmd[p].todo) \in Seq(Step)
           /\ ToSet(cmd[p].todo) = {NextStep(p)} \cup ToSet(Tail(cmd[p].todo))
           /\ \A y \in ToSet(Tail(cmd[p].todo)) : Follows(cmd[p].op, NextStep(p), y)
<1>1. /\ Shaped(cmd[p]) /\ cmd[p].todo \in Seq(Step) /\ cmd[p].todo # <<>>
      /\ NextStep(p) = Head(cmd[p].todo)
  BY AtStep
<1>2. PICK s : s = Tail(cmd[p].todo)
  OBVIOUS
<1>3. s \in Seq(Step) /\ ToSet(cmd[p].todo) = {NextStep(p)} \cup ToSet(s)
  BY <1>1, <1>2, TailElements
<1>4. ASSUME NEW y \in ToSet(s) PROVE Follows(cmd[p].op, NextStep(p), y)
  <2>1. PICK k \in DOMAIN s : y = s[k]
    BY DEF ToSet
  <2>2. k + 1 \in DOMAIN cmd[p].todo /\ y = cmd[p].todo[k + 1] /\ k \in Nat /\ k > 0
    BY <1>1, <1>2, <1>3, <2>1, TailElements, LenProperties
  <2>3. 1 \in DOMAIN cmd[p].todo /\ NextStep(p) = cmd[p].todo[1] /\ 1 < k + 1
    BY <1>1, <2>2, LenProperties, EmptySeq
  <2> QED
    BY <1>1, <2>2, <2>3 DEF Shaped, Ordered
<1> QED
  BY <1>2, <1>3, <1>4

\* The command's next contents, from those that it goes on with.
LEMMA Continued ==
    ASSUME Core, NEW p \in Procs, NEW s,
           Continue(p, [cmd[p] EXCEPT !.todo = s])
    PROVE  \/ s = <<>> /\ cmd'[p] = Idle
           \/ /\ s # <<>> /\ cmd'[p] = [cmd[p] EXCEPT !.todo = s]
              /\ cmd'[p].op = cmd[p].op /\ cmd'[p].name = cmd[p].name
              /\ cmd'[p].row = cmd[p].row /\ cmd'[p].todo = s
<1>1. cmd[p] \in Command /\ cmd \in [Procs -> Command]
  BY DEF Core, TypeOK
<1> DEFINE c == [cmd[p] EXCEPT !.todo = s]
<1>2. c.todo = s /\ c.op = cmd[p].op /\ c.name = cmd[p].name /\ c.row = cmd[p].row
  BY <1>1 DEF Command
<1>3. cmd'[p] = IF c.todo = <<>> THEN Idle ELSE c
  BY <1>1 DEF Continue
<1> HIDE DEF c
<1>4. \/ s = <<>> /\ cmd'[p] = Idle
      \/ /\ s # <<>> /\ cmd'[p] = c
         /\ cmd'[p].op = cmd[p].op /\ cmd'[p].name = cmd[p].name
         /\ cmd'[p].row = cmd[p].row /\ cmd'[p].todo = s
  BY <1>2, <1>3
<1> QED
  BY <1>4 DEF c

\* Also when its row gets an index, or other ports.
LEMMA ContinuedRow ==
    ASSUME Core, NEW p \in Procs, NEW s, NEW x,
           \/ Continue(p, [cmd[p] EXCEPT !.todo = s, !.row.rowid = x])
           \/ Continue(p, [cmd[p] EXCEPT !.todo = s, !.row.ports = x])
    PROVE  cmd'[p].todo = s
<1>1. cmd[p] \in Command /\ cmd \in [Procs -> Command] /\ Idle.todo = <<>>
  BY IdleIs DEF Core, TypeOK
<1>2. ASSUME NEW c, c.todo = s, Continue(p, c) PROVE cmd'[p].todo = s
  BY <1>1, <1>2 DEF Continue
<1>3. /\ [cmd[p] EXCEPT !.todo = s, !.row.rowid = x].todo = s
      /\ [cmd[p] EXCEPT !.todo = s, !.row.ports = x].todo = s
  BY <1>1 DEF Command
<1> QED
  BY <1>2, <1>3

\* A rule is only made right after it was deleted.
LEMMA ForwardAfterOpen ==
    ASSUME Core, Core', NEW p \in Procs, DoStep(p), At(p, "forward")'
    PROVE  Reopen(p) /\ Key(p)' = Key(p) /\ Index(p)' = Index(p)
<1> DEFINE todo == cmd[p].todo
<1>0. cmd'[p].todo # <<>> /\ Head(cmd'[p].todo)[1] = "forward"
  BY DEF At
<1>a. Idle.todo = <<>>
  BY DEF Idle
\* It does not come out of the other steps.
<1>1. ASSUME NEW kind, At(p, kind), NEW c, cmd'[p] = Idle \/ cmd'[p] = c, c.todo = Tail(todo)
      PROVE  FALSE
  <2>1. cmd'[p].todo = Tail(todo)
    BY <1>0, <1>1, <1>a
  <2>2. Tail(todo) \in Seq(Step) /\ \A y \in ToSet(Tail(todo)) : Follows(cmd[p].op, NextStep(p), y)
    BY <1>1, TailFollows
  <2>3. Head(Tail(todo)) \in ToSet(Tail(todo))
    <3> DEFINE s == Tail(todo)
    <3>1. s \in Seq(Step) /\ s # <<>>
      BY <1>0, <2>1, <2>2
    <3> HIDE DEF s
    <3>2. Head(s) \in ToSet(s)
      BY <3>1, Elements
    <3> QED
      BY <3>2 DEF s
  <2> QED
    BY <1>0, <2>1, <2>2, <2>3 DEF Follows
<1>2. ASSUME NEW kind, At(p, kind), Advance(p) PROVE FALSE
  <2>1. PICK s : s = Tail(todo)
    OBVIOUS
  <2>2. Continue(p, [cmd[p] EXCEPT !.todo = s])
    BY <1>2, <2>1 DEF Advance
  <2>3. PICK c : c = [cmd[p] EXCEPT !.todo = s]
    OBVIOUS
  <2>4. c.todo = Tail(todo) /\ (cmd'[p] = Idle \/ cmd'[p] = c)
    BY <1>2, <2>1, <2>2, <2>3, Continued, StepData DEF Command
  <2> QED
    BY <1>1, <1>2, <2>4
<1>3. ASSUME NEW s, Continue(p, [cmd[p] EXCEPT !.todo = s])
      PROVE  cmd'[p].todo = s /\ s # <<>> /\ cmd'[p].row = cmd[p].row
  BY <1>0, <1>a, <1>3, Continued
<1>4. ~Register(p)
  <2> SUFFICES ASSUME Register(p) PROVE FALSE
    OBVIOUS
  <2>1. At(p, "register")
    BY DEF Register
  <2>2. ~GiveUp(p, <<>>)
    BY <1>3 DEF GiveUp
  <2>3. PICK r \in NextRowid(rows) :
           Continue(p, [cmd[p] EXCEPT !.todo = Tail(@), !.row.rowid = r])
    BY Zenon, <2>2 DEF Register
  <2>4. PICK c : c = [cmd[p] EXCEPT !.todo = Tail(@), !.row.rowid = r]
    OBVIOUS
  <2>5. c.todo = Tail(todo)
    BY <2>1, <2>4, StepData DEF Command
  <2>6. cmd'[p] = Idle \/ cmd'[p] = c
    BY <2>3, <2>4 DEF Continue, Core, TypeOK
  <2> QED
    BY <1>1, <2>1, <2>5, <2>6
<1>5. ~Forward(p)
  <2> SUFFICES ASSUME Forward(p) PROVE FALSE
    OBVIOUS
  <2>1. At(p, "forward")
    BY DEF Forward
  <2>2. ~GiveUp(p, <<>>) /\ ~Advance(p)
    BY <1>2, <1>3, <2>1 DEF GiveUp
  <2>3. Continue(p, [cmd[p] EXCEPT !.todo = Tail(@), !.row.ports = @ \ {Key(p)}])
    BY <2>2 DEF Forward
  <2>4. PICK c : c = [cmd[p] EXCEPT !.todo = Tail(@), !.row.ports = @ \ {Key(p)}]
    OBVIOUS
  <2>5. c.todo = Tail(todo)
    BY <2>1, <2>4, StepData DEF Command
  <2>6. cmd'[p] = Idle \/ cmd'[p] = c
    BY <2>3, <2>4 DEF Continue, Core, TypeOK
  <2> QED
    BY <1>1, <2>1, <2>5, <2>6
<1>6. ~ (Unroute(p) \/ Record(p) \/ Unforward(p) \/ Unrow(p) \/ Ready(p))
  BY <1>2 DEF Unroute, Record, Unforward, Unrow, Ready
<1>7. ~FindNoServer(p)
  <2> SUFFICES ASSUME FindNoServer(p) PROVE FALSE
    OBVIOUS
  <2>1. cmd[p].todo \in Seq(Step)
    BY AtStep DEF FindNoServer
  <2>2. PICK s : s = << <<"serve">> >> \o cmd[p].todo
    OBVIOUS
  <2>3. Continue(p, [cmd[p] EXCEPT !.todo = s])
    BY <2>2 DEF FindNoServer
  <2>4. <<"serve">> \in Step
    BY DEF Step
  <2>5. Head(s) = <<"serve">>
    BY <2>1, <2>2, <2>4, Prepended
  <2>6. cmd'[p].todo = s
    BY <1>3, <2>3
  <2> QED
    BY <1>0, <2>5, <2>6
<1>8. ~Boot(p)
  <2>1. Head(<< <<"unrow">> >>)[1] # "forward"
    OBVIOUS
  <2>2. ~GiveUp(p, <<>>) /\ ~GiveUp(p, << <<"unrow">> >>)
    BY <1>0, <1>3, <2>1 DEF GiveUp
  <2> QED
    BY <1>2, <2>2 DEF Boot, When
<1>9. ~Serve(p)
  <2> SUFFICES ASSUME Serve(p) PROVE FALSE
    OBVIOUS
  <2>1. At(p, "serve")
    BY DEF Serve
  <2>2. PICK s : s = Tail(Tail(todo))
    OBVIOUS
  <2>3. Continue(p, [cmd[p] EXCEPT !.todo = s])
    <3>1. ~GiveUp(p, <<>>) /\ ~Advance(p)
      BY <1>2, <1>3, <2>1 DEF GiveUp
    <3> QED
      BY <2>2, <3>1 DEF Serve, RouteFails
  <2>4. cmd'[p].todo = s /\ s # <<>>
    BY <1>3, <2>3
  <2>5. /\ Tail(todo) \in Seq(Step) /\ Tail(todo) # <<>>
        /\ \A y \in ToSet(Tail(todo)) : Follows(cmd[p].op, NextStep(p), y)
    BY <2>1, AtStep, TailFollows DEF Shaped
  <2> DEFINE t == Tail(todo)
  <2>6. t \in Seq(Step) /\ t # <<>> /\ s = Tail(t)
    BY <2>2, <2>5
  <2> HIDE DEF t
  <2>7. s \in Seq(Step) /\ ToSet(s) \subseteq ToSet(t)
    BY <2>6, TailElements
  <2>8. Head(s) \in ToSet(t)
    BY <2>4, <2>7, Elements
  <2> QED
    BY <1>0, <2>4, <2>5, <2>8 DEF t, Follows
<1>10. ~Route(p)
  <2>1. ~GiveUp(p, <<>>)
    BY <1>3 DEF GiveUp
  <2> QED
    BY <1>2, <2>1 DEF Route, RouteFails, Advance
<1>11. ~Save(p)
  <2> SUFFICES ASSUME Save(p) PROVE FALSE
    OBVIOUS
  <2>1. At(p, "save") /\ ~Advance(p)
    BY <1>2 DEF Save
  <2>2. GiveUp(p, AfterFailedSave(p))
    BY <2>1 DEF Save
  <2>3. ~GiveUp(p, Tail(todo))
    BY <2>1 DEF Advance, GiveUp
  <2>4. PICK s : s = AfterFailedSave(p)
    OBVIOUS
  <2>5. cmd'[p].todo = s /\ s # <<>>
    BY <1>3, <2>2, <2>4 DEF GiveUp
  <2>6. CASE s = << <<"unrow">> >>
    BY <1>0, <2>5, <2>6
  <2>7. ASSUME NEW port, s = << ClosePort(port, Own) >> PROVE FALSE
    BY <1>0, <2>5, <2>7 DEF ClosePort
  <2> QED
    BY <2>2, <2>3, <2>4, <2>5, <2>6, <2>7 DEF AfterFailedSave
<1>12. Reopen(p)
  BY <1>4, <1>5, <1>6, <1>7, <1>8, <1>9, <1>10, <1>11 DEF DoStep
<1>13. Key(p)' = Key(p) /\ NextStep(p)'[3] = NextStep(p)[3] /\ cmd'[p].row = cmd[p].row
  <2>1. PICK s : s = << <<"forward", Key(p), NextStep(p)[3]>> >> \o Tail(todo)
    OBVIOUS
  <2>2. Continue(p, [cmd[p] EXCEPT !.todo = s]) /\ At(p, "open")
    BY <1>12, <2>1 DEF Reopen
  <2>3. cmd'[p].todo = s /\ cmd'[p].row = cmd[p].row
    BY <1>3, <2>2
  <2>4. PICK x : x = <<"forward", Key(p), NextStep(p)[3]>>
    OBVIOUS
  <2>5. x \in Step /\ Tail(todo) \in Seq(Step) /\ s = <<x>> \o Tail(todo)
    BY <2>1, <2>2, <2>4, AtStep, TailFollows, StepTypes DEF Key
  <2>6. Head(s) = x
    <3> DEFINE t == Tail(todo)
    <3>1. t \in Seq(Step) /\ s = <<x>> \o t
      BY <2>5
    <3> HIDE DEF t
    <3> QED
      BY <2>5, <3>1, Prepended
  <2>7. NextStep(p)' = x
    BY <2>3, <2>6 DEF NextStep
  <2> QED
    BY <2>3, <2>4, <2>7 DEF Key
<1> QED
  BY <1>12, <1>13 DEF Index

-----------------------------------------------------------------------------
(* A rule is there once. *)

Once ==
    /\ ForwardedOnce
    /\ \A p \in Procs : At(p, "forward") => Index(p) \notin ToSet(rules[Key(p)])

\* Two commands make rules for different projects.
LEMMA OwnRules ==
    ASSUME Core, DaemonAlone, NEW p \in Procs, NEW q \in Procs, p # q,
           NEW kind \in {"open", "forward", "unforward"},
           NEW other \in {"open", "forward", "unforward"}, At(p, kind), At(q, other)
    PROVE  Index(p) # Index(q)
<1>1. cmd[p] # Idle /\ cmd[q] # Idle /\ cmd[p].op # "daemon" /\ cmd[q].op # "daemon"
  BY AtStep DEF Core, DaemonIsAlone
<1>2. ASSUME NEW r \in {p, q} PROVE r \in Procs /\ HasIndex(cmd[r].name, Index(r)) /\ cmd[r].name \in Names
  <2>1. PICK k \in {"open", "forward", "unforward"} : r \in Procs /\ At(r, k) /\ cmd[r].op # "daemon"
    BY <1>1
  <2>2. HasIndex(cmd[r].name, cmd[r].row.rowid) /\ cmd[r].name \in Names
    BY <2>1, OwnRow, AtStep
  <2>3. NextStep(r)[3] = Own
    BY <2>1, AtStep DEF Fits
  <2> QED
    BY <2>1, <2>2, <2>3 DEF Index
<1>3. cmd[p].name # cmd[q].name
  BY <1>2, NoneAssumption DEF Core, OnePerProject
<1> QED
  BY <1>2, <1>3 DEF Core, RowsAreProjects, HasIndex

LEMMA OnceBegins ==
    ASSUME Core, Once, NEW p \in Procs, BeginCommand(p)
    PROVE  Once'
<1>1. rules' = rules /\ \A q \in Procs : q # p => cmd'[q] = cmd[q]
  BY OnlyOwnBegins
<1>2. PICK c : c = cmd'[p]
  OBVIOUS
<1>3. Started(c) /\ c.todo \in Seq(Step)
  BY <1>2, Beginning, BeginCore DEF Core, TypeOK, Command
<1>4. \A step \in ToSet(c.todo) : step[1] # "forward"
  <2> SUFFICES ASSUME NEW step \in ToSet(c.todo) PROVE step[1] # "forward"
    OBVIOUS
  <2> DEFINE n == c.name
  <2>1. CASE c.op \in {"deploy", "clone"}
    <3>1. PICK port \in BOOLEAN, h \in HostsOf(n) :
             ToSet(c.todo) = {<<"register">>, <<"boot">>, <<"save">>, <<"dns", Fqdn[n], Own>>}
                                \cup {y \in {<<"route", h, Own>>} : port}
                                \cup {OpenPort(x, Own) : x \in c.row.ports}
      BY Zenon, <1>3, <2>1 DEF Started
    <3>2. \/ step \in {<<"register">>, <<"boot">>, <<"save">>}
          \/ step = <<"dns", Fqdn[n], Own>>
          \/ step = <<"route", h, Own>>
          \/ \E x \in c.row.ports : step = <<"open", x, Own>>
      BY <3>1 DEF OpenPort
    <3> QED
      BY <3>2
  <2>2. CASE c.op \in {"load", "push"}
    <3>1. step \in {<<"register">>, <<"boot">>, <<"save">>, <<"unrow">>} \/ step = <<"dns", Bare[n], Own>>
      BY Zenon, <1>3, <2>2 DEF Started
    <3> QED
      BY <3>1
  <2>3. CASE c.op \in {"freeze", "unfreeze"}
    <3>1. \/ step \in {<<"boot">>, <<"save">>} \/ step = <<"unroute", Bare[n]>>
          \/ step = <<"route", Bare[n], Own>>
      BY <1>3, <2>3 DEF Started
    <3> QED
      BY <3>1
  <2>4. CASE c.op = "destroy"
    <3>1. \/ step = <<"unrow">> \/ step = <<"undns", Fqdn[n]>> \/ step = <<"unroute", Fqdn[n]>>
          \/ \E x \in rows[n].ports : step = <<"unforward", x, Own>>
      BY <1>3, <2>4 DEF Started, ClosePort
    <3> QED
      BY <3>1
  <2>5. CASE c.op = "route add"
    <3>1. PICK h \in HostsOf(n) : ToSet(c.todo) = {<<"route", h, Own>>, <<"save">>}
                                     \cup {y \in {<<"dns", h, HostIP>>} : h = Fqdn[n]}
      BY <1>3, <2>5 DEF Started
    <3>2. step = <<"save">> \/ step = <<"route", h, Own>> \/ step = <<"dns", h, HostIP>>
      BY <3>1
    <3> QED
      BY <3>2
  <2>6. CASE c.op = "route remove"
    <3>1. PICK h \in HostsOf(n) :
             \/ ToSet(c.todo) = {<<"save">>, <<"unroute", h>>} \cup {y \in {<<"dns", h, Own>>} : h = Fqdn[n]}
             \/ ToSet(c.todo) = {<<"unroute", h>>}
      BY <1>3, <2>6 DEF Started
    <3>2. step = <<"save">> \/ step = <<"unroute", h>> \/ step = <<"dns", h, Own>>
      BY <3>1
    <3> QED
      BY <3>2
  <2>8. CASE c.op = "unexpose"
    <3>1. step = <<"save">> \/ step = <<"unroute", Exposed(n)>> \/ step = <<"dns", Exposed(n), Own>>
      BY <1>3, <2>8 DEF Started
    <3> QED
      BY <3>1
  <2>9. CASE c.op \in {"port open", "port close"}
    <3>1. PICK port \in Ports : ToSet(c.todo) \subseteq {OpenPort(port, Own), ClosePort(port, Own), <<"save">>}
      BY <1>3, <2>9 DEF Started
    <3>2. step = <<"save">> \/ step = <<"open", port, Own>> \/ step = <<"unforward", port, Own>>
      BY <3>1 DEF OpenPort, ClosePort
    <3> QED
      BY <3>2
  <2>10. CASE c.op = "daemon"
    <3>1. ToSet(c.todo) = {<<"ready">>} \cup {<<"open", x[1], x[2]>> :
                              x \in UNION {rows[m].ports \X {rows[m].rowid} : m \in Names}}
      BY <1>3, <2>10 DEF Started
    <3>2. step = <<"ready">> \/ \E x \in UNION {rows[m].ports \X {rows[m].rowid} : m \in Names} :
                                   step = <<"open", x[1], x[2]>>
      BY <3>1
    <3> QED
      BY <3>2
  <2>7. c.op \in {"deploy", "clone", "load", "push", "freeze", "unfreeze", "destroy", "route add",
                  "route remove", "unexpose", "port open", "port close", "daemon"}
    BY <1>3 DEF Started
  <2> QED
    BY <2>1, <2>2, <2>3, <2>4, <2>5, <2>6, <2>7, <2>8, <2>9, <2>10
<1>5. ~At(p, "forward")'
  <2>1. c.todo # <<>> => Head(c.todo) \in ToSet(c.todo)
    BY <1>3, Elements
  <2> QED
    BY <1>2, <1>4, <2>1 DEF At
<1>6. ASSUME NEW q \in Procs, At(q, "forward")'
      PROVE  Index(q)' \notin ToSet(rules'[Key(q)'])
  <2>1. cmd'[q] = cmd[q]
    BY <1>1, <1>5, <1>6
  <2>2. At(q, "forward") /\ Index(q)' = Index(q) /\ Key(q)' = Key(q)
    BY <1>6, <2>1 DEF At, Index, Key, NextStep
  <2> QED
    BY <1>1, <2>2 DEF Once
<1> QED
  BY <1>1, <1>6 DEF Once, ForwardedOnce

LEMMA RulesStay ==
    ASSUME NEW p \in Procs, DoStep(p), ~Reopen(p), ~Unforward(p), ~Forward(p)
    PROVE  rules' = rules
BY Zenon DEF DoStep, Register, Boot, FindNoServer, Serve, Route, Unroute, Record, Save, Unrow,
      Ready

\* The deletes before an insert, whose error is dropped, do not fail.
RulesAreReplaced == \A op \in Ops : <<op, "open">> \notin MayFail

LEMMA OnceGoesOn ==
    ASSUME Core, Core', Once, DaemonAlone, RulesAreReplaced, NEW p \in Procs, DoStep(p)
    PROVE  Once'
<1>0. rules \in [Ports -> Seq(Nat)] /\ rules' \in [Ports -> Seq(Nat)]
  BY DEF Core, TypeOK
\* What happens to the rules.
<1>1. CASE rules' = Deleted(p) /\ \E kind \in {"open", "unforward"} : At(p, kind)
  <2>1. PICK kind \in {"open", "unforward"} : At(p, kind)
    BY <1>1
  <2>2. /\ Key(p) \in Ports
        /\ rules'[Key(p)] = RemoveFirst(rules[Key(p)], Index(p))
        /\ \A port \in Ports : port # Key(p) => rules'[port] = rules[port]
    BY <1>1, <2>1, DeletedType, StepData
  <2>3. /\ IsInjective(rules'[Key(p)])
        /\ ToSet(rules'[Key(p)]) = ToSet(rules[Key(p)]) \ {Index(p)}
    BY <1>0, <2>2, RemovedFirst DEF Once, ForwardedOnce
  <2>4. ForwardedOnce'
    BY <2>2, <2>3 DEF Once, ForwardedOnce
  <2>5. ASSUME NEW q \in Procs, At(q, "forward")'
        PROVE  Index(q)' \notin ToSet(rules'[Key(q)'])
    <3>1. CASE q = p
      BY <2>3, <2>5, <3>1, ForwardAfterOpen
    <3>2. CASE q # p
      <4>1. cmd'[q] = cmd[q]
        BY <3>2, OnlyOwn
      <4>2. At(q, "forward") /\ Index(q)' = Index(q) /\ Key(q)' = Key(q) /\ Key(q) \in Ports
        BY <2>5, <4>1, StepData DEF At, Index, Key, NextStep
      <4> QED
        BY <2>2, <2>3, <4>2 DEF Once
    <3> QED
      BY <3>1, <3>2
  <2> QED
    BY <2>4, <2>5 DEF Once
<1>2. CASE At(p, "forward") /\ rules' = [rules EXCEPT ![Key(p)] = <<Index(p)>> \o @]
  <2>1. Key(p) \in Ports /\ Index(p) \in Nat /\ Index(p) \notin ToSet(rules[Key(p)])
    BY <1>2, StepData DEF Once
  <2> DEFINE old == rules[Key(p)]
             new == <<Index(p)>> \o old
  <2>2. /\ rules'[Key(p)] = new
        /\ \A port \in Ports : port # Key(p) => rules'[port] = rules[port]
    BY <1>0, <1>2, <2>1
  <2>3. old \in Seq(Nat) /\ IsInjective(old) /\ Index(p) \notin ToSet(old)
    BY <1>0, <2>1 DEF Once, ForwardedOnce
  <2> HIDE DEF old
  <2>4. /\ new \in Seq(Nat) /\ new # <<>> /\ Head(new) = Index(p) /\ Tail(new) = old
        /\ ToSet(new) = {Index(p)} \cup ToSet(old)
    BY <2>1, <2>3, Prepended
  <2> HIDE DEF new
  <2>5. IsInjective(new)
    <3>1. /\ \A k \in DOMAIN old : k + 1 \in DOMAIN new /\ old[k] = new[k + 1]
          /\ Len(old) = Len(new) - 1
      BY <2>4, TailElements
    <3>2. /\ DOMAIN new = 1 .. Len(new) /\ DOMAIN old = 1 .. Len(old) /\ Len(new) \in Nat
          /\ Len(old) \in Nat /\ new[1] = Index(p)
      BY <2>3, <2>4, LenProperties, EmptySeq
    <3>3. \A k \in DOMAIN new : k = 1 \/ (k - 1 \in DOMAIN old /\ new[k] = old[k - 1])
      BY <3>1, <3>2
    <3>4. \A k \in DOMAIN old : old[k] # Index(p)
      BY <2>3 DEF ToSet
    <3>5. \A a, b \in DOMAIN old : old[a] = old[b] => a = b
      BY <2>3 DEF IsInjective
    <3>6. ASSUME NEW a \in DOMAIN new, NEW b \in DOMAIN new, new[a] = new[b]
          PROVE  a = b
      <4>1. CASE a = 1 \/ b = 1
        BY <3>2, <3>3, <3>4, <3>6, <4>1
      <4>2. CASE a # 1 /\ b # 1
        <5>1. /\ a - 1 \in DOMAIN old /\ b - 1 \in DOMAIN old
              /\ old[a - 1] = old[b - 1]
          BY <3>3, <3>6, <4>2
        <5>2. a - 1 = b - 1 /\ a \in Nat /\ b \in Nat
          BY <3>2, <3>5, <5>1
        <5> QED
          BY <5>2
      <4> QED
        BY <4>1, <4>2
    <3> QED
      BY <3>6 DEF IsInjective
  <2>6. ForwardedOnce'
    BY <2>2, <2>5 DEF Once, ForwardedOnce
  <2>7. ASSUME NEW q \in Procs, At(q, "forward")'
        PROVE  Index(q)' \notin ToSet(rules'[Key(q)'])
    <3>1. q # p
      <4>1. q = p => At(p, "open")
        BY <2>7, ForwardAfterOpen DEF Reopen
      <4> QED
        BY <1>2, <4>1 DEF At
    <3>2. cmd'[q] = cmd[q]
      BY <3>1, OnlyOwn
    <3>3. At(q, "forward") /\ Index(q)' = Index(q) /\ Key(q)' = Key(q) /\ Key(q) \in Ports
      BY <2>7, <3>2, StepData DEF At, Index, Key, NextStep
    <3>4. Index(p) # Index(q) /\ Index(q) \notin ToSet(rules[Key(q)])
      BY <1>2, <3>1, <3>3, OwnRules DEF Once
    <3>5. CASE Key(q) = Key(p)
      BY <2>2, <2>4, <3>3, <3>4, <3>5 DEF old
    <3>6. CASE Key(q) # Key(p)
      BY <2>2, <3>3, <3>4, <3>6
    <3> QED
      BY <3>5, <3>6
  <2> QED
    BY <2>6, <2>7 DEF Once
<1>3. CASE rules' = rules /\ ~Reopen(p)
  <2>1. ASSUME NEW q \in Procs, At(q, "forward")'
        PROVE  Index(q)' \notin ToSet(rules'[Key(q)'])
    <3>1. q # p
      BY <1>3, <2>1, ForwardAfterOpen
    <3>2. cmd'[q] = cmd[q]
      BY <3>1, OnlyOwn
    <3>3. At(q, "forward") /\ Index(q)' = Index(q) /\ Key(q)' = Key(q)
      BY <2>1, <3>2 DEF At, Index, Key, NextStep
    <3> QED
      BY <1>3, <3>3 DEF Once
  <2> QED
    BY <1>3, <2>1 DEF Once, ForwardedOnce
<1>4. CASE Reopen(p)
  BY <1>1, <1>4, AtStep DEF Reopen, DeleteRule, MayFailAt, RulesAreReplaced
<1>5. CASE Unforward(p)
  <2>1. ~Reopen(p)
    BY <1>5 DEF Unforward, Reopen, At
  <2> QED
    BY <1>1, <1>3, <1>5, <2>1 DEF Unforward, DeleteRule
<1>6. CASE Forward(p)
  <2>1. ~Reopen(p)
    BY <1>6 DEF Forward, Reopen, At
  <2> QED
    BY <1>2, <1>3, <1>6, <2>1 DEF Forward
<1>7. CASE ~Reopen(p) /\ ~Unforward(p) /\ ~Forward(p)
  BY <1>3, <1>7, RulesStay
<1> QED
  BY <1>4, <1>5, <1>6, <1>7

LEMMA OnceInv == ASSUME DaemonAlone, RulesAreReplaced PROVE Spec => []Once
<1>1. Init => Once
  <2> SUFFICES ASSUME Init PROVE Once
    OBVIOUS
  <2>1. \A port \in Ports : rules[port] = <<>>
    BY DEF Init
  <2>2. \A p \in Procs : ~At(p, "forward")
    BY DEF Init, At, Idle
  <2>3. IsInjective(<<>>)
    BY DEF IsInjective
  <2> QED
    BY <2>1, <2>2, <2>3 DEF Once, ForwardedOnce
<1>2. Once /\ (Core /\ OpensPorts) /\ (Core /\ OpensPorts)' /\ [Next]_vars => Once'
  <2> SUFFICES ASSUME Once, Core, Core', [Next]_vars PROVE Once'
    OBVIOUS
  <2>1. ASSUME NEW p \in Procs, BeginCommand(p) PROVE Once'
    BY <2>1, OnceBegins
  <2>2. ASSUME NEW p \in Procs, DoStep(p) PROVE Once'
    BY <2>2, OnceGoesOn
  <2>3. CASE Reboot
    <3>1. \A port \in Ports : rules'[port] = <<>>
      BY <2>3 DEF Reboot
    <3>2. \A p \in Procs : ~At(p, "forward")'
      BY <2>3 DEF Reboot, At, Idle
    <3>3. IsInjective(<<>>)
      BY DEF IsInjective
    <3> QED
      BY <3>1, <3>2, <3>3 DEF Once, ForwardedOnce
  <2>4. CASE UNCHANGED vars
    BY <2>4 DEF vars, Once, ForwardedOnce, At, Index, Key, NextStep
  <2> QED
    BY <2>1, <2>2, <2>3, <2>4 DEF Next
<1> QED
  BY <1>1, <1>2, CoreInv, PTL DEF Spec

\* Whatever else fails, ClosePort included, and with any number of commands at
\* once, no rule is there twice: a command that makes one has deleted it just
\* before, and nobody else makes the rules of its project in between.
THEOREM RulesOnce ==
    ASSUME DaemonAlone, RulesAreReplaced
    PROVE  Spec => []ForwardedOnce
<1>1. Once => ForwardedOnce
  BY DEF Once
<1> QED
  BY <1>1, OnceInv, PTL
-----------------------------------------------------------------------------
(* What leads to a project that is gone: no record and no rule, unless
   certain steps fail.  Indexes are given out again, so the argument is
   about commands that may still delete their row: each of them has done,
   or is going to do before that, what takes the record and the rules away.

   First the failures that the theorems exclude. *)

\* What leaves a rule behind of which the store knows nothing: a delete that
\* fails, the port of deploy and port open that was forwarded with an error, and
\* the ports of a new project whose row is not saved.
PortsAreRecorded ==
    /\ "push" \notin Commands
    /\ RulesAreReplaced
    /\ \A op \in Ops : <<op, "unforward">> \notin MayFail
    /\ {<<"deploy", "forward">>, <<"port open", "forward">>,
        <<"deploy", "save">>, <<"clone", "save">>} \cap MayFail = {}

\* Those that leave a port recorded of which there is no rule.
RecordedArePorts ==
    /\ PortsAreRecorded
    /\ {<<"clone", "forward">>, <<"daemon", "forward">>, <<"port close", "save">>,
        <<"destroy", "unrow">>} \cap MayFail = {}

NamesAreRemoved == "push" \notin Commands /\ <<"destroy", "undns">> \notin MayFail

-----------------------------------------------------------------------------
(* What a step leaves to do, but for routes. *)

Lasting(todo) == {step \in ToSet(todo) : step[1] \notin {"serve", "route"}}

GoesOn(p) == Lasting(cmd'[p].todo) = Lasting(Tail(cmd[p].todo))

\* The rest is given up.
Ends(p) ==
    /\ cmd'[p].todo = <<>>
    /\ \/ At(p, "register")
       \/ At(p, "boot") /\ cmd[p].op \notin {"deploy", "clone"}
       \/ cmd[p].op = "route add"
       \/ cmd[p].op = "port open" /\ At(p, "forward") /\ MayFailAt(p, "forward")
       \/ /\ At(p, "save") /\ MayFailAt(p, "save")
          /\ cmd[p].op \notin {"deploy", "clone", "port open"}

\* A step is done instead.
CleansUp(p) ==
    \/ /\ cmd'[p].todo = << <<"unrow">> >>
       /\ cmd[p].op \in {"deploy", "clone"}
       /\ At(p, "boot") \/ (At(p, "save") /\ MayFailAt(p, "save"))
    \/ /\ \E port \in cmd[p].row.ports \ rows[cmd[p].name].ports :
             cmd'[p].todo = << ClosePort(port, Own) >>
       /\ cmd[p].op = "port open"
       /\ At(p, "save")

Registers(p) ==
    \E r \in NextRowid(rows) :
       rows' = [rows EXCEPT ![cmd[p].name] = [NoProject EXCEPT !.rowid = r,
                                                               !.status = "creating"]]

Outcome(p) ==
    \/ At(p, "register") /\ Registers(p) /\ GoesOn(p)
    \/ At(p, "save") /\ rows' = [rows EXCEPT ![cmd[p].name] = cmd[p].row] /\ GoesOn(p)
    \/ /\ At(p, "unrow") /\ rows' = [rows EXCEPT ![cmd[p].name] = NoProject]
       /\ cmd'[p].todo = <<>>
    \/ /\ \E kind : At(p, kind) /\ kind \notin {"register", "open"}
       /\ At(p, "save") => cmd[p].op = "route remove"
       /\ rows' = rows /\ GoesOn(p)
    \/ /\ Reopen(p) /\ rows' = rows
       /\ Lasting(cmd'[p].todo) = {<<"forward", Key(p), NextStep(p)[3]>>}
                                     \cup Lasting(Tail(cmd[p].todo))
    \/ Ends(p) /\ rows' = rows
    \/ CleansUp(p) /\ rows' = rows

LEMMA TodoIs ==
    ASSUME Core, NEW p \in Procs, NEW s, Continue(p, [cmd[p] EXCEPT !.todo = s])
    PROVE  cmd'[p].todo = s
<1>1. Idle.todo = <<>>
  BY DEF Idle
<1> QED
  BY <1>1, Continued

LEMMA AdvanceOn ==
    ASSUME Core, NEW p \in Procs, Advance(p)
    PROVE  cmd'[p].todo = Tail(cmd[p].todo) /\ GoesOn(p)
<1>1. PICK s : s = Tail(cmd[p].todo)
  OBVIOUS
<1>2. Continue(p, [cmd[p] EXCEPT !.todo = s])
  BY <1>1 DEF Advance
<1> QED
  BY <1>1, <1>2, TodoIs DEF GoesOn

\* In place of the rest.
LEMMA GivenUp ==
    ASSUME Core, NEW p \in Procs, NEW s, GiveUp(p, s)
    PROVE  cmd'[p].todo = s
BY TodoIs DEF GiveUp

\* Without a route the rest of the command is done.
LEMMA WithoutRoute ==
    ASSUME Core, NEW p \in Procs, NEW kind \in {"serve", "route"}, At(p, kind),
           NEW s, s = IF kind = "serve" THEN Tail(Tail(cmd[p].todo)) ELSE Tail(cmd[p].todo),
           RouteFails(p, s), rows' = rows
    PROVE  Outcome(p)
<1>1. CASE cmd[p].op = "route add"
  BY <1>1, GivenUp DEF RouteFails, Outcome, Ends
<1>2. CASE cmd[p].op # "route add"
  <2>1. cmd'[p].todo = s
    BY <1>2, TodoIs DEF RouteFails
  <2>2. GoesOn(p)
    <3>1. CASE kind = "route"
      BY <2>1, <3>1 DEF GoesOn
    <3>2. CASE kind = "serve"
      <4>1. PICK t : t = Tail(cmd[p].todo)
        OBVIOUS
      <4>2. t \in Seq(Step) /\ t # <<>> /\ Head(t)[1] = "route" /\ s = Tail(t)
        BY <3>2, <4>1, AtStep, TailFollows DEF Shaped
      <4>3. ToSet(t) = {Head(t)} \cup ToSet(s)
        BY <4>2, TailElements
      <4> QED
        BY <2>1, <4>1, <4>2, <4>3 DEF GoesOn, Lasting
    <3> QED
      BY <3>1, <3>2
  <2>3. \E k : At(p, k) /\ k \notin {"register", "open"}
    OBVIOUS
  <2>4. ~At(p, "save")
    BY DEF At
  <2> QED
    BY <2>2, <2>3, <2>4 DEF Outcome
<1> QED
  BY <1>1, <1>2

LEMMA Outcomes ==
    ASSUME Core, OpensPorts, NEW p \in Procs, DoStep(p)
    PROVE  Outcome(p)
<1>1. CASE Register(p)
  <2>0. At(p, "register")
    BY <1>1 DEF Register
  <2>1. ASSUME NEW r \in NextRowid(rows),
               rows' = [rows EXCEPT ![cmd[p].name] = [NoProject EXCEPT !.rowid = r,
                                                                       !.status = "creating"]],
               Continue(p, [cmd[p] EXCEPT !.todo = Tail(@), !.row.rowid = r])
        PROVE  Outcome(p)
    <3>1. cmd'[p].todo = Tail(cmd[p].todo)
      BY <2>1, ContinuedRow
    <3> QED
      BY <2>0, <2>1, <3>1 DEF Outcome, Registers, GoesOn
  <2>2. ASSUME GiveUp(p, <<>>), rows' = rows
        PROVE  Outcome(p)
    BY <2>0, <2>2, GivenUp DEF Outcome, Ends
  <2> QED
    BY Zenon, <1>1, <2>1, <2>2 DEF Register
\* A step that is done and changes no row.
<1>a. ASSUME NEW kind, At(p, kind), kind \notin {"register", "open", "save"},
             Advance(p), rows' = rows
      PROVE  Outcome(p)
  <2>1. ~At(p, "save")
    BY <1>a DEF At
  <2> QED
    BY <1>a, <2>1, AdvanceOn DEF Outcome
<1>2. CASE Boot(p)
  <2>1. At(p, "boot") /\ rows' = rows
    BY <1>2 DEF Boot
  <2>2. CASE Advance(p)
    BY <1>a, <2>1, <2>2
  <2>3. CASE cmd[p].op \in {"deploy", "clone"} /\ GiveUp(p, << <<"unrow">> >>)
    BY <2>1, <2>3, GivenUp DEF Outcome, CleansUp
  <2>4. CASE cmd[p].op \notin {"deploy", "clone"} /\ GiveUp(p, <<>>)
    BY <2>1, <2>4, GivenUp DEF Outcome, Ends
  <2> QED
    BY <1>2, <2>2, <2>3, <2>4 DEF Boot, When
<1>3. CASE FindNoServer(p)
  <2>1. At(p, "route") /\ rows' = rows
    BY <1>3 DEF FindNoServer
  <2>2. PICK s : s = << <<"serve">> >> \o cmd[p].todo
    OBVIOUS
  <2>3. Continue(p, [cmd[p] EXCEPT !.todo = s])
    BY <1>3, <2>2 DEF FindNoServer
  <2>4. cmd'[p].todo = s
    BY <2>3, TodoIs
  <2>5. <<"serve">> \in Step
    BY DEF Step
  <2>6. cmd[p].todo \in Seq(Step) /\ cmd[p].todo # <<>> /\ Head(cmd[p].todo)[1] = "route"
    BY <2>1, AtStep
  <2>7. ToSet(s) = {<<"serve">>} \cup ToSet(cmd[p].todo)
    BY <2>2, <2>5, <2>6, Prepended
  <2>8. ToSet(cmd[p].todo) = {Head(cmd[p].todo)} \cup ToSet(Tail(cmd[p].todo))
    BY <2>6, TailElements
  <2>9. GoesOn(p)
    BY <2>4, <2>6, <2>7, <2>8 DEF GoesOn, Lasting
  <2>10. ~At(p, "save") /\ \E kind : At(p, kind) /\ kind \notin {"register", "open"}
    BY <2>1 DEF At
  <2> QED
    BY <2>1, <2>9, <2>10 DEF Outcome
<1>4. CASE Serve(p)
  <2>1. At(p, "serve") /\ rows' = rows
    BY <1>4 DEF Serve
  <2>2. CASE Advance(p)
    BY <1>a, <2>1, <2>2
  <2>3. CASE RouteFails(p, Tail(Tail(cmd[p].todo)))
    BY <2>1, <2>3, WithoutRoute
  <2> QED
    BY <1>4, <2>2, <2>3 DEF Serve
<1>5. CASE Route(p)
  <2>1. At(p, "route") /\ rows' = rows
    BY <1>5 DEF Route
  <2>2. CASE Advance(p)
    BY <1>a, <2>1, <2>2
  <2>3. CASE RouteFails(p, Tail(cmd[p].todo))
    BY <2>1, <2>3, WithoutRoute
  <2> QED
    BY <1>5, <2>2, <2>3 DEF Route
<1>6. CASE Unroute(p) \/ Record(p) \/ Unforward(p) \/ Ready(p)
  <2>1. Advance(p) /\ rows' = rows
    BY <1>6 DEF Unroute, Record, Unforward, Ready
  <2>2. \E kind \in {"unroute", "dns", "undns", "unforward", "ready"} : At(p, kind)
    BY <1>6 DEF Unroute, Record, Unforward, Ready
  <2> QED
    BY <1>a, <2>1, <2>2
<1>7. CASE Reopen(p)
  <2>1. PICK s : s = << <<"forward", Key(p), NextStep(p)[3]>> >> \o Tail(cmd[p].todo)
    OBVIOUS
  <2>2. Continue(p, [cmd[p] EXCEPT !.todo = s]) /\ At(p, "open") /\ rows' = rows
    BY <1>7, <2>1 DEF Reopen
  <2>3. cmd'[p].todo = s
    BY <2>2, TodoIs
  <2>4. PICK x : x = <<"forward", Key(p), NextStep(p)[3]>>
    OBVIOUS
  <2>5. x \in Step /\ Tail(cmd[p].todo) \in Seq(Step) /\ x[1] = "forward"
    BY <2>2, <2>4, AtStep, TailFollows, StepTypes DEF Key
  <2>6. ToSet(s) = {x} \cup ToSet(Tail(cmd[p].todo))
    <3>1. s = <<x>> \o Tail(cmd[p].todo)
      BY <2>1, <2>4
    <3>2. PICK t \in Seq(Step) : t = Tail(cmd[p].todo)
      BY <2>5
    <3>3. ToSet(<<x>> \o t) = {x} \cup ToSet(t)
      BY ONLY <2>5, Prepended
    <3> QED
      BY <3>1, <3>2, <3>3
  <2>7. Lasting(s) = {x} \cup Lasting(Tail(cmd[p].todo))
    BY <2>5, <2>6 DEF Lasting
  <2> QED
    BY <1>7, <2>2, <2>3, <2>4, <2>7 DEF Outcome
<1>8. CASE Forward(p)
  <2>1. At(p, "forward") /\ rows' = rows
    BY <1>8 DEF Forward
  <2>2. CASE Advance(p)
    BY <1>a, <2>1, <2>2
  <2>3. CASE cmd[p].op = "port open" /\ GiveUp(p, <<>>) /\ MayFailAt(p, "forward")
    BY <2>1, <2>3, GivenUp DEF Outcome, Ends
  <2>4. CASE Continue(p, [cmd[p] EXCEPT !.todo = Tail(@), !.row.ports = @ \ {Key(p)}])
    <3>4. cmd'[p].todo = Tail(cmd[p].todo)
      BY <2>4, ContinuedRow
    <3>5. GoesOn(p) /\ ~At(p, "save") /\ \E kind : At(p, kind) /\ kind \notin {"register", "open"}
      BY <2>1, <3>4 DEF GoesOn, At
    <3> QED
      BY <2>1, <3>5 DEF Outcome
  <2> QED
    BY <1>8, <2>2, <2>3, <2>4 DEF Forward
<1>9. CASE Save(p)
  <2>1. At(p, "save")
    BY <1>9 DEF Save
  <2>2. CASE Advance(p) /\ rows' = [rows EXCEPT ![cmd[p].name] = cmd[p].row]
    BY <2>1, <2>2, AdvanceOn DEF Outcome
  <2>3. CASE GiveUp(p, AfterFailedSave(p)) /\ rows' = rows /\ MayFailAt(p, "save")
    <3>1. PICK s : s = AfterFailedSave(p)
      OBVIOUS
    <3>2. cmd'[p].todo = s
      BY <2>3, <3>1, GivenUp
    <3>3. CASE cmd[p].op \in {"deploy", "clone"}
      <4>1. s = << <<"unrow">> >>
        BY <3>1, <3>3 DEF AfterFailedSave
      <4> QED
        BY <2>1, <2>3, <3>2, <3>3, <4>1 DEF Outcome, CleansUp
    <3>4. CASE cmd[p].op = "port open"
      <4>1. \E port \in Ports : port \in cmd[p].row.ports /\ port \notin rows[cmd[p].name].ports
        BY <3>4 DEF OpensPorts, OpensPort
      <4>2. PICK port \in cmd[p].row.ports \ rows[cmd[p].name].ports : s = << ClosePort(port, Own) >>
        <5>1. PICK port : port = CHOOSE open \in cmd[p].row.ports :
                                    open \notin rows[cmd[p].name].ports
          OBVIOUS
        <5>2. s = << ClosePort(port, Own) >>
          BY <3>1, <3>4, <5>1 DEF AfterFailedSave
        <5>3. port \in cmd[p].row.ports /\ port \notin rows[cmd[p].name].ports
          BY <4>1, <5>1
        <5> QED
          BY <5>2, <5>3
      <4> QED
        BY <2>1, <2>3, <3>2, <3>4, <4>2 DEF Outcome, CleansUp
    <3>5. CASE cmd[p].op = "route remove"
      <4>1. s = Tail(cmd[p].todo)
        BY <3>1, <3>5 DEF AfterFailedSave
      <4>2. GoesOn(p) /\ \E kind : At(p, kind) /\ kind \notin {"register", "open"}
        BY <2>1, <3>2, <4>1 DEF GoesOn
      <4> QED
        BY <2>3, <3>5, <4>2 DEF Outcome
    <3>6. CASE cmd[p].op \notin {"deploy", "clone", "port open", "route remove"}
      <4>1. s = <<>>
        BY <3>1, <3>6 DEF AfterFailedSave
      <4> QED
        BY <2>1, <2>3, <3>2, <3>6, <4>1 DEF Outcome, Ends
    <3> QED
      BY <3>3, <3>4, <3>5, <3>6
  <2> QED
    BY <1>9, <2>2, <2>3 DEF Save
<1>10. CASE Unrow(p)
  <2>1. At(p, "unrow") /\ Advance(p)
    BY <1>10 DEF Unrow
  <2>2. CASE rows' = rows
    BY <1>a, <2>1, <2>2
  <2>3. CASE rows' = [rows EXCEPT ![cmd[p].name] = NoProject]
    <3>1. PICK s : s = Tail(cmd[p].todo)
      OBVIOUS
    <3>2. s \in Seq(Step) /\ \A y \in ToSet(s) : Follows(cmd[p].op, NextStep(p), y)
             /\ NextStep(p)[1] = "unrow"
      BY <2>1, <3>1, AtStep, TailFollows
    <3>3. s = <<>>
      BY <3>2, Elements DEF Follows
    <3> QED
      BY <2>1, <2>3, <3>1, <3>3, AdvanceOn DEF Outcome
  <2> QED
    BY <1>10, <2>2, <2>3 DEF Unrow
<1> QED
  BY <1>1, <1>2, <1>3, <1>4, <1>5, <1>6, <1>7, <1>8, <1>9, <1>10 DEF DoStep

LEMMA LastingHas ==
    ASSUME NEW s, NEW t, Lasting(s) = Lasting(t)
    PROVE  /\ \A x : x[1] \notin {"serve", "route"} => (x \in ToSet(s) <=> x \in ToSet(t))
           /\ \A kind : kind \notin {"serve", "route"} => (Has(s, kind) <=> Has(t, kind))
<1>1. \A x : x[1] \notin {"serve", "route"} => (x \in ToSet(s) <=> x \in ToSet(t))
  BY DEF Lasting
<1> QED
  BY <1>1 DEF Has

LEMMA HasTail ==
    ASSUME Core, NEW p \in Procs, NEW kind, At(p, kind)
    PROVE  \A k : Has(cmd[p].todo, k) <=> (k = kind \/ Has(Tail(cmd[p].todo), k))
<1>1. ToSet(cmd[p].todo) = {NextStep(p)} \cup ToSet(Tail(cmd[p].todo)) /\ NextStep(p)[1] = kind
  BY AtStep, TailFollows
<1> QED
  BY <1>1 DEF Has

\* A command that has something left is still about the same project.
LEMMA StillThere ==
    ASSUME Core, NEW p \in Procs, DoStep(p), cmd'[p].todo # <<>> \/ cmd'[p].op # "none"
    PROVE  cmd'[p].op = cmd[p].op /\ cmd'[p].name = cmd[p].name
<1>1. Idle.todo = <<>> /\ Idle.op = "none"
  BY DEF Idle
<1> QED
  BY <1>1, SameOp

LEMMA GivenCommands ==
    ASSUME Core, NEW p \in Procs, BeginCommand(p)
    PROVE  cmd'[p].op \in Commands
<1>1. \A op, n, row, todo : Begin(p, op, n, row, todo) => cmd'[p].op \in Commands
  <2> SUFFICES ASSUME NEW op, NEW n, NEW row, NEW todo, Begin(p, op, n, row, todo)
               PROVE  cmd'[p].op \in Commands
    OBVIOUS
  <2>1. cmd'[p].op = op
    BY StartedAs
  <2> QED
    BY <2>1 DEF Begin
<1>2. ASSUME NEW n \in Names, NEW src \in Names,
             \/ Deploy(p, n) \/ Clone(p, src, n) \/ Load(p, n) \/ Push(p, n) \/ Destroy(p, n)
      PROVE  cmd'[p].op \in Commands
  BY <1>1, <1>2 DEF Deploy, Clone, Load, Push, Destroy
<1>3. ASSUME NEW n \in Names,
             \/ Freeze(p, n) \/ Unfreeze(p, n) \/ RouteAdd(p, n) \/ RouteRemove(p, n)
             \/ Unexpose(p, n)
      PROVE  cmd'[p].op \in Commands
  BY <1>1, <1>3 DEF Freeze, Unfreeze, RouteAdd, RouteRemove, Unexpose
<1>4. ASSUME NEW n \in Names, PortOpen(p, n) \/ PortClose(p, n)
      PROVE  cmd'[p].op \in Commands
  BY <1>1, <1>4 DEF PortOpen, PortClose
<1>5. ASSUME Daemon(p) PROVE cmd'[p].op \in Commands
  BY <1>1, <1>5 DEF Daemon
<1> QED
  BY <1>2, <1>3, <1>4, <1>5 DEF BeginCommand

-----------------------------------------------------------------------------
(* Records lead to owners. *)

\* The commands that may delete the row of their project without undns.
Unnamed(c) ==
    \/ c.op = "destroy" /\ Has(c.todo, "unrow") /\ ~Has(c.todo, "undns")
    \/ /\ c.op \in {"deploy", "clone"}
       /\ \E kind \in {"register", "boot", "save", "unrow"} : Has(c.todo, kind)

NamesFollow ==
    /\ NameLeadsToOwner
    /\ \A p \in Procs :
          /\ cmd[p].op \in Commands \cup {"none"}
          /\ \A step \in ToSet(cmd[p].todo) :
                step[1] = "undns" => step = <<"undns", Fqdn[cmd[p].name]>>
          /\ Unnamed(cmd[p]) => dns[Fqdn[cmd[p].name]] \in {0, HostIP}

\* Nobody else's hostnames.
LEMMA RecordEffect ==
    ASSUME Core, NEW p \in Procs, DoStep(p)
    PROVE  \/ dns' = dns /\ (At(p, "undns") => MayFailAt(p, "undns"))
           \/ /\ \E kind \in {"dns", "undns"} : At(p, kind)
              /\ Key(p) \in HostsOf(cmd[p].name) /\ Key(p) \in Hosts /\ cmd[p].name \in Names
              /\ dns' = [dns EXCEPT ![Key(p)] = IF At(p, "dns") THEN Index(p) ELSE 0]
<1>1. CASE Record(p)
  <2>1. ASSUME NEW kind \in {"dns", "undns"}, At(p, kind)
        PROVE  /\ Key(p) \in HostsOf(cmd[p].name) /\ Key(p) \in Hosts /\ cmd[p].name \in Names
               /\ kind = "undns" => ~At(p, "dns")
    <3>1. Fits(NextStep(p), cmd[p].op, cmd[p].name) /\ NextStep(p)[1] = kind
      BY <2>1, AtStep
    <3>2. cmd[p].op # "daemon"
      BY <2>1, <3>1 DEF Fits, Users
    <3>3. Key(p) \in Hosts /\ cmd[p].name \in Names
      BY <2>1, <3>2, StepData, AtStep
    <3>4. kind = "undns" => ~At(p, "dns")
      BY <2>1 DEF At
    <3> QED
      BY <3>1, <3>3, <3>4 DEF Fits, Key
  <2> QED
    BY <1>1, <2>1 DEF Record
<1>2. CASE ~Record(p)
  <2>1. dns' = dns
    BY Zenon, <1>2 DEF DoStep, Register, Boot, FindNoServer, Serve, Route, Unroute, Reopen, Forward,
          Unforward, Save, Unrow, Ready
  <2>2. ~At(p, "undns")
    BY <1>2, StepIs DEF At
  <2> QED
    BY <2>1, <2>2
<1> QED
  BY <1>1, <1>2

LEMMA NamesBegin ==
    ASSUME Core, Core', NamesFollow, NEW p \in Procs, BeginCommand(p)
    PROVE  NamesFollow'
<1>1. /\ rows' = rows /\ dns' = dns /\ \A q \in Procs : q # p => cmd'[q] = cmd[q]
  BY OnlyOwnBegins
<1>2. PICK c : c = cmd'[p]
  OBVIOUS
<1>3. Started(c) /\ c.op \in Commands
  BY <1>2, Beginning, GivenCommands
<1>4. \A step \in ToSet(c.todo) : Fits(step, c.op, c.name)
  <2>1. c = Idle \/ Shaped(c)
    BY <1>2 DEF Core
  <2>2. Idle.op = "none"
    BY DEF Idle
  <2>3. c.op # "none"
    BY <1>3 DEF Started
  <2> QED
    BY <2>1, <2>2, <2>3 DEF Shaped
<1>5. ASSUME NEW step \in ToSet(c.todo), step[1] = "undns"
      PROVE  step = <<"undns", Fqdn[c.name]>>
  <2>1. c.op = "destroy"
    BY <1>4, <1>5 DEF Fits, Users
  <2>2. ToSet(c.todo) = {y \in {<<"unroute", Fqdn[c.name]>>} : rows[c.name].expose}
                           \cup {ClosePort(x, Own) : x \in rows[c.name].ports}
                           \cup {<<"undns", Fqdn[c.name]>>, <<"unrow">>}
    BY <1>3, <2>1 DEF Started
  <2>3. \/ step = <<"unroute", Fqdn[c.name]>> \/ step = <<"unrow">>
        \/ step = <<"undns", Fqdn[c.name]>>
        \/ \E x \in rows[c.name].ports : step = <<"unforward", x, Own>>
    BY <2>2 DEF ClosePort
  <2> QED
    BY <1>5, <2>3
<1>6. ASSUME Unnamed(c) PROVE dns[Fqdn[c.name]] \in {0, HostIP}
  <2>1. CASE c.op = "destroy"
    <3>1. <<"undns", Fqdn[c.name]>> \in ToSet(c.todo)
      BY <1>3, <2>1 DEF Started
    <3>2. Has(c.todo, "undns")
      BY <3>1 DEF Has
    <3> QED
      BY <1>6, <2>1, <3>2 DEF Unnamed
  <2>2. CASE c.op \in {"deploy", "clone"}
    <3>1. c.name \in Names /\ ~Present(rows, c.name)
      BY <1>3, <2>2 DEF Started
    <3> QED
      BY <3>1 DEF NamesFollow, NameLeadsToOwner, HasIndex
  <2> QED
    BY <1>6, <2>1, <2>2 DEF Unnamed
<1>7. NameLeadsToOwner'
  BY <1>1 DEF NamesFollow, NameLeadsToOwner, HasIndex, Present
<1>8. ASSUME NEW q \in Procs
      PROVE  /\ cmd'[q].op \in Commands \cup {"none"}
             /\ \A step \in ToSet(cmd'[q].todo) :
                   step[1] = "undns" => step = <<"undns", Fqdn[cmd'[q].name]>>
             /\ Unnamed(cmd'[q]) => dns[Fqdn[cmd'[q].name]] \in {0, HostIP}
  <2>1. CASE q = p
    BY <1>2, <1>3, <1>5, <1>6, <2>1
  <2>2. CASE q # p
    <3>1. cmd'[q] = cmd[q]
      BY <1>1, <2>2
    <3> QED
      BY <3>1 DEF NamesFollow
  <2> QED
    BY <2>1, <2>2
<1> QED
  BY <1>1, <1>7, <1>8 DEF NamesFollow, Unnamed

\* The record of a project is the same after a step of another command.
LEMMA OtherRecord ==
    ASSUME Core, NEW p \in Procs, DoStep(p), NEW n \in Names, n # cmd[p].name
    PROVE  dns'[Fqdn[n]] = dns[Fqdn[n]] /\ rows'[n] = rows[n]
<1>1. Fqdn[n] \in HostsOf(n) /\ Fqdn[n] \in Hosts
  BY HostsAssumption DEF HostsOf
<1>2. rows'[n] = rows[n]
  BY OnlyOwn
<1>3. CASE dns' = dns
  BY <1>2, <1>3
<1>4. ASSUME Key(p) \in HostsOf(cmd[p].name), cmd[p].name \in Names,
             NEW i, dns' = [dns EXCEPT ![Key(p)] = i]
      PROVE  dns'[Fqdn[n]] = dns[Fqdn[n]]
  <2>1. Fqdn[n] # Key(p)
    BY <1>1, <1>4, HostsAssumption
  <2>2. dns \in [Hosts -> Nat \cup {HostIP}]
    BY DEF Core, TypeOK
  <2> QED
    BY <1>1, <1>4, <2>1, <2>2
<1> QED
  BY <1>2, <1>3, <1>4, RecordEffect

\* A command about to delete its row has deleted the record, or never made it.
LEMMA UnrowUnnamed ==
    ASSUME Core, NEW p \in Procs, At(p, "unrow"), cmd[p].op # "push"
    PROVE  Unnamed(cmd[p])
<1>1. /\ Shaped(cmd[p]) /\ Head(cmd[p].todo)[1] = "unrow" /\ cmd[p].op \in Users("unrow")
      /\ Head(cmd[p].todo) \in ToSet(cmd[p].todo)
  BY AtStep
<1>2. Has(cmd[p].todo, "unrow") /\ ~Has(cmd[p].todo, "undns")
  BY <1>1, LaterSteps DEF Has, Follows
<1> QED
  BY <1>1, <1>2 DEF Unnamed, Users

LEMMA NamesOwned ==
    ASSUME Core, OpensPorts, NamesFollow, NamesAreRemoved, NEW p \in Procs, DoStep(p)
    PROVE  NameLeadsToOwner'
<1> SUFFICES ASSUME NEW m \in Names
             PROVE  dns'[Fqdn[m]] \in {0, HostIP} \/ HasIndex(m, dns[Fqdn[m]])'
  BY DEF NameLeadsToOwner
<1>0. /\ dns \in [Hosts -> Nat \cup {HostIP}] /\ rows \in [Names -> Project]
      /\ dns[Fqdn[m]] \in {0, HostIP} \/ HasIndex(m, dns[Fqdn[m]])
  BY DEF Core, TypeOK, NamesFollow, NameLeadsToOwner
<1>1. CASE m # cmd[p].name
  BY <1>0, <1>1, OtherRecord DEF HasIndex, Present
<1>2. ASSUME m = cmd[p].name, NEW kind \in {"dns", "undns"}, At(p, kind), Key(p) = Fqdn[m],
             Key(p) \in Hosts, dns' = [dns EXCEPT ![Key(p)] = IF At(p, "dns") THEN Index(p) ELSE 0]
      PROVE  dns'[Fqdn[m]] \in {0, HostIP} \/ HasIndex(m, dns[Fqdn[m]])'
  <2>1. dns'[Fqdn[m]] = IF At(p, "dns") THEN Index(p) ELSE 0
    BY <1>0, <1>2
  <2>2. CASE At(p, "dns")
    <3>1. NextStep(p)[3] \in {Own, HostIP} /\ cmd[p].op # "daemon"
      BY <2>2, AtStep, StepTypes DEF Users
    <3>2. HasIndex(m, cmd[p].row.rowid)
      BY <1>2, <2>2, <3>1, OwnRow
    <3>3. Index(p) \in {cmd[p].row.rowid, HostIP}
      BY <3>1 DEF Index
    <3>4. rows' = rows
      <4>1. ~At(p, "register") /\ ~At(p, "save") /\ ~At(p, "unrow")
        BY <2>2 DEF At
      <4>2. Outcome(p)
        BY Outcomes
      <4> QED
        BY <4>1, <4>2 DEF Outcome
    <3> QED
      BY <2>1, <2>2, <3>2, <3>3, <3>4 DEF HasIndex, Present
  <2>3. CASE ~At(p, "dns")
    BY <2>1, <2>3
  <2> QED
    BY <2>2, <2>3
<1>3. CASE m = cmd[p].name /\ dns'[Fqdn[m]] = dns[Fqdn[m]]
  <2>1. CASE dns[Fqdn[m]] \in {0, HostIP}
    BY <1>3, <2>1
  <2>2. CASE HasIndex(m, dns[Fqdn[m]]) /\ dns[Fqdn[m]] \notin {0, HostIP}
    <3>1. CASE rows' = rows
      BY <1>3, <2>2, <3>1 DEF HasIndex, Present
    <3>2. ~At(p, "register")
      <4> SUFFICES ASSUME At(p, "register") PROVE FALSE
        OBVIOUS
      <4>1. /\ OwnsRow(cmd[p]) /\ cmd[p].op \in {"deploy", "clone", "load"}
            /\ NextStep(p) \in ToSet(cmd[p].todo) /\ NextStep(p)[1] = "register"
        BY AtStep DEF Users
      <4>2. ~Present(rows, cmd[p].name)
        BY <4>1 DEF OwnsRow, Has, Ops
      <4> QED
        BY <1>3, <2>2, <4>2 DEF HasIndex, Present
    <3>3. CASE At(p, "save") /\ rows' = [rows EXCEPT ![cmd[p].name] = cmd[p].row]
      <4>0. cmd[p].op # "daemon"
        BY <3>3, AtStep DEF Users
      <4>1. HasIndex(cmd[p].name, cmd[p].row.rowid)
        BY <3>3, <4>0, OwnRow
      <4>2. rows'[m] = cmd[p].row
        BY <1>0, <1>3, <3>3
      <4> QED
        BY <1>3, <2>2, <4>1, <4>2 DEF HasIndex, Present
    <3>4. CASE At(p, "unrow")
      <4>1. cmd[p].op # "push"
        <5>1. cmd[p].op \in Commands \cup {"none"}
          BY DEF NamesFollow
        <5> QED
          BY <5>1 DEF NamesAreRemoved
      <4> QED
        BY <1>3, <2>2, <3>4, <4>1, UnrowUnnamed DEF NamesFollow
    <3> QED
      BY <3>1, <3>2, <3>3, <3>4, Outcomes DEF Outcome
  <2> QED
    BY <1>0, <2>1, <2>2
<1>4. Fqdn[m] \in Hosts
  BY HostsAssumption DEF HostsOf
<1>5. CASE m = cmd[p].name /\ dns'[Fqdn[m]] # dns[Fqdn[m]]
  <2>1. ASSUME NEW i, Key(p) \in Hosts, dns' = [dns EXCEPT ![Key(p)] = i] PROVE Key(p) = Fqdn[m]
    BY <1>0, <1>4, <1>5, <2>1
  <2> QED
    BY <1>2, <1>5, <2>1, RecordEffect
<1> QED
  BY <1>1, <1>3, <1>5

LEMMA NamesGoOn ==
    ASSUME Core, Core', OpensPorts, NamesFollow, NamesAreRemoved, NEW p \in Procs, DoStep(p)
    PROVE  NamesFollow'
<1>1. NameLeadsToOwner'
  BY NamesOwned
<1>2. ASSUME NEW q \in Procs, q # p
      PROVE  /\ cmd'[q].op \in Commands \cup {"none"}
             /\ \A step \in ToSet(cmd'[q].todo) :
                   step[1] = "undns" => step = <<"undns", Fqdn[cmd'[q].name]>>
             /\ Unnamed(cmd'[q]) => dns'[Fqdn[cmd'[q].name]] \in {0, HostIP}
  <2>1. cmd'[q] = cmd[q]
    BY <1>2, OnlyOwn
  <2>2. ASSUME Unnamed(cmd[q]) PROVE dns'[Fqdn[cmd[q].name]] = dns[Fqdn[cmd[q].name]]
    <3>1. cmd[q].op \in {"destroy", "deploy", "clone"}
      BY <2>2 DEF Unnamed
    <3>2. cmd[q] # Idle
      BY <3>1 DEF Idle
    <3>3. cmd[q].name \in Names
      BY <3>1, <3>2 DEF Core, Shaped
    <3>4. cmd[q].name # cmd[p].name
      BY <1>2, <3>3, NoneAssumption DEF Core, OnePerProject
    <3> QED
      BY <3>3, <3>4, OtherRecord
  <2> QED
    BY <2>1, <2>2 DEF NamesFollow
<1> DEFINE n == cmd[p].name
           todo == cmd[p].todo
<1>3. cmd'[p].op \in Commands \cup {"none"}
  BY StillThere DEF NamesFollow
<1>4. ASSUME NEW step \in ToSet(cmd'[p].todo), step[1] = "undns"
      PROVE  step = <<"undns", Fqdn[cmd'[p].name]>>
  <2>1. cmd'[p].todo # <<>>
    BY <1>4 DEF ToSet
  <2>2. cmd'[p].name = n
    BY <2>1, StillThere
  <2>3. step \in ToSet(todo)
    <3>1. CASE GoesOn(p)
      <4>1. PICK kind : At(p, kind)
        BY TakesStep
      <4> QED
        BY <1>4, <3>1, <4>1, TailFollows, LastingHas DEF GoesOn
    <3>2. CASE Reopen(p) /\ Lasting(cmd'[p].todo) = {<<"forward", Key(p), NextStep(p)[3]>>}
                                                       \cup Lasting(Tail(cmd[p].todo))
      <4>1. At(p, "open")
        BY <3>2 DEF Reopen
      <4>2. step \in Lasting(cmd'[p].todo) /\ step # <<"forward", Key(p), NextStep(p)[3]>>
        BY <1>4 DEF Lasting
      <4>3. step \in ToSet(Tail(todo))
        BY <3>2, <4>2 DEF Lasting
      <4> QED
        BY <4>1, <4>3, TailFollows
    <3>3. CASE CleansUp(p)
      <4>1. \A x : ToSet(<<x>>) = {x}
        BY DEF ToSet
      <4>2. CASE cmd'[p].todo = << <<"unrow">> >>
        <5>1. step = <<"unrow">>
          BY <1>4, <4>1, <4>2
        <5> QED
          BY <1>4, <5>1
      <4>3. ASSUME NEW port, cmd'[p].todo = << ClosePort(port, Own) >>
            PROVE  FALSE
        <5>1. step = <<"unforward", port, Own>>
          BY <1>4, <4>1, <4>3 DEF ClosePort
        <5> QED
          BY <1>4, <5>1
      <4> QED
        BY <3>3, <4>2, <4>3 DEF CleansUp
    <3> QED
      BY <2>1, <3>1, <3>2, <3>3, Outcomes DEF Outcome, Ends
  <2> QED
    BY <1>4, <2>2, <2>3 DEF NamesFollow
<1>5. ASSUME Unnamed(cmd'[p]) PROVE dns'[Fqdn[cmd'[p].name]] \in {0, HostIP}
  <2>1. cmd'[p].op = cmd[p].op /\ cmd'[p].name = n /\ cmd'[p].op \in {"destroy", "deploy", "clone"}
    BY <1>5, StillThere DEF Unnamed
  <2>2. n \in Names /\ cmd[p] # Idle /\ Fqdn[n] \in Hosts
    <3>1. Idle.op = "none"
      BY DEF Idle
    <3>2. n \in Names => Fqdn[n] \in Hosts
      BY HostsAssumption DEF HostsOf
    <3> QED
      BY <2>1, <3>1, <3>2 DEF Core, Shaped
  <2>3. dns \in [Hosts -> Nat \cup {HostIP}]
    BY DEF Core, TypeOK
  \* The steps left were there before.
  <2>4. ASSUME GoesOn(p), NEW kind, kind \notin {"serve", "route"}
        PROVE  Has(cmd'[p].todo, kind) <=> Has(Tail(todo), kind)
    BY <2>4, LastingHas DEF GoesOn
  <2>5. PICK head : At(p, head)
    BY TakesStep
  <2>6. CASE cmd[p].op = "destroy"
    <3>1. Has(cmd'[p].todo, "unrow") /\ ~Has(cmd'[p].todo, "undns")
      BY <1>5, <2>1, <2>6 DEF Unnamed
    <3>2. GoesOn(p)
      <4>1. ~Reopen(p)
        BY <2>6, AtStep DEF Reopen, Users
      <4>2. cmd'[p].todo # <<>>
        BY <3>1 DEF Has, ToSet
      <4> QED
        BY <2>6, <4>1, <4>2, Outcomes DEF Outcome, Ends, CleansUp
    <3>3. Has(todo, "unrow") /\ ~Has(Tail(todo), "undns")
      BY <2>4, <2>5, <3>1, <3>2, HasTail
    <3>4. ~At(p, "dns")
      BY <2>6, AtStep DEF Users
    <3>5. CASE At(p, "undns")
      <4>1. Key(p) = Fqdn[n]
        <5>1. NextStep(p) \in ToSet(todo) /\ NextStep(p)[1] = "undns"
          BY <3>5, AtStep
        <5>2. NextStep(p) = <<"undns", Fqdn[n]>>
          BY <5>1 DEF NamesFollow
        <5> QED
          BY <5>2 DEF Key
      <4>2. ~MayFailAt(p, "undns")
        BY <2>6 DEF MayFailAt, NamesAreRemoved
      <4>3. dns' = [dns EXCEPT ![Key(p)] = 0]
        BY <3>4, <3>5, <4>2, RecordEffect
      <4> QED
        BY <2>1, <2>2, <2>3, <4>1, <4>3
    <3>6. CASE ~At(p, "undns")
      <4>1. dns' = dns
        BY <3>4, <3>6, RecordEffect
      <4>2. ~Has(todo, "undns")
        BY <2>5, <3>3, <3>6, HasTail
      <4> QED
        BY <2>1, <2>6, <3>3, <4>1, <4>2 DEF NamesFollow, Unnamed
    <3> QED
      BY <3>5, <3>6
  <2>7. CASE cmd[p].op \in {"deploy", "clone"}
    <3>1. PICK kind \in {"register", "boot", "save", "unrow"} : Has(cmd'[p].todo, kind)
      BY <1>5, <2>1, <2>7 DEF Unnamed
    <3>2. Unnamed(cmd[p]) /\ ~At(p, "dns")
      <4>1. CASE Has(Tail(todo), kind)
        <5>1. Has(todo, kind)
          BY <2>5, <4>1, HasTail
        <5>2. ~At(p, "dns")
          BY <2>7, <4>1, TailFollows, AtStep DEF Has, Follows
        <5> QED
          BY <2>7, <5>1, <5>2 DEF Unnamed
      <4>2. CASE GoesOn(p)
        BY <2>4, <3>1, <4>1, <4>2
      <4>3. CASE Reopen(p) /\ Lasting(cmd'[p].todo) = {<<"forward", Key(p), NextStep(p)[3]>>}
                                                         \cup Lasting(Tail(cmd[p].todo))
        <5>1. PICK step \in ToSet(cmd'[p].todo) : step[1] = kind
          BY <3>1 DEF Has
        <5>2. step \in Lasting(cmd'[p].todo) /\ step # <<"forward", Key(p), NextStep(p)[3]>>
          BY <5>1 DEF Lasting
        <5>3. step \in ToSet(Tail(todo))
          BY <4>3, <5>2 DEF Lasting
        <5> QED
          BY <4>1, <5>1, <5>3 DEF Has
      <4>4. CASE CleansUp(p)
        <5>1. PICK k \in {"boot", "save"} : At(p, k)
          BY <2>7, <4>4 DEF CleansUp
        <5>2. Has(todo, k) /\ ~At(p, "dns")
          BY <5>1, HasTail DEF At
        <5> QED
          BY <2>7, <5>1, <5>2 DEF Unnamed
      <4>5. cmd'[p].todo # <<>>
        BY <3>1 DEF Has, ToSet
      <4> QED
        BY <4>2, <4>3, <4>4, <4>5, Outcomes DEF Outcome, Ends
    <3>3. ~At(p, "undns")
      BY <2>7, AtStep DEF Users
    <3>4. dns' = dns
      BY <3>2, <3>3, RecordEffect
    <3> QED
      BY <2>1, <3>2, <3>4 DEF NamesFollow
  <2> QED
    BY <2>1, <2>6, <2>7
<1> QED
  BY <1>1, <1>2, <1>3, <1>4, <1>5 DEF NamesFollow, Unnamed

\* Whatever else fails, and however commands for different projects interleave,
\* a name leads to no VM or to that of its project: an index is given away only
\* with the row, and the row only goes after the record, or before there is one.
THEOREM NamesHaveOwners == ASSUME NamesAreRemoved PROVE Spec => []NameLeadsToOwner
<1>1. Init => NamesFollow
  <2> SUFFICES ASSUME Init PROVE NamesFollow
    OBVIOUS
  <2>1. ASSUME NEW n \in Names PROVE dns[Fqdn[n]] = 0
    BY HostsAssumption DEF Init, HostsOf
  <2>2. \A p \in Procs : cmd[p] = Idle
    BY DEF Init
  <2>3. Idle.op = "none" /\ ToSet(Idle.todo) = {} /\ ~Unnamed(Idle)
    BY DEF Idle, ToSet, Unnamed
  <2> QED
    BY <2>1, <2>2, <2>3 DEF NamesFollow, NameLeadsToOwner
<1>2. NamesFollow /\ (Core /\ OpensPorts) /\ (Core /\ OpensPorts)' /\ [Next]_vars => NamesFollow'
  <2> SUFFICES ASSUME NamesFollow, Core, Core', OpensPorts, [Next]_vars PROVE NamesFollow'
    OBVIOUS
  <2>1. ASSUME NEW p \in Procs, BeginCommand(p) PROVE NamesFollow'
    BY <2>1, NamesBegin
  <2>2. ASSUME NEW p \in Procs, DoStep(p) PROVE NamesFollow'
    BY <2>2, NamesGoOn
  <2>3. CASE Reboot \/ UNCHANGED vars
    <3>1. rows' = rows /\ cmd' = cmd /\ dns' = dns
      BY <2>3 DEF Reboot, vars
    <3> QED
      BY <3>1 DEF NamesFollow, NameLeadsToOwner, HasIndex, Present, Unnamed
  <2> QED
    BY <2>1, <2>2, <2>3 DEF Next
<1>3. NamesFollow => NameLeadsToOwner
  BY DEF NamesFollow
<1> QED
  BY <1>1, <1>2, <1>3, CoreInv, PTL DEF Spec

-----------------------------------------------------------------------------
(* Rules have owners, and are the ones that the store records. *)

\* What a command knows of the ports of its project.
KnowsPorts(c) ==
    /\ c.op \in Commands \cup {"none"}
    /\ c.op = "load" => c.row.ports = {}
    /\ /\ c.op \in {"deploy", "clone", "load"}
       /\ \E kind \in {"register", "boot", "save", "unrow"} : Has(c.todo, kind)
       => rows[c.name].ports = {}
    /\ c.op \in {"freeze", "unfreeze", "route add", "route remove", "unexpose"}
          => c.row.ports = rows[c.name].ports
    /\ c.op = "port close" => c.row.ports \subseteq rows[c.name].ports
    /\ c.op # "daemon" =>
          \A step \in ToSet(c.todo) :
             step[1] \in {"open", "forward"} => Has(c.todo, "save") /\ step[2] \in c.row.ports

\* c accounts for a rule for its project on that port.
Accounts(c, port) ==
    \/ ClosePort(port, Own) \in ToSet(c.todo)
    \/ /\ Has(c.todo, "save") /\ port \in c.row.ports
       /\ c.op \in {"deploy", "clone"} => ~Has(c.todo, "boot")
    \/ ~Has(c.todo, "save") /\ ~Has(c.todo, "unrow") /\ port \in rows[c.name].ports

RulesKnown ==
    /\ ForwardsHaveOwner
    /\ \A n \in Names, port \in Ports :
          Present(rows, n) /\ rows[n].rowid \in ToSet(rules[port]) =>
             /\ Quiet(n) => port \in rows[n].ports
             /\ \A p \in Procs : cmd[p].name = n => Accounts(cmd[p], port)
    /\ \A p \in Procs : KnowsPorts(cmd[p])

\* Rules as sets.
LEMMA RuleEffect ==
    ASSUME Core, Core', Once, PortsAreRecorded, NEW p \in Procs, DoStep(p)
    PROVE  \/ /\ \E kind \in {"open", "unforward"} : At(p, kind)
              /\ \A port \in Ports :
                    ToSet(rules'[port]) = IF port = Key(p) THEN ToSet(rules[port]) \ {Index(p)}
                                                           ELSE ToSet(rules[port])
           \/ /\ At(p, "forward")
              /\ \A port \in Ports :
                    ToSet(rules'[port]) = IF port = Key(p) THEN ToSet(rules[port]) \cup {Index(p)}
                                                           ELSE ToSet(rules[port])
           \/ /\ rules' = rules /\ ~At(p, "open") /\ ~At(p, "unforward")
              /\ At(p, "forward") => MayFailAt(p, "forward")
<1>0. rules \in [Ports -> Seq(Nat)]
  BY DEF Core, TypeOK
<1>1. ASSUME NEW kind \in {"open", "unforward"}, At(p, kind), rules' = Deleted(p)
      PROVE  \A port \in Ports :
                ToSet(rules'[port]) = IF port = Key(p) THEN ToSet(rules[port]) \ {Index(p)}
                                                       ELSE ToSet(rules[port])
  <2>1. /\ Key(p) \in Ports
        /\ rules'[Key(p)] = RemoveFirst(rules[Key(p)], Index(p))
        /\ \A port \in Ports : port # Key(p) => rules'[port] = rules[port]
    BY <1>1, DeletedType, StepData
  <2>2. ToSet(rules'[Key(p)]) = ToSet(rules[Key(p)]) \ {Index(p)}
    BY <1>0, <2>1, RemovedFirst DEF Once, ForwardedOnce
  <2> QED
    BY <2>1, <2>2
<1>2. ASSUME At(p, "forward"), rules' = [rules EXCEPT ![Key(p)] = <<Index(p)>> \o @]
      PROVE  \A port \in Ports :
                ToSet(rules'[port]) = IF port = Key(p) THEN ToSet(rules[port]) \cup {Index(p)}
                                                       ELSE ToSet(rules[port])
  <2>1. Key(p) \in Ports /\ Index(p) \in Nat
    BY <1>2, StepData
  <2>2. /\ rules'[Key(p)] = <<Index(p)>> \o rules[Key(p)]
        /\ \A port \in Ports : port # Key(p) => rules'[port] = rules[port]
    BY <1>0, <1>2, <2>1
  <2>3. ToSet(<<Index(p)>> \o rules[Key(p)]) = {Index(p)} \cup ToSet(rules[Key(p)])
    BY <1>0, <2>1, Prepended
  <2> QED
    BY <2>2, <2>3
<1>3. CASE Reopen(p) \/ Unforward(p)
  <2>1. PICK kind \in {"open", "unforward"} : At(p, kind)
    BY <1>3 DEF Reopen, Unforward
  <2>2. cmd[p].op \in Ops
    BY <2>1, AtStep
  <2>3. rules' = Deleted(p)
    BY <1>3, <2>2 DEF Reopen, Unforward, DeleteRule, MayFailAt, PortsAreRecorded, RulesAreReplaced
  <2> QED
    BY <1>1, <2>1, <2>3
<1>4. CASE Forward(p)
  <2>1. At(p, "forward") /\ ~At(p, "open") /\ ~At(p, "unforward")
    BY <1>4 DEF Forward, At
  <2>2. \/ rules' = [rules EXCEPT ![Key(p)] = <<Index(p)>> \o @]
        \/ rules' = rules /\ MayFailAt(p, "forward")
    BY <1>4 DEF Forward
  <2> QED
    BY <1>2, <2>1, <2>2
<1>5. CASE ~Reopen(p) /\ ~Unforward(p) /\ ~Forward(p)
  <2>1. rules' = rules
    BY <1>5, RulesStay
  <2>2. ~At(p, "open") /\ ~At(p, "unforward") /\ ~At(p, "forward")
    BY <1>5, StepIs DEF At
  <2> QED
    BY <2>1, <2>2
<1> QED
  BY <1>3, <1>4, <1>5

\* What a command knows of the ports it keeps.
LEMMA RowPorts ==
    ASSUME Core, PortsAreRecorded, NEW p \in Procs, DoStep(p), cmd'[p].todo # <<>>
    PROVE  cmd'[p].row.ports = cmd[p].row.ports
<1>0. Idle.todo = <<>>
  BY DEF Idle
<1>1. \A s : Continue(p, [cmd[p] EXCEPT !.todo = s]) => cmd'[p].row = cmd[p].row
  BY <1>0, Continued
<1>2. CASE Register(p)
  <2>1. ASSUME NEW r, Continue(p, [cmd[p] EXCEPT !.todo = Tail(@), !.row.rowid = r])
        PROVE  cmd'[p].row.ports = cmd[p].row.ports
    <3> DEFINE c == [cmd[p] EXCEPT !.todo = Tail(@), !.row.rowid = r]
    <3>1. cmd[p] \in Command /\ cmd \in [Procs -> Command]
      BY DEF Core, TypeOK
    <3>2. c.row.ports = cmd[p].row.ports
      BY <3>1 DEF Command, Project
    <3>3. cmd'[p] = IF c.todo = <<>> THEN Idle ELSE c
      BY <2>1, <3>1 DEF Continue
    <3> HIDE DEF c
    <3> QED
      BY <1>0, <3>2, <3>3
  <2> QED
    BY Zenon, <1>1, <1>2, <2>1 DEF Register, GiveUp
<1>3. CASE Boot(p) \/ Serve(p) \/ Route(p)
  BY <1>1, <1>3 DEF Boot, Serve, Route, GiveUp, Advance, RouteFails
<1>4. CASE FindNoServer(p) \/ Reopen(p)
  BY <1>1, <1>4 DEF FindNoServer, Reopen
<1>5. CASE Unroute(p) \/ Record(p) \/ Unforward(p) \/ Unrow(p) \/ Ready(p)
  BY <1>1, <1>5 DEF Unroute, Record, Unforward, Unrow, Ready, Advance
<1>6. CASE Forward(p)
  <2>1. ~(cmd[p].op = "deploy" /\ MayFailAt(p, "forward"))
    BY DEF PortsAreRecorded, MayFailAt
  <2>2. Advance(p) \/ GiveUp(p, <<>>)
    BY <1>6, <2>1 DEF Forward
  <2> QED
    BY <1>1, <2>2 DEF Advance, GiveUp
<1>7. CASE Save(p)
  BY <1>1, <1>7 DEF Save, Advance, GiveUp
<1> QED
  BY <1>2, <1>3, <1>4, <1>5, <1>6, <1>7 DEF DoStep

LEMMA IdleKnows == KnowsPorts(Idle) /\ KnowsPorts(Idle)'
  BY DEF KnowsPorts, Idle, ToSet

LEMMA KnowsBegins ==
    ASSUME Core, Core', NEW p \in Procs, BeginCommand(p)
    PROVE  KnowsPorts(cmd[p])'
<1>1. rows' = rows
  BY OnlyOwnBegins
<1>2. PICK c : c = cmd'[p]
  OBVIOUS
<1>3. Started(c) /\ c.op \in Commands
  BY <1>2, Beginning, GivenCommands
<1> SUFFICES KnowsPorts(c)
  BY <1>1, <1>2 DEF KnowsPorts
<1>4. c.op # "none" /\ rows \in [Names -> Project]
  BY <1>3 DEF Started, Core, TypeOK
<1>5. Shaped(c)
  <2>1. c = Idle \/ Shaped(c)
    BY <1>2 DEF Core
  <2>2. Idle.op = "none"
    BY DEF Idle
  <2> QED
    BY <1>4, <2>1, <2>2
<1>6. c.op = "load" => c.row.ports = {}
  BY <1>3 DEF Started, Making, NoProject
<1>7. c.op \in {"deploy", "clone", "load"} => rows[c.name].ports = {}
  <2> SUFFICES ASSUME c.op \in {"deploy", "clone", "load"} PROVE rows[c.name].ports = {}
    OBVIOUS
  <2>1. c.name \in Names /\ ~Present(rows, c.name)
    BY <1>3 DEF Started
  <2>2. rows[c.name] = NoProject
    BY <2>1 DEF Core, RowsAreProjects
  <2> QED
    BY <2>2 DEF NoProject
<1>8. c.op \in {"freeze", "unfreeze", "route add", "route remove", "unexpose"}
         => c.row.ports = rows[c.name].ports
  <2> SUFFICES ASSUME c.op \in {"freeze", "unfreeze", "route add", "route remove", "unexpose"}
               PROVE  c.row.ports = rows[c.name].ports
    OBVIOUS
  <2>1. rows[c.name] \in Project
    BY <1>4, <1>5 DEF Shaped
  <2>2. CASE c.op \in {"freeze", "unfreeze"}
    BY Zenon, <1>3, <2>1, <2>2 DEF Started, Project
  <2>3. CASE c.op = "route add"
    <3>1. PICK h \in HostsOf(c.name) :
             c.row = [rows[c.name] EXCEPT !.status = "running", !.expose = TRUE, !.domain = h]
      BY <1>3, <2>3 DEF Started
    <3> QED
      BY <2>1, <3>1 DEF Project
  <2>4. CASE c.op \in {"route remove", "unexpose"}
    <3>1. c.row = Unexposed(rows[c.name]) \/ c.row = rows[c.name]
      BY <1>3, <2>4 DEF Started
    <3> QED
      BY <2>1, <3>1 DEF Unexposed, Project
  <2> QED
    BY <2>2, <2>3, <2>4
<1>9. ASSUME c.op = "port close" PROVE c.row.ports \subseteq rows[c.name].ports
  <2>1. PICK port \in Ports : c.row = [rows[c.name] EXCEPT !.ports = @ \ {port}]
    BY <1>3, <1>9 DEF Started
  <2>2. rows[c.name] \in Project
    BY <1>4, <1>5, <1>9 DEF Shaped
  <2> QED
    BY <2>1, <2>2 DEF Project
<1>10. ASSUME c.op # "daemon", NEW step \in ToSet(c.todo), step[1] \in {"open", "forward"}
       PROVE  Has(c.todo, "save") /\ step[2] \in c.row.ports
  <2>1. c.op \in {"deploy", "clone", "port open"}
    <3>1. Fits(step, c.op, c.name)
      BY <1>5 DEF Shaped
    <3> QED
      BY <1>10, <3>1 DEF Fits, Users
  <2>2. <<"save">> \in ToSet(c.todo)
    BY <1>3, <2>1 DEF Started
  <2>3. Has(c.todo, "save")
    BY <2>2 DEF Has
  <2>4. CASE c.op \in {"deploy", "clone"}
    <3>1. PICK port \in BOOLEAN, h \in HostsOf(c.name) :
             ToSet(c.todo) = {<<"register">>, <<"boot">>, <<"save">>, <<"dns", Fqdn[c.name], Own>>}
                                \cup {y \in {<<"route", h, Own>>} : port}
                                \cup {OpenPort(x, Own) : x \in c.row.ports}
      BY <1>3, <2>4 DEF Started
    <3>2. \/ step \in {<<"register">>, <<"boot">>, <<"save">>}
          \/ step = <<"dns", Fqdn[c.name], Own>>
          \/ step = <<"route", h, Own>>
          \/ \E x \in c.row.ports : step = <<"open", x, Own>>
      BY <3>1 DEF OpenPort
    <3>3. PICK x \in c.row.ports : step = <<"open", x, Own>>
      BY <1>10, <3>2
    <3> QED
      BY <2>3, <3>3
  <2>5. CASE c.op = "port open"
    <3>1. PICK port \in Ports : /\ c.row = [rows[c.name] EXCEPT !.ports = @ \cup {port}]
                                /\ ToSet(c.todo) = {OpenPort(port, Own), <<"save">>}
      BY <1>3, <2>5 DEF Started
    <3>2. step = <<"open", port, Own>> \/ step = <<"save">>
      BY <3>1 DEF OpenPort
    <3>3. step[2] = port
      BY <1>10, <3>2
    <3>4. c.name \in Names
      BY <1>5, <2>5 DEF Shaped
    <3>5. port \in c.row.ports
      BY <1>4, <3>1, <3>4 DEF Project
    <3> QED
      BY <2>3, <3>3, <3>5
  <2> QED
    BY <2>1, <2>4, <2>5
<1> QED
  BY <1>3, <1>6, <1>7, <1>8, <1>9, <1>10 DEF KnowsPorts

\* What p leaves to do, it had to do before, but for its clean-up.
LEMMA LeftBefore ==
    ASSUME Core, OpensPorts, NEW p \in Procs, DoStep(p), ~CleansUp(p),
           NEW step \in ToSet(cmd'[p].todo), step[1] \notin {"serve", "route", "forward"}
    PROVE  step \in ToSet(Tail(cmd[p].todo))
<1>1. cmd'[p].todo # <<>> /\ step \in Lasting(cmd'[p].todo)
  BY DEF ToSet, Lasting
<1>2. step # <<"forward", Key(p), NextStep(p)[3]>>
  OBVIOUS
<1>3. step \in Lasting(Tail(cmd[p].todo))
  <2>1. CASE GoesOn(p)
    BY <1>1, <2>1 DEF GoesOn
  <2>2. CASE Lasting(cmd'[p].todo) = {<<"forward", Key(p), NextStep(p)[3]>>}
                                        \cup Lasting(Tail(cmd[p].todo))
    BY <1>1, <1>2, <2>2
  <2> QED
    BY <1>1, <2>1, <2>2, Outcomes DEF Outcome, Ends
<1> QED
  BY <1>3 DEF Lasting

\* A step that was left is still left, unless the command gives up.
LEMMA LeftStill ==
    ASSUME Core, OpensPorts, NEW p \in Procs, DoStep(p), cmd'[p].todo # <<>>, ~CleansUp(p),
           NEW step \in ToSet(Tail(cmd[p].todo)), step[1] \notin {"serve", "route"}
    PROVE  step \in ToSet(cmd'[p].todo)
<1>1. step \in Lasting(Tail(cmd[p].todo))
  BY DEF Lasting
<1>2. Lasting(Tail(cmd[p].todo)) \subseteq Lasting(cmd'[p].todo)
  BY Outcomes DEF Outcome, Ends, GoesOn
<1> QED
  BY <1>1, <1>2 DEF Lasting

LEMMA Singleton == \A x : ToSet(<<x>>) = {x}
  BY DEF ToSet

LEMMA KnowsGoesOn ==
    ASSUME Core, Core', OpensPorts, PortsAreRecorded, NEW p \in Procs, DoStep(p),
           KnowsPorts(cmd[p])
    PROVE  KnowsPorts(cmd[p])'
<1> DEFINE n == cmd[p].name
           todo == cmd[p].todo
<1>1. CASE cmd'[p].todo = <<>>
  <2>1. cmd'[p] = Idle
    BY <1>1 DEF Core, Shaped
  <2> QED
    BY <2>1, IdleKnows DEF KnowsPorts
<1>2. CASE cmd'[p].todo # <<>>
  <2>1. /\ cmd'[p].op = cmd[p].op /\ cmd'[p].name = n
        /\ cmd'[p].row.ports = cmd[p].row.ports
    BY <1>2, StillThere, RowPorts
  <2>2. PICK head : At(p, head)
    BY TakesStep
  <2>3. Outcome(p) /\ rows \in [Names -> Project]
    BY Outcomes DEF Core, TypeOK
  <2>4. cmd[p].op # "daemon" => n \in Names
    BY <2>2, AtStep
  \* A kind of step that is left was left before.
  <2>5. ASSUME ~CleansUp(p), NEW kind \in {"register", "boot", "save", "unrow"},
               Has(cmd'[p].todo, kind)
        PROVE  Has(Tail(todo), kind) /\ Has(todo, kind)
    <3>1. PICK step \in ToSet(cmd'[p].todo) : step[1] = kind
      BY <2>5 DEF Has
    <3>2. step \in ToSet(Tail(todo))
      BY <2>5, <3>1, LeftBefore
    <3> QED
      BY <2>2, <3>1, <3>2, HasTail DEF Has
  <2>6. ASSUME cmd[p].op \in {"deploy", "clone", "load"},
               NEW kind \in {"register", "boot", "save", "unrow"}, Has(cmd'[p].todo, kind)
        PROVE  rows'[n].ports = {}
    <3>1. rows[n].ports = {}
      <4>1. CASE CleansUp(p)
        <5>1. PICK k \in {"boot", "save"} : At(p, k)
          BY <2>6, <4>1 DEF CleansUp
        <5>2. Has(todo, k)
          BY <5>1, HasTail
        <5> QED
          BY <2>6, <5>2 DEF KnowsPorts
      <4>2. CASE ~CleansUp(p)
        <5>1. Has(todo, kind)
          BY <2>5, <2>6, <4>2
        <5> QED
          BY <2>6, <5>1 DEF KnowsPorts
      <4> QED
        BY <4>1, <4>2
    <3>2. CASE Registers(p)
      <4>1. PICK r : rows' = [rows EXCEPT ![n] = [NoProject EXCEPT !.rowid = r,
                                                                 !.status = "creating"]]
        BY <3>2 DEF Registers
      <4>2. rows'[n] = [NoProject EXCEPT !.rowid = r, !.status = "creating"]
        BY <2>3, <2>4, <2>6, <4>1
      <4> QED
        BY <4>2 DEF NoProject
    <3>3. ~(At(p, "save") /\ GoesOn(p))
      <4> SUFFICES ASSUME At(p, "save"), GoesOn(p) PROVE FALSE
        OBVIOUS
      <4>1. Has(Tail(todo), kind)
        BY <2>6, LastingHas DEF GoesOn
      <4> QED
        BY <4>1, AfterSave DEF Has
    <3> QED
      BY <1>2, <2>3, <3>1, <3>2, <3>3 DEF Outcome
  <2>7. ASSUME cmd[p].op \in {"freeze", "unfreeze", "route add", "route remove", "unexpose", "port close"}
        PROVE  rows'[n] = rows[n] \/ rows'[n].ports = cmd[p].row.ports
    <3>1. ~At(p, "register") /\ ~At(p, "unrow")
      BY <2>7, AtStep DEF Users
    <3>2. CASE rows' = [rows EXCEPT ![n] = cmd[p].row]
      BY <2>3, <2>4, <2>7, <3>2
    <3> QED
      BY <2>3, <3>1, <3>2 DEF Outcome
  <2>8. ASSUME cmd[p].op # "daemon", NEW step \in ToSet(cmd'[p].todo),
               step[1] \in {"open", "forward"}
        PROVE  Has(cmd'[p].todo, "save") /\ step[2] \in cmd[p].row.ports
    <3>1. ~CleansUp(p)
      <4> SUFFICES ASSUME CleansUp(p) PROVE FALSE
        OBVIOUS
      <4>1. CASE cmd'[p].todo = << <<"unrow">> >>
        <5>1. step = <<"unrow">>
          BY <2>8, <4>1, Singleton
        <5> QED
          BY <2>8, <5>1
      <4>2. ASSUME NEW port, cmd'[p].todo = << ClosePort(port, Own) >>
            PROVE  FALSE
        <5>1. step = <<"unforward", port, Own>>
          BY <2>8, <4>2, Singleton DEF ClosePort
        <5> QED
          BY <2>8, <5>1
      <4> QED
        BY <4>1, <4>2 DEF CleansUp
    <3>2. PICK old \in ToSet(todo) : /\ old[1] \in {"open", "forward"} /\ old[2] = step[2]
                                     /\ old = NextStep(p) \/ old \in ToSet(Tail(todo))
      <4>1. step \in Lasting(cmd'[p].todo)
        BY <2>8 DEF Lasting
      <4>2. CASE step \in ToSet(Tail(todo))
        BY <2>2, <2>8, <4>2, TailFollows
      <4>3. CASE Reopen(p) /\ step = <<"forward", Key(p), NextStep(p)[3]>>
        <5>1. At(p, "open")
          BY <4>3 DEF Reopen
        <5>2. NextStep(p) \in ToSet(todo) /\ NextStep(p)[1] = "open" /\ NextStep(p)[2] = step[2]
          BY <4>3, <5>1, AtStep DEF Key
        <5> QED
          BY <5>2
      <4>4. step \in Lasting(Tail(todo)) => step \in ToSet(Tail(todo))
        BY DEF Lasting
      <4> QED
        BY <1>2, <2>3, <3>1, <4>1, <4>2, <4>3, <4>4 DEF Outcome, GoesOn, Ends
    <3>3. Has(todo, "save") /\ step[2] \in cmd[p].row.ports
      BY <2>8, <3>2 DEF KnowsPorts
    <3>4. ~At(p, "save")
      <4> SUFFICES ASSUME At(p, "save") PROVE FALSE
        OBVIOUS
      <4>1. old # NextStep(p)
        BY <3>2, AtStep
      <4> QED
        BY <3>2, <4>1, AfterSave
    <3>5. Has(Tail(todo), "save")
      BY <2>2, <3>3, <3>4, HasTail
    <3>6. PICK save \in ToSet(Tail(todo)) : save[1] = "save"
      BY <3>5 DEF Has
    <3>7. save \in ToSet(cmd'[p].todo)
      BY <1>2, <3>1, <3>6, LeftStill
    <3> QED
      BY <3>3, <3>6, <3>7 DEF Has
  <2> QED
    BY <2>1, <2>6, <2>7, <2>8 DEF KnowsPorts
<1> QED
  BY <1>1, <1>2

\* The index of a project does not change while it has a row.
LEMMA SameIndex ==
    ASSUME Core, OpensPorts, NEW p \in Procs, DoStep(p), NEW n \in Names
    PROVE  \/ n = cmd[p].name /\ At(p, "register") /\ ~Present(rows, n) /\ Registers(p)
           \/ n = cmd[p].name /\ At(p, "unrow") /\ ~Present(rows, n)'
           \/ rows'[n].rowid = rows[n].rowid
<1>1. Outcome(p) /\ rows \in [Names -> Project]
  BY Outcomes DEF Core, TypeOK
<1>2. CASE n # cmd[p].name
  BY <1>2, OnlyOwn
<1>3. CASE n = cmd[p].name /\ At(p, "register") /\ Registers(p)
  <2>1. /\ OwnsRow(cmd[p]) /\ cmd[p].op \in {"deploy", "clone", "load"}
        /\ NextStep(p) \in ToSet(cmd[p].todo) /\ NextStep(p)[1] = "register"
    BY <1>3, AtStep DEF Users
  <2> QED
    BY <1>3, <2>1 DEF OwnsRow, Has, Ops
<1>4. CASE /\ n = cmd[p].name /\ At(p, "save")
           /\ rows' = [rows EXCEPT ![cmd[p].name] = cmd[p].row]
  <2>1. cmd[p].op # "daemon"
    BY <1>4, AtStep DEF Users
  <2>2. HasIndex(cmd[p].name, cmd[p].row.rowid)
    BY <1>4, <2>1, OwnRow
  <2>3. rows'[n] = cmd[p].row
    BY <1>1, <1>4
  <2> QED
    BY <1>4, <2>2, <2>3 DEF HasIndex
<1>5. CASE /\ n = cmd[p].name /\ At(p, "unrow")
           /\ rows' = [rows EXCEPT ![cmd[p].name] = NoProject]
  <2>1. rows'[n] = NoProject
    BY <1>1, <1>5
  <2> QED
    BY <1>5, <2>1 DEF Present, NoProject
<1> QED
  BY <1>1, <1>2, <1>3, <1>4, <1>5 DEF Outcome

\* An index that is given out leads nowhere yet.
LEMMA FreshIndex ==
    ASSUME Core, ForwardsHaveOwner, NEW r \in NextRowid(rows), NEW port \in Ports
    PROVE  r \notin ToSet(rules[port])
<1> SUFFICES ASSUME r \in ToSet(rules[port]) PROVE FALSE
  OBVIOUS
<1>1. PICK n \in Names : rows[n].rowid = r
  BY DEF ForwardsHaveOwner, HasIndex
<1>2. PICK m \in Names : r = rows[m].rowid + 1 /\ rows[n].rowid <= rows[m].rowid
  BY DEF NextRowid
<1>3. rows[n].rowid \in Nat /\ rows[m].rowid \in Nat
  BY DEF Core, TypeOK, Project
<1> QED
  BY <1>1, <1>2, <1>3

\* What is recorded of the ports of a project when its command ends, or gives up.
LEMMA RecordedAfterAll ==
    ASSUME Core, OpensPorts, PortsAreRecorded, NEW p \in Procs, DoStep(p), KnowsPorts(cmd[p]),
           NEW port \in Ports, ~At(p, "register"), Accounts(cmd[p], port), cmd[p].name \in Names,
           Ends(p) \/ CleansUp(p), rows' = rows
    PROVE  \/ port \in rows[cmd[p].name].ports /\ cmd'[p].todo # << <<"unrow">> >>
           \/ cmd'[p].todo = << ClosePort(port, Own) >>
<1> DEFINE n == cmd[p].name
           todo == cmd[p].todo
<1>1. PICK head : At(p, head)
  BY TakesStep
<1>2. Shaped(cmd[p]) /\ cmd[p].op \in Users(head) /\ NextStep(p)[1] = head
         /\ NextStep(p) \in ToSet(todo)
  BY <1>1, AtStep
\* The ports of a row to save.
<1>3. ASSUME Has(todo, "save"), cmd[p].op \in Users("save"), port \in cmd[p].row.ports,
             cmd[p].op \notin {"deploy", "clone", "port open"}
      PROVE  port \in rows[n].ports
  BY <1>3 DEF KnowsPorts, Users, Ops
<1>4. Has(todo, "save") => cmd[p].op \in Users("save")
  BY <1>2 DEF Shaped, Has, Fits
<1>5. CASE Ends(p)
  <2>1. cmd'[p].todo = <<>> /\ << <<"unrow">> >> # <<>>
    BY <1>5 DEF Ends
  <2>2. port \in rows[n].ports
    <3>1. CASE ClosePort(port, Own) \in ToSet(todo)
      <4>1. cmd[p].op \in {"destroy", "port open", "port close"}
        <5>1. ClosePort(port, Own)[1] = "unforward"
          BY DEF ClosePort
        <5> QED
          BY <1>2, <3>1, <5>1 DEF Shaped, Fits, Users
      <4>2. ~At(p, "boot")
        BY <4>1, AtStep DEF Users
      <4>3. ~At(p, "save")
        <5> SUFFICES ASSUME At(p, "save") PROVE FALSE
          OBVIOUS
        <5>1. ClosePort(port, Own)[1] = "unforward"
          BY DEF ClosePort
        <5>2. ClosePort(port, Own) \in ToSet(Tail(todo))
          BY <1>2, <3>1, <5>1, TailFollows, AtStep
        <5> QED
          BY <5>1, <5>2, AfterSave
      <4>4. ~MayFailAt(p, "forward") \/ cmd[p].op # "port open"
        BY DEF MayFailAt, PortsAreRecorded
      <4> QED
        BY <1>5, <4>1, <4>2, <4>3, <4>4 DEF Ends
    <3>2. CASE /\ Has(todo, "save") /\ port \in cmd[p].row.ports
               /\ cmd[p].op \in {"deploy", "clone"} => ~Has(todo, "boot")
      <4>1. cmd[p].op \notin {"deploy", "clone", "port open"}
        <5>1. ~MayFailAt(p, "forward") \/ cmd[p].op # "port open"
          BY DEF MayFailAt, PortsAreRecorded
        <5>2. At(p, "boot") => cmd[p].op # "port open"
          BY AtStep DEF Users
        <5> QED
          BY <1>5, <5>1, <5>2 DEF Ends
      <4> QED
        BY <1>3, <1>4, <3>2, <4>1
    <3>3. CASE ~Has(todo, "save") /\ ~Has(todo, "unrow") /\ port \in rows[n].ports
      BY <3>3
    <3> QED
      BY <3>1, <3>2, <3>3 DEF Accounts
  <2> QED
    BY <2>1, <2>2
<1>6. CASE cmd[p].op \in {"deploy", "clone"} /\ CleansUp(p)
  <2>1. At(p, "boot")
    <3>1. ~MayFailAt(p, "save")
      BY <1>6 DEF MayFailAt, PortsAreRecorded
    <3> QED
      BY <1>6, <3>1 DEF CleansUp
  <2>2. Has(todo, "boot") /\ rows[n].ports = {}
    <3>1. Has(todo, "boot")
      BY <2>1, HasTail
    <3> QED
      BY <1>6, <3>1 DEF KnowsPorts
  <2>3. ClosePort(port, Own) \notin ToSet(todo)
    <3>1. ClosePort(port, Own)[1] = "unforward"
      BY DEF ClosePort
    <3> QED
      BY <1>2, <1>6, <3>1 DEF Shaped, Fits, Users
  <2> QED
    BY <1>6, <2>2, <2>3 DEF Accounts
<1>7. CASE cmd[p].op \notin {"deploy", "clone"} /\ CleansUp(p)
  <2>1. PICK new \in cmd[p].row.ports \ rows[n].ports : cmd'[p].todo = << ClosePort(new, Own) >>
    BY <1>7 DEF CleansUp
  <2>2. cmd[p].op = "port open" /\ At(p, "save")
    BY <1>7 DEF CleansUp
  <2>3. PICK opened \in Ports : cmd[p].row.ports = rows[n].ports \cup {opened}
    BY <2>2 DEF OpensPorts, OpensPort
  <2>4. new = opened
    BY <2>1, <2>3
  <2>5. cmd'[p].todo # << <<"unrow">> >>
    <3>1. ClosePort(new, Own)[1] # <<"unrow">>[1]
      BY DEF ClosePort
    <3>2. << ClosePort(new, Own) >>[1] = ClosePort(new, Own) /\ << <<"unrow">> >>[1] = <<"unrow">>
      OBVIOUS
    <3> QED
      BY <2>1, <3>1, <3>2
  <2>6. Has(todo, "save") /\ port \in cmd[p].row.ports
    <3>1. Has(todo, "save")
      BY <2>2, HasTail
    <3>2. ClosePort(port, Own) \notin ToSet(todo)
      <4>1. ClosePort(port, Own)[1] = "unforward" /\ NextStep(p)[1] = "save"
        BY <2>2, AtStep DEF ClosePort
      <4>2. ClosePort(port, Own) \in ToSet(todo) => ClosePort(port, Own) \in ToSet(Tail(todo))
        BY <2>2, <4>1, TailFollows
      <4> QED
        BY <2>2, <4>1, <4>2, AfterSave
    <3> QED
      BY <3>1, <3>2 DEF Accounts
  <2>7. CASE port = new
    BY <2>1, <2>7
  <2>8. CASE port # new
    BY <2>3, <2>4, <2>5, <2>6, <2>8
  <2> QED
    BY <2>7, <2>8
<1> QED
  BY <1>5, <1>6, <1>7

\* A command's own index.
LEMMA OwnIndex ==
    ASSUME Core, NEW p \in Procs, NEW kind \in {"open", "forward", "unforward"}, At(p, kind),
           cmd[p].op # "daemon"
    PROVE  /\ NextStep(p) = <<kind, Key(p), Own>> /\ Key(p) \in Ports
           /\ Index(p) = rows[cmd[p].name].rowid /\ Present(rows, cmd[p].name)
<1>1. HasIndex(cmd[p].name, cmd[p].row.rowid)
  BY OwnRow
<1>2. NextStep(p)[3] = Own /\ NextStep(p)[1] = kind /\ NextStep(p) \in Step
  BY AtStep DEF Fits
<1>3. NextStep(p) = <<kind, NextStep(p)[2], NextStep(p)[3]>>
  BY <1>2 DEF Step
<1> QED
  BY <1>1, <1>2, <1>3, StepData DEF Key, Index, HasIndex

LEMMA AccountsGoOn ==
    ASSUME Core, Core', OpensPorts, Once, RulesKnown, PortsAreRecorded,
           NEW p \in Procs, DoStep(p), cmd[p].op # "daemon", NEW n \in Names, n = cmd[p].name,
           NEW port \in Ports, Present(rows, n)', rows'[n].rowid \in ToSet(rules'[port])
    PROVE  IF cmd'[p].todo = <<>> THEN port \in rows'[n].ports ELSE Accounts(cmd[p], port)'
<1> DEFINE todo == cmd[p].todo
<1>0. /\ Outcome(p) /\ rows \in [Names -> Project] /\ rows' \in [Names -> Project]
      /\ KnowsPorts(cmd[p]) /\ cmd[p].op \in Ops
  BY Outcomes, TakesStep, AtStep DEF Core, TypeOK, RulesKnown
<1>a. PICK head : At(p, head)
  BY TakesStep
\* A new index leads nowhere.
<1>1. ~At(p, "register")
  <2> SUFFICES ASSUME At(p, "register") PROVE FALSE
    OBVIOUS
  <2>1. rules' = rules
    <3>1. ~At(p, "open") /\ ~At(p, "unforward") /\ ~At(p, "forward")
      BY DEF At
    <3> QED
      BY <3>1, RuleEffect
  <2>2. ~Present(rows, n)
    <3>1. OwnsRow(cmd[p]) /\ NextStep(p) \in ToSet(todo) /\ NextStep(p)[1] = "register"
      BY AtStep
    <3> QED
      BY <1>0, <3>1 DEF OwnsRow, Has
  <2>3. PICK r \in NextRowid(rows) : rows'[n].rowid = r
    <3>1. Registers(p)
      <4>1. rows'[n] # rows[n]
        BY <2>2 DEF Present
      <4>2. ~At(p, "save") /\ ~At(p, "unrow")
        BY DEF At
      <4> QED
        BY <1>0, <4>1, <4>2 DEF Outcome
    <3>2. PICK r \in NextRowid(rows) :
             rows' = [rows EXCEPT ![n] = [NoProject EXCEPT !.rowid = r, !.status = "creating"]]
      BY <3>1 DEF Registers
    <3>3. rows'[n].rowid = r
      BY <1>0, <3>2 DEF NoProject
    <3> QED
      BY <3>3
  <2> QED
    BY <2>1, <2>3, FreshIndex DEF RulesKnown
<1>2. Present(rows, n) /\ rows'[n].rowid = rows[n].rowid
  <2>1. rows'[n].rowid = rows[n].rowid
    BY <1>1, SameIndex
  <2> QED
    BY <2>1 DEF Present
\* It knew of the rule, or makes it.
<1>3. /\ Accounts(cmd[p], port)
      /\ \/ rows[n].rowid \in ToSet(rules[port])
         \/ At(p, "forward") /\ Key(p) = port
  <2>1. CASE rows[n].rowid \in ToSet(rules[port])
    BY <1>2, <2>1 DEF RulesKnown
  <2>2. CASE rows[n].rowid \notin ToSet(rules[port])
    <3>1. At(p, "forward") /\ Key(p) = port
      BY <1>2, <2>2, RuleEffect
    <3>2. NextStep(p) \in ToSet(todo) /\ NextStep(p)[1] = "forward" /\ NextStep(p)[2] = port
      BY <3>1, AtStep DEF Key
    <3>3. Has(todo, "save") /\ port \in cmd[p].row.ports
      BY <1>0, <3>2 DEF KnowsPorts
    <3>4. ~Has(todo, "boot")
      BY <3>1, <3>2, TailFollows DEF Has, Follows
    <3> QED
      BY <3>1, <3>3, <3>4 DEF Accounts
  <2> QED
    BY <2>1, <2>2
<1>4. ASSUME ~Has(cmd'[p].todo, "save"), ~Has(cmd'[p].todo, "unrow"), port \in rows'[n].ports,
             cmd'[p].todo # <<>>
      PROVE  Accounts(cmd[p], port)'
  <2>1. cmd'[p].name = n
    BY <1>4, StillThere
  <2> QED
    BY <1>4, <2>1 DEF Accounts
<1>5. CASE (Ends(p) \/ CleansUp(p)) /\ rows' = rows
  <2>1. \/ port \in rows[n].ports /\ cmd'[p].todo # << <<"unrow">> >>
        \/ cmd'[p].todo = << ClosePort(port, Own) >>
    BY <1>0, <1>1, <1>3, <1>5, RecordedAfterAll
  <2>2. << ClosePort(port, Own) >> # <<>>
    OBVIOUS
  <2>3. CASE cmd'[p].todo = << ClosePort(port, Own) >>
    <3>1. ClosePort(port, Own) \in ToSet(cmd'[p].todo)
      BY <2>3, Singleton
    <3> QED
      BY <2>2, <2>3, <3>1 DEF Accounts
  <2>4. CASE cmd'[p].todo # <<>> /\ port \in rows[n].ports /\ cmd'[p].todo # << <<"unrow">> >>
    <3>1. PICK new : cmd'[p].todo = << ClosePort(new, Own) >>
      BY <1>5, <2>4 DEF CleansUp, Ends
    <3>2. ClosePort(new, Own)[1] = "unforward"
      BY DEF ClosePort
    <3>3. ~Has(cmd'[p].todo, "save") /\ ~Has(cmd'[p].todo, "unrow")
      BY <3>1, <3>2, Singleton DEF Has
    <3> QED
      BY <1>4, <1>5, <2>4, <3>3
  <2> QED
    BY <1>5, <2>1, <2>3, <2>4
<1>6. CASE /\ ~((Ends(p) \/ CleansUp(p)) /\ rows' = rows)
           /\ \/ GoesOn(p)
              \/ Lasting(cmd'[p].todo) = {<<"forward", Key(p), NextStep(p)[3]>>}
                                            \cup Lasting(Tail(todo))
  <2>1. ASSUME NEW step \in ToSet(Tail(todo)), step[1] \in {"unforward", "save"}
        PROVE  step \in ToSet(cmd'[p].todo) /\ cmd'[p].todo # <<>>
    <3>1. step \in Lasting(Tail(todo))
      BY <2>1 DEF Lasting
    <3>2. step \in Lasting(cmd'[p].todo)
      BY <1>6, <3>1 DEF GoesOn
    <3> QED
      BY <3>2 DEF Lasting, ToSet
  <2>2. ASSUME NEW kind \in {"boot", "save", "unrow"}, Has(cmd'[p].todo, kind)
        PROVE  Has(Tail(todo), kind)
    <3>1. PICK step \in ToSet(cmd'[p].todo) : step[1] = kind
      BY <2>2 DEF Has
    <3>2. step \in Lasting(cmd'[p].todo) /\ step # <<"forward", Key(p), NextStep(p)[3]>>
      BY <3>1 DEF Lasting
    <3>3. step \in Lasting(Tail(todo))
      BY <1>6, <3>2 DEF GoesOn
    <3> QED
      BY <3>1, <3>3 DEF Lasting, Has
  <2>3. CASE ClosePort(port, Own) \in ToSet(todo)
    <3>1. ClosePort(port, Own)[1] = "unforward"
      BY DEF ClosePort
    <3>2. ClosePort(port, Own) # NextStep(p)
      <4> SUFFICES ASSUME ClosePort(port, Own) = NextStep(p) PROVE FALSE
        OBVIOUS
      <4>1. head = "unforward" /\ Key(p) = port
        BY <1>a, AtStep DEF ClosePort, Key
      <4>2. ~At(p, "forward") /\ ~At(p, "open") /\ Index(p) = rows[n].rowid
        BY <1>0, <1>a, <4>1, OwnIndex DEF At
      <4>3. rows[n].rowid \notin ToSet(rules'[port])
        BY <1>a, <4>1, <4>2, RuleEffect
      <4> QED
        BY <1>2, <4>3
    <3>3. ClosePort(port, Own) \in ToSet(Tail(todo))
      BY <1>a, <2>3, <3>2, TailFollows
    <3>4. ClosePort(port, Own) \in ToSet(cmd'[p].todo) /\ cmd'[p].todo # <<>>
      BY <2>1, <3>1, <3>3
    <3> QED
      BY <3>4 DEF Accounts
  <2>4. CASE /\ Has(todo, "save") /\ port \in cmd[p].row.ports
             /\ cmd[p].op \in {"deploy", "clone"} => ~Has(todo, "boot")
    <3>1. CASE At(p, "save")
      <4>1. ~Has(cmd'[p].todo, "save") /\ ~Has(cmd'[p].todo, "unrow")
        BY <2>2, <3>1, AfterSave DEF Has
      <4>2. port \in rows'[n].ports
        <5>1. CASE rows' = [rows EXCEPT ![n] = cmd[p].row]
          BY <1>0, <2>4, <5>1
        <5>2. CASE rows' = rows /\ cmd[p].op = "route remove"
          BY <1>0, <2>4, <5>2 DEF KnowsPorts
        <5>3. ~At(p, "register") /\ ~At(p, "unrow") /\ ~Reopen(p)
          BY <3>1 DEF At, Reopen
        <5> QED
          BY <1>0, <1>6, <3>1, <5>1, <5>2, <5>3 DEF Outcome
      <4> QED
        BY <1>4, <4>1, <4>2
    <3>2. CASE ~At(p, "save")
      <4>1. Has(Tail(todo), "save")
        BY <1>a, <2>4, <3>2, HasTail
      <4>2. Has(cmd'[p].todo, "save") /\ cmd'[p].todo # <<>>
        BY <2>1, <4>1 DEF Has
      <4>3. cmd'[p].op = cmd[p].op /\ cmd'[p].row.ports = cmd[p].row.ports
        BY <4>2, StillThere, RowPorts
      <4>4. Has(cmd'[p].todo, "boot") => Has(todo, "boot")
        BY <1>a, <2>2, HasTail
      <4> QED
        BY <2>4, <4>2, <4>3, <4>4 DEF Accounts
    <3> QED
      BY <3>1, <3>2
  <2>5. CASE ~Has(todo, "save") /\ ~Has(todo, "unrow") /\ port \in rows[n].ports
    <3>1. ~At(p, "save") /\ ~At(p, "unrow")
      BY <2>5, HasTail
    <3>2. rows' = rows
      BY <1>0, <1>1, <3>1 DEF Outcome
    <3>3. ~Has(cmd'[p].todo, "save") /\ ~Has(cmd'[p].todo, "unrow")
      BY <1>a, <2>2, <2>5, HasTail
    <3> QED
      BY <1>4, <2>5, <3>2, <3>3
  <2> QED
    BY <1>3, <2>3, <2>4, <2>5 DEF Accounts
<1>7. CASE At(p, "unrow") /\ ~GoesOn(p) /\ ~((Ends(p) \/ CleansUp(p)) /\ rows' = rows)
  <2>1. ~At(p, "register") /\ ~At(p, "save") /\ ~At(p, "open")
    BY <1>7 DEF At
  <2>2. rows' = [rows EXCEPT ![n] = NoProject]
    BY <1>0, <1>7, <2>1 DEF Outcome, Reopen
  <2>3. rows'[n] = NoProject
    BY <1>0, <2>2
  <2> QED
    BY <2>3 DEF Present, NoProject
<1> QED
  BY <1>0, <1>1, <1>5, <1>6, <1>7 DEF Outcome

\* A command that is about to delete its row knows of no rule.
LEMMA UnrowAccounts ==
    ASSUME Core, NEW p \in Procs, At(p, "unrow"), NEW port
    PROVE  ~Accounts(cmd[p], port)
<1>1. NextStep(p)[1] = "unrow" /\ \A y \in ToSet(Tail(cmd[p].todo)) : FALSE
  BY AtStep, TailFollows DEF Follows
<1>2. ToSet(cmd[p].todo) = {NextStep(p)}
  BY <1>1, TailFollows
<1>3. ClosePort(port, Own)[1] = "unforward"
  BY DEF ClosePort
<1> QED
  BY <1>1, <1>2, <1>3 DEF Accounts, Has

\* Commands about other projects.
LEMMA OthersKnow ==
    ASSUME Core, NEW p \in Procs, DoStep(p), NEW q \in Procs, q # p,
           KnowsPorts(cmd[q])
    PROVE  KnowsPorts(cmd[q])'
<1>1. cmd'[q] = cmd[q] /\ (cmd[q].name \in Names => rows'[cmd[q].name] = rows[cmd[q].name])
  BY OnlyOwn
<1>2. CASE cmd[q] = Idle
  <2>1. cmd'[q] = Idle
    BY <1>1, <1>2
  <2> QED
    BY <2>1, IdleKnows DEF KnowsPorts
<1>3. CASE cmd[q] # Idle
  <2>1. Shaped(cmd[q])
    BY <1>3 DEF Core
  <2>2. CASE cmd[q].op = "daemon"
    BY <1>1, <2>2 DEF KnowsPorts
  <2>3. CASE cmd[q].op # "daemon"
    <3>1. rows'[cmd[q].name] = rows[cmd[q].name]
      BY <1>1, <2>1, <2>3 DEF Shaped
    <3> QED
      BY <1>1, <3>1 DEF KnowsPorts
  <2> QED
    BY <2>2, <2>3
<1> QED
  BY <1>2, <1>3

LEMMA RulesStayOwned ==
    ASSUME Core, Core', OpensPorts, Once, RulesKnown, PortsAreRecorded, DaemonAlone, NEW p \in Procs, DoStep(p)
    PROVE  ForwardsHaveOwner'
<1> SUFFICES ASSUME NEW port \in Ports, NEW i \in ToSet(rules'[port])
             PROVE  \E n \in Names : HasIndex(n, i)'
  BY DEF ForwardsHaveOwner
<1>1. CASE i \in ToSet(rules[port])
  <2>1. PICK n \in Names : HasIndex(n, i)
    BY <1>1 DEF RulesKnown, ForwardsHaveOwner
  <2>2. ~(n = cmd[p].name /\ At(p, "unrow"))
    <3>1. n = cmd[p].name => Accounts(cmd[p], port)
      BY <1>1, <2>1 DEF RulesKnown, HasIndex
    <3> QED
      BY <3>1, UnrowAccounts
  <2>3. rows'[n].rowid = rows[n].rowid
    BY <2>1, <2>2, SameIndex DEF HasIndex
  <2> QED
    BY <2>1, <2>3 DEF HasIndex, Present
<1>2. CASE i \notin ToSet(rules[port])
  <2>1. At(p, "forward") /\ port = Key(p) /\ i = Index(p)
    BY <1>2, RuleEffect
  <2>2. PICK n \in Names : HasIndex(n, i)
    BY <2>1, ForOwner DEF MadeForOwner
  <2>3. rows'[n].rowid = rows[n].rowid
    <3>1. ~At(p, "register") /\ ~At(p, "unrow")
      BY <2>1 DEF At
    <3> QED
      BY <3>1, SameIndex
  <2> QED
    BY <2>2, <2>3 DEF HasIndex, Present
<1> QED
  BY <1>1, <1>2

\* The rules of a project that p is not about.
LEMMA OtherRules ==
    ASSUME Core, Core', OpensPorts, Once, RulesKnown, PortsAreRecorded, DaemonAlone,
           NEW p \in Procs, DoStep(p), NEW n \in Names, n # cmd[p].name, NEW port \in Ports,
           Present(rows, n)', rows'[n].rowid \in ToSet(rules'[port])
    PROVE  /\ Quiet(n)' => port \in rows'[n].ports
           /\ \A q \in Procs : cmd'[q].name = n => Accounts(cmd[q], port)'
<1>1. rows'[n] = rows[n] /\ Present(rows, n) /\ \A q \in Procs : q # p => cmd'[q] = cmd[q]
  <2>1. rows'[n] = rows[n] /\ \A q \in Procs : q # p => cmd'[q] = cmd[q]
    BY OnlyOwn
  <2> QED
    BY <2>1 DEF Present
<1>2. cmd'[p].name # n
  BY IdleIs, SameOp, NoneAssumption
<1>3. CASE rows[n].rowid \in ToSet(rules[port])
  <2>1. Quiet(n)' => Quiet(n)
    BY <1>1 DEF Quiet
  <2>2. ASSUME NEW q \in Procs, cmd'[q].name = n PROVE Accounts(cmd[q], port)'
    <3>1. cmd'[q] = cmd[q] /\ cmd[q].name = n
      BY <1>1, <1>2, <2>2
    <3>2. Accounts(cmd[q], port)
      BY <1>1, <1>3, <3>1 DEF RulesKnown
    <3> QED
      BY <1>1, <3>1, <3>2 DEF Accounts
  <2> QED
    BY <1>1, <1>3, <2>1, <2>2 DEF RulesKnown
<1>4. CASE rows[n].rowid \notin ToSet(rules[port])
  <2>1. At(p, "forward") /\ port = Key(p) /\ Index(p) = rows[n].rowid
    BY <1>1, <1>4, RuleEffect
  <2>2. cmd[p].op = "daemon"
    <3> SUFFICES ASSUME cmd[p].op # "daemon" PROVE FALSE
      OBVIOUS
    <3>1. Index(p) = rows[cmd[p].name].rowid /\ Present(rows, cmd[p].name) /\ cmd[p].name \in Names
      BY <2>1, OwnIndex, AtStep
    <3> QED
      BY <2>1, <3>1 DEF Core, RowsAreProjects
  <2>3. ReadsRows(cmd[p]) /\ NextStep(p) \in ToSet(cmd[p].todo) /\ NextStep(p)[1] = "forward"
    BY <2>1, AtStep DEF Core, DaemonIsAlone
  <2>4. PICK m \in Names : HasIndex(m, NextStep(p)[3]) /\ port \in rows[m].ports
    BY <2>1, <2>2, <2>3 DEF ReadsRows, Key
  <2>5. NextStep(p)[3] # Own
    BY <2>4 DEF HasIndex, Present, Own
  <2>6. m = n
    BY <2>1, <2>4, <2>5 DEF Index, HasIndex, Core, RowsAreProjects
  <2>7. ASSUME NEW q \in Procs, cmd'[q].name = n PROVE FALSE
    <3>1. q # p /\ cmd[q].name = n
      BY <1>1, <1>2, <2>7
    <3>2. cmd[q] # Idle
      BY <3>1, NoneAssumption DEF Idle
    <3> QED
      BY <2>2, <3>1, <3>2 DEF Core, DaemonIsAlone
  <2> QED
    BY <1>1, <2>4, <2>6, <2>7
<1> QED
  BY <1>3, <1>4

LEMMA KnownGoesOn ==
    ASSUME Core, Core', OpensPorts, Once, RulesKnown, PortsAreRecorded, DaemonAlone,
           NEW p \in Procs, DoStep(p)
    PROVE  RulesKnown'
<1>1. ForwardsHaveOwner'
  BY RulesStayOwned
<1>2. ASSUME NEW q \in Procs PROVE KnowsPorts(cmd[q])'
  <2>1. KnowsPorts(cmd[q])
    BY DEF RulesKnown
  <2>2. CASE q = p
    <3>1. KnowsPorts(cmd[p])'
      BY <2>1, <2>2, KnowsGoesOn
    <3> QED
      BY <2>2, <3>1 DEF KnowsPorts
  <2> QED
    BY <2>1, <2>2, OthersKnow
<1>3. ASSUME NEW n \in Names, NEW port \in Ports,
             Present(rows, n)', rows'[n].rowid \in ToSet(rules'[port])
      PROVE  /\ Quiet(n)' => port \in rows'[n].ports
             /\ \A q \in Procs : cmd'[q].name = n => Accounts(cmd[q], port)'
  <2>1. CASE n # cmd[p].name
    BY <1>3, <2>1, OtherRules
  <2>2. CASE n = cmd[p].name
    <3>1. PICK head : At(p, head)
      BY TakesStep
    <3>2. cmd[p].op # "daemon"
      BY <2>2, <3>1, AtStep, NoneAssumption DEF Shaped
    <3>3. IF cmd'[p].todo = <<>> THEN port \in rows'[n].ports ELSE Accounts(cmd[p], port)'
      BY <1>3, <2>2, <3>2, AccountsGoOn
    <3>4. Idle.todo = <<>> /\ Idle.name # n
      BY NoneAssumption DEF Idle
    <3>5. cmd'[p].name = n <=> cmd'[p].todo # <<>>
      <4>1. cmd'[p] = Idle \/ cmd'[p].todo # <<>>
        BY DEF Core, Shaped
      <4> QED
        BY <2>2, <3>4, <4>1, StillThere
    <3>6. ASSUME NEW q \in Procs, cmd'[q].name = n PROVE q = p
      <4>1. q # p => cmd'[q] = cmd[q]
        BY OnlyOwn
      <4> QED
        BY <2>2, <3>6, <4>1, NoneAssumption DEF Core, OnePerProject
    <3>7. ASSUME NEW q \in Procs, cmd'[q].name = n PROVE Accounts(cmd[q], port)'
      <4>1. q = p
        BY <3>6, <3>7
      <4>2. Accounts(cmd[p], port)'
        BY <3>3, <3>5, <3>7, <4>1
      <4> QED
        BY <4>1, <4>2 DEF Accounts
    <3>8. Quiet(n)' => port \in rows'[n].ports
      BY <3>3, <3>5 DEF Quiet
    <3> QED
      BY <3>7, <3>8
  <2> QED
    BY <2>1, <2>2
<1> QED
  BY <1>1, <1>2, <1>3 DEF RulesKnown

\* A new command accounts for the rules that are there: all are recorded.
LEMMA StartAccounts ==
    ASSUME Core, NEW c, Started(c), c.op \in Commands, PortsAreRecorded, KnowsPorts(c),
           c.op # "daemon", c.name \in Names, Present(rows, c.name),
           NEW port \in rows[c.name].ports
    PROVE  Accounts(c, port)
<1> DEFINE n == c.name
<1>0. rows[n] \in Project
  BY DEF Core, TypeOK
<1>1. c.op \notin {"deploy", "clone", "load", "push"}
  BY DEF Started, PortsAreRecorded
\* A row to save that keeps the port.
<1>2. ASSUME <<"save">> \in ToSet(c.todo), port \in c.row.ports PROVE Accounts(c, port)
  <2>1. Has(c.todo, "save")
    BY <1>2 DEF Has
  <2> QED
    BY <1>1, <1>2, <2>1 DEF Accounts
<1>3. CASE c.op = "destroy"
  <2>1. ClosePort(port, Own) \in ToSet(c.todo)
    BY <1>3 DEF Started
  <2> QED
    BY <2>1 DEF Accounts
<1>4. CASE c.op \in {"freeze", "unfreeze", "route add", "unexpose"}
  <2>1. <<"save">> \in ToSet(c.todo)
    BY <1>4 DEF Started
  <2> QED
    BY <1>2, <1>4, <2>1 DEF KnowsPorts
<1>5. CASE c.op = "route remove"
  <2>1. PICK h \in HostsOf(n) : <<"save">> \in ToSet(c.todo) \/ ToSet(c.todo) = {<<"unroute", h>>}
    BY <1>5 DEF Started
  <2>2. CASE <<"save">> \in ToSet(c.todo)
    BY <1>2, <1>5, <2>2 DEF KnowsPorts
  <2>3. CASE ToSet(c.todo) = {<<"unroute", h>>}
    <3>1. ~Has(c.todo, "save") /\ ~Has(c.todo, "unrow")
      BY <2>3 DEF Has
    <3> QED
      BY <3>1 DEF Accounts
  <2> QED
    BY <2>1, <2>2, <2>3
<1>6. CASE c.op = "port open"
  <2>1. PICK new \in Ports : /\ c.row = [rows[n] EXCEPT !.ports = @ \cup {new}]
                             /\ <<"save">> \in ToSet(c.todo)
    BY <1>6 DEF Started
  <2>2. port \in c.row.ports
    BY <1>0, <2>1 DEF Project
  <2> QED
    BY <1>2, <2>1, <2>2
<1>7. CASE c.op = "port close"
  <2>1. PICK closed \in Ports : /\ c.row = [rows[n] EXCEPT !.ports = @ \ {closed}]
                                /\ ToSet(c.todo) = {ClosePort(closed, Own), <<"save">>}
    BY <1>7 DEF Started
  <2>2. CASE port = closed
    BY <2>1, <2>2 DEF Accounts
  <2>3. CASE port # closed
    <3>1. port \in c.row.ports
      BY <1>0, <2>1, <2>3 DEF Project
    <3> QED
      BY <1>2, <2>1, <3>1
  <2> QED
    BY <2>2, <2>3
<1> QED
  BY <1>1, <1>3, <1>4, <1>5, <1>6, <1>7 DEF Started

LEMMA KnownBegins ==
    ASSUME Core, Core', RulesKnown, PortsAreRecorded, NEW p \in Procs, BeginCommand(p)
    PROVE  RulesKnown'
<1>1. /\ rows' = rows /\ rules' = rules /\ cmd[p] = Idle
      /\ \A q \in Procs : q # p => cmd'[q] = cmd[q]
  BY OnlyOwnBegins
<1>2. PICK c : c = cmd'[p]
  OBVIOUS
<1>3. Started(c) /\ c.op \in Commands
  BY <1>2, Beginning, GivenCommands
<1>4. KnowsPorts(c)
  BY <1>1, <1>2, KnowsBegins DEF KnowsPorts
<1>5. ASSUME NEW n \in Names, NEW port \in Ports,
             Present(rows, n), rows[n].rowid \in ToSet(rules[port])
      PROVE  /\ Quiet(n)' => port \in rows[n].ports
             /\ \A q \in Procs : cmd'[q].name = n => Accounts(cmd'[q], port)
  <2>1. cmd[p].name # n
    BY <1>1, NoneAssumption DEF Idle
  <2>2. Quiet(n)' => Quiet(n)
    BY <1>1, <2>1 DEF Quiet
  <2>3. ASSUME NEW q \in Procs, cmd'[q].name = n, q # p PROVE Accounts(cmd'[q], port)
    BY <1>1, <1>5, <2>3 DEF RulesKnown
  <2>4. ASSUME c.name = n PROVE Accounts(c, port)
    <3>1. \A q \in Procs : q # p => cmd'[q].name # n
      BY <1>2, <2>4, NoneAssumption DEF Core, OnePerProject
    <3>2. Quiet(n)
      BY <1>1, <2>1, <3>1 DEF Quiet
    <3>3. port \in rows[n].ports
      BY <1>5, <3>2 DEF RulesKnown
    <3>4. c.op # "daemon"
      <4>1. c = Idle \/ Shaped(c)
        BY <1>2 DEF Core
      <4>2. Idle.name = NoName
        BY DEF Idle
      <4> QED
        BY <2>4, <4>1, <4>2, NoneAssumption DEF Shaped
    <3> QED
      BY <1>3, <1>4, <1>5, <2>4, <3>3, <3>4, StartAccounts
  <2> QED
    BY <1>2, <1>5, <2>2, <2>3, <2>4 DEF RulesKnown
<1>6. ASSUME NEW q \in Procs PROVE KnowsPorts(cmd'[q])
  <2>1. q # p => cmd'[q] = cmd[q]
    BY <1>1
  <2> QED
    BY <1>2, <1>4, <2>1 DEF RulesKnown
<1>7. ForwardsHaveOwner'
  BY <1>1 DEF RulesKnown, ForwardsHaveOwner, HasIndex, Present
<1>9. \A q \in Procs : KnowsPorts(cmd[q])'
  BY <1>1, <1>6 DEF KnowsPorts
<1>10. ASSUME NEW n \in Names, NEW port \in Ports,
              Present(rows, n)', rows'[n].rowid \in ToSet(rules'[port])
       PROVE  /\ Quiet(n)' => port \in rows'[n].ports
              /\ \A q \in Procs : cmd'[q].name = n => Accounts(cmd[q], port)'
  <2>1. Present(rows, n) /\ rows[n].rowid \in ToSet(rules[port])
    BY <1>1, <1>10 DEF Present
  <2>2. ASSUME NEW q \in Procs, cmd'[q].name = n PROVE Accounts(cmd[q], port)'
    <3>1. Accounts(cmd'[q], port)
      BY <1>5, <2>1, <2>2
    <3> QED
      BY <1>1, <3>1 DEF Accounts
  <2> QED
    BY <1>1, <1>5, <2>1, <2>2
<1> QED
  BY <1>7, <1>9, <1>10 DEF RulesKnown

LEMMA KnownInv == ASSUME DaemonAlone, PortsAreRecorded PROVE Spec => []RulesKnown
<1>0. RulesAreReplaced
  BY DEF PortsAreRecorded
<1>1. Init => RulesKnown
  <2> SUFFICES ASSUME Init PROVE RulesKnown
    OBVIOUS
  <2>1. \A port \in Ports : ToSet(rules[port]) = {}
    BY DEF Init, ToSet
  <2>2. \A p \in Procs : KnowsPorts(cmd[p])
    BY IdleKnows DEF Init
  <2> QED
    BY <2>1, <2>2 DEF RulesKnown, ForwardsHaveOwner
<1>2. RulesKnown /\ (Core /\ OpensPorts) /\ (Core /\ OpensPorts)' /\ Once /\ [Next]_vars
         => RulesKnown'
  <2> SUFFICES ASSUME RulesKnown, Core, Core', OpensPorts, Once, [Next]_vars PROVE RulesKnown'
    OBVIOUS
  <2>1. ASSUME NEW p \in Procs, BeginCommand(p) PROVE RulesKnown'
    BY <2>1, KnownBegins
  <2>2. ASSUME NEW p \in Procs, DoStep(p) PROVE RulesKnown'
    BY <2>2, KnownGoesOn
  <2>3. CASE Reboot
    <3>1. \A port \in Ports : ToSet(rules'[port]) = {}
      BY <2>3 DEF Reboot, ToSet
    <3>2. cmd' = cmd /\ \A p \in Procs : cmd[p] = Idle
      BY <2>3 DEF Reboot
    <3>3. ASSUME NEW p \in Procs PROVE KnowsPorts(cmd[p])'
      <4>1. cmd'[p] = Idle
        BY <3>2
      <4> QED
        BY <4>1, IdleKnows DEF KnowsPorts
    <3> QED
      BY <3>1, <3>3 DEF RulesKnown, ForwardsHaveOwner
  <2>4. CASE UNCHANGED vars
    <3>1. rows' = rows /\ cmd' = cmd /\ rules' = rules
      BY <2>4 DEF vars
    <3>2. ForwardsHaveOwner'
      BY <3>1 DEF RulesKnown, ForwardsHaveOwner, HasIndex, Present
    <3>3. \A p \in Procs : KnowsPorts(cmd[p])'
      BY <3>1 DEF RulesKnown, KnowsPorts
    <3>4. ASSUME NEW n \in Names, NEW port \in Ports,
                 Present(rows, n)', rows'[n].rowid \in ToSet(rules'[port])
          PROVE  /\ Quiet(n)' => port \in rows'[n].ports
                 /\ \A p \in Procs : cmd'[p].name = n => Accounts(cmd[p], port)'
      <4>1. Present(rows, n) /\ rows[n].rowid \in ToSet(rules[port])
        BY <3>1, <3>4 DEF Present
      <4>2. \A p \in Procs : cmd[p].name = n => Accounts(cmd[p], port)
        BY <4>1 DEF RulesKnown
      <4>3. \A p \in Procs : Accounts(cmd[p], port) => Accounts(cmd[p], port)'
        BY <3>1 DEF Accounts
      <4>4. Quiet(n)' => port \in rows'[n].ports
        BY <3>1, <4>1 DEF RulesKnown, Quiet
      <4> QED
        BY <3>1, <4>2, <4>3, <4>4
    <3> QED
      BY <3>2, <3>3, <3>4 DEF RulesKnown
  <2> QED
    BY <2>1, <2>2, <2>3, <2>4 DEF Next
<1> QED
  BY <1>0, <1>1, <1>2, CoreInv, OnceInv, PTL DEF Spec

\* No port is forwarded to an index that no project has, whatever else fails:
\* a command that may delete its row closes every port of its project first, and
\* a rule that a command is making is in the row that it has yet to save.
THEOREM ForwardsOwned ==
    ASSUME DaemonAlone, PortsAreRecorded
    PROVE  Spec => []ForwardsHaveOwner
<1>1. RulesKnown => ForwardsHaveOwner
  BY DEF RulesKnown
<1> QED
  BY <1>1, KnownInv, PTL

-----------------------------------------------------------------------------
(* The ports that are recorded have rules. *)

\* A rule is there, or the daemon is about to make it.
Made(n, port) ==
    \/ rows[n].rowid \in ToSet(rules[port])
    \/ \E p \in Procs : /\ cmd[p].op = "daemon"
                        /\ \E kind \in {"open", "forward"} :
                              <<kind, port, rows[n].rowid>> \in ToSet(cmd[p].todo)

\* c is about to make it.
Makes(c, port) == \E kind \in {"open", "forward"} : <<kind, port, Own>> \in ToSet(c.todo)

\* A port that c closes is not recorded once c has ended.
ClosesUnrecorded(c) ==
    /\ c.op = "destroy" => Has(c.todo, "unrow")
    /\ c.op = "port close" =>
          /\ Has(c.todo, "save")
          /\ \A step \in ToSet(c.todo) : step[1] = "unforward" => step[2] \notin c.row.ports
    /\ c.op = "port open" =>
          /\ ~(Has(c.todo, "unforward") /\ Has(c.todo, "save"))
          /\ \A step \in ToSet(c.todo) :
                step[1] \in {"open", "forward", "unforward"} => step[2] \notin rows[c.name].ports

Closes(n) == \E p \in Procs : cmd[p].name = n /\ cmd[p].op \in {"destroy", "port close"}

RowsMade == \A n \in Names : Closes(n) \/ \A port \in rows[n].ports : Made(n, port)

SavesMade ==
    \A p \in Procs : cmd[p].name \in Names /\ Has(cmd[p].todo, "save") =>
       \A port \in cmd[p].row.ports :
          \/ Makes(cmd[p], port)
          \/ Present(rows, cmd[p].name) /\ Made(cmd[p].name, port)

RulesMade ==
    /\ \A p \in Procs : ClosesUnrecorded(cmd[p])
    /\ restored \/ DaemonRuns => RowsMade /\ SavesMade

LEMMA IdleCloses == ClosesUnrecorded(Idle) /\ ClosesUnrecorded(Idle)'
  BY DEF ClosesUnrecorded, Idle

LEMMA NoElements == ToSet(<<>>) = {}
  BY DEF ToSet

\* Nothing that lasts is nothing.
LEMMA NothingLeft ==
    ASSUME Core, Core', NEW p \in Procs, DoStep(p), cmd[p].op \notin Users("route"),
           Lasting(cmd'[p].todo) = {}
    PROVE  cmd'[p].todo = <<>>
<1> SUFFICES ASSUME cmd'[p].todo # <<>> PROVE FALSE
  OBVIOUS
<1>1. cmd'[p] # Idle
  BY DEF Idle
<1>2. Shaped(cmd'[p]) /\ cmd'[p].op = cmd[p].op
  BY <1>1, SameOp DEF Core
<1>3. PICK step \in ToSet(cmd'[p].todo) : TRUE
  BY <1>2, Elements DEF Shaped, Command
<1>4. step[1] \in {"serve", "route"} /\ Fits(step, cmd'[p].op, cmd'[p].name)
  BY <1>2, <1>3 DEF Lasting, Shaped
<1> QED
  BY <1>2, <1>4 DEF Fits, Users

\* save and unrow are the last steps of those that close ports.
LEMMA LastStep ==
    ASSUME Core, Core', OpensPorts, NEW p \in Procs, DoStep(p), cmd'[p].todo # <<>>,
           ~CleansUp(p)
    PROVE  /\ ~At(p, "unrow")
           /\ cmd[p].op \in {"port open", "port close"} => ~At(p, "save")
<1>1. ASSUME NEW kind \in {"save", "unrow"}, At(p, kind), Lasting(Tail(cmd[p].todo)) = {},
             cmd[p].op \notin Users("route")
      PROVE  FALSE
  <2>1. ~Reopen(p)
    BY <1>1 DEF Reopen, At
  <2>2. GoesOn(p)
    BY <2>1, Outcomes DEF Outcome, Ends
  <2> QED
    BY <1>1, <2>2, NothingLeft DEF GoesOn
<1>2. ASSUME At(p, "unrow") PROVE FALSE
  <2>1. \A y \in ToSet(Tail(cmd[p].todo)) : FALSE
    BY <1>2, AtStep, TailFollows DEF Follows
  <2>2. Advance(p)
    BY <1>2, StepIs DEF At, Unrow
  <2>3. ToSet(cmd'[p].todo) = {}
    BY <2>1, <2>2, AdvanceOn
  <2>4. cmd'[p] = Idle \/ cmd'[p] \in Command
    BY DEF Core, Shaped
  <2>5. cmd'[p].todo \in Seq(Step)
    BY <2>4, IdleCommand DEF Command
  <2> QED
    BY <2>3, <2>5, Elements
<1>3. ASSUME cmd[p].op \in {"port open", "port close"}, At(p, "save") PROVE FALSE
  <2>1. \A y \in ToSet(Tail(cmd[p].todo)) : FALSE
    <3> SUFFICES ASSUME NEW y \in ToSet(Tail(cmd[p].todo)) PROVE FALSE
      OBVIOUS
    <3>1. y[1] \in {"dns", "unroute"} /\ y \in ToSet(cmd[p].todo)
      BY <1>3, AfterSave, TailFollows
    <3>2. Fits(y, cmd[p].op, cmd[p].name)
      BY <1>3, <3>1, AtStep DEF Shaped
    <3> QED
      BY <1>3, <3>1, <3>2 DEF Fits, Users
  <2>2. Lasting(Tail(cmd[p].todo)) = {}
    BY <2>1 DEF Lasting
  <2> QED
    BY <1>1, <1>3, <2>2 DEF Users
<1> QED
  BY <1>2, <1>3

LEMMA ClosesBegins ==
    ASSUME Core, Core', NEW p \in Procs, BeginCommand(p)
    PROVE  ClosesUnrecorded(cmd[p])'
<1>1. rows' = rows
  BY OnlyOwnBegins
<1>2. PICK c : c = cmd'[p]
  OBVIOUS
<1>3. Started(c)
  BY <1>2, Beginning
<1> SUFFICES ClosesUnrecorded(c)
  BY <1>1, <1>2 DEF ClosesUnrecorded
<1>4. ASSUME c.op = "destroy" PROVE Has(c.todo, "unrow")
  <2>1. <<"unrow">> \in ToSet(c.todo)
    BY <1>3, <1>4 DEF Started
  <2> QED
    BY <2>1 DEF Has
<1>5. ASSUME c.op = "port close"
      PROVE  /\ Has(c.todo, "save")
             /\ \A step \in ToSet(c.todo) : step[1] = "unforward" => step[2] \notin c.row.ports
  <2>1. PICK port \in Ports : /\ c.row = [rows[c.name] EXCEPT !.ports = @ \ {port}]
                              /\ ToSet(c.todo) = {<<"unforward", port, Own>>, <<"save">>}
                              /\ c.name \in Names
    BY <1>3, <1>5 DEF Started, ClosePort
  <2>2. Has(c.todo, "save")
    <3>1. <<"save">> \in ToSet(c.todo)
      BY <2>1
    <3> QED
      BY <3>1 DEF Has
  <2>3. port \notin c.row.ports
    <3>1. rows[c.name] \in Project
      BY <2>1 DEF Core, TypeOK
    <3> QED
      BY <2>1, <3>1 DEF Project
  <2> QED
    BY <2>1, <2>2, <2>3
<1>6. ASSUME c.op = "port open"
      PROVE  /\ ~(Has(c.todo, "unforward") /\ Has(c.todo, "save"))
             /\ \A step \in ToSet(c.todo) :
                   step[1] \in {"open", "forward", "unforward"} => step[2] \notin rows[c.name].ports
  <2>1. PICK port \in Ports : /\ port \notin rows[c.name].ports
                              /\ ToSet(c.todo) = {<<"open", port, Own>>, <<"save">>}
    BY <1>3, <1>6 DEF Started, OpenPort
  <2>2. ~Has(c.todo, "unforward")
    BY <2>1 DEF Has
  <2> QED
    BY <2>1, <2>2
<1> QED
  BY <1>4, <1>5, <1>6 DEF ClosesUnrecorded

LEMMA ClosesGoesOn ==
    ASSUME Core, Core', OpensPorts, PortsAreRecorded, NEW p \in Procs, DoStep(p),
           ClosesUnrecorded(cmd[p])
    PROVE  ClosesUnrecorded(cmd[p])'
<1> DEFINE n == cmd[p].name
           todo == cmd[p].todo
<1>1. CASE cmd'[p].todo = <<>>
  <2>1. cmd'[p] = Idle
    BY <1>1 DEF Core, Shaped
  <2> QED
    BY <2>1, IdleCloses DEF ClosesUnrecorded
<1>2. CASE cmd'[p].todo # <<>>
  <2>1. /\ cmd'[p].op = cmd[p].op /\ cmd'[p].name = n
        /\ cmd'[p].row.ports = cmd[p].row.ports
    BY <1>2, StillThere, RowPorts
  <2>2. PICK head : At(p, head)
    BY TakesStep
  <2>3. Outcome(p) /\ n = cmd[p].name
    BY Outcomes
  \* A step of a kind that is left.
  <2>4. ASSUME ~CleansUp(p), NEW kind, kind \notin {"serve", "route"}, Has(todo, kind), ~At(p, kind)
        PROVE  Has(cmd'[p].todo, kind)
    <3>1. Has(Tail(todo), kind)
      BY <2>2, <2>4, HasTail
    <3>2. PICK step \in ToSet(Tail(todo)) : step[1] = kind
      BY <3>1 DEF Has
    <3>3. step \in ToSet(cmd'[p].todo)
      BY <1>2, <2>4, <3>2, LeftStill
    <3> QED
      BY <3>2, <3>3 DEF Has
  <2>5. CASE cmd[p].op = "destroy"
    <3>1. ~CleansUp(p)
      BY <2>5 DEF CleansUp
    <3>2. Has(cmd'[p].todo, "unrow")
      <4>1. Has(todo, "unrow")
        BY <2>5 DEF ClosesUnrecorded
      <4>2. ~At(p, "unrow")
        BY <1>2, <2>5, <3>1, LastStep
      <4> QED
        BY <2>4, <3>1, <4>1, <4>2
    <3> QED
      BY <2>1, <2>5, <3>2 DEF ClosesUnrecorded
  <2>6. CASE cmd[p].op = "port close"
    <3>1. ~CleansUp(p)
      BY <2>6 DEF CleansUp
    <3>2. Has(cmd'[p].todo, "save")
      <4>1. Has(todo, "save")
        BY <2>6 DEF ClosesUnrecorded
      <4>2. ~At(p, "save")
        BY <1>2, <2>6, <3>1, LastStep
      <4> QED
        BY <2>4, <3>1, <4>1, <4>2
    <3>3. ASSUME NEW step \in ToSet(cmd'[p].todo), step[1] = "unforward"
          PROVE  step[2] \notin cmd[p].row.ports
      <4>1. step \in ToSet(Tail(todo))
        BY <3>1, <3>3, LeftBefore
      <4>2. step \in ToSet(todo)
        BY <2>2, <4>1, TailFollows
      <4> QED
        BY <2>6, <3>3, <4>2 DEF ClosesUnrecorded
    <3> QED
      BY <2>1, <2>6, <3>2, <3>3 DEF ClosesUnrecorded
  <2>7. CASE cmd[p].op = "port open" /\ ~CleansUp(p)
    <3>1. rows' = rows
      <4>1. ~At(p, "register") /\ ~At(p, "unrow") /\ ~At(p, "save")
        BY <1>2, <2>7, LastStep, AtStep DEF Users
      <4> QED
        BY <2>3, <4>1 DEF Outcome
    <3>2. ASSUME NEW step \in ToSet(cmd'[p].todo), step[1] \in {"open", "forward", "unforward"}
          PROVE  \E old \in ToSet(todo) : /\ old[2] = step[2]
                                          /\ old[1] \in {"open", "forward", "unforward"}
                                          /\ step[1] = "unforward" => old[1] = "unforward"
      <4>1. CASE step \in ToSet(Tail(todo))
        <5>1. step \in ToSet(todo)
          BY <2>2, <4>1, TailFollows
        <5> QED
          BY <3>2, <5>1
      <4>2. CASE Reopen(p) /\ step = <<"forward", Key(p), NextStep(p)[3]>>
        <5>1. At(p, "open")
          BY <4>2 DEF Reopen
        <5>2. NextStep(p) \in ToSet(todo) /\ NextStep(p)[1] = "open" /\ NextStep(p)[2] = Key(p)
          BY <5>1, AtStep DEF Key
        <5> QED
          BY <4>2, <5>2
      <4>3. step \in Lasting(cmd'[p].todo) /\ (step \in Lasting(Tail(todo)) => step \in ToSet(Tail(todo)))
        BY <3>2 DEF Lasting
      <4> QED
        BY <1>2, <2>3, <2>7, <4>1, <4>2, <4>3 DEF Outcome, GoesOn, Ends
    <3>3. ~(Has(cmd'[p].todo, "unforward") /\ Has(cmd'[p].todo, "save"))
      <4> SUFFICES ASSUME Has(cmd'[p].todo, "unforward"), Has(cmd'[p].todo, "save") PROVE FALSE
        OBVIOUS
      <4>1. PICK s1 \in ToSet(cmd'[p].todo) : s1[1] = "unforward"
        BY DEF Has
      <4>2. PICK s2 \in ToSet(cmd'[p].todo) : s2[1] = "save"
        BY DEF Has
      <4>3. s1 \in ToSet(Tail(todo)) /\ s2 \in ToSet(Tail(todo))
        BY <2>7, <4>1, <4>2, LeftBefore
      <4>4. Has(todo, "unforward") /\ Has(todo, "save")
        BY <2>2, <4>1, <4>2, <4>3, TailFollows DEF Has
      <4> QED
        BY <2>7, <4>4 DEF ClosesUnrecorded
    <3>4. ASSUME NEW step \in ToSet(cmd'[p].todo), step[1] \in {"open", "forward", "unforward"}
          PROVE  step[2] \notin rows[n].ports
      <4>1. PICK old \in ToSet(todo) : /\ old[2] = step[2]
                                       /\ old[1] \in {"open", "forward", "unforward"}
        BY <3>2, <3>4
      <4> QED
        BY <2>7, <4>1 DEF ClosesUnrecorded
    <3> QED
      BY <2>1, <2>7, <3>1, <3>3, <3>4 DEF ClosesUnrecorded
  <2>8. CASE cmd[p].op = "port open" /\ CleansUp(p)
    <3>1. At(p, "save")
      BY <2>8 DEF CleansUp
    <3>2. PICK port \in cmd[p].row.ports \ rows[n].ports : cmd'[p].todo = << ClosePort(port, Own) >>
      BY <2>8 DEF CleansUp
    <3>3. ToSet(cmd'[p].todo) = {<<"unforward", port, Own>>}
      BY <3>2, Singleton DEF ClosePort
    <3>4. rows'[n] = rows[n]
      <4>1. rows' = rows
        <5>1. ~(At(p, "save") /\ GoesOn(p))
          <6> SUFFICES ASSUME GoesOn(p) PROVE FALSE
            OBVIOUS
          <6>1. <<"unforward", port, Own>> \in Lasting(Tail(todo))
            BY <3>3 DEF GoesOn, Lasting
          <6> QED
            BY <3>1, <6>1, AfterSave DEF Lasting
        <5>2. ~At(p, "register") /\ ~At(p, "unrow")
          BY <3>1 DEF At
        <5> QED
          BY <2>3, <5>1, <5>2 DEF Outcome
      <4> QED
        BY <4>1
    <3>5. ~Has(cmd'[p].todo, "save")
      BY <3>3 DEF Has
    <3>6. \A step \in ToSet(cmd'[p].todo) : step[2] \notin rows'[n].ports
      BY <3>2, <3>3, <3>4
    <3> QED
      BY <2>1, <2>8, <3>5, <3>6 DEF ClosesUnrecorded
  <2> QED
    BY <2>1, <2>5, <2>6, <2>7, <2>8 DEF ClosesUnrecorded
<1> QED
  BY <1>1, <1>2

\* What others close.
LEMMA OthersClose ==
    ASSUME Core, NEW p \in Procs, DoStep(p), NEW q \in Procs, q # p,
           ClosesUnrecorded(cmd[q])
    PROVE  ClosesUnrecorded(cmd[q])'
<1>1. cmd'[q] = cmd[q] /\ (cmd[q].name \in Names => rows'[cmd[q].name] = rows[cmd[q].name])
  BY OnlyOwn
<1>2. CASE cmd[q] = Idle
  <2>1. cmd'[q] = Idle
    BY <1>1, <1>2
  <2> QED
    BY <2>1, IdleCloses DEF ClosesUnrecorded
<1>3. CASE cmd[q] # Idle
  <2>1. cmd[q].op # "daemon" => rows'[cmd[q].name] = rows[cmd[q].name]
    BY <1>1, <1>3 DEF Core, Shaped
  <2> QED
    BY <1>1, <2>1 DEF ClosesUnrecorded
<1> QED
  BY <1>2, <1>3

\* The daemon does all that it has to do.
LEMMA DaemonGoesOn ==
    ASSUME Core, OpensPorts, NEW p \in Procs, DoStep(p), cmd[p].op = "daemon",
           NEW step, step[1] \in {"open", "forward"},
           \/ step \in ToSet(Tail(cmd[p].todo))
           \/ Reopen(p) /\ step = <<"forward", Key(p), NextStep(p)[3]>>
    PROVE  step \in ToSet(cmd'[p].todo) /\ cmd'[p].op = "daemon"
<1>2. ~Ends(p) /\ ~CleansUp(p) /\ ~At(p, "unrow")
  <2>1. ~At(p, "register") /\ ~At(p, "boot") /\ ~At(p, "save") /\ ~At(p, "unrow")
    BY AtStep DEF Users
  <2> QED
    BY <2>1 DEF Ends, CleansUp
<1>3. step \in Lasting(cmd'[p].todo)
  <2>1. CASE step \in ToSet(Tail(cmd[p].todo))
    <3>1. step \in Lasting(Tail(cmd[p].todo))
      BY <2>1 DEF Lasting
    <3> QED
      BY <1>2, <3>1, Outcomes DEF Outcome, GoesOn
  <2>2. CASE Reopen(p) /\ step = <<"forward", Key(p), NextStep(p)[3]>>
    <3>1. At(p, "open")
      BY <2>2 DEF Reopen
    <3>2. /\ ~At(p, "register") /\ ~At(p, "save") /\ ~At(p, "unrow")
          /\ \A kind : At(p, kind) => kind = "open"
      BY <3>1 DEF At
    <3> QED
      BY <1>2, <2>2, <3>2, Outcomes DEF Outcome
  <2> QED
    BY <2>1, <2>2
<1>4. step \in ToSet(cmd'[p].todo) /\ cmd'[p].todo # <<>>
  BY <1>3 DEF Lasting, ToSet
<1> QED
  BY <1>4, StillThere

LEMMA OpensNow ==
    ASSUME NEW p \in Procs, DoStep(p), At(p, "open")
    PROVE  Reopen(p)
BY StepIs DEF At

\* A rule that is made stays, unless p deletes it.
LEMMA MadeStays ==
    ASSUME Core, OpensPorts, Once, DaemonAlone, RecordedArePorts, Core',
           NEW p \in Procs, DoStep(p), NEW n \in Names, NEW port \in Ports, Present(rows, n),
           Made(n, port), rows'[n].rowid = rows[n].rowid,
           n = cmd[p].name /\ Key(p) = port => ~At(p, "open") /\ ~At(p, "unforward")
    PROVE  Made(n, port)'
<1> DEFINE i == rows[n].rowid
<1>0. i # Own
  BY DEF Present, Own
\* As the daemon reads it, Own is nobody's index.
<1>1. ASSUME cmd[p].op = "daemon", NEW kind \in {"open", "forward"}, At(p, kind), Index(p) = i
      PROVE  NextStep(p) = <<kind, Key(p), i>>
  <2>1. NextStep(p) \in Step /\ NextStep(p)[1] = kind /\ NextStep(p) \in ToSet(cmd[p].todo)
    BY <1>1, AtStep
  <2>2. NextStep(p) = <<kind, NextStep(p)[2], NextStep(p)[3]>>
    BY <2>1 DEF Step
  <2>3. NextStep(p)[3] # Own
    <3>1. ReadsRows(cmd[p])
      BY DEF Core, DaemonIsAlone
    <3>2. PICK m \in Names : HasIndex(m, NextStep(p)[3])
      BY <1>1, <2>1, <3>1 DEF ReadsRows
    <3> QED
      BY <3>2 DEF HasIndex, Present, Own
  <2> QED
    BY <1>1, <2>2, <2>3 DEF Key, Index
<1>2. ASSUME cmd[p].op = "daemon", NEW kind \in {"open", "forward"},
             \/ <<kind, port, i>> \in ToSet(Tail(cmd[p].todo))
             \/ Reopen(p) /\ kind = "forward" /\ Key(p) = port /\ NextStep(p)[3] = i
      PROVE  Made(n, port)'
  <2>1. PICK step : step = <<kind, port, i>>
    OBVIOUS
  <2>2. /\ step[1] \in {"open", "forward"}
        /\ \/ step \in ToSet(Tail(cmd[p].todo))
           \/ Reopen(p) /\ step = <<"forward", Key(p), NextStep(p)[3]>>
    BY <1>2, <2>1
  <2>3. step \in ToSet(cmd'[p].todo) /\ cmd'[p].op = "daemon"
    BY <1>2, <2>2, DaemonGoesOn
  <2> QED
    BY <1>2, <2>1, <2>3 DEF Made
<1>3. CASE i \in ToSet(rules[port])
  <2>1. CASE i \in ToSet(rules'[port])
    BY <2>1 DEF Made
  <2>2. CASE i \notin ToSet(rules'[port])
    <3>1. PICK kind \in {"open", "unforward"} : At(p, kind) /\ port = Key(p) /\ i = Index(p)
      BY <1>3, <2>2, RuleEffect DEF RecordedArePorts
    <3>2. cmd[p].op = "daemon"
      <4> SUFFICES ASSUME cmd[p].op # "daemon" PROVE FALSE
        OBVIOUS
      <4>1. Index(p) = rows[cmd[p].name].rowid /\ Present(rows, cmd[p].name) /\ cmd[p].name \in Names
        BY <3>1, OwnIndex, AtStep
      <4>2. n = cmd[p].name
        BY <3>1, <4>1 DEF Core, RowsAreProjects
      <4> QED
        BY <3>1, <4>2
    <3>3. kind = "open"
      BY <3>1, <3>2, AtStep DEF Users
    <3>4. NextStep(p) = <<"open", port, i>>
      BY <1>1, <3>1, <3>2, <3>3
    <3>5. Reopen(p) /\ NextStep(p)[3] = i
      BY <3>1, <3>3, <3>4, OpensNow
    <3> QED
      BY <1>2, <3>1, <3>2, <3>5
  <2> QED
    BY <2>1, <2>2
<1>4. CASE i \notin ToSet(rules[port])
  <2>1. PICK q \in Procs, kind \in {"open", "forward"} :
           cmd[q].op = "daemon" /\ <<kind, port, i>> \in ToSet(cmd[q].todo)
    BY <1>4 DEF Made
  <2>2. q = p
    BY <2>1, OnlyOwn DEF Core, DaemonIsAlone
  <2>3. PICK head : At(p, head)
    BY TakesStep
  <2> DEFINE step == <<kind, port, i>>
  <2>4. CASE step \in ToSet(Tail(cmd[p].todo))
    BY <1>2, <2>1, <2>2, <2>4
  <2>5. CASE step = NextStep(p)
    <3>1. At(p, kind) /\ Key(p) = port /\ Index(p) = i
      BY <1>0, <2>3, <2>5, AtStep DEF At, Key, Index, NextStep
    <3>2. CASE kind = "open"
      <4>1. Reopen(p) /\ NextStep(p)[3] = i
        BY <2>5, <3>1, <3>2, OpensNow
      <4> QED
        BY <1>2, <2>1, <2>2, <3>1, <4>1
    <3>3. CASE kind = "forward"
      <4>1. ~MayFailAt(p, "forward")
        BY <2>1, <2>2 DEF MayFailAt, RecordedArePorts
      <4>2. ~At(p, "open") /\ ~At(p, "unforward")
        BY <3>1, <3>3 DEF At
      <4>3. i \in ToSet(rules'[port])
        BY <3>1, <3>3, <4>1, <4>2, RuleEffect DEF RecordedArePorts
      <4> QED
        BY <4>3 DEF Made
    <3> QED
      BY <3>2, <3>3
  <2>6. step \in {NextStep(p)} \cup ToSet(Tail(cmd[p].todo))
    BY <2>1, <2>2, <2>3, TailFollows
  <2> QED
    BY <2>4, <2>5, <2>6
<1> QED
  BY <1>3, <1>4

\* Before the daemon has run, nothing is said of rules.
LEMMA StillRestored ==
    ASSUME Core, NEW p \in Procs, DoStep(p), (restored \/ DaemonRuns)'
    PROVE  restored \/ DaemonRuns
<1>1. CASE DaemonRuns'
  <2>1. PICK q \in Procs : cmd'[q].op = "daemon"
    BY <1>1 DEF DaemonRuns
  <2>2. Idle.op = "none"
    BY DEF Idle
  <2>3. cmd[q].op = "daemon"
    BY <2>1, <2>2, OnlyOwn, SameOp
  <2> QED
    BY <2>3 DEF DaemonRuns
<1>2. CASE Ready(p)
  <2>1. At(p, "ready")
    BY <1>2 DEF Ready
  <2>2. cmd[p].op \in Users("ready")
    BY <2>1, AtStep
  <2> QED
    BY <2>2 DEF DaemonRuns, Users
<1>3. CASE ~Ready(p) /\ restored'
  BY Zenon, <1>3 DEF DoStep, Register, Boot, FindNoServer, Serve, Route, Unroute, Record, Reopen,
        Forward, Unforward, Save, Unrow
<1> QED
  BY <1>1, <1>2, <1>3

LEMMA NotClosing ==
    ASSUME Core, NEW p \in Procs, cmd[p].op \in {"destroy", "port close"}
    PROVE  /\ ~At(p, "register") /\ ~At(p, "boot") /\ ~At(p, "open") /\ ~At(p, "forward")
           /\ cmd[p].op = "destroy" => ~At(p, "save")
           /\ cmd[p].op = "port close" => ~At(p, "unrow")
<1>1. \A kind : At(p, kind) => cmd[p].op \in Users(kind)
  BY AtStep
<1>2. /\ Users("register") = {"deploy", "clone", "load"}
      /\ Users("boot") = {"deploy", "clone", "load", "unfreeze"}
      /\ Users("open") = {"deploy", "clone", "port open", "daemon"}
      /\ Users("forward") = {"deploy", "clone", "port open", "daemon"}
      /\ Users("save") = Ops \ {"push", "destroy", "daemon"}
      /\ Users("unrow") = {"push", "destroy", "deploy", "clone"}
  BY DEF Users
<1> QED
  BY <1>1, <1>2

\* The last step of a command that closes ports is done.
LEMMA ClosedAll ==
    ASSUME Core, Core', OpensPorts, RecordedArePorts, NEW p \in Procs, DoStep(p),
           ClosesUnrecorded(cmd[p]), cmd[p].op \in {"destroy", "port close"}, cmd'[p].todo = <<>>
    PROVE  IF cmd[p].op = "destroy" THEN rows'[cmd[p].name].ports = {}
           ELSE At(p, "save") /\ rows' = [rows EXCEPT ![cmd[p].name] = cmd[p].row]
<1> DEFINE n == cmd[p].name
           todo == cmd[p].todo
<1>1. PICK head : At(p, head)
  BY TakesStep
<1>2. ~At(p, "register") /\ ~At(p, "boot") /\ ~At(p, "open") /\ ~CleansUp(p)
  BY NotClosing DEF CleansUp
<1>3. ~Reopen(p)
  BY <1>2 DEF Reopen
<1>4. Lasting(cmd'[p].todo) = {}
  <2>1. ToSet(cmd'[p].todo) = {}
    BY NoElements
  <2> QED
    BY <2>1 DEF Lasting
\* A step that is left.
<1>5. ASSUME NEW kind \in {"save", "unrow"}, Has(todo, kind), ~At(p, kind) PROVE ~GoesOn(p)
  <2>1. Has(Tail(todo), kind)
    BY <1>1, <1>5, HasTail
  <2>2. PICK step \in ToSet(Tail(todo)) : step[1] = kind
    BY <2>1 DEF Has
  <2>3. step \in Lasting(Tail(todo))
    BY <2>2 DEF Lasting
  <2> QED
    BY <1>4, <2>3 DEF GoesOn
<1>6. CASE cmd[p].op = "destroy"
  <2>1. ~MayFailAt(p, "unrow") /\ Has(todo, "unrow")
    BY <1>6 DEF MayFailAt, RecordedArePorts, ClosesUnrecorded
  <2>2. ~At(p, "save")
    BY <1>6, NotClosing
  <2>3. At(p, "unrow")
    <3>1. ~Ends(p)
      BY <1>2, <1>6, <2>2 DEF Ends
    <3> QED
      BY <1>2, <1>3, <1>5, <2>1, <2>2, <3>1, Outcomes DEF Outcome
  <2>4. Unrow(p)
    BY <2>3, StepIs DEF At
  <2>5. rows' = [rows EXCEPT ![n] = NoProject]
    BY <2>1, <2>4 DEF Unrow
  <2>6. rows \in [Names -> Project] /\ n \in Names
    BY <1>1, <1>6, AtStep DEF Core, TypeOK
  <2>7. rows'[n] = NoProject
    BY <2>5, <2>6
  <2> QED
    BY <1>6, <2>7 DEF NoProject
<1>7. CASE cmd[p].op = "port close"
  <2>1. ~MayFailAt(p, "save") /\ Has(todo, "save")
    BY <1>7 DEF MayFailAt, RecordedArePorts, ClosesUnrecorded
  <2>2. ~At(p, "unrow")
    BY <1>7, NotClosing
  <2>3. At(p, "save")
    <3>1. ~Ends(p)
      BY <1>2, <1>7, <2>1 DEF Ends
    <3> QED
      BY <1>2, <1>3, <1>5, <2>1, <2>2, <3>1, Outcomes DEF Outcome
  <2>4. Save(p)
    BY <2>3, StepIs DEF At
  <2>5. rows' = [rows EXCEPT ![n] = cmd[p].row]
    BY <2>1, <2>4 DEF Save
  <2> QED
    BY <1>7, <2>3, <2>5
<1> QED
  BY <1>6, <1>7

\* The ports that rows record.
LEMMA RowsMadeGoesOn ==
    ASSUME Core, Core', OpensPorts, Once, RulesKnown, RulesMade, DaemonAlone, RecordedArePorts,
           NEW p \in Procs, DoStep(p), RowsMade, SavesMade,
           NEW n \in Names, ~Closes(n)', NEW port \in rows'[n].ports
    PROVE  Made(n, port)'
<1> DEFINE todo == cmd[p].todo
<1>0. /\ rows \in [Names -> Project] /\ rows' \in [Names -> Project]
      /\ port \in Ports /\ Outcome(p)
  <2>1. rows \in [Names -> Project] /\ rows' \in [Names -> Project]
    BY DEF Core, TypeOK
  <2>2. rows'[n].ports \subseteq Ports
    BY <2>1 DEF Project
  <2> QED
    BY <2>1, <2>2, Outcomes
<1>1. PICK head : At(p, head)
  BY TakesStep
\* A port that was recorded.
<1>2. ASSUME rows'[n] = rows[n], ~Closes(n),
             n = cmd[p].name /\ Key(p) = port => ~At(p, "open") /\ ~At(p, "unforward")
      PROVE  Made(n, port)'
  <2>1. Made(n, port)
    BY <1>2 DEF RowsMade
  <2>2. Present(rows, n)
    BY <1>2, OnlyRows
  <2> QED
    BY <1>0, <1>2, <2>1, <2>2, MadeStays
<1>3. CASE n # cmd[p].name
  <2>1. rows'[n] = rows[n] /\ \A q \in Procs : q # p => cmd'[q] = cmd[q]
    BY <1>3, OnlyOwn
  <2>2. ~Closes(n)
    <3> SUFFICES ASSUME NEW q \in Procs, cmd[q].name = n, cmd[q].op \in {"destroy", "port close"}
                 PROVE  FALSE
      BY DEF Closes
    <3>1. cmd'[q] = cmd[q]
      BY <1>3, <2>1
    <3> QED
      BY <3>1 DEF Closes
  <2> QED
    BY <1>2, <1>3, <2>1, <2>2
<1>4. CASE n = cmd[p].name
  <2>1. /\ \A q \in Procs : cmd[q].name = n => q = p
        /\ KnowsPorts(cmd[p]) /\ ClosesUnrecorded(cmd[p])
        /\ cmd[p].op # "daemon"
    <3>1. cmd[p].op # "daemon"
      BY <1>1, <1>4, AtStep, NoneAssumption DEF Shaped
    <3> QED
      BY <1>4, <3>1, NoneAssumption DEF Core, OnePerProject, RulesKnown, RulesMade
  \* Save records what is made.
  <2>2. CASE At(p, "save") /\ rows' = [rows EXCEPT ![n] = cmd[p].row]
    <3>1. rows'[n] = cmd[p].row
      BY <1>0, <2>2
    <3>2. Has(todo, "save")
      BY <2>2, HasTail
    <3>3. ~Makes(cmd[p], port)
      <4> SUFFICES ASSUME NEW kind \in {"open", "forward"}, <<kind, port, Own>> \in ToSet(todo)
                   PROVE  FALSE
        BY DEF Makes
      <4>1. <<kind, port, Own>>[1] = kind
        OBVIOUS
      <4>2. <<kind, port, Own>> # NextStep(p)
        BY <2>2, <4>1, AtStep
      <4>3. <<kind, port, Own>> \in ToSet(Tail(todo))
        BY <2>2, <4>2, TailFollows
      <4> QED
        BY <2>2, <4>1, <4>3, AfterSave
    <3>4. Present(rows, n) /\ Made(n, port)
      BY <1>4, <3>1, <3>2, <3>3 DEF SavesMade
    <3>5. ~At(p, "open") /\ ~At(p, "unforward") /\ ~At(p, "register") /\ ~At(p, "unrow")
      BY <2>2 DEF At
    <3>6. rows'[n].rowid = rows[n].rowid
      BY <3>5, SameIndex
    <3> QED
      BY <1>0, <3>4, <3>5, <3>6, MadeStays
  <2>3. CASE rows' = rows /\ ~(At(p, "save") /\ rows' = [rows EXCEPT ![n] = cmd[p].row])
    <3>1. cmd[p].op \notin {"destroy", "port close"}
      <4> SUFFICES ASSUME cmd[p].op \in {"destroy", "port close"} PROVE FALSE
        OBVIOUS
      <4>1. CASE cmd'[p].todo # <<>>
        <5>1. cmd'[p].op = cmd[p].op /\ cmd'[p].name = n
          BY <1>4, <4>1, StillThere
        <5> QED
          BY <5>1 DEF Closes
      <4>2. CASE cmd'[p].todo = <<>> /\ cmd[p].op = "destroy"
        BY <1>4, <2>1, <4>2, ClosedAll
      <4>3. CASE cmd'[p].todo = <<>> /\ cmd[p].op = "port close"
        BY <1>4, <2>1, <2>3, <4>3, ClosedAll
      <4> QED
        BY <4>1, <4>2, <4>3
    <3>2. ~Closes(n)
      BY <2>1, <3>1 DEF Closes
    <3>3. ASSUME NEW kind \in {"open", "unforward"}, At(p, kind), Key(p) = port PROVE FALSE
      <4>1. /\ NextStep(p) \in ToSet(todo) /\ NextStep(p)[1] = kind /\ NextStep(p)[2] = port
            /\ cmd[p].op \in Users(kind)
        BY <3>3, AtStep DEF Key
      <4>2. CASE cmd[p].op = "port open"
        BY <1>4, <2>1, <2>3, <4>1, <4>2 DEF ClosesUnrecorded
      <4>3. CASE cmd[p].op \in {"deploy", "clone"} /\ kind = "open"
        <5>1. Has(todo, "save")
          BY <2>1, <4>1, <4>3 DEF KnowsPorts
        <5>2. rows[n].ports = {}
          BY <1>4, <2>1, <4>3, <5>1 DEF KnowsPorts
        <5> QED
          BY <2>3, <5>2
      <4>4. Users("open") = {"deploy", "clone", "port open", "daemon"}
            /\ Users("unforward") = {"destroy", "port open", "port close"}
        BY DEF Users
      <4> QED
        BY <2>1, <3>1, <4>1, <4>2, <4>3, <4>4
    <3> QED
      BY <1>2, <2>3, <3>2, <3>3
  <2>4. CASE At(p, "register") /\ Registers(p)
    <3>1. PICK r : rows' = [rows EXCEPT ![n] = [NoProject EXCEPT !.rowid = r, !.status = "creating"]]
      BY <1>4, <2>4 DEF Registers
    <3>2. rows'[n] = [NoProject EXCEPT !.rowid = r, !.status = "creating"]
      BY <1>0, <3>1
    <3> QED
      BY <3>2 DEF NoProject
  <2>5. CASE rows' = [rows EXCEPT ![n] = NoProject]
    <3>1. rows'[n] = NoProject
      BY <1>0, <2>5
    <3> QED
      BY <3>1 DEF NoProject
  <2> QED
    BY <1>0, <1>4, <2>2, <2>3, <2>4, <2>5 DEF Outcome
<1> QED
  BY <1>3, <1>4

\* The ports that commands have yet to record.
LEMMA SavesMadeGoesOn ==
    ASSUME Core, Core', OpensPorts, Once, RulesKnown, RulesMade, DaemonAlone, RecordedArePorts,
           NEW p \in Procs, DoStep(p), SavesMade,
           NEW q \in Procs, cmd'[q].name \in Names, Has(cmd'[q].todo, "save"),
           NEW port \in cmd'[q].row.ports
    PROVE  Makes(cmd[q], port)' \/ (Present(rows, cmd[q].name)' /\ Made(cmd[q].name, port)')
<1> DEFINE n == cmd[q].name
           todo == cmd[q].todo
<1>0. port \in Ports
  <2>1. cmd'[q] \in Command
    BY DEF Core, TypeOK
  <2> QED
    BY <2>1 DEF Command, Project
<1>1. CASE q # p
  <2>1. cmd'[q] = cmd[q] /\ n \in Names /\ rows'[n] = rows[n] /\ n # cmd[p].name
    BY <1>1, OnlyOwn, NoneAssumption DEF Core, OnePerProject
  <2>2. CASE Makes(cmd[q], port)
    BY <2>1, <2>2 DEF Makes
  <2>3. CASE ~Makes(cmd[q], port)
    <3>1. Present(rows, n) /\ Made(n, port)
      BY <2>1, <2>3 DEF SavesMade
    <3>2. Made(n, port)'
      BY <1>0, <2>1, <3>1, MadeStays
    <3>3. Present(rows, n)'
      BY <2>1, <3>1 DEF Present
    <3> QED
      BY <2>1, <3>2, <3>3 DEF Made
  <2> QED
    BY <2>2, <2>3
<1>2. CASE q = p
  <2>1. PICK head : At(p, head)
    BY TakesStep
  <2>2. PICK save \in ToSet(cmd'[p].todo) : save[1] = "save"
    BY <1>2 DEF Has
  <2>3. cmd'[p].todo # <<>>
    BY <2>2 DEF ToSet
  <2>4. /\ cmd'[p].op = cmd[p].op /\ cmd'[p].name = n /\ n \in Names
        /\ port \in cmd[p].row.ports
    BY <1>2, <2>3, StillThere, RowPorts DEF RecordedArePorts
  <2>5. ~CleansUp(p)
    <3> SUFFICES ASSUME NEW x, cmd'[p].todo = <<x>>, x[1] # "save" PROVE FALSE
      <4>1. \A x : <<"unforward", x, Own>>[1] # "save" /\ <<"unrow">>[1] # "save"
        OBVIOUS
      <4> QED
        BY <4>1 DEF CleansUp, ClosePort
    <3> QED
      BY <2>2, Singleton
  <2>6. save \in ToSet(Tail(todo)) /\ Has(todo, "save") /\ cmd[p].op \in Users("save")
    <3>1. save \in ToSet(Tail(cmd[p].todo))
      BY <2>2, <2>5, LeftBefore
    <3>2. save \in ToSet(cmd[p].todo)
      BY <2>1, <3>1, TailFollows
    <3>3. Fits(save, cmd[p].op, cmd[p].name)
      BY <2>1, <3>2, AtStep DEF Shaped
    <3> QED
      BY <1>2, <2>2, <3>1, <3>2, <3>3 DEF Has, Fits
  <2>7. cmd[p].op \notin {"daemon", "destroy"}
    BY <2>6 DEF Users
  <2>8. KnowsPorts(cmd[p]) /\ ClosesUnrecorded(cmd[p])
    BY DEF RulesKnown, RulesMade
  <2>9. rows'[n].rowid = rows[n].rowid \/ ~Present(rows, n)
    <3>1. ~At(p, "unrow")
      BY <2>3, <2>5, LastStep
    <3> QED
      BY <1>2, <2>4, <3>1, SameIndex
  \* It opens the port again, or for the first time.
  <2>10. CASE At(p, "open") /\ Key(p) = port
    <3>1. Reopen(p) /\ NextStep(p)[3] = Own
      BY <2>7, <2>10, OpensNow, OwnIndex
    <3>2. /\ ~At(p, "register") /\ ~At(p, "save") /\ ~At(p, "unrow")
          /\ \A kind : At(p, kind) => kind = "open"
      BY <2>10 DEF At
    <3>3. <<"forward", Key(p), NextStep(p)[3]>> \in Lasting(cmd'[p].todo)
      BY <2>3, <2>5, <3>2, Outcomes DEF Outcome, Ends
    <3>4. <<"forward", port, Own>> \in ToSet(cmd'[p].todo)
      BY <2>10, <3>1, <3>3 DEF Lasting
    <3> QED
      BY <1>2, <3>4 DEF Makes
  <2>11. CASE At(p, "forward") /\ Key(p) = port
    <3>1. ~MayFailAt(p, "forward")
      <4>1. cmd[p].op \in Users("forward")
        BY <2>11, AtStep
      <4>2. cmd[p].op \in {"deploy", "clone", "port open", "daemon"}
        BY <4>1 DEF Users
      <4> QED
        BY <4>2 DEF MayFailAt, RecordedArePorts, PortsAreRecorded
    <3>2. ~At(p, "open") /\ ~At(p, "unforward") /\ ~At(p, "register") /\ ~At(p, "unrow")
      BY <2>11 DEF At
    <3>3. Index(p) = rows[n].rowid /\ Present(rows, n)
      BY <1>2, <2>7, <2>11, OwnIndex
    <3>4. Index(p) \in ToSet(rules'[port])
      BY <1>0, <2>11, <3>1, <3>2, RuleEffect DEF RecordedArePorts
    <3>5. rows'[n].rowid = rows[n].rowid
      BY <2>9, <3>3
    <3> QED
      BY <1>2, <2>4, <3>3, <3>4, <3>5 DEF Made, Present
  <2>12. CASE Key(p) = port => ~At(p, "open") /\ ~At(p, "forward")
    <3>1. CASE Makes(cmd[p], port)
      <4>1. PICK kind \in {"open", "forward"} : <<kind, port, Own>> \in ToSet(cmd[p].todo)
        BY <3>1 DEF Makes
      <4>2. PICK step : step = <<kind, port, Own>>
        OBVIOUS
      <4>3. step # NextStep(p)
        <5>1. step[1] = kind /\ step[2] = port
          BY <4>2
        <5> QED
          BY <2>1, <2>12, <5>1, AtStep DEF At, Key, NextStep
      <4>4. step \in ToSet(Tail(cmd[p].todo)) /\ step[1] = kind
        BY <2>1, <4>1, <4>2, <4>3, TailFollows
      <4>5. step \in ToSet(cmd'[p].todo)
        BY <2>3, <2>5, <4>4, LeftStill
      <4> QED
        BY <1>2, <4>2, <4>5 DEF Makes
    <3>2. CASE ~Makes(cmd[p], port)
      <4>1. Present(rows, n) /\ Made(n, port)
        BY <1>2, <2>4, <2>6, <3>2 DEF SavesMade
      <4>2. ~(At(p, "unforward") /\ Key(p) = port)
        <5> SUFFICES ASSUME At(p, "unforward"), Key(p) = port PROVE FALSE
          OBVIOUS
        <5>1. /\ NextStep(p) \in ToSet(cmd[p].todo) /\ NextStep(p)[1] = "unforward"
              /\ NextStep(p)[2] = port /\ cmd[p].op \in Users("unforward")
          BY AtStep DEF Key
        <5>2. cmd[p].op \in {"port open", "port close"}
          BY <2>7, <5>1 DEF Users
        <5>3. CASE cmd[p].op = "port close"
          BY <2>4, <2>8, <5>1, <5>3 DEF ClosesUnrecorded
        <5>4. CASE cmd[p].op = "port open"
          <6>1. Has(cmd[p].todo, "unforward")
            BY <5>1 DEF Has
          <6> QED
            BY <1>2, <2>6, <2>8, <5>4, <6>1 DEF ClosesUnrecorded
        <5> QED
          BY <5>2, <5>3, <5>4
      <4>3. rows'[n].rowid = rows[n].rowid
        BY <2>9, <4>1
      <4>4. Made(n, port)'
        BY <1>0, <1>2, <2>4, <2>12, <4>1, <4>2, <4>3, MadeStays
      <4>5. cmd'[q].name = n
        BY <1>2, <2>4
      <4> QED
        BY <4>1, <4>3, <4>4, <4>5 DEF Made, Present
    <3> QED
      BY <3>1, <3>2
  <2> QED
    BY <2>10, <2>11, <2>12
<1> QED
  BY <1>1, <1>2

LEMMA MadeBegins ==
    ASSUME Core, Core', RulesMade, DaemonAlone, NEW p \in Procs, BeginCommand(p)
    PROVE  RulesMade'
<1>1. /\ rows' = rows /\ rules' = rules /\ restored' = restored /\ cmd[p] = Idle
      /\ \A q \in Procs : q # p => cmd'[q] = cmd[q]
  BY OnlyOwnBegins
<1>2. PICK c : c = cmd'[p]
  OBVIOUS
<1>3. Started(c) /\ rows \in [Names -> Project]
  BY <1>2, Beginning DEF Core, TypeOK
<1>4. \A q \in Procs : ClosesUnrecorded(cmd[q])'
  <2> SUFFICES ASSUME NEW q \in Procs PROVE ClosesUnrecorded(cmd[q])'
    OBVIOUS
  <2>1. CASE q = p
    <3>1. ClosesUnrecorded(cmd[p])'
      BY ClosesBegins
    <3> QED
      BY <2>1, <3>1 DEF ClosesUnrecorded
  <2>2. CASE q # p
    <3>1. ClosesUnrecorded(cmd[q]) /\ cmd'[q] = cmd[q]
      BY <1>1, <2>2 DEF RulesMade
    <3> QED
      BY <1>1, <3>1 DEF ClosesUnrecorded
  <2> QED
    BY <2>1, <2>2
<1>5. CASE c.op = "daemon"
  <2>1. \A q \in Procs : q # p => cmd'[q] = Idle
    BY <1>1, <1>2, <1>5 DEF Core, DaemonIsAlone
  <2>2. ASSUME NEW n \in Names, NEW port \in rows[n].ports PROVE Made(n, port)'
    <3>2. <<port, rows[n].rowid>> \in UNION {rows[m].ports \X {rows[m].rowid} : m \in Names}
      BY <2>2
    <3>3. ToSet(c.todo) = {<<"ready">>} \cup {<<"open", x[1], x[2]>> :
                                x \in UNION {rows[m].ports \X {rows[m].rowid} : m \in Names}}
      BY <1>3, <1>5 DEF Started
    <3>4. <<"open", port, rows[n].rowid>> \in ToSet(c.todo)
      BY <3>2, <3>3
    <3> QED
      BY <1>1, <1>2, <1>5, <3>4 DEF Made
  <2>3. ASSUME NEW q \in Procs, cmd'[q].name \in Names PROVE FALSE
    <3>1. Idle.name = NoName
      BY DEF Idle
    <3>2. c.name = NoName
      BY <1>3, <1>5 DEF Started
    <3> QED
      BY <1>2, <2>1, <2>3, <3>1, <3>2, NoneAssumption
  <2>4. RowsMade'
    BY <1>1, <2>2 DEF RowsMade
  <2>5. SavesMade'
    BY <2>3 DEF SavesMade
  <2> QED
    BY <1>4, <2>4, <2>5 DEF RulesMade
<1>6. CASE c.op # "daemon"
  <2> SUFFICES ASSUME (restored \/ DaemonRuns)' PROVE RowsMade' /\ SavesMade'
    BY <1>4 DEF RulesMade
  <2>1. RowsMade /\ SavesMade
    <3>1. restored \/ DaemonRuns
      <4>1. DaemonRuns' => DaemonRuns
        BY <1>1, <1>2, <1>6 DEF DaemonRuns
      <4> QED
        BY <1>1, <4>1
    <3> QED
      BY <3>1 DEF RulesMade
  <2>2. c.op \in Ops /\ c.name \in Names
    BY <1>3, <1>6 DEF Started, Ops
  <2>3. ~Closes(c.name)
    <3> SUFFICES ASSUME NEW q \in Procs, cmd[q].name = c.name PROVE FALSE
      BY DEF Closes
    <3>1. q # p
      BY <1>1, <2>2, NoneAssumption DEF Idle
    <3>2. cmd'[q].name = cmd'[p].name
      BY <1>1, <1>2, <3>1
    <3> QED
      BY <1>2, <2>2, <3>1, <3>2, NoneAssumption DEF Core, OnePerProject
  <2>4. \A n, port : Made(n, port) => Made(n, port)'
    <3> SUFFICES ASSUME NEW n, NEW port, Made(n, port) PROVE Made(n, port)'
      OBVIOUS
    <3>1. CASE rows[n].rowid \in ToSet(rules[port])
      BY <1>1, <3>1 DEF Made
    <3>2. CASE rows[n].rowid \notin ToSet(rules[port])
      <4>1. PICK q \in Procs : /\ cmd[q].op = "daemon"
                               /\ \E kind \in {"open", "forward"} :
                                     <<kind, port, rows[n].rowid>> \in ToSet(cmd[q].todo)
        BY <3>2 DEF Made
      <4>2. q # p
        BY <1>1, <4>1 DEF Idle
      <4> QED
        BY <1>1, <4>1, <4>2 DEF Made
    <3> QED
      BY <3>1, <3>2
  <2>5. RowsMade'
    <3>1. \A n \in Names : Closes(n) => Closes(n)'
      <4> SUFFICES ASSUME NEW n \in Names, NEW q \in Procs, cmd[q].name = n,
                          cmd[q].op \in {"destroy", "port close"}
                   PROVE  Closes(n)'
        BY DEF Closes
      <4>0. Idle.op = "none"
        BY DEF Idle
      <4>1. q # p
        BY <1>1, <4>0
      <4> QED
        BY <1>1, <4>1 DEF Closes
    <3>2. ASSUME NEW n \in Names, ~Closes(n)', NEW port \in rows'[n].ports PROVE Made(n, port)'
      <4>1. Made(n, port)
        BY <1>1, <2>1, <3>1, <3>2 DEF RowsMade
      <4> QED
        BY <2>4, <4>1
    <3> QED
      BY <3>2 DEF RowsMade
  <2>6. ASSUME NEW port \in c.row.ports, Has(c.todo, "save")
        PROVE  Makes(c, port) \/ (Present(rows, c.name) /\ Made(c.name, port))
    <3>0. rows[c.name] \in Project
      BY <1>3, <2>2
    <3>1. CASE port \in rows[c.name].ports
      BY <2>1, <2>2, <2>3, <3>1, OnlyRows DEF RowsMade
    <3>2. CASE port \notin rows[c.name].ports
      <4>1. OpenPort(port, Own) \in ToSet(c.todo)
        <5>1. CASE c.op \in {"deploy", "clone"}
          BY <1>3, <2>6, <5>1 DEF Started
        <5>2. CASE c.op = "load"
          BY <1>3, <2>6, <5>2 DEF Started, Making, NoProject
        <5>3. CASE c.op \in {"push", "destroy"}
          <6>1. c.row = rows[c.name]
            BY <1>3, <5>3 DEF Started
          <6> QED
            BY <2>6, <3>2, <6>1
        <5>4. CASE c.op \in {"freeze", "unfreeze", "route add", "route remove", "unexpose"}
          <6>1. c.row.ports = rows[c.name].ports
            <7>1. CASE c.op \in {"freeze", "unfreeze"}
              BY <1>3, <3>0, <7>1 DEF Started, Project
            <7>2. CASE c.op = "route add"
              <8>1. PICK h \in HostsOf(c.name) :
                       c.row = [rows[c.name] EXCEPT !.status = "running", !.expose = TRUE,
                                                    !.domain = h]
                BY <1>3, <7>2 DEF Started
              <8> QED
                BY <3>0, <8>1 DEF Project
            <7>3. CASE c.op \in {"route remove", "unexpose"}
              <8>1. c.row = Unexposed(rows[c.name]) \/ c.row = rows[c.name]
                BY <1>3, <7>3 DEF Started
              <8> QED
                BY <3>0, <8>1 DEF Unexposed, Project
            <7> QED
              BY <5>4, <7>1, <7>2, <7>3
          <6> QED
            BY <2>6, <3>2, <6>1
        <5>5. CASE c.op = "port open"
          <6>1. PICK new \in Ports : /\ c.row = [rows[c.name] EXCEPT !.ports = @ \cup {new}]
                                     /\ OpenPort(new, Own) \in ToSet(c.todo)
            BY <1>3, <5>5 DEF Started
          <6> QED
            BY <2>6, <3>0, <3>2, <6>1 DEF Project
        <5>6. CASE c.op = "port close"
          <6>1. PICK old \in Ports : c.row = [rows[c.name] EXCEPT !.ports = @ \ {old}]
            BY <1>3, <5>6 DEF Started
          <6> QED
            BY <2>6, <3>0, <3>2, <6>1 DEF Project
        <5> QED
          BY <1>6, <2>2, <5>1, <5>2, <5>3, <5>4, <5>5, <5>6 DEF Ops
      <4> QED
        BY <4>1 DEF Makes, OpenPort
    <3> QED
      BY <3>1, <3>2
  <2>7. SavesMade'
    <3> SUFFICES ASSUME NEW q \in Procs, cmd'[q].name \in Names, Has(cmd'[q].todo, "save"),
                        NEW port \in cmd'[q].row.ports
                 PROVE  \/ Makes(cmd[q], port)'
                        \/ Present(rows, cmd[q].name)' /\ Made(cmd[q].name, port)'
      BY DEF SavesMade
    <3>1. Makes(cmd'[q], port) \/ (Present(rows, cmd'[q].name) /\ Made(cmd'[q].name, port))
      <4>1. CASE q = p
        BY <1>2, <2>6, <4>1
      <4>2. CASE q # p
        BY <1>1, <2>1, <4>2 DEF SavesMade
      <4> QED
        BY <4>1, <4>2
    <3>2. PICK n : n = cmd'[q].name
      OBVIOUS
    <3>3. Made(n, port) => Made(n, port)'
      BY <2>4
    <3> QED
      BY <1>1, <3>1, <3>2, <3>3 DEF Makes, Made, Present
  <2> QED
    BY <2>5, <2>7
<1> QED
  BY <1>5, <1>6

LEMMA MadeInv == ASSUME DaemonAlone, RecordedArePorts PROVE Spec => []RulesMade
<1>0. PortsAreRecorded /\ RulesAreReplaced
  BY DEF RecordedArePorts, PortsAreRecorded
<1>1. Init => RulesMade
  <2> SUFFICES ASSUME Init PROVE RulesMade
    OBVIOUS
  <2>1. \A p \in Procs : cmd[p] = Idle
    BY DEF Init
  <2>2. \A p \in Procs : ClosesUnrecorded(cmd[p])
    BY <2>1, IdleCloses
  <2>3. RowsMade
    <3>1. \A n \in Names : rows[n].ports = {}
      BY DEF Init, NoProject
    <3> QED
      BY <3>1 DEF RowsMade
  <2>4. SavesMade
    BY <2>1, IdleIs, NoneAssumption DEF SavesMade
  <2> QED
    BY <2>2, <2>3, <2>4 DEF RulesMade
<1>2. RulesMade /\ (Core /\ OpensPorts) /\ (Core /\ OpensPorts)' /\ Once /\ RulesKnown /\ [Next]_vars
         => RulesMade'
  <2> SUFFICES ASSUME RulesMade, Core, Core', OpensPorts, Once, RulesKnown, [Next]_vars
               PROVE  RulesMade'
    OBVIOUS
  <2>1. ASSUME NEW p \in Procs, BeginCommand(p) PROVE RulesMade'
    BY <2>1, MadeBegins
  <2>2. ASSUME NEW p \in Procs, DoStep(p) PROVE RulesMade'
    <3>1. ASSUME NEW q \in Procs PROVE ClosesUnrecorded(cmd[q])'
      <4>0. ClosesUnrecorded(cmd[q])
        BY DEF RulesMade
      <4>1. CASE q = p
        <5>1. ClosesUnrecorded(cmd[p])'
          BY <1>0, <2>2, <4>0, <4>1, ClosesGoesOn
        <5> QED
          BY <4>1, <5>1 DEF ClosesUnrecorded
      <4>2. CASE q # p
        BY <2>2, <4>0, <4>2, OthersClose
      <4> QED
        BY <4>1, <4>2
    <3>2. ASSUME (restored \/ DaemonRuns)' PROVE RowsMade' /\ SavesMade'
      <4>1. RowsMade /\ SavesMade
        BY <2>2, <3>2, StillRestored DEF RulesMade
      <4>2. RowsMade'
        <5>1. \A n \in Names : ~Closes(n)' => \A port \in rows'[n].ports : Made(n, port)'
          BY <2>2, <4>1, RowsMadeGoesOn
        <5> QED
          BY <5>1 DEF RowsMade
      <4>3. SavesMade'
        <5>1. \A q \in Procs : cmd'[q].name \in Names /\ Has(cmd'[q].todo, "save") =>
                 \A port \in cmd'[q].row.ports :
                    Makes(cmd[q], port)' \/ (Present(rows, cmd[q].name)' /\ Made(cmd[q].name, port)')
          BY <2>2, <4>1, SavesMadeGoesOn
        <5> QED
          BY <5>1 DEF SavesMade
      <4> QED
        BY <4>2, <4>3
    <3> QED
      BY <3>1, <3>2 DEF RulesMade
  <2>3. CASE Reboot
    <3>1. restored' = FALSE /\ \A p \in Procs : cmd'[p] = Idle
      BY <2>3 DEF Reboot
    <3>2. \A p \in Procs : ClosesUnrecorded(cmd[p])'
      BY <3>1, IdleCloses DEF ClosesUnrecorded
    <3>3. ~DaemonRuns'
      BY <3>1 DEF DaemonRuns, Idle
    <3> QED
      BY <3>1, <3>2, <3>3 DEF RulesMade
  <2>4. CASE UNCHANGED vars
    <3>1. rows' = rows /\ cmd' = cmd /\ rules' = rules /\ restored' = restored
      BY <2>4 DEF vars
    <3>2. \A p \in Procs : ClosesUnrecorded(cmd[p])'
      BY <3>1 DEF RulesMade, ClosesUnrecorded
    <3>3. (restored \/ DaemonRuns)' => RowsMade /\ SavesMade
      BY <3>1 DEF RulesMade, DaemonRuns
    <3>4. RowsMade => RowsMade'
      BY <3>1 DEF RowsMade, Closes, Made
    <3>5. SavesMade => SavesMade'
      BY <3>1 DEF SavesMade, Makes, Made, Present
    <3> QED
      BY <3>2, <3>3, <3>4, <3>5 DEF RulesMade
  <2> QED
    BY <2>1, <2>2, <2>3, <2>4 DEF Next
<1> QED
  BY <1>0, <1>1, <1>2, CoreInv, OnceInv, KnownInv, PTL DEF Spec

\* Between commands iptables has, of each project, a rule for every port that
\* its row records, once, and no other: the rules are known to rows or to the
\* commands that made them, none is made twice, and a port is recorded only by a
\* command that has forwarded it (port.go:86, :133; daemon.go:142).
THEOREM PortsAgree ==
    ASSUME DaemonAlone, RecordedArePorts
    PROVE  Spec => []PortsMatchStore
<1>0. PortsAreRecorded /\ RulesAreReplaced
  BY DEF RecordedArePorts, PortsAreRecorded
<1>1. Core /\ Once /\ RulesKnown /\ RulesMade => PortsMatchStore
  <2> SUFFICES ASSUME Core, Once, RulesKnown, RulesMade,
                      NEW n \in Names, NEW port \in Ports,
                      Present(rows, n), Quiet(n), ~DaemonRuns
               PROVE  LET open == Cardinality({k \in DOMAIN rules[port] :
                                                  rules[port][k] = rows[n].rowid})
                      IN IF port \in rows[n].ports
                         THEN open <= 1 /\ (restored => open = 1)
                         ELSE open = 0
    BY DEF PortsMatchStore
  <2> DEFINE there == {k \in DOMAIN rules[port] : rules[port][k] = rows[n].rowid}
  <2>1. there = {} \/ \E k : there = {k}
    <3> SUFFICES ASSUME NEW k \in there PROVE there = {k}
      OBVIOUS
    <3>1. \A j, l \in DOMAIN rules[port] : rules[port][j] = rules[port][l] => j = l
      BY DEF Once, ForwardedOnce, IsInjective
    <3> QED
      BY <3>1
  <2>2. IF there = {} THEN Cardinality(there) = 0 ELSE Cardinality(there) = 1
    <3>1. CASE there = {}
      BY <3>1, FS_EmptySet
    <3>2. CASE there # {}
      <4>1. PICK k : there = {k}
        BY <2>1, <3>2
      <4>2. Cardinality({k}) = 1
        BY FS_Singleton
      <4> QED
        BY <3>2, <4>1, <4>2
    <3> QED
      BY <3>1, <3>2
  <2>3. there # {} => port \in rows[n].ports
    <3>1. there # {} => rows[n].rowid \in ToSet(rules[port])
      BY DEF ToSet
    <3> QED
      BY <3>1 DEF RulesKnown
  <2>4. restored /\ port \in rows[n].ports => there # {}
    <3> SUFFICES ASSUME restored, port \in rows[n].ports PROVE there # {}
      OBVIOUS
    <3>1. ~Closes(n)
      BY DEF Closes, Quiet
    <3>2. Made(n, port)
      BY <3>1 DEF RulesMade, RowsMade
    <3>3. rows[n].rowid \in ToSet(rules[port])
      BY <3>2 DEF Made, DaemonRuns
    <3> QED
      BY <3>3 DEF ToSet
  <2> QED
    BY <2>2, <2>3, <2>4
<1> QED
  BY <1>0, <1>1, CoreInv, OnceInv, KnownInv, MadeInv, PTL
-----------------------------------------------------------------------------
(* Names and routes of running projects.

   First what a step leaves of its command, routes included. *)

\* Until the command ends, the contents that it will save are the same but for
\* their ports, and for the index that register gives it.
LEMMA RowStays ==
    ASSUME Core, NEW p \in Procs, DoStep(p), cmd'[p].todo # <<>>
    PROVE  /\ cmd'[p].row.made = cmd[p].row.made /\ cmd'[p].row.expose = cmd[p].row.expose
           /\ cmd'[p].row.status = cmd[p].row.status /\ cmd'[p].row.domain = cmd[p].row.domain
           /\ ~At(p, "register") => cmd'[p].row.rowid = cmd[p].row.rowid
<1>0. Idle.todo = <<>>
  BY DEF Idle
<1>1. /\ cmd \in [Procs -> Command] /\ cmd[p] \in Command /\ cmd[p].row \in Project
  BY DEF Core, TypeOK, Command
<1> DEFINE Same(row) ==
              /\ row.made = cmd[p].row.made /\ row.expose = cmd[p].row.expose
              /\ row.status = cmd[p].row.status /\ row.domain = cmd[p].row.domain
<1>2. \A s : Continue(p, [cmd[p] EXCEPT !.todo = s]) => cmd'[p].row = cmd[p].row
  BY <1>0, Continued
<1>3. ASSUME NEW s, NEW x, Continue(p, [cmd[p] EXCEPT !.todo = s, !.row.rowid = x])
      PROVE  Same(cmd'[p].row)
  <2> DEFINE c == [cmd[p] EXCEPT !.todo = s, !.row.rowid = x]
  <2>1. Same(c.row)
    BY <1>1 DEF Command, Project
  <2>2. cmd'[p] = IF c.todo = <<>> THEN Idle ELSE c
    BY <1>1, <1>3 DEF Continue
  <2> HIDE DEF c
  <2> QED
    BY <1>0, <2>1, <2>2
<1>4. ASSUME NEW s, NEW x, Continue(p, [cmd[p] EXCEPT !.todo = s, !.row.ports = x])
      PROVE  Same(cmd'[p].row) /\ cmd'[p].row.rowid = cmd[p].row.rowid
  <2> DEFINE c == [cmd[p] EXCEPT !.todo = s, !.row.ports = x]
  <2>1. Same(c.row) /\ c.row.rowid = cmd[p].row.rowid
    BY <1>1 DEF Command, Project
  <2>2. cmd'[p] = IF c.todo = <<>> THEN Idle ELSE c
    BY <1>1, <1>4 DEF Continue
  <2> HIDE DEF c
  <2> QED
    BY <1>0, <2>1, <2>2
<1>5. CASE Register(p)
  BY Zenon, <1>2, <1>3, <1>5 DEF Register, GiveUp
<1>6. CASE Boot(p) \/ Serve(p) \/ Route(p) \/ FindNoServer(p) \/ Reopen(p)
  BY <1>2, <1>6 DEF Boot, Serve, Route, FindNoServer, Reopen, GiveUp, Advance, RouteFails
<1>7. CASE Unroute(p) \/ Record(p) \/ Unforward(p) \/ Unrow(p) \/ Ready(p)
  BY <1>2, <1>7 DEF Unroute, Record, Unforward, Unrow, Ready, Advance
<1>8. CASE Forward(p)
  BY <1>2, <1>4, <1>8 DEF Forward, Advance, GiveUp
<1>9. CASE Save(p)
  BY <1>2, <1>9 DEF Save, Advance, GiveUp
<1> QED
  BY <1>5, <1>6, <1>7, <1>8, <1>9 DEF DoStep

\* All that a step adds to what is left.
LEMMA StepsLeft ==
    ASSUME Core, NEW p \in Procs, DoStep(p), NEW step \in ToSet(cmd'[p].todo)
    PROVE  \/ step \in ToSet(Tail(cmd[p].todo))
           \/ step[1] \in {"unrow", "unforward", "forward"}
           \/ FindNoServer(p) /\ step \in {<<"serve">>, NextStep(p)}
<1>0. Idle.todo = <<>> /\ ToSet(<<>>) = {} /\ \A x : ToSet(<<x>>) = {x}
  BY DEF Idle, ToSet
<1>1. PICK kind : At(p, kind)
  BY TakesStep
<1> DEFINE todo == cmd[p].todo
           Stays == step \in ToSet(Tail(todo))
<1>2. todo \in Seq(Step) /\ todo # <<>> /\ NextStep(p) = Head(todo)
         /\ ToSet(todo) = {NextStep(p)} \cup ToSet(Tail(todo)) /\ Tail(todo) \in Seq(Step)
  BY <1>1, AtStep, TailFollows
<1>3. ASSUME Advance(p) PROVE Stays
  BY <1>3, AdvanceOn
<1>4. ASSUME GiveUp(p, <<>>) PROVE FALSE
  BY <1>0, <1>4, GivenUp
<1>5. ASSUME NEW s, s = Tail(Tail(todo)), At(p, "serve"), RouteFails(p, s) PROVE Stays
  <2>1. CASE cmd[p].op = "route add"
    BY <1>4, <1>5, <2>1 DEF RouteFails
  <2>2. CASE cmd[p].op # "route add"
    <3>1. cmd'[p].todo = s
      BY <1>5, <2>2, TodoIs DEF RouteFails
    <3>2. PICK t : t = Tail(todo)
      OBVIOUS
    <3>3. t \in Seq(Step) /\ t # <<>> /\ s = Tail(t)
      BY <1>5, <3>2, AtStep, TailFollows DEF Shaped
    <3>4. ToSet(t) = {Head(t)} \cup ToSet(s)
      BY <3>3, TailElements
    <3> QED
      BY <3>1, <3>2, <3>4
  <2> QED
    BY <2>1, <2>2
<1>6. ASSUME NEW s, s = Tail(todo), RouteFails(p, s) PROVE Stays
  BY <1>4, <1>6, TodoIs DEF RouteFails
<1>7. CASE Register(p)
  <2>1. ASSUME NEW r, Continue(p, [cmd[p] EXCEPT !.todo = Tail(@), !.row.rowid = r])
        PROVE  Stays
    BY <2>1, ContinuedRow
  <2> QED
    BY <1>4, <1>7, <2>1 DEF Register
<1>8. CASE Boot(p)
  <2>1. ASSUME GiveUp(p, << <<"unrow">> >>) PROVE step = <<"unrow">>
    BY <1>0, <2>1, GivenUp
  <2> QED
    BY <1>3, <1>4, <1>8, <2>1 DEF Boot, When
<1>9. CASE FindNoServer(p)
  <2>1. PICK s : s = << <<"serve">> >> \o todo
    OBVIOUS
  <2>2. cmd'[p].todo = s
    BY <1>9, <2>1, TodoIs DEF FindNoServer
  <2>3. <<"serve">> \in Step
    BY DEF Step
  <2>4. ToSet(s) = {<<"serve">>} \cup ToSet(todo)
    BY <1>2, <2>1, <2>3, Prepended
  <2> QED
    BY <1>2, <1>9, <2>2, <2>4
<1>10. CASE Serve(p)
  BY <1>3, <1>5, <1>10 DEF Serve
<1>11. CASE Route(p)
  BY <1>3, <1>6, <1>11 DEF Route
<1>12. CASE Unroute(p) \/ Record(p) \/ Unforward(p) \/ Ready(p) \/ Unrow(p)
  BY <1>3, <1>12 DEF Unroute, Record, Unforward, Ready, Unrow
<1>13. CASE Reopen(p)
  <2>1. PICK x : x = <<"forward", Key(p), NextStep(p)[3]>>
    OBVIOUS
  <2>2. PICK s : s = <<x>> \o Tail(todo)
    OBVIOUS
  <2>3. cmd'[p].todo = s
    BY <1>13, <2>1, <2>2, TodoIs DEF Reopen
  <2>4. At(p, "open")
    BY <1>13 DEF Reopen
  <2>5. x \in Step /\ x[1] = "forward"
    BY <2>1, <2>4, AtStep, StepTypes DEF Key
  <2>6. PICK t \in Seq(Step) : t = Tail(todo)
    BY <1>2
  <2>7. ToSet(<<x>> \o t) = {x} \cup ToSet(t)
    BY ONLY <2>5, Prepended
  <2> QED
    BY <2>2, <2>3, <2>5, <2>6, <2>7
<1>14. CASE Forward(p)
  <2>1. ASSUME Continue(p, [cmd[p] EXCEPT !.todo = Tail(@), !.row.ports = @ \ {Key(p)}])
        PROVE  Stays
    BY <2>1, ContinuedRow
  <2> QED
    BY <1>3, <1>4, <1>14, <2>1 DEF Forward
<1>15. CASE Save(p)
  <2>1. CASE GiveUp(p, AfterFailedSave(p))
    <3>1. PICK s : s = AfterFailedSave(p)
      OBVIOUS
    <3>2. cmd'[p].todo = s
      BY <2>1, <3>1, GivenUp
    <3>3. \/ s = <<>> \/ s = Tail(todo)
          \/ \E x : s = <<x>> /\ x[1] \in {"unrow", "unforward"}
      <4>1. \/ s = <<>> \/ s = Tail(todo) \/ s = << <<"unrow">> >>
            \/ \E port : s = << <<"unforward", port, Own>> >>
        BY <3>1 DEF AfterFailedSave, ClosePort
      <4>2. PICK x : x = <<"unrow">>
        OBVIOUS
      <4>3. x[1] = "unrow" /\ \A port : <<"unforward", port, Own>>[1] = "unforward"
        BY <4>2
      <4> QED
        BY <4>1, <4>2, <4>3
    <3>4. ASSUME NEW x, s = <<x>>, x[1] \in {"unrow", "unforward"}
          PROVE  step[1] \in {"unrow", "unforward"}
      <4>1. ToSet(s) = {x}
        BY <1>0, <3>4
      <4> QED
        BY <3>2, <3>4, <4>1
    <3>5. s # <<>>
      BY <1>0, <3>2
    <3> QED
      BY <3>2, <3>3, <3>4, <3>5
  <2> QED
    BY <1>3, <1>15, <2>1 DEF Save
<1> QED
  BY <1>7, <1>8, <1>9, <1>10, <1>11, <1>12, <1>13, <1>14, <1>15 DEF DoStep

\* The command goes on with what it had left, routes and rules aside.
Left(p) ==
    \A x : x[1] \notin {"serve", "route", "forward"} =>
              (x \in ToSet(cmd'[p].todo) <=> x \in ToSet(Tail(cmd[p].todo)))

LEMMA LeftHas ==
    ASSUME NEW p \in Procs, Left(p), NEW kind, kind \notin {"serve", "route", "forward"}
    PROVE  Has(cmd'[p].todo, kind) <=> Has(Tail(cmd[p].todo), kind)
BY DEF Left, Has

\* What a step does to the row of its command and to what it has left.  Only
\* failures leave a row as it is at its save or unrow, or give up the rest.
LEMMA Leaves ==
    ASSUME Core, OpensPorts, NEW p \in Procs, DoStep(p)
    PROVE  \/ /\ rows' = rows /\ Left(p) /\ ~At(p, "register")
              /\ At(p, "save") => cmd[p].op = "route remove" /\ MayFailAt(p, "save")
              /\ At(p, "unrow") => MayFailAt(p, "unrow")
           \/ At(p, "register") /\ Registers(p) /\ Left(p)
           \/ /\ At(p, "save") /\ Left(p)
              /\ rows' = [rows EXCEPT ![cmd[p].name] = cmd[p].row]
           \/ /\ At(p, "unrow") /\ cmd'[p].todo = <<>>
              /\ rows' = [rows EXCEPT ![cmd[p].name] = NoProject]
           \/ /\ Ends(p) /\ rows' = rows
              /\ At(p, "save") => MayFailAt(p, "save")
           \/ CleansUp(p) /\ rows' = rows
<1>1. GoesOn(p) => Left(p)
  BY LastingHas DEF GoesOn, Left
<1>2. ASSUME Lasting(cmd'[p].todo) = {<<"forward", Key(p), NextStep(p)[3]>>}
                                        \cup Lasting(Tail(cmd[p].todo))
      PROVE  Left(p)
  <2> SUFFICES ASSUME NEW x, x[1] \notin {"serve", "route", "forward"}
               PROVE  x \in ToSet(cmd'[p].todo) <=> x \in ToSet(Tail(cmd[p].todo))
    BY DEF Left
  <2>1. x # <<"forward", Key(p), NextStep(p)[3]>>
    OBVIOUS
  <2>2. /\ x \in ToSet(cmd'[p].todo) <=> x \in Lasting(cmd'[p].todo)
        /\ x \in ToSet(Tail(cmd[p].todo)) <=> x \in Lasting(Tail(cmd[p].todo))
    BY DEF Lasting
  <2> QED
    BY <1>2, <2>1, <2>2
<1>3. /\ rows \in [Names -> Project]
      /\ \A kind : At(p, kind) => \A other : other # kind => ~At(p, other)
  BY DEF Core, TypeOK, At
\* A row that an action may write is only left alone by a failure.
<1>4. ASSUME At(p, "save"), rows' = rows
      PROVE  \/ MayFailAt(p, "save")
             \/ Left(p) /\ rows' = [rows EXCEPT ![cmd[p].name] = cmd[p].row]
  <2>1. Save(p)
    BY <1>4, StepIs DEF At
  <2> QED
    BY <1>1, <1>4, <2>1, AdvanceOn DEF Save
<1>5. ASSUME At(p, "unrow"), rows' = rows
      PROVE  \/ MayFailAt(p, "unrow")
             \/ /\ cmd'[p].todo = <<>>
                /\ rows' = [rows EXCEPT ![cmd[p].name] = NoProject]
  <2>1. Unrow(p)
    BY <1>5, StepIs DEF At
  <2>2. PICK s : s = Tail(cmd[p].todo)
    OBVIOUS
  <2>3. s \in Seq(Step) /\ \A y \in ToSet(s) : Follows(cmd[p].op, NextStep(p), y)
           /\ NextStep(p)[1] = "unrow"
    BY <1>5, <2>2, AtStep, TailFollows
  <2>4. s = <<>>
    BY <2>3, Elements DEF Follows
  <2>5. cmd'[p].todo = <<>>
    BY <2>1, <2>2, <2>4, AdvanceOn DEF Unrow
  <2> QED
    BY <2>1, <2>5 DEF Unrow
<1>6. Outcome(p)
  BY Outcomes
<1>7. CASE At(p, "register") /\ Registers(p) /\ GoesOn(p)
  BY <1>1, <1>7
<1>8. CASE At(p, "save") /\ rows' = [rows EXCEPT ![cmd[p].name] = cmd[p].row] /\ GoesOn(p)
  BY <1>1, <1>8
<1>9. CASE /\ At(p, "unrow") /\ rows' = [rows EXCEPT ![cmd[p].name] = NoProject]
           /\ cmd'[p].todo = <<>>
  BY <1>9
<1>10. CASE /\ \E kind : At(p, kind) /\ kind \notin {"register", "open"}
            /\ At(p, "save") => cmd[p].op = "route remove"
            /\ rows' = rows /\ GoesOn(p)
  <2>1. ~At(p, "register")
    BY <1>3, <1>10
  <2> QED
    BY <1>1, <1>4, <1>5, <1>10, <2>1
<1>11. CASE /\ Reopen(p) /\ rows' = rows
            /\ Lasting(cmd'[p].todo) = {<<"forward", Key(p), NextStep(p)[3]>>}
                                          \cup Lasting(Tail(cmd[p].todo))
  <2>1. ~At(p, "register") /\ ~At(p, "save") /\ ~At(p, "unrow")
    BY <1>3, <1>11 DEF Reopen
  <2> QED
    BY <1>2, <1>11, <2>1
<1>12. CASE Ends(p) /\ rows' = rows
  BY <1>4, <1>12
<1>13. CASE CleansUp(p) /\ rows' = rows
  BY <1>13
<1> QED
  BY <1>6, <1>7, <1>8, <1>9, <1>10, <1>11, <1>12, <1>13 DEF Outcome

-----------------------------------------------------------------------------
(* One command at a time finds Caddy without its server. *)

ServesAlone ==
    /\ \A p \in Procs : At(p, "serve") => ~server
    /\ ~server => \A p, q \in Procs :
                     Has(cmd[p].todo, "route") /\ Has(cmd[q].todo, "route") => p = q

\* Whoever is to put the server is about to add a route.
LEMMA ServeBeforeRoute ==
    ASSUME Core, NEW p \in Procs, At(p, "serve")
    PROVE  Has(cmd[p].todo, "route") /\ Has(Tail(cmd[p].todo), "route")
<1>1. PICK s : s = Tail(cmd[p].todo)
  OBVIOUS
<1>2. s \in Seq(Step) /\ s # <<>> /\ Head(s)[1] = "route"
         /\ ToSet(cmd[p].todo) = {NextStep(p)} \cup ToSet(s)
  BY <1>1, AtStep, TailFollows DEF Shaped
<1>3. Head(s) \in ToSet(s)
  BY <1>2, Elements
<1> QED
  BY <1>1, <1>2, <1>3 DEF Has

LEMMA RoutesLeft ==
    ASSUME Core, NEW p \in Procs, DoStep(p)
    PROVE  /\ Has(cmd'[p].todo, "route") => Has(cmd[p].todo, "route")
           /\ Has(cmd'[p].todo, "serve") => FindNoServer(p)
<1>1. PICK kind : At(p, kind)
  BY TakesStep
<1>2. /\ ToSet(cmd[p].todo) = {NextStep(p)} \cup ToSet(Tail(cmd[p].todo))
      /\ \A y \in ToSet(Tail(cmd[p].todo)) : y[1] # "serve"
  BY <1>1, TailFollows DEF Follows
<1>3. ASSUME NEW step \in ToSet(cmd'[p].todo), step[1] = "route" PROVE Has(cmd[p].todo, "route")
  BY <1>2, <1>3, StepsLeft DEF Has
<1>4. ASSUME NEW step \in ToSet(cmd'[p].todo), step[1] = "serve" PROVE FindNoServer(p)
  BY <1>2, <1>4, StepsLeft
<1> QED
  BY <1>3, <1>4 DEF Has

LEMMA ServesInv == ASSUME ServerAlone PROVE Spec => []ServesAlone
<1>1. Init => ServesAlone
  BY DEF Init, ServesAlone, Idle, At, Has, ToSet
<1>2. ASSUME Core, Core', ServesAlone, NEW p \in Procs, BeginCommand(p)
      PROVE  ServesAlone'
  <2>1. /\ server' = server /\ cmd[p] = Idle
        /\ \A q \in Procs : q # p => cmd'[q] = cmd[q]
    BY <1>2, OnlyOwnBegins
  <2>2. ~Has(cmd'[p].todo, "serve")
    <3>1. Started(cmd'[p])
      BY <1>2, Beginning
    <3>2. PICK c : c = cmd'[p]
      OBVIOUS
    <3>3. SUFFICES ASSUME NEW step \in ToSet(c.todo), step[1] = "serve" PROVE FALSE
      BY <3>2 DEF Has
    <3>4. Started(c) /\ c.op \in {"deploy", "clone", "unfreeze", "route add"}
      <4>1. c = Idle \/ Shaped(c)
        BY <1>2, <3>2 DEF Core
      <4>2. ToSet(Idle.todo) = {}
        BY DEF Idle, ToSet
      <4> QED
        BY <3>1, <3>2, <3>3, <4>1, <4>2 DEF Shaped, Fits, Users
    <3>5. CASE c.op \in {"deploy", "clone"}
      <4>1. \E h : ToSet(c.todo) \subseteq
                      {<<"register">>, <<"boot">>, <<"save">>, <<"dns", Fqdn[c.name], Own>>}
                         \cup {<<"route", h, Own>>} \cup {OpenPort(x, Own) : x \in c.row.ports}
        BY <3>4, <3>5 DEF Started
      <4> QED
        BY <3>3, <4>1 DEF OpenPort
    <3>6. CASE c.op = "unfreeze"
      <4>1. ToSet(c.todo) \subseteq {<<"boot">>, <<"save">>, <<"route", Bare[c.name], Own>>}
        BY <3>4, <3>6 DEF Started
      <4> QED
        BY <3>3, <4>1
    <3>7. CASE c.op = "route add"
      <4>1. \E h : ToSet(c.todo) \subseteq {<<"route", h, Own>>, <<"save">>, <<"dns", h, HostIP>>}
        BY <3>4, <3>7 DEF Started
      <4> QED
        BY <3>3, <4>1
    <3> QED
      BY <3>4, <3>5, <3>6, <3>7
  <2>3. ASSUME ~server, Has(cmd'[p].todo, "route"), NEW q \in Procs, q # p
        PROVE  ~Has(cmd[q].todo, "route")
    <3>1. \A s : Has(s, "route") <=> AddsRoute(s)
      BY DEF Has, AddsRoute, ToSet
    <3>2. \A op, n, row, todo : Begin(p, op, n, row, todo) => ~AddsRoute(cmd[q].todo)
      <4> SUFFICES ASSUME NEW op, NEW n, NEW row, NEW todo, Begin(p, op, n, row, todo)
                   PROVE  ~AddsRoute(cmd[q].todo)
        OBVIOUS
      <4>1. cmd'[p].todo = todo
        BY <1>2, StartedAs
      <4> QED
        BY <2>3, <3>1, <4>1 DEF Begin
    <3>3. ASSUME NEW n \in Names, NEW src \in Names,
                 Deploy(p, n) \/ Clone(p, src, n) \/ Load(p, n) \/ Push(p, n) \/ Destroy(p, n)
          PROVE  ~AddsRoute(cmd[q].todo)
      BY <3>2, <3>3 DEF Deploy, Clone, Load, Push, Destroy
    <3>4. ASSUME NEW n \in Names,
                 Freeze(p, n) \/ Unfreeze(p, n) \/ RouteAdd(p, n) \/ RouteRemove(p, n)
                    \/ Unexpose(p, n)
          PROVE  ~AddsRoute(cmd[q].todo)
      BY <3>2, <3>4 DEF Freeze, Unfreeze, RouteAdd, RouteRemove, Unexpose
    <3>5. ASSUME NEW n \in Names, PortOpen(p, n) \/ PortClose(p, n)
          PROVE  ~AddsRoute(cmd[q].todo)
      BY <3>2, <3>5 DEF PortOpen, PortClose
    <3>6. ASSUME Daemon(p) PROVE ~AddsRoute(cmd[q].todo)
      BY <3>2, <3>6 DEF Daemon
    <3>7. ~AddsRoute(cmd[q].todo)
      BY <1>2, <3>3, <3>4, <3>5, <3>6 DEF BeginCommand
    <3> QED
      BY <3>1, <3>7
  <2>4. ASSUME NEW q \in Procs, At(q, "serve")' PROVE ~server'
    <3>1. q # p
      <4> SUFFICES ASSUME q = p PROVE FALSE
        OBVIOUS
      <4>1. /\ cmd'[p].todo # <<>> /\ Head(cmd'[p].todo)[1] = "serve"
        BY <2>4 DEF At
      <4>2. cmd'[p] \in Command
        BY <1>2 DEF Core, TypeOK
      <4>3. Head(cmd'[p].todo) \in ToSet(cmd'[p].todo)
        BY <4>1, <4>2, Elements DEF Command
      <4> QED
        BY <2>2, <4>1, <4>3 DEF Has
    <3>2. At(q, "serve")
      BY <2>1, <2>4, <3>1 DEF At
    <3> QED
      BY <1>2, <2>1, <3>2 DEF ServesAlone
  <2> QED
    BY <1>2, <2>1, <2>3, <2>4 DEF ServesAlone
<1>3. ASSUME Core, Core', ServesAlone, NEW p \in Procs, DoStep(p)
      PROVE  ServesAlone'
  <2>1. \A q \in Procs : q # p => cmd'[q] = cmd[q]
    BY <1>3, OnlyOwn
  <2>2. /\ Has(cmd'[p].todo, "route") => Has(cmd[p].todo, "route")
        /\ Has(cmd'[p].todo, "serve") => FindNoServer(p)
    BY <1>3, RoutesLeft
  <2>3. server' = server \/ (At(p, "serve") /\ server')
    BY Zenon, <1>3 DEF DoStep, Register, Boot, FindNoServer, Serve, Route, Unroute, Record, Reopen,
          Forward, Unforward, Save, Unrow, Ready, caddy
  <2>4. ASSUME NEW q \in Procs, At(q, "serve")' PROVE ~server'
    <3>1. CASE q = p
      <4>1. cmd'[p].todo # <<>> /\ Head(cmd'[p].todo)[1] = "serve"
        BY <2>4, <3>1 DEF At
      <4>2. cmd'[p] \in Command
        BY <1>3 DEF Core, TypeOK
      <4>3. Head(cmd'[p].todo) \in ToSet(cmd'[p].todo)
        BY <4>1, <4>2, Elements DEF Command
      <4>4. FindNoServer(p)
        BY <2>2, <4>1, <4>3 DEF Has
      <4> QED
        BY <4>4 DEF FindNoServer, caddy
    <3>2. CASE q # p
      <4>1. At(q, "serve") /\ ~server
        BY <1>3, <2>1, <2>4, <3>2 DEF At, ServesAlone
      <4>2. ~At(p, "serve")
        BY <1>3, <3>2, <4>1, ServeBeforeRoute DEF ServesAlone
      <4> QED
        BY <2>3, <4>1, <4>2
    <3> QED
      BY <3>1, <3>2
  <2>5. ~server' => ~server
    BY <2>3
  <2> QED
    BY <1>3, <2>1, <2>2, <2>4, <2>5 DEF ServesAlone
<1>4. ASSUME ServesAlone, Reboot PROVE ServesAlone'
  BY <1>4 DEF Reboot, ServesAlone, Idle, At, Has, ToSet
<1>5. ASSUME ServesAlone, UNCHANGED vars PROVE ServesAlone'
  BY <1>5 DEF vars, caddy, ServesAlone, At
<1>6. ServesAlone /\ (Core /\ OpensPorts) /\ (Core /\ OpensPorts)' /\ [Next]_vars => ServesAlone'
  BY <1>2, <1>3, <1>4, <1>5 DEF Next
<1> QED
  BY <1>1, <1>6, CoreInv, PTL DEF Spec

-----------------------------------------------------------------------------
(* The name of a project that is not exposed leads to its VM. *)

\* The failures that leave the name of a project elsewhere: of the record
\* itself; of a route add that has made the name lead to the host; and of a
\* destroy that has removed the record.
NamesAreMade ==
    /\ ServerAlone
    /\ {<<"deploy", "dns">>, <<"clone", "dns">>, <<"load", "dns">>, <<"route remove", "dns">>,
        <<"unexpose", "dns">>, <<"route add", "route">>, <<"route add", "save">>,
        <<"destroy", "unrow">>} \cap MayFail = {}

\* With that row, the name leads to the VM if it should.
Leads(row, n) == row.made /\ ~row.expose => dns[Fqdn[n]] = row.rowid

ToName(n) == <<"dns", Fqdn[n], Own>>

\* A command of operation op on n leaves the name of n leading to its VM, if the
\* row that it leaves asks for that.
Named(op, n, row, todo) ==
    /\ \A step \in ToSet(todo) : step[1] = "dns" => (step[3] = HostIP <=> op = "route add")
    /\ \/ Leads(rows[n], n)
       \/ ToName(n) \in ToSet(todo) /\ ~Has(todo, "save")
       \/ op = "route add" /\ Has(todo, "save")
       \/ op = "destroy" /\ Has(todo, "unrow")
    /\ op = "route add" => IF Has(todo, "save") THEN row.expose ELSE rows[n].expose
    /\ op = "destroy" => todo = <<>> \/ Has(todo, "unrow")
    /\ Has(todo, "save") => \/ ToName(n) \in ToSet(todo)
                            \/ ~Has(todo, "register") /\ Leads(row, n)
    /\ Has(todo, "register") \/ Has(todo, "boot") => Has(todo, "save")

NamesKept ==
    /\ \A n \in OneHost : Quiet(n) => Leads(rows[n], n)
    /\ \A p \in Procs :
          cmd[p].name \in OneHost => Named(cmd[p].op, cmd[p].name, cmd[p].row, cmd[p].todo)

LEMMA OneHostNames ==
    ASSUME NEW n \in OneHost
    PROVE  /\ n \in Names /\ Fqdn[n] \in Hosts /\ Bare[n] = Fqdn[n]
           /\ HostsOf(n) = {Fqdn[n]}
<1>1. n \in Names /\ HostsOf(n) = {Fqdn[n]}
  BY DEF OneHost
<1>2. Fqdn[n] \in HostsOf(n) /\ Bare[n] \in HostsOf(n) /\ HostsOf(n) \subseteq Hosts
  BY <1>1, HostsAssumption DEF HostsOf
<1> QED
  BY <1>1, <1>2

LEMMA NoHostIP == Own # HostIP
BY NoneAssumption DEF Own

LEMMA NamedStarts ==
    ASSUME Core, NEW c \in Command, c.name \in OneHost, Started(c), Leads(rows[c.name], c.name)
    PROVE  Named(c.op, c.name, c.row, c.todo)
<1> DEFINE n == c.name
           F == Fqdn[n]
           steps == ToSet(c.todo)
<1>0. n \in Names /\ Bare[n] = F /\ HostsOf(n) = {F} /\ NoName \notin Names
  BY OneHostNames, NoneAssumption
<1>00. rows[n] \in Project
  BY <1>0 DEF Core, TypeOK
<1>1. CASE c.op \in {"deploy", "clone"}
  <2>1. PICK h : /\ <<"dns", F, Own>> \in steps
                 /\ steps \subseteq {<<"register">>, <<"boot">>, <<"save">>, <<"dns", F, Own>>}
                       \cup {<<"route", h, Own>>} \cup {OpenPort(x, Own) : x \in c.row.ports}
    BY Zenon, <1>1 DEF Started
  <2>2. \A step \in steps : step[1] = "dns" => step[3] = Own
    BY <2>1 DEF OpenPort
  <2>3. Has(c.todo, "save")
    <3>1. <<"save">> \in steps
      BY Zenon, <1>1 DEF Started
    <3> QED
      BY <3>1 DEF Has
  <2> QED
    BY <1>1, <2>1, <2>2, <2>3, NoHostIP DEF Named, ToName
<1>2. CASE c.op = "load"
  <2>1. steps = {<<"register">>, <<"boot">>, <<"save">>, <<"dns", F, Own>>}
    BY <1>0, <1>2 DEF Started
  <2>2. (\A step \in steps : step[1] = "dns" => step[3] = Own) /\ Has(c.todo, "save")
    BY <2>1 DEF Has
  <2> QED
    BY <1>2, <2>1, <2>2, NoHostIP DEF Named, ToName
<1>3. CASE c.op = "push"
  <2>1. steps = {<<"unrow">>}
    BY <1>3 DEF Started
  <2>2. \A step \in steps : step[1] \notin {"dns", "save", "register", "boot"}
    BY <2>1
  <2> QED
    BY <1>3, <2>2 DEF Named, Has
<1>4. CASE c.op = "destroy"
  <2>1. /\ <<"unrow">> \in steps
        /\ steps \subseteq {<<"unroute", F>>} \cup {ClosePort(x, Own) : x \in rows[n].ports}
                              \cup {<<"undns", F>>, <<"unrow">>}
    BY <1>4 DEF Started
  <2>2. /\ \A step \in steps : step[1] \notin {"dns", "save", "register", "boot"}
        /\ Has(c.todo, "unrow")
    BY <2>1 DEF ClosePort, Has
  <2> QED
    BY <1>4, <2>2 DEF Named, Has
<1>5. CASE c.op \in {"freeze", "unfreeze"}
  <2>1. /\ steps \subseteq {<<"boot">>, <<"save">>, <<"unroute", F>>, <<"route", F, Own>>}
        /\ \E status : c.row = [rows[n] EXCEPT !.status = status]
    BY <1>0, <1>5 DEF Started
  <2>2. \A step \in steps : step[1] # "dns" /\ step[1] # "register"
    BY <2>1
  <2>3. c.row.made = rows[n].made /\ c.row.expose = rows[n].expose /\ c.row.rowid = rows[n].rowid
    BY <1>00, <2>1 DEF Project
  <2>4. Has(c.todo, "save")
    <3>1. <<"save">> \in steps
      BY <1>5 DEF Started
    <3> QED
      BY <3>1 DEF Has
  <2> QED
    BY <1>5, <2>2, <2>3, <2>4 DEF Named, Has, Leads
<1>6. CASE c.op = "route add"
  <2>1. PICK h : /\ c.row = [rows[n] EXCEPT !.status = "running", !.expose = TRUE, !.domain = h]
                 /\ <<"save">> \in steps
                 /\ steps \subseteq {<<"route", h, Own>>, <<"save">>, <<"dns", h, HostIP>>}
    BY <1>6 DEF Started
  <2>2. /\ \A step \in steps : step[1] # "register" /\ (step[1] = "dns" => step[3] = HostIP)
        /\ Has(c.todo, "save")
    BY <2>1 DEF Has
  <2>3. c.row.expose
    BY <1>00, <2>1 DEF Project
  <2> QED
    BY <1>6, <2>2, <2>3 DEF Named, Has, Leads
<1>7. CASE c.op = "route remove"
  <2>1. \/ steps = {<<"save">>, <<"unroute", F>>, <<"dns", F, Own>>}
        \/ steps = {<<"unroute", F>>}
    BY <1>0, <1>7 DEF Started
  <2>2. /\ \A step \in steps : step[1] = "dns" => step[3] = Own
        /\ (\A step \in steps : step[1] # "save") \/ <<"dns", F, Own>> \in steps
        /\ \A step \in steps : step[1] \notin {"register", "boot"}
    BY <2>1
  <2> QED
    BY <1>7, <2>2, NoHostIP DEF Named, Has, ToName
<1>8. CASE c.op = "unexpose"
  <2>1. Exposed(n) = F
    BY <1>0 DEF Exposed, Core, RowsAreProjects
  <2>2. /\ c.row = Unexposed(rows[n])
        /\ steps = {<<"save">>} \cup {y \in {<<"unroute", F>>} : rows[n].expose}
                      \cup {y \in {<<"dns", F, Own>>} : rows[n].expose}
    BY <1>8, <2>1 DEF Started
  <2>3. /\ \A step \in steps : /\ step[1] \notin {"register", "boot"}
                                /\ step[1] = "dns" => step[3] = Own
        /\ rows[n].expose => <<"dns", F, Own>> \in steps
    BY <2>2
  <2>4. c.row.made = rows[n].made /\ c.row.rowid = rows[n].rowid
    BY <1>00, <2>2 DEF Project, Unexposed
  <2>5. <<"save">> \in steps
    BY <2>2
  <2>6. Has(c.todo, "save")
    BY <2>5 DEF Has
  <2>8. ~Has(c.todo, "register") /\ ~Has(c.todo, "boot")
    <3>1. \A step \in ToSet(c.todo) : step[1] # "register" /\ step[1] # "boot"
      BY <2>2
    <3> QED
      BY <3>1 DEF Has
  <2>7. ToName(n) \in steps \/ Leads(c.row, n)
    BY <2>3, <2>4 DEF ToName, Leads
  <2> QED
    BY <1>8, <2>3, <2>6, <2>7, <2>8, NoHostIP DEF Named
<1>9. CASE c.op \in {"port open", "port close"}
  <2>1. PICK port, ports : /\ c.row = [rows[n] EXCEPT !.ports = ports]
                           /\ steps \subseteq {OpenPort(port, Own), ClosePort(port, Own), <<"save">>}
    BY Zenon, <1>9 DEF Started
  <2>2. \A step \in steps : step[1] \notin {"dns", "register", "boot"}
    BY <2>1 DEF OpenPort, ClosePort
  <2>3. c.row.made = rows[n].made /\ c.row.expose = rows[n].expose /\ c.row.rowid = rows[n].rowid
    BY <1>00, <2>1 DEF Project
  <2> QED
    BY <1>9, <2>2, <2>3 DEF Named, Has, Leads
<1> QED
  BY <1>0, <1>1, <1>2, <1>3, <1>4, <1>5, <1>6, <1>7, <1>8, <1>9 DEF Started

LEMMA NamedBegins ==
    ASSUME Core, Core', NamesKept, NEW p \in Procs, BeginCommand(p)
    PROVE  NamesKept'
<1>1. /\ rows' = rows /\ dns' = dns /\ cmd[p] = Idle
      /\ \A q \in Procs : q # p => cmd'[q] = cmd[q]
  BY OnlyOwnBegins
<1>2. Idle.name = NoName /\ NoName \notin Names /\ OneHost \subseteq Names
  BY NoneAssumption DEF Idle, OneHost
<1>3. ASSUME NEW n \in OneHost, \A q \in Procs : q # p => cmd'[q].name # n
      PROVE  Leads(rows[n], n)
  BY <1>1, <1>2, <1>3 DEF NamesKept, Quiet
<1>4. ASSUME cmd'[p].name \in OneHost
      PROVE  Named(cmd'[p].op, cmd'[p].name, cmd'[p].row, cmd'[p].todo)
  <2>1. PICK c : c = cmd'[p]
    OBVIOUS
  <2>2. Started(c) /\ c \in Command
    BY <2>1, Beginning DEF Core, TypeOK
  <2>3. \A q \in Procs : q # p => cmd'[q].name # c.name
    BY <1>2, <1>4, <2>1 DEF Core, OnePerProject
  <2> QED
    BY <1>3, <1>4, <2>1, <2>2, <2>3, NamedStarts
<1>5. ASSUME NEW q \in Procs, cmd'[q].name \in OneHost
      PROVE  Named(cmd'[q].op, cmd'[q].name, cmd'[q].row, cmd'[q].todo)
  BY <1>1, <1>4, <1>5 DEF NamesKept
<1> QED
  BY <1>1, <1>3, <1>5 DEF NamesKept, Named, Leads, Quiet

LEMMA ServeStep == <<"serve">> \in Step
BY DEF Step

LEMMA StepKinds ==
    ASSUME NEW step \in Step
    PROVE  step[1] \in {"register", "boot", "serve", "route", "unroute", "open", "forward",
                        "unforward", "save", "dns", "undns", "unrow", "ready"}
<1>1. CASE step \in {"route"} \X Hosts \X {Own}
  BY <1>1
<1>2. CASE step \in {"unroute", "undns"} \X Hosts
  BY <1>2
<1>3. CASE step \in {"dns"} \X Hosts \X {Own, HostIP}
  BY <1>3
<1>4. CASE step \in {"open", "forward", "unforward"} \X Ports \X Nat
  BY <1>4
<1>5. CASE step \in {<<"register">>, <<"boot">>, <<"serve">>, <<"save">>, <<"unrow">>, <<"ready">>}
  BY <1>5
<1> QED
  BY <1>1, <1>2, <1>3, <1>4, <1>5 DEF Step

\* The dns step of a command whose record does not fail.
LEMMA RecordDone ==
    ASSUME Core, NEW p \in Procs, DoStep(p), At(p, "dns"), ~MayFailAt(p, "dns")
    PROVE  dns' = [dns EXCEPT ![Key(p)] = Index(p)]
<1>1. \A other : other # "dns" => ~At(p, other)
  BY DEF At
<1>2. Record(p)
  BY StepIs DEF At
<1> QED
  BY <1>1, <1>2 DEF Record

\* route add does all its steps if neither its route nor its save may fail, and
\* it is not refused the server that somebody else has put.
LEMMA RouteAddGoesOn ==
    ASSUME Core, OpensPorts, NEW p \in Procs, DoStep(p), cmd[p].op = "route add",
           <<"route add", "route">> \notin MayFail, <<"route add", "save">> \notin MayFail
    PROVE  \/ rows' = rows /\ Left(p) /\ ~At(p, "save")
           \/ /\ At(p, "save") /\ Left(p)
              /\ rows' = [rows EXCEPT ![cmd[p].name] = cmd[p].row]
           \/ At(p, "serve") /\ server /\ cmd'[p].todo = <<>> /\ rows' = rows
<1>1. Advance(p) => Left(p)
  BY AdvanceOn DEF Left
<1>2. PICK kind \in {"serve", "route", "dns", "save"} : At(p, kind)
  <2>1. PICK kind : At(p, kind)
    BY TakesStep
  <2>2. cmd[p].op \in Users(kind) /\ NextStep(p) \in Step /\ NextStep(p)[1] = kind
    BY <2>1, AtStep
  <2>3. kind \in {"register", "boot", "serve", "route", "unroute", "open", "forward",
                  "unforward", "save", "dns", "undns", "unrow", "ready"}
    BY <2>2, StepKinds
  <2> QED
    BY <2>1, <2>2, <2>3 DEF Users
<1>4. CASE kind = "save"
  <2>1. Save(p) /\ ~MayFailAt(p, "save")
    BY <1>2, <1>4, StepIs DEF At, MayFailAt
  <2> QED
    BY <1>1, <1>2, <1>4, <2>1 DEF Save
<1>5. CASE kind = "dns"
  <2>1. Record(p) /\ ~At(p, "save")
    BY <1>2, <1>5, StepIs DEF At
  <2> QED
    BY <1>1, <2>1 DEF Record
<1>6. CASE kind = "serve"
  <2>1. Serve(p) /\ ~At(p, "save") /\ ~MayFailAt(p, "route")
    BY <1>2, <1>6, StepIs DEF At, MayFailAt
  <2>2. ASSUME NEW s, s = Tail(Tail(cmd[p].todo)), RouteFails(p, s)
        PROVE  cmd'[p].todo = <<>>
    BY <2>2, GivenUp DEF RouteFails
  <2>3. rows' = rows
    BY <2>1 DEF Serve
  <2>4. CASE server /\ RouteFails(p, Tail(Tail(cmd[p].todo)))
    BY <1>2, <1>6, <2>2, <2>3, <2>4
  <2>5. CASE Advance(p)
    BY <1>1, <2>1, <2>3, <2>5
  <2> QED
    BY <2>1, <2>4, <2>5 DEF Serve
<1>7. CASE kind = "route"
  <2>1. (Route(p) \/ FindNoServer(p)) /\ ~At(p, "save") /\ ~MayFailAt(p, "route")
    BY <1>2, <1>7, StepIs DEF At, MayFailAt
  <2>2. CASE Route(p)
    BY <1>1, <2>1, <2>2 DEF Route
  <2>3. CASE FindNoServer(p)
    <3>1. PICK s : s = << <<"serve">> >> \o cmd[p].todo
      OBVIOUS
    <3>2. cmd'[p].todo = s
      BY <2>3, <3>1, TodoIs DEF FindNoServer
    <3>3. /\ cmd[p].todo \in Seq(Step) /\ <<"serve">> \in Step /\ NextStep(p)[1] = "route"
          /\ ToSet(cmd[p].todo) = {NextStep(p)} \cup ToSet(Tail(cmd[p].todo))
      BY <1>2, <1>7, AtStep, TailFollows, ServeStep
    <3>4. ToSet(s) = {<<"serve">>} \cup ToSet(cmd[p].todo)
      BY ONLY <3>1, <3>3, Prepended
    <3>5. ASSUME NEW x, x[1] \notin {"serve", "route", "forward"}
          PROVE  x # <<"serve">> /\ x # NextStep(p)
      <4>1. ASSUME x = <<"serve">> PROVE FALSE
        <5>1. x[1] = "serve"
          BY <4>1
        <5> QED
          BY <3>5, <5>1
      <4>2. x # NextStep(p)
        BY <3>3, <3>5
      <4> QED
        BY <4>1, <4>2
    <3>6. Left(p)
      BY <3>2, <3>3, <3>4, <3>5 DEF Left
    <3> QED
      BY <2>1, <2>3, <3>6 DEF FindNoServer
  <2> QED
    BY <2>1, <2>2, <2>3
<1> QED
  BY <1>2, <1>4, <1>5, <1>6, <1>7

\* What a step does to the name of its project.
LEMMA NamedRecord ==
    ASSUME Core, NamesAreMade, NamesKept, NEW p \in Procs, DoStep(p),
           NEW n \in OneHost, n = cmd[p].name
    PROVE  \/ ~At(p, "dns") /\ NextStep(p) # ToName(n) /\ dns'[Fqdn[n]] = dns[Fqdn[n]]
           \/ At(p, "dns") /\ cmd[p].op = "route add" /\ NextStep(p) # ToName(n)
           \/ /\ At(p, "dns") /\ cmd[p].op # "route add"
              /\ dns'[Fqdn[n]] = rows[n].rowid /\ cmd[p].row.rowid = rows[n].rowid
           \/ cmd[p].op = "destroy" /\ NextStep(p) # ToName(n)
<1> DEFINE F == Fqdn[n]
<1>0. F \in Hosts /\ HostsOf(n) = {F} /\ dns \in [Hosts -> Nat \cup {HostIP}] /\ n \in Names
  BY OneHostNames DEF Core, TypeOK
<1>1. CASE At(p, "dns")
  <2>1. /\ NextStep(p) \in ToSet(cmd[p].todo) /\ NextStep(p) \in Step /\ NextStep(p)[1] = "dns"
        /\ Fits(NextStep(p), cmd[p].op, n) /\ cmd[p].op \in Users("dns")
    BY <1>1, AtStep
  <2>2. NextStep(p)[3] = HostIP <=> cmd[p].op = "route add"
    BY <2>1 DEF NamesKept, Named
  <2>3. Key(p) = F /\ NextStep(p)[3] \in {Own, HostIP}
    BY <1>0, <2>1, StepTypes DEF Fits, Key
  <2>4. CASE cmd[p].op = "route add"
    <3>1. ToName(n)[3] = Own
      BY DEF ToName
    <3> QED
      BY <1>1, <2>2, <2>4, <3>1, NoHostIP
  <2>5. CASE cmd[p].op # "route add"
    <3>1. cmd[p].op \in {"deploy", "clone", "load", "route remove", "unexpose"}
      BY <2>1, <2>5 DEF Users
    <3>2. ~MayFailAt(p, "dns")
      BY <3>1 DEF MayFailAt, NamesAreMade
    <3>3. dns'[F] = Index(p)
      BY <1>0, <1>1, <2>3, <3>2, RecordDone
    <3>4. Index(p) = cmd[p].row.rowid
      BY <2>2, <2>3, <2>5 DEF Index
    <3>5. HasIndex(n, cmd[p].row.rowid)
      <4>1. cmd[p].op # "daemon"
        BY <3>1
      <4> QED
        BY <1>1, <4>1, OwnRow
    <3> QED
      BY <1>1, <2>5, <3>3, <3>4, <3>5 DEF HasIndex
  <2> QED
    BY <2>4, <2>5
<1>2. CASE At(p, "undns")
  <2>1. NextStep(p)[1] = "undns" /\ cmd[p].op \in Users("undns")
    BY <1>2, AtStep
  <2>3. cmd[p].op = "destroy"
    BY <2>1 DEF Users
  <2>2. ToName(n)[1] = "dns"
    BY DEF ToName
  <2> QED
    BY <2>1, <2>2, <2>3
<1>3. CASE ~At(p, "dns") /\ ~At(p, "undns")
  <2>1. dns' = dns
    BY <1>3, RecordEffect
  <2>2. PICK kind : At(p, kind)
    BY TakesStep
  <2>3. NextStep(p)[1] = kind /\ kind # "dns"
    BY <1>3, <2>2, AtStep
  <2>4. ToName(n)[1] = "dns"
    BY DEF ToName
  <2> QED
    BY <1>3, <2>1, <2>3, <2>4
<1> QED
  BY <1>1, <1>2, <1>3

\* What p does next, and what it has left to do.
LEMMA StepFacts ==
    ASSUME Core, NEW p \in Procs, NEW kind, At(p, kind)
    PROVE  /\ \A k : Has(cmd[p].todo, k) <=> (k = kind \/ Has(Tail(cmd[p].todo), k))
           /\ ToSet(cmd[p].todo) = {NextStep(p)} \cup ToSet(Tail(cmd[p].todo))
           /\ NextStep(p)[1] = kind /\ cmd[p].op \in Users(kind) /\ cmd[p].op \in Ops
           /\ \A other : other # kind => ~At(p, other)
           /\ \A x \in ToSet(Tail(cmd[p].todo)) : Follows(cmd[p].op, NextStep(p), x)
           /\ \A x \in ToSet(cmd[p].todo) : cmd[p].op \in Users(x[1])
<1>1. \A other : other # kind => ~At(p, other)
  BY DEF At
<1> QED
  BY <1>1, HasTail, TailFollows, AtStep DEF Shaped, Fits

\* A command that fails and cleans up has only its row or its rule to remove.
LEMMA CleaningUp ==
    ASSUME NEW s, s = << <<"unrow">> >> \/ \E port : s = << ClosePort(port, Own) >>
    PROVE  \A x \in ToSet(s) : x[1] \in {"unrow", "unforward"}
<1>1. s = << <<"unrow">> >> => \A x \in ToSet(s) : x[1] \in {"unrow", "unforward"}
  BY Singleton
<1>2. ASSUME NEW port, s = << ClosePort(port, Own) >>
      PROVE  \A x \in ToSet(s) : x[1] \in {"unrow", "unforward"}
  BY <1>2, Singleton DEF ClosePort
<1> QED
  BY <1>1, <1>2

\* The same commands that end early have not saved their row.
LEMMA EndsUnsaved ==
    ASSUME Core, NEW p \in Procs, Ends(p) \/ CleansUp(p), cmd[p].op # "route add",
           Has(cmd[p].todo, "register") \/ Has(cmd[p].todo, "boot") => Has(cmd[p].todo, "save")
    PROVE  \/ cmd[p].op = "port open" /\ ~At(p, "dns") /\ ~At(p, "undns")
           \/ Has(cmd[p].todo, "save") /\ ~At(p, "dns") /\ ~At(p, "undns")
<1>1. \A kind : At(p, kind) => Has(cmd[p].todo, kind) /\ \A other : other # kind => ~At(p, other)
  BY HasTail DEF At
<1> QED
  BY <1>1 DEF Ends, CleansUp

LEMMA NamedGoesOn ==
    ASSUME Core, Core', OpensPorts, ServesAlone, NamesAreMade, NamesKept,
           NEW p \in Procs, DoStep(p), NEW n \in OneHost, n = cmd[p].name,
           NEW op, op = cmd[p].op
    PROVE  Named(op, n, cmd[p].row, cmd[p].todo)'
<1> DEFINE F == Fqdn[n]
           todo == cmd[p].todo
           next == cmd'[p].todo
           row == cmd[p].row
<1>0. /\ Named(op, n, row, todo) /\ n \in Names /\ rows \in [Names -> Project]
      /\ NoHost \notin Hosts
  BY OneHostNames, NoneAssumption DEF NamesKept, Core, TypeOK
<1>1. PICK kind : At(p, kind)
  BY TakesStep
<1>2. /\ \A k : Has(todo, k) <=> (k = kind \/ Has(Tail(todo), k))
      /\ ToSet(todo) = {NextStep(p)} \cup ToSet(Tail(todo)) /\ NextStep(p)[1] = kind
      /\ op \in Users(kind) /\ op \in Ops
      /\ \A other : other # kind => ~At(p, other)
      /\ \A x \in ToSet(Tail(todo)) : Follows(op, NextStep(p), x)
      /\ \A x \in ToSet(todo) : op \in Users(x[1])
  BY <1>1, StepFacts
<1>3. next # <<>> => /\ cmd'[p].row.made = row.made /\ cmd'[p].row.expose = row.expose
                     /\ kind # "register" => cmd'[p].row.rowid = row.rowid
  BY <1>2, RowStays
<1>4. \A k : Has(next, k) => next # <<>>
  BY NoElements DEF Has
<1>5. kind # "register" => ~Has(todo, "register")
  BY <1>1, OwnRow
<1>6. ~Has(<<>>, "save") /\ ~Has(<<>>, "unrow") /\ ~Has(<<>>, "register") /\ ~Has(<<>>, "boot")
      /\ ToSet(<<>>) = {}
  BY NoElements DEF Has
\* What is left of the steps that concern the names.
<1>a. ASSUME Left(p)
      PROVE  /\ \A k \in {"register", "boot", "save", "unrow"} : Has(next, k) <=> Has(Tail(todo), k)
             /\ \A x \in ToSet(next) : x[1] = "dns" => (x[3] = HostIP <=> op = "route add")
             /\ ToName(n) \in ToSet(next) <=> ToName(n) \in ToSet(Tail(todo))
             /\ ToName(n)[1] = "dns"
  <2>1. \A x : x[1] = "dns" => (x \in ToSet(next) <=> x \in ToSet(Tail(todo)))
    BY <1>a DEF Left
  <2>2. \A x \in ToSet(next) : x[1] = "dns" => (x[3] = HostIP <=> op = "route add")
    BY <1>0, <1>2, <2>1 DEF Named
  <2>3. ToName(n)[1] = "dns"
    BY DEF ToName
  <2> QED
    BY <1>a, <2>1, <2>2, <2>3, LeftHas
\* The command goes on without having touched its row.
<1>7. ASSUME rows' = rows, Left(p), kind # "register",
             kind = "save" => op = "route remove", kind = "unrow" => op # "destroy"
      PROVE  Named(op, n, row, todo)'
  <2>1. /\ \A k \in {"register", "boot", "save", "unrow"} : Has(next, k) <=> Has(Tail(todo), k)
        /\ \A x \in ToSet(next) : x[1] = "dns" => (x[3] = HostIP <=> op = "route add")
        /\ ToName(n) \in ToSet(next) <=> ToName(n) \in ToSet(Tail(todo))
    BY <1>7, <1>a
  <2>5. Has(next, "save") <=> Has(todo, "save") /\ ~(kind = "save" /\ ~Has(Tail(todo), "save"))
    BY <1>2, <2>1
  <2>6. op # "route remove" => (Has(next, "save") <=> Has(todo, "save"))
    BY <1>2, <1>7, <2>1
  <2>7. op = "route add" =>
           IF Has(next, "save") THEN cmd'[p].row.expose ELSE rows'[n].expose
    BY <1>0, <1>3, <1>4, <1>7, <2>6 DEF Named
  <2>8. op = "destroy" => Has(next, "unrow")
    <3>1. todo # <<>>
      BY <1>1 DEF At
    <3> QED
      BY <1>0, <1>2, <1>7, <2>1, <3>1 DEF Named
  <2>9. Has(next, "register") \/ Has(next, "boot") => Has(next, "save")
    <3>1. ~Has(Tail(todo), "register") /\ ~Has(Tail(todo), "boot")
      BY <1>2, <1>7 DEF Has, Follows
    <3> QED
      BY <2>1, <3>1
  <2>10. Has(next, "save") => \/ ToName(n) \in ToSet(next)
                              \/ ~Has(next, "register") /\ Leads(row, n)'
    <3> SUFFICES ASSUME Has(next, "save"), ToName(n) \notin ToSet(next)
                 PROVE  ~Has(next, "register") /\ Leads(row, n)'
      OBVIOUS
    <3>1. Has(todo, "save") /\ ~Has(next, "register")
      BY <1>2, <1>5, <1>7, <2>1
    <3>2. /\ cmd'[p].row.made = row.made /\ cmd'[p].row.expose = row.expose
          /\ cmd'[p].row.rowid = row.rowid
      BY <1>3, <1>4, <1>7
    <3>3. NextStep(p) = ToName(n) \/ Leads(row, n)
      BY <1>0, <1>2, <2>1, <3>1 DEF Named
    <3>4. op # "destroy"
      BY <1>2, <3>1 DEF Has, Users
    <3>5. op = "route add" => cmd'[p].row.expose
      BY <2>7
    <3> QED
      BY <3>1, <3>2, <3>3, <3>4, <3>5, NamedRecord DEF Leads
  <2>11. \/ Leads(rows[n], n)'
         \/ ToName(n) \in ToSet(next) /\ ~Has(next, "save")
         \/ op = "route add" /\ Has(next, "save")
         \/ op = "destroy" /\ Has(next, "unrow")
    <3>1. CASE op = "destroy"
      BY <2>8, <3>1
    <3>2. CASE op = "route add"
      BY <2>7, <3>2 DEF Leads
    <3>3. CASE op \notin {"destroy", "route add"}
      <4>1. \/ dns'[F] = dns[F] /\ NextStep(p) # ToName(n)
            \/ dns'[F] = rows[n].rowid
        BY <3>3, NamedRecord
      <4>2. Leads(rows[n], n) \/ (ToName(n) \in ToSet(todo) /\ ~Has(todo, "save"))
        BY <1>0, <3>3 DEF Named
      <4> QED
        BY <1>2, <1>7, <2>1, <2>5, <4>1, <4>2 DEF Leads
    <3> QED
      BY <3>1, <3>2, <3>3
  <2> QED
    BY <2>1, <2>7, <2>8, <2>9, <2>10, <2>11 DEF Named, ToName
<1>8. CASE At(p, "register") /\ Registers(p) /\ Left(p)
  <2>1. rows'[n] \in Project /\ ~rows'[n].made
    BY <1>0, <1>8 DEF Registers, NoProject, Core, TypeOK
  <2>2. kind = "register" /\ op \in {"deploy", "clone", "load"}
    BY <1>2, <1>8 DEF Users
  <2>3. ToName(n) \in ToSet(next)
    <3>1. ToName(n) \in ToSet(todo)
      BY <1>0, <1>2, <2>2 DEF Named
    <3> QED
      BY <1>2, <1>8, <1>a, <2>2, <3>1
  <2>4. Has(next, "register") \/ Has(next, "boot") => Has(next, "save")
    BY <1>0, <1>2, <1>8, <1>a, <2>2 DEF Named
  <2> QED
    BY <1>8, <1>a, <2>1, <2>2, <2>3, <2>4 DEF Named, ToName, Leads
<1>9. CASE At(p, "save") /\ Left(p) /\ rows' = [rows EXCEPT ![cmd[p].name] = cmd[p].row]
  <2>1. rows'[n] = row /\ kind = "save"
    BY <1>0, <1>2, <1>9
  <2>2. op # "destroy" /\ Has(todo, "save")
    BY <1>2, <2>1 DEF Users
  <2>4. ~Has(next, "register") /\ ~Has(next, "boot") /\ ~Has(next, "save")
    <3>1. \A x \in ToSet(Tail(todo)) : x[1] \in {"dns", "unroute"}
      BY <1>9, AfterSave
    <3> QED
      BY <1>9, <1>a, <3>1 DEF Has
  <2>7. op = "route add" => rows'[n].expose
    BY <1>0, <2>1, <2>2 DEF Named
  <2>8. dns'[F] = dns[F] /\ NextStep(p) # ToName(n)
    <3>1. ~At(p, "dns")
      BY <1>2, <2>1
    <3> QED
      BY <2>2, <3>1, NamedRecord
  <2>9. ToName(n) \in ToSet(next) \/ Leads(row, n)
    BY <1>0, <1>2, <1>9, <1>a, <2>2, <2>8 DEF Named
  <2>10. Leads(row, n) => Leads(rows[n], n)'
    BY <2>1, <2>8 DEF Leads
  <2> QED
    BY <1>9, <1>a, <2>2, <2>4, <2>7, <2>9, <2>10 DEF Named, ToName
<1>10. CASE /\ At(p, "unrow") /\ next = <<>> /\ rows' = [rows EXCEPT ![cmd[p].name] = NoProject]
  <2>1. ~rows'[n].made /\ op # "route add"
    BY <1>0, <1>2, <1>10 DEF NoProject, Users
  <2> QED
    BY <1>6, <1>10, <2>1 DEF Named, Leads
<1>11. CASE (Ends(p) \/ CleansUp(p)) /\ rows' = rows /\ op # "route add"
  <2>1. \/ op = "port open" /\ ~At(p, "dns") /\ ~At(p, "undns")
        \/ Has(todo, "save") /\ ~At(p, "dns") /\ ~At(p, "undns")
    BY <1>0, <1>11, EndsUnsaved DEF Named
  <2>2. op # "destroy"
    BY <1>2, <2>1 DEF Has, Users
  <2>3. dns'[F] = dns[F]
    BY <2>1, <2>2, NamedRecord
  <2>4. Leads(rows[n], n)
    <3>1. op = "port open" => ToName(n) \notin ToSet(todo)
      <4>1. ToName(n)[1] = "dns" /\ "port open" \notin Users("dns")
        BY DEF ToName, Users
      <4> QED
        BY <1>2, <4>1
    <3> QED
      BY <1>0, <1>11, <2>1, <2>2, <3>1 DEF Named
  <2>5. \A x \in ToSet(next) : x[1] \in {"unrow", "unforward"}
    <3>1. CASE next = <<>>
      BY <1>6, <3>1
    <3>2. CASE next # <<>>
      BY <1>11, <3>2, CleaningUp DEF Ends, CleansUp
    <3> QED
      BY <3>1, <3>2
  <2>6. ~Has(next, "register") /\ ~Has(next, "boot") /\ ~Has(next, "save")
    BY <2>5 DEF Has
  <2>7. Leads(rows[n], n)'
    BY <1>11, <2>3, <2>4 DEF Leads
  <2> QED
    BY <1>11, <2>2, <2>5, <2>6, <2>7 DEF Named
<1>12. CASE op = "route add"
  <2>1. <<"route add", "route">> \notin MayFail /\ <<"route add", "save">> \notin MayFail
    BY DEF NamesAreMade
  <2>2. kind \notin {"register", "unrow"}
    BY <1>2, <1>12 DEF Users
  <2>3. \/ rows' = rows /\ Left(p) /\ kind # "save"
        \/ /\ At(p, "save") /\ Left(p)
           /\ rows' = [rows EXCEPT ![cmd[p].name] = cmd[p].row]
    BY <1>1, <1>12, <2>1, RouteAddGoesOn DEF ServesAlone
  <2> QED
    BY <1>7, <1>9, <2>2, <2>3
<1>13. CASE op # "route add"
  <2>1. kind = "unrow" /\ MayFailAt(p, "unrow") => op # "destroy"
    BY DEF NamesAreMade, MayFailAt
  <2> QED
    BY <1>1, <1>2, <1>7, <1>8, <1>9, <1>10, <1>11, <1>13, <2>1, Leaves
<1> QED
  BY <1>12, <1>13

LEMMA NamesGoOnKept ==
    ASSUME Core, Core', OpensPorts, ServesAlone, NamesAreMade, NamesKept,
           NEW p \in Procs, DoStep(p)
    PROVE  NamesKept'
<1>0. OneHost \subseteq Names /\ NoName \notin Names /\ Idle.name = NoName /\ Idle.todo = <<>>
  BY OneHostNames, NoneAssumption DEF Idle
<1>1. \A q \in Procs : q # p => cmd'[q] = cmd[q]
  BY OnlyOwn
<1>2. ASSUME NEW n \in OneHost, n # cmd[p].name
      PROVE  dns'[Fqdn[n]] = dns[Fqdn[n]] /\ rows'[n] = rows[n]
  BY <1>0, <1>2, OtherRecord
<1>3. ASSUME NEW n \in OneHost, n = cmd[p].name, NEW op, op = cmd[p].op
      PROVE  Named(op, n, cmd[p].row, cmd[p].todo)'
  BY <1>3, NamedGoesOn
<1>4. ASSUME NEW n \in OneHost, Quiet(n)' PROVE Leads(rows[n], n)'
  <2>1. CASE n # cmd[p].name
    <3>1. Leads(rows[n], n)
      BY <1>1, <1>4, <2>1 DEF NamesKept, Quiet
    <3> QED
      BY <1>2, <2>1, <3>1 DEF Leads
  <2>2. CASE n = cmd[p].name
    <3>1. cmd'[p].todo = <<>>
      BY <1>0, <1>4, <2>2, SameOp DEF Quiet
    <3>2. PICK op : op = cmd[p].op
      OBVIOUS
    <3>3. Named(op, n, cmd[p].row, cmd[p].todo)'
      BY <1>3, <2>2, <3>2
    <3> QED
      BY <3>1, <3>3, NoElements DEF Named, Has
  <2> QED
    BY <2>1, <2>2
<1>5. ASSUME NEW q \in Procs, cmd'[q].name \in OneHost
      PROVE  Named(cmd[q].op, cmd[q].name, cmd[q].row, cmd[q].todo)'
  <2>1. CASE q = p
    <3>1. cmd'[p].op = cmd[p].op /\ cmd'[p].name = cmd[p].name
      BY <1>0, <1>5, <2>1, SameOp
    <3>2. PICK n, op : n \in OneHost /\ n = cmd'[q].name /\ op = cmd'[q].op
      BY <1>5
    <3>3. Named(op, n, cmd[q].row, cmd[q].todo)'
      BY <1>3, <2>1, <3>1, <3>2
    <3> QED
      BY <3>2, <3>3 DEF Named, Leads, ToName
  <2>2. CASE q # p
    <3>1. cmd'[q] = cmd[q] /\ cmd[q].name # cmd[p].name
      BY <1>0, <1>1, <1>5, <2>2 DEF Core, OnePerProject
    <3>2. PICK n \in OneHost : n = cmd'[q].name
      BY <1>5
    <3>3. Named(cmd[q].op, n, cmd[q].row, cmd[q].todo)
      BY <3>1, <3>2 DEF NamesKept
    <3>4. dns'[Fqdn[n]] = dns[Fqdn[n]] /\ rows'[n] = rows[n]
      BY <1>2, <3>1, <3>2
    <3>5. Named(cmd[q].op, n, cmd[q].row, cmd[q].todo)'
      BY <3>1, <3>3, <3>4 DEF Named, Leads
    <3> QED
      BY <3>1, <3>2, <3>5 DEF Named, Leads, ToName
  <2> QED
    BY <2>1, <2>2
<1> QED
  BY <1>4, <1>5 DEF NamesKept

\* However commands interleave and Caddy starts anew, and whatever fails besides
\* the failures that NamesAreMade names: the name of a project that has only one
\* leads to its VM between commands unless the project is exposed.
THEOREM NamesLeadToVMs == ASSUME NamesAreMade PROVE Spec => []NameLeadsToVM
<1>1. Init => NamesKept
  <2> SUFFICES ASSUME Init PROVE NamesKept
    OBVIOUS
  <2>1. \A n \in Names : rows[n] = NoProject /\ ~rows[n].made
    BY DEF Init, NoProject
  <2>2. \A p \in Procs : cmd[p].name \notin OneHost
    BY NoneAssumption DEF Init, Idle, OneHost
  <2> QED
    BY <2>1, <2>2 DEF NamesKept, Leads, OneHost
<1>2. NamesKept /\ ServesAlone /\ (Core /\ OpensPorts) /\ (Core /\ OpensPorts)' /\ [Next]_vars
      => NamesKept'
  <2> SUFFICES ASSUME NamesKept, ServesAlone, Core, Core', OpensPorts, [Next]_vars
               PROVE  NamesKept'
    OBVIOUS
  <2>1. ASSUME NEW p \in Procs, BeginCommand(p) PROVE NamesKept'
    BY <2>1, NamedBegins
  <2>2. ASSUME NEW p \in Procs, DoStep(p) PROVE NamesKept'
    BY <2>2, NamesGoOnKept
  <2>3. CASE Reboot \/ UNCHANGED vars
    <3>1. rows' = rows /\ cmd' = cmd /\ dns' = dns
      BY <2>3 DEF Reboot, vars
    <3> QED
      BY <3>1 DEF NamesKept, Named, Leads, Quiet
  <2> QED
    BY <2>1, <2>2, <2>3 DEF Next
<1>3. NamesKept => NameLeadsToVM
  BY DEF NamesKept, NameLeadsToVM, Leads
<1>4. ServerAlone
  BY DEF NamesAreMade
<1> QED
  BY <1>1, <1>2, <1>3, <1>4, ServesInv, CoreInv, PTL DEF Spec

-----------------------------------------------------------------------------
(* Routes of projects that have one hostname. *)

\* What a step does to routes.
LEMMA RouteEffect ==
    ASSUME Core, NEW p \in Procs, DoStep(p)
    PROVE  \/ /\ At(p, "serve") /\ server' /\ routes' = [h \in Hosts |-> 0] /\ lost' = lost
              /\ cmd'[p].todo = Tail(cmd[p].todo)
           \/ /\ At(p, "route") /\ server /\ server'
              /\ Key(p) \in HostsOf(cmd[p].name) /\ Key(p) \in Hosts /\ cmd[p].name \in Names
              /\ HasIndex(cmd[p].name, cmd[p].row.rowid)
              /\ \E i \in {0, cmd[p].row.rowid, routes[Key(p)]} :
                    /\ routes' = [routes EXCEPT ![Key(p)] = i]
                    /\ \/ i = cmd[p].row.rowid /\ lost' = lost \ {Key(p)}
                       \/ MayFailAt(p, "route") /\ lost' = lost
           \/ /\ At(p, "unroute") /\ server' = server
              /\ Key(p) \in HostsOf(cmd[p].name) /\ Key(p) \in Hosts /\ cmd[p].name \in Names
              /\ routes' = [routes EXCEPT ![Key(p)] = 0] /\ lost' = lost \ {Key(p)}
           \/ /\ routes' = routes /\ lost' = lost /\ server' = server
              /\ At(p, "unroute") => MayFailAt(p, "unroute")
              /\ At(p, "route") => MayFailAt(p, "route") \/ FindNoServer(p)
<1>1. \A kind : At(p, kind) => \A other : other # kind => ~At(p, other)
  BY DEF At
<1>2. ASSUME NEW kind \in {"route", "unroute"}, At(p, kind)
      PROVE  Key(p) \in HostsOf(cmd[p].name) /\ Key(p) \in Hosts /\ cmd[p].name \in Names
  <2>1. Fits(NextStep(p), cmd[p].op, cmd[p].name) /\ NextStep(p)[1] = kind
    BY <1>2, AtStep
  <2>2. cmd[p].op # "daemon"
    BY <1>2, <2>1 DEF Fits, Users
  <2>3. Key(p) \in Hosts /\ cmd[p].name \in Names
    BY <1>2, <2>2, StepData, AtStep
  <2> QED
    BY <1>2, <2>1, <2>3 DEF Fits, Key
<1>3. routes \in [Hosts -> Nat]
  BY DEF Core, TypeOK
<1>4. CASE Serve(p)
  <2>1. ~At(p, "route") /\ ~At(p, "unroute") /\ At(p, "serve") /\ lost' = lost
    BY <1>1, <1>4 DEF Serve
  <2> QED
    BY <1>4, <2>1, AdvanceOn DEF Serve
<1>5. CASE Route(p)
  <2>1. At(p, "route") /\ ~At(p, "unroute") /\ server' = server
    BY <1>1, <1>5 DEF Route
  <2>2. Key(p) \in HostsOf(cmd[p].name) /\ Key(p) \in Hosts /\ cmd[p].name \in Names
    BY <1>2, <2>1
  <2>3. Index(p) = cmd[p].row.rowid
    BY <2>1, StepData
  <2>4. HasIndex(cmd[p].name, cmd[p].row.rowid)
    <3>1. cmd[p].op # "daemon"
      BY <2>1, AtStep DEF Users
    <3> QED
      BY <2>1, <3>1, OwnRow
  <2>5. CASE server /\ routes' = [routes EXCEPT ![Key(p)] = Index(p)] /\ lost' = lost \ {Key(p)}
    BY <2>1, <2>2, <2>3, <2>4, <2>5
  <2>6. ASSUME MayFailAt(p, "route"), lost' = lost,
               NEW i \in {routes[Key(p)]} \cup IF server THEN {0, Index(p)} ELSE {},
               routes' = [routes EXCEPT ![Key(p)] = i]
        PROVE  \/ /\ server
                  /\ \E j \in {0, cmd[p].row.rowid, routes[Key(p)]} :
                        /\ routes' = [routes EXCEPT ![Key(p)] = j]
                        /\ \/ j = cmd[p].row.rowid /\ lost' = lost \ {Key(p)}
                           \/ MayFailAt(p, "route") /\ lost' = lost
               \/ routes' = routes
    BY <1>3, <2>2, <2>3, <2>6
  <2> QED
    BY <1>5, <2>1, <2>2, <2>4, <2>5, <2>6 DEF Route
<1>6. CASE Unroute(p)
  <2>1. At(p, "unroute") /\ ~At(p, "route") /\ server' = server
    BY <1>1, <1>6 DEF Unroute
  <2>2. Key(p) \in HostsOf(cmd[p].name) /\ Key(p) \in Hosts /\ cmd[p].name \in Names
    BY <1>2, <2>1
  <2> QED
    BY <1>6, <2>1, <2>2 DEF Unroute
<1>7. CASE FindNoServer(p)
  <2>1. At(p, "route") /\ ~At(p, "unroute")
    BY <1>1, <1>7 DEF FindNoServer
  <2> QED
    BY <1>7, <2>1 DEF FindNoServer, caddy
<1>8. CASE ~Serve(p) /\ ~Route(p) /\ ~Unroute(p) /\ ~FindNoServer(p)
  <2>1. routes' = routes /\ lost' = lost /\ server' = server
    BY Zenon, <1>8 DEF DoStep, Register, Boot, Record, Reopen, Forward, Unforward, Save, Unrow, Ready,
          caddy
  <2>2. ~At(p, "unroute") /\ ~At(p, "route")
    BY <1>8, StepIs DEF At
  <2> QED
    BY <2>1, <2>2
<1> QED
  BY <1>4, <1>5, <1>6, <1>7, <1>8

\* The failures that leave a route of a project that is frozen, not exposed or
\* gone: of the removal of the route itself, and of a save that would have told
\* of the route, or of what follows it in route add.
RoutesAreRemoved ==
    {<<"destroy", "unroute">>, <<"freeze", "unroute">>, <<"route remove", "unroute">>,
     <<"unexpose", "unroute">>, <<"deploy", "save">>, <<"clone", "save">>,
     <<"unfreeze", "save">>, <<"route add", "save">>, <<"route add", "route">>}
       \cap MayFail = {}

\* With that row, the project may be reached by its hostname if it is.
Live(row, n) == routes[Fqdn[n]] # 0 => row.status = "running" /\ row.expose

Unroutes(n, todo) == <<"unroute", Fqdn[n]>> \in ToSet(todo)

\* A command of operation op on n leaves no route to another VM, and none that
\* the row does not ask for.
Routed(op, n, row, todo) ==
    /\ routes[Fqdn[n]] # 0 => HasIndex(n, routes[Fqdn[n]])
    /\ Has(todo, "boot") => routes[Fqdn[n]] = 0
    /\ Has(todo, "unrow") => routes[Fqdn[n]] = 0 \/ Unroutes(n, todo)
    /\ \/ Live(rows[n], n)
       \/ Unroutes(n, todo) /\ ~Has(todo, "save")
       \/ Has(todo, "save") /\ op \in {"deploy", "clone", "unfreeze", "route add"}
    /\ Has(todo, "save") =>
          \/ Unroutes(n, todo)
          \/ Live(row, n) /\ (Has(todo, "route") => row.status = "running" /\ row.expose)
    /\ op = "route add" /\ (Has(todo, "serve") \/ (~server /\ Has(todo, "route")))
          => Live(rows[n], n)
    /\ Has(todo, "route") => Has(todo, "save")

RoutesKept ==
    /\ \A n \in OneHost :
          Quiet(n) => /\ Live(rows[n], n)
                      /\ routes[Fqdn[n]] # 0 => HasIndex(n, routes[Fqdn[n]])
    /\ \A p \in Procs :
          cmd[p].name \in OneHost => Routed(cmd[p].op, cmd[p].name, cmd[p].row, cmd[p].todo)

LEMMA RoutedStarts ==
    ASSUME Core, NEW c \in Command, c.name \in OneHost, Started(c), Live(rows[c.name], c.name),
           routes[Fqdn[c.name]] # 0 => HasIndex(c.name, routes[Fqdn[c.name]])
    PROVE  Routed(c.op, c.name, c.row, c.todo)
<1> DEFINE n == c.name
           F == Fqdn[n]
           steps == ToSet(c.todo)
<1>0. n \in Names /\ Bare[n] = F /\ HostsOf(n) = {F} /\ NoName \notin Names
  BY OneHostNames, NoneAssumption
<1>00. rows[n] \in Project
  BY <1>0 DEF Core, TypeOK
<1>01. ~Present(rows, n) => routes[F] = 0
  BY DEF HasIndex
<1>1. CASE c.op \in {"deploy", "clone"}
  <2>1. PICK port \in BOOLEAN, h \in HostsOf(n) :
           /\ ~Present(rows, n) /\ c.row.status = "running" /\ (port => c.row.expose)
           /\ steps = {<<"register">>, <<"boot">>, <<"save">>, <<"dns", F, Own>>}
                         \cup {y \in {<<"route", h, Own>>} : port}
                         \cup {OpenPort(x, Own) : x \in c.row.ports}
    BY <1>1 DEF Started
  <2>2. <<"save">> \in steps /\ \A step \in steps : step[1] = "route" => c.row.expose
    BY <2>1 DEF OpenPort
  <2>3. Has(c.todo, "save") /\ (Has(c.todo, "route") => c.row.expose)
    BY <2>2 DEF Has
  <2> QED
    BY <1>1, <1>01, <2>1, <2>3 DEF Routed, Live
<1>2. CASE c.op = "load"
  <2>1. ~Present(rows, n) /\ steps = {<<"register">>, <<"boot">>, <<"save">>, <<"dns", F, Own>>}
    BY <1>0, <1>2 DEF Started
  <2>2. \A step \in steps : step[1] # "route"
    BY <2>1
  <2>3. ~Has(c.todo, "route")
    BY <2>2 DEF Has
  <2> QED
    BY <1>2, <1>01, <2>1, <2>3 DEF Routed, Live
<1>3. CASE c.op = "push"
  <2>1. steps = {<<"unrow">>} /\ rows[n].status # "running"
    BY <1>3 DEF Started
  <2>2. \A step \in steps : step[1] \notin {"save", "boot", "route"}
    BY <2>1
  <2>3. ~Has(c.todo, "save") /\ ~Has(c.todo, "boot") /\ ~Has(c.todo, "route")
    BY <2>2 DEF Has
  <2>4. routes[F] = 0
    BY <2>1 DEF Live
  <2> QED
    BY <1>3, <2>3, <2>4 DEF Routed, Live
<1>4. CASE c.op = "destroy"
  <2>1. steps = {y \in {<<"unroute", F>>} : rows[n].expose}
                   \cup {ClosePort(x, Own) : x \in rows[n].ports}
                   \cup {<<"undns", F>>, <<"unrow">>}
    BY <1>4 DEF Started
  <2>2. (\A step \in steps : step[1] \notin {"save", "boot", "route"})
           /\ (rows[n].expose => <<"unroute", F>> \in steps)
    BY <2>1 DEF ClosePort
  <2>3. ~Has(c.todo, "save") /\ ~Has(c.todo, "boot") /\ ~Has(c.todo, "route")
    BY <2>2 DEF Has
  <2>4. routes[F] = 0 \/ Unroutes(n, c.todo)
    BY <2>2 DEF Live, Unroutes
  <2> QED
    BY <1>4, <2>3, <2>4 DEF Routed
<1>5. CASE c.op = "freeze"
  <2>1. steps = {<<"save">>} \cup {y \in {<<"unroute", F>>} : rows[n].expose}
    BY <1>0, <1>5 DEF Started
  <2>2. (\A step \in steps : step[1] \notin {"unrow", "boot", "route"})
           /\ (rows[n].expose => <<"unroute", F>> \in steps)
    BY <2>1
  <2>3. ~Has(c.todo, "unrow") /\ ~Has(c.todo, "boot") /\ ~Has(c.todo, "route")
    BY <2>2 DEF Has
  <2>4. routes[F] = 0 \/ Unroutes(n, c.todo)
    BY <2>2 DEF Live, Unroutes
  <2> QED
    BY <1>5, <2>3, <2>4 DEF Routed, Live
<1>6. CASE c.op = "unfreeze"
  <2>1. /\ rows[n].status = "frozen" /\ c.row = [rows[n] EXCEPT !.status = "running"]
        /\ steps = {<<"boot">>, <<"save">>} \cup {y \in {<<"route", F, Own>>} : rows[n].expose}
    BY <1>0, <1>6 DEF Started
  <2>2. c.row.status = "running" /\ c.row.expose = rows[n].expose
    BY <1>00, <2>1 DEF Project
  <2>3. /\ <<"save">> \in steps
        /\ \A step \in steps : step[1] # "unrow"
        /\ \A step \in steps : step[1] = "route" => c.row.expose
    BY <2>1, <2>2
  <2>4. Has(c.todo, "save") /\ (Has(c.todo, "route") => c.row.expose) /\ ~Has(c.todo, "unrow")
    BY <2>3 DEF Has
  <2>5. routes[F] = 0
    BY <2>1 DEF Live
  <2> QED
    BY <1>6, <2>2, <2>4, <2>5 DEF Routed, Live
<1>7. CASE c.op = "route add"
  <2>1. PICK h : /\ c.row = [rows[n] EXCEPT !.status = "running", !.expose = TRUE, !.domain = h]
                 /\ <<"save">> \in steps
                 /\ steps \subseteq {<<"route", h, Own>>, <<"save">>, <<"dns", h, HostIP>>}
    BY <1>7 DEF Started
  <2>2. \A step \in steps : step[1] \notin {"boot", "unrow"}
    BY <2>1
  <2>3. Has(c.todo, "save") /\ ~Has(c.todo, "boot") /\ ~Has(c.todo, "unrow")
    BY <2>1, <2>2 DEF Has
  <2>4. c.row.status = "running" /\ c.row.expose
    BY <1>00, <2>1 DEF Project
  <2> QED
    BY <1>7, <2>3, <2>4 DEF Routed, Live
<1>8. CASE c.op = "route remove"
  <2>1. \/ steps = {<<"save">>, <<"unroute", F>>, <<"dns", F, Own>>}
        \/ steps = {<<"unroute", F>>}
    BY <1>0, <1>8 DEF Started
  <2>2. (\A step \in steps : step[1] \notin {"boot", "unrow", "route"}) /\ <<"unroute", F>> \in steps
    BY <2>1
  <2>3. ~Has(c.todo, "boot") /\ ~Has(c.todo, "unrow") /\ ~Has(c.todo, "route")
    BY <2>2 DEF Has
  <2> QED
    BY <1>8, <2>2, <2>3 DEF Routed, Unroutes
<1>9. CASE c.op = "unexpose"
  <2>1. Exposed(n) = F
    BY <1>0 DEF Exposed, Core, RowsAreProjects
  <2>2. steps = {<<"save">>} \cup {y \in {<<"unroute", F>>} : rows[n].expose}
                      \cup {y \in {<<"dns", F, Own>>} : rows[n].expose}
    BY <1>9, <2>1 DEF Started
  <2>3. (\A step \in steps : step[1] \notin {"unrow", "boot", "route"})
           /\ (rows[n].expose => <<"unroute", F>> \in steps)
    BY <2>2
  <2>4. ~Has(c.todo, "unrow") /\ ~Has(c.todo, "boot") /\ ~Has(c.todo, "route")
    BY <2>3 DEF Has
  <2>5. routes[F] = 0 \/ Unroutes(n, c.todo)
    BY <2>3 DEF Live, Unroutes
  <2> QED
    BY <1>9, <2>4, <2>5 DEF Routed, Live
<1>10. CASE c.op \in {"port open", "port close"}
  <2>1. PICK port, ports : /\ c.row = [rows[n] EXCEPT !.ports = ports]
                           /\ steps \subseteq {OpenPort(port, Own), ClosePort(port, Own), <<"save">>}
    BY Zenon, <1>10 DEF Started
  <2>2. \A step \in steps : step[1] \notin {"route", "unrow", "boot"}
    BY <2>1 DEF OpenPort, ClosePort
  <2>3. c.row.status = rows[n].status /\ c.row.expose = rows[n].expose
    BY <1>00, <2>1 DEF Project
  <2>4. ~Has(c.todo, "unrow") /\ ~Has(c.todo, "boot") /\ ~Has(c.todo, "route")
    BY <2>2 DEF Has
  <2> QED
    BY <1>10, <2>3, <2>4 DEF Routed, Live
<1> QED
  BY <1>0, <1>1, <1>2, <1>3, <1>4, <1>5, <1>6, <1>7, <1>8, <1>9, <1>10 DEF Started

LEMMA RoutedBegins ==
    ASSUME Core, Core', RoutesKept, NEW p \in Procs, BeginCommand(p)
    PROVE  RoutesKept'
<1>1. /\ rows' = rows /\ routes' = routes /\ server' = server /\ cmd[p] = Idle
      /\ \A q \in Procs : q # p => cmd'[q] = cmd[q]
  BY OnlyOwnBegins
<1>2. Idle.name = NoName /\ NoName \notin Names /\ OneHost \subseteq Names
  BY NoneAssumption DEF Idle, OneHost
<1>3. ASSUME NEW n \in OneHost, \A q \in Procs : q # p => cmd'[q].name # n
      PROVE  Live(rows[n], n) /\ (routes[Fqdn[n]] # 0 => HasIndex(n, routes[Fqdn[n]]))
  BY <1>1, <1>2, <1>3 DEF RoutesKept, Quiet
<1>4. ASSUME cmd'[p].name \in OneHost
      PROVE  Routed(cmd'[p].op, cmd'[p].name, cmd'[p].row, cmd'[p].todo)
  <2>1. PICK c : c = cmd'[p]
    OBVIOUS
  <2>2. Started(c) /\ c \in Command
    BY <2>1, Beginning DEF Core, TypeOK
  <2>3. \A q \in Procs : q # p => cmd'[q].name # c.name
    BY <1>2, <1>4, <2>1 DEF Core, OnePerProject
  <2> QED
    BY <1>3, <1>4, <2>1, <2>2, <2>3, RoutedStarts
<1>5. ASSUME NEW q \in Procs, cmd'[q].name \in OneHost
      PROVE  Routed(cmd'[q].op, cmd'[q].name, cmd'[q].row, cmd'[q].todo)
  BY <1>1, <1>4, <1>5 DEF RoutesKept
<1> QED
  BY <1>1, <1>3, <1>5 DEF RoutesKept, Routed, Live, Quiet, HasIndex, Present

\* What a step does to the route of its project, and to those of others.
LEMMA OwnRoute ==
    ASSUME Core, RoutesAreRemoved, NEW p \in Procs, DoStep(p),
           NEW n \in OneHost, n = cmd[p].name
    PROVE  \/ routes'[Fqdn[n]] = 0
           \/ routes'[Fqdn[n]] = routes[Fqdn[n]] /\ NextStep(p) # <<"unroute", Fqdn[n]>>
           \/ /\ At(p, "route") /\ server /\ routes'[Fqdn[n]] = cmd[p].row.rowid
              /\ HasIndex(n, cmd[p].row.rowid)
<1> DEFINE F == Fqdn[n]
<1>0. F \in Hosts /\ HostsOf(n) = {F} /\ routes \in [Hosts -> Nat]
  BY OneHostNames DEF Core, TypeOK
<1>1. NextStep(p) = <<"unroute", F>> => At(p, "unroute") /\ ~MayFailAt(p, "unroute")
  <2> SUFFICES ASSUME NextStep(p) = <<"unroute", F>>
               PROVE  At(p, "unroute") /\ ~MayFailAt(p, "unroute")
    OBVIOUS
  <2>1. PICK kind : At(p, kind)
    BY TakesStep
  <2>2. NextStep(p)[1] = kind /\ cmd[p].op \in Users(kind)
    BY <2>1, AtStep
  <2>3. kind = "unroute"
    BY <2>2
  <2>4. cmd[p].op \in {"destroy", "freeze", "route remove", "unexpose"}
    BY <2>2, <2>3 DEF Users
  <2> QED
    BY <2>1, <2>3, <2>4 DEF MayFailAt, RoutesAreRemoved
<1>2. CASE At(p, "serve") /\ routes' = [h \in Hosts |-> 0]
  BY <1>0, <1>2
<1>3. ASSUME At(p, "route"), server, Key(p) \in HostsOf(cmd[p].name),
             HasIndex(cmd[p].name, cmd[p].row.rowid),
             NEW i \in {0, cmd[p].row.rowid, routes[Key(p)]},
             routes' = [routes EXCEPT ![Key(p)] = i]
      PROVE  \/ routes'[F] = 0
             \/ routes'[F] = routes[F] /\ NextStep(p) # <<"unroute", F>>
             \/ routes'[F] = cmd[p].row.rowid
  <2>1. Key(p) = F /\ routes'[F] = i
    BY <1>0, <1>3
  <2>2. ~At(p, "unroute")
    BY <1>3 DEF At
  <2> QED
    BY <1>1, <1>3, <2>1, <2>2
<1>4. CASE Key(p) \in HostsOf(cmd[p].name) /\ routes' = [routes EXCEPT ![Key(p)] = 0]
  BY <1>0, <1>4
<1>5. CASE routes' = routes /\ (At(p, "unroute") => MayFailAt(p, "unroute"))
  BY <1>1, <1>5
<1> QED
  BY <1>2, <1>3, <1>4, <1>5, RouteEffect

LEMMA OtherRoute ==
    ASSUME Core, NEW p \in Procs, DoStep(p)
    PROVE  /\ server => server'
           /\ \A n \in Names : n # cmd[p].name =>
                 \A h \in HostsOf(n) : routes'[h] \in {0, routes[h]}
<1>1. routes \in [Hosts -> Nat] /\ server \in BOOLEAN
  BY DEF Core, TypeOK
<1>2. ASSUME NEW n \in Names, n # cmd[p].name, NEW h \in HostsOf(n)
      PROVE  routes'[h] \in {0, routes[h]}
  <2>1. h \in Hosts
    BY HostsAssumption
  <2>2. ASSUME Key(p) \in HostsOf(cmd[p].name), cmd[p].name \in Names
        PROVE  h # Key(p)
    BY <1>2, <2>2, HostsAssumption
  <2> QED
    BY <1>1, <2>1, <2>2, RouteEffect
<1>3. server => server'
  BY RouteEffect
<1> QED
  BY <1>2, <1>3

LEMMA RoutedGoesOn ==
    ASSUME Core, Core', OpensPorts, RoutesAreRemoved, RoutesKept,
           NEW p \in Procs, DoStep(p), NEW n \in OneHost, n = cmd[p].name,
           NEW op, op = cmd[p].op
    PROVE  Routed(op, n, cmd[p].row, cmd[p].todo)'
<1> DEFINE F == Fqdn[n]
           U == <<"unroute", F>>
           todo == cmd[p].todo
           next == cmd'[p].todo
           row == cmd[p].row
           R == routes[F]
<1>0. /\ Routed(op, n, row, todo) /\ n \in Names /\ rows \in [Names -> Project]
      /\ rows[n] \in Project /\ server \in BOOLEAN
  BY OneHostNames DEF RoutesKept, Core, TypeOK
<1>1. PICK kind : At(p, kind)
  BY TakesStep
<1>2. /\ \A k : Has(todo, k) <=> (k = kind \/ Has(Tail(todo), k))
      /\ ToSet(todo) = {NextStep(p)} \cup ToSet(Tail(todo)) /\ NextStep(p)[1] = kind
      /\ op \in Users(kind) /\ op \in Ops
      /\ \A other : other # kind => ~At(p, other)
      /\ \A x \in ToSet(Tail(todo)) : Follows(op, NextStep(p), x)
      /\ \A x \in ToSet(todo) : op \in Users(x[1])
  BY <1>1, StepFacts
<1>3. next # <<>> => cmd'[p].row.status = row.status /\ cmd'[p].row.expose = row.expose
  BY RowStays
<1>4. \A k : Has(next, k) => next # <<>>
  BY NoElements DEF Has
<1>5. /\ ~Has(Tail(todo), "boot") \/ kind = "register"
      /\ ~Has(Tail(todo), "serve") /\ ~Has(Tail(todo), "register")
      /\ kind = "unrow" => ToSet(Tail(todo)) = {}
      /\ Has(Tail(todo), "unrow") => kind \in {"unroute", "unforward", "undns"}
  BY <1>2 DEF Has, Follows
<1>6. kind = "save" => \A x \in ToSet(Tail(todo)) : x[1] \in {"dns", "unroute"}
  BY <1>1, AfterSave
<1>7. /\ Has(next, "route") => Has(todo, "route")
      /\ Has(next, "serve") => FindNoServer(p)
  BY RoutesLeft
<1>8. kind = "save" => ~Has(next, "route")
  <2> SUFFICES ASSUME kind = "save", NEW x \in ToSet(next), x[1] = "route" PROVE FALSE
    BY DEF Has
  <2>1. ~FindNoServer(p)
    BY <1>2 DEF FindNoServer
  <2>2. x \in ToSet(Tail(todo))
    BY <2>1, StepsLeft
  <2> QED
    BY <1>6, <2>2
\* Whoever removes a route makes none, and saves.
<1>9. /\ U \in ToSet(todo) => ~Has(todo, "route") /\ op \notin Users("route")
      /\ op = "port open" => U \notin ToSet(todo)
  <2>1. U[1] = "unroute" /\ Users("unroute") \cap Users("route") = {}
           /\ "port open" \notin Users("unroute")
    BY DEF Users
  <2> QED
    BY <1>2, <2>1 DEF Has
<1>10. op = "route add" =>
           \/ rows' = rows /\ Left(p) /\ kind # "save"
           \/ kind = "save" /\ Left(p) /\ rows' = [rows EXCEPT ![n] = row]
           \/ kind = "serve" /\ next = <<>> /\ rows' = rows
  <2>1. <<"route add", "route">> \notin MayFail /\ <<"route add", "save">> \notin MayFail
    BY DEF RoutesAreRemoved
  <2> QED
    BY <1>1, <1>2, <2>1, RouteAddGoesOn
<1>11. Left(p) =>
          /\ \A k \in {"register", "boot", "save", "unrow"} : Has(next, k) <=> Has(Tail(todo), k)
          /\ U \in ToSet(next) <=> U \in ToSet(Tail(todo))
  <2>1. U[1] = "unroute"
    OBVIOUS
  <2> QED
    BY <2>1, LeftHas DEF Left
\* All that can become of the row, and of what is left to do.
<1> DEFINE Goes == /\ rows' = rows /\ Left(p) /\ kind # "register"
                   /\ kind = "save" => op = "route remove"
           Born == kind = "register" /\ Registers(p) /\ Left(p)
           Saved == kind = "save" /\ Left(p) /\ rows' = [rows EXCEPT ![n] = row]
           Gone == kind = "unrow" /\ next = <<>> /\ rows' = [rows EXCEPT ![n] = NoProject]
           Ended == /\ rows' = rows /\ next = <<>>
                    /\ \/ kind \in {"register", "boot"}
                       \/ op = "route add" /\ kind = "serve"
                       \/ op = "port open" /\ kind = "forward"
                       \/ kind = "save" /\ op \notin {"deploy", "clone", "unfreeze", "route add"}
           Cleaned == /\ rows' = rows
                      /\ \/ next = << <<"unrow">> >> /\ kind = "boot"
                         \/ \E port : next = << ClosePort(port, Own) >> /\ op = "port open"
<1>12. Goes \/ Born \/ Saved \/ Gone \/ Ended \/ Cleaned
  <2>1. kind = "save" /\ MayFailAt(p, "save") => op \notin {"deploy", "clone", "unfreeze"}
    BY <1>2 DEF MayFailAt, RoutesAreRemoved
  <2>2. CASE op = "route add"
    <3>1. kind \notin {"register", "unrow"}
      BY <1>2, <2>2 DEF Users
    <3> QED
      BY <1>10, <2>2, <3>1
  <2>3. CASE op # "route add"
    <3>1. Ends(p) /\ rows' = rows => Ended
      BY <1>2, <2>1, <2>3 DEF Ends
    <3>2. CleansUp(p) /\ rows' = rows => Cleaned
      BY <1>2, <2>1 DEF CleansUp
    <3> QED
      BY <1>1, <1>2, <3>1, <3>2, Leaves
  <2> QED
    BY <2>2, <2>3
<1>13. Cleaned => \A x \in ToSet(next) : x[1] \in {"unrow", "unforward"}
  BY CleaningUp
<1>14. Has(next, "save") => Has(todo, "save") /\ kind # "save" /\ (Goes \/ Born)
  <2>1. Has(next, "save") => ~Ended /\ ~Gone
    BY <1>4
  <2>2. Has(next, "save") => ~Cleaned
    BY <1>13 DEF Has
  <2>3. Saved => ~Has(next, "save")
    BY <1>6, <1>11 DEF Has
  <2>4. kind = "save" => ~Has(Tail(todo), "save")
    BY <1>6 DEF Has
  <2> QED
    BY <1>2, <1>11, <1>12, <2>1, <2>2, <2>3, <2>4
<1>15. Has(next, "route") => Has(next, "save")
  <2> SUFFICES ASSUME Has(next, "route") PROVE Has(next, "save")
    OBVIOUS
  <2>1. Has(todo, "save") /\ kind # "save"
    BY <1>0, <1>7, <1>8 DEF Routed
  <2>2. ~Ended /\ ~Gone
    BY <1>4
  <2>3. ~Cleaned
    BY <1>13 DEF Has
  <2>4. Left(p)
    BY <1>12, <2>1, <2>2, <2>3
  <2> QED
    BY <1>2, <1>11, <2>1, <2>4
<1>16. Has(next, "save") /\ Has(next, "route") => cmd'[p].row.status = "running" /\ cmd'[p].row.expose
  <2> SUFFICES ASSUME Has(next, "save"), Has(next, "route")
               PROVE  cmd'[p].row.status = "running" /\ cmd'[p].row.expose
    OBVIOUS
  <2>1. Has(todo, "save") /\ Has(todo, "route") /\ ~Unroutes(n, todo)
    BY <1>7, <1>9, <1>14 DEF Unroutes
  <2> QED
    BY <1>0, <1>3, <1>4, <2>1 DEF Routed
\* Without a route, nothing is left to say but that.
<1>17. CASE routes'[F] = 0
  <2> QED
    BY <1>15, <1>16, <1>17 DEF Routed, Live, Unroutes
<1>18. CASE routes'[F] = R /\ R # 0 /\ NextStep(p) # U
  <2>1. HasIndex(n, R) /\ ~Has(todo, "boot")
    BY <1>0, <1>18 DEF Routed
  <2>2. kind # "register" /\ kind # "boot"
    <3>1. OwnsRow(cmd[p]) /\ (kind = "register" => op \in {"deploy", "clone", "load"})
      BY <1>1, <1>2, AtStep DEF Users
    <3> QED
      BY <1>2, <2>1, <3>1 DEF OwnsRow, HasIndex, Ops
  <2>3. U \in ToSet(todo) <=> U \in ToSet(Tail(todo))
    BY <1>2, <1>18
  <2>4. ~Has(todo, "unrow") \/ U \in ToSet(todo)
    BY <1>0, <1>18 DEF Routed, Unroutes
  <2>5. ~Gone
    BY <1>2, <1>5, <2>3, <2>4
  <2>6. ~Born /\ (Cleaned => op = "port open" /\ ~Has(next, "unrow") /\ ~Has(next, "boot"))
    <3>1. ASSUME NEW port, next = << ClosePort(port, Own) >>
          PROVE  ~Has(next, "unrow") /\ ~Has(next, "boot")
      BY <3>1, Singleton DEF ClosePort, Has
    <3> QED
      BY <2>2, <3>1
  <2>7. Saved => rows'[n] = row /\ row.rowid = R /\ R # 0
    <3>1. kind = "save" => op # "daemon"
      BY <1>2 DEF Users
    <3>2. kind = "save" => HasIndex(n, row.rowid)
      BY <1>1, <3>1, OwnRow
    <3> QED
      BY <1>0, <1>18, <2>1, <3>2 DEF HasIndex
  <2>8. HasIndex(n, R)'
    <3>1. Saved \/ rows' = rows
      BY <1>12, <2>5, <2>6
    <3> QED
      BY <1>18, <2>1, <2>7, <3>1 DEF HasIndex, Present
  <2>9. ~Has(next, "boot")
    <3>1. Left(p) => ~Has(next, "boot")
      BY <1>5, <1>11, <2>2
    <3> QED
      BY <1>4, <1>12, <2>5, <2>6, <3>1
  <2>10. Has(next, "unrow") => U \in ToSet(next)
    <3>1. Left(p) /\ Has(next, "unrow") => U \in ToSet(next)
      BY <1>2, <1>11, <2>3, <2>4
    <3> QED
      BY <1>4, <1>12, <2>5, <2>6, <3>1
  <2>11. Live(rows[n], n) /\ rows' = rows => Live(rows[n], n)'
    BY <1>18 DEF Live
  <2>12. \/ Live(rows[n], n)'
         \/ U \in ToSet(next) /\ ~Has(next, "save")
         \/ Has(next, "save") /\ op \in {"deploy", "clone", "unfreeze", "route add"}
    <3>1. CASE Goes
      <4>1. U \in ToSet(todo) => U \in ToSet(next)
        BY <1>11, <2>3, <3>1
      <4>2. ~Has(todo, "save") => ~Has(next, "save")
        BY <1>14
      <4>3. Has(todo, "save") /\ op \in {"deploy", "clone", "unfreeze", "route add"}
               => Has(next, "save")
        BY <1>2, <1>11, <3>1
      <4> QED
        BY <1>0, <2>11, <3>1, <4>1, <4>2, <4>3 DEF Routed, Unroutes
    <3>2. CASE Saved
      <4>1. Has(todo, "save") /\ ~Has(next, "save")
        BY <1>2, <1>14, <3>2
      <4>2. U \in ToSet(todo) => U \in ToSet(next)
        BY <1>11, <2>3, <3>2
      <4>3. Live(row, n) => Live(rows[n], n)'
        BY <1>18, <2>7, <3>2 DEF Live
      <4> QED
        BY <1>0, <4>1, <4>2, <4>3 DEF Routed, Unroutes
    <3>3. CASE Ended \/ (Cleaned /\ op = "port open")
      <4>1. kind = "save" => Has(todo, "save")
        BY <1>2
      <4>2. op = "route add" /\ kind = "serve" => Live(rows[n], n)
        BY <1>0, <1>2 DEF Routed
      <4>3. Live(rows[n], n)
        BY <1>0, <1>9, <2>2, <3>3, <4>1, <4>2 DEF Routed, Unroutes
      <4> QED
        BY <2>11, <3>3, <4>3
    <3> QED
      BY <1>12, <2>5, <2>6, <3>1, <3>2, <3>3
  <2>13. Has(next, "save") => U \in ToSet(next) \/ Live(row, n)'
    <3> SUFFICES ASSUME Has(next, "save") PROVE U \in ToSet(next) \/ Live(row, n)'
      OBVIOUS
    <3>1. Has(todo, "save") /\ Goes
      BY <1>14, <2>6
    <3>2. U \in ToSet(todo) => U \in ToSet(next)
      BY <1>11, <2>3, <3>1
    <3>3. Live(row, n) => Live(row, n)'
      BY <1>3, <1>4, <1>18 DEF Live
    <3> QED
      BY <1>0, <3>1, <3>2, <3>3 DEF Routed, Unroutes
  <2>14. op = "route add" /\ (Has(next, "serve") \/ (~server' /\ Has(next, "route")))
            => Live(rows[n], n)'
    <3> SUFFICES ASSUME op = "route add", Has(next, "serve") \/ (~server' /\ Has(next, "route"))
                 PROVE  Live(rows[n], n)'
      OBVIOUS
    <3>1. ~server /\ Has(todo, "route") /\ kind # "save"
      <4>1. FindNoServer(p) => ~server /\ kind = "route"
        BY <1>2 DEF FindNoServer
      <4>2. ~server' => ~server
        BY <1>0, OtherRoute
      <4> QED
        BY <1>2, <1>7, <1>8, <4>1, <4>2
    <3>2. rows' = rows
      BY <1>10, <3>1
    <3> QED
      BY <1>0, <2>11, <3>1, <3>2 DEF Routed
  <2> QED
    BY <1>15, <1>16, <1>18, <2>8, <2>9, <2>10, <2>12, <2>13, <2>14 DEF Routed, Unroutes
<1>19. CASE /\ At(p, "route") /\ server /\ routes'[F] = cmd[p].row.rowid
            /\ HasIndex(n, cmd[p].row.rowid)
  <2>1. kind = "route" /\ op \in {"deploy", "clone", "unfreeze", "route add"}
    BY <1>2, <1>19 DEF Users
  <2>2. Goes
    BY <1>12, <2>1
  <2>3. HasIndex(n, routes[F])'
    BY <1>19, <2>2 DEF HasIndex, Present
  <2>4. ~Has(next, "boot") /\ ~Has(next, "unrow")
    BY <1>5, <1>11, <2>1, <2>2
  <2>5. Has(todo, "route") /\ Has(todo, "save") /\ Has(next, "save")
    BY <1>0, <1>2, <1>11, <2>1, <2>2 DEF Routed
  <2>6. cmd'[p].row.status = "running" /\ cmd'[p].row.expose
    BY <1>0, <1>3, <1>4, <1>9, <2>5 DEF Routed, Unroutes
  <2>7. ~Has(next, "serve") /\ server'
    BY <1>7, <1>19, OtherRoute DEF FindNoServer
  <2> QED
    BY <2>1, <2>3, <2>4, <2>5, <2>6, <2>7 DEF Routed, Live
<1> QED
  BY <1>17, <1>18, <1>19, OwnRoute

LEMMA RoutesGoOnKept ==
    ASSUME Core, Core', OpensPorts, RoutesAreRemoved, RoutesKept, NEW p \in Procs, DoStep(p)
    PROVE  RoutesKept'
<1>0. OneHost \subseteq Names /\ NoName \notin Names /\ Idle.name = NoName /\ Idle.todo = <<>>
  BY OneHostNames, NoneAssumption DEF Idle
<1>1. /\ \A q \in Procs : q # p => cmd'[q] = cmd[q]
      /\ server \in BOOLEAN /\ (server => server')
  BY OnlyOwn, OtherRoute DEF Core, TypeOK
<1>2. ASSUME NEW n \in OneHost, n # cmd[p].name
      PROVE  routes'[Fqdn[n]] \in {0, routes[Fqdn[n]]} /\ rows'[n] = rows[n]
  BY <1>0, <1>2, OneHostNames, OtherRoute, OtherRecord
<1>3. ASSUME NEW n \in OneHost, n = cmd[p].name, NEW op, op = cmd[p].op
      PROVE  Routed(op, n, cmd[p].row, cmd[p].todo)'
  BY <1>3, RoutedGoesOn
<1>4. ASSUME NEW n \in OneHost, Quiet(n)'
      PROVE  Live(rows[n], n)' /\ (routes'[Fqdn[n]] # 0 => HasIndex(n, routes[Fqdn[n]])')
  <2>1. CASE n # cmd[p].name
    <3>1. Live(rows[n], n) /\ (routes[Fqdn[n]] # 0 => HasIndex(n, routes[Fqdn[n]]))
      BY <1>1, <1>4, <2>1 DEF RoutesKept, Quiet
    <3> QED
      BY <1>2, <2>1, <3>1 DEF Live, HasIndex, Present
  <2>2. CASE n = cmd[p].name
    <3>1. cmd'[p].todo = <<>>
      BY <1>0, <1>4, <2>2, SameOp DEF Quiet
    <3>2. PICK op : op = cmd[p].op
      OBVIOUS
    <3>3. Routed(op, n, cmd[p].row, cmd[p].todo)'
      BY <1>3, <2>2, <3>2
    <3> QED
      BY <3>1, <3>3, NoElements DEF Routed, Unroutes, Has
  <2> QED
    BY <2>1, <2>2
<1>5. ASSUME NEW q \in Procs, cmd'[q].name \in OneHost
      PROVE  Routed(cmd[q].op, cmd[q].name, cmd[q].row, cmd[q].todo)'
  <2>1. CASE q = p
    <3>1. cmd'[p].op = cmd[p].op /\ cmd'[p].name = cmd[p].name
      BY <1>0, <1>5, <2>1, SameOp
    <3>2. PICK n, op : n \in OneHost /\ n = cmd'[q].name /\ op = cmd'[q].op
      BY <1>5
    <3>3. Routed(op, n, cmd[q].row, cmd[q].todo)'
      BY <1>3, <2>1, <3>1, <3>2
    <3> QED
      BY <3>2, <3>3 DEF Routed, Live, Unroutes, HasIndex, Present
  <2>2. CASE q # p
    <3>1. cmd'[q] = cmd[q] /\ cmd[q].name # cmd[p].name
      BY <1>0, <1>1, <1>5, <2>2 DEF Core, OnePerProject
    <3>2. PICK n \in OneHost : n = cmd'[q].name
      BY <1>5
    <3>3. Routed(cmd[q].op, n, cmd[q].row, cmd[q].todo)
      BY <3>1, <3>2 DEF RoutesKept
    <3>4. routes'[Fqdn[n]] \in {0, routes[Fqdn[n]]} /\ rows'[n] = rows[n]
      BY <1>2, <3>1, <3>2
    <3>5. Routed(cmd[q].op, n, cmd[q].row, cmd[q].todo)'
      <4>1. CASE routes'[Fqdn[n]] = 0
        BY <3>1, <3>3, <4>1 DEF Routed, Live, Unroutes
      <4>2. CASE routes'[Fqdn[n]] = routes[Fqdn[n]]
        <5>1. HasIndex(n, routes[Fqdn[n]]) <=> HasIndex(n, routes[Fqdn[n]])'
          BY <3>4, <4>2 DEF HasIndex, Present
        <5> QED
          BY <1>1, <3>1, <3>3, <3>4, <4>2, <5>1 DEF Routed, Live, Unroutes
      <4> QED
        BY <3>4, <4>1, <4>2
    <3> QED
      BY <3>1, <3>2, <3>5 DEF Routed, Live, Unroutes, HasIndex, Present
  <2> QED
    BY <2>1, <2>2
<1> QED
  BY <1>4, <1>5 DEF RoutesKept

\* However commands interleave, even when two of them find Caddy without its
\* server, and whatever fails besides the failures that RoutesAreRemoved names.
THEOREM RoutesAreOwn == ASSUME RoutesAreRemoved PROVE Spec => []RoutesOfOneHost
<1>1. Init => RoutesKept
  <2> SUFFICES ASSUME Init PROVE RoutesKept
    OBVIOUS
  <2>1. \A n \in OneHost : routes[Fqdn[n]] = 0
    BY OneHostNames DEF Init
  <2>2. \A p \in Procs : cmd[p].name \notin OneHost
    BY NoneAssumption DEF Init, Idle, OneHost
  <2> QED
    BY <2>1, <2>2 DEF RoutesKept, Live
<1>2. RoutesKept /\ (Core /\ OpensPorts) /\ (Core /\ OpensPorts)' /\ [Next]_vars => RoutesKept'
  <2> SUFFICES ASSUME RoutesKept, Core, Core', OpensPorts, [Next]_vars PROVE RoutesKept'
    OBVIOUS
  <2>1. ASSUME NEW p \in Procs, BeginCommand(p) PROVE RoutesKept'
    BY <2>1, RoutedBegins
  <2>2. ASSUME NEW p \in Procs, DoStep(p) PROVE RoutesKept'
    BY <2>2, RoutesGoOnKept
  <2>3. CASE Reboot
    <3>1. \A n \in OneHost : routes'[Fqdn[n]] = 0
      BY <2>3, OneHostNames DEF Reboot
    <3>2. \A p \in Procs : cmd'[p].name \notin OneHost
      BY <2>3, NoneAssumption DEF Reboot, Idle, OneHost
    <3> QED
      BY <3>1, <3>2 DEF RoutesKept, Live
  <2>4. CASE UNCHANGED vars
    BY <2>4 DEF vars, caddy, RoutesKept, Routed, Live, Unroutes, Quiet, HasIndex, Present
  <2> QED
    BY <2>1, <2>2, <2>3, <2>4 DEF Next
<1>3. RoutesKept /\ (Core /\ OpensPorts) => RoutesOfOneHost
  <2> SUFFICES ASSUME RoutesKept, Core, NEW n \in OneHost, routes[Fqdn[n]] # 0
               PROVE  /\ HasIndex(n, routes[Fqdn[n]])
                      /\ Quiet(n) => rows[n].status = "running" /\ rows[n].expose
    BY DEF RoutesOfOneHost
  <2>1. CASE Quiet(n)
    BY <2>1 DEF RoutesKept, Live
  <2>2. CASE ~Quiet(n)
    <3>1. PICK q \in Procs : cmd[q].name = n
      BY <2>2 DEF Quiet
    <3> QED
      BY <2>2, <3>1 DEF RoutesKept, Routed
  <2> QED
    BY <2>1, <2>2
<1> QED
  BY <1>1, <1>2, <1>3, CoreInv, PTL DEF Spec

-----------------------------------------------------------------------------
(* The domain that a row records. *)

\* The failures that leave a recorded domain without its route or its record: a
\* clone of --domain without --port records a domain that it does not route;
\* unfreeze records that the project runs without its route; freeze, route
\* remove and unexpose leave the row as it was, with the route or the record
\* gone; route add records a domain that has no record, or replaces the route
\* of the one recorded and gives up; destroy leaves the row.
DomainsAreServed ==
    /\ ServerAlone /\ ~CloneDomains
    /\ {<<"unfreeze", "route">>, <<"freeze", "save">>, <<"route remove", "save">>,
        <<"unexpose", "save">>, <<"route add", "dns">>, <<"route add", "route">>,
        <<"destroy", "unrow">>} \cap MayFail = {}

\* What RecordedDomainWorks asks of a row, and of the row of a frozen project
\* whose domain unfreeze will not route.
Reached(row, n) ==
    row.domain \notin lost \cup {NoHost} /\ (row.status = "running" \/ row.domain # Bare[n])
       => routes[row.domain] = row.rowid
Recorded(row, n) == row.domain = Fqdn[n] => dns[Fqdn[n]] = HostIP
Asked(row) == row.domain # NoHost => row.made /\ row.expose
Works(row, n) == Asked(row) /\ Reached(row, n) /\ Recorded(row, n)

\* Nothing that is left to do takes that away from a row.
Harmless(row, n, todo) ==
    row.domain # NoHost =>
       \A step \in ToSet(todo) :
          /\ step[1] = "unroute" => \/ step[2] # row.domain
                                    \/ row.status # "running" /\ row.domain = Bare[n]
          /\ step[1] = "dns" => step[3] = HostIP
          /\ step[1] # "undns"

\* The row will be replaced.
Replaced(op, todo) ==
    \/ op \in {"freeze", "unexpose", "route remove"} /\ Has(todo, "save")
    \/ op = "destroy" /\ Has(todo, "unrow")

\* A row that is to be saved works by then.
WillWork(op, row, n, todo) ==
    /\ Asked(row) /\ Harmless(row, n, todo)
    /\ \/ Reached(row, n)
       \/ op \in {"unfreeze", "route add"} /\ <<"route", row.domain, Own>> \in ToSet(todo)
    /\ \/ Recorded(row, n)
       \/ op = "route add" /\ <<"dns", Fqdn[n], HostIP>> \in ToSet(todo)

Served(op, n, row, todo) ==
    /\ \/ Works(rows[n], n) /\ Harmless(rows[n], n, todo)
       \/ Replaced(op, todo)
    /\ Has(todo, "save") => WillWork(op, row, n, todo)
    /\ op \in {"deploy", "clone", "load"} => row.domain = NoHost /\ rows[n].domain = NoHost

DomainsKept ==
    /\ ~server => \A h \in Hosts : routes[h] = 0
    /\ \A n \in Names : Quiet(n) => Works(rows[n], n)
    /\ \A p \in Procs :
          cmd[p].name \in Names => Served(cmd[p].op, cmd[p].name, cmd[p].row, cmd[p].todo)

LEMMA NoDomainWorks ==
    ASSUME NEW n \in Names, NEW row, row.domain = NoHost, NEW todo, NEW op
    PROVE  Works(row, n) /\ Harmless(row, n, todo) /\ WillWork(op, row, n, todo)
<1>1. Fqdn[n] # NoHost
  BY NoneAssumption, HostsAssumption DEF HostsOf
<1> QED
  BY <1>1 DEF Works, Asked, Reached, Recorded, Harmless, WillWork

\* Clones are not given a domain, and deploy does not record it.
LEMMA NewDomains ==
    ASSUME Core, ~CloneDomains, NEW p \in Procs, BeginCommand(p), NEW c, c = cmd'[p],
           c.op \in {"deploy", "clone", "load"}
    PROVE  c.row.domain = NoHost
<1>1. Making.domain = NoHost
  BY DEF NoProject, Making
<1>2. \A op, n, row, todo : Begin(p, op, n, row, todo) => c.op = op /\ c.row = row
  BY StartedAs
<1>3. ASSUME NEW n \in Names, Deploy(p, n) PROVE c.row.domain = NoHost
  <2>1. PICK expose, ports, todo :
           Begin(p, "deploy", n, [Making EXCEPT !.expose = expose, !.ports = ports], todo)
    BY <1>3 DEF Deploy
  <2>2. PICK row : row = [Making EXCEPT !.expose = expose, !.ports = ports]
    OBVIOUS
  <2>3. row.domain = NoHost
    BY <2>2 DEF Making, NoProject
  <2> QED
    BY <1>2, <2>1, <2>2, <2>3
<1>4. ASSUME NEW n \in Names, NEW src \in Names, Clone(p, src, n) PROVE c.row.domain = NoHost
  <2>1. PICK expose, ports, todo :
           Begin(p, "clone", n,
                 [Making EXCEPT !.expose = expose, !.domain = NoHost, !.ports = ports], todo)
    BY <1>4 DEF Clone
  <2>2. PICK row :
           row = [Making EXCEPT !.expose = expose, !.domain = NoHost, !.ports = ports]
    OBVIOUS
  <2>3. row.domain = NoHost
    BY <2>2 DEF Making, NoProject
  <2> QED
    BY <1>2, <2>1, <2>2, <2>3
<1>5. ASSUME NEW n \in Names, Load(p, n) PROVE c.row.domain = NoHost
  BY <1>1, <1>2, <1>5 DEF Load
<1>6. ASSUME NEW n \in Names,
             \/ Push(p, n) \/ Destroy(p, n) \/ Freeze(p, n) \/ Unfreeze(p, n) \/ RouteAdd(p, n)
             \/ RouteRemove(p, n) \/ Unexpose(p, n) \/ PortOpen(p, n) \/ PortClose(p, n)
      PROVE  FALSE
  <2>1. c.op \in {"push", "destroy", "freeze", "unfreeze", "route add"}
           \/ c.op \in {"route remove", "unexpose", "port open", "port close"}
    BY <1>2, <1>6 DEF Push, Destroy, Freeze, Unfreeze, RouteAdd, RouteRemove, Unexpose,
          PortOpen, PortClose
  <2> QED
    BY <2>1
<1>7. ~Daemon(p)
  BY Zenon, <1>2 DEF Daemon
<1> QED
  BY <1>3, <1>4, <1>5, <1>6, <1>7 DEF BeginCommand

LEMMA ServedStarts ==
    ASSUME Core, NEW c \in Command, c.name \in Names, Started(c), Works(rows[c.name], c.name),
           c.op \in {"deploy", "clone", "load"} => c.row.domain = NoHost
    PROVE  Served(c.op, c.name, c.row, c.todo)
<1> DEFINE n == c.name
           steps == ToSet(c.todo)
           d == rows[n].domain
<1>0. rows[n] \in Project /\ NoName \notin Names /\ c.row \in Project
  BY NoneAssumption DEF Core, TypeOK, Command
<1>01. ASSUME d = NoHost PROVE Works(rows[n], n) /\ Harmless(rows[n], n, c.todo)
  BY <1>01, NoDomainWorks
<1>02. ASSUME c.row.domain = NoHost PROVE WillWork(c.op, c.row, n, c.todo)
  BY <1>02, NoDomainWorks
<1>03. ASSUME \A step \in steps : /\ step[1] \notin {"unroute", "undns"}
                                  /\ step[1] = "dns" => step[3] = HostIP
       PROVE  Harmless(rows[n], n, c.todo) /\ Harmless(c.row, n, c.todo)
  BY <1>03 DEF Harmless
<1>04. <<"save">> \in steps => Has(c.todo, "save")
  BY DEF Has
<1>1. CASE c.op \in {"deploy", "clone", "load"}
  <2>1. ~Present(rows, n) /\ c.row.domain = NoHost
    BY Zenon, <1>1 DEF Started
  <2>2. d = NoHost
    BY <2>1 DEF Core, RowsAreProjects, NoProject
  <2> QED
    BY <1>1, <1>01, <1>02, <2>1, <2>2 DEF Served
<1>2. CASE c.op = "push"
  <2>1. steps = {<<"unrow">>}
    BY <1>2 DEF Started
  <2>2. \A step \in steps : step[1] \notin {"unroute", "undns", "dns", "save"}
    BY <2>1
  <2> QED
    BY <1>2, <1>03, <2>2 DEF Served, Has
<1>3. CASE c.op = "destroy"
  <2>1. /\ <<"unrow">> \in steps
        /\ steps \subseteq {<<"unroute", Fqdn[n]>>} \cup {ClosePort(x, Own) : x \in rows[n].ports}
                              \cup {<<"undns", Fqdn[n]>>, <<"unrow">>}
    BY <1>3 DEF Started
  <2>2. Has(c.todo, "unrow") /\ \A step \in steps : step[1] # "save"
    BY <2>1 DEF ClosePort, Has
  <2> QED
    BY <1>3, <2>2 DEF Served, Has, Replaced
<1>4. CASE c.op = "freeze"
  <2>1. /\ c.row = [rows[n] EXCEPT !.status = "frozen"]
        /\ steps = {<<"save">>} \cup {y \in {<<"unroute", Bare[n]>>} : rows[n].expose}
    BY <1>4 DEF Started
  <2>2. /\ c.row.status = "frozen" /\ c.row.domain = d /\ c.row.rowid = rows[n].rowid
        /\ c.row.made = rows[n].made /\ c.row.expose = rows[n].expose
    BY <1>0, <2>1 DEF Project
  <2>3. \A step \in steps : /\ step[1] \notin {"undns", "dns"}
                            /\ step[1] = "unroute" => step[2] = Bare[n]
    BY <2>1
  <2>4. Asked(c.row) /\ Recorded(c.row, n) /\ Reached(c.row, n)
    BY <2>2 DEF Works, Asked, Recorded, Reached
  <2>5. Harmless(c.row, n, c.todo)
    <3> SUFFICES ASSUME NEW step \in steps
                 PROVE  /\ step[1] \notin {"undns", "dns"}
                        /\ step[1] = "unroute" => \/ step[2] # c.row.domain
                                                  \/ /\ c.row.status # "running"
                                                     /\ c.row.domain = Bare[n]
      BY DEF Harmless
    <3> QED
      BY <2>2, <2>3
  <2>6. Has(c.todo, "save")
    BY <1>04, <2>1
  <2> QED
    BY <1>4, <2>4, <2>5, <2>6 DEF Served, Replaced, WillWork
<1>5. CASE c.op = "unfreeze"
  <2>1. /\ c.row = [rows[n] EXCEPT !.status = "running"]
        /\ steps = {<<"boot">>, <<"save">>} \cup {y \in {<<"route", Bare[n], Own>>} : rows[n].expose}
    BY <1>5 DEF Started
  <2>2. /\ c.row.domain = d /\ c.row.rowid = rows[n].rowid
        /\ c.row.made = rows[n].made /\ c.row.expose = rows[n].expose
    BY <1>0, <2>1 DEF Project
  <2>3. \A step \in steps : step[1] \notin {"unroute", "undns", "dns"}
    BY <2>1
  <2>4. Asked(c.row) /\ Recorded(c.row, n)
    BY <2>2 DEF Works, Asked, Recorded
  <2>5. Reached(c.row, n) \/ <<"route", c.row.domain, Own>> \in steps
    <3>1. CASE d # NoHost /\ d = Bare[n]
      BY <2>1, <2>2, <3>1 DEF Works, Asked
    <3>2. CASE ~(d # NoHost /\ d = Bare[n])
      BY <2>2, <3>2 DEF Works, Reached
    <3> QED
      BY <3>1, <3>2
  <2> QED
    BY <1>5, <1>03, <2>3, <2>4, <2>5 DEF Served, WillWork
<1>6. CASE c.op = "route add"
  <2>1. PICK h \in HostsOf(n) :
           /\ rows[n].made
           /\ c.row = [rows[n] EXCEPT !.status = "running", !.expose = TRUE, !.domain = h]
           /\ steps = {<<"route", h, Own>>, <<"save">>} \cup {y \in {<<"dns", h, HostIP>>} : h = Fqdn[n]}
    BY <1>6 DEF Started
  <2>2. c.row.domain = h /\ c.row.made /\ c.row.expose
    BY <1>0, <2>1 DEF Project
  <2>3. /\ \A step \in steps : /\ step[1] \notin {"unroute", "undns"}
                               /\ step[1] = "dns" => step[3] = HostIP
        /\ <<"route", h, Own>> \in steps
        /\ h = Fqdn[n] => <<"dns", Fqdn[n], HostIP>> \in steps
    BY <2>1
  <2>4. Harmless(rows[n], n, c.todo) /\ Harmless(c.row, n, c.todo)
    BY <1>03, <2>3
  <2>5. WillWork("route add", c.row, n, c.todo)
    BY <2>2, <2>3, <2>4 DEF WillWork, Asked, Recorded
  <2> QED
    BY <1>6, <2>4, <2>5 DEF Served
<1>7. CASE c.op = "route remove"
  <2>1. PICK h : \/ c.row = Unexposed(rows[n]) /\ <<"save">> \in steps
                 \/ ~(rows[n].made /\ d = h) /\ steps = {<<"unroute", h>>}
    BY <1>7 DEF Started
  <2>2. CASE c.row = Unexposed(rows[n]) /\ <<"save">> \in steps
    <3>1. c.row.domain = NoHost
      BY <1>0, <2>2 DEF Project, Unexposed
    <3> QED
      BY <1>7, <1>02, <1>04, <2>2, <3>1 DEF Served, Replaced
  <2>3. CASE ~(rows[n].made /\ d = h) /\ steps = {<<"unroute", h>>}
    <3>1. \A step \in steps : step[1] = "unroute" /\ step[2] = h
      BY <2>3
    <3>2. d # NoHost => d # h
      BY <2>3 DEF Works, Asked
    <3> QED
      BY <1>7, <3>1, <3>2 DEF Served, Harmless, Has
  <2> QED
    BY <2>1, <2>2, <2>3
<1>8. CASE c.op = "unexpose"
  <2>1. c.row = Unexposed(rows[n]) /\ <<"save">> \in steps
    BY <1>8 DEF Started
  <2>2. c.row.domain = NoHost
    BY <1>0, <2>1 DEF Project, Unexposed
  <2> QED
    BY <1>8, <1>02, <1>04, <2>1, <2>2 DEF Served, Replaced
<1>9. CASE c.op \in {"port open", "port close"}
  <2>1. PICK port, ports : /\ c.row = [rows[n] EXCEPT !.ports = ports]
                           /\ steps \subseteq {OpenPort(port, Own), ClosePort(port, Own), <<"save">>}
    BY Zenon, <1>9 DEF Started
  <2>2. \A step \in steps : step[1] \notin {"dns", "undns", "unroute"}
    BY <2>1 DEF OpenPort, ClosePort
  <2>3. /\ c.row.status = rows[n].status /\ c.row.domain = d /\ c.row.rowid = rows[n].rowid
        /\ c.row.made = rows[n].made /\ c.row.expose = rows[n].expose
    BY <1>0, <2>1 DEF Project
  <2>4. Asked(c.row) /\ Recorded(c.row, n) /\ Reached(c.row, n)
    BY <2>3 DEF Works, Asked, Recorded, Reached
  <2> QED
    BY <1>9, <1>03, <2>2, <2>4 DEF Served, WillWork
<1> QED
  BY Zenon, <1>0, <1>1, <1>2, <1>3, <1>4, <1>5, <1>6, <1>7, <1>8, <1>9 DEF Started

\* Others take nothing away.
LEMMA RecordedStays ==
    ASSUME Core, NEW p \in Procs, DoStep(p), NEW n \in Names, NEW row, Recorded(row, n),
           n = cmd[p].name /\ row.domain = Fqdn[n]
              => ~At(p, "undns") /\ (At(p, "dns") => NextStep(p)[3] = HostIP)
    PROVE  Recorded(row, n)'
<1> SUFFICES ASSUME row.domain = Fqdn[n] PROVE dns'[Fqdn[n]] = HostIP
  BY DEF Recorded
<1>1. dns[Fqdn[n]] = HostIP /\ dns \in [Hosts -> Nat \cup {HostIP}]
  BY DEF Recorded, Core, TypeOK
<1>2. CASE n # cmd[p].name
  BY <1>1, <1>2, OtherRecord
<1>3. CASE n = cmd[p].name
  <2>1. ASSUME NEW kind \in {"dns", "undns"}, At(p, kind)
        PROVE  At(p, "dns") /\ Index(p) = HostIP
    BY <1>3, <2>1, NoHostIP DEF Index
  <2>2. Fqdn[n] \in Hosts
    BY HostsAssumption DEF HostsOf
  <2> QED
    BY <1>1, <2>1, <2>2, RecordEffect
<1> QED
  BY <1>2, <1>3

LEMMA ReachedStays ==
    ASSUME Core, ServesAlone, ~server => \A h \in Hosts : routes[h] = 0,
           NEW p \in Procs, DoStep(p), NEW n \in Names, NEW row,
           row.domain \in {NoHost} \cup HostsOf(n), Reached(row, n),
           n = cmd[p].name /\ row.domain # NoHost =>
              /\ At(p, "unroute") => \/ Key(p) # row.domain
                                     \/ row.status # "running" /\ row.domain = Bare[n]
              /\ At(p, "route") => row.rowid = cmd[p].row.rowid /\ ~MayFailAt(p, "route")
    PROVE  Reached(row, n)'
<1> DEFINE d == row.domain
<1> SUFFICES ASSUME d \notin lost' \cup {NoHost}, row.status = "running" \/ d # Bare[n]
             PROVE  routes'[d] = row.rowid
  BY DEF Reached
<1>1. d \in HostsOf(n) /\ d \in Hosts /\ routes \in [Hosts -> Nat]
  BY HostsAssumption DEF Core, TypeOK
<1>2. d \notin lost => routes[d] = row.rowid
  BY DEF Reached
<1>3. ASSUME Key(p) \in HostsOf(cmd[p].name), cmd[p].name \in Names, Key(p) = d
      PROVE  n = cmd[p].name
  BY <1>1, <1>3, HostsAssumption
<1>4. CASE At(p, "serve") /\ routes' = [h \in Hosts |-> 0] /\ lost' = lost
  BY <1>1, <1>2, <1>4 DEF ServesAlone
<1>5. ASSUME At(p, "route"), Key(p) \in HostsOf(cmd[p].name), cmd[p].name \in Names,
             NEW i, routes' = [routes EXCEPT ![Key(p)] = i],
             \/ i = cmd[p].row.rowid /\ lost' = lost \ {Key(p)}
             \/ MayFailAt(p, "route") /\ lost' = lost
      PROVE  routes'[d] = row.rowid
  BY <1>1, <1>2, <1>3, <1>5
<1>6. CASE /\ At(p, "unroute") /\ Key(p) \in HostsOf(cmd[p].name) /\ cmd[p].name \in Names
           /\ routes' = [routes EXCEPT ![Key(p)] = 0] /\ lost' = lost \ {Key(p)}
  BY <1>1, <1>2, <1>3, <1>6
<1> QED
  BY <1>2, <1>4, <1>5, <1>6, RouteEffect

LEMMA HarmlessStays ==
    ASSUME Core, NEW p \in Procs, DoStep(p), NEW n, NEW row, Harmless(row, n, cmd[p].todo)
    PROVE  Harmless(row, n, cmd'[p].todo)
<1>1. PICK kind : At(p, kind)
  BY TakesStep
<1>2. ToSet(cmd[p].todo) = {NextStep(p)} \cup ToSet(Tail(cmd[p].todo))
  BY <1>1, TailFollows
<1>3. ASSUME NEW step \in ToSet(cmd'[p].todo), step[1] \in {"unroute", "dns", "undns"}
      PROVE  step \in ToSet(cmd[p].todo)
  <2>1. step # <<"serve">>
    BY <1>3
  <2> QED
    BY <1>2, <1>3, <2>1, StepsLeft
<1> QED
  BY <1>3 DEF Harmless

\* unfreeze and route add do all their steps, if they go on.
LEMMA DoesAll ==
    ASSUME Core, ServesAlone, DomainsAreServed, NEW p \in Procs, DoStep(p),
           cmd[p].op \in {"unfreeze", "route add"}, cmd'[p].todo # <<>>
    PROVE  \/ FindNoServer(p) /\ ToSet(cmd[p].todo) \subseteq ToSet(cmd'[p].todo)
           \/ /\ cmd'[p].todo = Tail(cmd[p].todo)
              /\ At(p, "route") => routes' = [routes EXCEPT ![Key(p)] = cmd[p].row.rowid]
<1>0. /\ \A kind : At(p, kind) => \A other : other # kind => ~At(p, other)
      /\ ~MayFailAt(p, "route") /\ ~GiveUp(p, <<>>)
      /\ Advance(p) => cmd'[p].todo = Tail(cmd[p].todo)
  BY AdvanceOn, GivenUp DEF At, MayFailAt, DomainsAreServed
<1>1. PICK kind : At(p, kind) /\ cmd[p].op \in Users(kind)
                     /\ kind \in {"register", "boot", "serve", "route", "unroute", "open",
                                  "forward", "unforward", "save", "dns", "undns", "unrow", "ready"}
  BY TakesStep, AtStep, StepKinds
<1>2. kind \in {"boot", "serve", "route", "save", "dns"}
  BY <1>1 DEF Users
<1>3. CASE kind = "route" /\ FindNoServer(p)
  <2>1. PICK s : s = << <<"serve">> >> \o cmd[p].todo
    OBVIOUS
  <2>2. cmd'[p].todo = s
    BY <1>3, <2>1, TodoIs DEF FindNoServer
  <2>3. cmd[p].todo \in Seq(Step) /\ <<"serve">> \in Step
    BY <1>1, AtStep, ServeStep
  <2>4. ToSet(s) = {<<"serve">>} \cup ToSet(cmd[p].todo)
    BY ONLY <2>1, <2>3, Prepended
  <2> QED
    BY <1>3, <2>2, <2>4
<1>4. CASE kind = "route" /\ ~FindNoServer(p)
  <2>1. Route(p)
    BY <1>1, <1>4, StepIs DEF At
  <2> QED
    BY <1>0, <1>1, <1>4, <2>1, StepData DEF Route
<1>5. CASE kind # "route"
  <2>1. Boot(p) \/ Serve(p) \/ Save(p) \/ Record(p)
    BY <1>1, <1>2, <1>5, StepIs DEF At
  <2>2. At(p, "serve") => ~server
    BY DEF ServesAlone
  <2>3. Advance(p)
    BY <1>0, <2>1, <2>2 DEF Boot, Serve, Save, Record, When, AfterFailedSave
  <2> QED
    BY <1>0, <1>1, <1>5, <2>3
<1> QED
  BY <1>3, <1>4, <1>5

LEMMA ServedGoesOn ==
    ASSUME Core, Core', OpensPorts, ServesAlone, ~server => \A h \in Hosts : routes[h] = 0,
           DomainsAreServed, NEW p \in Procs, DoStep(p), NEW n \in Names, n = cmd[p].name,
           NEW op, op = cmd[p].op, Served(op, n, cmd[p].row, cmd[p].todo)
    PROVE  Served(op, n, cmd[p].row, cmd[p].todo)'
<1> DEFINE todo == cmd[p].todo
           next == cmd'[p].todo
<1>1. PICK kind, old, row, new, left :
         /\ At(p, kind) /\ old = rows[n] /\ row = cmd[p].row
         /\ new = cmd'[p].row /\ left = next
  BY TakesStep
<1>2. /\ Shaped(cmd[p]) /\ op \in Users(kind) /\ NextStep(p)[1] = kind
      /\ ToSet(todo) = {NextStep(p)} \cup ToSet(Tail(todo))
      /\ \A y \in ToSet(Tail(todo)) : Follows(op, NextStep(p), y)
  BY <1>1, AtStep, TailFollows
<1>3. /\ old \in Project /\ old.domain \in {NoHost} \cup HostsOf(n)
      /\ row \in Project /\ row.domain \in {NoHost} \cup HostsOf(n)
      /\ rows \in [Names -> Project] /\ op # "daemon"
      /\ NoHost # Fqdn[n] /\ NoHost # Bare[n]
  <2>1. op # "daemon"
    BY <1>2, NoneAssumption DEF Shaped
  <2>2. NoHost # Fqdn[n] /\ NoHost # Bare[n]
    BY NoneAssumption, HostsAssumption DEF HostsOf
  <2> QED
    BY <1>1, <1>2, <2>1, <2>2 DEF Shaped, Core, TypeOK, RowsAreProjects, Command
<1>4. kind = "route" => old.rowid = row.rowid
  BY <1>1, <1>3, OwnRow DEF HasIndex
<1>5. \A k : At(p, k) => k = kind
  BY <1>1 DEF At
\* What a row has that nothing left to do harms, it keeps.
<1>6. ASSUME NEW r, r.domain \in {NoHost} \cup HostsOf(n), Harmless(r, n, todo),
             r.domain # NoHost => /\ op \notin {"deploy", "clone", "load"}
                                  /\ kind = "route" => r.rowid = row.rowid
      PROVE  /\ Harmless(r, n, next)
             /\ Reached(r, n) => Reached(r, n)'
             /\ Recorded(r, n) => Recorded(r, n)'
  <2>1. Harmless(r, n, next)
    BY <1>6, HarmlessStays
  <2>2. NextStep(p) \in ToSet(todo) /\ Key(p) = NextStep(p)[2]
    BY <1>2 DEF Key
  <2>3. ASSUME r.domain # NoHost, kind = "route" PROVE ~MayFailAt(p, "route")
    BY <1>2, <1>6, <2>3 DEF Users, MayFailAt, DomainsAreServed
  <2>4. Reached(r, n) => Reached(r, n)'
    BY <1>1, <1>2, <1>5, <1>6, <2>2, <2>3, ReachedStays DEF Harmless
  <2>5. Recorded(r, n) => Recorded(r, n)'
    BY <1>2, <1>3, <1>5, <1>6, <2>2, RecordedStays DEF Harmless
  <2> QED
    BY <2>1, <2>4, <2>5
<1>7. Left(p) => \A k \in {"save", "unrow"} : Has(next, k) <=> Has(Tail(todo), k)
  BY LeftHas
<1>8. ASSUME NEW k \in {"save", "unrow"} PROVE Has(todo, k) => k = kind \/ Has(Tail(todo), k)
  BY <1>2 DEF Has
\* All that can become of the row.
<1>9. \/ rows'[n] = old
      \/ rows'[n].domain = NoHost
      \/ rows'[n] = row /\ kind = "save"
  <2>1. Registers(p) => rows'[n].domain = NoHost
    BY <1>3 DEF Registers, NoProject
  <2>2. NoProject.domain = NoHost
    BY DEF NoProject
  <2> QED
    BY <1>1, <1>3, <1>5, <2>1, <2>2, Leaves
<1>10. ASSUME Replaced(op, todo)
       PROVE  Replaced(op, next) \/ rows'[n].domain = NoHost \/ (rows'[n] = row /\ kind = "save")
  <2>1. CASE op \in {"freeze", "unexpose", "route remove"} /\ Has(todo, "save")
    <3>1. /\ kind \notin {"register", "boot", "unrow"}
          /\ kind = "save" => ~MayFailAt(p, "save")
      BY <1>2, <2>1 DEF Users, MayFailAt, DomainsAreServed
    <3>2. ~Ends(p) /\ ~CleansUp(p)
      BY <1>5, <2>1, <3>1 DEF Ends, CleansUp
    <3>3. CASE kind = "save"
      BY <1>1, <1>3, <1>5, <3>1, <3>2, <3>3, Leaves
    <3>4. CASE kind # "save"
      <4>1. Left(p)
        BY <1>5, <3>1, <3>2, <3>4, Leaves
      <4> QED
        BY <1>7, <1>8, <2>1, <3>4, <4>1 DEF Replaced
    <3> QED
      BY <3>3, <3>4
  <2>2. CASE op = "destroy" /\ Has(todo, "unrow")
    <3>1. /\ kind \notin {"register", "boot", "save"}
          /\ kind = "unrow" => ~MayFailAt(p, "unrow")
      BY <1>2, <2>2 DEF Users, MayFailAt, DomainsAreServed, Ops
    <3>2. ~Ends(p) /\ ~CleansUp(p)
      BY <1>5, <2>2, <3>1 DEF Ends, CleansUp
    <3>3. CASE kind = "unrow"
      <4>1. rows' = [rows EXCEPT ![n] = NoProject] /\ NoProject.domain = NoHost
        BY <1>1, <1>5, <3>1, <3>2, <3>3, Leaves DEF NoProject
      <4> QED
        BY <1>3, <4>1
    <3>4. CASE kind # "unrow"
      <4>1. Left(p)
        BY <1>5, <3>1, <3>2, <3>4, Leaves
      <4> QED
        BY <1>7, <1>8, <2>2, <3>4, <4>1 DEF Replaced
    <3> QED
      BY <3>3, <3>4
  <2> QED
    BY <1>10, <2>1, <2>2 DEF Replaced
\* The row works, or will be replaced.
<1>11. \/ Works(rows[n], n)' /\ Harmless(rows[n], n, todo)'
       \/ Replaced(op, todo)'
  <2>1. PICK r : r = rows'[n]
    OBVIOUS
  <2>2. ASSUME Works(r, n)' /\ Harmless(r, n, next)
        PROVE  Works(rows[n], n)' /\ Harmless(rows[n], n, todo)'
    BY <2>1, <2>2 DEF Works, Asked, Reached, Recorded, Harmless
  <2>3. CASE r.domain = NoHost
    <3>1. Works(r, n)' /\ Harmless(r, n, next)
      BY <1>3, <2>3 DEF Works, Asked, Reached, Recorded, Harmless
    <3> QED
      BY <2>2, <3>1
  <2>4. CASE r = row /\ kind = "save"
    <3>1. WillWork(op, row, n, todo)
      <4>1. Has(todo, "save")
        BY <1>2, <2>4 DEF Has
      <4> QED
        BY <1>1, <4>1 DEF Served
    <3>2. ASSUME NEW x \in ToSet(todo)
          PROVE  x[1] \in {"save", "dns", "unroute"} /\ (op = "route add" => x[1] # "dns")
      BY <1>2, <2>4, <3>2 DEF Follows
    <3>3. Works(row, n) /\ Harmless(row, n, todo)
      <4>1. <<"route", row.domain, Own>>[1] = "route" /\ <<"dns", Fqdn[n], HostIP>>[1] = "dns"
        OBVIOUS
      <4> QED
        BY <3>1, <3>2, <4>1 DEF WillWork, Works
    <3>4. row.domain # NoHost => op \notin {"deploy", "clone", "load"}
      BY <1>1 DEF Served
    <3>5. Works(r, n)' /\ Harmless(r, n, next)
      BY <1>3, <1>6, <2>4, <3>3, <3>4 DEF Works, Asked
    <3> QED
      BY <2>2, <3>5
  <2>5. CASE r = old /\ Works(rows[n], n) /\ Harmless(rows[n], n, todo)
    <3>1. old.domain # NoHost => op \notin {"deploy", "clone", "load"}
      BY <1>1 DEF Served
    <3>2. Works(old, n) /\ Harmless(old, n, todo)
      BY <1>1, <2>5
    <3>3. Works(r, n)' /\ Harmless(r, n, next)
      BY <1>3, <1>4, <1>6, <2>5, <3>1, <3>2 DEF Works, Asked
    <3> QED
      BY <2>2, <3>3
  <2>6. CASE Replaced(op, todo)
    <3>1. Replaced(op, next) <=> Replaced(op, todo)'
      BY DEF Replaced, Has
    <3> QED
      BY <1>10, <2>1, <2>3, <2>4, <2>6, <3>1
  <2> QED
    BY <1>1, <1>9, <2>1, <2>3, <2>4, <2>5, <2>6 DEF Served
\* So does the row that is to be saved.
<1>12. ASSUME next # <<>>
       PROVE  /\ new.made = row.made /\ new.expose = row.expose /\ new.status = row.status
              /\ new.domain = row.domain
              /\ row.domain # NoHost => new.rowid = row.rowid
  <2>1. kind = "register" => op \in {"deploy", "clone", "load"}
    BY <1>2 DEF Users
  <2>2. row.domain # NoHost => ~At(p, "register")
    BY <1>1, <1>5, <2>1 DEF Served
  <2> QED
    BY <1>1, <1>12, <2>2, RowStays
<1>13. ASSUME Has(next, "save") PROVE WillWork(op, new, n, left)'
  <2>1. next # <<>>
    BY <1>13, NoElements DEF Has
  <2>2. Has(todo, "save")
    <3>1. PICK step \in ToSet(next) : step[1] = "save"
      BY <1>13 DEF Has
    <3>2. step # <<"serve">>
      BY <3>1
    <3> QED
      BY <1>2, <3>1, <3>2, StepsLeft DEF Has
  <2>3. WillWork(op, row, n, todo)
    BY <1>1, <2>2 DEF Served
  <2>4. CASE row.domain = NoHost
    BY <1>1, <1>3, <1>12, <2>1, <2>4 DEF WillWork, Asked, Reached, Recorded, Harmless
  <2>5. CASE row.domain # NoHost
    <3>1. op \notin {"deploy", "clone", "load"}
      BY <1>1, <2>5 DEF Served
    <3>2. /\ Harmless(row, n, next)
          /\ Reached(row, n) => Reached(row, n)'
          /\ Recorded(row, n) => Recorded(row, n)'
      BY <1>3, <1>6, <2>3, <3>1 DEF WillWork
    <3>3. ASSUME ~Reached(row, n)
          PROVE  Reached(row, n)' \/ (op \in {"unfreeze", "route add"}
                                        /\ <<"route", row.domain, Own>> \in ToSet(next))
      <4> DEFINE x == <<"route", row.domain, Own>>
      <4>1. op \in {"unfreeze", "route add"} /\ x \in ToSet(todo)
        BY <2>3, <3>3 DEF WillWork
      <4>2. \/ x \in ToSet(next)
            \/ x = NextStep(p) /\ (At(p, "route")
                   => routes' = [routes EXCEPT ![Key(p)] = cmd[p].row.rowid])
        BY <1>2, <2>1, <4>1, DoesAll
      <4>3. ASSUME x = NextStep(p) PROVE kind = "route" /\ Key(p) = row.domain
        BY <1>2, <4>3 DEF Key
      <4>4. routes \in [Hosts -> Nat] /\ row.domain \in Hosts
        BY <1>3, <2>5, HostsAssumption DEF Core, TypeOK
      <4> QED
        BY <1>1, <4>1, <4>2, <4>3, <4>4 DEF Reached
    <3>4. ASSUME ~Recorded(row, n)
          PROVE  Recorded(row, n)' \/ (op = "route add"
                                         /\ <<"dns", Fqdn[n], HostIP>> \in ToSet(next))
      <4> DEFINE x == <<"dns", Fqdn[n], HostIP>>
      <4>1. op = "route add" /\ x \in ToSet(todo)
        BY <2>3, <3>4 DEF WillWork
      <4>2. x \in ToSet(next) \/ x = NextStep(p)
        BY <1>2, <2>1, <4>1, DoesAll
      <4>3. ASSUME x = NextStep(p) PROVE dns' = [dns EXCEPT ![Fqdn[n]] = HostIP]
        <5>1. kind = "dns" /\ Key(p) = Fqdn[n] /\ NextStep(p)[3] = HostIP
          BY <1>2, <4>3 DEF Key
        <5>2. Index(p) = HostIP
          BY <5>1, NoHostIP DEF Index
        <5> QED
          BY <1>1, <4>1, <5>1, <5>2, RecordDone DEF MayFailAt, DomainsAreServed
      <4>4. dns \in [Hosts -> Nat \cup {HostIP}] /\ Fqdn[n] \in Hosts
        BY HostsAssumption DEF Core, TypeOK, HostsOf
      <4> QED
        BY <4>1, <4>2, <4>3, <4>4 DEF Recorded
    <3>5. Asked(new)' /\ Harmless(new, n, left)'
      BY <1>1, <1>12, <2>1, <2>3, <3>2 DEF WillWork, Asked, Harmless
    <3>6. /\ Reached(row, n)' => Reached(new, n)'
          /\ Recorded(row, n)' => Recorded(new, n)'
      BY <1>12, <2>1, <2>5 DEF Reached, Recorded
    <3> QED
      BY <1>1, <1>12, <2>1, <3>2, <3>3, <3>4, <3>5, <3>6 DEF WillWork
  <2> QED
    BY <2>4, <2>5
<1>14. ASSUME op \in {"deploy", "clone", "load"}
       PROVE  new.domain = NoHost /\ rows'[n].domain = NoHost
  <2>1. row.domain = NoHost /\ old.domain = NoHost
    BY <1>1, <1>14 DEF Served
  <2>2. CASE next = <<>>
    <3>1. cmd'[p] = Idle
      BY <2>2 DEF Core, Shaped
    <3> QED
      BY <1>1, <1>9, <2>1, <3>1 DEF Idle, NoProject
  <2> QED
    BY <1>9, <1>12, <2>1, <2>2
<1>15. Has(todo, "save")' => WillWork(op, cmd[p].row, n, todo)'
  <2>1. WillWork(op, new, n, left)' <=> WillWork(op, cmd[p].row, n, todo)'
    BY <1>1 DEF WillWork, Asked, Reached, Recorded, Harmless
  <2>2. Has(todo, "save")' => Has(next, "save")
    BY DEF Has
  <2> QED
    BY <1>13, <2>1, <2>2
<1> QED
  BY <1>1, <1>11, <1>14, <1>15 DEF Served

LEMMA DomainsGoOnKept ==
    ASSUME Core, Core', OpensPorts, ServesAlone, DomainsAreServed, DomainsKept,
           NEW p \in Procs, DoStep(p)
    PROVE  DomainsKept'
<1>0. NoName \notin Names /\ Idle.name = NoName /\ Idle.todo = <<>>
  BY NoneAssumption DEF Idle
<1>1. /\ \A q \in Procs : q # p => cmd'[q] = cmd[q]
      /\ ~server => \A h \in Hosts : routes[h] = 0
  BY OnlyOwn DEF DomainsKept
<1>2. ~server' => \A h \in Hosts : routes'[h] = 0
  BY <1>1, RouteEffect DEF Core, TypeOK
<1>3. ASSUME NEW n \in Names, n # cmd[p].name, NEW row,
             row.domain \in {NoHost} \cup HostsOf(n)
      PROVE  /\ Reached(row, n) => Reached(row, n)'
             /\ Recorded(row, n) => Recorded(row, n)'
             /\ rows'[n] = rows[n]
  BY <1>1, <1>3, ReachedStays, RecordedStays, OtherRecord
<1>4. ASSUME NEW n \in Names, n # cmd[p].name, Works(rows[n], n) PROVE Works(rows[n], n)'
  <2>1. PICK old : old = rows[n] /\ old.domain \in {NoHost} \cup HostsOf(n)
    BY DEF Core, RowsAreProjects
  <2>2. rows'[n] = old /\ Works(old, n)'
    BY <1>3, <1>4, <2>1 DEF Works, Asked
  <2> QED
    BY <2>2 DEF Works, Asked, Reached, Recorded
<1>5. ASSUME NEW n \in Names, n = cmd[p].name, NEW op, op = cmd[p].op
      PROVE  Served(op, n, cmd[p].row, cmd[p].todo)'
  BY <1>1, <1>5, ServedGoesOn DEF DomainsKept
<1>6. ASSUME NEW n \in Names, Quiet(n)' PROVE Works(rows[n], n)'
  <2>1. CASE n # cmd[p].name
    BY <1>1, <1>4, <1>6, <2>1 DEF DomainsKept, Quiet
  <2>2. CASE n = cmd[p].name
    <3>1. cmd'[p].todo = <<>>
      BY <1>0, <1>6, <2>2, SameOp DEF Quiet
    <3>2. PICK op : op = cmd[p].op
      OBVIOUS
    <3>3. Served(op, n, cmd[p].row, cmd[p].todo)'
      BY <1>5, <2>2, <3>2
    <3> QED
      BY <3>1, <3>3, NoElements DEF Served, Replaced, Has
  <2> QED
    BY <2>1, <2>2
<1>7. ASSUME NEW q \in Procs, cmd'[q].name \in Names
      PROVE  Served(cmd[q].op, cmd[q].name, cmd[q].row, cmd[q].todo)'
  <2>1. PICK n, op, row, todo :
           /\ n \in Names /\ n = cmd'[q].name /\ op = cmd'[q].op
           /\ row = cmd'[q].row /\ todo = cmd'[q].todo
    BY Zenon, <1>7
  <2>2. SUFFICES Served(op, n, row, todo)'
    BY Zenon, <2>1 DEF Served, Works, WillWork, Asked, Reached, Recorded, Harmless
  <2>3. CASE q = p
    <3>1. cmd'[p].op = cmd[p].op /\ cmd'[p].name = cmd[p].name
      BY <1>0, <1>7, <2>3, SameOp
    <3>2. Served(op, n, cmd[p].row, cmd[p].todo)'
      BY <1>5, <2>1, <2>3, <3>1
    <3> QED
      BY <2>1, <2>3, <3>2 DEF Served, WillWork, Asked, Reached, Recorded, Harmless
  <2>4. CASE q # p
    <3>1. /\ n \in Names /\ n # cmd[p].name /\ Shaped(cmd[q])
          /\ op = cmd[q].op /\ n = cmd[q].name /\ row = cmd[q].row /\ todo = cmd[q].todo
      BY <1>0, <1>1, <1>7, <2>1, <2>4 DEF Core, OnePerProject
    <3>2. Served(op, n, row, todo)
      BY <3>1 DEF DomainsKept
    <3>3. row.domain \in {NoHost} \cup HostsOf(n)
      BY <3>1, NoneAssumption DEF Shaped
    <3>4. WillWork(op, row, n, todo) => WillWork(op, row, n, todo)'
      BY <1>3, <3>1, <3>3 DEF WillWork, Asked, Harmless
    <3>5. rows'[n] = rows[n] /\ (Works(rows[n], n) => Works(rows[n], n)')
      BY <1>4, <3>1, OtherRecord
    <3>6. Harmless(rows[n], n, todo) => Harmless(rows[n], n, todo)'
      BY <3>5 DEF Harmless
    <3> QED
      BY <3>2, <3>4, <3>5, <3>6 DEF Served
  <2> QED
    BY <2>3, <2>4
<1> QED
  BY <1>2, <1>6, <1>7 DEF DomainsKept

LEMMA DomainsSame ==
    ASSUME UNCHANGED <<rows, server, routes, lost, dns>>,
           ~server => \A h \in Hosts : routes[h] = 0,
           \A n \in Names : Quiet(n)' => Works(rows[n], n),
           \A q \in Procs : cmd'[q].name \in Names =>
              Served(cmd'[q].op, cmd'[q].name, cmd'[q].row, cmd'[q].todo)
    PROVE  DomainsKept'
<1>1. \A n \in Names : Works(rows[n], n) => Works(rows[n], n)'
  BY DEF Works, Asked, Reached, Recorded
<1>2. ASSUME NEW q \in Procs, cmd'[q].name \in Names
      PROVE  Served(cmd[q].op, cmd[q].name, cmd[q].row, cmd[q].todo)'
  <2>1. PICK n, op, row, todo :
           /\ n \in Names /\ n = cmd'[q].name /\ op = cmd'[q].op
           /\ row = cmd'[q].row /\ todo = cmd'[q].todo
    BY <1>2
  <2>2. SUFFICES Served(op, n, row, todo)'
    BY Zenon, <2>1 DEF Served, Works, WillWork, Asked, Reached, Recorded, Harmless
  <2>3. Served(op, n, row, todo)
    BY <1>2, <2>1
  <2> QED
    BY <2>3 DEF Served, WillWork, Works, Asked, Reached, Recorded, Harmless
<1> QED
  BY <1>1, <1>2 DEF DomainsKept

LEMMA DomainsBegin ==
    ASSUME Core, Core', DomainsAreServed, DomainsKept, NEW p \in Procs, BeginCommand(p)
    PROVE  DomainsKept'
<1>1. /\ rows' = rows /\ routes' = routes /\ lost' = lost /\ dns' = dns /\ server' = server
      /\ cmd[p] = Idle /\ \A q \in Procs : q # p => cmd'[q] = cmd[q]
  BY OnlyOwnBegins
<1>2. Idle.name = NoName /\ NoName \notin Names
  BY NoneAssumption DEF Idle
<1>3. ASSUME NEW n \in Names, \A q \in Procs : q # p => cmd'[q].name # n
      PROVE  Works(rows[n], n)
  BY <1>1, <1>2, <1>3 DEF DomainsKept, Quiet
<1>4. ASSUME NEW q \in Procs, cmd'[q].name \in Names
      PROVE  Served(cmd'[q].op, cmd'[q].name, cmd'[q].row, cmd'[q].todo)
  <2>1. CASE q = p
    <3>1. PICK c : c = cmd'[p]
      OBVIOUS
    <3>2. Started(c) /\ c \in Command
      BY <3>1, Beginning DEF Core, TypeOK
    <3>3. Works(rows[c.name], c.name)
      BY <1>2, <1>3, <1>4, <2>1, <3>1 DEF Core, OnePerProject
    <3>4. c.op \in {"deploy", "clone", "load"} => c.row.domain = NoHost
      BY <3>1, NewDomains DEF DomainsAreServed
    <3> QED
      BY <1>4, <2>1, <3>1, <3>2, <3>3, <3>4, ServedStarts
  <2>2. CASE q # p
    BY <1>1, <1>4, <2>2 DEF DomainsKept
  <2> QED
    BY <2>1, <2>2
<1>5. ASSUME NEW n \in Names, Quiet(n)' PROVE Works(rows[n], n)
  BY <1>3, <1>5 DEF Quiet
<1> QED
  BY <1>1, <1>4, <1>5, DomainsSame DEF DomainsKept

\* However commands interleave and the host reboots, and whatever fails besides
\* the failures that DomainsAreServed names.
THEOREM DomainsWork == ASSUME DomainsAreServed PROVE Spec => []RecordedDomainWorks
<1>1. Init => DomainsKept
  <2> SUFFICES ASSUME Init PROVE DomainsKept
    OBVIOUS
  <2>1. \A n \in Names : Works(rows[n], n)
    BY NoDomainWorks DEF Init, NoProject
  <2>2. \A p \in Procs : cmd[p].name \notin Names
    BY NoneAssumption DEF Init, Idle
  <2> QED
    BY <2>1, <2>2 DEF Init, DomainsKept
<1>2. DomainsKept /\ ServesAlone /\ (Core /\ OpensPorts) /\ (Core /\ OpensPorts)' /\ [Next]_vars
         => DomainsKept'
  <2> SUFFICES ASSUME DomainsKept, ServesAlone, Core, Core', OpensPorts, [Next]_vars
               PROVE  DomainsKept'
    OBVIOUS
  <2>1. ASSUME NEW p \in Procs, BeginCommand(p) PROVE DomainsKept'
    BY <2>1, DomainsBegin
  <2>2. ASSUME NEW p \in Procs, DoStep(p) PROVE DomainsKept'
    BY <2>2, DomainsGoOnKept
  <2>3. CASE Reboot
    <3>1. \A n \in Names : rows[n].domain \in {NoHost} \cup Hosts
      BY HostsAssumption DEF Core, RowsAreProjects
    <3>2. ASSUME NEW n \in Names PROVE Works(rows[n], n)'
      <4>1. Works(rows[n], n)
        BY <2>3, NoneAssumption DEF Reboot, DomainsKept, Quiet, Idle
      <4> QED
        BY <2>3, <3>1, <4>1 DEF Reboot, Works, Asked, Reached, Recorded
    <3>3. \A p \in Procs : cmd'[p].name \notin Names
      BY <2>3, NoneAssumption DEF Reboot, Idle
    <3>4. \A h \in Hosts : routes'[h] = 0
      BY <2>3 DEF Reboot
    <3> QED
      BY <3>2, <3>3, <3>4 DEF DomainsKept
  <2>4. CASE UNCHANGED vars
    BY <2>4, DomainsSame DEF vars, caddy, DomainsKept, Quiet
  <2> QED
    BY <2>1, <2>2, <2>3, <2>4 DEF Next
<1>3. DomainsKept /\ (Core /\ OpensPorts) => RecordedDomainWorks
  BY DEF DomainsKept, RecordedDomainWorks, Works, Reached, Recorded
<1>4. ServerAlone
  BY DEF DomainsAreServed
<1> QED
  BY <1>1, <1>2, <1>3, <1>4, CoreInv, ServesInv, PTL DEF Spec
=============================================================================
