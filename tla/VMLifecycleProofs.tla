------------------------- MODULE VMLifecycleProofs --------------------------
(***************************************************************************)
(* Theorems about VMLifecycle and Addresses, for any projects, processes,  *)
(* failures, crashes and bounds; those about running VMs, for processes    *)
(* that are not killed and Saves that do not fail once a VM has started.   *)
(***************************************************************************)
EXTENDS Addresses, TLAPS

Has(s, step) == \E i \in 1 .. Len(s) : s[i] = step

\* What the lists of steps of a command have in common: a disk is removed or
\* copied over only by commands that do so; a Save is the last step, and not
\* of a command that deletes its row or counts TAPs, and two steps at least
\* follow the count.
Plan(op, s) ==
    /\ s \in Seq(Steps)
    /\ \A i \in 1 .. Len(s) :
          /\ s[i] = "undisk" => op \in {"deploy", "destroy", "clone", "load"}
          /\ s[i] = "copy" => op = "clone"
          /\ s[i] = "save" => i = Len(s)
          /\ s[i] = "count" => i + 1 < Len(s)
    /\ Has(s, "unrow") \/ Has(s, "count") => ~Has(s, "save")

WellFormed(c) ==
    /\ Plan(c.op, c.todo)
    /\ c.todo = <<>> => c = Idle
    /\ c.todo # <<>> => c.name \in Names /\ (c.op = "clone" => c.src \in Names)

Plans == \A p \in Procs : WellFormed(cmd[p])

\* The command of p goes on with the steps t and the copy y.
Moves(p, t, y) ==
    /\ cmd' \in [Procs -> Command]
    /\ \A q \in Procs \ {p} : cmd'[q] = cmd[q]
    /\ t = <<>> => cmd'[p] = Idle
    /\ t # <<>> => /\ cmd'[p].op = cmd[p].op
                   /\ cmd'[p].name = cmd[p].name
                   /\ cmd'[p].src = cmd[p].src
                   /\ cmd'[p].todo = t
                   /\ cmd'[p].copy = y

-----------------------------------------------------------------------------
LEMMA IdleType == Idle \in Command
<1>1. NoProject \in Project
  BY DEF NoProject, Project, Statuses
<1> QED
  BY <1>1 DEF Idle, Command

LEMMA EmptyPlan == \A op : Plan(op, <<>>) /\ ~Has(<<>>, "save")
BY DEF Plan, Has

LEMMA EmptyHasNothing == \A x : ~Has(<<>>, x)
BY DEF Has

\* What is left of a plan after its first step.
LEMMA TailOfPlan ==
    ASSUME NEW op, NEW s, Plan(op, s), s # <<>>
    PROVE  /\ Head(s) = s[1] /\ Head(s) \in Steps /\ Has(s, Head(s))
           /\ Plan(op, Tail(s))
           /\ \A x : Has(Tail(s), x) => Has(s, x)
           /\ \A x : Has(s, x) /\ x # Head(s) => Has(Tail(s), x)
           /\ Head(s) = "save" => Tail(s) = <<>>
           /\ Head(s) = "count" => Tail(s) # <<>>
<1> DEFINE t == Tail(s)
           l == Len(s)
           h == Head(s)
<1>1. s \in Seq(Steps) /\ l \in Nat /\ l > 0
  BY DEF Plan
<1>2. /\ t \in Seq(Steps) /\ Len(t) = l - 1
      /\ \A i \in 1 .. l - 1 : t[i] = s[i + 1]
      /\ h = s[1] /\ h \in Steps
  BY <1>1
<1>3. \A i \in 1 .. l : /\ s[i] = "undisk" => op \in {"deploy", "destroy", "clone", "load"}
                        /\ s[i] = "copy" => op = "clone"
                        /\ s[i] = "save" => i = l
                        /\ s[i] = "count" => i + 1 < l
  BY DEF Plan
<1>4. \A x : Has(s, x) <=> \E i \in 1 .. l : s[i] = x
  BY DEF Has
<1>5. \A x : Has(t, x) <=> \E i \in 1 .. Len(t) : t[i] = x
  BY DEF Has
<1>6. Has(s, "unrow") \/ Has(s, "count") => ~Has(s, "save")
  BY DEF Plan
<1>7. Len(t) = 0 <=> t = <<>>
  BY <1>2
<1> HIDE DEF t, l, h
<1>8. Has(s, h)
  BY <1>1, <1>2, <1>4
<1>9. ASSUME NEW x, Has(t, x)
      PROVE  Has(s, x)
  <2>1. PICK i \in 1 .. l - 1 : t[i] = x
    BY <1>2, <1>5, <1>9
  <2>2. i + 1 \in 1 .. l /\ s[i + 1] = x
    BY <1>1, <1>2, <2>1
  <2> QED
    BY <1>4, <2>2
<1>10. ASSUME NEW x, Has(s, x), x # h
       PROVE  Has(t, x)
  <2>1. PICK i \in 1 .. l : s[i] = x
    BY <1>4, <1>10
  <2>2. i # 1 /\ i - 1 \in 1 .. l - 1
    BY <1>1, <1>2, <1>10, <2>1
  <2>3. t[i - 1] = s[(i - 1) + 1] /\ (i - 1) + 1 = i
    BY <1>2, <2>2
  <2> QED
    BY <1>2, <1>5, <2>1, <2>2, <2>3
<1>11. Plan(op, t)
  <2>1. ASSUME NEW i \in 1 .. Len(t)
        PROVE  /\ t[i] = "undisk" => op \in {"deploy", "destroy", "clone", "load"}
               /\ t[i] = "copy" => op = "clone"
               /\ t[i] = "save" => i = Len(t)
               /\ t[i] = "count" => i + 1 < Len(t)
    <3>1. i + 1 \in 1 .. l /\ t[i] = s[i + 1]
      BY <1>1, <1>2
    <3> QED
      BY <1>1, <1>2, <1>3, <3>1
  <2> QED
    BY <1>2, <1>6, <1>9, <2>1 DEF Plan
<1>12. 1 \in 1 .. l
  BY <1>1
<1>13. h = "save" => t = <<>>
  <2>1. h = "save" => 1 = l
    BY <1>2, <1>3, <1>12
  <2>2. h = "save" => Len(t) = 0
    BY <1>2, <2>1
  <2> QED
    BY <1>7, <2>2
<1>14. h = "count" => t # <<>>
  <2>1. h = "count" => 1 + 1 < l
    BY <1>2, <1>3, <1>12
  <2>2. h = "count" => Len(t) # 0
    BY <1>1, <1>2, <2>1
  <2> QED
    BY <1>7, <2>2
<1> QED
  BY <1>2, <1>8, <1>9, <1>10, <1>11, <1>13, <1>14 DEF t, h

\* The clean-up after a step is a plan that saves nothing.
LEMMA CleanupIsPlan ==
    ASSUME NEW op, NEW step
    PROVE  Plan(op, Cleanup(op, step)) /\ ~Has(Cleanup(op, step), "save")
<1> DEFINE Lists == {<<>>, <<"unrow">>, <<"untap", "unrow">>,
                     <<"untap", "undisk", "unrow">>, <<"undisk">>,
                     <<"unrow", "undisk">>, <<"untap", "unrow", "undisk">>,
                     <<"untap">>}
<1>1. /\ Cleanup(op, step) \in Lists
      /\ Cleanup(op, step) # <<>> => op \in {"deploy", "clone", "load"}
  BY DEF Cleanup
<1>2. ASSUME NEW s \in Lists, s # <<>> => op \in {"deploy", "clone", "load"}
      PROVE  Plan(op, s) /\ ~Has(s, "save")
  <2>1. s \in Seq(Steps)
    <3>1. "unrow" \in Steps /\ "untap" \in Steps /\ "undisk" \in Steps
      BY DEF Steps
    <3> HIDE DEF Lists
    <3>2. /\ <<>> \in Seq(Steps)
          /\ <<"unrow">> \in Seq(Steps)
          /\ <<"undisk">> \in Seq(Steps)
          /\ <<"untap">> \in Seq(Steps)
      BY <3>1
    <3>3. /\ <<"untap", "unrow">> \in Seq(Steps)
          /\ <<"unrow", "undisk">> \in Seq(Steps)
      BY <3>1
    <3>4. /\ <<"untap", "undisk", "unrow">> \in Seq(Steps)
          /\ <<"untap", "unrow", "undisk">> \in Seq(Steps)
      BY <3>1
    <3> QED
      BY <3>2, <3>3, <3>4, Zenon DEF Lists
  <2>2. \A i \in 1 .. Len(s) : s[i] \in {"unrow", "untap", "undisk"}
    OBVIOUS
  <2>3. Len(s) # 0 => op \in {"deploy", "clone", "load"}
    BY <1>2
  <2> QED
    BY <2>1, <2>2, <2>3 DEF Plan, Has
<1> QED
  BY <1>1, <1>2, EmptyPlan

-----------------------------------------------------------------------------
\* Continue replaces the steps and the copy of one command.
LEMMA ContinueMoves ==
    ASSUME TypeOK, NEW p \in Procs, cmd[p].todo # <<>>,
           NEW t \in Seq(Steps), NEW y \in Project, NEW c,
           \/ c = [cmd[p] EXCEPT !.todo = t] /\ y = cmd[p].copy
           \/ c = [cmd[p] EXCEPT !.todo = t, !.copy = y],
           Continue(p, c)
    PROVE  Moves(p, t, y)
<1> DEFINE r == cmd[p]
<1>1. /\ r \in Command /\ cmd \in [Procs -> Command]
      /\ cmd' = [cmd EXCEPT ![p] = IF c.todo = <<>> THEN Idle ELSE c]
  BY DEF TypeOK, Continue
<1>2. c = [op |-> r.op, name |-> r.name, src |-> r.src, todo |-> t, copy |-> y,
           kept |-> r.kept]
  <2> HIDE DEF r
  <2>1. CASE c = [r EXCEPT !.todo = t] /\ y = r.copy
    BY <1>1, <2>1 DEF Command
  <2>2. CASE c = [r EXCEPT !.todo = t, !.copy = y]
    BY <1>1, <2>2 DEF Command
  <2> QED
    BY <2>1, <2>2 DEF r
<1>3. c \in Command
  <2> HIDE DEF r
  <2> QED
    BY <1>1, <1>2 DEF Command
<1>4. /\ c.op = cmd[p].op /\ c.name = cmd[p].name /\ c.src = cmd[p].src
      /\ c.todo = t /\ c.copy = y
  BY <1>2
<1>5. cmd' \in [Procs -> Command]
  BY <1>1, <1>3, IdleType
<1>6. cmd'[p] = IF t = <<>> THEN Idle ELSE c
  BY <1>1, <1>4
<1>7. \A q \in Procs \ {p} : cmd'[q] = cmd[q]
  BY <1>1
<1> QED
  BY <1>4, <1>5, <1>6, <1>7 DEF Moves

LEMMA AdvanceMoves ==
    ASSUME TypeOK, NEW p \in Procs, cmd[p].todo # <<>>
    PROVE  /\ Advance(p) => Moves(p, Tail(cmd[p].todo), cmd[p].copy)
           /\ \A y \in Project : AdvanceWith(p, y) => Moves(p, Tail(cmd[p].todo), y)
           /\ \A step : Fails(p, step)
                 => Moves(p, Cleanup(cmd[p].op, step), cmd[p].copy)
<1>1. cmd[p].todo \in Seq(Steps) /\ cmd[p].copy \in Project
  BY DEF TypeOK, Command
<1>2. Tail(cmd[p].todo) \in Seq(Steps)
  BY <1>1
<1>3. \A op, step : Cleanup(op, step) \in Seq(Steps)
  BY CleanupIsPlan DEF Plan
<1>4. Advance(p) => Moves(p, Tail(cmd[p].todo), cmd[p].copy)
  BY <1>1, <1>2, ContinueMoves DEF Advance
<1>5. ASSUME NEW y \in Project, AdvanceWith(p, y)
      PROVE  Moves(p, Tail(cmd[p].todo), y)
  BY <1>2, <1>5, ContinueMoves DEF AdvanceWith
<1>6. ASSUME NEW step, Fails(p, step)
      PROVE  Moves(p, Cleanup(cmd[p].op, step), cmd[p].copy)
  BY <1>1, <1>3, <1>6, ContinueMoves DEF Fails
<1> QED
  BY <1>4, <1>5, <1>6

-----------------------------------------------------------------------------
(***************************************************************************)
(* The invariant.                                                          *)
(***************************************************************************)

\* A command that makes a project finds none, and until its Save the row has
\* no other status than creating.  A Save is of a row that is there and of a
\* copy that has no other index than the row's.
Consistent(op, todo, copy, row) ==
    /\ op \in {"deploy", "clone", "load"} => row.status \in {"none", "creating"}
    /\ Has(todo, "save") /\ ~Has(todo, "register")
          => row.rowid # 0 /\ copy.net \in {0, row.rowid}

Copies ==
    \A p \in Procs :
       cmd[p].todo # <<>>
          => Consistent(cmd[p].op, cmd[p].todo, cmd[p].copy, rows[cmd[p].name])

OneCommandPerName ==
    \A p, q \in Procs : /\ cmd[p].todo # <<>> /\ cmd[q].todo # <<>>
                        /\ cmd[p].name = cmd[q].name
                        => p = q

RowsKeepIndex ==
    /\ \A n \in Names : rows[n].rowid = 0 => rows[n].status = "none"
    /\ \A n \in Names : rows[n].net \in {0, rows[n].rowid}
    /\ \A m, n \in Names : rows[m].rowid # 0 /\ rows[m].rowid = rows[n].rowid => m = n

CommandsInv == Plans /\ OneCommandPerName /\ Copies

IInv == TypeOK /\ RowsKeepIndex /\ CommandsInv

\* The command of p goes on and has no more to save than before.
GoesOn(p, t, y) ==
    /\ Moves(p, t, y)
    /\ Plan(cmd[p].op, t)
    /\ y \in Project
    /\ y.net = cmd[p].copy.net
    /\ Has(t, "save") => /\ Has(cmd[p].todo, "save")
                         /\ Has(cmd[p].todo, "register") => Has(t, "register")

-----------------------------------------------------------------------------
\* What is known of a command at a step.
LEMMA HeadFacts ==
    ASSUME TypeOK, Plans, NEW p \in Procs, NEW step, At(p, step)
    PROVE  /\ cmd[p].todo # <<>> /\ Head(cmd[p].todo) = step
           /\ Has(cmd[p].todo, step)
           /\ cmd[p].name \in Names /\ cmd[p].copy \in Project
           /\ Plan(cmd[p].op, cmd[p].todo)
           /\ step = "undisk" => cmd[p].op \in {"deploy", "destroy", "clone", "load"}
           /\ step = "copy" => cmd[p].op = "clone" /\ cmd[p].src \in Names
<1>1. /\ cmd[p].todo # <<>> /\ Head(cmd[p].todo) = step /\ Plan(cmd[p].op, cmd[p].todo)
  BY DEF At, Plans, WellFormed
<1>2. /\ cmd[p].name \in Names /\ cmd[p].copy \in Project
      /\ cmd[p].op = "clone" => cmd[p].src \in Names
  BY <1>1 DEF TypeOK, Command, Plans, WellFormed
<1>3. Has(cmd[p].todo, step)
  BY <1>1, TailOfPlan
<1>4. \A i \in 1 .. Len(cmd[p].todo) :
         /\ cmd[p].todo[i] = "undisk" => cmd[p].op \in {"deploy", "destroy", "clone", "load"}
         /\ cmd[p].todo[i] = "copy" => cmd[p].op = "clone"
  BY <1>1 DEF Plan
<1> QED
  BY <1>1, <1>2, <1>3, <1>4 DEF Has

\* The ways a step ends that neither registers nor saves.
LEMMA EndsGoOn ==
    ASSUME TypeOK, Plans, NEW p \in Procs, NEW step, At(p, step), step # "register"
    PROVE  /\ Advance(p) => GoesOn(p, Tail(cmd[p].todo), cmd[p].copy)
           /\ \A y \in Project : AdvanceWith(p, y) /\ y.net = cmd[p].copy.net
                 => GoesOn(p, Tail(cmd[p].todo), y)
           /\ \A x : Fails(p, x) => GoesOn(p, Cleanup(cmd[p].op, x), cmd[p].copy)
<1> DEFINE s == cmd[p].todo
<1>1. /\ s # <<>> /\ Head(s) = step
      /\ cmd[p].copy \in Project /\ Plan(cmd[p].op, s)
  BY HeadFacts
<1>2. /\ Plan(cmd[p].op, Tail(s))
      /\ \A x : Has(Tail(s), x) => Has(s, x)
      /\ \A x : Has(s, x) /\ x # Head(s) => Has(Tail(s), x)
  BY <1>1, TailOfPlan
<1>3. Has(Tail(s), "save") => /\ Has(s, "save")
                              /\ Has(s, "register") => Has(Tail(s), "register")
  BY <1>1, <1>2
<1>4. \A x : Plan(cmd[p].op, Cleanup(cmd[p].op, x)) /\ ~Has(Cleanup(cmd[p].op, x), "save")
  BY CleanupIsPlan
<1>5. Advance(p) => GoesOn(p, Tail(s), cmd[p].copy)
  BY <1>1, <1>2, <1>3, AdvanceMoves DEF GoesOn
<1>6. ASSUME NEW y \in Project, AdvanceWith(p, y), y.net = cmd[p].copy.net
      PROVE  GoesOn(p, Tail(s), y)
  <2>1. Moves(p, Tail(s), y)
    BY <1>1, <1>6, AdvanceMoves
  <2> QED
    BY <1>1, <1>2, <1>3, <1>6, <2>1 DEF GoesOn
<1>7. ASSUME NEW x, Fails(p, x)
      PROVE  GoesOn(p, Cleanup(cmd[p].op, x), cmd[p].copy)
  <2>1. Moves(p, Cleanup(cmd[p].op, x), cmd[p].copy)
    BY <1>1, <1>7, AdvanceMoves
  <2> QED
    BY <1>1, <1>4, <2>1 DEF GoesOn
<1> QED
  BY <1>5, <1>6, <1>7

\* Steps on the network, on disks and on VMs leave the store alone.
LEMMA HostStepGoesOn ==
    ASSUME TypeOK, Plans, NEW p \in Procs,
           StepOnNetwork(p) \/ StepOnDisk(p) \/ StepOnVM(p)
    PROVE  rows' = rows /\ \E t, y : GoesOn(p, t, y)
<1>1. CASE Tap(p)
  BY <1>1, EndsGoOn DEF Tap
<1>2. CASE Ensure(p)
  BY <1>2, EndsGoOn DEF Ensure
<1>3. CASE Untap(p)
  BY <1>3, EndsGoOn DEF Untap
<1>4. CASE Count(p)
  <2> DEFINE s == cmd[p].todo
  <2>1. At(p, "count") /\ rows' = rows
    BY <1>4 DEF Count
  <2>2. CASE Advance(p)
    BY <2>1, <2>2, EndsGoOn
  <2>3. CASE Continue(p, [cmd[p] EXCEPT !.todo = Tail(Tail(@))])
    <3>1. /\ s # <<>> /\ Head(s) = "count"
          /\ cmd[p].copy \in Project /\ Plan(cmd[p].op, s)
          /\ Has(s, "count") /\ s \in Seq(Steps)
      BY <2>1, HeadFacts DEF Plan
    <3>2. /\ Tail(s) # <<>> /\ Plan(cmd[p].op, Tail(s))
          /\ \A x : Has(Tail(s), x) => Has(s, x)
      BY <3>1, TailOfPlan
    <3>3. /\ Plan(cmd[p].op, Tail(Tail(s)))
          /\ \A x : Has(Tail(Tail(s)), x) => Has(Tail(s), x)
      BY <3>2, TailOfPlan
    <3>4. ~Has(Tail(Tail(s)), "save")
      BY <3>1, <3>2, <3>3 DEF Plan
    <3>5. Tail(Tail(s)) \in Seq(Steps)
      BY <3>3 DEF Plan
    <3>6. Moves(p, Tail(Tail(s)), cmd[p].copy)
      BY <2>3, <3>1, <3>5, ContinueMoves
    <3> QED
      BY <2>1, <3>1, <3>3, <3>4, <3>6 DEF GoesOn
  <2> QED
    BY <1>4, <2>2, <2>3 DEF Count
<1>5. CASE Unbridge(p)
  BY <1>5, EndsGoOn DEF Unbridge
<1>6. CASE MakeDisk(p)
  BY <1>6, EndsGoOn DEF MakeDisk
<1>7. CASE PrepareDisk(p)
  BY <1>7, EndsGoOn DEF PrepareDisk
<1>8. CASE CopyDisk(p)
  BY <1>8, EndsGoOn DEF CopyDisk
<1>9. CASE Pull(p)
  BY <1>9, EndsGoOn DEF Pull
<1>10. CASE Undisk(p)
  BY <1>10, EndsGoOn DEF Undisk
<1>11. CASE Upload(p)
  BY <1>11, EndsGoOn DEF Upload
<1>12. CASE Start(p)
  <2>1. At(p, "start") /\ cmd[p].copy \in Project /\ rows' = rows
    BY <1>12, HeadFacts DEF Start
  <2>2. ASSUME NEW k \in FreshPid,
               AdvanceWith(p, [cmd[p].copy EXCEPT !.pid = k, !.sock = TRUE])
        PROVE  \E t, y : GoesOn(p, t, y)
    <3> DEFINE y == [cmd[p].copy EXCEPT !.pid = k, !.sock = TRUE]
    <3>1. k \in Nat
      BY DEF FreshPid
    <3>2. y \in Project /\ y.net = cmd[p].copy.net
      BY <2>1, <3>1 DEF Project
    <3> QED
      BY <2>1, <2>2, <3>2, EndsGoOn
  <2> QED
    BY <1>12, <2>1, <2>2, EndsGoOn DEF Start
<1>13. CASE Kill(p)
  <2> DEFINE y == [cmd[p].copy EXCEPT !.pid = 0]
  <2>1. At(p, "kill") /\ AdvanceWith(p, y) /\ rows' = rows
    BY <1>13 DEF Kill
  <2>2. cmd[p].copy \in Project
    BY <2>1, HeadFacts
  <2>3. y \in Project /\ y.net = cmd[p].copy.net
    BY <2>2 DEF Project
  <2> QED
    BY <2>1, <2>3, EndsGoOn
<1>14. CASE Snapshot(p)
  BY <1>14, EndsGoOn DEF Snapshot
<1> QED
  BY <1>1, <1>2, <1>3, <1>4, <1>5, <1>6, <1>7, <1>8, <1>9, <1>10, <1>11, <1>12,
     <1>13, <1>14 DEF StepOnNetwork, StepOnDisk, StepOnVM

-----------------------------------------------------------------------------
(***************************************************************************)
(* Steps preserve the part of the invariant about commands and rows.       *)
(***************************************************************************)
LEMMA PlansStay ==
    ASSUME Plans, NEW p \in Procs, WellFormed(cmd'[p]),
           \A q \in Procs \ {p} : cmd'[q] = cmd[q]
    PROVE  Plans'
<1>1. ASSUME NEW q \in Procs
      PROVE  WellFormed(cmd'[q])
  <2>1. CASE q = p
    BY <2>1
  <2>2. CASE q # p
    BY <2>2 DEF Plans
  <2> QED
    BY <2>1, <2>2
<1> QED
  BY <1>1 DEF Plans

LEMMA IdleIsWellFormed == WellFormed(Idle)
BY EmptyPlan DEF WellFormed, Idle

LEMMA MovesIsWellFormed ==
    ASSUME Plans, NEW p \in Procs, cmd[p].todo # <<>>,
           NEW t, NEW y, Moves(p, t, y), Plan(cmd[p].op, t)
    PROVE  Plans'
<1>1. CASE t = <<>>
  BY <1>1, IdleIsWellFormed, PlansStay DEF Moves
<1>2. CASE t # <<>>
  <2>1. cmd[p].name \in Names /\ (cmd[p].op = "clone" => cmd[p].src \in Names)
    BY DEF Plans, WellFormed
  <2>2. WellFormed(cmd'[p])
    BY <1>2, <2>1 DEF WellFormed, Moves
  <2> QED
    BY <2>2, PlansStay DEF Moves
<1> QED
  BY <1>1, <1>2

LEMMA GoingOnKeeps ==
    ASSUME IInv, NEW p \in Procs, cmd[p].todo # <<>>, rows' = rows,
           NEW t, NEW y, GoesOn(p, t, y)
    PROVE  CommandsInv'
<1>1. \A q \in Procs \ {p} : cmd'[q] = cmd[q]
  BY DEF GoesOn, Moves
<1>2. CASE t = <<>>
  <2>1. cmd'[p] = Idle
    BY <1>2 DEF GoesOn, Moves
  <2>2. cmd'[p].todo = <<>>
    BY <2>1 DEF Idle
  <2>3. Plans'
    BY MovesIsWellFormed DEF IInv, CommandsInv, GoesOn
  <2>4. OneCommandPerName'
    BY <1>1, <2>2 DEF IInv, CommandsInv, OneCommandPerName
  <2>5. Copies'
    BY <1>1, <2>2 DEF IInv, CommandsInv, Copies
  <2> QED
    BY <2>3, <2>4, <2>5 DEF CommandsInv
<1>3. CASE t # <<>>
  <2>1. /\ cmd'[p].op = cmd[p].op /\ cmd'[p].name = cmd[p].name
        /\ cmd'[p].todo = t /\ cmd'[p].copy = y
    BY <1>3 DEF GoesOn, Moves
  <2>2. Plans'
    BY MovesIsWellFormed DEF IInv, CommandsInv, GoesOn
  <2>3. OneCommandPerName'
    BY <1>1, <2>1 DEF IInv, CommandsInv, OneCommandPerName
  <2>4. Copies'
    <3>1. Consistent(cmd[p].op, t, y, rows[cmd[p].name])
      BY DEF IInv, CommandsInv, Copies, GoesOn, Consistent
    <3> QED
      BY <1>1, <2>1, <3>1 DEF IInv, CommandsInv, Copies
  <2> QED
    BY <2>2, <2>3, <2>4 DEF CommandsInv
<1> QED
  BY <1>2, <1>3

\* The step that ends a command, and a killed process.
LEMMA EndingKeeps ==
    ASSUME IInv, NEW p \in Procs, cmd'[p] = Idle,
           \A q \in Procs \ {p} : cmd'[q] = cmd[q],
           \A q \in Procs \ {p} : cmd[q].todo # <<>> => rows'[cmd[q].name] = rows[cmd[q].name]
    PROVE  CommandsInv'
<1>1. cmd'[p].todo = <<>>
  BY DEF Idle
<1>2. Plans'
  BY IdleIsWellFormed, PlansStay DEF IInv, CommandsInv
<1>3. OneCommandPerName'
  BY <1>1 DEF IInv, CommandsInv, OneCommandPerName
<1>4. Copies'
  BY <1>1 DEF IInv, CommandsInv, Copies
<1> QED
  BY <1>2, <1>3, <1>4 DEF CommandsInv

\* The rowid of an insert is larger than all others.
LEMMA NextRowidIsNew ==
    ASSUME TypeOK, NEW r \in NextRowid(rows)
    PROVE  r \in Nat \ {0} /\ \A n \in Names : rows[n].rowid < r
<1>1. \A n \in Names : rows[n].rowid \in Nat
  BY DEF TypeOK, Project
<1> QED
  BY <1>1 DEF NextRowid

LEMMA RegisterKeeps ==
    ASSUME IInv, NEW p \in Procs, Register(p)
    PROVE  /\ rows' \in [Names -> Project] /\ cmd' \in [Procs -> Command]
           /\ RowsKeepIndex' /\ CommandsInv'
<1> DEFINE n == cmd[p].name
           s == cmd[p].todo
<1>0. TypeOK /\ Plans /\ rows \in [Names -> Project]
  BY DEF IInv, CommandsInv, TypeOK
<1>1. /\ At(p, "register") /\ s # <<>> /\ n \in Names /\ cmd[p].copy \in Project
      /\ Head(s) = "register" /\ Plan(cmd[p].op, s)
  BY <1>0, HeadFacts DEF Register
<1>2. CASE UNCHANGED rows /\ Fails(p, "register")
  <2>1. Moves(p, Cleanup(cmd[p].op, "register"), cmd[p].copy)
    BY <1>0, <1>1, <1>2, AdvanceMoves
  <2>2. GoesOn(p, Cleanup(cmd[p].op, "register"), cmd[p].copy)
    BY <1>1, <2>1, CleanupIsPlan DEF GoesOn
  <2>3. CommandsInv'
    BY <1>1, <1>2, <2>2, GoingOnKeeps
  <2>4. cmd' \in [Procs -> Command]
    BY <2>1 DEF Moves
  <2> QED
    BY <1>0, <1>2, <2>3, <2>4 DEF IInv, RowsKeepIndex
<1>3. ASSUME ~Present(rows, n), NEW r \in NextRowid(rows),
             NEW row, row = [NoProject EXCEPT !.rowid = r, !.gen = 1, !.status = "creating"],
             rows' = [rows EXCEPT ![n] = row],
             AdvanceWith(p, [row EXCEPT !.net = r])
      PROVE  /\ rows' \in [Names -> Project] /\ cmd' \in [Procs -> Command]
             /\ RowsKeepIndex' /\ CommandsInv'
  <2> DEFINE y == [row EXCEPT !.net = r]
  <2>1. r \in Nat \ {0} /\ \A m \in Names : rows[m].rowid < r
    BY <1>0, NextRowidIsNew
  <2>2. row = [rowid |-> r, gen |-> 1, status |-> "creating", net |-> 0, pid |-> 0,
               sock |-> FALSE]
    BY <1>3 DEF NoProject
  <2>3. row \in Project
    BY <2>1, <2>2 DEF Project, Statuses
  <2>4. y \in Project /\ y.net = r
    BY <2>1, <2>3 DEF Project
  <2>5. rows' \in [Names -> Project] /\ rows'[n] = row
        /\ \A m \in Names \ {n} : rows'[m] = rows[m]
    BY <1>0, <1>1, <1>3, <2>3
  <2>6. RowsKeepIndex'
    <3>1. row.rowid = r /\ row.net = 0
      BY <2>2
    <3> QED
      BY <2>1, <2>5, <3>1 DEF IInv, RowsKeepIndex
  <2>7. Moves(p, Tail(s), y)
    BY <1>0, <1>1, <1>3, <2>4, AdvanceMoves
  <2>8. Plan(cmd[p].op, Tail(s))
    BY <1>1, TailOfPlan
  <2>9. \A q \in Procs \ {p} : cmd'[q] = cmd[q]
                /\ (cmd[q].todo # <<>> => cmd[q].name # n /\ cmd[q].name \in Names)
    BY <1>1, <2>7 DEF Moves, IInv, CommandsInv, OneCommandPerName, TypeOK
  <2>10. CASE Tail(s) = <<>>
    BY <2>5, <2>7, <2>9, <2>10, EndingKeeps, <2>6 DEF Moves
  <2>11. CASE Tail(s) # <<>>
    <3>1. /\ cmd'[p].op = cmd[p].op /\ cmd'[p].name = n
          /\ cmd'[p].todo = Tail(s) /\ cmd'[p].copy = y
      BY <2>7, <2>11 DEF Moves
    <3>2. Plans'
      BY <1>0, <1>1, <2>7, <2>8, MovesIsWellFormed
    <3>3. OneCommandPerName'
      BY <1>1, <2>9, <3>1 DEF IInv, CommandsInv, OneCommandPerName
    <3>4. row.rowid = r /\ row.status = "creating" /\ r # 0
      BY <2>1, <2>2
    <3>5. Copies'
      <4>1. Consistent(cmd[p].op, Tail(s), y, row)
        BY <2>4, <3>4 DEF Consistent
      <4>2. \A q \in Procs \ {p} :
               /\ cmd'[q] = cmd[q]
               /\ cmd[q].todo # <<>> => rows'[cmd[q].name] = rows[cmd[q].name]
        BY <2>5, <2>9
      <4>3. ASSUME NEW q \in Procs, cmd'[q].todo # <<>>
            PROVE  Consistent(cmd'[q].op, cmd'[q].todo, cmd'[q].copy, rows'[cmd'[q].name])
        <5>1. CASE q = p
          BY <2>5, <3>1, <4>1, <5>1
        <5>2. CASE q # p
          <6>1. /\ cmd'[q] = cmd[q] /\ cmd[q].todo # <<>>
                /\ rows'[cmd[q].name] = rows[cmd[q].name]
            BY <4>2, <4>3, <5>2
          <6>2. Consistent(cmd[q].op, cmd[q].todo, cmd[q].copy, rows[cmd[q].name])
            BY <6>1 DEF IInv, CommandsInv, Copies
          <6> QED
            BY <6>1, <6>2
        <5> QED
          BY <5>1, <5>2
      <4> QED
        BY <4>3 DEF Copies
    <3> QED
      BY <2>5, <2>6, <2>7, <3>2, <3>3, <3>5 DEF CommandsInv, Moves
  <2> QED
    BY <2>10, <2>11
<1> QED
  BY <1>2, <1>3 DEF Register

LEMMA SaveKeeps ==
    ASSUME IInv, NEW p \in Procs, Save(p)
    PROVE  /\ rows' \in [Names -> Project] /\ cmd' \in [Procs -> Command]
           /\ RowsKeepIndex' /\ CommandsInv'
<1> DEFINE n == cmd[p].name
           s == cmd[p].todo
           c == cmd[p].copy
           new == [c EXCEPT !.status = StatusAfter(cmd[p].op, @)]
           row == [new EXCEPT !.rowid = rows[n].rowid, !.gen = NextGen(rows[n], new)]
<1>0. TypeOK /\ Plans /\ rows \in [Names -> Project] /\ RowsKeepIndex
  BY DEF IInv, CommandsInv, TypeOK
<1>1. /\ At(p, "save") /\ s # <<>> /\ n \in Names /\ c \in Project
      /\ Head(s) = "save" /\ Plan(cmd[p].op, s) /\ Has(s, "save")
  BY <1>0, HeadFacts DEF Save
<1>2. Tail(s) = <<>> /\ ~Has(s, "register")
  <2>1. Tail(s) = <<>>
    BY <1>1, TailOfPlan
  <2>2. ~Has(Tail(s), "register")
    BY <2>1, EmptyHasNothing
  <2> QED
    BY <1>1, <2>1, <2>2, TailOfPlan
<1>3. rows[n].rowid # 0 /\ c.net \in {0, rows[n].rowid}
  BY <1>1, <1>2 DEF IInv, CommandsInv, Copies, Consistent
<1>4. CASE Fails(p, "save") /\ UNCHANGED rows
  <2>1. PICK t, y : GoesOn(p, t, y)
    BY <1>0, <1>1, <1>4, EndsGoOn
  <2>2. CommandsInv'
    BY <1>1, <1>4, <2>1, GoingOnKeeps
  <2> QED
    BY <1>0, <1>4, <2>1, <2>2 DEF RowsKeepIndex, GoesOn, Moves
<1>5. CASE rows' = [rows EXCEPT ![n] = row] /\ Advance(p)
  <2>1. StatusAfter(cmd[p].op, c.status) \in Statuses
    BY <1>1 DEF StatusAfter, Project, Statuses
  <2>2. rows[n].rowid \in Nat /\ rows[n].gen \in Nat
    BY <1>0, <1>1 DEF Project
  <2>3. NextGen(rows[n], new) \in Nat
    BY <2>2 DEF NextGen
  <2>4. new \in Project /\ new.net = c.net
    <3> HIDE DEF c
    <3> QED
      BY <1>1, <2>1 DEF Project
  <2> HIDE DEF new
  <2>5. row \in Project /\ row.rowid = rows[n].rowid /\ row.net = c.net
    BY <2>2, <2>3, <2>4 DEF Project
  <2> HIDE DEF row
  <2>6. /\ rows' \in [Names -> Project] /\ rows'[n] = row
        /\ \A m \in Names \ {n} : rows'[m] = rows[m]
    BY <1>0, <1>1, <1>5, <2>5
  <2>7. RowsKeepIndex'
    <3>1. \A m \in Names : rows'[m].rowid = rows[m].rowid
      BY <2>5, <2>6
    <3>2. \A m \in Names : rows'[m].net \in {0, rows'[m].rowid}
      BY <1>0, <1>3, <2>5, <2>6 DEF RowsKeepIndex
    <3>3. \A m \in Names : rows'[m].rowid = 0 => rows'[m].status = "none"
      BY <1>0, <1>3, <2>5, <2>6 DEF RowsKeepIndex
    <3> QED
      BY <1>0, <3>1, <3>2, <3>3 DEF RowsKeepIndex
  <2>8. Moves(p, Tail(s), c)
    BY <1>0, <1>1, <1>5, AdvanceMoves
  <2>9. \A q \in Procs \ {p} :
           cmd[q].todo # <<>> => cmd[q].name # n /\ cmd[q].name \in Names
    BY <1>1 DEF IInv, CommandsInv, OneCommandPerName, TypeOK
  <2>10. CommandsInv'
    BY <1>2, <2>6, <2>8, <2>9, EndingKeeps DEF Moves
  <2> QED
    BY <2>6, <2>7, <2>8, <2>10 DEF Moves
<1>6. Present(rows, n)
  BY <1>3 DEF Present
<1> QED
  BY <1>4, <1>5, <1>6 DEF Save

LEMMA UnrowKeeps ==
    ASSUME IInv, NEW p \in Procs, Unrow(p)
    PROVE  /\ rows' \in [Names -> Project] /\ cmd' \in [Procs -> Command]
           /\ RowsKeepIndex' /\ CommandsInv'
<1> DEFINE n == cmd[p].name
           s == cmd[p].todo
<1>0. TypeOK /\ Plans /\ rows \in [Names -> Project] /\ RowsKeepIndex
  BY DEF IInv, CommandsInv, TypeOK
<1>1. /\ At(p, "unrow") /\ s # <<>> /\ n \in Names
      /\ Head(s) = "unrow" /\ Plan(cmd[p].op, s) /\ Has(s, "unrow")
      /\ Advance(p)
  BY <1>0, HeadFacts DEF Unrow
<1>2. PICK t, y : GoesOn(p, t, y)
  BY <1>0, <1>1, EndsGoOn
<1>3. cmd' \in [Procs -> Command]
  BY <1>2 DEF GoesOn, Moves
<1>4. CASE UNCHANGED rows
  BY <1>0, <1>1, <1>2, <1>3, <1>4, GoingOnKeeps DEF RowsKeepIndex
<1>5. CASE rows' = [rows EXCEPT ![n] = NoProject]
  <2>1. NoProject \in Project /\ NoProject.rowid = 0 /\ NoProject.net = 0
        /\ NoProject.status = "none"
    BY DEF NoProject, Project, Statuses
  <2>2. /\ rows' \in [Names -> Project] /\ rows'[n] = NoProject
        /\ \A m \in Names \ {n} : rows'[m] = rows[m]
    BY <1>0, <1>1, <1>5, <2>1
  <2>3. RowsKeepIndex'
    BY <1>0, <2>1, <2>2 DEF RowsKeepIndex
  <2>4. \A q \in Procs \ {p} : cmd'[q] = cmd[q]
                /\ (cmd[q].todo # <<>> => cmd[q].name # n /\ cmd[q].name \in Names)
    BY <1>1, <1>2 DEF GoesOn, Moves, IInv, CommandsInv, OneCommandPerName, TypeOK
  <2>5. CASE t = <<>>
    <3>1. cmd'[p] = Idle
      BY <1>2, <2>5 DEF GoesOn, Moves
    <3>2. CommandsInv'
      BY <2>2, <2>4, <3>1, EndingKeeps
    <3> QED
      BY <1>3, <2>2, <2>3, <3>2
  <2>6. CASE t # <<>>
    <3>1. /\ cmd'[p].op = cmd[p].op /\ cmd'[p].name = n /\ cmd'[p].todo = t
          /\ Plan(cmd[p].op, t)
      BY <1>2, <2>6 DEF GoesOn, Moves
    <3>2. ~Has(t, "save")
      BY <1>1, <1>2 DEF GoesOn, Plan
    <3>3. Plans'
      BY <1>0, <1>1, <1>2, MovesIsWellFormed DEF GoesOn
    <3>4. OneCommandPerName'
      BY <1>1, <2>4, <3>1 DEF IInv, CommandsInv, OneCommandPerName
    <3>5. Copies'
      <4>1. Consistent(cmd[p].op, t, cmd'[p].copy, NoProject)
        BY <2>1, <3>2 DEF Consistent
      <4>2. \A q \in Procs \ {p} :
               /\ cmd'[q] = cmd[q]
               /\ cmd[q].todo # <<>> => rows'[cmd[q].name] = rows[cmd[q].name]
        BY <2>2, <2>4
      <4>3. ASSUME NEW q \in Procs, cmd'[q].todo # <<>>
            PROVE  Consistent(cmd'[q].op, cmd'[q].todo, cmd'[q].copy, rows'[cmd'[q].name])
        <5>1. CASE q = p
          BY <2>2, <3>1, <4>1, <5>1
        <5>2. CASE q # p
          <6>1. /\ cmd'[q] = cmd[q] /\ cmd[q].todo # <<>>
                /\ rows'[cmd[q].name] = rows[cmd[q].name]
            BY <4>2, <4>3, <5>2
          <6>2. Consistent(cmd[q].op, cmd[q].todo, cmd[q].copy, rows[cmd[q].name])
            BY <6>1 DEF IInv, CommandsInv, Copies
          <6> QED
            BY <6>1, <6>2
        <5> QED
          BY <5>1, <5>2
      <4> QED
        BY <4>3 DEF Copies
    <3> QED
      BY <1>3, <2>2, <2>3, <3>3, <3>4, <3>5 DEF CommandsInv
  <2> QED
    BY <2>5, <2>6
<1> QED
  BY <1>4, <1>5 DEF Unrow

-----------------------------------------------------------------------------
(***************************************************************************)
(* Commands begin with a plan, and with a copy that agrees with the row.   *)
(***************************************************************************)
LEMMA BeginKeeps ==
    ASSUME IInv, Exclusive, NEW p \in Procs, NEW op \in Ops, NEW n \in Names,
           NEW src \in Names \cup {NoName}, NEW copy \in Project,
           NEW todo, todo # <<>>, Plan(op, todo),
           Consistent(op, todo, copy, rows[n]), op = "clone" => src \in Names,
           Begin(p, op, n, src, copy, todo)
    PROVE  /\ rows' = rows /\ cmd' \in [Procs -> Command]
           /\ CommandsInv'
<1> DEFINE c == [op |-> op, name |-> n, src |-> src, todo |-> todo, copy |-> copy,
                 kept |-> disks[n] # "none"]
<1>1. /\ rows' = rows /\ cmd' = [cmd EXCEPT ![p] = c] /\ Free(n)
      /\ cmd \in [Procs -> Command]
  BY DEF Begin, IInv, TypeOK
<1>2. c \in Command
  <2>1. todo \in Seq(Steps) /\ (disks[n] # "none") \in BOOLEAN
    BY DEF Plan
  <2> QED
    BY <2>1 DEF Command
<1>3. /\ cmd' \in [Procs -> Command] /\ cmd'[p] = c
      /\ \A q \in Procs \ {p} : cmd'[q] = cmd[q]
  BY <1>1, <1>2
<1>4. /\ c.op = op /\ c.name = n /\ c.src = src /\ c.todo = todo /\ c.copy = copy
  OBVIOUS
<1>5. \A q \in Procs : cmd[q].name # n
  BY <1>1, NoNameAssumption DEF Free
<1> HIDE DEF c
<1>6. Plans'
  <2>1. WellFormed(cmd'[p])
    BY <1>3, <1>4 DEF WellFormed
  <2> QED
    BY <1>3, <2>1, PlansStay DEF IInv, CommandsInv
<1>7. OneCommandPerName'
  BY <1>3, <1>4, <1>5 DEF IInv, CommandsInv, OneCommandPerName
<1>8. ASSUME NEW q \in Procs, cmd'[q].todo # <<>>
      PROVE  Consistent(cmd'[q].op, cmd'[q].todo, cmd'[q].copy, rows'[cmd'[q].name])
  <2>1. CASE q = p
    BY <1>1, <1>3, <1>4, <2>1
  <2>2. CASE q # p
    BY <1>1, <1>3, <1>8, <2>2 DEF IInv, CommandsInv, Copies
  <2> QED
    BY <2>1, <2>2
<1>9. Copies'
  BY <1>8 DEF Copies
<1> QED
  BY <1>1, <1>3, <1>6, <1>7, <1>9 DEF CommandsInv

LEMMA DeployPlan ==
    /\ Plan("deploy", <<"register", "tap", "disk", "init", "start", "save">>)
    /\ <<"register", "tap", "disk", "init", "start", "save">> # <<>>
    /\ Has(<<"register", "tap", "disk", "init", "start", "save">>, "register")
<1>1. <<"register", "tap", "disk", "init", "start", "save">> \in Seq(Steps)
  BY DEF Steps
<1> QED
  BY <1>1 DEF Plan, Has

LEMMA ClonePlan ==
    /\ Plan("clone", <<"copy", "register", "tap", "start", "save">>)
    /\ <<"copy", "register", "tap", "start", "save">> # <<>>
    /\ Has(<<"copy", "register", "tap", "start", "save">>, "register")
<1>1. <<"copy", "register", "tap", "start", "save">> \in Seq(Steps)
  BY DEF Steps
<1> QED
  BY <1>1 DEF Plan, Has

LEMMA LoadPlan ==
    /\ Plan("load", <<"pull", "register", "tap", "start", "save">>)
    /\ <<"pull", "register", "tap", "start", "save">> # <<>>
    /\ Has(<<"pull", "register", "tap", "start", "save">>, "register")
<1>1. <<"pull", "register", "tap", "start", "save">> \in Seq(Steps)
  BY DEF Steps
<1> QED
  BY <1>1 DEF Plan, Has

LEMMA Destroy1Plan ==
    /\ Plan("destroy", <<"count", "unbridge", "unrow">>)
    /\ <<"count", "unbridge", "unrow">> # <<>>
    /\ ~Has(<<"count", "unbridge", "unrow">>, "save")
<1>1. <<"count", "unbridge", "unrow">> \in Seq(Steps)
  BY DEF Steps
<1> QED
  BY <1>1 DEF Plan, Has

LEMMA Destroy2Plan ==
    /\ Plan("destroy", <<"kill", "untap", "count", "unbridge", "unrow">>)
    /\ <<"kill", "untap", "count", "unbridge", "unrow">> # <<>>
    /\ ~Has(<<"kill", "untap", "count", "unbridge", "unrow">>, "save")
<1>1. <<"kill", "untap", "count", "unbridge", "unrow">> \in Seq(Steps)
  BY DEF Steps
<1> QED
  BY <1>1 DEF Plan, Has

LEMMA Destroy3Plan ==
    /\ Plan("destroy", <<"kill", "untap", "undisk", "count", "unbridge", "unrow">>)
    /\ <<"kill", "untap", "undisk", "count", "unbridge", "unrow">> # <<>>
    /\ ~Has(<<"kill", "untap", "undisk", "count", "unbridge", "unrow">>, "save")
<1>1. <<"kill", "untap", "undisk", "count", "unbridge", "unrow">> \in Seq(Steps)
  BY DEF Steps
<1> QED
  BY <1>1 DEF Plan, Has

LEMMA FreezePlan ==
    Plan("freeze", <<"snapshot", "kill", "save">>) /\ <<"snapshot", "kill", "save">> # <<>>
<1>1. <<"snapshot", "kill", "save">> \in Seq(Steps)
  BY DEF Steps
<1> QED
  BY <1>1 DEF Plan, Has

LEMMA SavePlan ==
    \A op : Plan(op, <<"save">>) /\ <<"save">> # <<>>
<1>1. <<"save">> \in Seq(Steps)
  BY DEF Steps
<1> QED
  BY <1>1 DEF Plan, Has

LEMMA UnfreezePlan ==
    Plan("unfreeze", <<"ensure", "start", "save">>) /\ <<"ensure", "start", "save">> # <<>>
<1>1. <<"ensure", "start", "save">> \in Seq(Steps)
  BY DEF Steps
<1> QED
  BY <1>1 DEF Plan, Has

LEMMA Resize1Plan ==
    /\ Plan("resize", <<"kill", "ensure", "start", "save">>)
    /\ <<"kill", "ensure", "start", "save">> # <<>>
<1>1. <<"kill", "ensure", "start", "save">> \in Seq(Steps)
  BY DEF Steps
<1> QED
  BY <1>1 DEF Plan, Has

LEMMA Resize2Plan ==
    /\ Plan("resize", <<"kill", "grow", "ensure", "start", "save">>)
    /\ <<"kill", "grow", "ensure", "start", "save">> # <<>>
<1>1. <<"kill", "grow", "ensure", "start", "save">> \in Seq(Steps)
  BY DEF Steps
<1> QED
  BY <1>1 DEF Plan, Has

LEMMA PushPlan ==
    /\ Plan("push", <<"upload", "unrow">>)
    /\ <<"upload", "unrow">> # <<>>
    /\ ~Has(<<"upload", "unrow">>, "save")
<1>1. <<"upload", "unrow">> \in Seq(Steps)
  BY DEF Steps
<1> QED
  BY <1>1 DEF Plan, Has

\* A command on a project in the store works on a copy of its row.
LEMMA RowIsConsistent ==
    ASSUME IInv, NEW n \in Names, NEW op, NEW todo,
           op \notin {"deploy", "clone", "load"},
           Has(todo, "save") => HasService(rows[n]) \/ rows[n].status # "none"
    PROVE  rows[n] \in Project /\ Consistent(op, todo, rows[n], rows[n])
<1>1. rows[n] \in Project /\ rows[n].net \in {0, rows[n].rowid}
  BY DEF IInv, TypeOK, RowsKeepIndex
<1>2. rows[n].rowid = 0 => rows[n].status = "none" /\ rows[n].net = 0
  BY <1>1 DEF IInv, RowsKeepIndex
<1> QED
  BY <1>1, <1>2 DEF Consistent, HasService

\* A command that makes a project registers it first.
LEMMA NewIsConsistent ==
    ASSUME IInv, NEW n \in Names, ~Present(rows, n), NEW op, NEW todo, Has(todo, "register")
    PROVE  NoProject \in Project /\ Consistent(op, todo, NoProject, rows[n])
<1>1. rows[n].status = "none"
  BY DEF IInv, RowsKeepIndex, Present
<1> QED
  BY <1>1 DEF Consistent, NoProject, Project, Statuses

LEMMA BeginningKeeps ==
    ASSUME IInv, Exclusive, NEW p \in Procs, BeginCommand(p)
    PROVE  /\ rows' = rows /\ cmd' \in [Procs -> Command]
           /\ CommandsInv'
<1>0. \A n \in Names : n \in Names \cup {NoName} /\ NoName \in Names \cup {NoName}
  OBVIOUS
<1>1. ASSUME NEW n \in Names, Deploy(p, n)
      PROVE  /\ rows' = rows /\ cmd' \in [Procs -> Command]
             /\ CommandsInv'
  <2>1. "deploy" \in Ops /\ ~Present(rows, n)
    BY <1>1 DEF Ops, Deploy
  <2> QED
    BY <1>0, <1>1, <2>1, DeployPlan, NewIsConsistent, BeginKeeps DEF Deploy
<1>2. ASSUME NEW n \in Names, Load(p, n)
      PROVE  /\ rows' = rows /\ cmd' \in [Procs -> Command]
             /\ CommandsInv'
  <2>1. "load" \in Ops /\ ~Present(rows, n)
    BY <1>2 DEF Ops, Load
  <2> QED
    BY <1>0, <1>2, <2>1, LoadPlan, NewIsConsistent, BeginKeeps DEF Load
<1>3. ASSUME NEW n \in Names, NEW src \in Names, Clone(p, src, n)
      PROVE  /\ rows' = rows /\ cmd' \in [Procs -> Command]
             /\ CommandsInv'
  <2>1. "clone" \in Ops /\ ~Present(rows, n)
    BY <1>3 DEF Ops, Clone
  <2> QED
    BY <1>0, <1>3, <2>1, ClonePlan, NewIsConsistent, BeginKeeps DEF Clone
<1>4. ASSUME NEW n \in Names, Destroy(p, n)
      PROVE  /\ rows' = rows /\ cmd' \in [Procs -> Command]
             /\ CommandsInv'
  <2>1. "destroy" \in Ops
    BY DEF Ops
  <2>2. PICK todo : /\ Begin(p, "destroy", n, NoName, rows[n], todo)
                    /\ Plan("destroy", todo) /\ todo # <<>> /\ ~Has(todo, "save")
    <3>1. \E todo \in {<<"count", "unbridge", "unrow">>,
                       <<"kill", "untap", "count", "unbridge", "unrow">>,
                       <<"kill", "untap", "undisk", "count", "unbridge", "unrow">>} :
             Begin(p, "destroy", n, NoName, rows[n], todo)
      BY <1>4 DEF Destroy
    <3> QED
      BY <3>1, Destroy1Plan, Destroy2Plan, Destroy3Plan, Zenon
  <2> QED
    BY <1>0, <2>1, <2>2, RowIsConsistent, BeginKeeps
<1>5. ASSUME NEW n \in Names, Freeze(p, n)
      PROVE  /\ rows' = rows /\ cmd' \in [Procs -> Command]
             /\ CommandsInv'
  <2>1. "freeze" \in Ops /\ rows[n].status # "none"
    BY <1>5 DEF Ops, Freeze
  <2>2. PICK todo : /\ Begin(p, "freeze", n, NoName, rows[n], todo)
                    /\ Plan("freeze", todo) /\ todo # <<>>
    <3>1. \E todo \in {<<"snapshot", "kill", "save">>, <<"save">>} :
             Begin(p, "freeze", n, NoName, rows[n], todo)
      BY <1>5 DEF Freeze
    <3> QED
      BY <3>1, FreezePlan, SavePlan, Zenon
  <2>3. rows[n] \in Project /\ Consistent("freeze", todo, rows[n], rows[n])
    BY <2>1, RowIsConsistent
  <2> QED
    BY <1>0, <2>1, <2>2, <2>3, BeginKeeps
<1>6. ASSUME NEW n \in Names, Unfreeze(p, n)
      PROVE  /\ rows' = rows /\ cmd' \in [Procs -> Command]
             /\ CommandsInv'
  <2>1. "unfreeze" \in Ops /\ rows[n].status # "none"
    BY <1>6 DEF Ops, Unfreeze
  <2> QED
    BY <1>0, <1>6, <2>1, UnfreezePlan, RowIsConsistent, BeginKeeps DEF Unfreeze
<1>7. ASSUME NEW n \in Names, Resize(p, n)
      PROVE  /\ rows' = rows /\ cmd' \in [Procs -> Command]
             /\ CommandsInv'
  <2>1. "resize" \in Ops /\ rows[n].status # "none"
    BY <1>7 DEF Ops, Resize
  <2>2. PICK todo : /\ Begin(p, "resize", n, NoName, rows[n], todo)
                    /\ Plan("resize", todo) /\ todo # <<>>
    BY <1>7, Resize1Plan, Resize2Plan, Zenon DEF Resize
  <2>3. rows[n] \in Project /\ Consistent("resize", todo, rows[n], rows[n])
    BY <2>1, RowIsConsistent
  <2> QED
    BY <1>0, <2>1, <2>2, <2>3, BeginKeeps
<1>8. ASSUME NEW n \in Names, Push(p, n)
      PROVE  /\ rows' = rows /\ cmd' \in [Procs -> Command]
             /\ CommandsInv'
  <2>1. "push" \in Ops
    BY DEF Ops
  <2> QED
    <3>1. /\ Plan("push", <<"upload", "unrow">>) /\ <<"upload", "unrow">> # <<>>
          /\ ~Has(<<"upload", "unrow">>, "save")
      BY PushPlan
    <3>2. rows[n] \in Project /\ Consistent("push", <<"upload", "unrow">>, rows[n], rows[n])
      BY <3>1, RowIsConsistent
    <3> QED
      BY <1>0, <1>8, <2>1, <3>1, <3>2, BeginKeeps DEF Push
<1>9. ASSUME NEW n \in Names, Route(p, n)
      PROVE  /\ rows' = rows /\ cmd' \in [Procs -> Command]
             /\ CommandsInv'
  <2>1. "route" \in Ops /\ HasService(rows[n])
    BY <1>9 DEF Ops, Route
  <2> QED
    <3>1. Plan("route", <<"save">>) /\ <<"save">> # <<>>
      BY SavePlan
    <3>2. rows[n] \in Project /\ Consistent("route", <<"save">>, rows[n], rows[n])
      BY <2>1, RowIsConsistent
    <3> QED
      BY <1>0, <1>9, <2>1, <3>1, <3>2, BeginKeeps DEF Route
<1>10. ASSUME OtherCommand(p)
       PROVE  /\ rows' = rows /\ cmd' \in [Procs -> Command]
              /\ CommandsInv'
  <2>1. rows' = rows /\ cmd' = cmd
    BY <1>10 DEF OtherCommand
  <2> QED
    BY <2>1 DEF IInv, TypeOK, CommandsInv, Plans, OneCommandPerName, Copies
<1> QED
  BY <1>1, <1>2, <1>3, <1>4, <1>5, <1>6, <1>7, <1>8, <1>9, <1>10 DEF BeginCommand

-----------------------------------------------------------------------------
(***************************************************************************)
(* The types of what commands do to the host.                              *)
(***************************************************************************)
HostTypeOK ==
    /\ vms \subseteq VM
    /\ taps \subseteq Nat
    /\ bridged \subseteq taps
    /\ bridge \in BOOLEAN
    /\ ~bridge => bridged = {}
    /\ disks \in [Names -> Disk]
    /\ snapshots \subseteq Names
    /\ archive \subseteq Names

LEMMA LosingTypes ==
    ASSUME TypeOK
    PROVE  /\ \A i : {IF v.net = i THEN [v EXCEPT !.link = FALSE] ELSE v : v \in vms} \subseteq VM
           /\ \A n : LoseDisk(n) \subseteq VM
<1>1. \A v \in VM : [v EXCEPT !.link = FALSE] \in VM /\ [v EXCEPT !.disk = FALSE] \in VM
  BY DEF VM
<1> QED
  BY <1>1 DEF TypeOK, LoseDisk

LEMMA NetworkStepTypes ==
    ASSUME TypeOK, Plans, NEW p \in Procs, StepOnNetwork(p)
    PROVE  HostTypeOK'
<1>1. \A step : At(p, step) => cmd[p].copy.net \in Nat
  BY HeadFacts DEF Project
<1>2. CASE Tap(p)
  BY <1>1, <1>2, LosingTypes DEF Tap, DestroyTAP, DeleteTap, TypeOK, HostTypeOK, storage
<1>3. CASE Ensure(p)
  BY <1>1, <1>3 DEF Ensure, TypeOK, HostTypeOK, storage
<1>4. CASE Untap(p)
  BY <1>4, LosingTypes DEF Untap, DestroyTAP, DeleteTap, TypeOK, HostTypeOK, storage
<1>5. CASE Count(p)
  BY <1>5 DEF Count, TypeOK, HostTypeOK, storage, network
<1>6. CASE Unbridge(p)
  <2>1. UNCHANGED <<vms, taps, storage>>
    BY <1>6 DEF Unbridge
  <2>2. CASE bridge' = FALSE /\ bridged' = {}
    BY <2>1, <2>2 DEF TypeOK, HostTypeOK, storage
  <2>3. CASE UNCHANGED <<bridge, bridged>>
    BY Zenon, <2>1, <2>3 DEF TypeOK, HostTypeOK, storage
  <2> QED
    BY <1>6, <2>2, <2>3 DEF Unbridge
<1> QED
  BY <1>2, <1>3, <1>4, <1>5, <1>6 DEF StepOnNetwork

LEMMA DiskStepTypes ==
    ASSUME TypeOK, Plans, NEW p \in Procs, StepOnDisk(p)
    PROVE  HostTypeOK'
<1>1. \A step : At(p, step) => cmd[p].name \in Names
  BY HeadFacts
<1>2. \A n \in Names : n \in Disk /\ "image" \in Disk /\ "none" \in Disk
  BY DEF Disk
<1>3. CASE MakeDisk(p)
  BY <1>1, <1>2, <1>3 DEF MakeDisk, TypeOK, HostTypeOK, network
<1>4. CASE PrepareDisk(p)
  BY <1>4 DEF PrepareDisk, TypeOK, HostTypeOK, network, storage
<1>5. CASE CopyDisk(p)
  <2>1. /\ At(p, "copy") /\ UNCHANGED <<vms, network, snapshots, archive>>
        /\ \/ disks' = [disks EXCEPT ![cmd[p].name] = disks[cmd[p].src]]
           \/ disks' = [disks EXCEPT ![cmd[p].name] = "image"]
           \/ disks' = disks
    BY <1>5 DEF CopyDisk
  <2>2. cmd[p].name \in Names /\ cmd[p].src \in Names
    BY <2>1, HeadFacts
  <2>3. disks' \in [Names -> Disk]
    BY <1>2, <2>1, <2>2 DEF TypeOK
  <2> QED
    BY <2>1, <2>3 DEF TypeOK, HostTypeOK, network
<1>6. CASE Pull(p)
  BY <1>1, <1>2, <1>6, LosingTypes DEF Pull, TypeOK, HostTypeOK, network
<1>7. CASE Undisk(p)
  BY <1>1, <1>2, <1>7, LosingTypes DEF Undisk, TypeOK, HostTypeOK, network
<1>8. CASE Upload(p)
  BY <1>1, <1>8 DEF Upload, TypeOK, HostTypeOK, network
<1> QED
  BY <1>3, <1>4, <1>5, <1>6, <1>7, <1>8 DEF StepOnDisk

LEMMA VMStepTypes ==
    ASSUME TypeOK, Plans, NEW p \in Procs, StepOnVM(p)
    PROVE  HostTypeOK'
<1>1. \A step : At(p, step) => cmd[p].name \in Names /\ cmd[p].copy.net \in Nat
  BY HeadFacts DEF Project
<1>2. CASE Start(p)
  <2>1. At(p, "start") /\ UNCHANGED <<network, snapshots, archive>>
    BY <1>2 DEF Start
  <2>2. disks' \in [Names -> Disk]
    BY <1>1, <1>2, <2>1 DEF Start, TypeOK, Disk
  <2>3. CASE vms' = vms
    BY <2>1, <2>2, <2>3 DEF TypeOK, HostTypeOK, network
  <2>4. ASSUME NEW k \in FreshPid, NEW v,
               v = [pid |-> k, name |-> cmd[p].name, net |-> cmd[p].copy.net,
                    link |-> TRUE, disk |-> TRUE, boot |-> BootOf(p)],
               vms' = vms \cup {v}
        PROVE  HostTypeOK'
    <3>1. k \in Nat /\ BootOf(p) \in {"cold", "snapshot"}
      BY DEF FreshPid, BootOf
    <3>2. v \in VM
      BY <1>1, <2>1, <2>4, <3>1 DEF VM
    <3> QED
      BY <2>1, <2>2, <2>4, <3>2 DEF TypeOK, HostTypeOK, network
  <2> QED
    BY <1>2, <2>3, <2>4 DEF Start
<1>3. CASE Kill(p)
  BY <1>3 DEF Kill, TypeOK, HostTypeOK, network, storage
<1>4. CASE Snapshot(p)
  BY <1>1, <1>4 DEF Snapshot, TypeOK, HostTypeOK, network
<1> QED
  BY <1>2, <1>3, <1>4 DEF StepOnVM

-----------------------------------------------------------------------------
(***************************************************************************)
(* The invariant holds.                                                    *)
(***************************************************************************)
LEMMA InitEstablishes == Init => IInv
<1> SUFFICES ASSUME Init PROVE IInv
  OBVIOUS
<1>1. /\ NoProject \in Project /\ NoProject.rowid = 0 /\ NoProject.net = 0
      /\ NoProject.status = "none"
  BY DEF NoProject, Project, Statuses
<1>2. Idle.todo = <<>>
  BY DEF Idle
<1>3. TypeOK
  BY <1>1, <1>2, IdleType DEF Init, TypeOK, Disk
<1>4. RowsKeepIndex
  BY <1>1 DEF Init, RowsKeepIndex
<1>5. CommandsInv
  BY <1>2, IdleIsWellFormed DEF Init, CommandsInv, Plans, OneCommandPerName, Copies
<1> QED
  BY <1>3, <1>4, <1>5 DEF IInv

\* TypeOK in the parts that the lemmas above are about.
LEMMA TypeParts ==
    ASSUME rows' \in [Names -> Project], cmd' \in [Procs -> Command],
           CommandsInv', HostTypeOK'
    PROVE  TypeOK'
<1>1. \A p \in Procs : cmd'[p].todo # <<>> => cmd'[p].name \in Names
  BY DEF CommandsInv, Plans, WellFormed
<1> QED
  BY <1>1 DEF TypeOK, HostTypeOK

LEMMA CommandPreserves ==
    ASSUME IInv, Exclusive, NEW p \in Procs, BeginCommand(p) \/ Step(p) \/ Crash(p)
    PROVE  IInv'
<1>0. TypeOK /\ Plans /\ RowsKeepIndex /\ CommandsInv /\ rows \in [Names -> Project]
  BY DEF IInv, CommandsInv, TypeOK
<1>1. CASE BeginCommand(p)
  <2>1. /\ rows' = rows /\ cmd' \in [Procs -> Command] /\ CommandsInv'
    BY <1>1, BeginningKeeps
  <2>2. HostTypeOK'
    BY <1>0, <1>1 DEF BeginCommand, Begin, OtherCommand, Deploy, Destroy, Freeze, Unfreeze,
       Resize, Clone, Load, Push, Route, TypeOK, HostTypeOK, storage
  <2> QED
    BY <1>0, <2>1, <2>2, TypeParts DEF IInv, RowsKeepIndex
<1>2. CASE StepOnStore(p)
  <2>1. /\ rows' \in [Names -> Project] /\ cmd' \in [Procs -> Command]
        /\ RowsKeepIndex' /\ CommandsInv'
    BY <1>2, RegisterKeeps, SaveKeeps, UnrowKeeps DEF StepOnStore
  <2>2. UNCHANGED <<vms, network, storage>>
    BY <1>2 DEF StepOnStore, Register, Save, Unrow
  <2>3. HostTypeOK'
    BY <1>0, <2>2 DEF TypeOK, HostTypeOK, network, storage
  <2> QED
    BY <2>1, <2>3, TypeParts DEF IInv
<1>3. CASE StepOnNetwork(p) \/ StepOnDisk(p) \/ StepOnVM(p)
  <2>1. PICK t, y : rows' = rows /\ GoesOn(p, t, y)
    BY <1>0, <1>3, HostStepGoesOn
  <2>2. cmd[p].todo # <<>>
    BY <1>3 DEF StepOnNetwork, StepOnDisk, StepOnVM, At, Tap, Ensure, Untap, Count, Unbridge,
       MakeDisk, PrepareDisk, CopyDisk, Pull, Undisk, Upload, Start, Kill, Snapshot
  <2>3. CommandsInv' /\ cmd' \in [Procs -> Command]
    BY <2>1, <2>2, GoingOnKeeps DEF GoesOn, Moves
  <2>4. HostTypeOK'
    BY <1>0, <1>3, NetworkStepTypes, DiskStepTypes, VMStepTypes
  <2> QED
    BY <1>0, <2>1, <2>3, <2>4, TypeParts DEF IInv, RowsKeepIndex
<1>4. CASE Crash(p)
  <2>1. /\ cmd' = [cmd EXCEPT ![p] = Idle]
        /\ UNCHANGED <<rows, vms, network, storage>>
    BY <1>4 DEF Crash
  <2>2. /\ cmd' \in [Procs -> Command] /\ cmd'[p] = Idle
        /\ \A q \in Procs \ {p} : cmd'[q] = cmd[q]
    BY <1>0, <2>1, IdleType DEF TypeOK
  <2>3. CommandsInv'
    BY <2>1, <2>2, EndingKeeps
  <2>4. HostTypeOK'
    BY <1>0, <2>1 DEF TypeOK, HostTypeOK, network, storage
  <2> QED
    BY <1>0, <2>1, <2>2, <2>3, <2>4, TypeParts DEF IInv, RowsKeepIndex
<1> QED
  BY <1>1, <1>2, <1>3, <1>4 DEF Step

LEMMA RebootPreserves ==
    ASSUME IInv, Reboot
    PROVE  IInv'
<1>0. TypeOK /\ RowsKeepIndex /\ rows \in [Names -> Project]
  BY DEF IInv, TypeOK
<1>1. rows' = rows /\ cmd' = [p \in Procs |-> Idle]
  BY DEF Reboot
<1>2. cmd' \in [Procs -> Command]
  BY <1>1, IdleType
<1>3. Idle.todo = <<>>
  BY DEF Idle
<1>4. CommandsInv'
  BY <1>1, <1>3, IdleIsWellFormed DEF CommandsInv, Plans, OneCommandPerName, Copies
<1>5. HostTypeOK'
  BY <1>0 DEF Reboot, TypeOK, HostTypeOK, storage
<1> QED
  BY <1>0, <1>1, <1>2, <1>4, <1>5, TypeParts DEF IInv, RowsKeepIndex

LEMMA NextPreserves ==
    ASSUME Exclusive, IInv, [Next]_vars
    PROVE  IInv'
<1>1. CASE Next
  BY <1>1, CommandPreserves, RebootPreserves DEF Next
<1>2. CASE UNCHANGED vars
  <2>1. rows' = rows /\ cmd' = cmd /\ UNCHANGED <<vms, network, storage>>
    BY <1>2 DEF vars, network, storage
  <2>2. HostTypeOK'
    BY <2>1 DEF IInv, TypeOK, HostTypeOK, network, storage
  <2>3. CommandsInv'
    BY <2>1 DEF IInv, CommandsInv, Plans, OneCommandPerName, Copies
  <2> QED
    BY <2>1, <2>2, <2>3, TypeParts DEF IInv, RowsKeepIndex, TypeOK
<1> QED
  BY <1>1, <1>2

LEMMA Invariance ==
    ASSUME Exclusive
    PROVE  Spec => []IInv
<1>1. IInv /\ [Next]_vars => IInv'
  BY NextPreserves
<1> QED
  BY InitEstablishes, <1>1, PTL DEF Spec

\* The variables keep their types.
THEOREM TypeCorrect ==
    ASSUME Exclusive
    PROVE  Spec => []TypeOK
<1>1. IInv => TypeOK
  BY DEF IInv
<1> QED
  BY <1>1, Invariance, PTL

\* Two projects in the store never have one set of addresses, whatever fails,
\* is killed or runs beside: a Save never puts the index of one row into
\* another, and an index is given out again only when no row has it.
THEOREM OwnNetwork ==
    ASSUME Exclusive
    PROVE  Spec => []RowsHaveOwnNetwork
<1>1. IInv => RowsHaveOwnNetwork
  <2> SUFFICES ASSUME IInv, NEW m \in Names, NEW n \in Names,
                      rows[m].net # 0, rows[m].net = rows[n].net
               PROVE  m = n
    BY DEF RowsHaveOwnNetwork, HasService
  <2>1. rows[m].net = rows[m].rowid /\ rows[n].net = rows[n].rowid
    BY DEF IInv, RowsKeepIndex
  <2> QED
    BY <2>1 DEF IInv, RowsKeepIndex
<1> QED
  BY <1>1, Invariance, PTL

\* The steps that can take the disk n from project n.
LEMMA OnlyRemovalsLoseDisk ==
    ASSUME IInv, [Next]_vars, NEW n \in Names, disks[n] = n, disks'[n] # n
    PROVE  \E p \in Procs : cmd[p].name = n /\ (At(p, "undisk") \/ At(p, "copy"))
<1>0. TypeOK /\ Plans /\ disks \in [Names -> Disk] /\ n # "none"
  BY NamesAssumption DEF IInv, CommandsInv, TypeOK
<1>1. PICK p \in Procs : StepOnDisk(p) \/ StepOnVM(p)
  <2>1. disks' # disks
    OBVIOUS
  <2>2. \A p \in Procs : BeginCommand(p) => UNCHANGED disks
    BY DEF BeginCommand, Begin, OtherCommand, Deploy, Destroy, Freeze, Unfreeze, Resize, Clone,
       Load, Push, Route, storage
  <2>3. \A p \in Procs : StepOnStore(p) \/ StepOnNetwork(p) \/ Crash(p) => UNCHANGED disks
    BY DEF StepOnStore, Register, Save, Unrow, StepOnNetwork, Tap, Ensure, Untap, Count,
       Unbridge, Crash, storage
  <2>4. Reboot \/ UNCHANGED vars => UNCHANGED disks
    BY DEF Reboot, vars, storage
  <2> QED
    BY <2>1, <2>2, <2>3, <2>4 DEF Next, Step
<1>2. \A step : At(p, step) => cmd[p].name \in Names
  BY <1>0, HeadFacts
<1>3. CASE MakeDisk(p)
  BY <1>0, <1>2, <1>3 DEF MakeDisk
<1>4. CASE CopyDisk(p)
  BY <1>0, <1>2, <1>4 DEF CopyDisk
<1>5. CASE Undisk(p)
  BY <1>0, <1>2, <1>5 DEF Undisk
<1>6. CASE Pull(p)
  BY <1>0, <1>2, <1>6 DEF Pull
<1>7. CASE Start(p)
  BY <1>0, <1>2, <1>7 DEF Start
<1>8. CASE PrepareDisk(p) \/ Upload(p) \/ Kill(p) \/ Snapshot(p)
  BY <1>8 DEF PrepareDisk, Upload, Kill, Snapshot, storage
<1> QED
  BY <1>1, <1>3, <1>4, <1>5, <1>6, <1>7, <1>8 DEF StepOnDisk, StepOnVM

\* No command but its own destroy takes the disk of a project that is up or
\* frozen, whatever fails, is killed or runs beside.  A command that removes
\* or copies over a disk to make a project, or to clean up after it, does so
\* while the row of that name is missing or still says creating.
THEOREM DataIsSafe ==
    ASSUME Exclusive
    PROVE  Spec => DataSurvives
<1>1. ASSUME IInv, [Next]_vars, NEW n \in Names,
             rows[n].status \in {"running", "frozen"}, disks[n] = n, disks'[n] # n
      PROVE  \E p \in Procs : cmd[p].op = "destroy" /\ cmd[p].name = n
  <2>1. PICK p \in Procs : cmd[p].name = n /\ (At(p, "undisk") \/ At(p, "copy"))
    BY <1>1, OnlyRemovalsLoseDisk
  <2>2. /\ cmd[p].todo # <<>>
        /\ cmd[p].op \in {"deploy", "destroy", "clone", "load"}
    BY <1>1, <2>1, HeadFacts DEF IInv, CommandsInv
  <2>3. cmd[p].op \notin {"deploy", "clone", "load"}
    BY <1>1, <2>1, <2>2 DEF IInv, CommandsInv, Copies, Consistent
  <2> QED
    BY <2>1, <2>2, <2>3
<1> DEFINE Safe == \A n \in Names :
                      /\ rows[n].status \in {"running", "frozen"}
                      /\ disks[n] = n
                      /\ disks'[n] # n
                      => \E p \in Procs : cmd[p].op = "destroy" /\ cmd[p].name = n
<1>2. IInv /\ [Next]_vars => [Safe]_vars
  BY <1>1
<1> HIDE DEF Safe
<1>3. Spec => [][Safe]_vars
  BY <1>2, Invariance, PTL DEF Spec
<1> QED
  BY <1>3 DEF DataSurvives, Safe

-----------------------------------------------------------------------------
(***************************************************************************)
(* Running VMs and what they need.  A VM is owned: its name has a row and  *)
(* the index of that row is its own, and either the row says that it runs  *)
(* with this PID, or the command at work on the project knows it and is    *)
(* about to stop it or to say so.  That is lost when a command that has    *)
(* started a VM ends before its Save: nothing then knows the VM.           *)
(***************************************************************************)
Starters == {"deploy", "clone", "load", "unfreeze", "resize"}

\* The Save after a VM has started does not fail.
StartedAreSaved == \A op \in Starters : <<op, "save">> \notin MayFail

\* More of what the lists of steps have in common: a VM is stopped before
\* anything else, a disk may come before the row, a TAP is not deleted after
\* the row, and a command that starts a VM has only the Save left.
VMPlan(op, s) ==
    \A i \in 1 .. Len(s) :
       /\ s[i] = "kill" => \A j \in 1 .. i - 1 : s[j] = "snapshot"
       /\ s[i] = "register" => \A j \in 1 .. i - 1 : s[j] \in {"copy", "pull"}
       /\ s[i] = "register" => op \in {"deploy", "clone", "load"}
       /\ s[i] = "unrow" => \A j \in i .. Len(s) : s[j] # "untap"
       /\ s[i] \in {"tap", "ensure", "disk", "init", "start"} => s[Len(s)] = "save"
       /\ s[i] = "start" => i + 1 = Len(s) /\ op \in Starters
       /\ s[i] = "save" => op \in Starters \cup {"freeze", "route"}

\* A command works on a copy that is still the row's generation and has the
\* row's index.
UpToDate(op, todo, copy, row) ==
    /\ VMPlan(op, todo)
    /\ ~Has(todo, "register")
          => /\ Has(todo, "save") => copy.gen = row.gen
             /\ Has(todo, "save") \/ Has(todo, "untap") => copy.net = row.rowid
    /\ op = "resize" => copy.status = "running"

CopiesUpToDate ==
    \A p \in Procs :
       cmd[p].todo # <<>>
          => UpToDate(cmd[p].op, cmd[p].todo, cmd[p].copy, rows[cmd[p].name])

RowsServe == \A n \in Names : rows[n].status \in {"running", "frozen"} => rows[n].net # 0

Working(p, n) == cmd[p].todo # <<>> /\ cmd[p].name = n

RunsAs(v, row) == row.status = "running" /\ row.pid = v.pid

\* The command c knows the VM v of its project, which has that row.
Knows(c, v, row) ==
    /\ v.pid = c.copy.pid
    /\ Has(c.todo, "kill") \/ (c.op # "freeze" /\ c.todo = <<"save">>)
    /\ c.op = "route" => RunsAs(v, row)

Owned(v) ==
    /\ v.pid # 0 /\ v.link /\ v.disk
    /\ Present(rows, v.name) /\ v.net = rows[v.name].rowid
    /\ \A w \in vms : w.name = v.name => w = v
    /\ \A p \in Procs : Working(p, v.name) => Knows(cmd[p], v, rows[v.name])
    /\ (\A p \in Procs : ~Working(p, v.name)) => RunsAs(v, rows[v.name])

VMsAreOwned == \A v \in vms : Owned(v)

Ownership == IInv /\ CopiesUpToDate /\ RowsServe /\ VMsAreOwned

-----------------------------------------------------------------------------
LEMMA EmptyVMPlan == \A op : VMPlan(op, <<>>)
BY DEF VMPlan

LEMMA OneStep == \A s \in Seq(Steps) : Len(s) = 1 => s = <<s[1]>>
OBVIOUS

\* What is known of the first step of such a plan and of the rest.
LEMMA TailOfVMPlan ==
    ASSUME NEW op, NEW s \in Seq(Steps), VMPlan(op, s), s # <<>>,
           NEW h, h = Head(s), NEW t, t = Tail(s)
    PROVE  /\ VMPlan(op, t)
           /\ Has(s, "kill") => h \in {"kill", "snapshot"}
           /\ Has(s, "register") => h \in {"register", "copy", "pull"}
           /\ h = "register" => op \in {"deploy", "clone", "load"}
           /\ h = "unrow" => ~Has(t, "untap")
           /\ h \in {"tap", "ensure", "disk", "init", "start"} => Has(s, "save")
           /\ h = "start" => t = <<"save">> /\ op \in Starters
           /\ h = "save" => op \in Starters \cup {"freeze", "route"}
<1> DEFINE l == Len(s)
<1>1. l \in Nat /\ l > 0
  OBVIOUS
<1>2. /\ t \in Seq(Steps) /\ Len(t) = l - 1
      /\ \A i \in 1 .. l - 1 : t[i] = s[i + 1]
      /\ h = s[1]
  BY <1>1
<1>3. \A i \in 1 .. l :
         /\ s[i] = "kill" => \A j \in 1 .. i - 1 : s[j] = "snapshot"
         /\ s[i] = "register" => \A j \in 1 .. i - 1 : s[j] \in {"copy", "pull"}
         /\ s[i] = "register" => op \in {"deploy", "clone", "load"}
         /\ s[i] = "unrow" => \A j \in i .. l : s[j] # "untap"
         /\ s[i] \in {"tap", "ensure", "disk", "init", "start"} => s[l] = "save"
         /\ s[i] = "start" => i + 1 = l /\ op \in Starters
         /\ s[i] = "save" => op \in Starters \cup {"freeze", "route"}
  BY DEF VMPlan
<1>4. \A x : Has(s, x) <=> \E i \in 1 .. l : s[i] = x
  BY DEF Has
<1>5. \A x : Has(t, x) <=> \E i \in 1 .. l - 1 : t[i] = x
  BY <1>2 DEF Has
<1> HIDE DEF l
<1>6. 1 \in 1 .. l /\ l \in 1 .. l
  BY <1>1
<1>7. ASSUME h = "start"
      PROVE  t = <<"save">>
  <2>1. s[1] = "start" /\ s[1] \in {"tap", "ensure", "disk", "init", "start"}
    BY <1>2, <1>7
  <2>2. 1 + 1 = l
    BY <1>3, <1>6, <2>1
  <2>3. s[l] = "save"
    BY <1>3, <1>6, <2>1
  <2>4. Len(t) = 1 /\ t[1] = "save" /\ t \in Seq(Steps)
    BY ONLY <1>1, <1>2, <2>2, <2>3
  <2> QED
    BY ONLY <2>4, OneStep
<1>8. VMPlan(op, t)
  <2>1. ASSUME NEW i \in 1 .. l - 1
        PROVE  /\ t[i] = "kill" => \A j \in 1 .. i - 1 : t[j] = "snapshot"
               /\ t[i] = "register" => \A j \in 1 .. i - 1 : t[j] \in {"copy", "pull"}
               /\ t[i] = "register" => op \in {"deploy", "clone", "load"}
               /\ t[i] = "unrow" => \A j \in i .. l - 1 : t[j] # "untap"
               /\ t[i] \in {"tap", "ensure", "disk", "init", "start"} => t[l - 1] = "save"
               /\ t[i] = "start" => i + 1 = l - 1 /\ op \in Starters
               /\ t[i] = "save" => op \in Starters \cup {"freeze", "route"}
    <3>1. i + 1 \in 1 .. l /\ t[i] = s[i + 1]
      BY <1>1, <1>2
    <3>2. \A j \in 1 .. i - 1 : t[j] = s[j + 1] /\ j + 1 \in 1 .. (i + 1) - 1
      BY <1>1, <1>2
    <3>3. \A j \in i .. l - 1 : t[j] = s[j + 1] /\ j + 1 \in i + 1 .. l
      BY <1>1, <1>2
    <3>4. t[l - 1] = s[l]
      BY <1>1, <1>2
    <3>5. t[i] = "kill" => \A j \in 1 .. i - 1 : t[j] = "snapshot"
      BY <1>3, <3>1, <3>2
    <3>6. t[i] = "register" => \A j \in 1 .. i - 1 : t[j] \in {"copy", "pull"}
      BY <1>3, <3>1, <3>2
    <3>7. t[i] = "unrow" => \A j \in i .. l - 1 : t[j] # "untap"
      BY <1>3, <3>1, <3>3
    <3>8. t[i] = "start" => i + 1 = l - 1 /\ op \in Starters
      <4>1. t[i] = "start" => (i + 1) + 1 = l /\ op \in Starters
        BY <1>3, <3>1
      <4>2. (i + 1) + 1 = l => i + 1 = l - 1
        BY <1>1
      <4> QED
        BY <4>1, <4>2
    <3>9. /\ t[i] = "register" => op \in {"deploy", "clone", "load"}
          /\ t[i] = "save" => op \in Starters \cup {"freeze", "route"}
      BY <1>3, <3>1
    <3>10. t[i] \in {"tap", "ensure", "disk", "init", "start"} => t[l - 1] = "save"
      BY <1>3, <3>1, <3>4
    <3> QED
      BY <3>5, <3>6, <3>7, <3>8, <3>9, <3>10
  <2>2. Len(t) = l - 1
    BY <1>2
  <2> QED
    BY <2>1, <2>2 DEF VMPlan
<1>9. Has(s, "kill") => h \in {"kill", "snapshot"}
  <2> SUFFICES ASSUME NEW i \in 1 .. l, s[i] = "kill" PROVE h \in {"kill", "snapshot"}
    BY <1>4
  <2>1. i = 1 \/ 1 \in 1 .. i - 1
    BY <1>1
  <2> QED
    BY <1>2, <1>3, <2>1
<1>10. Has(s, "register") => h \in {"register", "copy", "pull"}
  <2> SUFFICES ASSUME NEW i \in 1 .. l, s[i] = "register"
               PROVE  h \in {"register", "copy", "pull"}
    BY <1>4
  <2>1. i = 1 \/ 1 \in 1 .. i - 1
    BY <1>1
  <2> QED
    BY <1>2, <1>3, <2>1
<1>11. h = "unrow" => ~Has(t, "untap")
  <2> SUFFICES ASSUME h = "unrow", NEW i \in 1 .. l - 1, t[i] = "untap" PROVE FALSE
    BY <1>5
  <2>1. s[i + 1] = "untap" /\ i + 1 \in 1 .. l
    BY <1>1, <1>2
  <2> QED
    BY <1>2, <1>3, <1>6, <2>1
<1>12. /\ h = "start" => op \in Starters
       /\ h = "register" => op \in {"deploy", "clone", "load"}
       /\ h = "save" => op \in Starters \cup {"freeze", "route"}
  BY <1>2, <1>3, <1>6
<1>13. h \in {"tap", "ensure", "disk", "init", "start"} => Has(s, "save")
  BY <1>2, <1>3, <1>4, <1>6
<1> QED
  BY <1>7, <1>8, <1>9, <1>10, <1>11, <1>12, <1>13

\* Clean-up deletes a TAP before the row, and only after a step that follows
\* the making of the TAP.
LEMMA CleanupIsVMPlan ==
    ASSUME NEW op, NEW step
    PROVE  /\ VMPlan(op, Cleanup(op, step))
           /\ \A x \in {"kill", "register", "save"} : ~Has(Cleanup(op, step), x)
           /\ Has(Cleanup(op, step), "untap") => step \in {"disk", "init", "start"}
<1> DEFINE Lists == {<<>>, <<"unrow">>, <<"undisk">>, <<"unrow", "undisk">>}
           Tapped == {<<"untap", "unrow">>, <<"untap", "undisk", "unrow">>,
                      <<"untap", "unrow", "undisk">>, <<"untap">>}
<1>1. \/ Cleanup(op, step) \in Lists
      \/ Cleanup(op, step) \in Tapped /\ step \in {"disk", "init", "start"}
  BY DEF Cleanup
<1>2. ASSUME NEW s \in Lists
      PROVE  /\ \A i \in 1 .. Len(s) : s[i] \in {"unrow", "undisk"}
  OBVIOUS
<1>3. ASSUME NEW s \in Tapped
      PROVE  /\ \A i \in 1 .. Len(s) : s[i] \in {"unrow", "undisk", "untap"}
             /\ \A i \in 1 .. Len(s) : s[i] = "unrow" => \A j \in i .. Len(s) : s[j] # "untap"
  OBVIOUS
<1>4. ASSUME NEW s, \A i \in 1 .. Len(s) : s[i] \in {"unrow", "undisk", "untap"},
             \A i \in 1 .. Len(s) : s[i] = "unrow" => \A j \in i .. Len(s) : s[j] # "untap"
      PROVE  VMPlan(op, s) /\ \A x \in {"kill", "register", "save"} : ~Has(s, x)
  BY <1>4 DEF VMPlan, Has
<1>5. ASSUME NEW s \in Lists
      PROVE  VMPlan(op, s) /\ \A x \in {"kill", "register", "save", "untap"} : ~Has(s, x)
  <2>1. \A i \in 1 .. Len(s) : i .. Len(s) \subseteq 1 .. Len(s)
    OBVIOUS
  <2> HIDE DEF Lists
  <2>2. \A i \in 1 .. Len(s) : \A j \in i .. Len(s) : s[j] # "untap"
    BY <1>2, <2>1
  <2>3. VMPlan(op, s) /\ \A x \in {"kill", "register", "save"} : ~Has(s, x)
    BY <1>2, <1>4, <2>2
  <2> QED
    BY <1>2, <2>3 DEF Has
<1>6. ASSUME NEW s \in Tapped
      PROVE  VMPlan(op, s) /\ \A x \in {"kill", "register", "save"} : ~Has(s, x)
  <2> HIDE DEF Tapped
  <2> QED
    BY <1>3, <1>4
<1> HIDE DEF Lists, Tapped
<1> QED
  BY <1>1, <1>5, <1>6

-----------------------------------------------------------------------------
\* The command of p goes on, and its copy stays up to date.
Continues(p, t, y) ==
    /\ GoesOn(p, t, y)
    /\ VMPlan(cmd[p].op, t)
    /\ y.gen = cmd[p].copy.gen
    /\ y.status = cmd[p].copy.status
    /\ Has(t, "untap") => Has(cmd[p].todo, "untap") \/ Has(cmd[p].todo, "save")
    /\ Has(t, "save") \/ Has(t, "untap")
          => (Has(cmd[p].todo, "register") => Has(t, "register"))

\* What is known of a command at a step.
LEMMA VMPlanAt ==
    ASSUME IInv, CopiesUpToDate, NEW p \in Procs, NEW step, At(p, step)
    PROVE  /\ VMPlan(cmd[p].op, cmd[p].todo) /\ cmd[p].todo \in Seq(Steps)
           /\ cmd[p].todo # <<>> /\ Head(cmd[p].todo) = step
           /\ cmd[p].name \in Names /\ cmd[p].copy \in Project
           /\ UpToDate(cmd[p].op, cmd[p].todo, cmd[p].copy, rows[cmd[p].name])
           /\ VMPlan(cmd[p].op, Tail(cmd[p].todo))
           /\ step \notin {"kill", "snapshot"} => ~Has(cmd[p].todo, "kill")
           /\ step \notin {"register", "copy", "pull"} => ~Has(cmd[p].todo, "register")
           /\ step = "register" => cmd[p].op \in {"deploy", "clone", "load"}
           /\ step = "unrow" => ~Has(Tail(cmd[p].todo), "untap")
           /\ step \in {"tap", "ensure", "disk", "init", "start"} => Has(cmd[p].todo, "save")
           /\ step = "start" => Tail(cmd[p].todo) = <<"save">> /\ cmd[p].op \in Starters
           /\ step = "save" => cmd[p].op \in Starters \cup {"freeze", "route"}
<1>1. TypeOK /\ Plans
  BY DEF IInv, CommandsInv
<1>2. cmd[p].todo # <<>> /\ Head(cmd[p].todo) = step
      /\ cmd[p].name \in Names /\ cmd[p].copy \in Project
      /\ Plan(cmd[p].op, cmd[p].todo)
  BY <1>1, HeadFacts
<1>3. /\ UpToDate(cmd[p].op, cmd[p].todo, cmd[p].copy, rows[cmd[p].name])
      /\ VMPlan(cmd[p].op, cmd[p].todo) /\ cmd[p].todo \in Seq(Steps)
  BY <1>2 DEF CopiesUpToDate, UpToDate, Plan
<1>4. PICK s \in Seq(Steps) : s = cmd[p].todo
  BY <1>3
<1>5. PICK op : op = cmd[p].op /\ VMPlan(op, s) /\ s # <<>> /\ Head(s) = step
  BY <1>2, <1>3, <1>4
<1>6. PICK t : t = Tail(s)
  OBVIOUS
<1>7. VMPlan(op, t)
  BY <1>5, <1>6, TailOfVMPlan
<1>8. step \notin {"kill", "snapshot"} => ~Has(s, "kill")
  BY <1>5, <1>6, TailOfVMPlan
<1>9. step \notin {"register", "copy", "pull"} => ~Has(s, "register")
  BY <1>5, <1>6, TailOfVMPlan
<1>10. step = "register" => op \in {"deploy", "clone", "load"}
  BY <1>5, <1>6, TailOfVMPlan
<1>11. step = "unrow" => ~Has(t, "untap")
  BY <1>5, <1>6, TailOfVMPlan
<1>12. step \in {"tap", "ensure", "disk", "init", "start"} => Has(s, "save")
  BY <1>5, <1>6, TailOfVMPlan
<1>13. step = "start" => t = <<"save">> /\ op \in Starters
  BY <1>5, <1>6, TailOfVMPlan
<1>14. step = "save" => op \in Starters \cup {"freeze", "route"}
  BY <1>5, <1>6, TailOfVMPlan
<1> QED
  BY <1>2, <1>3, <1>4, <1>5, <1>6, <1>7, <1>8, <1>9, <1>10, <1>11,
     <1>12, <1>13, <1>14

\* The ways a step ends that neither registers nor saves.
LEMMA EndsContinue ==
    ASSUME IInv, CopiesUpToDate, NEW p \in Procs, NEW step, At(p, step),
           step \notin {"register", "save"}
    PROVE  /\ Advance(p) => Continues(p, Tail(cmd[p].todo), cmd[p].copy)
           /\ \A y \in Project :
                 /\ AdvanceWith(p, y) /\ y.net = cmd[p].copy.net
                 /\ y.gen = cmd[p].copy.gen /\ y.status = cmd[p].copy.status
                 => Continues(p, Tail(cmd[p].todo), y)
           /\ Fails(p, step) => Continues(p, Cleanup(cmd[p].op, step), cmd[p].copy)
<1> DEFINE s == cmd[p].todo
<1>0. TypeOK /\ Plans
  BY DEF IInv, CommandsInv
<1>1. /\ s # <<>> /\ Head(s) = step /\ s \in Seq(Steps) /\ VMPlan(cmd[p].op, s)
      /\ Plan(cmd[p].op, s)
  BY <1>0, VMPlanAt, HeadFacts
<1>2. /\ VMPlan(cmd[p].op, Tail(s))
      /\ \A x : Has(Tail(s), x) => Has(s, x)
      /\ \A x : Has(s, x) /\ x # Head(s) => Has(Tail(s), x)
  <2>1. VMPlan(cmd[p].op, Tail(s))
    BY VMPlanAt
  <2> QED
    BY <1>1, <2>1, TailOfPlan
<1>3. /\ Has(Tail(s), "untap") => Has(s, "untap")
      /\ Has(s, "register") => Has(Tail(s), "register")
  BY <1>1, <1>2
<1>4. Advance(p) => Continues(p, Tail(s), cmd[p].copy)
  BY <1>0, <1>2, <1>3, EndsGoOn DEF Continues
<1>5. ASSUME NEW y \in Project,
             AdvanceWith(p, y), y.net = cmd[p].copy.net,
             y.gen = cmd[p].copy.gen, y.status = cmd[p].copy.status
      PROVE  Continues(p, Tail(s), y)
  <2>1. GoesOn(p, Tail(s), y)
    BY <1>0, <1>5, EndsGoOn
  <2> QED
    BY <1>2, <1>3, <1>5, <2>1 DEF Continues
<1>6. ASSUME Fails(p, step)
      PROVE  Continues(p, Cleanup(cmd[p].op, step), cmd[p].copy)
  <2>1. GoesOn(p, Cleanup(cmd[p].op, step), cmd[p].copy)
    BY <1>0, <1>6, EndsGoOn
  <2>2. /\ VMPlan(cmd[p].op, Cleanup(cmd[p].op, step))
        /\ ~Has(Cleanup(cmd[p].op, step), "save")
        /\ Has(Cleanup(cmd[p].op, step), "untap") => step \in {"disk", "init", "start"}
    BY CleanupIsVMPlan
  <2>3. /\ step \in {"tap", "ensure", "disk", "init", "start"} => Has(s, "save")
        /\ step \notin {"register", "copy", "pull"} => ~Has(s, "register")
    BY VMPlanAt
  <2> QED
    BY <2>1, <2>2, <2>3 DEF Continues
<1> QED
  BY <1>4, <1>5, <1>6

LEMMA ContinuingKeepsCopies ==
    ASSUME IInv, CopiesUpToDate, NEW p \in Procs, cmd[p].todo # <<>>, rows' = rows,
           NEW t, NEW y, Continues(p, t, y)
    PROVE  CopiesUpToDate'
<1>1. ASSUME NEW q \in Procs, cmd'[q].todo # <<>>
      PROVE  UpToDate(cmd'[q].op, cmd'[q].todo, cmd'[q].copy, rows'[cmd'[q].name])
  <2>1. CASE q # p
    <3>1. cmd'[q] = cmd[q]
      BY <2>1 DEF Continues, GoesOn, Moves
    <3> QED
      BY <1>1, <3>1 DEF CopiesUpToDate
  <2>2. CASE q = p
    <3>1. Idle.todo = <<>>
      BY DEF Idle
    <3>2. /\ cmd'[p].op = cmd[p].op /\ cmd'[p].name = cmd[p].name
          /\ cmd'[p].todo = t /\ cmd'[p].copy = y
      BY <1>1, <2>2, <3>1 DEF Continues, GoesOn, Moves
    <3>3. UpToDate(cmd[p].op, cmd[p].todo, cmd[p].copy, rows[cmd[p].name])
      BY DEF CopiesUpToDate
    <3>4. UpToDate(cmd[p].op, t, y, rows[cmd[p].name])
      BY <3>3 DEF UpToDate, Continues, GoesOn
    <3> QED
      BY <2>2, <3>2, <3>4
  <2> QED
    BY <2>1, <2>2
<1> QED
  BY <1>1 DEF CopiesUpToDate

-----------------------------------------------------------------------------
\* A project whose command is past stopping its VM has none, but for a Save.
LEMMA NoVMAt ==
    ASSUME Ownership, NEW p \in Procs, NEW step, At(p, step),
           step \notin {"kill", "snapshot", "save"}
    PROVE  \A v \in vms : v.name # cmd[p].name
<1> SUFFICES ASSUME NEW v \in vms, v.name = cmd[p].name
             PROVE  FALSE
  OBVIOUS
<1>1. cmd[p].todo # <<>> /\ Head(cmd[p].todo) = step
  BY VMPlanAt DEF Ownership
<1>2. ~Has(cmd[p].todo, "kill")
  BY VMPlanAt DEF Ownership
<1>3. Knows(cmd[p], v, rows[v.name])
  BY <1>1 DEF Ownership, VMsAreOwned, Owned, Working
<1>4. cmd[p].todo = <<"save">>
  BY <1>2, <1>3 DEF Knows
<1>5. Head(<<"save">>) = "save"
  OBVIOUS
<1> QED
  BY <1>1, <1>4, <1>5

\* A step of one project leaves the VMs of the others alone.
LEMMA OthersStayOwned ==
    ASSUME Ownership, NEW p \in Procs, NEW n \in Names,
           \A q \in Procs \ {p} : cmd'[q] = cmd[q],
           cmd[p].todo # <<>> => cmd[p].name = n,
           cmd'[p].todo # <<>> => cmd'[p].name = n,
           \A m \in Names \ {n} : rows'[m] = rows[m],
           NEW v \in vms, v.name # n,
           \A w \in vms' : w.name = v.name => w \in vms
    PROVE  Owned(v)'
<1>1. v.name \in Names /\ Owned(v)
  BY DEF Ownership, IInv, TypeOK, VM, VMsAreOwned
<1>2. rows'[v.name] = rows[v.name]
  BY <1>1
<1>3. \A q \in Procs : Working(q, v.name)' <=> Working(q, v.name)
  BY DEF Working
<1>4. \A q \in Procs : Working(q, v.name) => cmd'[q] = cmd[q]
  BY DEF Working
<1>5. v.pid # 0 /\ v.link /\ v.disk
  BY <1>1 DEF Owned
<1>6. Present(rows, v.name)' /\ v.net = rows'[v.name].rowid
  BY <1>1, <1>2 DEF Owned, Present
<1>7. \A w \in vms' : w.name = v.name => w = v
  BY <1>1 DEF Owned
<1>8. ASSUME NEW q \in Procs, Working(q, v.name)'
      PROVE  Knows(cmd'[q], v, rows'[v.name])
  <2>1. Knows(cmd[q], v, rows[v.name]) /\ cmd'[q] = cmd[q]
    BY <1>1, <1>3, <1>4, <1>8 DEF Owned
  <2> QED
    BY <1>2, <2>1
<1>9. ASSUME \A q \in Procs : ~Working(q, v.name)'
      PROVE  RunsAs(v, rows'[v.name])
  BY <1>1, <1>2, <1>3, <1>9 DEF Owned
<1> QED
  BY <1>5, <1>6, <1>7, <1>8, <1>9 DEF Owned

LEMMA ContinuingOwns ==
    ASSUME Ownership, NEW p \in Procs, cmd[p].todo # <<>>, rows' = rows,
           NEW t, NEW y, Continues(p, t, y),
           \A v \in vms' : v \in vms /\ v.name # cmd[p].name
    PROVE  CopiesUpToDate' /\ RowsServe' /\ VMsAreOwned'
<1>1. CopiesUpToDate'
  BY ContinuingKeepsCopies DEF Ownership
<1>2. RowsServe'
  BY DEF Ownership, RowsServe
<1>3. /\ \A q \in Procs \ {p} : cmd'[q] = cmd[q]
      /\ cmd'[p].todo # <<>> => cmd'[p].name = cmd[p].name
      /\ cmd[p].name \in Names
  <2>1. Idle.todo = <<>>
    BY DEF Idle
  <2> QED
    BY <2>1 DEF Continues, GoesOn, Moves, Ownership, IInv, TypeOK
<1>4. ASSUME NEW v \in vms'
      PROVE  Owned(v)'
  BY <1>3, OthersStayOwned
<1> QED
  BY <1>1, <1>2, <1>4 DEF VMsAreOwned

\* A step that makes or deletes a TAP has the index of the project's row.
LEMMA IndexAt ==
    ASSUME IInv, CopiesUpToDate, NEW p \in Procs, NEW step, At(p, step),
           step \in {"tap", "ensure", "untap"}
    PROVE  cmd[p].copy.net = rows[cmd[p].name].rowid
<1>1. /\ UpToDate(cmd[p].op, cmd[p].todo, cmd[p].copy, rows[cmd[p].name])
      /\ step \in {"tap", "ensure"} => Has(cmd[p].todo, "save")
      /\ ~Has(cmd[p].todo, "register")
  BY VMPlanAt
<1>2. Has(cmd[p].todo, step)
  BY HeadFacts DEF IInv, CommandsInv
<1>3. Has(cmd[p].todo, "save") \/ Has(cmd[p].todo, "untap")
  BY <1>1, <1>2
<1> QED
  BY <1>1, <1>3 DEF UpToDate

\* Steps on the network and on disks find no VM that they could take the TAP
\* or the disk from.
LEMMA NothingIsTaken ==
    ASSUME Ownership, NEW p \in Procs, StepOnNetwork(p) \/ StepOnDisk(p)
    PROVE  vms' = vms
<1> DEFINE n == cmd[p].name
<1>0. IInv /\ CopiesUpToDate
  BY DEF Ownership
<1>1. ASSUME NEW step, At(p, step), step \in {"pull", "undisk"}
      PROVE  LoseDisk(n) = vms
  <2>1. \A v \in vms : v.name # n
    BY <1>1, NoVMAt
  <2> QED
    BY <2>1 DEF LoseDisk
<1>2. ASSUME NEW step, At(p, step), step \in {"tap", "untap"}
      PROVE  {IF v.net = cmd[p].copy.net THEN [v EXCEPT !.link = FALSE] ELSE v : v \in vms} = vms
  <2>1. \A v \in vms : v.name # n
    BY <1>2, NoVMAt
  <2>2. cmd[p].copy.net = rows[n].rowid /\ n \in Names
    BY <1>0, <1>2, IndexAt, VMPlanAt
  <2>3. ASSUME NEW v \in vms
        PROVE  v.net # cmd[p].copy.net
    <3>1. /\ v.name \in Names /\ v.net = rows[v.name].rowid /\ rows[v.name].rowid # 0
      BY DEF Ownership, VMsAreOwned, Owned, Present, IInv, TypeOK, VM
    <3> QED
      BY <1>0, <2>1, <2>2, <3>1 DEF IInv, RowsKeepIndex
  <2> QED
    BY <2>3
<1>3. CASE Tap(p)
  BY <1>2, <1>3 DEF Tap, DestroyTAP, DeleteTap
<1>4. CASE Untap(p)
  BY <1>2, <1>4 DEF Untap, DestroyTAP, DeleteTap
<1>5. CASE Pull(p)
  BY <1>1, <1>5 DEF Pull
<1>6. CASE Undisk(p)
  BY <1>1, <1>6 DEF Undisk
<1>7. CASE Ensure(p) \/ Count(p) \/ Unbridge(p)
  BY <1>7 DEF Ensure, Count, Unbridge
<1>8. CASE MakeDisk(p) \/ PrepareDisk(p) \/ CopyDisk(p) \/ Upload(p)
  BY <1>8 DEF MakeDisk, PrepareDisk, CopyDisk, Upload
<1> QED
  BY <1>3, <1>4, <1>5, <1>6, <1>7, <1>8 DEF StepOnNetwork, StepOnDisk

LEMMA ResourceStepOwns ==
    ASSUME Ownership, NEW p \in Procs, StepOnNetwork(p) \/ StepOnDisk(p)
    PROVE  CopiesUpToDate' /\ RowsServe' /\ VMsAreOwned'
<1> DEFINE Harmless == \E step, t, y : /\ At(p, step) /\ step \notin {"kill", "snapshot", "save"}
                                       /\ rows' = rows /\ Continues(p, t, y) /\ vms' = vms
<1>0. IInv /\ CopiesUpToDate /\ vms' = vms
  BY NothingIsTaken DEF Ownership
<1>3. ASSUME NEW step, At(p, step), step \notin {"register", "kill", "snapshot", "save"},
             rows' = rows, vms' = vms, Advance(p) \/ Fails(p, step)
      PROVE  Harmless
  BY <1>0, <1>3, EndsContinue
<1>4. SUFFICES Harmless
  <2>1. ASSUME NEW step, NEW t, NEW y,
               At(p, step), step \notin {"kill", "snapshot", "save"},
               rows' = rows, Continues(p, t, y), vms' = vms
        PROVE  CopiesUpToDate' /\ RowsServe' /\ VMsAreOwned'
    <3>1. cmd[p].todo # <<>>
      BY <2>1 DEF At
    <3> QED
      BY <2>1, <3>1, NoVMAt, ContinuingOwns
  <2> QED
    BY <2>1
<1> HIDE DEF Harmless
<1>5. CASE Tap(p)
  BY <1>0, <1>3, <1>5 DEF Tap
<1>6. CASE Ensure(p)
  BY <1>0, <1>3, <1>6 DEF Ensure
<1>7. CASE Untap(p)
  BY <1>0, <1>3, <1>7 DEF Untap
<1>8. CASE Count(p)
  <2> DEFINE s == cmd[p].todo
  <2>1. At(p, "count") /\ rows' = rows /\ vms' = vms
    BY <1>8 DEF Count
  <2>2. CASE Advance(p)
    BY <1>3, <2>1, <2>2
  <2>3. CASE Continue(p, [cmd[p] EXCEPT !.todo = Tail(Tail(@))])
    <3>1. /\ s # <<>> /\ Head(s) = "count" /\ TypeOK
          /\ cmd[p].copy \in Project /\ Plan(cmd[p].op, s) /\ VMPlan(cmd[p].op, s)
          /\ Has(s, "count") /\ s \in Seq(Steps)
      BY <1>0, <2>1, HeadFacts, VMPlanAt DEF Plan, IInv, CommandsInv
    <3>2. /\ Tail(s) # <<>> /\ Plan(cmd[p].op, Tail(s)) /\ VMPlan(cmd[p].op, Tail(s))
          /\ \A x : Has(Tail(s), x) => Has(s, x)
      <4>1. Tail(s) # <<>> /\ Plan(cmd[p].op, Tail(s)) /\ \A x : Has(Tail(s), x) => Has(s, x)
        BY <3>1, TailOfPlan
      <4>2. VMPlan(cmd[p].op, Tail(s))
        BY <1>0, <2>1, VMPlanAt
      <4> QED
        BY <4>1, <4>2
    <3>3. Tail(s) \in Seq(Steps)
      BY <3>1
    <3>4. /\ Plan(cmd[p].op, Tail(Tail(s))) /\ VMPlan(cmd[p].op, Tail(Tail(s)))
          /\ \A x : Has(Tail(Tail(s)), x) => Has(Tail(s), x)
      <4>1. PICK t \in Seq(Steps) : t = Tail(s)
        BY <3>3
      <4>2. Plan(cmd[p].op, t) /\ VMPlan(cmd[p].op, t) /\ t # <<>>
        BY <3>2, <4>1
      <4>3. Plan(cmd[p].op, Tail(t)) /\ \A x : Has(Tail(t), x) => Has(t, x)
        BY <4>2, TailOfPlan
      <4>4. VMPlan(cmd[p].op, Tail(t))
        BY <4>2, TailOfVMPlan
      <4> QED
        BY <4>1, <4>3, <4>4
    <3>5. ~Has(Tail(Tail(s)), "save") /\ Tail(Tail(s)) \in Seq(Steps)
      BY <3>1, <3>2, <3>4 DEF Plan
    <3>6. Moves(p, Tail(Tail(s)), cmd[p].copy)
      BY <2>3, <3>1, <3>5, ContinueMoves
    <3>7. ~Has(s, "register")
      BY <1>0, <2>1, VMPlanAt
    <3>8. Continues(p, Tail(Tail(s)), cmd[p].copy)
      BY <3>1, <3>2, <3>4, <3>5, <3>6, <3>7 DEF Continues, GoesOn
    <3> QED
      BY <2>1, <3>8 DEF Harmless
  <2> QED
    BY <1>8, <2>2, <2>3 DEF Count
<1>9. CASE Unbridge(p)
  BY <1>0, <1>3, <1>9 DEF Unbridge
<1>10. CASE MakeDisk(p)
  BY <1>0, <1>3, <1>10 DEF MakeDisk
<1>11. CASE PrepareDisk(p)
  BY <1>0, <1>3, <1>11 DEF PrepareDisk
<1>12. CASE CopyDisk(p)
  BY <1>0, <1>3, <1>12 DEF CopyDisk
<1>13. CASE Pull(p)
  BY <1>0, <1>3, <1>13 DEF Pull
<1>14. CASE Undisk(p)
  BY <1>0, <1>3, <1>14 DEF Undisk
<1>15. CASE Upload(p)
  BY <1>0, <1>3, <1>15 DEF Upload
<1> QED
  BY <1>5, <1>6, <1>7, <1>8, <1>9, <1>10, <1>11, <1>12, <1>13, <1>14, <1>15
  DEF StepOnNetwork, StepOnDisk

\* A started VM gets the addresses of the project's row and is its only VM.
LEMMA StartOwns ==
    ASSUME Ownership, NEW p \in Procs, Start(p)
    PROVE  CopiesUpToDate' /\ RowsServe' /\ VMsAreOwned'
<1> DEFINE n == cmd[p].name
           s == cmd[p].todo
           c == cmd[p].copy
<1>0. IInv /\ CopiesUpToDate /\ At(p, "start") /\ rows' = rows
  BY DEF Ownership, Start
<1>1. /\ VMPlan(cmd[p].op, s) /\ s \in Seq(Steps) /\ s # <<>> /\ Head(s) = "start"
      /\ n \in Names /\ c \in Project
      /\ UpToDate(cmd[p].op, s, c, rows[n])
  BY <1>0, VMPlanAt
<1>2. /\ Has(s, "save") /\ ~Has(s, "register")
      /\ Tail(s) = <<"save">> /\ cmd[p].op \in Starters
  BY <1>0, VMPlanAt
<1>3. \A w \in vms : w.name # n
  BY <1>0, NoVMAt
<1>4. CASE Fails(p, "start") /\ vms' = vms
  <2>1. Continues(p, Cleanup(cmd[p].op, "start"), c)
    BY <1>0, <1>4, EndsContinue
  <2> QED
    BY <1>0, <1>1, <1>3, <1>4, <2>1, ContinuingOwns
<1>5. ASSUME NEW k \in FreshPid,
             NEW v, v = [pid |-> k, name |-> n, net |-> c.net, link |-> TRUE,
                         disk |-> TRUE, boot |-> BootOf(p)],
             NEW y, y = [c EXCEPT !.pid = k, !.sock = TRUE],
             vms' = vms \cup {v}, AdvanceWith(p, y)
      PROVE  CopiesUpToDate' /\ RowsServe' /\ VMsAreOwned'
  <2>1. k \in Nat \ {0}
    BY DEF FreshPid
  <2>2. /\ y \in Project /\ y.net = c.net /\ y.gen = c.gen /\ y.status = c.status
        /\ y.pid = k
    <3> HIDE DEF c
    <3> QED
      BY <1>1, <1>5, <2>1 DEF Project
  <2>3. /\ v.pid = k /\ v.name = n /\ v.net = c.net /\ v.link /\ v.disk
    BY <1>5
  <2>4. Continues(p, <<"save">>, y)
    <3>1. Continues(p, Tail(s), y)
      BY <1>0, <1>5, <2>2, EndsContinue
    <3> QED
      BY <1>2, <3>1
  <2>5. /\ \A q \in Procs \ {p} : cmd'[q] = cmd[q]
        /\ cmd'[p].op = cmd[p].op /\ cmd'[p].name = n
        /\ cmd'[p].todo = <<"save">> /\ cmd'[p].copy = y
    <3>1. <<"save">> # <<>>
      OBVIOUS
    <3> QED
      BY <2>4, <3>1 DEF Continues, GoesOn, Moves
  <2>6. CopiesUpToDate' /\ RowsServe'
    BY <1>0, <1>1, <2>4, ContinuingKeepsCopies DEF Ownership, RowsServe
  <2>7. Owned(v)'
    <3>1. c.net = rows[n].rowid /\ rows[n].rowid # 0
      BY <1>0, <1>1, <1>2 DEF UpToDate, IInv, CommandsInv, Copies, Consistent
    <3>2. Present(rows, v.name)' /\ v.net = rows'[v.name].rowid
      BY <1>0, <2>3, <3>1 DEF Present
    <3>3. \A w \in vms' : w.name = v.name => w = v
      BY <1>3, <1>5, <2>3
    <3>4. ASSUME NEW q \in Procs, Working(q, v.name)'
          PROVE  Knows(cmd'[q], v, rows'[v.name])
      <4>1. q = p
        BY <1>0, <1>1, <2>3, <2>5, <3>4 DEF Working, IInv, CommandsInv, OneCommandPerName
      <4>2. cmd[p].op # "freeze" /\ cmd[p].op # "route"
        BY <1>2 DEF Starters
      <4> QED
        BY <2>2, <2>3, <2>5, <4>1, <4>2 DEF Knows
    <3>5. Working(p, v.name)'
      <4>1. <<"save">> # <<>>
        OBVIOUS
      <4> QED
        BY <2>3, <2>5, <4>1 DEF Working
    <3> QED
      BY <2>1, <2>3, <3>2, <3>3, <3>4, <3>5 DEF Owned
  <2>8. ASSUME NEW w \in vms
        PROVE  Owned(w)'
    <3>1. \A x \in vms' : x.name = w.name => x \in vms
      BY <1>3, <1>5, <2>3, <2>8
    <3> QED
      BY <1>0, <1>1, <1>3, <2>5, <3>1, OthersStayOwned
  <2> QED
    BY <1>5, <2>6, <2>7, <2>8 DEF VMsAreOwned
<1> QED
  BY <1>4, <1>5 DEF Start

\* A stopped VM is the one its project had.
LEMMA KillOwns ==
    ASSUME Ownership, NEW p \in Procs, Kill(p)
    PROVE  CopiesUpToDate' /\ RowsServe' /\ VMsAreOwned'
<1>0. /\ IInv /\ CopiesUpToDate /\ At(p, "kill") /\ rows' = rows
      /\ vms' = {v \in vms : v.pid # cmd[p].copy.pid}
  BY DEF Ownership, Kill
<1>1. cmd[p].todo # <<>> /\ cmd[p].name \in Names /\ cmd[p].copy \in Project
  BY <1>0, VMPlanAt
<1>2. \A v \in vms' : v \in vms /\ v.name # cmd[p].name
  BY <1>0, <1>1 DEF Ownership, VMsAreOwned, Owned, Working, Knows
<1>3. PICK y : /\ y = [cmd[p].copy EXCEPT !.pid = 0]
               /\ AdvanceWith(p, y)
  BY DEF Kill
<1>4. /\ y \in Project /\ y.net = cmd[p].copy.net /\ y.gen = cmd[p].copy.gen
      /\ y.status = cmd[p].copy.status
  BY <1>1, <1>3 DEF Project
<1>5. Continues(p, Tail(cmd[p].todo), y)
  BY <1>0, <1>3, <1>4, EndsContinue
<1> QED
  BY <1>0, <1>1, <1>2, <1>5, ContinuingOwns

LEMMA SnapshotOwns ==
    ASSUME Ownership, NEW p \in Procs, Snapshot(p)
    PROVE  CopiesUpToDate' /\ RowsServe' /\ VMsAreOwned'
<1> DEFINE n == cmd[p].name
           s == cmd[p].todo
<1>0. /\ IInv /\ CopiesUpToDate /\ At(p, "snapshot") /\ rows' = rows /\ vms' = vms
      /\ Advance(p)
  BY DEF Ownership, Snapshot
<1>1. /\ VMPlan(cmd[p].op, s) /\ s \in Seq(Steps) /\ s # <<>> /\ Head(s) = "snapshot"
      /\ n \in Names /\ Plan(cmd[p].op, s)
  BY <1>0, VMPlanAt, HeadFacts DEF IInv, CommandsInv
<1>2. Continues(p, Tail(s), cmd[p].copy)
  BY <1>0, EndsContinue
<1>3. CopiesUpToDate' /\ RowsServe'
  BY <1>0, <1>1, <1>2, ContinuingKeepsCopies DEF Ownership, RowsServe
<1>4. \A q \in Procs \ {p} : cmd'[q] = cmd[q]
  BY <1>2 DEF Continues, GoesOn, Moves
<1>5. /\ Tail(s) = <<>> => cmd'[p].todo = <<>>
      /\ Tail(s) # <<>> => /\ cmd'[p].name = n /\ cmd'[p].op = cmd[p].op
                           /\ cmd'[p].todo = Tail(s) /\ cmd'[p].copy = cmd[p].copy
  <2>1. Idle.todo = <<>>
    BY DEF Idle
  <2> QED
    BY <1>2, <2>1 DEF Continues, GoesOn, Moves
<1>6. ASSUME NEW v \in vms, v.name # n
      PROVE  Owned(v)'
  BY <1>0, <1>1, <1>4, <1>5, <1>6, OthersStayOwned
<1>7. ASSUME NEW v \in vms, v.name = n
      PROVE  Owned(v)'
  <2>1. Owned(v) /\ Knows(cmd[p], v, rows[n])
    BY <1>1, <1>7 DEF Ownership, VMsAreOwned, Owned, Working
  <2>2. Has(s, "kill")
    <3>1. Head(<<"save">>) = "save"
      OBVIOUS
    <3> QED
      BY <1>1, <2>1, <3>1 DEF Knows
  <2>3. Has(Tail(s), "kill") /\ Tail(s) # <<>>
    <3>1. Has(Tail(s), "kill")
      BY <1>1, <2>2, TailOfPlan
    <3> QED
      BY <3>1, EmptyHasNothing
  <2>4. ASSUME NEW q \in Procs, Working(q, v.name)'
        PROVE  Knows(cmd'[q], v, rows'[v.name])
    <3>1. q = p
      BY <1>0, <1>1, <1>4, <1>7, <2>4 DEF Working, IInv, CommandsInv, OneCommandPerName
    <3> QED
      BY <1>0, <1>5, <1>7, <2>1, <2>3, <3>1 DEF Knows
  <2>5. Working(p, v.name)'
    BY <1>5, <1>7, <2>3 DEF Working
  <2> QED
    BY <1>0, <1>7, <2>1, <2>4, <2>5 DEF Owned, Present
<1> QED
  BY <1>0, <1>3, <1>6, <1>7 DEF VMsAreOwned

-----------------------------------------------------------------------------
LEMMA CopiesStayUpToDate ==
    ASSUME Ownership, NEW p \in Procs, NEW n \in Names,
           cmd[p].todo # <<>>, cmd[p].name = n,
           \A q \in Procs \ {p} : cmd'[q] = cmd[q],
           \A m \in Names \ {n} : rows'[m] = rows[m],
           cmd'[p].todo # <<>>
              => UpToDate(cmd'[p].op, cmd'[p].todo, cmd'[p].copy, rows'[cmd'[p].name])
    PROVE  CopiesUpToDate'
<1>1. ASSUME NEW q \in Procs, q # p, cmd'[q].todo # <<>>
      PROVE  UpToDate(cmd'[q].op, cmd'[q].todo, cmd'[q].copy, rows'[cmd'[q].name])
  <2>1. cmd'[q] = cmd[q]
    BY <1>1
  <2>2. cmd[q].name \in Names /\ cmd[q].name # n
    BY <1>1, <2>1 DEF Ownership, IInv, TypeOK, CommandsInv, OneCommandPerName
  <2>3. rows'[cmd[q].name] = rows[cmd[q].name]
    BY <2>2
  <2> QED
    BY <1>1, <2>1, <2>3 DEF Ownership, CopiesUpToDate
<1> QED
  BY <1>1 DEF CopiesUpToDate

LEMMA RegisterOwns ==
    ASSUME Ownership, NEW p \in Procs, Register(p)
    PROVE  CopiesUpToDate' /\ RowsServe' /\ VMsAreOwned'
<1> DEFINE n == cmd[p].name
           s == cmd[p].todo
<1>0. /\ IInv /\ CopiesUpToDate /\ TypeOK /\ Plans /\ At(p, "register") /\ vms' = vms
      /\ rows \in [Names -> Project]
  BY DEF Ownership, Register, IInv, TypeOK, CommandsInv
<1>1. /\ VMPlan(cmd[p].op, s) /\ s \in Seq(Steps) /\ s # <<>> /\ Head(s) = "register"
      /\ n \in Names /\ cmd[p].copy \in Project
  BY <1>0, VMPlanAt
<1>2. /\ VMPlan(cmd[p].op, Tail(s)) /\ cmd[p].op \in {"deploy", "clone", "load"}
  BY <1>0, VMPlanAt
<1>3. \A w \in vms : w.name # n
  BY <1>0, NoVMAt
<1>4. ASSUME NEW t, NEW y, Moves(p, t, y), \A m \in Names \ {n} : rows'[m] = rows[m],
             rows'[n].status \in {"running", "frozen"} => rows'[n].net # 0,
             UpToDate(cmd[p].op, t, y, rows'[n])
      PROVE  CopiesUpToDate' /\ RowsServe' /\ VMsAreOwned'
  <2>1. /\ \A q \in Procs \ {p} : cmd'[q] = cmd[q]
        /\ cmd'[p].todo # <<>> => /\ cmd'[p].name = n /\ cmd'[p].op = cmd[p].op
                                  /\ cmd'[p].todo = t /\ cmd'[p].copy = y
    <3>1. Idle.todo = <<>>
      BY DEF Idle
    <3> QED
      BY <1>4, <3>1 DEF Moves
  <2>2. CopiesUpToDate'
    BY <1>1, <1>4, <2>1, CopiesStayUpToDate
  <2>3. RowsServe'
    BY <1>4 DEF RowsServe, Ownership
  <2>4. ASSUME NEW v \in vms
        PROVE  Owned(v)'
    BY <1>0, <1>1, <1>3, <1>4, <2>1, OthersStayOwned
  <2> QED
    BY <1>0, <2>2, <2>3, <2>4 DEF VMsAreOwned
<1>5. CASE UNCHANGED rows /\ Fails(p, "register")
  <2>1. Moves(p, Cleanup(cmd[p].op, "register"), cmd[p].copy)
    BY <1>0, <1>1, <1>5, AdvanceMoves
  <2>2. /\ VMPlan(cmd[p].op, Cleanup(cmd[p].op, "register"))
        /\ ~Has(Cleanup(cmd[p].op, "register"), "save")
        /\ ~Has(Cleanup(cmd[p].op, "register"), "untap")
    BY CleanupIsVMPlan
  <2>3. UpToDate(cmd[p].op, Cleanup(cmd[p].op, "register"), cmd[p].copy, rows'[n])
    BY <1>2, <2>2 DEF UpToDate
  <2>4. rows'[n].status \in {"running", "frozen"} => rows'[n].net # 0
    BY <1>1, <1>5 DEF Ownership, RowsServe
  <2> QED
    BY <1>4, <1>5, <2>1, <2>3, <2>4
<1>6. ASSUME NEW r \in NextRowid(rows),
             NEW row, row = [NoProject EXCEPT !.rowid = r, !.gen = 1, !.status = "creating"],
             NEW y, y = [row EXCEPT !.net = r],
             rows' = [rows EXCEPT ![n] = row],
             AdvanceWith(p, y)
      PROVE  CopiesUpToDate' /\ RowsServe' /\ VMsAreOwned'
  <2>1. r \in Nat
    BY <1>0, NextRowidIsNew
  <2>2. row = [rowid |-> r, gen |-> 1, status |-> "creating", net |-> 0, pid |-> 0,
               sock |-> FALSE]
    BY <1>6 DEF NoProject
  <2>3. row \in Project
    BY <2>1, <2>2 DEF Project, Statuses
  <2>4. y \in Project /\ y.net = r /\ y.gen = row.gen /\ y.status = "creating"
    <3>1. y \in Project /\ y.net = r
      BY <1>6, <2>1, <2>3 DEF Project
    <3>2. y.gen = row.gen /\ y.status = row.status
      BY <1>6, <2>3 DEF Project
    <3> QED
      BY <2>2, <3>1, <3>2
  <2>5. rows'[n] = row /\ \A m \in Names \ {n} : rows'[m] = rows[m]
    BY <1>0, <1>1, <1>6
  <2>6. Moves(p, Tail(s), y)
    BY <1>0, <1>1, <1>6, <2>4, AdvanceMoves
  <2>7. UpToDate(cmd[p].op, Tail(s), y, rows'[n])
    BY <1>2, <2>2, <2>4, <2>5 DEF UpToDate
  <2>8. rows'[n].status = "creating"
    BY <2>2, <2>5
  <2> QED
    BY <1>4, <2>5, <2>6, <2>7, <2>8
<1> QED
  BY <1>5, <1>6 DEF Register

\* Whether the delete works or not, no VM has lost its row.
LEMMA UnrowOwns ==
    ASSUME Ownership, NEW p \in Procs, Unrow(p)
    PROVE  CopiesUpToDate' /\ RowsServe' /\ VMsAreOwned'
<1> DEFINE n == cmd[p].name
           s == cmd[p].todo
<1>0. /\ IInv /\ CopiesUpToDate /\ TypeOK /\ Plans /\ At(p, "unrow") /\ vms' = vms
      /\ rows \in [Names -> Project] /\ Advance(p)
  BY DEF Ownership, Unrow, IInv, TypeOK, CommandsInv
<1>1. /\ VMPlan(cmd[p].op, s) /\ s \in Seq(Steps) /\ s # <<>> /\ Head(s) = "unrow"
      /\ n \in Names /\ Plan(cmd[p].op, s) /\ Has(s, "unrow")
      /\ UpToDate(cmd[p].op, s, cmd[p].copy, rows[n])
  BY <1>0, VMPlanAt, HeadFacts
<1>2. /\ VMPlan(cmd[p].op, Tail(s)) /\ ~Has(Tail(s), "untap")
      /\ \A x : Has(Tail(s), x) => Has(s, x)
  <2>1. VMPlan(cmd[p].op, Tail(s)) /\ ~Has(Tail(s), "untap")
    BY <1>0, VMPlanAt
  <2> QED
    BY <1>1, <2>1, TailOfPlan
<1>3. ~Has(Tail(s), "save")
  BY <1>1, <1>2 DEF Plan
<1>4. \A w \in vms : w.name # n
  BY <1>0, NoVMAt
<1>5. Moves(p, Tail(s), cmd[p].copy)
  BY <1>0, <1>1, AdvanceMoves
<1>6. /\ \A q \in Procs \ {p} : cmd'[q] = cmd[q]
      /\ cmd'[p].todo # <<>> => /\ cmd'[p].name = n /\ cmd'[p].op = cmd[p].op
                                /\ cmd'[p].todo = Tail(s) /\ cmd'[p].copy = cmd[p].copy
  <2>1. Idle.todo = <<>>
    BY DEF Idle
  <2> QED
    BY <1>5, <2>1 DEF Moves
<1>7. \A m \in Names \ {n} : rows'[m] = rows[m]
  BY <1>0, <1>1 DEF Unrow
<1>8. rows'[n] \in {rows[n], NoProject}
  BY <1>0, <1>1 DEF Unrow
<1>9. CopiesUpToDate'
  <2>1. \A row : UpToDate(cmd[p].op, Tail(s), cmd[p].copy, row)
    BY <1>1, <1>2, <1>3 DEF UpToDate
  <2> QED
    BY <1>1, <1>6, <1>7, <2>1, CopiesStayUpToDate
<1>10. RowsServe'
  <2>1. NoProject.status = "none"
    BY DEF NoProject
  <2> QED
    BY <1>7, <1>8, <2>1 DEF RowsServe, Ownership
<1>11. ASSUME NEW v \in vms
       PROVE  Owned(v)'
  BY <1>0, <1>1, <1>4, <1>6, <1>7, OthersStayOwned
<1> QED
  BY <1>0, <1>9, <1>10, <1>11 DEF VMsAreOwned

\* A Save that works makes the row say what the command knows; one that does
\* not is of a command that has started nothing.
LEMMA SaveOwns ==
    ASSUME Ownership, StartedAreSaved, NEW p \in Procs, Save(p)
    PROVE  CopiesUpToDate' /\ RowsServe' /\ VMsAreOwned'
<1> DEFINE n == cmd[p].name
           s == cmd[p].todo
           c == cmd[p].copy
           op == cmd[p].op
           new == [c EXCEPT !.status = StatusAfter(op, @)]
           row == [new EXCEPT !.rowid = rows[n].rowid, !.gen = NextGen(rows[n], new)]
<1>0. /\ IInv /\ CopiesUpToDate /\ TypeOK /\ Plans /\ At(p, "save") /\ vms' = vms
      /\ rows \in [Names -> Project]
  BY DEF Ownership, Save, IInv, TypeOK, CommandsInv
<1>1. /\ s # <<>> /\ Head(s) = "save" /\ n \in Names /\ c \in Project
      /\ ~Has(s, "kill") /\ ~Has(s, "register") /\ op \in Starters \cup {"freeze", "route"}
      /\ UpToDate(op, s, c, rows[n])
  BY <1>0, VMPlanAt
<1>2. Has(s, "save") /\ Plan(op, s)
  BY <1>0, HeadFacts
<1>3. c.gen = rows[n].gen /\ c.net = rows[n].rowid /\ (op = "resize" => c.status = "running")
  BY <1>1, <1>2 DEF UpToDate
<1>4. rows[n].rowid # 0
  BY <1>0, <1>1, <1>2 DEF IInv, CommandsInv, Copies, Consistent
<1>5. ~Stale(rows[n], c)
  <2>1. rows[n].gen \in Nat
    BY <1>0, <1>1 DEF Project
  <2> QED
    BY <1>3, <2>1 DEF Stale
<1>6. ASSUME NEW v \in vms, v.name = n
      PROVE  /\ Owned(v) /\ v.pid = c.pid /\ op # "freeze"
             /\ op = "route" => RunsAs(v, rows[n])
  <2>1. Owned(v) /\ Knows(cmd[p], v, rows[n])
    BY <1>1, <1>6 DEF Ownership, VMsAreOwned, Owned, Working
  <2> QED
    BY <1>1, <2>1 DEF Knows
<1>7. ASSUME cmd'[p] = Idle, \A q \in Procs \ {p} : cmd'[q] = cmd[q],
             \A m \in Names \ {n} : rows'[m] = rows[m],
             rows'[n].rowid = rows[n].rowid,
             rows'[n].status \in {"running", "frozen"} => rows'[n].net # 0,
             \A v \in vms : v.name = n => RunsAs(v, rows'[n])
      PROVE  CopiesUpToDate' /\ RowsServe' /\ VMsAreOwned'
  <2>1. cmd'[p].todo = <<>>
    BY <1>7 DEF Idle
  <2>2. CopiesUpToDate'
    BY <1>1, <1>7, <2>1, CopiesStayUpToDate
  <2>3. RowsServe'
    BY <1>7 DEF Ownership, RowsServe
  <2>4. ASSUME NEW v \in vms, v.name # n
        PROVE  Owned(v)'
    BY <1>0, <1>1, <1>7, <2>1, <2>4, OthersStayOwned
  <2>5. ASSUME NEW v \in vms, v.name = n
        PROVE  Owned(v)'
    <3>1. Owned(v) /\ RunsAs(v, rows'[v.name]) /\ rows'[v.name].rowid = rows[v.name].rowid
      BY <1>6, <1>7, <2>5
    <3>2. ASSUME NEW q \in Procs, Working(q, v.name)'
          PROVE  FALSE
      <4>1. CASE q = p
        BY <2>1, <3>2, <4>1 DEF Working
      <4>2. CASE q # p
        BY <1>0, <1>1, <1>7, <2>5, <3>2, <4>2 DEF Working, IInv, CommandsInv, OneCommandPerName
      <4> QED
        BY <4>1, <4>2
    <3> QED
      BY <1>0, <3>1, <3>2 DEF Owned, Present
  <2> QED
    BY <1>0, <2>2, <2>3, <2>4, <2>5 DEF VMsAreOwned
<1>8. CASE rows' = [rows EXCEPT ![n] = row] /\ Advance(p)
  <2>1. Tail(s) = <<>>
    BY <1>1, <1>2, TailOfPlan
  <2>2. cmd'[p] = Idle /\ \A q \in Procs \ {p} : cmd'[q] = cmd[q]
    BY <1>0, <1>1, <1>8, <2>1, AdvanceMoves DEF Moves
  <2>3. /\ new.net = c.net /\ new.pid = c.pid /\ new.status = StatusAfter(op, c.status)
        /\ new.rowid = c.rowid /\ new.sock = c.sock /\ new.gen = c.gen
        /\ new = [rowid |-> new.rowid, gen |-> new.gen, status |-> new.status,
                  net |-> new.net, pid |-> new.pid, sock |-> new.sock]
    <3> HIDE DEF c, op
    <3> QED
      BY <1>1 DEF Project
  <2> HIDE DEF new
  <2>4. /\ row.net = c.net /\ row.pid = c.pid /\ row.status = StatusAfter(op, c.status)
        /\ row.rowid = rows[n].rowid
    BY <2>3
  <2>5. rows'[n] = row /\ \A m \in Names \ {n} : rows'[m] = rows[m]
    BY <1>0, <1>1, <1>8
  <2> HIDE DEF row
  <2>6. ASSUME NEW v \in vms, v.name = n
        PROVE  RunsAs(v, rows'[n])
    <3>1. v.pid = c.pid /\ op # "freeze"
      BY <1>6, <2>6
    <3>2. row.status = "running"
      BY <1>3, <2>4, <3>1 DEF StatusAfter
    <3> QED
      BY <2>4, <2>5, <3>1, <3>2 DEF RunsAs
  <2> QED
    BY <1>3, <1>4, <1>7, <2>2, <2>4, <2>5, <2>6
<1>9. CASE rows' = rows /\ Fails(p, "save") /\ MayFailAt(p, "save")
  <2>1. op \in {"freeze", "route"}
    BY <1>1, <1>9 DEF StartedAreSaved, MayFailAt
  <2>2. Cleanup(op, "save") = <<>>
    BY <2>1 DEF Cleanup
  <2>3. cmd'[p] = Idle /\ \A q \in Procs \ {p} : cmd'[q] = cmd[q]
    BY <1>0, <1>1, <1>9, <2>2, AdvanceMoves DEF Moves
  <2>4. \A v \in vms : v.name = n => RunsAs(v, rows'[n])
    BY <1>6, <1>9, <2>1
  <2> QED
    BY <1>1, <1>7, <1>9, <2>3, <2>4 DEF Ownership, RowsServe
<1> QED
  BY <1>4, <1>5, <1>8, <1>9 DEF Save, Present

-----------------------------------------------------------------------------
\* A command that begins on a running project knows its VM.
LEMMA BeginOwns ==
    ASSUME Ownership, Exclusive, NEW p \in Procs, NEW op, NEW n \in Names, NEW src,
           NEW copy, NEW todo, todo # <<>>, Begin(p, op, n, src, copy, todo),
           UpToDate(op, todo, copy, rows[n]),
           rows[n].status = "running" /\ rows[n].pid # 0
              => /\ copy = rows[n]
                 /\ Has(todo, "kill") \/ (op # "freeze" /\ todo = <<"save">>)
    PROVE  CopiesUpToDate' /\ RowsServe' /\ VMsAreOwned'
<1> DEFINE c == [op |-> op, name |-> n, src |-> src, todo |-> todo, copy |-> copy,
                 kept |-> disks[n] # "none"]
<1>1. /\ rows' = rows /\ vms' = vms /\ cmd' = [cmd EXCEPT ![p] = c] /\ Free(n)
      /\ cmd \in [Procs -> Command] /\ cmd[p] = Idle
  BY DEF Begin, Ownership, IInv, TypeOK
<1>2. /\ cmd'[p] = c /\ \A q \in Procs \ {p} : cmd'[q] = cmd[q]
      /\ cmd[p].todo = <<>>
  BY <1>1 DEF Idle
<1>3. /\ c.op = op /\ c.name = n /\ c.todo = todo /\ c.copy = copy
  OBVIOUS
<1>4. \A q \in Procs : cmd[q].name # n
  BY <1>1, NoNameAssumption DEF Free
<1> HIDE DEF c
<1>5. CopiesUpToDate'
  <2>1. ASSUME NEW q \in Procs, cmd'[q].todo # <<>>
        PROVE  UpToDate(cmd'[q].op, cmd'[q].todo, cmd'[q].copy, rows'[cmd'[q].name])
    <3>1. CASE q = p
      BY <1>1, <1>2, <1>3, <3>1
    <3>2. CASE q # p
      BY <1>1, <1>2, <2>1, <3>2 DEF Ownership, CopiesUpToDate
    <3> QED
      BY <3>1, <3>2
  <2> QED
    BY <2>1 DEF CopiesUpToDate
<1>6. RowsServe'
  BY <1>1 DEF Ownership, RowsServe
<1>7. ASSUME NEW v \in vms, v.name # n
      PROVE  Owned(v)'
  BY <1>1, <1>2, <1>3, <1>7, OthersStayOwned
<1>8. ASSUME NEW v \in vms, v.name = n
      PROVE  Owned(v)'
  <2>1. Owned(v)
    BY DEF Ownership, VMsAreOwned
  <2>2. RunsAs(v, rows[n])
    BY <1>4, <1>8, <2>1 DEF Owned, Working
  <2>3. Knows(c, v, rows[n])
    BY <1>3, <2>1, <2>2 DEF Owned, RunsAs, Knows
  <2>4. ASSUME NEW q \in Procs, Working(q, v.name)'
        PROVE  Knows(cmd'[q], v, rows'[v.name])
    <3>1. q = p
      BY <1>2, <1>4, <1>8, <2>4 DEF Working
    <3> QED
      BY <1>1, <1>2, <1>8, <2>3, <3>1
  <2>5. Working(p, v.name)'
    BY <1>2, <1>3, <1>8 DEF Working
  <2> QED
    BY <1>1, <1>8, <2>1, <2>4, <2>5 DEF Owned, Present
<1> QED
  BY <1>1, <1>5, <1>6, <1>7, <1>8 DEF VMsAreOwned

LEMMA NewVMPlans ==
    /\ VMPlan("deploy", <<"register", "tap", "disk", "init", "start", "save">>)
    /\ VMPlan("clone", <<"copy", "register", "tap", "start", "save">>)
    /\ VMPlan("load", <<"pull", "register", "tap", "start", "save">>)
<1>1. VMPlan("deploy", <<"register", "tap", "disk", "init", "start", "save">>)
  BY DEF VMPlan, Starters
<1>2. VMPlan("clone", <<"copy", "register", "tap", "start", "save">>)
  BY DEF VMPlan, Starters
<1>3. VMPlan("load", <<"pull", "register", "tap", "start", "save">>)
  BY DEF VMPlan, Starters
<1> QED
  BY <1>1, <1>2, <1>3

LEMMA DestroyVMPlans ==
    /\ /\ VMPlan("destroy", <<"count", "unbridge", "unrow">>)
       /\ ~Has(<<"count", "unbridge", "unrow">>, "untap")
    /\ /\ VMPlan("destroy", <<"kill", "untap", "count", "unbridge", "unrow">>)
       /\ Has(<<"kill", "untap", "count", "unbridge", "unrow">>, "kill")
    /\ /\ VMPlan("destroy", <<"kill", "untap", "undisk", "count", "unbridge", "unrow">>)
       /\ Has(<<"kill", "untap", "undisk", "count", "unbridge", "unrow">>, "kill")
<1>1. /\ VMPlan("destroy", <<"count", "unbridge", "unrow">>)
      /\ ~Has(<<"count", "unbridge", "unrow">>, "untap")
  BY DEF VMPlan, Has
<1>2. /\ VMPlan("destroy", <<"kill", "untap", "count", "unbridge", "unrow">>)
      /\ Has(<<"kill", "untap", "count", "unbridge", "unrow">>, "kill")
  BY DEF VMPlan, Has
<1>3. /\ VMPlan("destroy", <<"kill", "untap", "undisk", "count", "unbridge", "unrow">>)
      /\ Has(<<"kill", "untap", "undisk", "count", "unbridge", "unrow">>, "kill")
  BY DEF VMPlan, Has
<1> QED
  BY <1>1, <1>2, <1>3

LEMMA ServingVMPlans ==
    /\ /\ VMPlan("freeze", <<"snapshot", "kill", "save">>)
       /\ Has(<<"snapshot", "kill", "save">>, "kill")
    /\ VMPlan("freeze", <<"save">>) /\ VMPlan("route", <<"save">>)
    /\ VMPlan("unfreeze", <<"ensure", "start", "save">>)
    /\ /\ VMPlan("resize", <<"kill", "ensure", "start", "save">>)
       /\ Has(<<"kill", "ensure", "start", "save">>, "kill")
    /\ /\ VMPlan("resize", <<"kill", "grow", "ensure", "start", "save">>)
       /\ Has(<<"kill", "grow", "ensure", "start", "save">>, "kill")
    /\ /\ VMPlan("push", <<"upload", "unrow">>)
       /\ ~Has(<<"upload", "unrow">>, "save") /\ ~Has(<<"upload", "unrow">>, "untap")
<1>1. /\ VMPlan("freeze", <<"snapshot", "kill", "save">>)
      /\ Has(<<"snapshot", "kill", "save">>, "kill")
  BY DEF VMPlan, Has
<1>2. VMPlan("freeze", <<"save">>) /\ VMPlan("route", <<"save">>)
  BY DEF VMPlan
<1>3. VMPlan("unfreeze", <<"ensure", "start", "save">>)
  BY DEF VMPlan, Starters
<1>4. /\ VMPlan("resize", <<"kill", "ensure", "start", "save">>)
      /\ Has(<<"kill", "ensure", "start", "save">>, "kill")
  BY DEF VMPlan, Has, Starters
<1>5. /\ VMPlan("resize", <<"kill", "grow", "ensure", "start", "save">>)
      /\ Has(<<"kill", "grow", "ensure", "start", "save">>, "kill")
  BY DEF VMPlan, Has, Starters
<1>6. /\ VMPlan("push", <<"upload", "unrow">>)
      /\ ~Has(<<"upload", "unrow">>, "save") /\ ~Has(<<"upload", "unrow">>, "untap")
  BY DEF VMPlan, Has
<1> QED
  BY <1>1, <1>2, <1>3, <1>4, <1>5, <1>6

LEMMA RowIsUpToDate ==
    ASSUME Ownership, NEW n \in Names, NEW op, NEW todo, VMPlan(op, todo),
           op = "resize" => rows[n].status = "running",
           Has(todo, "save") \/ Has(todo, "untap") => HasService(rows[n])
    PROVE  UpToDate(op, todo, rows[n], rows[n])
<1>1. HasService(rows[n]) => rows[n].net = rows[n].rowid
  BY DEF Ownership, IInv, RowsKeepIndex, HasService
<1> QED
  BY <1>1 DEF UpToDate

LEMMA BeginningOwns ==
    ASSUME Ownership, Exclusive, NEW p \in Procs, BeginCommand(p)
    PROVE  CopiesUpToDate' /\ RowsServe' /\ VMsAreOwned'
<1>1. \A n \in Names : ~Present(rows, n) => rows[n].status # "running"
  BY DEF Ownership, IInv, RowsKeepIndex, Present
<1>2. \A n \in Names : rows[n].status \in {"running", "frozen"} => HasService(rows[n])
  BY DEF Ownership, RowsServe, HasService
<1>3. ASSUME NEW n \in Names, Deploy(p, n)
      PROVE  CopiesUpToDate' /\ RowsServe' /\ VMsAreOwned'
  <2>1. PICK todo : /\ todo # <<>> /\ Has(todo, "register") /\ VMPlan("deploy", todo)
                    /\ Begin(p, "deploy", n, NoName, NoProject, todo)
    BY <1>3, DeployPlan, NewVMPlans DEF Deploy
  <2>2. UpToDate("deploy", todo, NoProject, rows[n])
    BY <2>1 DEF UpToDate
  <2>3. rows[n].status # "running"
    BY <1>1, <1>3 DEF Deploy
  <2> QED
    BY <2>1, <2>2, <2>3, BeginOwns
<1>4. ASSUME NEW n \in Names, Load(p, n)
      PROVE  CopiesUpToDate' /\ RowsServe' /\ VMsAreOwned'
  <2>1. PICK todo : /\ todo # <<>> /\ Has(todo, "register") /\ VMPlan("load", todo)
                    /\ Begin(p, "load", n, NoName, NoProject, todo)
    BY <1>4, LoadPlan, NewVMPlans DEF Load
  <2>2. UpToDate("load", todo, NoProject, rows[n])
    BY <2>1 DEF UpToDate
  <2>3. rows[n].status # "running"
    BY <1>1, <1>4 DEF Load
  <2> QED
    BY <2>1, <2>2, <2>3, BeginOwns
<1>5. ASSUME NEW n \in Names, NEW src \in Names, Clone(p, src, n)
      PROVE  CopiesUpToDate' /\ RowsServe' /\ VMsAreOwned'
  <2>1. PICK todo : /\ todo # <<>> /\ Has(todo, "register") /\ VMPlan("clone", todo)
                    /\ Begin(p, "clone", n, src, NoProject, todo)
    BY <1>5, ClonePlan, NewVMPlans DEF Clone
  <2>2. UpToDate("clone", todo, NoProject, rows[n])
    BY <2>1 DEF UpToDate
  <2>3. rows[n].status # "running"
    BY <1>1, <1>5 DEF Clone
  <2> QED
    BY <2>1, <2>2, <2>3, BeginOwns
<1>6. ASSUME NEW n \in Names, Destroy(p, n)
      PROVE  CopiesUpToDate' /\ RowsServe' /\ VMsAreOwned'
  <2>1. PICK todo : /\ Begin(p, "destroy", n, NoName, rows[n], todo)
                    /\ todo # <<>> /\ VMPlan("destroy", todo) /\ ~Has(todo, "save")
                    /\ HasService(rows[n]) => Has(todo, "kill")
                    /\ ~HasService(rows[n]) => ~Has(todo, "untap")
    <3>1. PICK todo \in {<<"count", "unbridge", "unrow">>,
                         <<"kill", "untap", "count", "unbridge", "unrow">>,
                         <<"kill", "untap", "undisk", "count", "unbridge", "unrow">>} :
             /\ Begin(p, "destroy", n, NoName, rows[n], todo)
             /\ HasService(rows[n]) => todo # <<"count", "unbridge", "unrow">>
             /\ ~HasService(rows[n]) => todo = <<"count", "unbridge", "unrow">>
      <4>1. CASE HasService(rows[n])
        <5>1. /\ <<"kill", "untap", "count", "unbridge", "unrow">> # <<"count", "unbridge", "unrow">>
              /\ <<"kill", "untap", "undisk", "count", "unbridge", "unrow">>
                    # <<"count", "unbridge", "unrow">>
          OBVIOUS
        <5> QED
          BY <1>6, <4>1, <5>1, Zenon DEF Destroy
      <4>2. CASE ~HasService(rows[n])
        BY <1>6, <4>2, Zenon DEF Destroy
      <4> QED
        BY <4>1, <4>2
    <3> QED
      BY <3>1, Destroy1Plan, Destroy2Plan, Destroy3Plan, DestroyVMPlans, Zenon
  <2>2. UpToDate("destroy", todo, rows[n], rows[n])
    BY <2>1, RowIsUpToDate
  <2> QED
    BY <1>2, <2>1, <2>2, BeginOwns
<1>7. ASSUME NEW n \in Names, Freeze(p, n)
      PROVE  CopiesUpToDate' /\ RowsServe' /\ VMsAreOwned'
  <2>1. PICK todo : /\ Begin(p, "freeze", n, NoName, rows[n], todo)
                    /\ todo # <<>> /\ VMPlan("freeze", todo)
                    /\ rows[n].pid # 0 => Has(todo, "kill")
    <3>1. CASE rows[n].pid # 0
      BY <1>7, <3>1, FreezePlan, ServingVMPlans DEF Freeze
    <3>2. CASE rows[n].pid = 0
      <4>1. VMPlan("freeze", <<"save">>) /\ <<"save">> # <<>>
        BY SavePlan, ServingVMPlans
      <4> QED
        BY <1>7, <3>2, <4>1 DEF Freeze
    <3> QED
      BY <3>1, <3>2
  <2>2. UpToDate("freeze", todo, rows[n], rows[n])
    BY <1>2, <1>7, <2>1, RowIsUpToDate DEF Freeze
  <2> QED
    BY <2>1, <2>2, BeginOwns
<1>8. ASSUME NEW n \in Names, Unfreeze(p, n)
      PROVE  CopiesUpToDate' /\ RowsServe' /\ VMsAreOwned'
  <2>1. PICK todo : /\ Begin(p, "unfreeze", n, NoName, rows[n], todo)
                    /\ todo # <<>> /\ VMPlan("unfreeze", todo)
    BY <1>8, UnfreezePlan, ServingVMPlans DEF Unfreeze
  <2>2. UpToDate("unfreeze", todo, rows[n], rows[n]) /\ rows[n].status = "frozen"
    BY <1>2, <1>8, <2>1, RowIsUpToDate DEF Unfreeze
  <2> QED
    BY <2>1, <2>2, BeginOwns
<1>9. ASSUME NEW n \in Names, Resize(p, n)
      PROVE  CopiesUpToDate' /\ RowsServe' /\ VMsAreOwned'
  <2>1. PICK todo : /\ Begin(p, "resize", n, NoName, rows[n], todo)
                    /\ todo # <<>> /\ VMPlan("resize", todo) /\ Has(todo, "kill")
    BY <1>9, Resize1Plan, Resize2Plan, ServingVMPlans, Zenon DEF Resize
  <2>2. UpToDate("resize", todo, rows[n], rows[n])
    BY <1>9, <2>1, RowIsUpToDate DEF Resize
  <2> QED
    BY <2>1, <2>2, BeginOwns
<1>10. ASSUME NEW n \in Names, Push(p, n)
       PROVE  CopiesUpToDate' /\ RowsServe' /\ VMsAreOwned'
  <2>1. PICK todo : /\ Begin(p, "push", n, NoName, rows[n], todo)
                    /\ todo # <<>> /\ VMPlan("push", todo)
                    /\ ~Has(todo, "save") /\ ~Has(todo, "untap")
    BY <1>10, PushPlan, ServingVMPlans DEF Push
  <2>2. UpToDate("push", todo, rows[n], rows[n]) /\ rows[n].status # "running"
    BY <1>10, <2>1, RowIsUpToDate DEF Push
  <2> QED
    BY <2>1, <2>2, BeginOwns
<1>11. ASSUME NEW n \in Names, Route(p, n)
       PROVE  CopiesUpToDate' /\ RowsServe' /\ VMsAreOwned'
  <2>1. /\ Begin(p, "route", n, NoName, rows[n], <<"save">>)
        /\ <<"save">> # <<>> /\ VMPlan("route", <<"save">>) /\ HasService(rows[n])
    BY <1>11, SavePlan, ServingVMPlans DEF Route
  <2>2. UpToDate("route", <<"save">>, rows[n], rows[n])
    BY <2>1, RowIsUpToDate
  <2> QED
    BY <2>1, <2>2, BeginOwns
<1>12. ASSUME OtherCommand(p)
       PROVE  CopiesUpToDate' /\ RowsServe' /\ VMsAreOwned'
  BY <1>12 DEF OtherCommand, Ownership, CopiesUpToDate, RowsServe, VMsAreOwned, Owned, Working,
     Present
<1> QED
  BY <1>3, <1>4, <1>5, <1>6, <1>7, <1>8, <1>9, <1>10, <1>11, <1>12 DEF BeginCommand

-----------------------------------------------------------------------------
LEMMA OwnershipIsKept ==
    ASSUME Exclusive, ~Crashes, StartedAreSaved, Ownership, [Next]_vars
    PROVE  Ownership'
<1>1. IInv'
  BY NextPreserves DEF Ownership
<1>2. ASSUME NEW p \in Procs, BeginCommand(p) \/ Step(p) \/ Crash(p)
      PROVE  CopiesUpToDate' /\ RowsServe' /\ VMsAreOwned'
  <2>1. CASE BeginCommand(p)
    BY <2>1, BeginningOwns
  <2>2. CASE StepOnStore(p)
    BY <2>2, RegisterOwns, SaveOwns, UnrowOwns DEF StepOnStore
  <2>3. CASE StepOnNetwork(p) \/ StepOnDisk(p)
    BY <2>3, ResourceStepOwns
  <2>4. CASE StepOnVM(p)
    BY <2>4, StartOwns, KillOwns, SnapshotOwns DEF StepOnVM
  <2> QED
    BY <1>2, <2>1, <2>2, <2>3, <2>4 DEF Step, Crash
<1>3. ASSUME UNCHANGED vars
      PROVE  CopiesUpToDate' /\ RowsServe' /\ VMsAreOwned'
  <2>1. rows' = rows /\ cmd' = cmd /\ vms' = vms
    BY <1>3 DEF vars
  <2> QED
    BY <2>1 DEF Ownership, CopiesUpToDate, RowsServe, VMsAreOwned, Owned, Working, Present
<1> QED
  BY <1>1, <1>2, <1>3 DEF Ownership, Next, Reboot

LEMMA InitOwns ==
    ASSUME Init
    PROVE  Ownership
<1>1. IInv
  BY InitEstablishes
<1>2. \A p \in Procs : cmd[p].todo = <<>>
  BY DEF Init, Idle
<1>3. \A n \in Names : rows[n].status = "none"
  BY DEF Init, NoProject
<1>4. vms = {}
  BY DEF Init
<1> QED
  BY <1>1, <1>2, <1>3, <1>4 DEF Ownership, CopiesUpToDate, RowsServe, VMsAreOwned

LEMMA OwnershipHolds ==
    ASSUME Exclusive, ~Crashes, StartedAreSaved
    PROVE  Spec => []Ownership
<1>1. Init => Ownership
  BY InitOwns
<1>2. Ownership /\ [Next]_vars => Ownership'
  BY OwnershipIsKept
<1> QED
  BY <1>1, <1>2, PTL DEF Spec

\* No two VMs are ever on one network: the index in the row is given out again
\* only after the VM that had it was stopped.
THEOREM OwnNetworkOfVM ==
    ASSUME Exclusive, ~Crashes, StartedAreSaved
    PROVE  Spec => []UniqueNetwork
<1>1. Ownership => UniqueNetwork
  <2> SUFFICES ASSUME Ownership, NEW v \in vms, NEW w \in vms, v.net = w.net
               PROVE  v = w
    BY DEF UniqueNetwork
  <2>1. Owned(v) /\ Owned(w) /\ v.name \in Names /\ w.name \in Names
    BY DEF Ownership, VMsAreOwned, IInv, TypeOK, VM
  <2>2. v.name = w.name
    BY <2>1 DEF Owned, Present, Ownership, IInv, RowsKeepIndex
  <2> QED
    BY <2>1, <2>2 DEF Owned
<1> QED
  BY <1>1, OwnershipHolds, PTL

\* No two VMs ever write to one disk.
THEOREM OwnDisk ==
    ASSUME Exclusive, ~Crashes, StartedAreSaved
    PROVE  Spec => []OneVMPerDisk
<1>1. Ownership => OneVMPerDisk
  BY DEF Ownership, VMsAreOwned, Owned, OneVMPerDisk
<1> QED
  BY <1>1, OwnershipHolds, PTL

\* No step of any command, of its clean-up or of another project takes the TAP
\* or the disk of a VM that runs: a VM is stopped first.
THEOREM ResourcesKept ==
    ASSUME Exclusive, ~Crashes, StartedAreSaved
    PROVE  Spec => []VMKeepsItsResources
<1>1. Ownership => VMKeepsItsResources
  BY DEF Ownership, VMsAreOwned, Owned, VMKeepsItsResources
<1> QED
  BY <1>1, OwnershipHolds, PTL

-----------------------------------------------------------------------------
(***************************************************************************)
(* What commands leave behind.  First what each kind of command does: no   *)
(* list of steps has a step twice.                                         *)
(***************************************************************************)
StepsOf(op) ==
    CASE op = "deploy"   -> {"register", "tap", "disk", "init", "start", "save",
                             "untap", "undisk", "unrow"}
      [] op = "clone"    -> {"copy", "register", "tap", "start", "save",
                             "untap", "undisk", "unrow"}
      [] op = "destroy"  -> {"kill", "untap", "undisk", "count", "unbridge", "unrow"}
      [] op = "freeze"   -> {"snapshot", "kill", "save"}
      [] op = "unfreeze" -> {"ensure", "start", "save"}
      [] op = "resize"   -> {"kill", "grow", "ensure", "start", "save"}
      [] op = "push"     -> {"upload", "unrow"}
      [] OTHER           -> Steps

Fits(op, s) ==
    \A i \in 1 .. Len(s) :
       /\ s[i] \in StepsOf(op)
       /\ \A j \in 1 .. Len(s) : s[j] = s[i] => i = j
       /\ s[i] = "copy" => i = 1
       /\ s[i] = "tap" => \A j \in 1 .. i - 1 : s[j] \in {"copy", "pull", "register"}
       /\ s[i] = "unrow" /\ op \in {"destroy", "push"} => i = Len(s)

CommandsFit == \A p \in Procs : Fits(cmd[p].op, cmd[p].todo)

\* A VM's PID is in no row and in no command's copy but its own project's.
PidsAreOwn ==
    \A v \in vms : /\ \A n \in Names : rows[n].pid = v.pid => n = v.name
                   /\ \A p \in Procs : cmd[p].copy.pid = v.pid => cmd[p].name = v.name

VMsHaveTheirs == \A v \in vms : v.net \in taps /\ disks[v.name] = v.name

Belongings == Ownership /\ CommandsFit /\ PidsAreOwn /\ VMsHaveTheirs

LEMMA EmptyFits == \A op : Fits(op, <<>>)
BY DEF Fits

LEMMA TailFits ==
    ASSUME NEW op, NEW s \in Seq(Steps), Fits(op, s), s # <<>>,
           NEW h, h = Head(s), NEW t, t = Tail(s)
    PROVE  /\ Fits(op, t)
           /\ h \in StepsOf(op) /\ ~Has(t, h) /\ ~Has(t, "copy")
           /\ Has(s, "tap") => h \in {"copy", "pull", "register", "tap"}
           /\ h = "unrow" /\ op \in {"destroy", "push"} => t = <<>>
<1> DEFINE l == Len(s)
<1>1. l \in Nat /\ l > 0
  OBVIOUS
<1>2. /\ t \in Seq(Steps) /\ Len(t) = l - 1
      /\ \A i \in 1 .. l - 1 : t[i] = s[i + 1]
      /\ h = s[1]
  BY <1>1
<1>3. \A i \in 1 .. l :
         /\ s[i] \in StepsOf(op)
         /\ \A j \in 1 .. l : s[j] = s[i] => i = j
         /\ s[i] = "copy" => i = 1
         /\ s[i] = "tap" => \A j \in 1 .. i - 1 : s[j] \in {"copy", "pull", "register"}
         /\ s[i] = "unrow" /\ op \in {"destroy", "push"} => i = l
  BY DEF Fits
<1>4. \A x : Has(s, x) <=> \E i \in 1 .. l : s[i] = x
  BY DEF Has
<1>5. \A x : Has(t, x) <=> \E i \in 1 .. l - 1 : t[i] = x
  BY <1>2 DEF Has
<1> HIDE DEF l
<1>6. 1 \in 1 .. l
  BY <1>1
<1>7. \A i \in 1 .. l - 1 : i + 1 \in 1 .. l /\ i + 1 # 1
  BY <1>1
<1>8. ~Has(t, h)
  BY <1>2, <1>3, <1>5, <1>6, <1>7
<1>9. ~Has(t, "copy")
  BY <1>2, <1>3, <1>5, <1>7
<1>10. ASSUME Has(s, "tap")
       PROVE  h \in {"copy", "pull", "register", "tap"}
  <2>1. PICK i \in 1 .. l : s[i] = "tap"
    BY <1>4, <1>10
  <2>2. i = 1 \/ 1 \in 1 .. i - 1
    BY <1>1
  <2> QED
    BY <1>2, <1>3, <2>1, <2>2
<1>11. ASSUME h = "unrow", op \in {"destroy", "push"}
       PROVE  t = <<>>
  <2>1. 1 = l
    BY <1>2, <1>3, <1>6, <1>11
  <2>2. Len(t) = 0 /\ t \in Seq(Steps)
    BY <1>1, <1>2, <2>1
  <2> QED
    BY ONLY <2>2
<1>12. ASSUME NEW i \in 1 .. l - 1
       PROVE  /\ t[i] \in StepsOf(op)
              /\ \A j \in 1 .. l - 1 : t[j] = t[i] => i = j
              /\ t[i] = "copy" => i = 1
              /\ t[i] = "tap" => \A j \in 1 .. i - 1 : t[j] \in {"copy", "pull", "register"}
              /\ t[i] = "unrow" /\ op \in {"destroy", "push"} => i = l - 1
  <2>1. i + 1 \in 1 .. l /\ t[i] = s[i + 1] /\ i + 1 # 1
    BY <1>2, <1>7
  <2>2. t[i] \in StepsOf(op)
    BY <1>3, <2>1
  <2>3. ASSUME NEW j \in 1 .. l - 1, t[j] = t[i]
        PROVE  i = j
    <3>1. j + 1 \in 1 .. l /\ t[j] = s[j + 1]
      BY <1>2, <1>7
    <3>2. i + 1 = j + 1
      BY <1>3, <2>1, <2>3, <3>1
    <3> QED
      BY <1>1, <3>2
  <2>4. t[i] # "copy"
    BY <1>3, <2>1
  <2>5. ASSUME NEW j \in 1 .. i - 1, t[i] = "tap"
        PROVE  t[j] \in {"copy", "pull", "register"}
    <3>1. j + 1 \in 1 .. (i + 1) - 1 /\ j \in 1 .. l - 1
      BY <1>1
    <3> QED
      BY <1>2, <1>3, <2>1, <2>5, <3>1
  <2>6. ASSUME t[i] = "unrow", op \in {"destroy", "push"}
        PROVE  i = l - 1
    <3>1. i + 1 = l
      BY <1>3, <2>1, <2>6
    <3> QED
      BY <1>1, <3>1
  <2> QED
    BY <2>2, <2>3, <2>4, <2>5, <2>6
<1>13. Fits(op, t)
  <2>1. Len(t) = l - 1
    BY <1>2
  <2> QED
    BY <1>12, <2>1 DEF Fits
<1> QED
  BY <1>2, <1>3, <1>6, <1>8, <1>9, <1>10, <1>11, <1>13

\* Clean-ups, and which steps are in them.
LEMMA CleanupFits ==
    ASSUME NEW op, NEW step, NEW c, c = Cleanup(op, step)
    PROVE  /\ Fits(op, c)
           /\ op \notin {"deploy", "clone", "load"} => c = <<>>
           /\ step = "register" /\ op \in {"deploy", "clone"} => ~Has(c, "unrow")
           /\ step \in {"tap", "disk", "init", "start"} /\ op = "deploy"
                 => Has(c, "unrow")
           /\ step \in {"tap", "start"} /\ op = "clone" => Has(c, "unrow")
           /\ step \in {"disk", "init", "start"} /\ op = "deploy"
                 => Has(c, "untap")
           /\ step = "start" /\ op = "clone" => Has(c, "untap")
           /\ step \in {"init", "start"} /\ op = "deploy" => Has(c, "undisk")
           /\ step \in {"register", "tap", "start"} /\ op = "clone"
                 => Has(c, "undisk")
           /\ step = "copy" /\ op = "clone" => c = <<>>
           /\ \A x \in {"copy", "register", "save"} : ~Has(c, x)
<1>1. CASE op = "deploy" /\ step = "tap"
  <2>1. c = <<"unrow">>
    BY <1>1 DEF Cleanup
  <2> QED
    BY ONLY <1>1, <2>1 DEF Fits, Has, StepsOf
<1>2. CASE op = "deploy" /\ step = "save"
  <2>1. c = <<"unrow">>
    BY <1>2 DEF Cleanup
  <2> QED
    BY ONLY <1>2, <2>1 DEF Fits, Has, StepsOf
<1>3. CASE op = "deploy" /\ step = "disk"
  <2>1. c = <<"untap", "unrow">>
    BY <1>3 DEF Cleanup
  <2> QED
    BY ONLY <1>3, <2>1 DEF Fits, Has, StepsOf
<1>4. CASE op = "deploy" /\ step \in {"init", "start"}
  <2>1. c = <<"untap", "undisk", "unrow">>
    BY <1>4 DEF Cleanup
  <2> QED
    BY ONLY <1>4, <2>1 DEF Fits, Has, StepsOf
<1>5. CASE op = "clone" /\ step = "register"
  <2>1. c = <<"undisk">>
    BY <1>5 DEF Cleanup
  <2> QED
    BY ONLY <1>5, <2>1 DEF Fits, Has, StepsOf
<1>6. CASE op = "clone" /\ step \in {"tap", "save"}
  <2>1. c = <<"unrow", "undisk">>
    BY <1>6 DEF Cleanup
  <2> QED
    BY ONLY <1>6, <2>1 DEF Fits, Has, StepsOf
<1>7. CASE op = "clone" /\ step = "start"
  <2>1. c = <<"untap", "unrow", "undisk">>
    BY <1>7 DEF Cleanup
  <2> QED
    BY ONLY <1>7, <2>1 DEF Fits, Has, StepsOf
<1>8. CASE op = "load" /\ step \in {"register", "tap"}
  <2>1. c = <<"undisk">>
    BY <1>8 DEF Cleanup
  <2>2. "undisk" \in Steps
    BY DEF Steps
  <2> QED
    BY ONLY <1>8, <2>1, <2>2 DEF Fits, Has, StepsOf
<1>9. CASE op = "load" /\ step = "start"
  <2>1. c = <<"untap">>
    BY <1>9 DEF Cleanup
  <2>2. "untap" \in Steps
    BY DEF Steps
  <2> QED
    BY ONLY <1>9, <2>1, <2>2 DEF Fits, Has, StepsOf
<1>10. CASE /\ ~(op = "deploy" /\ step \in {"tap", "save", "disk", "init", "start"})
            /\ ~(op = "clone" /\ step \in {"register", "tap", "save", "start"})
            /\ ~(op = "load" /\ step \in {"register", "tap", "start"})
  <2>1. c = <<>>
    BY <1>10 DEF Cleanup
  <2> QED
    BY <1>10, <2>1, EmptyFits, EmptyHasNothing
<1> QED
  BY <1>1, <1>2, <1>3, <1>4, <1>5, <1>6, <1>7, <1>8, <1>9, <1>10

-----------------------------------------------------------------------------
(***************************************************************************)
(* What a step of a command does to the command, to its own project and to *)
(* the others.                                                             *)
(***************************************************************************)
Takes(p, t, y) == Moves(p, t, y) /\ (t # <<>> => cmd'[p].kept = cmd[p].kept)

LEMMA EndsTake ==
    ASSUME TypeOK, NEW p \in Procs, cmd[p].todo # <<>>
    PROVE  /\ Advance(p) => Takes(p, Tail(cmd[p].todo), cmd[p].copy)
           /\ \A y \in Project : AdvanceWith(p, y) => Takes(p, Tail(cmd[p].todo), y)
           /\ \A x : Fails(p, x) => Takes(p, Cleanup(cmd[p].op, x), cmd[p].copy)
<1>1. cmd[p] \in Command /\ cmd \in [Procs -> Command]
  BY DEF TypeOK
<1>2. PICK c : c = cmd[p]
  OBVIOUS
<1>3. \A t, y : /\ [c EXCEPT !.todo = t].kept = c.kept
                /\ [c EXCEPT !.todo = t, !.copy = y].kept = c.kept
                /\ [c EXCEPT !.todo = t].todo = t
                /\ [c EXCEPT !.todo = t, !.copy = y].todo = t
  BY <1>1, <1>2 DEF Command
<1>4. ASSUME NEW t, NEW d, d.kept = c.kept, d.todo = t, t # <<>>, Continue(p, d)
      PROVE  cmd'[p].kept = cmd[p].kept
  BY <1>1, <1>2, <1>4 DEF Continue
<1>5. ASSUME Advance(p), Tail(c.todo) # <<>>
      PROVE  cmd'[p].kept = cmd[p].kept
  <2>1. PICK t : t = Tail(c.todo)
    OBVIOUS
  <2>2. Continue(p, [c EXCEPT !.todo = t])
    BY <1>2, <1>5, <2>1 DEF Advance
  <2> QED
    BY <1>3, <1>4, <1>5, <2>1, <2>2
<1>6. ASSUME NEW y, AdvanceWith(p, y), Tail(c.todo) # <<>>
      PROVE  cmd'[p].kept = cmd[p].kept
  <2>1. PICK t : t = Tail(c.todo)
    OBVIOUS
  <2>2. PICK d : d = [c EXCEPT !.todo = t, !.copy = y]
    OBVIOUS
  <2>3. Continue(p, d)
    BY <1>2, <1>6, <2>1, <2>2 DEF AdvanceWith
  <2>4. d.kept = c.kept /\ d.todo = t
    BY <1>3, <2>2
  <2> QED
    BY <1>4, <1>6, <2>1, <2>3, <2>4
<1>7. ASSUME NEW x, Fails(p, x), Cleanup(c.op, x) # <<>>
      PROVE  cmd'[p].kept = cmd[p].kept
  <2>1. PICK t : t = Cleanup(c.op, x)
    OBVIOUS
  <2>2. Continue(p, [c EXCEPT !.todo = t])
    BY <1>2, <1>7, <2>1 DEF Fails
  <2> QED
    BY <1>3, <1>4, <1>7, <2>1, <2>2
<1> QED
  BY <1>2, <1>5, <1>6, <1>7, AdvanceMoves DEF Takes

\* What is known of the steps of a command.
LEMMA FitsAt ==
    ASSUME Ownership, CommandsFit, NEW p \in Procs, NEW step, At(p, step),
           NEW t, t = Tail(cmd[p].todo)
    PROVE  /\ Fits(cmd[p].op, t) /\ t \in Seq(Steps)
           /\ step \in StepsOf(cmd[p].op) /\ ~Has(t, step) /\ ~Has(t, "copy")
           /\ Has(cmd[p].todo, step)
           /\ Has(cmd[p].todo, "tap") => step \in {"copy", "pull", "register", "tap"}
           /\ step = "unrow" /\ cmd[p].op \in {"destroy", "push"} => t = <<>>
           /\ \A x : Has(t, x) => Has(cmd[p].todo, x)
           /\ \A x : Has(cmd[p].todo, x) /\ x # step => Has(t, x)
<1>1. /\ cmd[p].todo # <<>> /\ Head(cmd[p].todo) = step
      /\ cmd[p].todo \in Seq(Steps) /\ Plan(cmd[p].op, cmd[p].todo)
  BY VMPlanAt, HeadFacts DEF Ownership, IInv, CommandsInv
<1>2. PICK s \in Seq(Steps) : s = cmd[p].todo
  BY <1>1
<1>3. Fits(cmd[p].op, s) /\ s # <<>> /\ step = Head(s) /\ t = Tail(s)
  BY <1>1, <1>2 DEF CommandsFit
<1>4. /\ Fits(cmd[p].op, t) /\ step \in StepsOf(cmd[p].op) /\ ~Has(t, step) /\ ~Has(t, "copy")
      /\ Has(s, "tap") => step \in {"copy", "pull", "register", "tap"}
      /\ step = "unrow" /\ cmd[p].op \in {"destroy", "push"} => t = <<>>
  BY <1>3, TailFits
<1>5. /\ Has(s, step)
      /\ \A x : Has(t, x) => Has(s, x)
      /\ \A x : Has(s, x) /\ x # step => Has(t, x)
  <2>1. PICK op : op = cmd[p].op
    OBVIOUS
  <2>2. Plan(op, s) /\ s # <<>>
    BY <1>1, <1>2, <2>1
  <2>3. /\ Has(s, Head(s))
        /\ \A x : Has(Tail(s), x) => Has(s, x)
        /\ \A x : Has(s, x) /\ x # Head(s) => Has(Tail(s), x)
    BY ONLY <2>2, TailOfPlan
  <2> QED
    BY <1>3, <2>3
<1>6. t \in Seq(Steps)
  <2>1. s # <<>> /\ Tail(s) = t
    BY <1>3
  <2>2. Tail(s) \in Seq(Steps)
    BY ONLY s \in Seq(Steps), <2>1
  <2> QED
    BY <2>1, <2>2
<1> QED
  BY <1>2, <1>4, <1>5, <1>6

LEMMA RestFits ==
    ASSUME Ownership, CommandsFit, NEW p \in Procs, NEW step, At(p, step)
    PROVE  Fits(cmd[p].op, Tail(cmd[p].todo))
BY FitsAt

LEMMA UnrowIsLast ==
    ASSUME Ownership, CommandsFit, NEW p \in Procs, At(p, "unrow"),
           cmd[p].op \in {"destroy", "push"}
    PROVE  Tail(cmd[p].todo) = <<>>
<1>1. /\ cmd[p].todo # <<>> /\ Head(cmd[p].todo) = "unrow" /\ cmd[p].todo \in Seq(Steps)
  BY VMPlanAt DEF Ownership
<1>2. PICK s, op : s \in Seq(Steps) /\ s = cmd[p].todo /\ op = cmd[p].op
  BY <1>1
<1>3. Fits(op, s) /\ s # <<>> /\ op \in {"destroy", "push"}
  BY <1>1, <1>2 DEF CommandsFit
<1>4. PICK h, t : h = Head(s) /\ t = Tail(s)
  OBVIOUS
<1>5. h = "unrow"
  BY <1>1, <1>2, <1>4
<1>6. t = <<>>
  <2>1. s \in Seq(Steps)
    BY <1>2
  <2> QED
    BY <1>3, <1>4, <1>5, <2>1, TailFits
<1> QED
  BY <1>2, <1>4, <1>6

\* destroy skips the bridge when TAPs remain on it, and goes on to its row.
LEMMA CountTakes ==
    ASSUME Ownership, CommandsFit, NEW p \in Procs, At(p, "count"),
           Continue(p, [cmd[p] EXCEPT !.todo = Tail(Tail(@))]),
           NEW t, t = Tail(Tail(cmd[p].todo))
    PROVE  /\ Takes(p, t, cmd[p].copy) /\ Fits(cmd[p].op, t)
           /\ \A x : Has(t, x) => Has(cmd[p].todo, x)
           /\ cmd[p].op = "destroy" /\ Has(cmd[p].todo, "unrow") => Has(t, "unrow")
<1>0. IInv /\ TypeOK /\ Plans /\ CopiesUpToDate
  BY DEF Ownership, IInv, CommandsInv
<1>1. /\ cmd[p].todo # <<>> /\ Head(cmd[p].todo) = "count" /\ cmd[p].copy \in Project
      /\ cmd[p].todo \in Seq(Steps) /\ Plan(cmd[p].op, cmd[p].todo)
  BY <1>0, VMPlanAt, HeadFacts
<1>2. PICK s \in Seq(Steps) : s = cmd[p].todo
  BY <1>1
<1>3. PICK u \in Seq(Steps) : u = Tail(s)
  <2>1. s # <<>>
    BY <1>1, <1>2
  <2>2. Tail(s) \in Seq(Steps)
    BY ONLY s \in Seq(Steps), <2>1
  <2> QED
    BY <2>2
<1>4. /\ Fits(cmd[p].op, u) /\ \A x : Has(u, x) => Has(s, x)
      /\ \A x : Has(s, x) /\ x # "count" => Has(u, x)
  <2>1. u = Tail(cmd[p].todo)
    BY <1>2, <1>3
  <2>2. Fits(cmd[p].op, Tail(cmd[p].todo))
    BY ONLY Ownership, CommandsFit, p \in Procs, At(p, "count"), RestFits
  <2>3. /\ \A x : Has(u, x) => Has(s, x)
        /\ \A x : Has(s, x) /\ x # "count" => Has(u, x)
    BY <1>1, <1>2, <1>3, TailOfPlan
  <2> QED
    BY <2>1, <2>2, <2>3
<1>5. Len(s) > 2 /\ Len(s) \in Nat
  <2>1. 1 \in 1 .. Len(s) /\ s[1] = "count" /\ Len(s) \in Nat
    BY <1>1, <1>2
  <2> QED
    BY <1>1, <1>2, <2>1 DEF Plan
<1>6. Len(u) = Len(s) - 1
  BY <1>1, <1>2, <1>3
<1>7. u # <<>> /\ Plan(cmd[p].op, u)
  BY <1>1, <1>2, <1>3, TailOfPlan
<1>8. t = Tail(u)
  BY <1>2, <1>3
<1>9. t # <<>> /\ t \in Seq(Steps)
  <2>1. Len(u) > 1
    BY <1>5, <1>6
  <2> QED
    BY ONLY <1>3, <1>8, <2>1
<1>10. PICK h : h = Head(u)
  OBVIOUS
<1>11. Fits(cmd[p].op, t) /\ (h = "unrow" /\ cmd[p].op \in {"destroy", "push"} => t = <<>>)
  BY <1>4, <1>7, <1>8, <1>10, TailFits
<1>12. /\ \A x : Has(t, x) => Has(u, x)
       /\ \A x : Has(u, x) /\ x # h => Has(t, x)
  BY <1>7, <1>8, <1>10, TailOfPlan
<1>13. Moves(p, t, cmd[p].copy)
  BY <1>0, <1>1, <1>9, ContinueMoves
<1>14. cmd'[p].kept = cmd[p].kept
  <2>1. PICK c : c = cmd[p] /\ c \in Command
    BY <1>0 DEF TypeOK
  <2>2. PICK d : d = [c EXCEPT !.todo = Tail(Tail(@))]
    OBVIOUS
  <2>3. d.todo = t /\ d.kept = c.kept
    BY <2>1, <2>2 DEF Command
  <2>4. cmd'[p] = d
    BY <1>0, <1>9, <2>1, <2>2, <2>3 DEF Continue, TypeOK
  <2> QED
    BY <2>1, <2>3, <2>4
<1> QED
  BY <1>2, <1>4, <1>9, <1>11, <1>12, <1>13, <1>14 DEF Takes

\* Register finds the name taken or inserts a row that is being created.
LEMMA RegisterOutcome ==
    ASSUME Ownership, NEW p \in Procs, Register(p), NEW n, n = cmd[p].name
    PROVE  /\ \A m \in Names \ {n} : rows'[m] = rows[m]
           /\ UNCHANGED <<vms, taps, disks>>
           /\ \E t, y :
                 /\ Takes(p, t, y)
                 /\ \/ /\ t = Cleanup(cmd[p].op, "register") /\ y = cmd[p].copy /\ rows' = rows
                       /\ Present(rows, n) \/ MayFailAt(p, "register")
                    \/ /\ t = Tail(cmd[p].todo) /\ ~Present(rows, n)
                       /\ rows'[n].rowid = y.net /\ y.net # 0 /\ rows'[n].status = "creating"
                       /\ rows'[n].pid = 0 /\ y.pid = 0
<1> DEFINE New(r) == [NoProject EXCEPT !.rowid = r, !.gen = 1, !.status = "creating"]
           WithIndex(row, r) == [row EXCEPT !.net = r]
           Made(y) == /\ \A m \in Names \ {n} : rows'[m] = rows[m]
                      /\ Takes(p, Tail(cmd[p].todo), y)
                      /\ rows'[n].rowid = y.net /\ y.net # 0 /\ rows'[n].status = "creating"
                      /\ rows'[n].pid = 0 /\ y.pid = 0
           Inserts(row) == rows' = [rows EXCEPT ![n] = row]
<1>0. /\ IInv /\ TypeOK /\ At(p, "register") /\ CopiesUpToDate
      /\ rows \in [Names -> Project]
      /\ UNCHANGED <<vms, taps, disks>>
  BY DEF Ownership, Register, IInv, TypeOK, network, storage
<1>1. n \in Names /\ cmd[p].todo # <<>>
  BY <1>0, VMPlanAt
<1>2. CASE rows' = rows /\ Fails(p, "register") /\ (Present(rows, n) \/ MayFailAt(p, "register"))
  <2>1. Takes(p, Cleanup(cmd[p].op, "register"), cmd[p].copy)
    BY <1>0, <1>1, <1>2, EndsTake
  <2> QED
    BY <1>0, <1>2, <2>1
<1>3. ASSUME NEW r \in NextRowid(rows), ~Present(rows, n),
             NEW row, row = New(r), NEW y, y = WithIndex(row, r),
             Inserts(row), AdvanceWith(p, y)
      PROVE  Made(y)
  <2>1. r \in Nat \ {0}
    BY <1>0, NextRowidIsNew
  <2>2. row = [rowid |-> r, gen |-> 1, status |-> "creating", net |-> 0, pid |-> 0,
               sock |-> FALSE]
    BY <1>3 DEF NoProject
  <2>3. row \in Project
    BY <2>1, <2>2 DEF Project, Statuses
  <2>4. y \in Project /\ y.net = r /\ y.pid = row.pid
    BY <1>3, <2>1, <2>3 DEF Project
  <2>5. row.rowid = r /\ row.status = "creating" /\ row.pid = 0
    BY <2>2
  <2>6. rows'[n] = row /\ \A m \in Names \ {n} : rows'[m] = rows[m]
    BY <1>0, <1>1, <1>3
  <2>7. Takes(p, Tail(cmd[p].todo), y)
    BY <1>0, <1>1, <1>3, <2>4, EndsTake
  <2> QED
    BY <2>1, <2>4, <2>5, <2>6, <2>7
<1>4. CASE \E r \in NextRowid(rows) :
              LET row == [NoProject EXCEPT !.rowid = r, !.gen = 1, !.status = "creating"]
              IN /\ ~Present(rows, n)
                 /\ rows' = [rows EXCEPT ![n] = row]
                 /\ AdvanceWith(p, [row EXCEPT !.net = r])
  <2>0. PICK r \in NextRowid(rows) :
           LET row == [NoProject EXCEPT !.rowid = r, !.gen = 1, !.status = "creating"]
           IN /\ ~Present(rows, n)
              /\ rows' = [rows EXCEPT ![n] = row]
              /\ AdvanceWith(p, [row EXCEPT !.net = r])
    BY <1>4
  <2>1. PICK row, y :
           /\ ~Present(rows, n)
           /\ row = New(r) /\ y = WithIndex(row, r)
           /\ Inserts(row) /\ AdvanceWith(p, y)
    BY <2>0
  <2>2. Made(y)
    <3> HIDE DEF New, WithIndex, Made, Inserts
    <3> QED
      BY <1>3, <2>1
  <2> QED
    BY <1>0, <2>1, <2>2
<1> QED
  BY <1>2, <1>4 DEF Register

\* Save is never refused to a command that works on a project alone.
LEMMA SaveOutcome ==
    ASSUME Ownership, StartedAreSaved, NEW p \in Procs, Save(p), NEW n, n = cmd[p].name
    PROVE  /\ \A m \in Names \ {n} : rows'[m] = rows[m]
           /\ UNCHANGED <<vms, taps, disks>>
           /\ cmd[p].op \in Starters \cup {"freeze", "route"}
           /\ Takes(p, <<>>, cmd[p].copy)
           /\ \/ rows' = rows /\ cmd[p].op \in {"freeze", "route"} /\ MayFailAt(p, "save")
              \/ /\ rows'[n].status = StatusAfter(cmd[p].op, cmd[p].copy.status)
                 /\ rows'[n].pid = cmd[p].copy.pid /\ rows'[n].rowid = rows[n].rowid
<1> DEFINE s == cmd[p].todo
           c == cmd[p].copy
           op == cmd[p].op
           new == [c EXCEPT !.status = StatusAfter(op, @)]
           row == [new EXCEPT !.rowid = rows[n].rowid, !.gen = NextGen(rows[n], new)]
<1>0. /\ IInv /\ CopiesUpToDate /\ TypeOK /\ Plans /\ At(p, "save")
      /\ rows \in [Names -> Project]
      /\ UNCHANGED <<vms, taps, disks>>
  BY DEF Ownership, Save, IInv, TypeOK, CommandsInv, network, storage
<1>1. /\ s # <<>> /\ Head(s) = "save" /\ n \in Names /\ c \in Project
      /\ ~Has(s, "register") /\ op \in Starters \cup {"freeze", "route"}
      /\ UpToDate(op, s, c, rows[n])
  BY <1>0, VMPlanAt
<1>2. Has(s, "save") /\ Plan(op, s)
  BY <1>0, HeadFacts
<1>3. c.gen = rows[n].gen
  BY <1>1, <1>2 DEF UpToDate
<1>4. rows[n].rowid # 0
  BY <1>0, <1>1, <1>2 DEF IInv, CommandsInv, Copies, Consistent
<1>5. ~Stale(rows[n], c)
  <2>1. rows[n].gen \in Nat
    BY <1>0, <1>1 DEF Project
  <2> QED
    BY <1>3, <2>1 DEF Stale
<1>6. CASE rows' = [rows EXCEPT ![n] = row] /\ Advance(p)
  <2>1. Tail(s) = <<>>
    BY <1>1, <1>2, TailOfPlan
  <2>2. Takes(p, <<>>, c)
    <3>1. Takes(p, Tail(s), c)
      BY <1>0, <1>1, <1>6, EndsTake
    <3> QED
      BY <2>1, <3>1
  <2>3. /\ new.pid = c.pid /\ new.status = StatusAfter(op, c.status)
        /\ new = [rowid |-> new.rowid, gen |-> new.gen, status |-> new.status,
                  net |-> new.net, pid |-> new.pid, sock |-> new.sock]
    <3> HIDE DEF c, op
    <3> QED
      BY <1>1 DEF Project
  <2> HIDE DEF new
  <2>4. row.pid = c.pid /\ row.status = StatusAfter(op, c.status) /\ row.rowid = rows[n].rowid
    BY <2>3
  <2>5. rows'[n] = row /\ \A m \in Names \ {n} : rows'[m] = rows[m]
    BY <1>0, <1>1, <1>6
  <2> HIDE DEF row
  <2> QED
    BY <1>0, <1>1, <2>2, <2>4, <2>5
<1>7. CASE rows' = rows /\ Fails(p, "save") /\ MayFailAt(p, "save")
  <2>1. op \in {"freeze", "route"}
    BY <1>1, <1>7 DEF StartedAreSaved, MayFailAt
  <2>2. Cleanup(op, "save") = <<>>
    BY <2>1 DEF Cleanup
  <2>3. Takes(p, <<>>, c)
    <3>1. Takes(p, Cleanup(op, "save"), c)
      BY <1>0, <1>1, <1>7, EndsTake
    <3> QED
      BY <2>2, <3>1
  <2> QED
    BY <1>0, <1>1, <1>7, <2>1, <2>3
<1> QED
  BY <1>4, <1>5, <1>6, <1>7 DEF Save, Present

LEMMA UnrowOutcome ==
    ASSUME Ownership, NEW p \in Procs, Unrow(p), NEW n, n = cmd[p].name
    PROVE  /\ \A m \in Names \ {n} : rows'[m] = rows[m]
           /\ UNCHANGED <<vms, taps, disks>>
           /\ Takes(p, Tail(cmd[p].todo), cmd[p].copy)
           /\ \/ rows'[n] = NoProject
              \/ rows' = rows /\ MayFailAt(p, "unrow")
<1>0. /\ IInv /\ TypeOK /\ At(p, "unrow") /\ CopiesUpToDate /\ Advance(p)
      /\ rows \in [Names -> Project]
      /\ UNCHANGED <<vms, taps, disks>>
  BY DEF Ownership, Unrow, IInv, TypeOK, network, storage
<1>1. n \in Names /\ cmd[p].todo # <<>>
  BY <1>0, VMPlanAt
<1>2. Takes(p, Tail(cmd[p].todo), cmd[p].copy)
  BY <1>0, <1>1, EndsTake
<1> QED
  BY <1>0, <1>1, <1>2 DEF Unrow

\* A start makes a VM with a new PID or fails.
LEMMA StartOutcome ==
    ASSUME Ownership, NEW p \in Procs, Start(p), NEW n, n = cmd[p].name
    PROVE  /\ UNCHANGED <<rows, taps>> /\ At(p, "start")
           /\ \/ /\ ~CanStart(p) \/ MayFailAt(p, "start")
                 /\ UNCHANGED <<vms, disks>>
                 /\ Takes(p, Cleanup(cmd[p].op, "start"), cmd[p].copy)
              \/ /\ CanStart(p)
                 /\ disks' = [disks EXCEPT ![n] = n]
                 /\ \E k \in FreshPid : \E v, y :
                       /\ vms' = vms \cup {v}
                       /\ v.pid = k /\ v.name = n /\ v.net = cmd[p].copy.net
                       /\ y.pid = k /\ y.net = cmd[p].copy.net
                       /\ Takes(p, <<"save">>, y)
<1> DEFINE s == cmd[p].todo
           c == cmd[p].copy
           Vm(k) == [pid |-> k, name |-> n, net |-> c.net, link |-> TRUE, disk |-> TRUE,
                     boot |-> BootOf(p)]
           Filled(k) == [c EXCEPT !.pid = k, !.sock = TRUE]
<1>0. /\ IInv /\ CopiesUpToDate /\ TypeOK /\ At(p, "start") /\ UNCHANGED <<rows, taps>>
  BY DEF Ownership, Start, IInv, network
<1>1. n \in Names /\ c \in Project /\ s # <<>> /\ Tail(s) = <<"save">>
  BY <1>0, VMPlanAt
<1>2. CASE /\ ~CanStart(p) \/ MayFailAt(p, "start")
           /\ Fails(p, "start") /\ UNCHANGED <<vms, disks>>
  BY <1>0, <1>1, <1>2, EndsTake
<1>3. ASSUME NEW k \in FreshPid,
             NEW v, v = Vm(k), NEW y, y = Filled(k),
             AdvanceWith(p, y)
      PROVE  /\ v.pid = k /\ v.name = n /\ v.net = c.net /\ y.pid = k /\ y.net = c.net
             /\ Takes(p, <<"save">>, y)
  <2>1. k \in Nat
    BY DEF FreshPid
  <2>2. y \in Project /\ y.pid = k /\ y.net = c.net
    <3> HIDE DEF c
    <3> QED
      BY <1>1, <1>3, <2>1 DEF Project
  <2>3. v.pid = k /\ v.name = n /\ v.net = c.net
    BY <1>3
  <2>4. Takes(p, Tail(s), y)
    BY <1>0, <1>1, <1>3, <2>2, EndsTake
  <2> QED
    BY <1>1, <2>2, <2>3, <2>4
<1>4. CASE /\ CanStart(p)
           /\ \E k \in FreshPid :
                 /\ vms' = vms \cup {[pid |-> k, name |-> n, net |-> c.net,
                                      link |-> TRUE, disk |-> TRUE, boot |-> BootOf(p)]}
                 /\ AdvanceWith(p, [c EXCEPT !.pid = k, !.sock = TRUE])
           /\ disks' = [disks EXCEPT ![n] = n]
  <2>0. PICK k \in FreshPid :
           /\ vms' = vms \cup {[pid |-> k, name |-> n, net |-> c.net,
                                link |-> TRUE, disk |-> TRUE, boot |-> BootOf(p)]}
           /\ AdvanceWith(p, [c EXCEPT !.pid = k, !.sock = TRUE])
    BY <1>4
  <2>1. PICK v, y :
           /\ v = Vm(k) /\ y = Filled(k)
           /\ vms' = vms \cup {v} /\ AdvanceWith(p, y)
    BY <2>0
  <2>2. /\ v.pid = k /\ v.name = n /\ v.net = c.net /\ y.pid = k /\ y.net = c.net
        /\ Takes(p, <<"save">>, y)
    <3> HIDE DEF c, Vm, Filled
    <3> QED
      BY <1>3, <2>1
  <2> QED
    BY <1>0, <1>4, <2>1, <2>2
<1> QED
  BY <1>2, <1>4 DEF Start

LEMMA KillOutcome ==
    ASSUME Ownership, NEW p \in Procs, Kill(p)
    PROVE  /\ UNCHANGED <<rows, taps, disks>> /\ At(p, "kill")
           /\ vms' = {v \in vms : v.pid # cmd[p].copy.pid}
           /\ \E y : /\ y.pid = 0 /\ y.net = cmd[p].copy.net
                     /\ Takes(p, Tail(cmd[p].todo), y)
<1>0. /\ IInv /\ CopiesUpToDate /\ TypeOK /\ At(p, "kill") /\ UNCHANGED <<rows, taps, disks>>
      /\ vms' = {v \in vms : v.pid # cmd[p].copy.pid}
  BY DEF Ownership, Kill, IInv, network, storage
<1>1. cmd[p].todo # <<>> /\ cmd[p].copy \in Project
  BY <1>0, VMPlanAt
<1>2. PICK y : /\ y = [cmd[p].copy EXCEPT !.pid = 0]
               /\ AdvanceWith(p, y)
  BY DEF Kill
<1>3. y \in Project /\ y.net = cmd[p].copy.net /\ y.pid = 0
  BY <1>1, <1>2 DEF Project
<1>4. Takes(p, Tail(cmd[p].todo), y)
  BY <1>0, <1>1, <1>2, <1>3, EndsTake
<1> QED
  BY <1>0, <1>3, <1>4

LEMMA StepTakes ==
    ASSUME Ownership, CommandsFit, StartedAreSaved, NEW p \in Procs, Step(p)
    PROVE  /\ cmd[p].todo # <<>> /\ cmd[p].name \in Names
           /\ \E t, y : /\ Takes(p, t, y) /\ Fits(cmd[p].op, t)
                        /\ y.pid \in {cmd[p].copy.pid, 0} \cup FreshPid
<1> DEFINE Goal == \E t, y : /\ Takes(p, t, y) /\ Fits(cmd[p].op, t)
                            /\ y.pid \in {cmd[p].copy.pid, 0} \cup FreshPid
<1>0. IInv /\ TypeOK /\ CopiesUpToDate
  BY DEF Ownership, IInv
<1>1. ASSUME NEW step, At(p, step)
      PROVE  cmd[p].todo # <<>> /\ cmd[p].name \in Names
  BY <1>0, <1>1, VMPlanAt
<1>2. ASSUME NEW step, At(p, step)
      PROVE  Fits(cmd[p].op, Tail(cmd[p].todo)) /\ Fits(cmd[p].op, Cleanup(cmd[p].op, step))
  <2>1. Fits(cmd[p].op, Tail(cmd[p].todo))
    BY <1>2, FitsAt
  <2>2. Fits(cmd[p].op, Cleanup(cmd[p].op, step))
    BY CleanupFits
  <2> QED
    BY <2>1, <2>2
<1>3. ASSUME NEW step, At(p, step), Advance(p) \/ Fails(p, step)
      PROVE  Goal
  <2>1. cmd[p].todo # <<>>
    BY <1>1, <1>3
  <2>2. CASE Advance(p)
    BY <1>0, <1>2, <1>3, <2>1, <2>2, EndsTake
  <2>3. CASE Fails(p, step)
    BY <1>0, <1>2, <1>3, <2>1, <2>3, EndsTake
  <2> QED
    BY <1>3, <2>2, <2>3
<1>4. SUFFICES (\E step : At(p, step)) /\ Goal
  BY <1>1
<1> HIDE DEF Goal
<1>5. CASE Register(p)
  <2>1. At(p, "register")
    BY <1>5 DEF Register
  <2>2. PICK t, y :
           /\ Takes(p, t, y)
           /\ \/ t = Cleanup(cmd[p].op, "register") /\ y = cmd[p].copy
              \/ t = Tail(cmd[p].todo) /\ y.pid = 0
    BY <1>5, RegisterOutcome
  <2>3. Fits(cmd[p].op, t)
    BY <1>2, <2>1, <2>2
  <2> QED
    BY <2>1, <2>2, <2>3 DEF Goal
<1>6. CASE Save(p)
  <2>1. At(p, "save")
    BY <1>6 DEF Save
  <2>2. Takes(p, <<>>, cmd[p].copy)
    BY <1>6, SaveOutcome
  <2> QED
    BY <2>1, <2>2, EmptyFits DEF Goal
<1>7. CASE Unrow(p)
  BY <1>3, <1>7 DEF Unrow
<1>8. CASE Tap(p) \/ Ensure(p) \/ Untap(p) \/ Unbridge(p)
  BY <1>3, <1>8 DEF Tap, Ensure, Untap, Unbridge
<1>9. CASE Count(p)
  <2>1. At(p, "count")
    BY <1>9 DEF Count
  <2>2. CASE Advance(p)
    BY <1>3, <2>1, <2>2
  <2>3. CASE Continue(p, [cmd[p] EXCEPT !.todo = Tail(Tail(@))])
    BY <2>1, <2>3, CountTakes DEF Goal
  <2> QED
    BY <1>9, <2>1, <2>2, <2>3 DEF Count
<1>10. CASE MakeDisk(p) \/ PrepareDisk(p) \/ CopyDisk(p)
  BY <1>3, <1>10 DEF MakeDisk, PrepareDisk, CopyDisk
<1>11. CASE Pull(p) \/ Undisk(p) \/ Upload(p) \/ Snapshot(p)
  BY <1>3, <1>11 DEF Pull, Undisk, Upload, Snapshot
<1>12. CASE Start(p)
  <2>1. /\ At(p, "start")
        /\ \/ Takes(p, Cleanup(cmd[p].op, "start"), cmd[p].copy)
           \/ \E y : y.pid \in FreshPid /\ Takes(p, <<"save">>, y)
    BY <1>12, StartOutcome
  <2>2. Tail(cmd[p].todo) = <<"save">>
    BY <1>0, <2>1, VMPlanAt
  <2> QED
    BY <1>2, <2>1, <2>2 DEF Goal
<1>13. CASE Kill(p)
  <2>1. At(p, "kill") /\ \E y : y.pid = 0 /\ Takes(p, Tail(cmd[p].todo), y)
    BY <1>13, KillOutcome
  <2> QED
    BY <1>2, <2>1 DEF Goal
<1> QED
  BY <1>5, <1>6, <1>7, <1>8, <1>9, <1>10, <1>11, <1>12, <1>13
  DEF Step, StepOnStore, StepOnNetwork, StepOnDisk, StepOnVM

\* A step leaves the other projects alone.
Elsewhere(n) ==
    /\ \A m \in Names \ {n} : rows'[m] = rows[m] /\ disks'[m] = disks[m]
    /\ \A v : v.name # n => (v \in vms' <=> v \in vms)
    /\ \A m \in Names \ {n} :
          Present(rows, m) => (rows[m].rowid \in taps' <=> rows[m].rowid \in taps)

LEMMA StepIsLocal ==
    ASSUME Ownership, PidsAreOwn, StartedAreSaved, NEW p \in Procs, Step(p)
    PROVE  Elsewhere(cmd[p].name)
<1> DEFINE n == cmd[p].name
<1>0. /\ IInv /\ TypeOK /\ CopiesUpToDate /\ disks \in [Names -> Disk]
  BY DEF Ownership, IInv, TypeOK
<1>1. ASSUME NEW step, At(p, step), step \in {"tap", "ensure", "untap"},
             taps' \in {taps, taps \cup {cmd[p].copy.net}, taps \ {cmd[p].copy.net}}
      PROVE  \A m \in Names \ {n} :
                Present(rows, m) => (rows[m].rowid \in taps' <=> rows[m].rowid \in taps)
  <2>1. cmd[p].copy.net = rows[n].rowid /\ n \in Names
    BY <1>0, <1>1, IndexAt, VMPlanAt
  <2>2. \A m \in Names \ {n} : Present(rows, m) => rows[m].rowid # cmd[p].copy.net
    BY <1>0, <2>1 DEF IInv, RowsKeepIndex, Present
  <2> QED
    BY <1>1, <2>2
<1>2. CASE Register(p)
  BY <1>2, RegisterOutcome DEF Elsewhere
<1>3. CASE Save(p)
  BY <1>3, SaveOutcome DEF Elsewhere
<1>4. CASE Unrow(p)
  BY <1>4, UnrowOutcome DEF Elsewhere
<1>5. CASE StepOnNetwork(p)
  <2>1. rows' = rows /\ disks' = disks
    BY <1>5 DEF StepOnNetwork, Tap, Ensure, Untap, Count, Unbridge, storage
  <2>2. vms' = vms
    BY <1>5, NothingIsTaken
  <2>3. \A m \in Names \ {n} :
           Present(rows, m) => (rows[m].rowid \in taps' <=> rows[m].rowid \in taps)
    <3>1. CASE Tap(p)
      BY <1>1, <3>1 DEF Tap, DestroyTAP, DeleteTap
    <3>2. CASE Ensure(p)
      BY <1>1, <3>2 DEF Ensure
    <3>3. CASE Untap(p)
      BY <1>1, <3>3 DEF Untap, DestroyTAP, DeleteTap
    <3>4. CASE Count(p) \/ Unbridge(p)
      BY <3>4 DEF Count, Unbridge, network
    <3> QED
      BY <1>5, <3>1, <3>2, <3>3, <3>4 DEF StepOnNetwork
  <2> QED
    BY <2>1, <2>2, <2>3 DEF Elsewhere
<1>6. CASE StepOnDisk(p)
  <2>1. rows' = rows /\ taps' = taps
    BY <1>6 DEF StepOnDisk, MakeDisk, PrepareDisk, CopyDisk, Pull, Undisk, Upload, network
  <2>2. vms' = vms
    BY <1>6, NothingIsTaken
  <2>3. \A m \in Names \ {n} : disks'[m] = disks[m]
    <3>1. CASE MakeDisk(p)
      BY <1>0, <3>1 DEF MakeDisk
    <3>2. CASE PrepareDisk(p) \/ Upload(p)
      BY <3>2 DEF PrepareDisk, Upload, storage
    <3>3. CASE CopyDisk(p)
      BY <1>0, <3>3 DEF CopyDisk
    <3>4. CASE Pull(p) \/ Undisk(p)
      BY <1>0, <3>4 DEF Pull, Undisk
    <3> QED
      BY <1>6, <3>1, <3>2, <3>3, <3>4 DEF StepOnDisk
  <2> QED
    BY <2>1, <2>2, <2>3 DEF Elsewhere
<1>7. CASE Start(p)
  <2>1. rows' = rows /\ taps' = taps /\ \A m \in Names \ {n} : disks'[m] = disks[m]
    BY <1>0, <1>7, StartOutcome
  <2>2. vms' = vms \/ \E v : v.name = n /\ vms' = vms \cup {v}
    BY <1>7, StartOutcome
  <2> QED
    BY <2>1, <2>2 DEF Elsewhere
<1>8. CASE Kill(p)
  <2>1. /\ rows' = rows /\ taps' = taps /\ disks' = disks
        /\ vms' = {v \in vms : v.pid # cmd[p].copy.pid}
    BY <1>8, KillOutcome
  <2>2. \A v \in vms : v.name # n => v.pid # cmd[p].copy.pid
    BY DEF PidsAreOwn
  <2> QED
    BY <2>1, <2>2 DEF Elsewhere
<1>9. CASE Snapshot(p)
  BY <1>9 DEF Snapshot, network, Elsewhere
<1> QED
  BY <1>2, <1>3, <1>4, <1>5, <1>6, <1>7, <1>8, <1>9 DEF Step, StepOnStore, StepOnVM

LEMMA FreshIsNew ==
    ASSUME NEW k \in FreshPid
    PROVE  /\ \A v \in vms : v.pid # k
           /\ \A n \in Names : rows[n].pid # k
           /\ \A p \in Procs : cmd[p].copy.pid # k
BY DEF FreshPid, Pids

LEMMA StepKeepsPids ==
    ASSUME Ownership, CommandsFit, PidsAreOwn, StartedAreSaved, NEW p \in Procs, Step(p)
    PROVE  CommandsFit' /\ PidsAreOwn'
<1> DEFINE n == cmd[p].name
<1>1. PICK t, y : /\ Takes(p, t, y) /\ Fits(cmd[p].op, t)
                  /\ y.pid \in {cmd[p].copy.pid, 0} \cup FreshPid
  BY StepTakes
<1>2. cmd[p].todo # <<>> /\ n \in Names
  BY StepTakes
<1>3. /\ \A q \in Procs \ {p} : cmd'[q] = cmd[q]
      /\ \/ cmd'[p] = Idle
         \/ /\ cmd'[p].name = n /\ cmd'[p].op = cmd[p].op /\ cmd'[p].todo = t
            /\ cmd'[p].copy = y
  BY <1>1 DEF Takes, Moves
<1>4. CommandsFit'
  <2>1. Idle.todo = <<>>
    BY DEF Idle
  <2> QED
    BY <1>1, <1>3, <2>1, EmptyFits DEF CommandsFit
<1>5. Elsewhere(n)
  BY StepIsLocal
<1>6. /\ rows'[n].pid \in {rows[n].pid, 0, cmd[p].copy.pid}
      /\ \A v \in vms' : v \in vms \/ Start(p)
  <2>1. CASE Register(p)
    BY <2>1, RegisterOutcome
  <2>2. CASE Save(p)
    BY <2>2, SaveOutcome
  <2>3. CASE Unrow(p)
    <3>1. NoProject.pid = 0
      BY DEF NoProject
    <3> QED
      BY <2>3, <3>1, UnrowOutcome
  <2>4. CASE StepOnNetwork(p) \/ StepOnDisk(p)
    <3>1. rows' = rows
      BY <2>4, HostStepGoesOn DEF Ownership, IInv, CommandsInv
    <3> QED
      BY <2>4, <3>1, NothingIsTaken
  <2>5. CASE Start(p)
    BY <2>5, StartOutcome
  <2>6. CASE Kill(p)
    BY <2>6, KillOutcome
  <2>7. CASE Snapshot(p)
    BY <2>7 DEF Snapshot
  <2> QED
    BY <2>1, <2>2, <2>3, <2>4, <2>5, <2>6, <2>7 DEF Step, StepOnStore, StepOnVM
<1>7. ASSUME NEW v \in vms
      PROVE  /\ \A m \in Names : rows'[m].pid = v.pid => m = v.name
             /\ \A q \in Procs : cmd'[q].copy.pid = v.pid => cmd'[q].name = v.name
  <2>1. v.pid # 0
    BY DEF Ownership, VMsAreOwned, Owned
  <2>2. ASSUME NEW m \in Names, rows'[m].pid = v.pid
        PROVE  m = v.name
    BY <1>5, <1>6, <2>1, <2>2 DEF PidsAreOwn, Elsewhere
  <2>3. ASSUME NEW q \in Procs, cmd'[q].copy.pid = v.pid
        PROVE  cmd'[q].name = v.name
    <3>1. Idle.copy.pid = 0
      BY DEF Idle, NoProject
    <3>2. \A k \in FreshPid : v.pid # k
      BY FreshIsNew
    <3> QED
      BY <1>1, <1>3, <2>1, <2>3, <3>1, <3>2 DEF PidsAreOwn
  <2> QED
    BY <2>2, <2>3
<1>8. ASSUME Start(p), NEW v \in vms', v \notin vms
      PROVE  /\ \A m \in Names : rows'[m].pid = v.pid => m = v.name
             /\ \A q \in Procs : cmd'[q].copy.pid = v.pid => cmd'[q].name = v.name
  <2>1. v.pid \in FreshPid /\ v.name = n /\ rows' = rows
    BY <1>8, StartOutcome
  <2>2. v.pid # 0
    BY <2>1 DEF FreshPid
  <2>3. Idle.copy.pid = 0
    BY DEF Idle, NoProject
  <2> QED
    BY <1>3, <2>1, <2>2, <2>3, FreshIsNew
<1> QED
  BY <1>4, <1>6, <1>7, <1>8 DEF PidsAreOwn

LEMMA StepKeepsTaps ==
    ASSUME Ownership, PidsAreOwn, VMsHaveTheirs, StartedAreSaved,
           NEW p \in Procs, Step(p)
    PROVE  VMsHaveTheirs'
<1> DEFINE n == cmd[p].name
<1>0. /\ IInv /\ TypeOK /\ CopiesUpToDate /\ disks \in [Names -> Disk] /\ n \in Names
  <2>1. \E step : At(p, step)
    BY DEF Step, StepOnStore, StepOnNetwork, StepOnDisk, StepOnVM, Register, Save, Unrow,
           Tap, Ensure, Untap, Count, Unbridge, MakeDisk, PrepareDisk, CopyDisk, Pull,
           Undisk, Upload, Start, Kill, Snapshot
  <2> QED
    BY <2>1, VMPlanAt DEF Ownership, IInv, TypeOK
<1>1. Elsewhere(n)
  BY StepIsLocal
<1>2. ASSUME NEW v \in vms', v.name # n
      PROVE  v.net \in taps' /\ disks'[v.name] = v.name
  <2>1. v \in vms
    BY <1>1, <1>2 DEF Elsewhere
  <2>2. v.name \in Names /\ v.net = rows[v.name].rowid /\ Present(rows, v.name)
    BY <1>0, <2>1 DEF Ownership, VMsAreOwned, Owned, TypeOK, VM
  <2> QED
    BY <1>1, <1>2, <2>1, <2>2 DEF VMsHaveTheirs, Elsewhere
<1>3. ASSUME NEW step, At(p, step), step \notin {"kill", "snapshot", "save"}, vms' = vms,
             NEW v \in vms', v.name = n
      PROVE  FALSE
  BY <1>3, NoVMAt
<1>4. ASSUME NEW v \in vms', v.name = n
      PROVE  v.net \in taps' /\ disks'[v.name] = v.name
  <2>1. CASE Register(p) \/ Unrow(p)
    BY <1>3, <1>4, <2>1 DEF Register, Unrow
  <2>2. CASE Save(p) \/ Snapshot(p)
    BY <1>4, <2>2 DEF Save, Snapshot, network, storage, VMsHaveTheirs
  <2>3. CASE StepOnNetwork(p) \/ StepOnDisk(p)
    <3>1. \E step : At(p, step) /\ step \notin {"kill", "snapshot", "save"}
      BY <2>3 DEF StepOnNetwork, StepOnDisk, Tap, Ensure, Untap, Count, Unbridge,
                  MakeDisk, PrepareDisk, CopyDisk, Pull, Undisk, Upload
    <3>2. vms' = vms
      BY <2>3, NothingIsTaken
    <3> QED
      BY <1>3, <1>4, <3>1, <3>2
  <2>4. CASE Start(p)
    <3>1. At(p, "start") /\ taps' = taps
      BY <2>4, StartOutcome
    <3>2. v \notin vms
      BY <1>4, <3>1, NoVMAt
    <3>3. CanStart(p) /\ v.net = cmd[p].copy.net /\ disks' = [disks EXCEPT ![n] = n]
      BY <1>4, <2>4, <3>2, StartOutcome
    <3> QED
      BY <1>0, <1>4, <3>1, <3>3 DEF CanStart
  <2>5. CASE Kill(p)
    BY <1>4, <2>5, KillOutcome DEF VMsHaveTheirs
  <2> QED
    BY <2>1, <2>2, <2>3, <2>4, <2>5 DEF Step, StepOnStore, StepOnVM
<1> QED
  BY <1>2, <1>4 DEF VMsHaveTheirs

-----------------------------------------------------------------------------
\* What is known when a command begins on the project n.
Begun(op, n, todo) ==
    /\ op \in Commands /\ op # "none"
    /\ Fits(op, todo) /\ todo # <<>>
    /\ op \in Starters => Has(todo, "start") /\ Has(todo, "save")
    /\ op \in {"deploy", "clone"}
          => ~Present(rows, n) /\ Has(todo, "register") /\ ~Has(todo, "unrow")
    /\ op = "destroy" => Has(todo, "unrow")
    /\ op = "freeze" => Has(todo, "save") /\ rows[n].status \in {"running", "frozen"}
    /\ op = "unfreeze" => rows[n].status = "frozen"
    /\ op = "resize" => rows[n].status = "running"
    /\ op = "push" => Present(rows, n) /\ rows[n].status # "running"

LEMMA NewFits ==
    /\ LET s == <<"register", "tap", "disk", "init", "start", "save">>
       IN Fits("deploy", s) /\ Has(s, "start") /\ Has(s, "save") /\ Has(s, "register")
             /\ ~Has(s, "unrow") /\ s # <<>>
    /\ LET s == <<"copy", "register", "tap", "start", "save">>
       IN Fits("clone", s) /\ Has(s, "start") /\ Has(s, "save") /\ Has(s, "register")
             /\ ~Has(s, "unrow") /\ s # <<>>
    /\ LET s == <<"pull", "register", "tap", "start", "save">>
       IN Fits("load", s) /\ Has(s, "start") /\ Has(s, "save") /\ s # <<>>
<1>1. LET s == <<"register", "tap", "disk", "init", "start", "save">>
      IN Fits("deploy", s) /\ Has(s, "start") /\ Has(s, "save") /\ Has(s, "register")
            /\ ~Has(s, "unrow") /\ s # <<>>
  BY DEF Fits, Has, StepsOf
<1>2. LET s == <<"copy", "register", "tap", "start", "save">>
      IN Fits("clone", s) /\ Has(s, "start") /\ Has(s, "save") /\ Has(s, "register")
            /\ ~Has(s, "unrow") /\ s # <<>>
  BY DEF Fits, Has, StepsOf
<1>3. LET s == <<"pull", "register", "tap", "start", "save">>
      IN Fits("load", s) /\ Has(s, "start") /\ Has(s, "save") /\ s # <<>>
  BY DEF Fits, Has, StepsOf, Steps
<1> QED
  BY <1>1, <1>2, <1>3

LEMMA DestroyFits ==
    \A s \in {<<"count", "unbridge", "unrow">>,
              <<"kill", "untap", "count", "unbridge", "unrow">>,
              <<"kill", "untap", "undisk", "count", "unbridge", "unrow">>} :
       Fits("destroy", s) /\ Has(s, "unrow") /\ s # <<>>
<1>1. LET s == <<"count", "unbridge", "unrow">>
      IN Fits("destroy", s) /\ Has(s, "unrow") /\ s # <<>>
  BY DEF Fits, Has, StepsOf
<1>2. LET s == <<"kill", "untap", "count", "unbridge", "unrow">>
      IN Fits("destroy", s) /\ Has(s, "unrow") /\ s # <<>>
  BY DEF Fits, Has, StepsOf
<1>3. LET s == <<"kill", "untap", "undisk", "count", "unbridge", "unrow">>
      IN Fits("destroy", s) /\ Has(s, "unrow") /\ s # <<>>
  BY DEF Fits, Has, StepsOf
<1> QED
  BY <1>1, <1>2, <1>3

LEMMA ServingFits ==
    /\ \A s \in {<<"snapshot", "kill", "save">>, <<"save">>} :
          Fits("freeze", s) /\ Has(s, "save") /\ s # <<>>
    /\ \A s \in {<<"kill", "ensure", "start", "save">>,
                 <<"kill", "grow", "ensure", "start", "save">>} :
          Fits("resize", s) /\ Has(s, "start") /\ Has(s, "save") /\ s # <<>>
    /\ LET s == <<"ensure", "start", "save">>
       IN Fits("unfreeze", s) /\ Has(s, "start") /\ Has(s, "save") /\ s # <<>>
    /\ Fits("push", <<"upload", "unrow">>) /\ <<"upload", "unrow">> # <<>>
    /\ Fits("route", <<"save">>) /\ <<"save">> # <<>>
<1>1. LET s == <<"snapshot", "kill", "save">>
      IN Fits("freeze", s) /\ Has(s, "save") /\ s # <<>>
  BY DEF Fits, Has, StepsOf
<1>2. LET s == <<"save">> IN Fits("freeze", s) /\ Has(s, "save") /\ s # <<>>
  BY DEF Fits, Has, StepsOf
<1>3. LET s == <<"kill", "ensure", "start", "save">>
      IN Fits("resize", s) /\ Has(s, "start") /\ Has(s, "save") /\ s # <<>>
  BY DEF Fits, Has, StepsOf
<1>4. LET s == <<"kill", "grow", "ensure", "start", "save">>
      IN Fits("resize", s) /\ Has(s, "start") /\ Has(s, "save") /\ s # <<>>
  BY DEF Fits, Has, StepsOf
<1>5. LET s == <<"ensure", "start", "save">>
      IN Fits("unfreeze", s) /\ Has(s, "start") /\ Has(s, "save") /\ s # <<>>
  BY DEF Fits, Has, StepsOf
<1>6. Fits("push", <<"upload", "unrow">>) /\ <<"upload", "unrow">> # <<>>
  BY DEF Fits, StepsOf
<1>7. Fits("route", <<"save">>) /\ <<"save">> # <<>>
  BY DEF Fits, StepsOf, Steps
<1> QED
  BY <1>1, <1>2, <1>3, <1>4, <1>5, <1>6, <1>7

LEMMA BeginsAs ==
    ASSUME NEW p \in Procs, BeginCommand(p)
    PROVE  /\ UNCHANGED <<rows, vms, taps, disks>>
           /\ \/ cmd' = cmd
              \/ \E n \in Names : \E op, src, copy, todo :
                    /\ Begin(p, op, n, src, copy, todo)
                    /\ copy \in {NoProject, rows[n]}
                    /\ op \in {"deploy", "clone"} => copy = NoProject
                    /\ Begun(op, n, todo)
<1> DEFINE Begins(n) == \E op, src, copy, todo :
                           /\ Begin(p, op, n, src, copy, todo)
                           /\ copy \in {NoProject, rows[n]}
                           /\ op \in {"deploy", "clone"} => copy = NoProject
                           /\ Begun(op, n, todo)
<1>1. ASSUME NEW n \in Names, NEW op, NEW src, NEW copy, NEW todo,
             Begin(p, op, n, src, copy, todo), copy \in {NoProject, rows[n]},
             op \in {"deploy", "clone"} => copy = NoProject,
             op \in Commands => Begun(op, n, todo)
      PROVE  Begins(n)
  BY <1>1 DEF Begin
<1>2. \A op, n, src, copy, todo :
         Begin(p, op, n, src, copy, todo) => UNCHANGED <<rows, vms, taps, disks>>
  BY DEF Begin, storage
<1> HIDE DEF Begins
<1>3. SUFFICES (\E n \in Names : Begins(n)) \/ OtherCommand(p)
  BY <1>2 DEF Begins, OtherCommand, storage
<1>4. ASSUME NEW n \in Names, Deploy(p, n)
      PROVE  Begins(n)
  <2>1. PICK todo : /\ todo = <<"register", "tap", "disk", "init", "start", "save">>
                    /\ Begin(p, "deploy", n, NoName, NoProject, todo)
    BY <1>4 DEF Deploy
  <2>2. "deploy" \in Commands => Begun("deploy", n, todo)
    BY <1>4, <2>1, NewFits DEF Begun, Deploy
  <2> QED
    BY <1>1, <2>1, <2>2
<1>5. ASSUME NEW n \in Names, NEW src \in Names, Clone(p, src, n)
      PROVE  Begins(n)
  <2>1. PICK todo : /\ todo = <<"copy", "register", "tap", "start", "save">>
                    /\ Begin(p, "clone", n, src, NoProject, todo)
    BY <1>5 DEF Clone
  <2>2. "clone" \in Commands => Begun("clone", n, todo)
    BY <1>5, <2>1, NewFits DEF Begun, Clone
  <2> QED
    BY <1>1, <2>1, <2>2
<1>6. ASSUME NEW n \in Names, Load(p, n)
      PROVE  Begins(n)
  <2>1. PICK todo : /\ todo = <<"pull", "register", "tap", "start", "save">>
                    /\ Begin(p, "load", n, NoName, NoProject, todo)
    BY <1>6 DEF Load
  <2>2. "load" \in Commands => Begun("load", n, todo)
    BY <2>1, NewFits DEF Begun
  <2> QED
    BY <1>1, <2>1, <2>2
<1>7. ASSUME NEW n \in Names, Destroy(p, n)
      PROVE  Begins(n)
  <2>1. PICK todo \in {<<"count", "unbridge", "unrow">>,
                       <<"kill", "untap", "count", "unbridge", "unrow">>,
                       <<"kill", "untap", "undisk", "count", "unbridge", "unrow">>} :
           Begin(p, "destroy", n, NoName, rows[n], todo)
    BY <1>7 DEF Destroy
  <2>2. "destroy" \in Commands => Begun("destroy", n, todo)
    BY <2>1, DestroyFits DEF Begun, Starters
  <2> QED
    BY <1>1, <2>1, <2>2
<1>8. ASSUME NEW n \in Names, Freeze(p, n)
      PROVE  Begins(n)
  <2>1. PICK todo \in {<<"snapshot", "kill", "save">>, <<"save">>} :
           Begin(p, "freeze", n, NoName, rows[n], todo)
    BY <1>8 DEF Freeze
  <2>2. "freeze" \in Commands => Begun("freeze", n, todo)
    BY <1>8, <2>1, ServingFits DEF Begun, Starters, Freeze
  <2> QED
    BY <1>1, <2>1, <2>2
<1>9. ASSUME NEW n \in Names, Unfreeze(p, n)
      PROVE  Begins(n)
  <2>1. PICK todo : /\ todo = <<"ensure", "start", "save">>
                    /\ Begin(p, "unfreeze", n, NoName, rows[n], todo)
    BY <1>9 DEF Unfreeze
  <2>2. "unfreeze" \in Commands => Begun("unfreeze", n, todo)
    BY <1>9, <2>1, ServingFits DEF Begun, Unfreeze
  <2> QED
    BY <1>1, <2>1, <2>2
<1>10. ASSUME NEW n \in Names, Resize(p, n)
       PROVE  Begins(n)
  <2>1. PICK todo \in {<<"kill", "ensure", "start", "save">>,
                       <<"kill", "grow", "ensure", "start", "save">>} :
           Begin(p, "resize", n, NoName, rows[n], todo)
    BY <1>10 DEF Resize
  <2>2. "resize" \in Commands => Begun("resize", n, todo)
    BY <1>10, <2>1, ServingFits DEF Begun, Resize
  <2> QED
    BY <1>1, <2>1, <2>2
<1>11. ASSUME NEW n \in Names, Push(p, n)
       PROVE  Begins(n)
  <2>1. PICK todo : /\ todo = <<"upload", "unrow">>
                    /\ Begin(p, "push", n, NoName, rows[n], todo)
    BY <1>11 DEF Push
  <2>2. "push" \in Commands => Begun("push", n, todo)
    BY <1>11, <2>1, ServingFits DEF Begun, Starters, Push
  <2> QED
    BY <1>1, <2>1, <2>2
<1>12. ASSUME NEW n \in Names, Route(p, n)
       PROVE  Begins(n)
  <2>1. PICK todo : /\ todo = <<"save">>
                    /\ Begin(p, "route", n, NoName, rows[n], todo)
    BY <1>12 DEF Route
  <2>2. "route" \in Commands => Begun("route", n, todo)
    BY <2>1, ServingFits DEF Begun, Starters
  <2> QED
    BY <1>1, <2>1, <2>2
<1> QED
  BY <1>4, <1>5, <1>6, <1>7, <1>8, <1>9, <1>10, <1>11, <1>12 DEF BeginCommand

LEMMA BeginTakes ==
    ASSUME Ownership, Exclusive, NEW p \in Procs, NEW n \in Names
    PROVE  \A op, src, copy, todo :
              Begin(p, op, n, src, copy, todo)
                 => /\ \A q \in Procs \ {p} : cmd'[q] = cmd[q]
                    /\ cmd'[p].op = op /\ cmd'[p].name = n /\ cmd'[p].todo = todo
                    /\ cmd'[p].copy = copy /\ cmd'[p].kept = (disks[n] # "none")
                    /\ cmd[p].todo = <<>> /\ \A q \in Procs : ~Working(q, n)
<1> SUFFICES ASSUME NEW op, NEW src, NEW copy, NEW todo,
                    Begin(p, op, n, src, copy, todo)
             PROVE  /\ \A q \in Procs \ {p} : cmd'[q] = cmd[q]
                    /\ cmd'[p].op = op /\ cmd'[p].name = n /\ cmd'[p].todo = todo
                    /\ cmd'[p].copy = copy /\ cmd'[p].kept = (disks[n] # "none")
                    /\ cmd[p].todo = <<>> /\ \A q \in Procs : ~Working(q, n)
  BY Zenon
<1>1. /\ cmd' = [cmd EXCEPT ![p] = [op |-> op, name |-> n, src |-> src, todo |-> todo,
                                    copy |-> copy, kept |-> disks[n] # "none"]]
      /\ Free(n) /\ cmd[p] = Idle /\ cmd \in [Procs -> Command]
  BY DEF Begin, Ownership, IInv, TypeOK
<1>2. \A q \in Procs : cmd[q].name # n
  BY <1>1, NoNameAssumption DEF Free
<1>3. Idle.todo = <<>>
  BY DEF Idle
<1> QED
  BY <1>1, <1>2, <1>3 DEF Working

LEMMA BeginKeepsBelongings ==
    ASSUME Belongings, Exclusive, NEW p \in Procs, BeginCommand(p)
    PROVE  CommandsFit' /\ PidsAreOwn' /\ VMsHaveTheirs'
<1>1. UNCHANGED <<rows, vms, taps, disks>>
  BY BeginsAs
<1>2. VMsHaveTheirs'
  BY <1>1 DEF Belongings, VMsHaveTheirs
<1>3. CASE cmd' = cmd
  BY <1>1, <1>2, <1>3 DEF Belongings, CommandsFit, PidsAreOwn
<1>4. ASSUME NEW n \in Names, NEW op, NEW src, NEW copy, NEW todo,
             Begin(p, op, n, src, copy, todo), copy \in {NoProject, rows[n]},
             Begun(op, n, todo)
      PROVE  CommandsFit' /\ PidsAreOwn'
  <2>1. /\ \A q \in Procs \ {p} : cmd'[q] = cmd[q]
        /\ cmd'[p].op = op /\ cmd'[p].name = n /\ cmd'[p].todo = todo
        /\ cmd'[p].copy = copy
    <3>1. Ownership /\ Begin(p, op, n, src, copy, todo)
      BY <1>4 DEF Belongings
    <3> QED
      BY <3>1, BeginTakes
  <2>2. CommandsFit'
    BY <1>4, <2>1 DEF Belongings, CommandsFit, Begun
  <2>3. ASSUME NEW v \in vms
        PROVE  /\ \A m \in Names : rows'[m].pid = v.pid => m = v.name
               /\ \A q \in Procs : cmd'[q].copy.pid = v.pid => cmd'[q].name = v.name
    <3>1. v.pid # 0
      BY DEF Belongings, Ownership, VMsAreOwned, Owned
    <3>2. NoProject.pid = 0
      BY DEF NoProject
    <3> QED
      BY <1>1, <1>4, <2>1, <3>1, <3>2 DEF Belongings, PidsAreOwn
  <2> QED
    BY <1>1, <2>2, <2>3 DEF PidsAreOwn
<1> QED
  BY <1>2, <1>3, <1>4, BeginsAs

LEMMA BelongingsAreKept ==
    ASSUME Exclusive, ~Crashes, StartedAreSaved, Belongings, [Next]_vars
    PROVE  Belongings'
<1>1. Ownership'
  BY OwnershipIsKept DEF Belongings
<1>2. ASSUME NEW p \in Procs, BeginCommand(p)
      PROVE  Belongings'
  BY <1>1, <1>2, BeginKeepsBelongings DEF Belongings
<1>3. ASSUME NEW p \in Procs, Step(p)
      PROVE  Belongings'
  BY <1>1, <1>3, StepKeepsPids, StepKeepsTaps DEF Belongings
<1>4. CASE UNCHANGED vars
  BY <1>1, <1>4 DEF vars, network, storage, Belongings, CommandsFit, PidsAreOwn, VMsHaveTheirs
<1> QED
  BY <1>2, <1>3, <1>4 DEF Next, Crash, Reboot

LEMMA BelongingsAtFirst ==
    ASSUME Init
    PROVE  Belongings
<1>1. Ownership
  BY InitOwns
<1>2. Idle.todo = <<>>
  BY DEF Idle
<1> QED
  BY <1>1, <1>2, EmptyFits DEF Init, Belongings, CommandsFit, PidsAreOwn, VMsHaveTheirs

-----------------------------------------------------------------------------
(***************************************************************************)
(* What is left of a deploy or a clone accounts for the row: until Save    *)
(* there is one only if a Save or its removal is still to come, and the    *)
(* removal comes when its TAP is gone.                                     *)
(***************************************************************************)
\* The TAP is removed when deploy or clone clean up.
TapsAreRemoved == \A op \in {"deploy", "clone"} : <<op, "untap">> \notin MayFail

Making(n, t, y) ==
    /\ Has(t, "register") \/ Has(t, "copy") => ~Present(rows, n) /\ Has(t, "save")
    /\ Present(rows, n) => \/ Has(t, "save") \/ Has(t, "unrow")
                           \/ t = <<>> /\ rows[n].status = "running"
    /\ Has(t, "unrow") => /\ Present(rows, n) /\ y.net = rows[n].rowid
                          /\ TapsAreRemoved => Has(t, "untap") \/ y.net \notin taps

Maker(p) == cmd[p].op \in {"deploy", "clone"}

Makers ==
    \A p \in Procs : Maker(p) => Making(cmd[p].name, cmd[p].todo, cmd[p].copy)

\* The row is removed when deploy or clone clean up.
RowsAreRemoved == \A op \in {"deploy", "clone"} : <<op, "unrow">> \notin MayFail

\* The steps t are the steps s but for the step x.
Without(s, x, t) ==
    /\ \A z : Has(t, z) => Has(s, z)
    /\ \A z : Has(s, z) /\ z # x => Has(t, z)
    /\ Has(s, x) /\ ~Has(t, x)

LEMMA TailIsWithout ==
    ASSUME Belongings, NEW p \in Procs, NEW step, At(p, step),
           NEW s, s = cmd[p].todo, NEW t, t = Tail(s)
    PROVE  Without(s, step, t)
<1>1. ~Has(t, step)
  BY FitsAt DEF Belongings
<1>2. TypeOK /\ Plans
  BY DEF Belongings, Ownership, IInv, CommandsInv
<1>3. Plan(cmd[p].op, s) /\ s # <<>> /\ Head(s) = step
  BY <1>2, HeadFacts
<1>4. /\ \A z : Has(t, z) => Has(s, z)
      /\ \A z : Has(s, z) /\ z # step => Has(t, z)
      /\ Has(s, step)
  BY <1>3, TailOfPlan
<1> QED
  BY <1>1, <1>4 DEF Without

\* What is known of a deploy or a clone at a step.
LEMMA MakerAt ==
    ASSUME Belongings, Makers, NEW p \in Procs, Maker(p), NEW step, At(p, step)
    PROVE  /\ cmd[p].name \in Names /\ cmd[p].todo # <<>>
           /\ Making(cmd[p].name, cmd[p].todo, cmd[p].copy)
           /\ step \in {"register", "tap", "disk", "init", "start", "save", "untap",
                        "undisk", "unrow", "copy"}
           /\ step \in {"disk", "init"} => cmd[p].op = "deploy"
           /\ step = "copy" => cmd[p].op = "clone"
           /\ Has(cmd[p].todo, "unrow") => ~Has(cmd[p].todo, "save")
           /\ step \in {"tap", "disk", "init", "start"}
                 => /\ Has(cmd[p].todo, "save") /\ Present(rows, cmd[p].name)
                    /\ cmd[p].copy.net = rows[cmd[p].name].rowid
<1>0. /\ Ownership /\ CommandsFit /\ IInv /\ CopiesUpToDate /\ TypeOK /\ Plans /\ Copies
  BY DEF Belongings, Ownership, IInv, CommandsInv
<1>1. cmd[p].name \in Names /\ cmd[p].todo # <<>>
  BY <1>0, VMPlanAt
<1>2. Making(cmd[p].name, cmd[p].todo, cmd[p].copy)
  BY DEF Makers
<1>3. step \in StepsOf(cmd[p].op)
  BY <1>0, FitsAt
<1>4. step \in {"register", "tap", "disk", "init", "start", "save", "untap",
                "undisk", "unrow", "copy"}
      /\ (step \in {"disk", "init"} => cmd[p].op = "deploy")
      /\ (step = "copy" => cmd[p].op = "clone")
  BY <1>3 DEF StepsOf, Maker
<1>5. Has(cmd[p].todo, "unrow") => ~Has(cmd[p].todo, "save")
  BY <1>0, HeadFacts DEF Plan
<1>6. ASSUME step \in {"tap", "disk", "init", "start"}
      PROVE  /\ Has(cmd[p].todo, "save") /\ Present(rows, cmd[p].name)
             /\ cmd[p].copy.net = rows[cmd[p].name].rowid
  <2>1. /\ Has(cmd[p].todo, "save") /\ ~Has(cmd[p].todo, "register")
        /\ UpToDate(cmd[p].op, cmd[p].todo, cmd[p].copy, rows[cmd[p].name])
    BY <1>0, <1>6, VMPlanAt
  <2>2. Consistent(cmd[p].op, cmd[p].todo, cmd[p].copy, rows[cmd[p].name])
    BY <1>0, <1>1 DEF Copies
  <2> QED
    BY <2>1, <2>2 DEF Consistent, UpToDate, Present
<1> QED
  BY <1>1, <1>2, <1>4, <1>5, <1>6

LEMMA MakerMakes ==
    ASSUME Belongings, Makers, StartedAreSaved, RowsAreRemoved, NEW p \in Procs, Maker(p),
           Step(p), NEW n, n = cmd[p].name
    PROVE  \E t, y : Takes(p, t, y) /\ Making(n, t, y)'
<1> DEFINE Goal == \E t, y : Takes(p, t, y) /\ Making(n, t, y)'
<1>0. /\ Ownership /\ CommandsFit /\ IInv /\ CopiesUpToDate /\ TypeOK /\ Plans
      /\ rows \in [Names -> Project]
  BY DEF Belongings, Ownership, IInv, CommandsInv, TypeOK
<1>1. PICK op, s, c : op = cmd[p].op /\ s = cmd[p].todo /\ c = cmd[p].copy
  OBVIOUS
<1>2. op \in {"deploy", "clone"}
  BY <1>1 DEF Maker
<1> SUFFICES Goal
  OBVIOUS
\* A step that leaves rows and TAPs alone and goes on.
<1>3. ASSUME NEW step, At(p, step), step \in {"copy", "disk", "init", "undisk", "start"},
             NEW t, t = Tail(s), NEW y, y.net = c.net, Takes(p, t, y),
             rows' = rows, taps' = taps
      PROVE  Goal
  <2>1. Making(n, s, c) /\ s # <<>>
    BY <1>1, <1>3, MakerAt
  <2>2. Without(s, step, t)
    BY <1>1, <1>3, TailIsWithout
  <2>3. Making(n, t, y)'
    BY <1>3, <2>1, <2>2 DEF Making, Present, Without
  <2> QED
    BY <1>3, <2>3
\* A failure after the row was made.
<1>4. ASSUME NEW step, At(p, step), step \in {"tap", "disk", "init", "start"},
             NEW t, t = Cleanup(op, step), Takes(p, t, c), rows' = rows,
             step # "tap" => taps' = taps,
             step = "tap" /\ TapsAreRemoved => c.net \notin taps'
      PROVE  Goal
  <2>1. /\ Present(rows, n) /\ c.net = rows[n].rowid
        /\ step \in {"disk", "init"} => op = "deploy"
    BY <1>1, <1>4, MakerAt
  <2>2. /\ Has(t, "unrow") /\ ~Has(t, "register") /\ ~Has(t, "copy")
        /\ step # "tap" => Has(t, "untap")
    BY <1>2, <1>4, <2>1, CleanupFits
  <2>3. Making(n, t, c)'
    BY <1>4, <2>1, <2>2 DEF Making, Present
  <2> QED
    BY <1>4, <2>3
\* A failure before.
<1>5. ASSUME NEW step, At(p, step), step \in {"register", "copy"},
             NEW t, t = Cleanup(op, step), Takes(p, t, c), rows' = rows
      PROVE  Goal
  <2>1. Making(n, s, c) /\ Has(s, step) /\ (step = "copy" => op = "clone")
    <3>1. Has(s, step)
      BY <1>0, <1>1, <1>5, HeadFacts
    <3> QED
      BY <1>1, <1>5, <3>1, MakerAt
  <2>2. ~Present(rows, n)
    BY <1>5, <2>1 DEF Making
  <2>3. ~Has(t, "unrow") /\ ~Has(t, "register") /\ ~Has(t, "copy")
    BY <1>2, <1>5, <2>1, CleanupFits, EmptyHasNothing
  <2>4. Making(n, t, c)'
    BY <1>5, <2>2, <2>3 DEF Making, Present
  <2> QED
    BY <1>5, <2>4
<1> HIDE DEF Goal
<1>6. CASE Register(p)
  <2>1. PICK t, y :
           /\ Takes(p, t, y)
           /\ \/ t = Cleanup(op, "register") /\ y = c /\ rows' = rows
              \/ /\ t = Tail(s) /\ ~Present(rows, n)
                 /\ rows'[n].rowid = y.net /\ y.net # 0
    BY <1>0, <1>1, <1>6, RegisterOutcome
  <2>2. At(p, "register")
    BY <1>6 DEF Register
  <2>3. CASE t = Tail(s) /\ rows'[n].rowid = y.net /\ y.net # 0
    <3>0. ~Has(t, "copy")
      BY <1>0, <1>1, <2>2, <2>3, FitsAt
    <3>1. Without(s, "register", t)
      BY <1>1, <2>2, <2>3, TailIsWithout
    <3>2. Making(n, s, c) /\ (Has(s, "unrow") => ~Has(s, "save"))
      BY <1>1, <2>2, MakerAt
    <3>3. Has(t, "save") /\ ~Has(t, "unrow")
      BY <3>1, <3>2 DEF Making, Without
    <3>4. Making(n, t, y)'
      BY <2>3, <3>0, <3>1, <3>3 DEF Making, Present, Without
    <3> QED
      BY <2>1, <3>4 DEF Goal
  <2> QED
    BY <1>5, <2>1, <2>2, <2>3
<1>7. CASE Save(p)
  <2>1. Takes(p, <<>>, c)
    BY <1>0, <1>1, <1>7, SaveOutcome
  <2>2. rows'[n].status = "running"
    <3>1. rows'[n].status = StatusAfter(op, c.status)
      BY <1>0, <1>1, <1>2, <1>7, SaveOutcome
    <3> QED
      BY <1>2, <3>1 DEF StatusAfter
  <2>3. Making(n, <<>>, c)'
    BY <2>2, EmptyHasNothing DEF Making
  <2> QED
    BY <2>1, <2>3 DEF Goal
<1>8. CASE Unrow(p)
  <2>1. At(p, "unrow")
    BY <1>8 DEF Unrow
  <2>2. PICK t : t = Tail(s)
    OBVIOUS
  <2>3. Takes(p, t, c) /\ rows'[n] = NoProject
    BY <1>0, <1>1, <1>2, <1>8, <2>2, UnrowOutcome DEF RowsAreRemoved, MayFailAt
  <2>4. Without(s, "unrow", t)
    BY <1>1, <2>1, <2>2, TailIsWithout
  <2>5. Making(n, s, c)
    BY <1>1, <2>1, MakerAt
  <2>6. ~Has(t, "register") /\ ~Has(t, "copy")
    BY <2>4, <2>5 DEF Making, Without
  <2>7. NoProject.rowid = 0
    BY DEF NoProject
  <2>8. Making(n, t, c)'
    BY <2>3, <2>4, <2>6, <2>7 DEF Making, Present, Without
  <2> QED
    BY <2>3, <2>8 DEF Goal
<1>9. CASE Tap(p)
  <2>1. At(p, "tap") /\ rows' = rows
    BY <1>9 DEF Tap
  <2>2. PICK t : t = Tail(s)
    OBVIOUS
  <2>3. CASE Advance(p)
    <3>1. Takes(p, t, c)
      BY <1>0, <1>1, <2>1, <2>2, <2>3, EndsTake DEF At
    <3>2. /\ Making(n, s, c) /\ s # <<>> /\ Has(s, "save")
          /\ Has(s, "unrow") => ~Has(s, "save")
      BY <1>1, <2>1, MakerAt
    <3>3. Without(s, "tap", t)
      BY <1>1, <2>1, <2>2, TailIsWithout
    <3>4. Making(n, t, c)'
      BY <2>1, <3>2, <3>3 DEF Making, Present, Without
    <3> QED
      BY <3>1, <3>4 DEF Goal
  <2>4. CASE Fails(p, "tap") /\ (DeleteTap(c.net) \/ MayFailAt(p, "untap"))
    <3>1. Takes(p, Cleanup(op, "tap"), c)
      BY <1>0, <1>1, <2>1, <2>4, EndsTake DEF At
    <3>2. TapsAreRemoved => c.net \notin taps'
      BY <1>1, <1>2, <2>4 DEF DeleteTap, TapsAreRemoved, MayFailAt
    <3> QED
      BY <1>4, <2>1, <3>1, <3>2
  <2> QED
    BY <1>1, <1>9, <2>3, <2>4 DEF Tap, DestroyTAP
<1>10. CASE Untap(p)
  <2>1. /\ At(p, "untap") /\ rows' = rows /\ Advance(p)
        /\ taps' \in {taps, taps \ {c.net}} /\ (TapsAreRemoved => c.net \notin taps')
    BY <1>1, <1>2, <1>10 DEF Untap, DestroyTAP, DeleteTap, TapsAreRemoved, MayFailAt
  <2>2. PICK t : t = Tail(s)
    OBVIOUS
  <2>3. Takes(p, t, c)
    BY <1>0, <1>1, <2>1, <2>2, EndsTake DEF At
  <2>4. Making(n, s, c) /\ s # <<>>
    BY <1>1, <2>1, MakerAt
  <2>5. Without(s, "untap", t)
    BY <1>1, <2>1, <2>2, TailIsWithout
  <2>6. Making(n, t, c)'
    BY <2>1, <2>4, <2>5 DEF Making, Present, Without
  <2> QED
    BY <2>3, <2>6 DEF Goal
<1>11. ASSUME NEW step, At(p, step), step \in {"copy", "disk", "init", "undisk"},
              rows' = rows, taps' = taps,
              Advance(p) \/ (step # "undisk" /\ Fails(p, step))
       PROVE  Goal
  <2>1. CASE Advance(p)
    <3>1. Takes(p, Tail(s), c)
      BY <1>0, <1>1, <1>11, <2>1, EndsTake DEF At
    <3> QED
      BY <1>3, <1>11, <3>1
  <2>2. CASE step # "undisk" /\ Fails(p, step)
    <3>1. Takes(p, Cleanup(op, step), c)
      BY <1>0, <1>1, <1>11, <2>2, EndsTake DEF At
    <3> QED
      BY <1>4, <1>5, <1>11, <2>2, <3>1
  <2> QED
    BY <1>11, <2>1, <2>2
<1>12. CASE MakeDisk(p) \/ CopyDisk(p) \/ Undisk(p)
  <2>1. rows' = rows /\ taps' = taps
    BY <1>12 DEF MakeDisk, CopyDisk, Undisk, network
  <2> QED
    BY <1>11, <1>12, <2>1 DEF MakeDisk, CopyDisk, Undisk
<1>13. CASE PrepareDisk(p)
  <2>1. rows' = rows /\ taps' = taps
    BY <1>13 DEF PrepareDisk, network
  <2>2. PICK step \in {"init", "grow"} :
           At(p, step) /\ (Advance(p) \/ Fails(p, step))
    BY <1>13 DEF PrepareDisk
  <2>3. step = "init"
    BY <2>2, MakerAt
  <2> QED
    BY <1>11, <2>1, <2>2, <2>3
<1>14. CASE Start(p)
  <2>1. /\ rows' = rows /\ taps' = taps /\ At(p, "start")
        /\ \/ Takes(p, Cleanup(op, "start"), c)
           \/ \E y : y.net = c.net /\ Takes(p, <<"save">>, y)
    BY <1>0, <1>1, <1>14, StartOutcome
  <2>2. Tail(s) = <<"save">>
    BY <1>0, <1>1, <2>1, VMPlanAt
  <2>3. CASE Takes(p, Cleanup(op, "start"), c)
    BY <1>4, <2>1, <2>3
  <2>4. CASE \E y : y.net = c.net /\ Takes(p, <<"save">>, y)
    BY <1>3, <2>1, <2>2, <2>4
  <2> QED
    BY <2>1, <2>3, <2>4
<1>15. CASE \/ Ensure(p) \/ Count(p) \/ Unbridge(p) \/ Pull(p) \/ Upload(p)
            \/ Kill(p) \/ Snapshot(p)
  <2>1. PICK step \in {"ensure", "count", "unbridge", "pull", "upload", "kill", "snapshot"} :
           At(p, step)
    BY <1>15 DEF Ensure, Count, Unbridge, Pull, Upload, Kill, Snapshot
  <2> QED
    BY <2>1, MakerAt
<1> QED
  BY <1>6, <1>7, <1>8, <1>9, <1>10, <1>12, <1>13, <1>14, <1>15
  DEF Step, StepOnStore, StepOnNetwork, StepOnDisk, StepOnVM, Goal

\* Whoever takes a step works on a project of its own.
LEMMA StepIsAlone ==
    ASSUME Belongings, StartedAreSaved, NEW p \in Procs, Step(p)
    PROVE  /\ cmd[p].todo # <<>> /\ cmd[p].name \in Names
           /\ \A q \in Procs \ {p} : /\ cmd'[q] = cmd[q]
                                     /\ cmd[q].todo # <<>> => cmd[q].name # cmd[p].name
           /\ \/ cmd'[p] = Idle
              \/ /\ cmd'[p].name = cmd[p].name /\ cmd'[p].op = cmd[p].op
                 /\ cmd'[p].todo # <<>>
           /\ Elsewhere(cmd[p].name)
<1>1. /\ cmd[p].todo # <<>> /\ cmd[p].name \in Names
      /\ \E t, y : Takes(p, t, y)
  BY StepTakes DEF Belongings
<1>2. \A q \in Procs \ {p} : cmd[q].todo # <<>> => cmd[q].name # cmd[p].name
  BY <1>1 DEF Belongings, Ownership, IInv, CommandsInv, OneCommandPerName
<1>3. Elsewhere(cmd[p].name)
  BY StepIsLocal DEF Belongings
<1> QED
  BY <1>1, <1>2, <1>3 DEF Takes, Moves

LEMMA MakerWorks ==
    ASSUME Belongings, NEW p \in Procs, cmd[p].op # "none"
    PROVE  cmd[p].todo # <<>> /\ cmd[p].name \in Names
<1>1. WellFormed(cmd[p])
  BY DEF Belongings, Ownership, IInv, CommandsInv, Plans
<1>2. Idle.op = "none"
  BY DEF Idle
<1> QED
  BY <1>1, <1>2 DEF WellFormed

LEMMA StepKeepsMakers ==
    ASSUME Belongings, Makers, StartedAreSaved, RowsAreRemoved, NEW p \in Procs, Step(p)
    PROVE  Makers'
<1> SUFFICES ASSUME NEW q \in Procs, Maker(q)'
             PROVE  Making(cmd[q].name, cmd[q].todo, cmd[q].copy)'
  BY DEF Makers
<1>1. Idle.op = "none"
  BY DEF Idle
<1>2. CASE q = p
  <2>1. cmd'[p].name = cmd[p].name /\ cmd'[p].op = cmd[p].op /\ cmd'[p].todo # <<>>
    BY <1>1, <1>2, StepIsAlone DEF Maker
  <2>2. Maker(p)
    BY <1>2, <2>1 DEF Maker
  <2>3. PICK n : n = cmd[p].name
    OBVIOUS
  <2>4. PICK t, y : Takes(p, t, y) /\ Making(n, t, y)'
    BY <2>2, <2>3, MakerMakes
  <2>5. cmd'[p].todo = t /\ cmd'[p].copy = y
    <3>1. t # <<>>
      BY <1>1, <1>2, <2>4 DEF Takes, Moves, Maker
    <3> QED
      BY <2>4, <3>1 DEF Takes, Moves
  <2> QED
    BY <1>2, <2>1, <2>3, <2>4, <2>5 DEF Making
<1>3. CASE q # p
  <2>1. cmd'[q] = cmd[q] /\ Elsewhere(cmd[p].name)
    BY <1>3, StepIsAlone
  <2>2. PICK m, t, y : m = cmd[q].name /\ t = cmd[q].todo /\ y = cmd[q].copy
    OBVIOUS
  <2>3. Making(m, t, y) /\ m \in Names /\ t # <<>>
    BY <2>1, <2>2, MakerWorks DEF Makers, Maker
  <2>4. m # cmd[p].name
    BY <1>3, <2>2, <2>3, StepIsAlone
  <2>5. rows'[m] = rows[m] /\ (Present(rows, m) => (rows[m].rowid \in taps' <=> rows[m].rowid \in taps))
    BY <2>1, <2>3, <2>4 DEF Elsewhere
  <2>6. Making(m, t, y)'
    BY <2>3, <2>5 DEF Making, Present
  <2> QED
    BY <2>1, <2>2, <2>6 DEF Making
<1> QED
  BY <1>2, <1>3

LEMMA BeginKeepsMakers ==
    ASSUME Belongings, Makers, Exclusive, NEW p \in Procs, BeginCommand(p)
    PROVE  Makers'
<1>1. UNCHANGED <<rows, vms, taps, disks>>
  BY BeginsAs
<1>2. CASE cmd' = cmd
  BY <1>1, <1>2 DEF Makers, Making, Maker, Present
<1>3. ASSUME NEW n \in Names, NEW op, NEW src, NEW copy, NEW todo,
             Begin(p, op, n, src, copy, todo), Begun(op, n, todo)
      PROVE  Makers'
  <2>1. /\ \A q \in Procs \ {p} : cmd'[q] = cmd[q]
        /\ cmd'[p].op = op /\ cmd'[p].name = n /\ cmd'[p].todo = todo
        /\ cmd'[p].copy = copy
    <3>1. Ownership
      BY DEF Belongings
    <3> QED
      BY <1>3, <3>1, BeginTakes
  <2>2. op \in {"deploy", "clone"} => Making(n, todo, copy)
    BY <1>3 DEF Begun, Making, Starters
  <2> QED
    BY <1>1, <2>1, <2>2 DEF Makers, Making, Maker, Present
<1> QED
  BY <1>2, <1>3, BeginsAs

LEMMA MakersAreKept ==
    ASSUME Exclusive, ~Crashes, StartedAreSaved, RowsAreRemoved, Belongings, Makers,
           [Next]_vars
    PROVE  Makers'
<1>1. CASE UNCHANGED vars
  BY <1>1 DEF vars, network, Makers, Making, Maker, Present
<1> QED
  BY <1>1, StepKeepsMakers, BeginKeepsMakers DEF Next, Crash, Reboot

-----------------------------------------------------------------------------
(***************************************************************************)
(* It accounts for the disk as well: until deploy or clone has made one    *)
(* there is none but one that it found, and later it ends with the Save or *)
(* removes the disk.                                                       *)
(***************************************************************************)
Accounted(op, kept, n, t) ==
    \/ kept
    \/ disks[n] = "none"
    \/ Has(t, "undisk") /\ ~Has(t, "save")
    \/ /\ Has(t, "save") /\ ~Has(t, "copy")
       /\ op = "deploy" => \A x \in {"register", "tap", "disk"} : ~Has(t, x)
    \/ t = <<>> /\ rows[n].status = "running"

Accounts ==
    \A p \in Procs :
       Maker(p) => Accounted(cmd[p].op, cmd[p].kept, cmd[p].name, cmd[p].todo)

\* A copy of a disk that fails leaves nothing, and a disk that is to go is removed.
NoDiskIsLeft ==
    {<<"deploy", "disk">>, <<"clone", "copy">>, <<"deploy", "undisk">>, <<"clone", "undisk">>}
       \cap MayFail = {}

LEMMA MakerAccounts ==
    ASSUME Belongings, Makers, Accounts, StartedAreSaved, NoDiskIsLeft,
           NEW p \in Procs, Maker(p), Step(p),
           NEW op, op = cmd[p].op, NEW k, k = cmd[p].kept, NEW n, n = cmd[p].name
    PROVE  \E t, y : Takes(p, t, y) /\ Accounted(op, k, n, t)'
<1> DEFINE Goal == \E t, y : Takes(p, t, y) /\ Accounted(op, k, n, t)'
<1>0. /\ Ownership /\ CommandsFit /\ IInv /\ CopiesUpToDate /\ TypeOK /\ Plans
      /\ disks \in [Names -> Disk] /\ op \in {"deploy", "clone"}
  BY DEF Belongings, Ownership, IInv, CommandsInv, TypeOK, Maker
<1>1. PICK s, c : s = cmd[p].todo /\ c = cmd[p].copy
  OBVIOUS
<1> SUFFICES Goal
  OBVIOUS
<1>2. Accounted(op, k, n, s)
  BY <1>1 DEF Accounts
<1>3. \A step : At(p, step) => s # <<>> /\ n \in Names
  BY <1>1, MakerAt
\* As long as there is no disk, or only one that was found.
<1>4. ASSUME NEW step, At(p, step), step \in {"register", "tap", "disk", "copy"},
             step = "tap" => op = "deploy", step = "register" => op = "deploy"
      PROVE  k \/ disks[n] = "none"
  <2>1. /\ Has(s, step) /\ s # <<>>
        /\ step = "disk" => op = "deploy"
    <3>1. Has(s, step)
      BY <1>0, <1>1, <1>4, HeadFacts
    <3> QED
      BY <1>1, <1>4, <3>1, MakerAt
  <2>2. Has(s, "save")
    <3>1. step \in {"tap", "disk"} => Has(s, "save")
      BY <1>1, <1>4, MakerAt
    <3>2. Making(n, s, c)
      BY <1>1, <1>4, MakerAt
    <3> QED
      BY <1>4, <2>1, <3>1, <3>2 DEF Making
  <2> QED
    BY <1>2, <1>4, <2>1, <2>2 DEF Accounted
\* A step that leaves the disk alone and goes on.
<1>5. ASSUME NEW step, At(p, step), step \notin {"undisk", "save"},
             NEW t, t = Tail(s), NEW y, Takes(p, t, y), disks'[n] = disks[n]
      PROVE  Goal
  <2>1. Without(s, step, t) /\ s # <<>>
    BY <1>1, <1>3, <1>5, TailIsWithout
  <2>2. Accounted(op, k, n, t)'
    BY <1>2, <1>5, <2>1 DEF Accounted, Without
  <2> QED
    BY <1>5, <2>2
\* A failure that removes the disk, or comes before there is one.
<1>6. ASSUME NEW step, At(p, step),
             step \in {"register", "tap", "disk", "init", "start", "copy"},
             NEW t, t = Cleanup(op, step), Takes(p, t, c), disks'[n] = disks[n]
      PROVE  Goal
  <2>1. /\ step \in {"disk", "init"} => op = "deploy"
        /\ step = "copy" => op = "clone"
    BY <1>6, MakerAt
  <2>2. ~Has(t, "save")
    BY <1>6, CleanupFits
  <2>3. CASE step \in {"init", "start"} \/ (op = "clone" /\ step \in {"register", "tap"})
    <3>1. Has(t, "undisk")
      BY <1>0, <1>6, <2>1, <2>3, CleanupFits
    <3>2. Accounted(op, k, n, t)'
      BY <2>2, <3>1 DEF Accounted
    <3> QED
      BY <1>6, <3>2
  <2>4. CASE step \in {"disk", "copy"} \/ (op = "deploy" /\ step \in {"register", "tap"})
    <3>1. k \/ disks[n] = "none"
      BY <1>4, <1>6, <2>1, <2>4
    <3>2. Accounted(op, k, n, t)'
      BY <1>6, <3>1 DEF Accounted
    <3> QED
      BY <1>6, <3>2
  <2> QED
    BY <1>0, <1>6, <2>3, <2>4
<1> HIDE DEF Goal
<1>7. CASE Register(p)
  <2>1. PICK t, y : /\ Takes(p, t, y)
                    /\ \/ t = Cleanup(op, "register") /\ y = c
                       \/ t = Tail(s)
    BY <1>0, <1>1, <1>7, RegisterOutcome
  <2>2. At(p, "register") /\ disks' = disks
    BY <1>7 DEF Register, storage
  <2> QED
    BY <1>5, <1>6, <2>1, <2>2
<1>8. CASE Save(p)
  <2>1. Takes(p, <<>>, c) /\ rows'[n].status = StatusAfter(op, c.status)
    BY <1>0, <1>1, <1>8, SaveOutcome
  <2>2. rows'[n].status = "running"
    BY <1>0, <2>1 DEF StatusAfter
  <2>3. Accounted(op, k, n, <<>>)'
    BY <2>2 DEF Accounted
  <2> QED
    BY <2>1, <2>3 DEF Goal
<1>9. ASSUME NEW step, At(p, step), step \in {"unrow", "untap", "init", "tap"},
             disks'[n] = disks[n],
             Advance(p) \/ (step \in {"init", "tap"} /\ Fails(p, step))
      PROVE  Goal
  <2>1. CASE Advance(p)
    <3>1. Takes(p, Tail(s), c)
      BY <1>0, <1>1, <1>3, <1>9, <2>1, EndsTake
    <3> QED
      BY <1>5, <1>9, <3>1
  <2>2. CASE step \in {"init", "tap"} /\ Fails(p, step)
    <3>1. Takes(p, Cleanup(op, step), c)
      BY <1>0, <1>1, <1>3, <1>9, <2>2, EndsTake
    <3> QED
      BY <1>6, <1>9, <2>2, <3>1
  <2> QED
    BY <1>9, <2>1, <2>2
<1>10. CASE Unrow(p) \/ Tap(p) \/ Untap(p)
  <2>1. disks' = disks
    BY <1>10 DEF Unrow, Tap, Untap, storage
  <2> QED
    BY <1>9, <1>10, <2>1 DEF Unrow, Tap, Untap
<1>11. CASE PrepareDisk(p)
  <2>1. disks' = disks
    BY <1>11 DEF PrepareDisk, storage
  <2>2. PICK step \in {"init", "grow"} :
           At(p, step) /\ (Advance(p) \/ Fails(p, step))
    BY <1>11 DEF PrepareDisk
  <2>3. step = "init"
    BY <2>2, MakerAt
  <2> QED
    BY <1>9, <2>1, <2>2, <2>3
<1>12. CASE Undisk(p)
  <2>1. At(p, "undisk") /\ Advance(p) /\ disks' = [disks EXCEPT ![n] = "none"]
    BY <1>0, <1>1, <1>12 DEF Undisk, NoDiskIsLeft, MayFailAt
  <2>2. Takes(p, Tail(s), c) /\ disks'[n] = "none"
    BY <1>0, <1>1, <1>3, <2>1, EndsTake
  <2>3. Accounted(op, k, n, Tail(s))'
    BY <2>2 DEF Accounted
  <2> QED
    BY <2>2, <2>3 DEF Goal
\* The disk is made.
<1>13. ASSUME NEW step, At(p, step), step \in {"disk", "copy"}, Advance(p)
       PROVE  Goal
  <2>1. PICK t : t = Tail(s)
    OBVIOUS
  <2>2. Takes(p, t, c)
    BY <1>0, <1>1, <1>3, <1>13, <2>1, EndsTake
  <2>3. Without(s, step, t) /\ ~Has(t, "copy")
    <3>1. ~Has(t, "copy")
      BY <1>0, <1>1, <1>13, <2>1, FitsAt
    <3> QED
      BY <1>1, <1>13, <2>1, <3>1, TailIsWithout
  <2>4. CASE step = "disk"
    <3>1. Has(s, "save") /\ ~Has(s, "register") /\ ~Has(s, "tap")
      <4>1. Has(s, "save")
        BY <1>1, <1>13, <2>4, MakerAt
      <4>2. ~Has(s, "register")
        BY <1>0, <1>1, <1>13, <2>4, VMPlanAt
      <4>3. ~Has(s, "tap")
        BY <1>0, <1>1, <1>13, <2>1, <2>4, FitsAt
      <4> QED
        BY <4>1, <4>2, <4>3
    <3>2. Has(t, "save") /\ \A x \in {"register", "tap", "disk"} : ~Has(t, x)
      BY <2>3, <2>4, <3>1 DEF Without
    <3>3. Accounted(op, k, n, t)'
      BY <2>3, <3>2 DEF Accounted
    <3> QED
      BY <2>2, <3>3 DEF Goal
  <2>5. CASE step = "copy"
    <3>1. op = "clone" /\ Making(n, s, c)
      BY <1>1, <1>13, <2>5, MakerAt
    <3>2. Has(t, "save")
      BY <2>3, <2>5, <3>1 DEF Making, Without
    <3>3. Accounted(op, k, n, t)'
      BY <2>3, <3>1, <3>2 DEF Accounted
    <3> QED
      BY <2>2, <3>3 DEF Goal
  <2> QED
    BY <1>13, <2>4, <2>5
<1>14. ASSUME NEW step, At(p, step), step \in {"disk", "copy"}, Fails(p, step),
              disks' = disks
       PROVE  Goal
  <2>1. Takes(p, Cleanup(op, step), c)
    BY <1>0, <1>1, <1>3, <1>14, EndsTake
  <2> QED
    BY <1>6, <1>14, <2>1
<1>15. CASE MakeDisk(p)
  <2>1. ~MayFailAt(p, "disk")
    <3>1. At(p, "disk")
      BY <1>15 DEF MakeDisk
    <3>2. op = "deploy"
      BY <3>1, MakerAt
    <3> QED
      BY <3>2 DEF NoDiskIsLeft, MayFailAt
  <2> QED
    BY <1>13, <1>14, <1>15, <2>1 DEF MakeDisk
<1>16. CASE CopyDisk(p)
  <2>1. ~MayFailAt(p, "copy")
    <3>1. At(p, "copy")
      BY <1>16 DEF CopyDisk
    <3>2. op = "clone"
      BY <3>1, MakerAt
    <3> QED
      BY <3>2 DEF NoDiskIsLeft, MayFailAt
  <2> QED
    BY <1>13, <1>14, <1>16, <2>1 DEF CopyDisk
<1>17. CASE Start(p)
  <2>1. /\ At(p, "start")
        /\ \/ Takes(p, Cleanup(op, "start"), c) /\ disks' = disks
           \/ \E y : Takes(p, <<"save">>, y)
    BY <1>0, <1>1, <1>17, StartOutcome
  <2>2. CASE Takes(p, Cleanup(op, "start"), c) /\ disks' = disks
    BY <1>6, <2>1, <2>2
  <2>3. CASE \E y : Takes(p, <<"save">>, y)
    <3>1. \A x : Has(<<"save">>, x) <=> x = "save"
      BY DEF Has
    <3>2. Accounted(op, k, n, <<"save">>)'
      BY <3>1 DEF Accounted
    <3> QED
      BY <2>3, <3>2 DEF Goal
  <2> QED
    BY <2>1, <2>2, <2>3
<1>18. CASE \/ Ensure(p) \/ Count(p) \/ Unbridge(p) \/ Pull(p) \/ Upload(p)
            \/ Kill(p) \/ Snapshot(p)
  <2>1. PICK step \in {"ensure", "count", "unbridge", "pull", "upload", "kill", "snapshot"} :
           At(p, step)
    BY <1>18 DEF Ensure, Count, Unbridge, Pull, Upload, Kill, Snapshot
  <2> QED
    BY <2>1, MakerAt
<1> QED
  BY <1>7, <1>8, <1>10, <1>11, <1>12, <1>15, <1>16, <1>17, <1>18
  DEF Step, StepOnStore, StepOnNetwork, StepOnDisk, StepOnVM

LEMMA StepKeepsAccounts ==
    ASSUME Belongings, Makers, Accounts, StartedAreSaved, NoDiskIsLeft,
           NEW p \in Procs, Step(p)
    PROVE  Accounts'
<1> SUFFICES ASSUME NEW q \in Procs, Maker(q)'
             PROVE  Accounted(cmd[q].op, cmd[q].kept, cmd[q].name, cmd[q].todo)'
  BY DEF Accounts
<1>1. Idle.op = "none"
  BY DEF Idle
<1>2. CASE q = p
  <2>1. cmd'[p].name = cmd[p].name /\ cmd'[p].op = cmd[p].op /\ cmd'[p].todo # <<>>
    BY <1>1, <1>2, StepIsAlone DEF Maker
  <2>2. Maker(p)
    BY <1>2, <2>1 DEF Maker
  <2>3. PICK op, k, n : op = cmd[p].op /\ k = cmd[p].kept /\ n = cmd[p].name
    OBVIOUS
  <2>4. PICK t, y : Takes(p, t, y) /\ Accounted(op, k, n, t)'
    BY <2>2, <2>3, MakerAccounts
  <2>5. cmd'[p].todo = t /\ cmd'[p].kept = k
    <3>1. t # <<>>
      BY <1>1, <1>2, <2>4 DEF Takes, Moves, Maker
    <3> QED
      BY <2>3, <2>4, <3>1 DEF Takes, Moves
  <2> QED
    BY <1>2, <2>1, <2>3, <2>4, <2>5 DEF Accounted
<1>3. CASE q # p
  <2>1. cmd'[q] = cmd[q] /\ Elsewhere(cmd[p].name)
    BY <1>3, StepIsAlone
  <2>2. PICK op, k, m, t : /\ op = cmd[q].op /\ k = cmd[q].kept
                           /\ m = cmd[q].name /\ t = cmd[q].todo
    OBVIOUS
  <2>3. Accounted(op, k, m, t) /\ m \in Names /\ t # <<>>
    BY <2>1, <2>2, MakerWorks DEF Accounts, Maker
  <2>4. m # cmd[p].name
    BY <1>3, <2>2, <2>3, StepIsAlone
  <2>5. rows'[m] = rows[m] /\ disks'[m] = disks[m]
    BY <2>1, <2>3, <2>4 DEF Elsewhere
  <2>6. Accounted(op, k, m, t)'
    BY <2>3, <2>5 DEF Accounted
  <2> QED
    BY <2>1, <2>2, <2>6 DEF Accounted
<1> QED
  BY <1>2, <1>3

LEMMA BeginKeepsAccounts ==
    ASSUME Belongings, Accounts, Exclusive, NEW p \in Procs, BeginCommand(p)
    PROVE  Accounts'
<1>1. UNCHANGED <<rows, vms, taps, disks>>
  BY BeginsAs
<1>2. CASE cmd' = cmd
  BY <1>1, <1>2 DEF Accounts, Accounted, Maker
<1>3. ASSUME NEW n \in Names, NEW op, NEW src, NEW copy, NEW todo,
             Begin(p, op, n, src, copy, todo)
      PROVE  Accounts'
  <2>1. /\ \A q \in Procs \ {p} : cmd'[q] = cmd[q]
        /\ cmd'[p].op = op /\ cmd'[p].name = n /\ cmd'[p].todo = todo
        /\ cmd'[p].kept = (disks[n] # "none")
    <3>1. Ownership
      BY DEF Belongings
    <3> QED
      BY <1>3, <3>1, BeginTakes
  <2>2. disks'[n] = "none" \/ cmd'[p].kept
    BY <1>1, <2>1
  <2> QED
    BY <1>1, <2>1, <2>2 DEF Accounts, Accounted, Maker
<1> QED
  BY <1>2, <1>3, BeginsAs

LEMMA AccountsAreKept ==
    ASSUME Exclusive, ~Crashes, StartedAreSaved, NoDiskIsLeft, Belongings, Makers,
           Accounts, [Next]_vars
    PROVE  Accounts'
<1>1. CASE UNCHANGED vars
  BY <1>1 DEF vars, storage, Accounts, Accounted, Maker
<1> QED
  BY <1>1, StepKeepsAccounts, BeginKeepsAccounts DEF Next, Crash, Reboot

-----------------------------------------------------------------------------
LEMMA MakersHold ==
    ASSUME Exclusive, ~Crashes, StartedAreSaved, RowsAreRemoved
    PROVE  Spec => [](Belongings /\ Makers)
<1>1. Init => Belongings /\ Makers
  <2>1. ASSUME Init PROVE Belongings /\ Makers
    <3>1. Idle.op = "none"
      BY DEF Idle
    <3> QED
      BY <2>1, <3>1, BelongingsAtFirst DEF Init, Makers, Maker
  <2> QED
    BY <2>1
<1>2. Belongings /\ Makers /\ [Next]_vars => (Belongings /\ Makers)'
  BY BelongingsAreKept, MakersAreKept
<1> QED
  BY <1>1, <1>2, PTL DEF Spec

LEMMA AccountsHold ==
    ASSUME Exclusive, ~Crashes, StartedAreSaved, RowsAreRemoved, NoDiskIsLeft
    PROVE  Spec => []Accounts
<1>1. Init => Accounts
  <2>1. ASSUME Init PROVE Accounts
    <3>1. Idle.op = "none"
      BY DEF Idle
    <3> QED
      BY <2>1, <3>1 DEF Init, Accounts, Maker
  <2> QED
    BY <2>1
<1>2. Belongings /\ Makers /\ Accounts /\ [Next]_vars => Accounts'
  BY AccountsAreKept
<1>3. Spec => [](Belongings /\ Makers)
  BY MakersHold
<1> QED
  BY <1>1, <1>2, <1>3, PTL DEF Spec

\* Only a step of its own ends a deploy or a clone, or removes its row.
LEMMA MakerMoves ==
    ASSUME Exclusive, ~Crashes, StartedAreSaved, Belongings, [Next]_vars,
           NEW p \in Procs, Maker(p), NEW n, n = cmd[p].name
    PROVE  \/ Step(p)
           \/ cmd'[p] # Idle /\ rows'[n] = rows[n]
<1>0. cmd[p].op # "none" /\ Idle.op = "none" /\ n \in Names /\ cmd[p].todo # <<>>
  BY MakerWorks DEF Maker, Idle
<1>1. ASSUME NEW q \in Procs, BeginCommand(q)
      PROVE  cmd'[p] # Idle /\ rows'[n] = rows[n]
  <2>1. rows' = rows
    BY <1>1, BeginsAs
  <2>2. ASSUME NEW m \in Names, NEW op, NEW src, NEW copy, NEW todo,
               Begin(q, op, m, src, copy, todo)
        PROVE  cmd'[p] = cmd[p]
    <3>1. Ownership
      BY DEF Belongings
    <3>2. /\ \A r \in Procs \ {q} : cmd'[r] = cmd[r]
          /\ cmd[q].todo = <<>>
      BY <2>2, <3>1, BeginTakes
    <3> QED
      BY <1>0, <3>2
  <2> QED
    BY <1>0, <1>1, <2>1, <2>2, BeginsAs
<1>2. ASSUME NEW q \in Procs \ {p}, Step(q)
      PROVE  cmd'[p] # Idle /\ rows'[n] = rows[n]
  <2>1. cmd'[p] = cmd[p] /\ cmd[q].name # n /\ Elsewhere(cmd[q].name)
    BY <1>0, <1>2, StepIsAlone
  <2> QED
    BY <1>0, <2>1 DEF Elsewhere
<1>3. CASE UNCHANGED vars
  BY <1>0, <1>3 DEF vars
<1> QED
  BY <1>1, <1>2, <1>3 DEF Next, Crash, Reboot

LEMMA MakerEnds ==
    ASSUME StartedAreSaved, RowsAreRemoved, NoDiskIsLeft, Belongings, Makers, Accounts,
           Belongings', NEW p \in Procs, Maker(p), Step(p), NEW n, n = cmd[p].name,
           cmd'[p] = Idle, rows'[n].status # "running"
    PROVE  /\ ~Present(rows', n)
           /\ \A v \in vms' : v.name # n
           /\ disks'[n] = "none" \/ cmd[p].kept
<1>1. Idle.op = "none" /\ cmd[p].op # "none"
  BY DEF Idle, Maker
<1>2. ~Present(rows', n)
  <2>1. PICK t, y : Takes(p, t, y) /\ Making(n, t, y)'
    BY MakerMakes
  <2>2. t = <<>>
    BY <1>1, <2>1 DEF Takes, Moves
  <2> QED
    BY <2>1, <2>2, EmptyHasNothing DEF Making, Present
<1>3. disks'[n] = "none" \/ cmd[p].kept
  <2>0. PICK op, k : op = cmd[p].op /\ k = cmd[p].kept
    OBVIOUS
  <2>1. PICK t, y : Takes(p, t, y) /\ Accounted(op, k, n, t)'
    BY <2>0, MakerAccounts
  <2>2. t = <<>>
    BY <1>1, <2>1 DEF Takes, Moves
  <2> QED
    BY <2>0, <2>1, <2>2, EmptyHasNothing DEF Accounted
<1>4. \A v \in vms' : v.name # n
  BY <1>2 DEF Belongings, Ownership, VMsAreOwned, Owned, Present
<1> QED
  BY <1>2, <1>3, <1>4

LEMMA RowGoesAfterTap ==
    ASSUME StartedAreSaved, TapsAreRemoved, Belongings, Makers, NEW p \in Procs, Maker(p),
           Step(p), NEW n, n = cmd[p].name, Present(rows, n), ~Present(rows', n)
    PROVE  cmd[p].copy.net \notin taps'
<1>0. Ownership /\ TypeOK /\ Plans /\ IInv /\ CopiesUpToDate
  BY DEF Belongings, Ownership, IInv, CommandsInv
<1>1. CASE Register(p)
  BY <1>0, <1>1, RegisterOutcome DEF Present
<1>2. CASE Save(p)
  BY <1>0, <1>2, SaveOutcome DEF Present
<1>3. CASE Unrow(p)
  <2>1. At(p, "unrow") /\ taps' = taps
    BY <1>3 DEF Unrow, network
  <2>2. PICK s, t : s = cmd[p].todo /\ t = Tail(s)
    OBVIOUS
  <2>3. Without(s, "unrow", t) /\ ~Has(t, "untap") /\ Making(n, s, cmd[p].copy)
    <3>1. ~Has(t, "untap")
      BY <1>0, <2>1, <2>2, VMPlanAt
    <3>2. Without(s, "unrow", t)
      BY <2>1, <2>2, TailIsWithout
    <3>3. Making(n, s, cmd[p].copy)
      BY <2>2 DEF Makers
    <3> QED
      BY <3>1, <3>2, <3>3
  <2> QED
    BY <2>1, <2>3 DEF Making, Without
<1>4. CASE StepOnNetwork(p) \/ StepOnDisk(p) \/ StepOnVM(p)
  <2>1. rows' = rows
    BY <1>0, <1>4, HostStepGoesOn
  <2> QED
    BY <2>1
<1> QED
  BY <1>1, <1>2, <1>3, <1>4 DEF Step, StepOnStore

\* A deploy or a clone that fails takes back everything it has made, in an
\* order that does not give its index away while a TAP still has the name
\* (deploy.go:92-265, clone.go:124-253).  Excluded are the failures after
\* which the code itself goes on without a clean-up.
THEOREM FailuresLeaveNothing ==
    ASSUME Exclusive, ~Crashes, StartedAreSaved, RowsAreRemoved, TapsAreRemoved, NoDiskIsLeft
    PROVE  Spec => FailedLeavesNothing
<1> DEFINE Clean(p) ==
             LET n == cmd[p].name
             IN cmd[p].op \in {"deploy", "clone"}
                => /\ cmd'[p] = Idle /\ rows'[n].status # "running"
                      => /\ ~Present(rows', n)
                         /\ \A v \in vms' : v.name # n
                         /\ disks'[n] = "none" \/ cmd[p].kept
                   /\ Present(rows, n) /\ ~Present(rows', n)
                      => cmd[p].copy.net \notin taps'
<1>1. ASSUME Belongings, Makers, Accounts, Belongings', [Next]_vars
      PROVE  \A p \in Procs : Clean(p)
  <2> SUFFICES ASSUME NEW p \in Procs, cmd[p].op \in {"deploy", "clone"},
                      NEW n, n = cmd[p].name
               PROVE  /\ cmd'[p] = Idle /\ rows'[n].status # "running"
                         => /\ ~Present(rows', n)
                            /\ \A v \in vms' : v.name # n
                            /\ disks'[n] = "none" \/ cmd[p].kept
                      /\ Present(rows, n) /\ ~Present(rows', n)
                         => cmd[p].copy.net \notin taps'
    OBVIOUS
  <2>1. Maker(p)
    BY DEF Maker
  <2>2. CASE Step(p)
    <3>1. cmd'[p] = Idle /\ rows'[n].status # "running"
             => /\ ~Present(rows', n)
                /\ \A v \in vms' : v.name # n
                /\ disks'[n] = "none" \/ cmd[p].kept
      BY <1>1, <2>1, <2>2, MakerEnds
    <3>2. Present(rows, n) /\ ~Present(rows', n) => cmd[p].copy.net \notin taps'
      BY <1>1, <2>1, <2>2, RowGoesAfterTap
    <3> QED
      BY <3>1, <3>2
  <2>3. CASE cmd'[p] # Idle /\ rows'[n] = rows[n]
    BY <2>3 DEF Present
  <2> QED
    BY <1>1, <2>1, <2>2, <2>3, MakerMoves
<1> HIDE DEF Clean
<1>2. Belongings /\ Makers /\ Accounts /\ Belongings' /\ [Next]_vars
         => [\A p \in Procs : Clean(p)]_vars
  BY <1>1
<1>3. Spec => [](Belongings /\ Makers)
  BY MakersHold
<1>4. Spec => []Accounts
  BY AccountsHold
<1>5. Spec => [][\A p \in Procs : Clean(p)]_vars
  BY <1>2, <1>3, <1>4, PTL DEF Spec
<1> QED
  BY <1>5 DEF FailedLeavesNothing, Clean

-----------------------------------------------------------------------------
(***************************************************************************)
(* What the row says between commands.  A command that will write the row  *)
(* gets there, and what it will write is then the case.                    *)
(***************************************************************************)
HasVM(n) == \E v \in vms : v.name = n

Serving(op, n, t) ==
    /\ op \notin {"none", "load", "route"}
    /\ op \in Starters /\ Has(t, "save")
          => Has(t, "start") \/ (t = <<"save">> /\ HasVM(n))
    /\ op = "destroy" => Has(t, "unrow")
    /\ op \in {"freeze", "resize"} => Has(t, "save")
    /\ op = "freeze" => rows[n].status \in {"running", "frozen"}
    /\ op \in {"unfreeze", "push"} => rows[n].status = "frozen"
    /\ op = "resize" => rows[n].status = "running" /\ rows[n].rowid \in taps
    /\ op \in {"freeze", "unfreeze", "resize", "push"} => disks[n] = n

Serves ==
    \A p \in Procs :
       cmd[p].todo # <<>> => Serving(cmd[p].op, cmd[p].name, cmd[p].todo)

Settled(n) ==
    /\ Present(rows, n) => rows[n].status \in {"running", "frozen"}
    /\ rows[n].status = "running" => HasVM(n)
    /\ rows[n].status = "frozen" => disks[n] = n

AllSettled == \A n \in Names : (\A p \in Procs : ~Working(p, n)) => Settled(n)

\* Nobody loads a project or adds a route to one, and the steps whose failure
\* the code passes over do not fail.
StatusIsKept ==
    /\ Commands \cap {"load", "route"} = {}
    /\ {<<"destroy", "unrow">>, <<"freeze", "save">>, <<"resize", "grow">>,
        <<"resize", "start">>} \cap MayFail = {}

\* The step of p leaves the project n, on which it works, in order.
Served(p, op, n) ==
    \E t, y : /\ Takes(p, t, y)
              /\ t # <<>> => Serving(op, n, t)'
              /\ t = <<>> => Settled(n)'

LEMMA ServingIsServed ==
    ASSUME NEW p \in Procs, NEW op, NEW n, NEW t, NEW y, Takes(p, t, y),
           \/ Serving(op, n, t)' /\ op \in {"destroy", "freeze", "unfreeze", "resize", "push"}
           \/ t = <<>> /\ Settled(n)'
    PROVE  Served(p, op, n)
<1>1. ASSUME Serving(op, n, t)', t = <<>>,
             op \in {"destroy", "freeze", "unfreeze", "resize", "push"}
      PROVE  Settled(n)'
  BY <1>1, EmptyHasNothing DEF Serving, Settled
<1> QED
  BY <1>1 DEF Served

LEMMA ServerAt ==
    ASSUME Belongings, Serves, NEW p \in Procs, NEW step, At(p, step),
           NEW op, op = cmd[p].op, NEW n, n = cmd[p].name, NEW s, s = cmd[p].todo
    PROVE  /\ s # <<>> /\ n \in Names /\ Head(s) = step
           /\ Serving(op, n, s) /\ step \in StepsOf(op)
           /\ step = "save" => Tail(s) = <<>>
<1>1. Ownership /\ CommandsFit /\ IInv /\ CopiesUpToDate /\ TypeOK /\ Plans
  BY DEF Belongings, Ownership, IInv, CommandsInv
<1>2. s # <<>> /\ n \in Names /\ Head(s) = step /\ Plan(op, s)
  BY <1>1, HeadFacts
<1>3. step \in StepsOf(op)
  BY <1>1, FitsAt
<1>4. Serving(op, n, s)
  BY <1>2 DEF Serves
<1>5. step = "save" => Tail(s) = <<>>
  BY <1>2, TailOfPlan
<1> QED
  BY <1>2, <1>3, <1>4, <1>5

\* A step that goes on, starts no VM and touches no row.
LEMMA GoingOnServes ==
    ASSUME NEW op, NEW n, NEW s, NEW step, NEW t, Serving(op, n, s), Without(s, step, t),
           Head(s) = step, step \notin {"save", "start", "unrow"},
           op \in {"freeze", "unfreeze", "resize", "push"}
              => /\ rows'[n] = rows[n] /\ disks'[n] = disks[n]
                 /\ rows[n].rowid \in taps => rows[n].rowid \in taps'
    PROVE  Serving(op, n, t)'
<1>1. s # <<"save">>
  <2>1. Head(<<"save">>) = "save"
    OBVIOUS
  <2> QED
    BY <2>1
<1>2. Has(t, "save") => Has(s, "save") /\ (Has(s, "start") => Has(t, "start"))
  BY DEF Without
<1>3. /\ Has(s, "unrow") => Has(t, "unrow")
      /\ Has(s, "save") => Has(t, "save")
  BY DEF Without
<1> QED
  BY <1>1, <1>2, <1>3 DEF Serving

\* A command that has started a VM saves its row as running.
LEMMA SaveServes ==
    ASSUME Belongings, Serves, StartedAreSaved, NEW p \in Procs, Save(p),
           NEW op, op = cmd[p].op, op \in Starters, NEW n, n = cmd[p].name
    PROVE  Served(p, op, n)
<1>0. Ownership /\ IInv /\ CopiesUpToDate
  BY DEF Belongings, Ownership
<1>1. At(p, "save")
  BY DEF Save
<1>2. PICK s, c : s = cmd[p].todo /\ c = cmd[p].copy
  OBVIOUS
<1>3. Serving(op, n, s) /\ Tail(s) = <<>> /\ op \notin {"load", "freeze", "route"}
  BY <1>1, <1>2, ServerAt DEF Serving, Starters
<1>4. Without(s, "save", <<>>)
  BY <1>1, <1>2, <1>3, TailIsWithout
<1>5. HasVM(n)
  BY <1>3, <1>4, EmptyHasNothing DEF Serving, Without
<1>6. /\ Takes(p, <<>>, c) /\ vms' = vms
      /\ rows'[n].status = StatusAfter(op, c.status)
  BY <1>0, <1>2, <1>3, SaveOutcome
<1>7. StatusAfter(op, c.status) = "running"
  <2>1. op = "resize" => c.status = "running"
    BY <1>0, <1>1, <1>2, VMPlanAt DEF UpToDate
  <2> QED
    BY <1>3, <2>1 DEF StatusAfter
<1>8. HasVM(n)'
  BY <1>5, <1>6 DEF HasVM
<1>9. Settled(n)'
  BY <1>6, <1>7, <1>8 DEF Settled
<1> QED
  BY <1>6, <1>9, ServingIsServed

LEMMA StartServes ==
    ASSUME Belongings, Serves, NEW p \in Procs, NEW op, op = cmd[p].op,
           NEW n, n = cmd[p].name, Start(p),
           op = "unfreeze" \/ (op = "resize" /\ <<"resize", "start">> \notin MayFail)
    PROVE  Served(p, op, n)
<1>0. Ownership /\ IInv /\ CopiesUpToDate /\ TypeOK /\ disks \in [Names -> Disk]
  BY DEF Belongings, Ownership, IInv, TypeOK
<1>1. At(p, "start") /\ rows' = rows /\ taps' = taps
  BY <1>0, StartOutcome
<1>2. PICK s, c : s = cmd[p].todo /\ c = cmd[p].copy
  OBVIOUS
<1>3. Serving(op, n, s) /\ n \in Names
  BY <1>1, <1>2, ServerAt
<1>4. CASE /\ disks' = [disks EXCEPT ![n] = n]
           /\ \E v, y : vms' = vms \cup {v} /\ v.name = n /\ Takes(p, <<"save">>, y)
  <2>1. PICK v, y : vms' = vms \cup {v} /\ v.name = n /\ Takes(p, <<"save">>, y)
    BY <1>4
  <2>2. disks'[n] = n
    BY <1>0, <1>3, <1>4
  <2>3. HasVM(n)'
    BY <2>1 DEF HasVM
  <2>4. Has(<<"save">>, "save")
    BY DEF Has
  <2>5. Serving(op, n, <<"save">>)'
    BY <1>1, <1>3, <2>2, <2>3, <2>4 DEF Serving
  <2> QED
    BY <2>1, <2>5, ServingIsServed
<1>5. CASE /\ ~CanStart(p) \/ MayFailAt(p, "start")
           /\ disks' = disks /\ Takes(p, Cleanup(op, "start"), c)
  <2>1. CASE op = "unfreeze"
    <3>1. Cleanup(op, "start") = <<>>
      BY <2>1 DEF Cleanup
    <3>2. Settled(n)'
      BY <1>1, <1>3, <1>5, <2>1 DEF Settled, Serving
    <3>3. Takes(p, <<>>, c)
      BY <1>5, <3>1
    <3> QED
      BY <3>2, <3>3, ServingIsServed
  <2>2. CASE op = "resize" /\ <<"resize", "start">> \notin MayFail
    <3>1. ~MayFailAt(p, "start")
      BY <2>2 DEF MayFailAt
    <3>2. disks[n] = n /\ rows[n].rowid \in taps
      BY <1>3, <2>2 DEF Serving
    <3>3. disks[n] # "none"
      BY <1>3, <3>2, NamesAssumption
    <3>4. c.net = rows[n].rowid
      <4>1. /\ UpToDate(op, s, c, rows[n]) /\ Has(s, "save") /\ ~Has(s, "register")
        BY <1>0, <1>1, <1>2, VMPlanAt
      <4> QED
        BY <4>1 DEF UpToDate
    <3>5. ASSUME NEW v \in vms
          PROVE  v.net # c.net
      <4>1. v.name # n
        BY <1>0, <1>1, NoVMAt
      <4>2. /\ v.name \in Names /\ v.net = rows[v.name].rowid /\ rows[v.name].rowid # 0
        BY <1>0 DEF Ownership, VMsAreOwned, Owned, Present, TypeOK, VM
      <4> QED
        BY <1>0, <1>3, <3>4, <4>1, <4>2 DEF IInv, RowsKeepIndex
    <3>6. CanStart(p)
      BY <1>2, <3>2, <3>3, <3>4, <3>5 DEF CanStart
    <3> QED
      BY <1>5, <3>1, <3>6
  <2> QED
    BY <2>1, <2>2
<1> QED
  BY <1>0, <1>2, <1>4, <1>5, StartOutcome

LEMMA DestroyServes ==
    ASSUME Belongings, Serves, StatusIsKept, NEW p \in Procs, Step(p),
           NEW op, op = cmd[p].op, op = "destroy", NEW n, n = cmd[p].name
    PROVE  Served(p, op, n)
<1>0. Ownership /\ CommandsFit /\ IInv /\ CopiesUpToDate /\ TypeOK
  BY DEF Belongings, Ownership, IInv
<1>1. PICK s, c : s = cmd[p].todo /\ c = cmd[p].copy
  OBVIOUS
<1>2. ASSUME NEW step, At(p, step), step # "unrow", step # "save", step # "start",
             NEW y, Takes(p, Tail(s), y)
      PROVE  Served(p, op, n)
  <2>1. PICK t : t = Tail(s)
    OBVIOUS
  <2>2. Without(s, step, t) /\ Serving(op, n, s) /\ Head(s) = step
    <3>1. Without(s, step, t)
      BY <1>1, <1>2, <2>1, TailIsWithout
    <3>2. Serving(op, n, s)
      BY <1>1, <1>2, ServerAt
    <3>3. Head(s) = step
      BY <1>1, <1>2 DEF At
    <3> QED
      BY <3>1, <3>2, <3>3
  <2>3. Serving(op, n, t)'
    BY <1>2, <2>2, GoingOnServes
  <2> QED
    BY <1>2, <2>1, <2>3, ServingIsServed
<1>3. CASE Unrow(p)
  <2>1. At(p, "unrow")
    BY <1>3 DEF Unrow
  <2>2. Takes(p, Tail(s), c) /\ rows'[n] = NoProject
    BY <1>0, <1>1, <1>3, UnrowOutcome DEF StatusIsKept, MayFailAt
  <2>3. Tail(s) = <<>>
    BY <1>0, <1>1, <2>1, UnrowIsLast
  <2>4. NoProject.rowid = 0 /\ NoProject.status = "none"
    BY DEF NoProject
  <2>5. Settled(n)'
    BY <2>2, <2>4 DEF Settled, Present
  <2>6. Takes(p, <<>>, c)
    BY <2>2, <2>3
  <2> QED
    BY <2>5, <2>6, ServingIsServed
<1>4. CASE Kill(p)
  <2>1. At(p, "kill") /\ \E y : Takes(p, Tail(s), y)
    BY <1>0, <1>1, <1>4, KillOutcome
  <2> QED
    BY <1>2, <2>1
<1>5. CASE Untap(p) \/ Undisk(p) \/ Unbridge(p) \/ (Count(p) /\ Advance(p))
  <2>1. PICK step \in {"untap", "undisk", "unbridge", "count"} : At(p, step) /\ Advance(p)
    BY <1>5 DEF Untap, Undisk, Unbridge, Count
  <2>2. Takes(p, Tail(s), c)
    BY <1>0, <1>1, <2>1, EndsTake DEF At
  <2> QED
    BY <1>2, <2>1, <2>2
<1>6. CASE Count(p) /\ ~Advance(p)
  <2>1. At(p, "count") /\ Continue(p, [cmd[p] EXCEPT !.todo = Tail(Tail(@))])
    BY <1>6 DEF Count
  <2>2. PICK t : t = Tail(Tail(s))
    OBVIOUS
  <2>3. Serving(op, n, s)
    BY <1>1, <2>1, ServerAt
  <2>4. Takes(p, t, c) /\ Has(t, "unrow")
    BY <1>0, <1>1, <2>1, <2>2, <2>3, CountTakes DEF Serving
  <2>5. Serving(op, n, t)'
    BY <2>4 DEF Serving, Starters
  <2> QED
    BY <2>4, <2>5, ServingIsServed
<1>7. CASE ~(Unrow(p) \/ Kill(p) \/ Untap(p) \/ Undisk(p) \/ Unbridge(p) \/ Count(p))
  <2>1. PICK step \in {"register", "save", "tap", "ensure", "disk", "init", "grow", "copy",
                       "pull", "upload", "start", "snapshot"} : At(p, step)
    BY <1>7 DEF Step, StepOnStore, StepOnNetwork, StepOnDisk, StepOnVM, Register, Save, Tap,
                Ensure, MakeDisk, PrepareDisk, CopyDisk, Pull, Upload, Start, Snapshot
  <2>2. step \in StepsOf(op)
    BY <2>1, ServerAt
  <2> QED
    BY <2>1, <2>2 DEF StepsOf
<1> QED
  BY <1>3, <1>4, <1>5, <1>6, <1>7

LEMMA StayingAt ==
    ASSUME Belongings, Serves, NEW p \in Procs, NEW step, At(p, step)
    PROVE  /\ cmd[p].op \in {"freeze", "unfreeze", "resize", "push"}
                 => disks[cmd[p].name] = cmd[p].name
           /\ cmd[p].op \in {"unfreeze", "push"} => rows[cmd[p].name].status = "frozen"
<1>1. PICK s, op, n : s = cmd[p].todo /\ op = cmd[p].op /\ n = cmd[p].name
  OBVIOUS
<1>2. Serving(op, n, s)
  BY <1>1, ServerAt
<1> QED
  BY <1>1, <1>2 DEF Serving

\* freeze, unfreeze, resize and push go on while row and disk stay.
LEMMA StayingServes ==
    ASSUME Belongings, Serves, NEW p \in Procs, NEW op, op = cmd[p].op,
           op \in {"freeze", "unfreeze", "resize", "push"}, NEW n, n = cmd[p].name,
           NEW step, At(p, step), step \notin {"save", "start", "unrow"},
           NEW y, Takes(p, Tail(cmd[p].todo), y),
           rows' = rows, disks' = disks, taps \subseteq taps'
    PROVE  Served(p, op, n)
<1>1. PICK s, t : s = cmd[p].todo /\ t = Tail(s)
  OBVIOUS
<1>2. Serving(op, n, s) /\ Head(s) = step
  BY <1>1, ServerAt
<1>3. Without(s, step, t)
  BY <1>1, TailIsWithout
<1>4. Serving(op, n, t)'
  BY <1>2, <1>3, GoingOnServes
<1> QED
  BY <1>1, <1>4, ServingIsServed

LEMMA FreezeServes ==
    ASSUME Belongings, Serves, StartedAreSaved, StatusIsKept, NEW p \in Procs, Step(p),
           NEW op, op = cmd[p].op, op = "freeze", NEW n, n = cmd[p].name
    PROVE  Served(p, op, n)
<1>0. Ownership /\ CommandsFit /\ IInv /\ CopiesUpToDate /\ TypeOK
  BY DEF Belongings, Ownership, IInv
<1>1. CASE Snapshot(p)
  <2>1. At(p, "snapshot") /\ rows' = rows /\ disks' = disks /\ taps' = taps /\ Advance(p)
    BY <1>1 DEF Snapshot, network
  <2>2. Takes(p, Tail(cmd[p].todo), cmd[p].copy)
    BY <1>0, <2>1, EndsTake DEF At
  <2> QED
    BY <2>1, <2>2, StayingServes
<1>2. CASE Kill(p)
  <2>1. /\ At(p, "kill") /\ rows' = rows /\ disks' = disks /\ taps' = taps
        /\ \E y : Takes(p, Tail(cmd[p].todo), y)
    BY <1>0, <1>2, KillOutcome
  <2> QED
    BY <2>1, StayingServes
<1>3. CASE Save(p)
  <2>1. At(p, "save") /\ disks' = disks
    BY <1>3 DEF Save, storage
  <2>2. PICK c : c = cmd[p].copy
    OBVIOUS
  <2>3. Takes(p, <<>>, c) /\ rows'[n].status = StatusAfter(op, c.status)
    BY <1>0, <1>3, <2>2, SaveOutcome DEF StatusIsKept, MayFailAt
  <2>4. disks[n] = n
    BY <2>1, StayingAt
  <2>5. rows'[n].status = "frozen"
    BY <2>3 DEF StatusAfter
  <2>6. Settled(n)'
    BY <2>1, <2>4, <2>5 DEF Settled
  <2> QED
    BY <2>3, <2>6, ServingIsServed
<1>4. CASE ~(Snapshot(p) \/ Kill(p) \/ Save(p))
  <2>1. PICK step \in Steps \ {"snapshot", "kill", "save"} : At(p, step)
    BY <1>4 DEF Step, StepOnStore, StepOnNetwork, StepOnDisk, StepOnVM, Register, Unrow, Tap,
                Ensure, Untap, Count, Unbridge, MakeDisk, PrepareDisk, CopyDisk, Pull, Undisk,
                Upload, Start, Steps
  <2>2. step \in StepsOf(op)
    BY <2>1, ServerAt
  <2> QED
    BY <2>1, <2>2 DEF StepsOf
<1> QED
  BY <1>1, <1>2, <1>3, <1>4

LEMMA UnfreezeServes ==
    ASSUME Belongings, Serves, StartedAreSaved, NEW p \in Procs, Step(p),
           NEW op, op = cmd[p].op, op = "unfreeze", NEW n, n = cmd[p].name
    PROVE  Served(p, op, n)
<1>0. Ownership /\ CommandsFit /\ IInv /\ CopiesUpToDate /\ TypeOK
  BY DEF Belongings, Ownership, IInv
<1>1. CASE Ensure(p)
  <2>1. At(p, "ensure") /\ rows' = rows /\ disks' = disks /\ taps \subseteq taps'
    BY <1>1 DEF Ensure, storage
  <2>2. CASE Advance(p)
    <3>1. Takes(p, Tail(cmd[p].todo), cmd[p].copy)
      BY <1>0, <2>1, <2>2, EndsTake DEF At
    <3> QED
      BY <2>1, <3>1, StayingServes
  <2>3. CASE Fails(p, "ensure")
    <3>1. Cleanup(op, "ensure") = <<>>
      BY DEF Cleanup
    <3>2. Takes(p, <<>>, cmd[p].copy)
      <4>1. Takes(p, Cleanup(op, "ensure"), cmd[p].copy)
        BY <1>0, <2>1, <2>3, EndsTake DEF At
      <4> QED
        BY <3>1, <4>1
    <3>3. rows[n].status = "frozen" /\ disks[n] = n
      BY <2>1, StayingAt
    <3>4. Settled(n)'
      BY <2>1, <3>3 DEF Settled
    <3> QED
      BY <3>2, <3>4, ServingIsServed
  <2> QED
    BY <1>1, <2>2, <2>3 DEF Ensure
<1>2. CASE Start(p)
  BY <1>2, StartServes
<1>3. CASE Save(p)
  BY <1>3, SaveServes DEF Starters
<1>4. CASE ~(Ensure(p) \/ Start(p) \/ Save(p))
  <2>1. PICK step \in Steps \ {"ensure", "start", "save"} : At(p, step)
    BY <1>4 DEF Step, StepOnStore, StepOnNetwork, StepOnDisk, StepOnVM, Register, Unrow, Tap,
                Untap, Count, Unbridge, MakeDisk, PrepareDisk, CopyDisk, Pull, Undisk,
                Upload, Kill, Snapshot, Steps
  <2>2. step \in StepsOf(op)
    BY <2>1, ServerAt
  <2> QED
    BY <2>1, <2>2 DEF StepsOf
<1> QED
  BY <1>1, <1>2, <1>3, <1>4

LEMMA ResizeServes ==
    ASSUME Belongings, Serves, StartedAreSaved, StatusIsKept, NEW p \in Procs, Step(p),
           NEW op, op = cmd[p].op, op = "resize", NEW n, n = cmd[p].name
    PROVE  Served(p, op, n)
<1>0. Ownership /\ CommandsFit /\ IInv /\ CopiesUpToDate /\ TypeOK
  BY DEF Belongings, Ownership, IInv
<1>1. ASSUME NEW step, At(p, step), step \in {"grow", "ensure"}, Advance(p),
             rows' = rows, disks' = disks, taps \subseteq taps'
      PROVE  Served(p, op, n)
  <2>1. Takes(p, Tail(cmd[p].todo), cmd[p].copy)
    BY <1>0, <1>1, EndsTake DEF At
  <2> QED
    BY <1>1, <2>1, StayingServes
<1>2. CASE Ensure(p)
  <2>1. rows' = rows /\ disks' = disks /\ taps \subseteq taps' /\ Advance(p)
    BY <1>2 DEF Ensure, storage
  <2> QED
    BY <1>1, <1>2, <2>1 DEF Ensure
<1>3. CASE PrepareDisk(p)
  <2>1. PICK step \in {"init", "grow"} :
           At(p, step) /\ (Advance(p) \/ MayFailAt(p, step))
    BY <1>3 DEF PrepareDisk
  <2>2. step = "grow"
    <3>1. step \in StepsOf(op)
      BY <2>1, ServerAt
    <3> QED
      BY <3>1 DEF StepsOf
  <2>3. rows' = rows /\ disks' = disks /\ taps' = taps
    BY <1>3 DEF PrepareDisk, network, storage
  <2>4. ~MayFailAt(p, "grow")
    BY DEF StatusIsKept, MayFailAt
  <2> QED
    BY <1>1, <2>1, <2>2, <2>3, <2>4
<1>4. CASE Kill(p)
  <2>1. /\ At(p, "kill") /\ rows' = rows /\ disks' = disks /\ taps' = taps
        /\ \E y : Takes(p, Tail(cmd[p].todo), y)
    BY <1>0, <1>4, KillOutcome
  <2> QED
    BY <2>1, StayingServes
<1>5. CASE Start(p)
  BY <1>5, StartServes DEF StatusIsKept
<1>6. CASE Save(p)
  BY <1>6, SaveServes DEF Starters
<1>7. CASE ~(Ensure(p) \/ PrepareDisk(p) \/ Kill(p) \/ Start(p) \/ Save(p))
  <2>1. PICK step \in Steps \ {"ensure", "grow", "kill", "start", "save"} : At(p, step)
    BY <1>7 DEF Step, StepOnStore, StepOnNetwork, StepOnDisk, StepOnVM, Register, Unrow, Tap,
                Untap, Count, Unbridge, MakeDisk, CopyDisk, Pull, Undisk, Upload, Snapshot,
                Steps
  <2>2. step \in StepsOf(op)
    BY <2>1, ServerAt
  <2> QED
    BY <2>1, <2>2 DEF StepsOf
<1> QED
  BY <1>2, <1>3, <1>4, <1>5, <1>6, <1>7

LEMMA PushServes ==
    ASSUME Belongings, Serves, NEW p \in Procs, Step(p),
           NEW op, op = cmd[p].op, op = "push", NEW n, n = cmd[p].name
    PROVE  Served(p, op, n)
<1>0. Ownership /\ CommandsFit /\ IInv /\ CopiesUpToDate /\ TypeOK
  BY DEF Belongings, Ownership, IInv
<1>1. CASE Upload(p)
  <2>1. At(p, "upload") /\ rows' = rows /\ disks' = disks /\ taps' = taps
    BY <1>1 DEF Upload, network
  <2>2. CASE Advance(p)
    <3>1. Takes(p, Tail(cmd[p].todo), cmd[p].copy)
      BY <1>0, <2>1, <2>2, EndsTake DEF At
    <3> QED
      BY <2>1, <3>1, StayingServes
  <2>3. CASE Fails(p, "upload")
    <3>1. Cleanup(op, "upload") = <<>>
      BY DEF Cleanup
    <3>2. Takes(p, <<>>, cmd[p].copy)
      <4>1. Takes(p, Cleanup(op, "upload"), cmd[p].copy)
        BY <1>0, <2>1, <2>3, EndsTake DEF At
      <4> QED
        BY <3>1, <4>1
    <3>3. rows[n].status = "frozen" /\ disks[n] = n
      BY <2>1, StayingAt
    <3>4. Settled(n)'
      BY <2>1, <3>3 DEF Settled
    <3> QED
      BY <3>2, <3>4, ServingIsServed
  <2> QED
    BY <1>1, <2>2, <2>3 DEF Upload
<1>2. CASE Unrow(p)
  <2>1. At(p, "unrow") /\ disks' = disks
    BY <1>2 DEF Unrow, storage
  <2>2. /\ Takes(p, Tail(cmd[p].todo), cmd[p].copy)
        /\ rows'[n] = NoProject \/ rows' = rows
    BY <1>0, <1>2, UnrowOutcome
  <2>3. Tail(cmd[p].todo) = <<>>
    BY <1>0, <2>1, UnrowIsLast
  <2>4. NoProject.rowid = 0 /\ NoProject.status = "none"
    BY DEF NoProject
  <2>5. rows[n].status = "frozen" /\ disks[n] = n
    BY <2>1, StayingAt
  <2>6. Settled(n)'
    BY <2>1, <2>2, <2>4, <2>5 DEF Settled, Present
  <2>7. Takes(p, <<>>, cmd[p].copy)
    BY <2>2, <2>3
  <2> QED
    BY <2>6, <2>7, ServingIsServed
<1>3. CASE ~(Upload(p) \/ Unrow(p))
  <2>1. PICK step \in Steps \ {"upload", "unrow"} : At(p, step)
    BY <1>3 DEF Step, StepOnStore, StepOnNetwork, StepOnDisk, StepOnVM, Register, Save, Tap,
                Ensure, Untap, Count, Unbridge, MakeDisk, PrepareDisk, CopyDisk, Pull, Undisk,
                Start, Kill, Snapshot, Steps
  <2>2. step \in StepsOf(op)
    BY <2>1, ServerAt
  <2> QED
    BY <2>1, <2>2 DEF StepsOf
<1> QED
  BY <1>1, <1>2, <1>3

\* How a step ends.
LEMMA StepEnds ==
    ASSUME Belongings, StartedAreSaved, NEW p \in Procs, Step(p), ~Count(p),
           NEW op, op = cmd[p].op, NEW n, n = cmd[p].name, NEW s, s = cmd[p].todo
    PROVE  \E step, t, y :
              /\ At(p, step) /\ Takes(p, t, y)
              /\ \/ t = Tail(s) /\ step \notin {"start", "save"}
                 \/ t = Cleanup(op, step)
                 \/ t = <<>>
                 \/ t = <<"save">> /\ HasVM(n)'
<1> DEFINE Goal == \E step, t, y :
                      /\ At(p, step) /\ Takes(p, t, y)
                      /\ \/ t = Tail(s) /\ step \notin {"start", "save"}
                         \/ t = Cleanup(op, step)
                         \/ t = <<>>
                         \/ t = <<"save">> /\ HasVM(n)'
<1> SUFFICES Goal
  OBVIOUS
<1>0. Ownership /\ TypeOK /\ Plans
  BY DEF Belongings, Ownership, IInv, CommandsInv
<1>1. ASSUME NEW step, At(p, step), step \notin {"start", "save"}, Advance(p) \/ Fails(p, step)
      PROVE  Goal
  <2>1. CASE Advance(p)
    <3>1. Takes(p, Tail(s), cmd[p].copy)
      BY <1>0, <1>1, <2>1, EndsTake DEF At
    <3> QED
      BY <1>1, <3>1
  <2>2. CASE Fails(p, step)
    <3>1. Takes(p, Cleanup(op, step), cmd[p].copy)
      BY <1>0, <1>1, <2>2, EndsTake DEF At
    <3> QED
      BY <1>1, <3>1
  <2> QED
    BY <1>1, <2>1, <2>2
<1>2. ASSUME NEW step, At(p, step), step \notin {"start", "save"},
             NEW t, NEW y, Takes(p, t, y), t = Tail(s) \/ t = Cleanup(op, step)
      PROVE  Goal
  BY <1>2
<1>3. CASE Save(p)
  <2>1. At(p, "save") /\ Takes(p, <<>>, cmd[p].copy)
    <3>1. At(p, "save")
      BY <1>3 DEF Save
    <3> QED
      BY <1>0, <1>3, <3>1, SaveOutcome
  <2> QED
    BY <2>1
<1>4. CASE Start(p)
  <2>1. At(p, "start")
    BY <1>4 DEF Start
  <2>2. \/ Takes(p, Cleanup(op, "start"), cmd[p].copy)
        \/ \E v, y : vms' = vms \cup {v} /\ v.name = n /\ Takes(p, <<"save">>, y)
    BY <1>0, <1>4, StartOutcome
  <2>3. CASE Takes(p, Cleanup(op, "start"), cmd[p].copy)
    BY <2>1, <2>3
  <2>4. CASE \E v, y : vms' = vms \cup {v} /\ v.name = n /\ Takes(p, <<"save">>, y)
    <3>1. PICK v, y : vms' = vms \cup {v} /\ v.name = n /\ Takes(p, <<"save">>, y)
      BY <2>4
    <3>2. HasVM(n)'
      BY <3>1 DEF HasVM
    <3> QED
      BY <2>1, <3>1, <3>2
  <2> QED
    BY <2>2, <2>3, <2>4
<1> HIDE DEF Goal
<1>5. CASE Register(p)
  <2>1. At(p, "register")
    BY <1>5 DEF Register
  <2>2. PICK t, y : Takes(p, t, y) /\ (t = Tail(s) \/ t = Cleanup(op, "register"))
    BY <1>0, <1>5, RegisterOutcome
  <2> QED
    BY <1>2, <2>1, <2>2
<1>6. CASE Kill(p)
  <2>1. At(p, "kill") /\ \E y : Takes(p, Tail(s), y)
    BY <1>0, <1>6, KillOutcome
  <2> QED
    BY <1>2, <2>1
<1>7. CASE Unrow(p) \/ Tap(p) \/ Ensure(p) \/ Untap(p) \/ Unbridge(p)
  BY <1>1, <1>7 DEF Unrow, Tap, Ensure, Untap, Unbridge
<1>8. CASE MakeDisk(p) \/ PrepareDisk(p) \/ CopyDisk(p)
  BY <1>1, <1>8 DEF MakeDisk, PrepareDisk, CopyDisk
<1>9. CASE Pull(p) \/ Undisk(p) \/ Upload(p) \/ Snapshot(p)
  BY <1>1, <1>9 DEF Pull, Undisk, Upload, Snapshot
<1> QED
  BY <1>3, <1>4, <1>5, <1>6, <1>7, <1>8, <1>9
  DEF Step, StepOnStore, StepOnNetwork, StepOnDisk, StepOnVM

LEMMA TakesOnce ==
    ASSUME NEW p \in Procs, cmd[p].op # "none", NEW t, NEW y, Takes(p, t, y),
           NEW u, NEW z, Takes(p, u, z)
    PROVE  t = u
<1>1. Idle.op = "none"
  BY DEF Idle
<1> QED
  BY <1>1 DEF Takes, Moves

\* A deploy or a clone starts its VM before its Save.
LEMMA MakerStarts ==
    ASSUME Belongings, Serves, StartedAreSaved, NEW p \in Procs, Step(p), Maker(p),
           NEW n, n = cmd[p].name, NEW t, NEW y, Takes(p, t, y), Has(t, "save")
    PROVE  Has(t, "start") \/ (t = <<"save">> /\ HasVM(n)')
<1>1. PICK op, s : op = cmd[p].op /\ s = cmd[p].todo
  OBVIOUS
<1>2. op \in Starters /\ op # "none" /\ op # "destroy" /\ op \in {"deploy", "clone"}
  BY <1>1 DEF Maker, Starters
<1>3. ~Count(p)
  <2>1. ASSUME Count(p) PROVE FALSE
    <3>1. At(p, "count")
      BY <2>1 DEF Count
    <3>2. "count" \in StepsOf(op)
      BY <1>1, <3>1, ServerAt
    <3> QED
      BY <1>2, <3>2 DEF StepsOf
  <2> QED
    BY <2>1
<1>4. PICK step, u, z :
         /\ At(p, step) /\ Takes(p, u, z)
         /\ \/ u = Tail(s) /\ step \notin {"start", "save"}
            \/ u = Cleanup(op, step)
            \/ u = <<>>
            \/ u = <<"save">> /\ HasVM(n)'
  BY <1>1, <1>3, StepEnds
<1>5. t = u
  BY <1>1, <1>2, <1>4, TakesOnce
<1>6. ~Has(<<>>, "save")
  BY EmptyHasNothing
<1>7. u # Cleanup(op, step)
  BY <1>5, CleanupFits
<1>8. CASE u = Tail(s) /\ step \notin {"start", "save"}
  <2>1. Without(s, step, t)
    BY <1>1, <1>4, <1>5, <1>8, TailIsWithout
  <2>2. Serving(op, n, s) /\ Head(s) = step
    BY <1>1, <1>4, ServerAt
  <2>3. s # <<"save">>
    <3>1. Head(<<"save">>) = "save"
      OBVIOUS
    <3> QED
      BY <1>8, <2>2, <3>1
  <2>4. Has(s, "save")
    BY <2>1 DEF Without
  <2>5. Has(s, "start")
    BY <1>2, <2>2, <2>3, <2>4 DEF Serving
  <2> QED
    BY <1>8, <2>1, <2>5 DEF Without
<1> QED
  BY <1>4, <1>5, <1>6, <1>7, <1>8

LEMMA MakerServes ==
    ASSUME Belongings, Belongings', Makers, Serves, StartedAreSaved, RowsAreRemoved,
           NEW p \in Procs, Step(p), Maker(p), NEW op, op = cmd[p].op,
           NEW n, n = cmd[p].name
    PROVE  Served(p, op, n)
<1>0. /\ Ownership /\ IInv /\ TypeOK /\ Plans /\ Copies /\ n \in Names
      /\ op \in {"deploy", "clone"} /\ cmd[p].todo # <<>>
  BY MakerWorks DEF Belongings, Ownership, IInv, CommandsInv, Maker
<1>1. CASE Save(p)
  BY <1>0, <1>1, SaveServes DEF Starters
<1>2. CASE ~Save(p)
  <2>1. PICK t, y : Takes(p, t, y) /\ Making(n, t, y)'
    BY MakerMakes
  <2>2. rows'[n].status \in {"none", "creating"}
    <3>1. rows[n].status \in {"none", "creating"}
      BY <1>0 DEF Copies, Consistent
    <3>2. CASE Register(p)
      BY <1>0, <3>1, <3>2, RegisterOutcome
    <3>3. CASE Unrow(p)
      <4>1. NoProject.status = "none"
        BY DEF NoProject
      <4> QED
        BY <1>0, <3>1, <3>3, <4>1, UnrowOutcome
    <3>4. CASE StepOnNetwork(p) \/ StepOnDisk(p) \/ StepOnVM(p)
      <4>1. rows' = rows
        BY <1>0, <3>4, HostStepGoesOn
      <4> QED
        BY <3>1, <4>1
    <3> QED
      BY <1>2, <3>2, <3>3, <3>4 DEF Step, StepOnStore
  <2>3. ASSUME t = <<>>
        PROVE  Settled(n)'
    <3>1. ~Present(rows, n)'
      BY <2>1, <2>2, <2>3, EmptyHasNothing DEF Making
    <3> QED
      BY <2>2, <3>1 DEF Settled
  <2>4. Serving(op, n, t)'
    <3>1. Has(t, "save") => Has(t, "start") \/ (t = <<"save">> /\ HasVM(n)')
      BY <2>1, MakerStarts
    <3> QED
      BY <1>0, <3>1 DEF Serving
  <2> QED
    BY <2>1, <2>3, <2>4 DEF Served
<1> QED
  BY <1>1, <1>2

LEMMA StepServes ==
    ASSUME Belongings, Belongings', Makers, Serves, StartedAreSaved, RowsAreRemoved,
           StatusIsKept, NEW p \in Procs, Step(p), NEW op, op = cmd[p].op,
           NEW n, n = cmd[p].name
    PROVE  Served(p, op, n)
<1>2. op \in Ops \cup {"none"} /\ op \notin {"none", "load", "route"}
  <2>1. cmd[p] \in Command
    BY DEF Belongings, Ownership, IInv, TypeOK
  <2>2. cmd[p].todo # <<>>
    BY StepIsAlone
  <2> QED
    BY <2>1, <2>2 DEF Command, Serves, Serving
<1>3. CASE op \in {"deploy", "clone"}
  BY <1>3, MakerServes DEF Maker
<1>4. CASE op = "destroy"
  BY <1>4, DestroyServes
<1>5. CASE op = "freeze"
  BY <1>5, FreezeServes
<1>6. CASE op = "unfreeze"
  BY <1>6, UnfreezeServes
<1>7. CASE op = "resize"
  BY <1>7, ResizeServes
<1>8. CASE op = "push"
  BY <1>8, PushServes
<1> QED
  BY <1>2, <1>3, <1>4, <1>5, <1>6, <1>7, <1>8 DEF Ops

\* A project on which nobody takes a step stays as it is.
LEMMA OthersStay ==
    ASSUME IInv, NEW n, Elsewhere(n), NEW m \in Names, m # n
    PROVE  /\ \A op, t : Serving(op, m, t) => Serving(op, m, t)'
           /\ Settled(m) => Settled(m)'
<1>1. rows'[m] = rows[m] /\ disks'[m] = disks[m]
  BY DEF Elsewhere
<1>2. HasVM(m) => HasVM(m)'
  BY DEF Elsewhere, HasVM
<1>3. rows[m].status = "running" => (rows[m].rowid \in taps => rows[m].rowid \in taps')
  BY DEF Elsewhere, IInv, RowsKeepIndex, Present
<1> QED
  BY <1>1, <1>2, <1>3 DEF Serving, Settled, Present

LEMMA StepKeepsServes ==
    ASSUME Belongings, Belongings', Makers, Serves, AllSettled, StartedAreSaved,
           RowsAreRemoved, StatusIsKept, NEW p \in Procs, Step(p)
    PROVE  Serves' /\ AllSettled'
<1>1. PICK op, n : op = cmd[p].op /\ n = cmd[p].name
  OBVIOUS
<1>2. IInv /\ TypeOK
  BY DEF Belongings, Ownership, IInv
<1>3. /\ n \in Names /\ Elsewhere(n)
      /\ \A q \in Procs \ {p} : /\ cmd'[q] = cmd[q]
                                /\ cmd[q].todo # <<>> => cmd[q].name # n
      /\ cmd'[p] = Idle \/ (cmd'[p].name = n /\ cmd'[p].op = op /\ cmd'[p].todo # <<>>)
  BY <1>1, StepIsAlone
<1>4. Idle.todo = <<>>
  BY DEF Idle
<1>5. PICK t, y : /\ Takes(p, t, y)
                  /\ t # <<>> => Serving(op, n, t)'
                  /\ t = <<>> => Settled(n)'
  <2>1. Served(p, op, n)
    BY <1>1, StepServes
  <2> QED
    BY <2>1 DEF Served
<1>6. /\ t # <<>> => cmd'[p].todo = t
      /\ t = <<>> => cmd'[p] = Idle
  BY <1>5 DEF Takes, Moves
<1>7. ASSUME NEW q \in Procs, cmd'[q].todo # <<>>
      PROVE  Serving(cmd[q].op, cmd[q].name, cmd[q].todo)'
  <2>1. CASE q = p
    <3>1. /\ cmd'[p].name = n /\ cmd'[p].op = op /\ cmd'[p].todo = t /\ Serving(op, n, t)'
      BY <1>3, <1>4, <1>5, <1>6, <1>7, <2>1
    <3> QED
      BY <2>1, <3>1 DEF Serving
  <2>2. CASE q # p
    <3>1. PICK o, m, u : o = cmd[q].op /\ m = cmd[q].name /\ u = cmd[q].todo
      OBVIOUS
    <3>2. cmd'[q] = cmd[q] /\ m # n /\ m \in Names /\ Serving(o, m, u)
      BY <1>2, <1>3, <1>7, <2>2, <3>1 DEF Serves, TypeOK
    <3>3. Serving(o, m, u)'
      BY <1>2, <1>3, <3>2, OthersStay
    <3> QED
      BY <3>1, <3>2, <3>3 DEF Serving
  <2> QED
    BY <2>1, <2>2
<1>8. Serves'
  BY <1>7 DEF Serves
<1>9. ASSUME NEW m \in Names, \A q \in Procs : ~Working(q, m)'
      PROVE  Settled(m)'
  <2>1. CASE m = n
    <3>1. cmd'[p].todo = <<>>
      BY <1>3, <1>4, <1>9, <2>1 DEF Working
    <3>2. Settled(n)'
      BY <1>5, <1>6, <3>1
    <3> QED
      BY <2>1, <3>2 DEF Settled
  <2>2. CASE m # n
    <3>1. \A q \in Procs : ~Working(q, m)
      BY <1>1, <1>3, <1>9, <2>2 DEF Working
    <3>2. Settled(m)
      BY <3>1 DEF AllSettled
    <3> QED
      BY <1>2, <1>3, <2>2, <3>2, OthersStay
  <2> QED
    BY <2>1, <2>2
<1>10. AllSettled'
  BY <1>9 DEF AllSettled, Working
<1> QED
  BY <1>8, <1>10

LEMMA BeginKeepsServes ==
    ASSUME Belongings, Serves, AllSettled, StatusIsKept, Exclusive,
           NEW p \in Procs, BeginCommand(p)
    PROVE  Serves' /\ AllSettled'
<1>1. UNCHANGED <<rows, vms, taps, disks>>
  BY BeginsAs
<1>2. CASE cmd' = cmd
  BY <1>1, <1>2 DEF Serves, AllSettled, Serving, Settled, HasVM, Working, Present
<1>3. ASSUME NEW n \in Names, NEW op, NEW src, NEW copy, NEW todo,
             Begin(p, op, n, src, copy, todo), Begun(op, n, todo)
      PROVE  Serves' /\ AllSettled'
  <2>0. Ownership /\ IInv /\ VMsHaveTheirs
    BY DEF Belongings, Ownership
  <2>1. /\ \A q \in Procs \ {p} : cmd'[q] = cmd[q]
        /\ cmd'[p].op = op /\ cmd'[p].name = n /\ cmd'[p].todo = todo
        /\ cmd[p].todo = <<>> /\ \A q \in Procs : ~Working(q, n)
    BY <1>3, <2>0, BeginTakes
  <2>2. Settled(n)
    BY <2>1 DEF AllSettled
  <2>3. rows[n].status = "running" => disks[n] = n /\ rows[n].rowid \in taps
    <3>1. \A v \in vms : v.name = n => disks[n] = n /\ rows[n].rowid \in taps
      BY <2>0 DEF Ownership, VMsAreOwned, Owned, VMsHaveTheirs
    <3> QED
      BY <2>2, <3>1 DEF Settled, HasVM
  <2>4. /\ rows[n].status = "frozen" => disks[n] = n
        /\ Present(rows, n) => rows[n].status \in {"running", "frozen"}
    BY <2>2 DEF Settled
  <2>5. op \notin {"none", "load", "route"}
    BY <1>3 DEF Begun, StatusIsKept
  <2>6. Serving(op, n, todo)
    <3>1. /\ op \in Starters => Has(todo, "start")
          /\ op = "destroy" => Has(todo, "unrow")
          /\ op = "resize" => Has(todo, "save") /\ rows[n].status = "running"
          /\ op = "freeze" => Has(todo, "save") /\ rows[n].status \in {"running", "frozen"}
          /\ op = "unfreeze" => rows[n].status = "frozen"
          /\ op = "push" => Present(rows, n) /\ rows[n].status # "running"
      BY <1>3 DEF Begun, Starters
    <3> QED
      BY <2>3, <2>4, <2>5, <3>1 DEF Serving
  <2>7. Serving(op, n, todo)'
    BY <1>1, <2>6 DEF Serving, HasVM
  <2>8. ASSUME NEW q \in Procs, cmd'[q].todo # <<>>
        PROVE  Serving(cmd[q].op, cmd[q].name, cmd[q].todo)'
    <3>1. CASE q = p
      BY <2>1, <2>7, <3>1 DEF Serving
    <3>2. CASE q # p
      BY <1>1, <2>1, <2>8, <3>2 DEF Serves, Serving, HasVM
    <3> QED
      BY <3>1, <3>2
  <2>9. AllSettled'
    <3>1. ASSUME NEW m \in Names, \A q \in Procs : ~Working(q, m)'
          PROVE  Settled(m)'
      <4>1. \A q \in Procs : ~Working(q, m)
        BY <2>1, <3>1 DEF Working
      <4>2. Settled(m)
        BY <4>1 DEF AllSettled
      <4> QED
        BY <1>1, <4>2 DEF Settled, HasVM, Present
    <3> QED
      BY <3>1 DEF AllSettled, Working
  <2> QED
    BY <2>8, <2>9 DEF Serves
<1> QED
  BY <1>2, <1>3, BeginsAs

LEMMA ServesIsKept ==
    ASSUME Exclusive, ~Crashes, StartedAreSaved, RowsAreRemoved, StatusIsKept,
           Belongings, Belongings', Makers, Serves, AllSettled, [Next]_vars
    PROVE  Serves' /\ AllSettled'
<1>1. CASE UNCHANGED vars
  BY <1>1 DEF vars, network, storage, Serves, AllSettled, Serving, Settled, HasVM, Working,
              Present
<1> QED
  BY <1>1, StepKeepsServes, BeginKeepsServes DEF Next, Crash, Reboot

LEMMA SettledAtFirst ==
    ASSUME Init
    PROVE  Serves /\ AllSettled
<1>1. Idle.todo = <<>>
  BY DEF Idle
<1>2. NoProject.rowid = 0 /\ NoProject.status = "none"
  BY DEF NoProject
<1> QED
  BY <1>1, <1>2 DEF Init, Serves, AllSettled, Settled, Present

\* What StatusIsTrue says of a project on which nobody works.
LEMMA SettledIsTrue ==
    ASSUME Belongings, AllSettled, NEW n \in Names, \A p \in Procs : cmd[p].name # n,
           NEW own, own = {v \in vms : v.name = n}
    PROVE  /\ rows[n].status = "running"
                 => \E v \in own : /\ own = {v} /\ v.pid = rows[n].pid
                                   /\ v.net = rows[n].net /\ v.link /\ v.disk
           /\ rows[n].status = "frozen" => own = {} /\ disks[n] = n
           /\ rows[n].status \notin {"running", "frozen"} => own = {} /\ ~Present(rows, n)
<1>1. Ownership /\ RowsServe /\ RowsKeepIndex /\ VMsAreOwned
  BY DEF Belongings, Ownership, IInv
<1>2. Settled(n) /\ \A p \in Procs : ~Working(p, n)
  BY DEF AllSettled, Working
<1>3. ASSUME NEW v \in own
      PROVE  /\ v \in vms /\ v.name = n /\ v.link /\ v.disk
             /\ v.net = rows[n].rowid
             /\ RunsAs(v, rows[n]) /\ \A w \in own : w = v
  <2>1. v \in vms /\ v.name = n
    BY <1>3
  <2>2. Owned(v)
    BY <1>1, <2>1 DEF VMsAreOwned
  <2> QED
    BY <1>2, <2>1, <2>2 DEF Owned
<1>4. ASSUME rows[n].status = "running"
      PROVE  \E v \in own : /\ own = {v} /\ v.pid = rows[n].pid
                            /\ v.net = rows[n].net /\ v.link /\ v.disk
  <2>1. PICK v \in own : TRUE
    BY <1>2, <1>4 DEF Settled, HasVM
  <2>2. rows[n].net = rows[n].rowid
    BY <1>1, <1>4 DEF RowsServe, RowsKeepIndex
  <2>3. own = {v}
    BY <1>3, <2>1
  <2> QED
    BY <1>3, <2>1, <2>2, <2>3 DEF RunsAs
<1>5. rows[n].status # "running" => own = {}
  BY <1>3 DEF RunsAs
<1> QED
  BY <1>2, <1>4, <1>5 DEF Settled

\* The row of a project on which nobody works says what is the case
\* (state.go:34), whatever commands on other projects do meanwhile and in
\* spite of every failure but the four that the commands pass over.
THEOREM StatusHolds ==
    ASSUME Exclusive, ~Crashes, StartedAreSaved, RowsAreRemoved, StatusIsKept
    PROVE  Spec => []StatusIsTrue
<1>1. Spec => [](Belongings /\ Makers)
  BY MakersHold
<1>2. Init => Serves /\ AllSettled
  BY SettledAtFirst
<1>3. /\ Belongings /\ Makers /\ Belongings' /\ Serves /\ AllSettled /\ [Next]_vars
         => (Serves /\ AllSettled)'
  BY ServesIsKept
<1>4. Belongings /\ AllSettled => StatusIsTrue
  BY SettledIsTrue DEF StatusIsTrue
<1> QED
  BY <1>1, <1>2, <1>3, <1>4, PTL DEF Spec

-----------------------------------------------------------------------------
(***************************************************************************)
(* The arithmetic of addresses, and that projects do not share any.        *)
(***************************************************************************)

\* An index of up to 255 makes addresses that can be written and that neither
\* the bridge nor the host has (network.go:149-163).
LEMMA IndexMakesAddresses ==
    ASSUME NEW i \in Indexes
    PROVE  Usable(AddressesOf(i))
<1>1. i \in Int /\ i >= 0 /\ i <= 255
  BY DEF Indexes
<1>2. IsGroup(i * 10 + 0 + 2) /\ i * 10 + 0 + 2 # 1 /\ IsGroup(3 + i) /\ 3 + i # 2
  BY <1>1 DEF IsGroup
<1>3. IsIPv4(<<172, 26, i, 2>>) /\ <<172, 26, i, 2>> # <<172, 26, 0, 1>>
  BY <1>1 DEF IsIPv4
<1> QED
  BY <1>2, <1>3 DEF Usable, AddressesOf, AllocateGuestIP, AllocateGuestIPv4, AllocateGuestGlobalIP

\* Two such indexes make no address, MAC or TAP name twice (network.go:149-185).
LEMMA IndexesShareNothing ==
    ASSUME NEW i \in Indexes, NEW j \in Indexes, i # j
    PROVE  NoneShared(AddressesOf(i), AddressesOf(j))
<1>1. i \in Int /\ i >= 0 /\ i <= 255 /\ j \in Int /\ j >= 0 /\ j <= 255
  BY DEF Indexes
<1>2. i * 10 + 0 + 2 # j * 10 + 0 + 2 /\ 3 + i # 3 + j
  BY <1>1
<1>3. <<172, 26, i, 2>> # <<172, 26, j, 2>> /\ <<i, "main">> # <<j, "main">>
  OBVIOUS
<1>4. i % 256 = i /\ j % 256 = j
  BY <1>1
<1>5. GenerateMAC(i, 0) # GenerateMAC(j, 0)
  BY <1>4 DEF GenerateMAC
<1>6. DOMAIN AddressesOf(i) = {"ip", "ipv4", "global", "mac", "tap"}
  BY DEF AddressesOf
<1> QED
  BY <1>2, <1>3, <1>5, <1>6
  DEF NoneShared, AddressesOf, AllocateGuestIP, AllocateGuestIPv4, AllocateGuestGlobalIP, AllocateTapName

\* No two projects in the store share an address, MAC or TAP name, and each
\* has ones that can be used, while indexes stay below 256: whatever fails, is
\* killed or runs beside.
THEOREM OwnAddresses ==
    ASSUME Exclusive
    PROVE  Spec => []RowsHaveOwnAddresses
<1>1. IInv => RowsHaveOwnAddresses
  <2> SUFFICES ASSUME IInv, NEW m \in Names, NEW n \in Names,
                      HasService(rows[m]), IndexOf(rows[m]) \in Indexes,
                      HasService(rows[n]), IndexOf(rows[n]) \in Indexes
               PROVE  /\ Usable(AddressesOf(IndexOf(rows[m])))
                      /\ m # n => NoneShared(AddressesOf(IndexOf(rows[m])),
                                             AddressesOf(IndexOf(rows[n])))
    BY DEF RowsHaveOwnAddresses
  <2>1. Usable(AddressesOf(IndexOf(rows[m])))
    BY IndexMakesAddresses
  <2>2. ASSUME m # n
        PROVE  IndexOf(rows[m]) # IndexOf(rows[n])
    <3>1. rows[m].net = rows[m].rowid /\ rows[n].net = rows[n].rowid
      BY DEF IInv, RowsKeepIndex, HasService
    <3>2. rows[m].net # rows[n].net
      BY <2>2, <3>1 DEF IInv, RowsKeepIndex, HasService
    <3>3. rows[m].net \in Nat /\ rows[n].net \in Nat
      BY DEF IInv, TypeOK, Project
    <3> QED
      BY <3>2, <3>3 DEF IndexOf
  <2> QED
    BY <2>1, <2>2, IndexesShareNothing
<1> QED
  BY <1>1, Invariance, PTL
=============================================================================
