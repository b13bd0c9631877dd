--------------------------- MODULE ArchiveProofs ----------------------------
(***************************************************************************)
(* What Archive keeps for every set of names and processes, size of disk   *)
(* and choice of failures.                                                 *)
(*                                                                         *)
(* IInv follows a push and a load through the code: a frozen disk does not *)
(* change under a push, the object is the disk once Push has returned, and *)
(* a download is a prefix of the object until it has become the disk.  It  *)
(* needs that no two commands are at work on one project.                  *)
(***************************************************************************)
EXTENDS Archive, TLAPS

\* A file with something in it, or none.
Full(f) == f = NoFile \/ f.contents # 0

\* The disk of a project that has run is what its VM has written; without a
\* row it is the object.
NameInOrder(n) ==
    /\ Full(disk[n]) /\ Full(object[n]) /\ Full(latest[n])
    /\ row[n] \in {"running", "frozen"} => disk[n] = latest[n] /\ disk[n] # NoFile
    /\ row[n] \in {"none", "creating"} /\ latest[n] # NoFile
       => object[n] = latest[n] /\ meta[n] = latest[n].contents

\* What the steps of push have established.
PushInOrder(p) ==
    LET n == cmd[p].name
        at == cmd[p].at
    IN /\ row[n] = "frozen"
       /\ at # "meta" => meta[n] = disk[n].contents
       /\ at \in {"meta", "unrow"} => upload[p] = NoUpload
       /\ upload[p].read <= disk[n].len
       /\ at \in {"close", "await"} => upload[p].read = disk[n].len
       /\ at = "unrow" \/ (at = "await" /\ upload[p].at = "stored")
          => object[n] = disk[n]

\* What the steps of load have established.
LoadInOrder(p) ==
    LET n == cmd[p].name
        at == cmd[p].at
    IN /\ row[n] = IF at \in {"tap", "start"} THEN "creating" ELSE "none"
       /\ at \in {"create", "copy", "rename", "register"} => object[n] # NoFile
       /\ at \in {"copy", "rename"} => tmp[n].contents = object[n].contents
                                       /\ tmp[n].len <= object[n].len
       /\ at = "rename" => tmp[n] = object[n]
       /\ at = "register" => disk[n] = object[n]
       /\ at \in {"tap", "start"} => disk[n] # NoFile

ProcInOrder(p) ==
    /\ cmd[p].op = "push" => PushInOrder(p)
    /\ cmd[p].op = "load" => LoadInOrder(p)
    /\ cmd[p].op # "push" => upload[p] = NoUpload

\* Two commands are not at work on one project.
OneCommandPerName ==
    \A p, q \in Procs : cmd[p] # Idle /\ cmd[p].name = cmd[q].name => p = q

IInv ==
    /\ TypeOK
    /\ OneCommandPerName
    /\ \A n \in Names : NameInOrder(n)
    /\ \A p \in Procs : ProcInOrder(p)

\* The inductive invariant holds before any command.
LEMMA InitEstablishes == Init => IInv
  BY ChunksAssumption, NoNameAssumption DEF Init, IInv, TypeOK, OneCommandPerName, NameInOrder, ProcInOrder, Full, NoFile, File, NoUpload, Idle

\* A command that moves to step s keeps its name.
LEMMA MovedTo ==
  ASSUME NEW c \in Command, NEW s
  PROVE  [c EXCEPT !.at = s] = [op |-> c.op, name |-> c.name, at |-> s]
  BY DEF Command

\* Nothing of project n changes.
Untouched(n) ==
    /\ row'[n] = row[n]
    /\ latest'[n] = latest[n]
    /\ disk'[n] = disk[n]
    /\ tmp'[n] = tmp[n]
    /\ meta'[n] = meta[n]
    /\ object'[n] = object[n]

\* A step of process p on the name n of its command leaves the others in order.
LEMMA Frame ==
  ASSUME IInv,
         NEW n \in Names, \A m \in Names : m # n => Untouched(m),
         NEW p \in Procs, cmd[p].name = n \/ \A q \in Procs : cmd[q].name # n,
         NEW c \in Command \cup {Idle}, c = Idle \/ c.name = n,
         cmd' = [cmd EXCEPT ![p] = c],
         \A q \in Procs : q # p => upload'[q] = upload[q],
         TypeOK', NameInOrder(n)', ProcInOrder(p)'
  PROVE  IInv'
<1>1. ASSUME NEW m \in Names PROVE NameInOrder(m)'
  <2>1. CASE m # n
    BY <2>1 DEF Untouched, NameInOrder, IInv, Full, NoFile
  <2> QED BY <2>1
<1>2. OneCommandPerName'
  BY NoNameAssumption DEF OneCommandPerName, IInv, TypeOK, Command, Idle
<1>3. ASSUME NEW q \in Procs PROVE ProcInOrder(q)'
  <2>1. CASE q # p
    <3>1. cmd'[q] = cmd[q] /\ upload'[q] = upload[q] /\ ProcInOrder(q)
      BY <2>1 DEF IInv, TypeOK
    <3>2. ASSUME cmd[q].op \in {"push", "load"} PROVE cmd[q].name \in Names /\ cmd[q].name # n
      BY <2>1, <3>2, NoNameAssumption DEF IInv, TypeOK, Command, Idle, OneCommandPerName
    <3>3. cmd[q].op \in {"push", "load"} => Untouched(cmd[q].name)
      BY <3>2
    <3>4. CASE cmd[q].op = "push"
      <4>1. PushInOrder(q) /\ Untouched(cmd[q].name)
        BY <3>1, <3>3, <3>4 DEF ProcInOrder
      <4>2. PushInOrder(q)'
        BY <3>1, <4>1 DEF PushInOrder, Untouched
      <4> QED BY <3>1, <3>4, <4>2 DEF ProcInOrder
    <3>5. CASE cmd[q].op = "load"
      <4>1. LoadInOrder(q) /\ Untouched(cmd[q].name)
        BY <3>1, <3>3, <3>5 DEF ProcInOrder
      <4>2. LoadInOrder(q)'
        BY <3>1, <4>1 DEF LoadInOrder, Untouched
      <4> QED BY <3>1, <3>5, <4>2 DEF ProcInOrder
    <3> QED BY <3>1, <3>4, <3>5 DEF ProcInOrder
  <2> QED BY <2>1
<1> QED BY <1>1, <1>2, <1>3 DEF IInv

\* Goto, with the record written out.
LEMMA GotoMoves ==
  ASSUME TypeOK, NEW p \in Procs, cmd[p] # Idle, NEW s, Goto(p, s)
  PROVE  cmd' = [cmd EXCEPT ![p] = [op |-> cmd[p].op, name |-> cmd[p].name, at |-> s]]
<1>1. cmd[p] \in Command
  BY DEF TypeOK
<1> QED BY <1>1, MovedTo DEF Goto

\* A step at the same place in the code.
LEMMA StaysAt ==
  ASSUME TypeOK, NEW p \in Procs, cmd[p] # Idle, UNCHANGED cmd
  PROVE  Goto(p, cmd[p].at)
<1>1. cmd[p] \in Command
  BY DEF TypeOK
<1>2. [cmd[p] EXCEPT !.at = cmd[p].at] = cmd[p]
  BY <1>1 DEF Command
<1> QED BY <1>2 DEF Goto, TypeOK

\* What a command that is at one of its steps stands on.
LEMMA PushFacts ==
  ASSUME IInv, NEW p \in Procs, cmd[p].op = "push"
  PROVE  /\ cmd[p] # Idle /\ cmd[p] \in Command
         /\ cmd[p].name \in Names
         /\ NameInOrder(cmd[p].name)
         /\ PushInOrder(p)
  BY DEF IInv, TypeOK, Command, Idle, ProcInOrder

\* The same for load.
LEMMA LoadFacts ==
  ASSUME IInv, NEW p \in Procs, cmd[p].op = "load"
  PROVE  /\ cmd[p] # Idle /\ cmd[p] \in Command
         /\ cmd[p].name \in Names
         /\ NameInOrder(cmd[p].name)
         /\ LoadInOrder(p)
         /\ upload[p] = NoUpload
  BY DEF IInv, TypeOK, Command, Idle, ProcInOrder

Pushing(p, s) == [op |-> "push", name |-> cmd[p].name, at |-> s]

Loading(p, s) == [op |-> "load", name |-> cmd[p].name, at |-> s]

\* Goto of a push is a command of push.
LEMMA PushMoves ==
  ASSUME IInv, NEW p \in Procs, cmd[p].op = "push", NEW s \in PushSteps, Goto(p, s)
  PROVE  cmd' = [cmd EXCEPT ![p] = Pushing(p, s)] /\ Pushing(p, s) \in Command
  BY PushFacts, GotoMoves DEF IInv, Pushing, Command

\* Goto of a load is a command of load.
LEMMA LoadMoves ==
  ASSUME IInv, NEW p \in Procs, cmd[p].op = "load", NEW s \in LoadSteps, Goto(p, s)
  PROVE  cmd' = [cmd EXCEPT ![p] = Loading(p, s)] /\ Loading(p, s) \in Command
  BY LoadFacts, GotoMoves DEF IInv, Loading, Command

\* Files, bucket and rows are as they were.
LEMMA NamesKept ==
  ASSUME IInv, UNCHANGED <<local, bucket>>
  PROVE  \A n \in Names : Untouched(n) /\ NameInOrder(n)'
<1>1. /\ row' = row /\ latest' = latest /\ disk' = disk
      /\ tmp' = tmp /\ meta' = meta /\ object' = object
  BY DEF local, bucket
<1>2. ASSUME NEW n \in Names PROVE NameInOrder(n)'
  BY <1>1 DEF IInv, NameInOrder, Full, NoFile
<1> QED BY <1>1, <1>2 DEF Untouched

\* A step of push from its place in the code to s.
LEMMA PushGoesOn ==
  ASSUME IInv, NEW p \in Procs, cmd[p].op = "push",
         NEW s \in PushSteps, Goto(p, s),
         NEW n \in Names, cmd[p].name = n,
         \A m \in Names : m # n => Untouched(m),
         \A q \in Procs : q # p => upload'[q] = upload[q],
         TypeOK', NameInOrder(n)', PushInOrder(p)'
  PROVE  IInv'
<1>1. cmd' = [cmd EXCEPT ![p] = Pushing(p, s)] /\ Pushing(p, s) \in Command
  BY PushMoves
<1>2. cmd'[p] = Pushing(p, s)
  BY <1>1 DEF IInv, TypeOK
<1>3. ProcInOrder(p)'
  BY <1>2 DEF ProcInOrder, Pushing
<1>4. Pushing(p, s).name = n
  BY DEF Pushing
<1> QED BY <1>1, <1>3, <1>4, Frame

\* Those that leave files and bucket alone.
LEMMA PushOnly ==
  ASSUME IInv, NEW p \in Procs, cmd[p].op = "push",
         NEW s \in PushSteps, Goto(p, s),
         UNCHANGED <<local, bucket>>,
         \A q \in Procs : q # p => upload'[q] = upload[q],
         upload' \in [Procs -> [at : {"none", "reading", "stored", "failed"}, read : 0 .. Chunks]],
         PushInOrder(p)'
  PROVE  IInv'
<1>1. PICK n \in Names : cmd[p].name = n
  BY PushFacts
<1>2. \A m \in Names : Untouched(m) /\ NameInOrder(m)'
  BY NamesKept
<1>3. cmd' = [cmd EXCEPT ![p] = Pushing(p, s)] /\ Pushing(p, s) \in Command
  BY PushMoves
<1>4. TypeOK'
  <2>1. UNCHANGED <<row, latest, disk, tmp, meta, object>>
    BY DEF local, bucket
  <2>2. cmd' \in [Procs -> Command \cup {Idle}]
    BY <1>3 DEF IInv, TypeOK
  <2> QED BY <2>1, <2>2 DEF IInv, TypeOK
<1> QED BY <1>1, <1>2, <1>4, PushGoesOn

\* A step of load from its place in the code to s.
LEMMA LoadGoesOn ==
  ASSUME IInv, NEW p \in Procs, cmd[p].op = "load",
         NEW s \in LoadSteps, Goto(p, s),
         NEW n \in Names, cmd[p].name = n,
         \A m \in Names : m # n => Untouched(m),
         upload' = upload,
         TypeOK', NameInOrder(n)', LoadInOrder(p)'
  PROVE  IInv'
<1>1. cmd' = [cmd EXCEPT ![p] = Loading(p, s)] /\ Loading(p, s) \in Command
  BY LoadMoves
<1>2. cmd'[p] = Loading(p, s)
  BY <1>1 DEF IInv, TypeOK
<1>3. ProcInOrder(p)'
  BY <1>2, LoadFacts DEF ProcInOrder, Loading
<1>4. Loading(p, s).name = n
  BY DEF Loading
<1> QED BY <1>1, <1>3, <1>4, Frame

\* The last step of a command.
LEMMA Returning ==
  ASSUME IInv, NEW p \in Procs, NEW n \in Names, cmd[p].name = n, Return(p),
         \A m \in Names : m # n => Untouched(m),
         \A q \in Procs : q # p => upload'[q] = upload[q],
         upload'[p] = NoUpload,
         TypeOK', NameInOrder(n)'
  PROVE  IInv'
<1>1. cmd' = [cmd EXCEPT ![p] = Idle]
  BY DEF Return
<1>2. cmd'[p] = Idle
  BY <1>1 DEF IInv, TypeOK
<1>3. ProcInOrder(p)'
  BY <1>2 DEF ProcInOrder, Idle
<1>4. Idle \in Command \cup {Idle}
  OBVIOUS
<1> QED BY <1>1, <1>3, <1>4, Frame

\* A last step that leaves files and bucket alone.
LEMMA GivingUp ==
  ASSUME IInv, NEW p \in Procs, cmd[p] # Idle, Return(p),
         UNCHANGED <<local, bucket>>,
         upload' = [upload EXCEPT ![p] = NoUpload]
  PROVE  IInv'
<1>1. TypeOK'
  <2>1. UNCHANGED <<row, latest, disk, tmp, meta, object>>
    BY DEF local, bucket
  <2>2. cmd' \in [Procs -> Command \cup {Idle}]
    BY DEF IInv, TypeOK, Return
  <2>3. upload' \in [Procs -> [at : {"none", "reading", "stored", "failed"}, read : 0 .. Chunks]]
    BY ChunksAssumption DEF IInv, TypeOK, NoUpload
  <2> QED BY <2>1, <2>2, <2>3 DEF IInv, TypeOK
<1>2. PICK n \in Names : cmd[p].name = n
  BY DEF IInv, TypeOK, Command
<1>3. \A m \in Names : Untouched(m) /\ NameInOrder(m)'
  BY NamesKept
<1>4. upload'[p] = NoUpload /\ \A q \in Procs : q # p => upload'[q] = upload[q]
  BY DEF IInv, TypeOK
<1> QED BY <1>1, <1>2, <1>3, <1>4, Returning

-----------------------------------------------------------------------------
\* Each step of push keeps the invariant.
LEMMA PushMetaKeeps ==
  ASSUME IInv, NEW p \in Procs, PushMeta(p)
  PROVE  IInv'
<1>1. cmd[p].op = "push" /\ cmd[p].at = "meta"
  BY DEF PushMeta, At
<1>2. PICK n \in Names : cmd[p].name = n
  BY <1>1, PushFacts
<1>3. PushInOrder(p) /\ NameInOrder(n)
  BY <1>1, <1>2, PushFacts
<1>4. CASE /\ meta' = [meta EXCEPT ![n] = disk[n].contents]
           /\ upload' = [upload EXCEPT ![p] = [at |-> "reading", read |-> 0]]
           /\ Goto(p, "open")
  <2>1. cmd' = [cmd EXCEPT ![p] = Pushing(p, "open")] /\ Pushing(p, "open") \in Command
    BY <1>1, <1>4, PushMoves DEF PushSteps
  <2>2. UNCHANGED <<row, latest, disk, tmp, object>>
    BY DEF PushMeta, local
  <2>3. disk[n] \in File /\ meta'[n] = disk[n].contents
    BY <1>4 DEF IInv, TypeOK
  <2>4. TypeOK'
    <3>1. meta' \in [Names -> Nat]
      BY <1>4, <2>3 DEF IInv, TypeOK, File
    <3>2. upload' \in [Procs -> [at : {"none", "reading", "stored", "failed"}, read : 0 .. Chunks]]
      BY <1>4, ChunksAssumption DEF IInv, TypeOK
    <3>3. cmd' \in [Procs -> Command \cup {Idle}]
      BY <2>1 DEF IInv, TypeOK
    <3> QED BY <2>2, <3>1, <3>2, <3>3 DEF IInv, TypeOK
  <2>5. NameInOrder(n)'
    BY <1>1, <1>2, <1>3, <2>2 DEF NameInOrder, PushInOrder, Full, NoFile
  <2>6. cmd'[p] = Pushing(p, "open") /\ upload'[p] = [at |-> "reading", read |-> 0]
    BY <1>4, <2>1 DEF IInv, TypeOK
  <2>7. PushInOrder(p)'
    BY <1>2, <1>3, <2>2, <2>3, <2>6, ChunksAssumption DEF PushInOrder, Pushing, File
  <2>8. \A m \in Names : m # n => Untouched(m)
    BY <1>4, <2>2 DEF Untouched, IInv, TypeOK
  <2>9. \A q \in Procs : q # p => upload'[q] = upload[q]
    BY <1>4 DEF IInv, TypeOK
  <2> QED BY <1>1, <1>2, <1>4, <2>4, <2>5, <2>7, <2>8, <2>9, PushGoesOn DEF PushSteps
<1>5. CASE Return(p) /\ UNCHANGED <<meta, upload>>
  <2>1. UNCHANGED <<local, bucket>>
    BY <1>5 DEF PushMeta, bucket
  <2>2. upload' = [upload EXCEPT ![p] = NoUpload]
    BY <1>1, <1>3, <1>5 DEF PushInOrder, IInv, TypeOK
  <2> QED BY <1>1, <1>5, <2>1, <2>2, PushFacts, GivingUp
<1> QED BY <1>2, <1>4, <1>5 DEF PushMeta

\* The disk of a frozen project is there.
LEMMA PushOpenKeeps ==
  ASSUME IInv, NEW p \in Procs, PushOpen(p)
  PROVE  IInv'
<1>1. cmd[p].op = "push" /\ cmd[p].at = "open" /\ UNCHANGED <<local, bucket, upload>>
  BY DEF PushOpen, At
<1>2. PushInOrder(p)
  BY <1>1, PushFacts
<1>3. UNCHANGED <<row, disk, meta, object>>
  BY <1>1 DEF local, bucket
<1>4. ASSUME NEW s \in {"copy", "exit"}, Goto(p, s), s = "copy" => disk[cmd[p].name] # NoFile
      PROVE  IInv'
  <2>1. s \in PushSteps
    BY DEF PushSteps
  <2>2. cmd'[p] = Pushing(p, s)
    BY <1>1, <1>4, <2>1, PushMoves DEF IInv, TypeOK
  <2>3. PushInOrder(p)'
    BY <1>1, <1>2, <1>3, <1>4, <2>2 DEF PushInOrder, Pushing
  <2> QED BY <1>1, <1>4, <2>1, <2>3, PushOnly DEF IInv, TypeOK
<1> QED BY <1>4 DEF PushOpen

\* The uploader has never read more than the disk holds.
LEMMA PushCopyKeeps ==
  ASSUME IInv, NEW p \in Procs, PushCopy(p)
  PROVE  IInv'
<1>1. cmd[p].op = "push" /\ cmd[p].at = "copy" /\ UNCHANGED <<local, bucket>>
  BY DEF PushCopy, At
<1>2. PICK n \in Names : cmd[p].name = n
  BY <1>1, PushFacts
<1>3. UNCHANGED <<row, disk, meta, object>>
  BY <1>1 DEF local, bucket
<1>4. PushInOrder(p) /\ disk[n] \in File
  BY <1>1, PushFacts DEF IInv, TypeOK
<1>5. CASE /\ upload[p].at = "reading"
           /\ upload[p].read < disk[n].len
           /\ upload' = [upload EXCEPT ![p].read = @ + 1]
           /\ UNCHANGED cmd
  <2>1. upload[p] \in [at : {"none", "reading", "stored", "failed"}, read : 0 .. Chunks]
    BY DEF IInv, TypeOK
  <2>2. upload[p].read + 1 \in 0 .. Chunks
    BY <1>4, <1>5, <2>1, ChunksAssumption DEF File
  <2>3. upload' = [upload EXCEPT ![p] = [at |-> "reading", read |-> upload[p].read + 1]]
    <3>1. [upload[p] EXCEPT !.read = @ + 1] = [at |-> "reading", read |-> upload[p].read + 1]
      BY <1>5, <2>1
    <3> QED BY <1>5, <3>1
  <2>4. upload' \in [Procs -> [at : {"none", "reading", "stored", "failed"}, read : 0 .. Chunks]]
    BY <2>2, <2>3 DEF IInv, TypeOK
  <2>5. upload'[p] = [at |-> "reading", read |-> upload[p].read + 1]
    BY <2>3 DEF IInv, TypeOK
  <2>6. PushInOrder(p)'
    BY <1>1, <1>2, <1>3, <1>4, <1>5, <2>1, <2>2, <2>5 DEF PushInOrder, File
  <2>7. Goto(p, "copy")
    BY <1>1, <1>5, PushFacts, StaysAt DEF IInv
  <2>8. \A q \in Procs : q # p => upload'[q] = upload[q]
    BY <2>3 DEF IInv, TypeOK
  <2> QED BY <1>1, <2>4, <2>6, <2>7, <2>8, PushOnly DEF PushSteps
<1>6. ASSUME NEW s \in {"close", "abort"}, Goto(p, s), UNCHANGED upload,
             s = "close" => upload[p].read = disk[n].len
      PROVE  IInv'
  <2>1. s \in PushSteps
    BY DEF PushSteps
  <2>2. cmd'[p] = Pushing(p, s)
    BY <1>1, <1>6, <2>1, PushMoves DEF IInv, TypeOK
  <2>3. PushInOrder(p)'
    BY <1>1, <1>2, <1>3, <1>4, <1>6, <2>2 DEF PushInOrder, Pushing
  <2> QED BY <1>1, <1>6, <2>1, <2>3, PushOnly DEF IInv, TypeOK
<1> QED BY <1>2, <1>5, <1>6 DEF PushCopy

\* The end of the archive is written only after all of the disk.
LEMMA PushCloseKeeps ==
  ASSUME IInv, NEW p \in Procs, PushClose(p)
  PROVE  IInv'
<1>1. cmd[p].op = "push" /\ upload[p].at = "reading" /\ UNCHANGED <<local, bucket, upload>>
  BY DEF PushClose, At
<1>2. UNCHANGED <<row, disk, meta, object>>
  BY <1>1 DEF local, bucket
<1>3. PICK s \in {"await", "exit"} : Goto(p, s) /\ cmd[p].at = IF s = "await" THEN "close" ELSE "abort"
  BY DEF PushClose, At
<1>4. s \in PushSteps
  BY DEF PushSteps
<1>5. cmd'[p] = Pushing(p, s)
  BY <1>1, <1>3, <1>4, PushMoves DEF IInv, TypeOK
<1>6. PushInOrder(p)'
  BY <1>1, <1>2, <1>3, <1>5, PushFacts DEF PushInOrder, Pushing
<1> QED BY <1>1, <1>3, <1>4, <1>6, PushOnly DEF IInv, TypeOK

\* Without an error of PutObject the object is the disk.
LEMMA PushAwaitKeeps ==
  ASSUME IInv, NEW p \in Procs, PushAwait(p)
  PROVE  IInv'
<1>1. cmd[p].op = "push" /\ cmd[p].at = "await" /\ UNCHANGED <<local, bucket>>
  BY DEF PushAwait, At
<1>2. upload' = [upload EXCEPT ![p] = NoUpload]
  BY DEF PushAwait
<1>3. CASE upload[p].at = "stored" /\ Goto(p, "unrow")
  <2>1. UNCHANGED <<row, disk, meta, object>>
    BY <1>1 DEF local, bucket
  <2>2. cmd'[p] = Pushing(p, "unrow")
    BY <1>1, <1>3, PushMoves DEF IInv, TypeOK, PushSteps
  <2>3. upload'[p] = NoUpload
    BY <1>2 DEF IInv, TypeOK
  <2>4. upload' \in [Procs -> [at : {"none", "reading", "stored", "failed"}, read : 0 .. Chunks]]
    BY <1>2, ChunksAssumption DEF IInv, TypeOK, NoUpload
  <2>5. cmd[p].name \in Names /\ disk[cmd[p].name] \in File
    BY <1>1, PushFacts DEF IInv, TypeOK
  <2>6. PushInOrder(p)'
    BY <1>1, <1>3, <2>1, <2>2, <2>3, <2>5, PushFacts DEF PushInOrder, Pushing, NoUpload, File
  <2>7. \A q \in Procs : q # p => upload'[q] = upload[q]
    BY <1>2 DEF IInv, TypeOK
  <2> QED BY <1>1, <1>3, <2>4, <2>6, <2>7, PushOnly DEF PushSteps
<1>4. CASE Return(p)
  BY <1>1, <1>2, <1>4, PushFacts, GivingUp
<1> QED BY <1>3, <1>4 DEF PushAwait

\* The row goes when the object is what the VM has written.
LEMMA PushUnrowKeeps ==
  ASSUME IInv, NEW p \in Procs, PushUnrow(p)
  PROVE  IInv'
<1>1. cmd[p].op = "push" /\ cmd[p].at = "unrow"
  BY DEF PushUnrow, At
<1>2. PICK n \in Names : cmd[p].name = n
  BY <1>1, PushFacts
<1>3. PushInOrder(p) /\ NameInOrder(n)
  BY <1>1, <1>2, PushFacts
<1>4. UNCHANGED <<latest, disk, tmp, meta, object, upload>> /\ Return(p)
  BY DEF PushUnrow, bucket
<1>5. row' = [row EXCEPT ![n] = "none"] \/ row' = row
  BY <1>2 DEF PushUnrow
<1>6. row'[n] \in {"none", "frozen"}
  BY <1>2, <1>3, <1>5 DEF PushInOrder, IInv, TypeOK
<1>7. NameInOrder(n)'
  BY <1>1, <1>2, <1>3, <1>4, <1>6 DEF NameInOrder, PushInOrder, Full, NoFile
<1>8. TypeOK'
  <2>1. row' \in [Names -> {"none", "creating", "running", "frozen"}]
    BY <1>5 DEF IInv, TypeOK
  <2>2. cmd' \in [Procs -> Command \cup {Idle}]
    BY <1>4 DEF IInv, TypeOK, Return
  <2> QED BY <1>4, <2>1, <2>2 DEF IInv, TypeOK
<1>9. \A m \in Names : m # n => Untouched(m)
  BY <1>4, <1>5 DEF Untouched, IInv, TypeOK
<1>10. upload'[p] = NoUpload
  BY <1>1, <1>3, <1>4 DEF PushInOrder
<1> QED BY <1>2, <1>4, <1>7, <1>8, <1>9, <1>10, Returning

\* What PutObject stores is the disk, unless push has failed.
LEMMA UploadEndsKeeps ==
  ASSUME IInv, NEW p \in Procs, UploadEnds(p)
  PROVE  IInv'
<1>1. /\ cmd[p].op = "push" /\ cmd[p].at \in {"await", "exit"}
      /\ upload[p].at = "reading"
      /\ UNCHANGED <<row, latest, disk, tmp, meta, cmd>>
  BY DEF UploadEnds, PipeClosed, local
<1>2. PICK n \in Names : cmd[p].name = n
  BY <1>1, PushFacts
<1>3. PushInOrder(p) /\ NameInOrder(n) /\ disk[n] \in File
  BY <1>1, <1>2, PushFacts DEF IInv, TypeOK
<1>4. upload[p] \in [at : {"none", "reading", "stored", "failed"}, read : 0 .. Chunks]
  BY DEF IInv, TypeOK
<1>5. Uploaded(p) \in File /\ Full(Uploaded(p))
      /\ (cmd[p].at = "await" => Uploaded(p) = disk[n])
  <2>1. CASE upload[p].read = 0 /\ cmd[p].at = "exit"
    BY <2>1, ChunksAssumption DEF Uploaded, NoFile, File, Full
  <2>2. CASE ~(upload[p].read = 0 /\ cmd[p].at = "exit")
    <3>1. Uploaded(p) = [contents |-> disk[n].contents, len |-> upload[p].read]
      BY <1>2, <2>2 DEF Uploaded
    <3>2. disk[n] # NoFile
      BY <1>2, <1>3 DEF PushInOrder, NameInOrder
    <3>3. cmd[p].at = "await" => upload[p].read = disk[n].len
      BY <1>2, <1>3 DEF PushInOrder
    <3> QED BY <1>3, <1>4, <3>1, <3>2, <3>3 DEF File, Full, NameInOrder
  <2> QED BY <2>1, <2>2
<1>6. PICK s \in {"stored", "failed"} :
         /\ upload' = [upload EXCEPT ![p].at = s]
         /\ \/ s = "stored" /\ object' = [object EXCEPT ![n] = Uploaded(p)]
            \/ s = "failed" /\ object' = object
  BY <1>2 DEF UploadEnds
<1>7. upload' = [upload EXCEPT ![p] = [at |-> s, read |-> upload[p].read]]
  <2>1. [upload[p] EXCEPT !.at = s] = [at |-> s, read |-> upload[p].read]
    BY <1>4
  <2> QED BY <1>6, <2>1
<1>8. TypeOK'
  <2>1. object' \in [Names -> File]
    BY <1>5, <1>6 DEF IInv, TypeOK
  <2>2. upload' \in [Procs -> [at : {"none", "reading", "stored", "failed"}, read : 0 .. Chunks]]
    BY <1>4, <1>7 DEF IInv, TypeOK
  <2> QED BY <1>1, <2>1, <2>2 DEF IInv, TypeOK
<1>9. object'[n] = IF s = "stored" THEN Uploaded(p) ELSE object[n]
  BY <1>6 DEF IInv, TypeOK
<1>10. NameInOrder(n)'
  BY <1>1, <1>2, <1>3, <1>5, <1>9 DEF NameInOrder, PushInOrder, Full, NoFile
<1>11. upload'[p] = [at |-> s, read |-> upload[p].read]
  BY <1>7 DEF IInv, TypeOK
<1>12. PushInOrder(p)'
  BY <1>1, <1>2, <1>3, <1>5, <1>9, <1>11 DEF PushInOrder
<1>13. Goto(p, cmd[p].at) /\ cmd[p].at \in PushSteps
  BY <1>1, PushFacts, StaysAt DEF IInv, PushSteps
<1>14. \A m \in Names : m # n => Untouched(m)
  BY <1>1, <1>6 DEF Untouched, IInv, TypeOK
<1>15. \A q \in Procs : q # p => upload'[q] = upload[q]
  BY <1>7 DEF IInv, TypeOK
<1> QED BY <1>1, <1>2, <1>8, <1>10, <1>12, <1>13, <1>14, <1>15, PushGoesOn

\* An upload that fails stores nothing.
LEMMA UploadBreaksKeeps ==
  ASSUME IInv, NEW p \in Procs, UploadBreaks(p)
  PROVE  IInv'
<1>1. /\ upload[p].at = "reading" /\ UNCHANGED <<local, bucket, cmd>>
      /\ upload' = [upload EXCEPT ![p].at = "failed"]
  BY DEF UploadBreaks
<1>2. cmd[p].op = "push"
  BY <1>1 DEF IInv, ProcInOrder, NoUpload
<1>3. UNCHANGED <<row, disk, meta, object>>
  BY <1>1 DEF local, bucket
<1>4. upload[p] \in [at : {"none", "reading", "stored", "failed"}, read : 0 .. Chunks]
  BY DEF IInv, TypeOK
<1>5. upload' = [upload EXCEPT ![p] = [at |-> "failed", read |-> upload[p].read]]
  <2>1. [upload[p] EXCEPT !.at = "failed"] = [at |-> "failed", read |-> upload[p].read]
    BY <1>4
  <2> QED BY <1>1, <2>1
<1>6. upload' \in [Procs -> [at : {"none", "reading", "stored", "failed"}, read : 0 .. Chunks]]
  BY <1>4, <1>5 DEF IInv, TypeOK
<1>7. upload'[p] = [at |-> "failed", read |-> upload[p].read]
  BY <1>5 DEF IInv, TypeOK
<1>8. PushInOrder(p)'
  BY <1>1, <1>2, <1>3, <1>7, PushFacts DEF PushInOrder, NoUpload
<1>9. Goto(p, cmd[p].at) /\ cmd[p].at \in PushSteps
  BY <1>1, <1>2, PushFacts, StaysAt DEF IInv, Command
<1>10. \A q \in Procs : q # p => upload'[q] = upload[q]
  BY <1>5 DEF IInv, TypeOK
<1> QED BY <1>1, <1>2, <1>6, <1>8, <1>9, <1>10, PushOnly

-----------------------------------------------------------------------------
\* A load that gives up: its file or the disk may be gone.
LEMMA LoadGivesUp ==
  ASSUME IInv, NEW p \in Procs, cmd[p].op = "load", Return(p),
         NEW n \in Names, cmd[p].name = n,
         UNCHANGED <<row, latest, meta, object, upload>>,
         row[n] \in {"none", "creating"},
         disk' = disk \/ disk' = [disk EXCEPT ![n] = NoFile] \/ disk' = [disk EXCEPT ![n] = tmp[n]],
         Full(disk'[n]),
         tmp' = tmp \/ tmp' = [tmp EXCEPT ![n] = NoFile]
  PROVE  IInv'
<1>1. NoFile \in File /\ tmp[n] \in File
  BY ChunksAssumption DEF NoFile, File, IInv, TypeOK
<1>2. TypeOK'
  <2>1. disk' \in [Names -> File]
    BY <1>1 DEF IInv, TypeOK
  <2>2. tmp' \in [Names -> File]
    BY <1>1 DEF IInv, TypeOK
  <2>3. cmd' \in [Procs -> Command \cup {Idle}]
    BY DEF IInv, TypeOK, Return
  <2> QED BY <2>1, <2>2, <2>3 DEF IInv, TypeOK
<1>3. NameInOrder(n)'
  BY DEF NameInOrder, IInv, Full, NoFile
<1>4. \A m \in Names : m # n => Untouched(m)
  BY DEF Untouched, IInv, TypeOK
<1> QED BY <1>2, <1>3, <1>4, LoadFacts, Returning

\* Each step of load keeps the invariant.
LEMMA LoadObjectsKeeps ==
  ASSUME IInv, NEW p \in Procs, LoadObjects(p)
  PROVE  IInv'
<1>1. cmd[p].op = "load" /\ cmd[p].at \in {"meta", "object"} /\ UNCHANGED <<local, bucket, upload>>
  BY DEF LoadObjects, At
<1>2. PICK n \in Names : cmd[p].name = n
  BY <1>1, LoadFacts
<1>3. UNCHANGED <<row, latest, disk, tmp, meta, object>>
  BY <1>1 DEF local, bucket
<1>4. LoadInOrder(p) /\ row[n] = "none" /\ NameInOrder(n)
  BY <1>1, <1>2, LoadFacts DEF LoadInOrder
<1>5. ASSUME NEW s \in {"object", "create"}, Goto(p, s), s = "create" => object[n] # NoFile
      PROVE  IInv'
  <2>1. s \in LoadSteps
    BY DEF LoadSteps
  <2>2. cmd' = [cmd EXCEPT ![p] = Loading(p, s)] /\ Loading(p, s) \in Command
    BY <1>1, <1>5, <2>1, LoadMoves
  <2>3. cmd'[p] = Loading(p, s)
    BY <2>2 DEF IInv, TypeOK
  <2>4. LoadInOrder(p)'
    BY <1>2, <1>3, <1>4, <1>5, <2>3 DEF LoadInOrder, Loading
  <2>5. TypeOK'
    <3>1. cmd' \in [Procs -> Command \cup {Idle}]
      BY <2>2 DEF IInv, TypeOK
    <3> QED BY <1>1, <1>3, <3>1 DEF IInv, TypeOK
  <2>6. \A m \in Names : Untouched(m) /\ NameInOrder(m)'
    BY <1>1, NamesKept
  <2> QED BY <1>1, <1>2, <1>5, <2>1, <2>4, <2>5, <2>6, LoadGoesOn
<1>6. CASE Return(p)
  <2>1. Full(disk'[n])
    BY <1>3, <1>4 DEF NameInOrder
  <2> QED BY <1>1, <1>2, <1>3, <1>4, <1>6, <2>1, LoadGivesUp
<1> QED BY <1>2, <1>5, <1>6 DEF LoadObjects

\* The new file is an empty prefix of the object.
LEMMA LoadCreateKeeps ==
  ASSUME IInv, NEW p \in Procs, LoadCreate(p)
  PROVE  IInv'
<1>1. cmd[p].op = "load" /\ cmd[p].at = "create"
      /\ UNCHANGED <<row, latest, disk, meta, object, upload>>
  BY DEF LoadCreate, At, bucket
<1>2. PICK n \in Names : cmd[p].name = n
  BY <1>1, LoadFacts
<1>3. LoadInOrder(p) /\ row[n] = "none" /\ NameInOrder(n) /\ object[n] \in File
  BY <1>1, <1>2, LoadFacts DEF LoadInOrder, IInv, TypeOK
<1>4. CASE /\ tmp' = [tmp EXCEPT ![n] = [contents |-> object[n].contents, len |-> 0]]
           /\ Goto(p, "copy")
  <2>1. cmd' = [cmd EXCEPT ![p] = Loading(p, "copy")] /\ Loading(p, "copy") \in Command
    BY <1>1, <1>4, LoadMoves DEF LoadSteps
  <2>2. cmd'[p] = Loading(p, "copy")
    BY <2>1 DEF IInv, TypeOK
  <2>3. tmp'[n] = [contents |-> object[n].contents, len |-> 0]
    BY <1>4 DEF IInv, TypeOK
  <2>4. LoadInOrder(p)'
    BY <1>1, <1>2, <1>3, <2>2, <2>3, ChunksAssumption DEF LoadInOrder, Loading, File
  <2>5. TypeOK'
    <3>1. tmp' \in [Names -> File]
      BY <1>3, <1>4, ChunksAssumption DEF IInv, TypeOK, File
    <3>2. cmd' \in [Procs -> Command \cup {Idle}]
      BY <2>1 DEF IInv, TypeOK
    <3> QED BY <1>1, <3>1, <3>2 DEF IInv, TypeOK
  <2>6. NameInOrder(n)'
    BY <1>1, <1>3 DEF NameInOrder, Full, NoFile
  <2>7. \A m \in Names : m # n => Untouched(m)
    BY <1>1, <1>4 DEF Untouched, IInv, TypeOK
  <2> QED BY <1>1, <1>2, <1>4, <2>4, <2>5, <2>6, <2>7, LoadGoesOn DEF LoadSteps
<1>5. CASE Return(p) /\ UNCHANGED tmp
  <2>1. Full(disk'[n])
    BY <1>1, <1>3 DEF NameInOrder
  <2> QED BY <1>1, <1>2, <1>3, <1>5, <2>1, LoadGivesUp
<1> QED BY <1>2, <1>4, <1>5 DEF LoadCreate

\* A file that has got all chunks is the object.
LEMMA LoadCopyKeeps ==
  ASSUME IInv, NEW p \in Procs, LoadCopy(p)
  PROVE  IInv'
<1>1. cmd[p].op = "load" /\ cmd[p].at = "copy"
      /\ UNCHANGED <<row, latest, disk, meta, object, upload>>
  BY DEF LoadCopy, At, bucket
<1>2. PICK n \in Names : cmd[p].name = n
  BY <1>1, LoadFacts
<1>3. /\ LoadInOrder(p) /\ row[n] = "none" /\ NameInOrder(n)
      /\ object[n] \in File /\ tmp[n] \in File
  BY <1>1, <1>2, LoadFacts DEF LoadInOrder, IInv, TypeOK
<1>4. NameInOrder(n)'
  BY <1>1, <1>3 DEF NameInOrder, Full, NoFile
<1>5. CASE /\ tmp[n].len < object[n].len
           /\ tmp' = [tmp EXCEPT ![n].len = @ + 1]
           /\ UNCHANGED cmd
  <2>1. tmp' = [tmp EXCEPT ![n] = [contents |-> tmp[n].contents, len |-> tmp[n].len + 1]]
    <3>1. [tmp[n] EXCEPT !.len = @ + 1] = [contents |-> tmp[n].contents, len |-> tmp[n].len + 1]
      BY <1>3 DEF File
    <3> QED BY <1>5, <3>1
  <2>2. tmp'[n] = [contents |-> tmp[n].contents, len |-> tmp[n].len + 1]
    BY <2>1 DEF IInv, TypeOK
  <2>3. tmp[n].len + 1 \in 0 .. Chunks /\ tmp[n].len + 1 <= object[n].len
    BY <1>3, <1>5, ChunksAssumption DEF File
  <2>4. TypeOK'
    <3>1. tmp' \in [Names -> File]
      BY <1>3, <2>1, <2>3 DEF IInv, TypeOK, File
    <3> QED BY <1>1, <1>5, <3>1 DEF IInv, TypeOK
  <2>5. Goto(p, "copy")
    BY <1>1, <1>5, LoadFacts, StaysAt DEF IInv
  <2>6. LoadInOrder(p)'
    BY <1>1, <1>2, <1>3, <1>5, <2>2, <2>3 DEF LoadInOrder
  <2>7. \A m \in Names : m # n => Untouched(m)
    BY <1>1, <2>1 DEF Untouched, IInv, TypeOK
  <2> QED BY <1>1, <1>2, <1>4, <2>4, <2>5, <2>6, <2>7, LoadGoesOn DEF LoadSteps
<1>6. CASE tmp[n].len = object[n].len /\ Goto(p, "rename") /\ UNCHANGED tmp
  <2>1. cmd' = [cmd EXCEPT ![p] = Loading(p, "rename")] /\ Loading(p, "rename") \in Command
    BY <1>1, <1>6, LoadMoves DEF LoadSteps
  <2>2. cmd'[p] = Loading(p, "rename")
    BY <2>1 DEF IInv, TypeOK
  <2>3. tmp[n] = object[n]
    BY <1>1, <1>2, <1>3, <1>6 DEF LoadInOrder, File
  <2>4. LoadInOrder(p)'
    BY <1>1, <1>2, <1>3, <1>6, <2>2, <2>3 DEF LoadInOrder, Loading
  <2>5. TypeOK'
    <3>1. cmd' \in [Procs -> Command \cup {Idle}]
      BY <2>1 DEF IInv, TypeOK
    <3> QED BY <1>1, <1>6, <3>1 DEF IInv, TypeOK
  <2>6. \A m \in Names : m # n => Untouched(m)
    BY <1>1, <1>6 DEF Untouched
  <2> QED BY <1>1, <1>2, <1>4, <1>6, <2>4, <2>5, <2>6, LoadGoesOn DEF LoadSteps
<1>7. CASE Return(p) /\ tmp' = [tmp EXCEPT ![n] = NoFile]
  <2>1. Full(disk'[n])
    BY <1>1, <1>3 DEF NameInOrder
  <2> QED BY <1>1, <1>2, <1>3, <1>7, <2>1, LoadGivesUp
<1> QED BY <1>2, <1>5, <1>6, <1>7 DEF LoadCopy

\* The disk becomes the object in one step.
LEMMA LoadRenameKeeps ==
  ASSUME IInv, NEW p \in Procs, LoadRename(p)
  PROVE  IInv'
<1>1. cmd[p].op = "load" /\ cmd[p].at = "rename"
      /\ UNCHANGED <<row, latest, meta, object, upload>>
  BY DEF LoadRename, At, bucket
<1>2. PICK n \in Names : cmd[p].name = n
  BY <1>1, LoadFacts
<1>3. /\ LoadInOrder(p) /\ row[n] = "none" /\ NameInOrder(n)
      /\ tmp[n] \in File /\ tmp[n] = object[n] /\ object[n] # NoFile
  BY <1>1, <1>2, LoadFacts DEF LoadInOrder, IInv, TypeOK
<1>4. tmp' = [tmp EXCEPT ![n] = NoFile]
  BY <1>2 DEF LoadRename
<1>5. CASE disk' = [disk EXCEPT ![n] = tmp[n]] /\ Goto(p, "register")
  <2>1. cmd' = [cmd EXCEPT ![p] = Loading(p, "register")] /\ Loading(p, "register") \in Command
    BY <1>1, <1>5, LoadMoves DEF LoadSteps
  <2>2. cmd'[p] = Loading(p, "register")
    BY <2>1 DEF IInv, TypeOK
  <2>3. disk'[n] = object[n]
    BY <1>3, <1>5 DEF IInv, TypeOK
  <2>4. LoadInOrder(p)'
    BY <1>1, <1>2, <1>3, <2>2, <2>3 DEF LoadInOrder, Loading
  <2>5. TypeOK'
    <3>1. disk' \in [Names -> File] /\ tmp' \in [Names -> File]
      BY <1>3, <1>4, <1>5, ChunksAssumption DEF IInv, TypeOK, File, NoFile
    <3>2. cmd' \in [Procs -> Command \cup {Idle}]
      BY <2>1 DEF IInv, TypeOK
    <3> QED BY <1>1, <3>1, <3>2 DEF IInv, TypeOK
  <2>6. NameInOrder(n)'
    BY <1>1, <1>3, <2>3 DEF NameInOrder, Full, NoFile
  <2>7. \A m \in Names : m # n => Untouched(m)
    BY <1>1, <1>4, <1>5 DEF Untouched, IInv, TypeOK
  <2> QED BY <1>1, <1>2, <1>5, <2>4, <2>5, <2>6, <2>7, LoadGoesOn DEF LoadSteps
<1>6. CASE Return(p) /\ UNCHANGED disk
  <2>1. Full(disk'[n])
    BY <1>6, <1>3 DEF NameInOrder
  <2> QED BY <1>1, <1>2, <1>3, <1>4, <1>6, <2>1, LoadGivesUp
<1> QED BY <1>2, <1>5, <1>6 DEF LoadRename

\* The project is made when its disk is there.
LEMMA LoadProjectKeeps ==
  ASSUME IInv, NEW p \in Procs, LoadProject(p)
  PROVE  IInv'
<1>1. cmd[p].op = "load" /\ cmd[p].at \in {"register", "tap"}
      /\ UNCHANGED <<latest, tmp, meta, object, upload>>
  BY DEF LoadProject, At, bucket
<1>2. PICK n \in Names : cmd[p].name = n
  BY <1>1, LoadFacts
<1>3. /\ LoadInOrder(p) /\ NameInOrder(n) /\ row[n] \in {"none", "creating"}
  BY <1>1, <1>2, LoadFacts DEF LoadInOrder
<1>4. ASSUME NEW s \in {"tap", "start"}, Goto(p, s), disk' = disk,
             IF s = "tap" THEN row' = [row EXCEPT ![n] = "creating"] ELSE row' = row,
             cmd[p].at = IF s = "tap" THEN "register" ELSE "tap"
      PROVE  IInv'
  <2>1. s \in LoadSteps
    BY DEF LoadSteps
  <2>2. cmd' = [cmd EXCEPT ![p] = Loading(p, s)] /\ Loading(p, s) \in Command
    BY <1>1, <1>4, <2>1, LoadMoves
  <2>3. cmd'[p] = Loading(p, s)
    BY <2>2 DEF IInv, TypeOK
  <2>4. row'[n] = "creating"
    BY <1>2, <1>3, <1>4 DEF LoadInOrder, IInv, TypeOK
  <2>5. LoadInOrder(p)'
    BY <1>1, <1>2, <1>3, <1>4, <2>3, <2>4 DEF LoadInOrder, Loading
  <2>6. TypeOK'
    <3>1. row' \in [Names -> {"none", "creating", "running", "frozen"}]
      BY <1>4 DEF IInv, TypeOK
    <3>2. cmd' \in [Procs -> Command \cup {Idle}]
      BY <2>2 DEF IInv, TypeOK
    <3> QED BY <1>1, <1>4, <3>1, <3>2 DEF IInv, TypeOK
  <2>7. NameInOrder(n)'
    BY <1>1, <1>3, <1>4, <2>4 DEF NameInOrder, Full, NoFile
  <2>8. \A m \in Names : m # n => Untouched(m)
    BY <1>1, <1>4 DEF Untouched, IInv, TypeOK
  <2> QED BY <1>1, <1>2, <1>4, <2>1, <2>5, <2>6, <2>7, <2>8, LoadGoesOn
<1>5. CASE Return(p) /\ disk' = [disk EXCEPT ![n] = NoFile] /\ UNCHANGED row
  <2>1. Full(disk'[n])
    BY <1>5 DEF IInv, TypeOK, Full
  <2> QED BY <1>1, <1>2, <1>3, <1>5, <2>1, LoadGivesUp
<1> QED BY <1>2, <1>4, <1>5 DEF LoadProject, At

\* The VM starts from the disk that has been fetched.
LEMMA LoadStartKeeps ==
  ASSUME IInv, NEW p \in Procs, LoadStart(p)
  PROVE  IInv'
<1>1. cmd[p].op = "load" /\ cmd[p].at = "start" /\ Return(p)
      /\ UNCHANGED <<disk, tmp, meta, object, upload>>
  BY DEF LoadStart, At, bucket
<1>2. PICK n \in Names : cmd[p].name = n
  BY <1>1, LoadFacts
<1>3. /\ LoadInOrder(p) /\ NameInOrder(n) /\ row[n] = "creating"
      /\ disk[n] # NoFile /\ disk[n] \in File
  BY <1>1, <1>2, LoadFacts DEF LoadInOrder, IInv, TypeOK
<1>4. CASE row' = [row EXCEPT ![n] = "running"] /\ latest' = [latest EXCEPT ![n] = disk[n]]
  <2>1. row'[n] = "running" /\ latest'[n] = disk[n]
    BY <1>4 DEF IInv, TypeOK
  <2>2. NameInOrder(n)'
    BY <1>1, <1>3, <2>1 DEF NameInOrder, Full, NoFile
  <2>3. TypeOK'
    <3>1. row' \in [Names -> {"none", "creating", "running", "frozen"}] /\ latest' \in [Names -> File]
      BY <1>3, <1>4 DEF IInv, TypeOK
    <3>2. cmd' \in [Procs -> Command \cup {Idle}]
      BY <1>1 DEF IInv, TypeOK, Return
    <3> QED BY <1>1, <3>1, <3>2 DEF IInv, TypeOK
  <2>4. \A m \in Names : m # n => Untouched(m)
    BY <1>1, <1>4 DEF Untouched, IInv, TypeOK
  <2> QED BY <1>1, <1>2, <2>2, <2>3, <2>4, LoadFacts, Returning
<1>5. CASE UNCHANGED <<row, latest>>
  <2>1. Full(disk'[n])
    BY <1>1, <1>3 DEF NameInOrder
  <2> QED BY <1>1, <1>2, <1>3, <1>5, <2>1, LoadGivesUp
<1> QED BY <1>2, <1>4, <1>5 DEF LoadStart

-----------------------------------------------------------------------------
\* A step of a name on which no command is at work.
LEMMA NameSteps ==
  ASSUME IInv, NEW n \in Names, \A p \in Procs : cmd[p].name # n,
         UNCHANGED <<cmd, upload>>,
         \A m \in Names : m # n => Untouched(m),
         TypeOK', NameInOrder(n)'
  PROVE  IInv'
<1>1. ASSUME NEW m \in Names PROVE NameInOrder(m)'
  <2>1. CASE m # n
    BY <2>1 DEF Untouched, NameInOrder, IInv, Full, NoFile
  <2> QED BY <2>1
<1>2. OneCommandPerName'
  BY DEF OneCommandPerName, IInv
<1>3. ASSUME NEW q \in Procs PROVE ProcInOrder(q)'
  <2>1. ProcInOrder(q) /\ cmd'[q] = cmd[q] /\ upload'[q] = upload[q]
    BY DEF IInv
  <2>2. cmd[q].op \in {"push", "load"} => Untouched(cmd[q].name)
    BY DEF IInv, TypeOK, Command, Idle
  <2>3. CASE cmd[q].op = "push"
    <3>1. PushInOrder(q) /\ Untouched(cmd[q].name)
      BY <2>1, <2>2, <2>3 DEF ProcInOrder
    <3>2. PushInOrder(q)'
      BY <2>1, <3>1 DEF PushInOrder, Untouched
    <3> QED BY <2>1, <2>3, <3>2 DEF ProcInOrder
  <2>4. CASE cmd[q].op = "load"
    <3>1. LoadInOrder(q) /\ Untouched(cmd[q].name)
      BY <2>1, <2>2, <2>4 DEF ProcInOrder
    <3>2. LoadInOrder(q)'
      BY <2>1, <3>1 DEF LoadInOrder, Untouched
    <3> QED BY <2>1, <2>4, <3>2 DEF ProcInOrder
  <2> QED BY <2>1, <2>3, <2>4 DEF ProcInOrder
<1> QED BY <1>1, <1>2, <1>3 DEF IInv

\* deploy and the running VM write something new to the disk.
LEMMA WriteKeeps ==
  ASSUME IInv, NEW n \in Names, NEW len \in 0 .. Chunks, WriteNew(n, len),
         \A p \in Procs : cmd[p].name # n,
         row' = [row EXCEPT ![n] = "running"],
         UNCHANGED <<tmp, meta, object, cmd, upload>>
  PROVE  IInv'
<1>1. PICK c \in 1 .. MaxContents :
         /\ latest' = [latest EXCEPT ![n] = [contents |-> c, len |-> len]]
         /\ disk' = [disk EXCEPT ![n] = [contents |-> c, len |-> len]]
  BY DEF WriteNew
<1>2. [contents |-> c, len |-> len] \in File
  BY ChunksAssumption DEF File
<1>3. /\ row'[n] = "running"
      /\ latest'[n] = [contents |-> c, len |-> len]
      /\ disk'[n] = [contents |-> c, len |-> len]
  BY <1>1 DEF IInv, TypeOK
<1>4. TypeOK'
  <2>1. /\ row' \in [Names -> {"none", "creating", "running", "frozen"}]
        /\ latest' \in [Names -> File]
        /\ disk' \in [Names -> File]
    BY <1>1, <1>2 DEF IInv, TypeOK
  <2> QED BY <2>1 DEF IInv, TypeOK
<1>5. NameInOrder(n)'
  <2>1. [contents |-> c, len |-> len] # NoFile /\ Full([contents |-> c, len |-> len])
    BY DEF NoFile, Full
  <2> QED BY <1>3, <2>1 DEF NameInOrder, IInv, Full
<1>6. \A m \in Names : m # n => Untouched(m)
  BY <1>1 DEF Untouched, IInv, TypeOK
<1> QED BY <1>4, <1>5, <1>6, NameSteps

\* The commands and the VM that Archive has as one step each.
LEMMA OthersKeep ==
  ASSUME IInv, NEW n \in Names, OtherCommands(n)
  PROVE  IInv'
<1>1. CASE Deploy(n)
  <2>1. Chunks \in 0 .. Chunks
    BY ChunksAssumption
  <2> QED BY <1>1, <2>1, WriteKeeps DEF Deploy, Free, bucket
<1>2. CASE VMWrites(n)
  <2>1. \A p \in Procs : cmd[p].name # n
    BY <1>2, NoNameAssumption DEF VMWrites, IInv, TypeOK, Command, Idle, ProcInOrder, PushInOrder, LoadInOrder
  <2>2. row' = [row EXCEPT ![n] = "running"]
    BY <1>2 DEF VMWrites, IInv, TypeOK
  <2>3. disk[n].len \in 0 .. Chunks
    BY DEF IInv, TypeOK, File
  <2> QED BY <1>2, <2>1, <2>2, <2>3, WriteKeeps DEF VMWrites, bucket
<1>3. CASE FreezeOrUnfreeze(n)
  <2>1. /\ UNCHANGED <<latest, disk, tmp, meta, object, cmd, upload>>
        /\ \A p \in Procs : cmd[p].name # n
    BY <1>3 DEF FreezeOrUnfreeze, Free, bucket
  <2>2. PICK s \in {"running", "frozen"} :
           row[n] \in {"running", "frozen"} /\ row' = [row EXCEPT ![n] = s]
    BY <1>3 DEF FreezeOrUnfreeze
  <2>3. row'[n] = s
    BY <2>2 DEF IInv, TypeOK
  <2>4. NameInOrder(n)'
    BY <2>1, <2>2, <2>3 DEF NameInOrder, IInv, Full, NoFile
  <2>5. TypeOK'
    <3>1. row' \in [Names -> {"none", "creating", "running", "frozen"}]
      BY <2>2 DEF IInv, TypeOK
    <3> QED BY <2>1, <3>1 DEF IInv, TypeOK
  <2>6. \A m \in Names : m # n => Untouched(m)
    BY <2>1, <2>2 DEF Untouched, IInv, TypeOK
  <2> QED BY <2>1, <2>4, <2>5, <2>6, NameSteps
<1>4. CASE Destroy(n)
  <2>1. /\ UNCHANGED <<tmp, meta, object, cmd, upload>>
        /\ \A p \in Procs : cmd[p].name # n
        /\ row' = [row EXCEPT ![n] = "none"]
    BY <1>4 DEF Destroy, Free, bucket
  <2>2. row'[n] = "none" /\ row[n] \in {"creating", "running", "frozen"}
    BY <1>4, <2>1 DEF Destroy, IInv, TypeOK
  <2>3. \/ row[n] = "creating" /\ UNCHANGED <<latest, disk>>
        \/ disk' = [disk EXCEPT ![n] = NoFile] /\ latest' = [latest EXCEPT ![n] = NoFile]
    BY <1>4 DEF Destroy
  <2>4. NameInOrder(n)'
    BY <2>1, <2>2, <2>3 DEF NameInOrder, IInv, TypeOK, Full, NoFile
  <2>5. TypeOK'
    <3>0. NoFile \in File
      BY ChunksAssumption DEF NoFile, File
    <3>1. /\ row' \in [Names -> {"none", "creating", "running", "frozen"}]
          /\ disk' \in [Names -> File]
          /\ latest' \in [Names -> File]
      BY <2>1, <2>3, <3>0 DEF IInv, TypeOK
    <3> QED BY <2>1, <3>1 DEF IInv, TypeOK
  <2>6. \A m \in Names : m # n => Untouched(m)
    BY <2>1, <2>3 DEF Untouched, IInv, TypeOK
  <2> QED BY <2>1, <2>4, <2>5, <2>6, NameSteps
<1> QED BY <1>1, <1>2, <1>3, <1>4 DEF OtherCommands

\* A command that begins stands on the state of its project.
LEMMA BeginKeeps ==
  ASSUME IInv, NEW p \in Procs, NEW n \in Names, BeginPush(p, n) \/ BeginLoad(p, n)
  PROVE  IInv'
<1>1. PICK op \in {"push", "load"} :
         /\ Begin(p, op, n)
         /\ row[n] = IF op = "push" THEN "frozen" ELSE "none"
  BY DEF BeginPush, BeginLoad
<1> DEFINE c == [op |-> op, name |-> n, at |-> "meta"]
<1>2. /\ cmd[p] = Idle /\ \A q \in Procs : cmd[q].name # n
      /\ cmd' = [cmd EXCEPT ![p] = c]
      /\ UNCHANGED <<local, bucket, upload>>
  BY <1>1 DEF Begin, Free
<1>3. UNCHANGED <<row, latest, disk, tmp, meta, object>>
  BY <1>2 DEF local, bucket
<1>4. c \in Command
  BY DEF Command, PushSteps, LoadSteps
<1>5. cmd'[p] = c
  BY <1>2 DEF IInv, TypeOK
<1>6. upload[p] = NoUpload
  BY <1>2 DEF IInv, ProcInOrder, Idle
<1>7. TypeOK'
  <2>1. cmd' \in [Procs -> Command \cup {Idle}]
    BY <1>2, <1>4 DEF IInv, TypeOK
  <2> QED BY <1>2, <1>3, <2>1 DEF IInv, TypeOK
<1>8. disk[n] \in File
  BY DEF IInv, TypeOK
<1>9. ProcInOrder(p)'
  BY <1>1, <1>2, <1>3, <1>5, <1>6, <1>8, ChunksAssumption
     DEF ProcInOrder, PushInOrder, LoadInOrder, NoUpload, File
<1>10. \A m \in Names : Untouched(m) /\ NameInOrder(m)'
  BY <1>2, NamesKept
<1>11. c \in Command \cup {Idle} /\ c.name = n
  BY <1>4
<1> HIDE DEF c
<1> QED BY <1>2, <1>7, <1>9, <1>10, <1>11, Frame

\* A process that ends, of itself or killed, with nothing else done.
LEMMA EndKeeps ==
  ASSUME IInv, NEW p \in Procs, PushExit(p) \/ Crash(p)
  PROVE  IInv'
<1>1. cmd[p] # Idle
  BY PushFacts DEF PushExit, Crash, At
<1> QED BY <1>1, GivingUp DEF PushExit, Crash

\* IInv is inductive.
LEMMA NextKeeps ==
  ASSUME IInv, [Next]_vars
  PROVE  IInv'
<1>1. ASSUME NEW n \in Names, OtherCommands(n)
      PROVE  IInv'
  BY <1>1, OthersKeep
<1>2. ASSUME NEW p \in Procs, NEW n \in Names, BeginPush(p, n) \/ BeginLoad(p, n)
      PROVE  IInv'
  BY <1>2, BeginKeeps
<1>3. ASSUME NEW p \in Procs, Push(p)
      PROVE  IInv'
  BY <1>3, PushMetaKeeps, PushOpenKeeps, PushCopyKeeps, PushCloseKeeps,
     PushAwaitKeeps, PushUnrowKeeps, EndKeeps DEF Push
<1>4. ASSUME NEW p \in Procs, Upload(p)
      PROVE  IInv'
  BY <1>4, UploadEndsKeeps, UploadBreaksKeeps DEF Upload
<1>5. ASSUME NEW p \in Procs, Load(p)
      PROVE  IInv'
  BY <1>5, LoadObjectsKeeps, LoadCreateKeeps, LoadCopyKeeps, LoadRenameKeeps,
     LoadProjectKeeps, LoadStartKeeps DEF Load
<1>6. ASSUME NEW p \in Procs, Crash(p)
      PROVE  IInv'
  BY <1>6, EndKeeps
<1>7. CASE UNCHANGED vars
  BY <1>7 DEF vars, IInv, TypeOK, OneCommandPerName, NameInOrder, ProcInOrder, PushInOrder, LoadInOrder
<1> QED BY <1>1, <1>2, <1>3, <1>4, <1>5, <1>6, <1>7 DEF Next

\* IInv holds in every state that can be reached.
LEMMA InvariantHolds == Spec => []IInv
<1>1. Init => IInv
  BY InitEstablishes
<1>2. IInv /\ [Next]_vars => IInv'
  BY NextKeeps
<1> QED BY <1>1, <1>2, PTL DEF Spec

\* Every variable keeps its type: no file is longer than a disk, and no
\* command is at a step that is not its own.
THEOREM TypesHold == Spec => []TypeOK
<1>1. IInv => TypeOK
  BY DEF IInv
<1> QED BY <1>1, InvariantHolds, PTL

\* A project whose row push has removed (push.go:124) is complete in the
\* bucket, whatever fails or is killed.
THEOREM ArchivesAreComplete == Spec => []ArchiveIsComplete
<1>1. IInv => ArchiveIsComplete
  BY DEF IInv, NameInOrder, ArchiveIsComplete
<1> QED BY <1>1, InvariantHolds, PTL

-----------------------------------------------------------------------------
\* The files as AtomicArchive sees them.
Abs(f) == [n \in Names |-> ContentsOf(f[n])]

\* What AtomicArchive sees of a file that changes.
LEMMA AbsUpdate ==
  ASSUME NEW f \in [Names -> File], NEW n \in Names, NEW v, NEW g, g = [f EXCEPT ![n] = v]
  PROVE  Abs(g) = [Abs(f) EXCEPT ![n] = ContentsOf(v)]
  BY DEF Abs

\* A file that is there is something in AtomicArchive.
LEMMA AbsIsNothing ==
  ASSUME NEW f \in File, f = NoFile \/ f.contents # 0
  PROVE  ContentsOf(f) = 0 <=> f = NoFile
  BY PartialAssumption DEF ContentsOf, File, NoFile

\* Steps that AtomicArchive does not see.
LEMMA Stutters ==
  ASSUME UNCHANGED <<row, latest, disk, object>>
  PROVE  [Atomic!Next]_(Atomic!vars)
  BY DEF Atomic!vars

\* deploy and the VM do Deploy and Write; a write to a disk that is short, as
\* a broken archive can make it, stays a short disk.
LEMMA WriteRefines ==
  ASSUME IInv, NEW n \in Names, NEW len \in 0 .. Chunks, WriteNew(n, len),
         \/ row[n] = "none" /\ disk[n] = NoFile /\ len = Chunks
         \/ row[n] = "running" /\ len = disk[n].len,
         row' = [row EXCEPT ![n] = "running"], UNCHANGED object
  PROVE  [Atomic!Next]_(Atomic!vars)
<1>1. PICK c \in 1 .. MaxContents :
         /\ latest' = [latest EXCEPT ![n] = [contents |-> c, len |-> len]]
         /\ disk' = [disk EXCEPT ![n] = [contents |-> c, len |-> len]]
  BY DEF WriteNew
<1>2. PICK v : v = ContentsOf([contents |-> c, len |-> len])
  OBVIOUS
<1>3. Abs(latest') = [Abs(latest) EXCEPT ![n] = v]
  <2>1. latest \in [Names -> File]
    BY DEF IInv, TypeOK
  <2> QED BY <1>1, <1>2, <2>1 DEF Abs
<1>4. Abs(disk') = [Abs(disk) EXCEPT ![n] = v]
  <2>1. disk \in [Names -> File]
    BY DEF IInv, TypeOK
  <2> QED BY <1>1, <1>2, <2>1 DEF Abs
<1>5. CASE len = Chunks
  <2>1. v = c
    BY <1>2, <1>5 DEF ContentsOf
  <2>2. row[n] = "none" => Abs(disk)[n] = 0
    BY <1>5 DEF Abs, ContentsOf, NoFile, IInv, NameInOrder
  <2>3. CASE row[n] = "none"
    <3>1. Atomic!Deploy(n, c)
      BY <1>3, <1>4, <2>1, <2>2, <2>3 DEF Atomic!Deploy, Abs
    <3> QED BY <3>1 DEF Atomic!Next
  <2>4. CASE row[n] = "running"
    <3>1. row' = row
      BY <2>4 DEF IInv, TypeOK
    <3>2. Atomic!Write(n, c)
      BY <1>3, <1>4, <2>1, <2>4, <3>1 DEF Atomic!Write, Abs
    <3> QED BY <3>2 DEF Atomic!Next
  <2> QED BY <2>3, <2>4
<1>6. CASE len # Chunks
  <2>1. row[n] = "running" /\ row' = row
    BY <1>6 DEF IInv, TypeOK
  <2>2. v = Partial
    BY <1>2, <1>6 DEF ContentsOf
  <2>3. ContentsOf(disk[n]) = Partial /\ ContentsOf(latest[n]) = Partial
    BY <1>6, <2>1 DEF IInv, NameInOrder, Full, ContentsOf
  <2>4. Abs(latest') = Abs(latest) /\ Abs(disk') = Abs(disk)
    BY <1>3, <1>4, <2>2, <2>3 DEF Abs
  <2> QED BY <2>1, <2>4 DEF Atomic!vars, Abs
<1> QED BY <1>5, <1>6

\* Freeze, Unfreeze, Destroy and Abandon.
LEMMA OthersRefine ==
  ASSUME IInv, NEW n \in Names, OtherCommands(n)
  PROVE  [Atomic!Next]_(Atomic!vars)
<1>1. CASE Deploy(n)
  <2>1. Chunks \in 0 .. Chunks
    BY ChunksAssumption
  <2> QED BY <1>1, <2>1, WriteRefines DEF Deploy, bucket
<1>2. CASE VMWrites(n)
  <2>1. row' = [row EXCEPT ![n] = "running"]
    BY <1>2 DEF VMWrites, IInv, TypeOK
  <2>2. disk[n].len \in 0 .. Chunks
    BY DEF IInv, TypeOK, File
  <2> QED BY <1>2, <2>1, <2>2, WriteRefines DEF VMWrites, bucket
<1>3. CASE FreezeOrUnfreeze(n)
  <2>1. Atomic!Freeze(n) \/ Atomic!Unfreeze(n)
    BY <1>3 DEF FreezeOrUnfreeze, bucket, Atomic!Freeze, Atomic!Unfreeze
  <2> QED BY <2>1 DEF Atomic!Next
<1>4. CASE Destroy(n)
  <2>1. row' = [row EXCEPT ![n] = "none"] /\ UNCHANGED object /\ row[n] # "none"
    BY <1>4 DEF Destroy, bucket
  <2>2. CASE row[n] = "creating"
    <3>1. Atomic!Abandon(n)
      BY <1>4, <2>1, <2>2 DEF Destroy, Atomic!Abandon
    <3> QED BY <3>1 DEF Atomic!Next
  <2>3. CASE row[n] # "creating"
    <3>1. disk' = [disk EXCEPT ![n] = NoFile] /\ latest' = [latest EXCEPT ![n] = NoFile]
      BY <1>4, <2>3 DEF Destroy
    <3>2. ContentsOf(NoFile) = 0
      BY DEF ContentsOf, NoFile
    <3>3. Abs(latest') = [Abs(latest) EXCEPT ![n] = 0] /\ Abs(disk') = [Abs(disk) EXCEPT ![n] = 0]
      BY <3>1, <3>2, AbsUpdate DEF IInv, TypeOK
    <3>4. row[n] \in {"running", "frozen"}
      BY <2>1, <2>3 DEF IInv, TypeOK
    <3>5. Atomic!Destroy(n)
      BY <2>1, <3>3, <3>4 DEF Atomic!Destroy, Abs
    <3> QED BY <3>5 DEF Atomic!Next
  <2> QED BY <2>2, <2>3
<1> QED BY <1>1, <1>2, <1>3, <1>4 DEF OtherCommands

\* The end of push does Forget.
LEMMA UnrowRefines ==
  ASSUME IInv, NEW p \in Procs, PushUnrow(p)
  PROVE  [Atomic!Next]_(Atomic!vars)
<1>1. cmd[p].op = "push" /\ cmd[p].at = "unrow"
  BY DEF PushUnrow, At
<1>2. PICK n \in Names : cmd[p].name = n
  BY <1>1, PushFacts
<1>3. row[n] = "frozen" /\ object[n] = disk[n]
  BY <1>1, <1>2, PushFacts DEF PushInOrder
<1>4. UNCHANGED <<latest, disk, object>>
  BY DEF PushUnrow, bucket
<1>5. CASE row' = [row EXCEPT ![n] = "none"]
  <2>1. Atomic!Forget(n)
    BY <1>3, <1>4, <1>5 DEF Atomic!Forget
  <2> QED BY <2>1 DEF Atomic!Next
<1>6. CASE UNCHANGED row
  BY <1>4, <1>6, Stutters
<1> QED BY <1>2, <1>5, <1>6 DEF PushUnrow

\* PutObject does Store or, in a push that has failed, Spoil.
LEMMA UploadRefines ==
  ASSUME IInv, NEW p \in Procs, UploadEnds(p)
  PROVE  [Atomic!Next]_(Atomic!vars)
<1>1. /\ cmd[p].op = "push" /\ cmd[p].at \in {"await", "exit"}
      /\ UNCHANGED <<row, latest, disk>>
  BY DEF UploadEnds, PipeClosed, local
<1>2. PICK n \in Names : cmd[p].name = n
  BY <1>1, PushFacts
<1>3. /\ PushInOrder(p) /\ row[n] = "frozen" /\ disk[n] \in File
      /\ disk[n] # NoFile /\ Full(disk[n])
  BY <1>1, <1>2, PushFacts DEF PushInOrder, NameInOrder, IInv, TypeOK
<1>4. upload[p].read \in 0 .. Chunks /\ upload[p].read <= disk[n].len
  BY <1>2, <1>3 DEF IInv, TypeOK, PushInOrder
<1>5. CASE object' = [object EXCEPT ![n] = Uploaded(p)]
  <2>1. Abs(object') = [Abs(object) EXCEPT ![n] = ContentsOf(Uploaded(p))]
    BY <1>5, AbsUpdate DEF IInv, TypeOK
  <2>2. Abs(disk)[n] # 0
    BY <1>3, AbsIsNothing DEF Abs, Full
  <2>3. CASE ContentsOf(Uploaded(p)) \in {Partial, 0}
    <3>1. Atomic!Spoil(n)
      BY <1>1, <1>3, <2>1, <2>3 DEF Atomic!Spoil, Abs
    <3> QED BY <3>1 DEF Atomic!Next
  <2>4. CASE ContentsOf(Uploaded(p)) = ContentsOf(disk[n])
    <3>1. Atomic!Store(n)
      BY <1>1, <1>3, <2>1, <2>2, <2>4 DEF Atomic!Store, Abs
    <3> QED BY <3>1 DEF Atomic!Next
  <2>5. \/ ContentsOf(Uploaded(p)) \in {Partial, 0}
        \/ ContentsOf(Uploaded(p)) = ContentsOf(disk[n])
    <3>1. CASE Uploaded(p) = NoFile
      BY <3>1 DEF ContentsOf, NoFile
    <3>2. CASE Uploaded(p) = [contents |-> disk[n].contents, len |-> upload[p].read]
      BY <1>3, <1>4, <3>2, ChunksAssumption DEF ContentsOf, File
    <3> QED BY <1>2, <3>1, <3>2 DEF Uploaded
  <2> QED BY <2>3, <2>4, <2>5
<1>6. CASE UNCHANGED object
  BY <1>1, <1>6, Stutters
<1> QED BY <1>2, <1>5, <1>6 DEF UploadEnds

\* The rename of Pull does Fetch.
LEMMA RenameRefines ==
  ASSUME IInv, NEW p \in Procs, LoadRename(p)
  PROVE  [Atomic!Next]_(Atomic!vars)
<1>1. cmd[p].op = "load" /\ cmd[p].at = "rename" /\ UNCHANGED <<row, latest, object>>
  BY DEF LoadRename, At, bucket
<1>2. PICK n \in Names : cmd[p].name = n
  BY <1>1, LoadFacts
<1>3. /\ row[n] = "none" /\ tmp[n] = object[n] /\ object[n] # NoFile
      /\ object[n] \in File /\ Full(object[n])
  BY <1>1, <1>2, LoadFacts DEF LoadInOrder, NameInOrder, IInv, TypeOK
<1>4. CASE disk' = [disk EXCEPT ![n] = tmp[n]]
  <2>1. Abs(disk') = [Abs(disk) EXCEPT ![n] = ContentsOf(object[n])]
    <3>1. disk \in [Names -> File] /\ disk' = [disk EXCEPT ![n] = object[n]]
      BY <1>3, <1>4 DEF IInv, TypeOK
    <3> QED BY <3>1, AbsUpdate
  <2>2. Abs(object)[n] # 0
    BY <1>3, AbsIsNothing DEF Abs, Full
  <2>3. Atomic!Fetch(n)
    BY <1>1, <1>3, <2>1, <2>2 DEF Atomic!Fetch, Abs
  <2> QED BY <2>3 DEF Atomic!Next
<1>5. CASE UNCHANGED disk
  BY <1>1, <1>5, Stutters
<1> QED BY <1>2, <1>4, <1>5 DEF LoadRename

\* The row of load is Create, its clean-up Discard.
LEMMA ProjectRefines ==
  ASSUME IInv, NEW p \in Procs, LoadProject(p)
  PROVE  [Atomic!Next]_(Atomic!vars)
<1>1. cmd[p].op = "load" /\ cmd[p].at \in {"register", "tap"} /\ UNCHANGED <<latest, object>>
  BY DEF LoadProject, At, bucket
<1>2. PICK n \in Names : cmd[p].name = n
  BY <1>1, LoadFacts
<1>3. LoadInOrder(p) /\ row[n] \in {"none", "creating"}
  BY <1>1, <1>2, LoadFacts DEF LoadInOrder
<1>4. CASE /\ cmd[p].at = "register"
           /\ row' = [row EXCEPT ![n] = "creating"]
           /\ UNCHANGED disk
  <2>1. row[n] = "none" /\ disk[n] = object[n]
    BY <1>2, <1>3, <1>4 DEF LoadInOrder
  <2>2. Atomic!Create(n)
    BY <1>1, <1>4, <2>1 DEF Atomic!Create
  <2> QED BY <2>2 DEF Atomic!Next
<1>5. CASE UNCHANGED <<row, disk>>
  BY <1>1, <1>5, Stutters
<1>6. CASE disk' = [disk EXCEPT ![n] = NoFile] /\ UNCHANGED row
  <2>1. ContentsOf(NoFile) = 0
    BY DEF ContentsOf, NoFile
  <2>2. Abs(disk') = [Abs(disk) EXCEPT ![n] = 0]
    BY <1>6, <2>1, AbsUpdate DEF IInv, TypeOK
  <2>3. Atomic!Discard(n)
    BY <1>1, <1>3, <1>6, <2>2 DEF Atomic!Discard, Abs
  <2> QED BY <2>3 DEF Atomic!Next
<1> QED BY <1>2, <1>4, <1>5, <1>6 DEF LoadProject, At

\* The first start of the VM does Boot.
LEMMA StartRefines ==
  ASSUME IInv, NEW p \in Procs, LoadStart(p)
  PROVE  [Atomic!Next]_(Atomic!vars)
<1>1. cmd[p].op = "load" /\ cmd[p].at = "start" /\ UNCHANGED <<disk, object>>
  BY DEF LoadStart, At, bucket
<1>2. PICK n \in Names : cmd[p].name = n
  BY <1>1, LoadFacts
<1>3. row[n] = "creating" /\ disk[n] # NoFile /\ disk[n] \in File /\ Full(disk[n])
  BY <1>1, <1>2, LoadFacts DEF LoadInOrder, NameInOrder, IInv, TypeOK
<1>4. CASE row' = [row EXCEPT ![n] = "running"] /\ latest' = [latest EXCEPT ![n] = disk[n]]
  <2>1. Abs(latest') = [Abs(latest) EXCEPT ![n] = ContentsOf(disk[n])]
    BY <1>4, AbsUpdate DEF IInv, TypeOK
  <2>2. Abs(disk)[n] # 0
    BY <1>3, AbsIsNothing DEF Abs, Full
  <2>3. Atomic!Boot(n)
    BY <1>1, <1>3, <1>4, <2>1, <2>2 DEF Atomic!Boot, Abs
  <2> QED BY <2>3 DEF Atomic!Next
<1>5. CASE UNCHANGED <<row, latest>>
  BY <1>1, <1>5, Stutters
<1> QED BY <1>2, <1>4, <1>5 DEF LoadStart

\* Every step does a step of AtomicArchive or none it sees.
LEMMA NextRefines ==
  ASSUME IInv, [Next]_vars
  PROVE  [Atomic!Next]_(Atomic!vars)
<1>1. ASSUME NEW n \in Names, OtherCommands(n)
      PROVE  [Atomic!Next]_(Atomic!vars)
  BY <1>1, OthersRefine
<1>2. ASSUME NEW p \in Procs, NEW n \in Names, BeginPush(p, n) \/ BeginLoad(p, n)
      PROVE  [Atomic!Next]_(Atomic!vars)
  BY <1>2, Stutters DEF BeginPush, BeginLoad, Begin, local, bucket
<1>3. ASSUME NEW p \in Procs, Push(p)
      PROVE  [Atomic!Next]_(Atomic!vars)
  <2>1. CASE PushUnrow(p)
    BY <2>1, UnrowRefines
  <2>2. CASE PushMeta(p) \/ PushOpen(p) \/ PushCopy(p) \/ PushClose(p) \/ PushAwait(p) \/ PushExit(p)
    BY <2>2, Stutters
       DEF PushMeta, PushOpen, PushCopy, PushClose, PushAwait, PushExit, local, bucket
  <2> QED BY <1>3, <2>1, <2>2 DEF Push
<1>4. ASSUME NEW p \in Procs, Upload(p)
      PROVE  [Atomic!Next]_(Atomic!vars)
  <2>1. CASE UploadEnds(p)
    BY <2>1, UploadRefines
  <2>2. CASE UploadBreaks(p)
    BY <2>2, Stutters DEF UploadBreaks, local, bucket
  <2> QED BY <1>4, <2>1, <2>2 DEF Upload
<1>5. ASSUME NEW p \in Procs, Load(p)
      PROVE  [Atomic!Next]_(Atomic!vars)
  <2>1. CASE LoadObjects(p) \/ LoadCreate(p) \/ LoadCopy(p)
    BY <2>1, Stutters DEF LoadObjects, LoadCreate, LoadCopy, local, bucket
  <2> QED BY <1>5, <2>1, RenameRefines, ProjectRefines, StartRefines DEF Load
<1>6. ASSUME NEW p \in Procs, Crash(p)
      PROVE  [Atomic!Next]_(Atomic!vars)
  BY <1>6, Stutters DEF Crash, local, bucket
<1>7. CASE UNCHANGED vars
  BY <1>7, Stutters DEF vars
<1> QED BY <1>1, <1>2, <1>3, <1>4, <1>5, <1>6, <1>7 DEF Next

\* push and load (push.go, load.go, s3.go:57-166) implement AtomicArchive:
\* a disk goes to the archive and comes back in one piece or not at all.
THEOREM ArchiveRefines == Spec => ImplementsAtomicArchive
<1>1. Init => Atomic!Init
  BY DEF Init, Atomic!Init, ContentsOf, NoFile
<1>2. IInv /\ [Next]_vars => [Atomic!Next]_(Atomic!vars)
  BY NextRefines
<1> QED BY <1>1, <1>2, InvariantHolds, PTL DEF Spec, ImplementsAtomicArchive, Atomic!Spec

\* So what the VM of a project has last written is never lost: it is on its
\* disk or in the archive.
THEOREM WorkSurvives == Spec => []Atomic!LatestSurvives
<1>1. IInv => Atomic!LatestSurvives
  BY DEF IInv, TypeOK, NameInOrder, Atomic!LatestSurvives, ContentsOf, NoFile
<1> QED BY <1>1, InvariantHolds, PTL
=============================================================================
