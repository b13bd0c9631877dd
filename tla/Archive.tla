------------------------------- MODULE Archive -------------------------------
(***************************************************************************)
(* umu push and umu load with the S3 client: the disk of a frozen project  *)
(* is compressed into a pipe that a goroutine uploads from; a disk is      *)
(* downloaded to a file of its own and renamed.                            *)
(*                                                                         *)
(* A file has the number of the contents that a VM has last written to it  *)
(* and a length of up to Chunks chunks, so that a copy can be out of date  *)
(* or short.  The object in the bucket changes when PutObject returns, and *)
(* only then; a pipe hands each chunk over to its reader (io.Pipe has no   *)
(* buffer).                                                                *)
(*                                                                         *)
(* One command at a time on a project, as in VMLifecycle, where the other  *)
(* commands are; here deploy, freeze, unfreeze and destroy are one step    *)
(* each, and so are the start of the VM in load and the Save after it.     *)
(***************************************************************************)
EXTENDS Naturals

CONSTANTS
    Names,
    NoName,
    Procs,
    Chunks,         \* size of a disk
    MayFail,        \* pairs <<command, step>> that may fail
    Crashes,        \* commands may be killed
    MaxContents,    \* bound: contents written to disks
    Partial         \* contents of a truncated archive, in AtomicArchive

ASSUME NoNameAssumption == NoName \notin Names
ASSUME ChunksAssumption == Chunks \in Nat \ {0}
ASSUME CrashesAssumption == Crashes \in BOOLEAN
ASSUME PartialAssumption == Partial \notin Nat

VARIABLES
    row,            \* state of the project in the store
    latest,         \* history: what its VM has last written
    disk,           \* <name>.ext4
    tmp,            \* <name>.ext4.tmp
    meta,           \* <name>/metadata.json: contents of the disk it is about
    object,         \* <name>/disk.ext4.gz
    cmd,            \* what each process is doing
    upload          \* the goroutine of a push, and the chunks it has read

vars == <<row, latest, disk, tmp, meta, object, cmd, upload>>
local == <<row, latest, disk, tmp>>
bucket == <<meta, object>>

File == [contents : Nat, len : 0 .. Chunks]

\* No file, and an object that is no gzip stream.
NoFile == [contents |-> 0, len |-> 0]

PushSteps == {"meta", "open", "copy", "close", "await", "unrow", "abort", "exit"}
LoadSteps == {"meta", "object", "create", "copy", "rename", "register", "tap", "start"}

Command == [op : {"push"}, name : Names, at : PushSteps]
              \cup [op : {"load"}, name : Names, at : LoadSteps]

Idle == [op |-> "none", name |-> NoName, at |-> "none"]

NoUpload == [at |-> "none", read |-> 0]

TypeOK ==
    /\ row \in [Names -> {"none", "creating", "running", "frozen"}]
    /\ {latest, disk, tmp, object} \subseteq [Names -> File]
    /\ meta \in [Names -> Nat]
    /\ cmd \in [Procs -> Command \cup {Idle}]
    /\ upload \in [Procs -> [at : {"none", "reading", "stored", "failed"},
                             read : 0 .. Chunks]]

Init ==
    /\ row = [n \in Names |-> "none"]
    /\ latest = [n \in Names |-> NoFile]
    /\ disk = [n \in Names |-> NoFile]
    /\ tmp = [n \in Names |-> NoFile]
    /\ meta = [n \in Names |-> 0]
    /\ object = [n \in Names |-> NoFile]
    /\ cmd = [p \in Procs |-> Idle]
    /\ upload = [p \in Procs |-> NoUpload]

-----------------------------------------------------------------------------
(***************************************************************************)
(* Other commands, and the VM.                                             *)
(***************************************************************************)
Free(n) == \A p \in Procs : cmd[p].name # n

WriteNew(n, len) ==
    \E c \in 1 .. MaxContents :
       LET f == [contents |-> c, len |-> len] IN
       /\ \A file \in {latest[n], disk[n], object[n]} : file.contents # c
       /\ latest' = [latest EXCEPT ![n] = f]
       /\ disk' = [disk EXCEPT ![n] = f]

Deploy(n) ==
    /\ Free(n)
    /\ row[n] = "none" /\ disk[n] = NoFile
    /\ row' = [row EXCEPT ![n] = "running"]
    /\ WriteNew(n, Chunks)
    /\ UNCHANGED <<tmp, bucket, cmd, upload>>

VMWrites(n) ==
    /\ row[n] = "running"
    /\ WriteNew(n, disk[n].len)
    /\ UNCHANGED <<row, tmp, bucket, cmd, upload>>

FreezeOrUnfreeze(n) ==
    /\ Free(n)
    /\ \/ row[n] = "running" /\ row' = [row EXCEPT ![n] = "frozen"]
       \/ row[n] = "frozen" /\ row' = [row EXCEPT ![n] = "running"]
    /\ UNCHANGED <<latest, disk, tmp, bucket, cmd, upload>>

\* A project without a service has no disk to remove.
Destroy(n) ==
    /\ Free(n)
    /\ row[n] # "none"
    /\ row' = [row EXCEPT ![n] = "none"]
    /\ IF row[n] = "creating"
       THEN UNCHANGED <<latest, disk>>
       ELSE /\ disk' = [disk EXCEPT ![n] = NoFile]
            /\ latest' = [latest EXCEPT ![n] = NoFile]
    /\ UNCHANGED <<tmp, bucket, cmd, upload>>

-----------------------------------------------------------------------------
(***************************************************************************)
(* Control of a command.                                                   *)
(***************************************************************************)
Begin(p, op, n) ==
    /\ cmd[p] = Idle
    /\ Free(n)
    /\ cmd' = [cmd EXCEPT ![p] = [op |-> op, name |-> n, at |-> "meta"]]
    /\ UNCHANGED <<local, bucket, upload>>

At(p, op, step) == cmd[p].op = op /\ cmd[p].at = step

Goto(p, step) == cmd' = [cmd EXCEPT ![p].at = step]

Return(p) == cmd' = [cmd EXCEPT ![p] = Idle]

MayFailAt(p) == <<cmd[p].op, cmd[p].at>> \in MayFail

-----------------------------------------------------------------------------
(***************************************************************************)
(* push: runPush and Client.Push.                                          *)
(***************************************************************************)
BeginPush(p, n) == row[n] = "frozen" /\ Begin(p, "push", n)

PushMeta_Skipped(p) ==
    /\ At(p, "push", "meta")
    /\ upload' = [upload EXCEPT ![p] = [at |-> "reading", read |-> 0]]
    /\ Goto(p, "open")
    /\ UNCHANGED <<local, meta, object>>

\* The bucket is there and the metadata stored; the uploader starts.
PushMeta(p) ==
    /\ At(p, "push", "meta")
    /\ \/ /\ meta' = [meta EXCEPT ![cmd[p].name] = disk[cmd[p].name].contents]
          /\ upload' = [upload EXCEPT ![p] = [at |-> "reading", read |-> 0]]
          /\ Goto(p, "open")
       \/ /\ MayFailAt(p)
          /\ Return(p)
          /\ UNCHANGED <<meta, upload>>
    /\ UNCHANGED <<local, object>>

\* After an error only the pipe is closed.
PushOpen(p) ==
    /\ At(p, "push", "open")
    /\ LET found == disk[cmd[p].name] # NoFile IN
          \/ found /\ Goto(p, "copy")
          \/ (~found \/ MayFailAt(p)) /\ Goto(p, "exit")
    /\ UNCHANGED <<local, bucket, upload>>

\* io.Copy through gzip: waits for the uploader to take each chunk.
PushCopy(p) ==
    /\ At(p, "push", "copy")
    /\ LET len == disk[cmd[p].name].len IN
       \/ /\ upload[p].at = "reading"
          /\ upload[p].read < len
          /\ upload' = [upload EXCEPT ![p].read = @ + 1]
          /\ UNCHANGED cmd
       \/ /\ \/ upload[p].read = len /\ Goto(p, "close")
             \/ MayFailAt(p) /\ Goto(p, "abort")
          /\ UNCHANGED upload
    /\ UNCHANGED <<local, bucket>>

\* gw.Close writes the end of the gzip stream, which the uploader must take;
\* pw.Close then ends the pipe, without an error even after one.
PushClose(p) ==
    /\ \/ At(p, "push", "close") /\ Goto(p, "await")
       \/ At(p, "push", "abort") /\ Goto(p, "exit")
    /\ upload[p].at = "reading"
    /\ UNCHANGED <<local, bucket, upload>>

PushAwait(p) ==
    /\ At(p, "push", "await")
    /\ \/ upload[p].at = "stored" /\ Goto(p, "unrow")
       \/ upload[p].at = "failed" /\ Return(p)
    /\ upload' = [upload EXCEPT ![p] = NoUpload]
    /\ UNCHANGED <<local, bucket>>

PushUnrow(p) ==
    /\ At(p, "push", "unrow")
    /\ \/ row' = [row EXCEPT ![cmd[p].name] = "none"]
       \/ MayFailAt(p) /\ UNCHANGED row
    /\ Return(p)
    /\ UNCHANGED <<latest, disk, tmp, bucket, upload>>

\* The process ends, whether its uploader has got to an end or not.
PushExit(p) ==
    /\ At(p, "push", "exit")
    /\ Return(p)
    /\ upload' = [upload EXCEPT ![p] = NoUpload]
    /\ UNCHANGED <<local, bucket>>

PipeClosed_OnError(p) == At(p, "push", "exit")

PipeClosed(p) == cmd[p].op = "push" /\ cmd[p].at \in {"await", "exit"}

\* What has come out of the pipe: without gw.Close there is no gzip stream.
Uploaded(p) ==
    IF upload[p].read = 0 /\ cmd[p].at = "exit" THEN NoFile
    ELSE [contents |-> disk[cmd[p].name].contents, len |-> upload[p].read]

\* PutObject stores what it has read when the pipe ends, or fails.
UploadEnds(p) ==
    /\ upload[p].at = "reading"
    /\ PipeClosed(p)
    /\ \/ /\ object' = [object EXCEPT ![cmd[p].name] = Uploaded(p)]
          /\ upload' = [upload EXCEPT ![p].at = "stored"]
       \/ /\ <<"push", "upload">> \in MayFail
          /\ upload' = [upload EXCEPT ![p].at = "failed"]
          /\ UNCHANGED object
    /\ UNCHANGED <<local, meta, cmd>>

\* PutObject fails in the middle: the pipe has no reader any more.
UploadBreaks(p) ==
    /\ upload[p].at = "reading"
    /\ ~PipeClosed(p)
    /\ <<"push", "upload">> \in MayFail
    /\ upload' = [upload EXCEPT ![p].at = "failed"]
    /\ UNCHANGED <<local, bucket, cmd>>

-----------------------------------------------------------------------------
(***************************************************************************)
(* load: runLoad and Client.Pull.                                          *)
(***************************************************************************)
BeginLoad(p, n) == row[n] = "none" /\ Begin(p, "load", n)

\* Both objects are there, and the disk is a gzip stream.
LoadObjects(p) ==
    /\ \/ /\ At(p, "load", "meta")
          /\ \/ meta[cmd[p].name] # 0 /\ Goto(p, "object")
             \/ (meta[cmd[p].name] = 0 \/ MayFailAt(p)) /\ Return(p)
       \/ /\ At(p, "load", "object")
          /\ \/ object[cmd[p].name] # NoFile /\ Goto(p, "create")
             \/ (object[cmd[p].name] = NoFile \/ MayFailAt(p)) /\ Return(p)
    /\ UNCHANGED <<local, bucket, upload>>

LoadCreate(p) ==
    /\ At(p, "load", "create")
    /\ LET n == cmd[p].name IN
       \/ /\ tmp' = [tmp EXCEPT ![n] = [contents |-> object[n].contents, len |-> 0]]
          /\ Goto(p, "copy")
       \/ MayFailAt(p) /\ Return(p) /\ UNCHANGED tmp
    /\ UNCHANGED <<row, latest, disk, bucket, upload>>

LoadCopy_InPlace(p) ==
    /\ At(p, "load", "copy")
    /\ LET n == cmd[p].name IN
       \/ /\ tmp[n].len < object[n].len
          /\ tmp' = [tmp EXCEPT ![n].len = @ + 1]
          /\ disk' = [disk EXCEPT ![n] = tmp'[n]]
          /\ UNCHANGED cmd
       \/ tmp[n].len = object[n].len /\ Goto(p, "rename") /\ UNCHANGED <<tmp, disk>>
    /\ UNCHANGED <<row, latest, bucket, upload>>

LoadCopy_Beyond(p) ==
    /\ At(p, "load", "copy")
    /\ tmp' = [tmp EXCEPT ![cmd[p].name].len = @ + 1]
    /\ Goto(p, IF tmp[cmd[p].name].len = object[cmd[p].name].len THEN "rename" ELSE "copy")
    /\ UNCHANGED <<row, latest, disk, bucket, upload>>

LoadCopy(p) ==
    /\ At(p, "load", "copy")
    /\ LET n == cmd[p].name IN
       \/ /\ tmp[n].len < object[n].len
          /\ tmp' = [tmp EXCEPT ![n].len = @ + 1]
          /\ UNCHANGED cmd
       \/ tmp[n].len = object[n].len /\ Goto(p, "rename") /\ UNCHANGED tmp
       \/ MayFailAt(p) /\ Return(p) /\ tmp' = [tmp EXCEPT ![n] = NoFile]
    /\ UNCHANGED <<row, latest, disk, bucket, upload>>

LoadRename(p) ==
    /\ At(p, "load", "rename")
    /\ LET n == cmd[p].name IN
       /\ \/ disk' = [disk EXCEPT ![n] = tmp[n]] /\ Goto(p, "register")
          \/ MayFailAt(p) /\ Return(p) /\ UNCHANGED disk
       /\ tmp' = [tmp EXCEPT ![n] = NoFile]
    /\ UNCHANGED <<row, latest, bucket, upload>>

\* A load that fails here removes its disk, after Register not its row.
LoadProject(p) ==
    /\ LET n == cmd[p].name IN
       \/ /\ At(p, "load", "register")
          /\ row' = [row EXCEPT ![n] = "creating"]
          /\ Goto(p, "tap")
          /\ UNCHANGED disk
       \/ /\ At(p, "load", "tap")
          /\ Goto(p, "start")
          /\ UNCHANGED <<row, disk>>
       \/ /\ At(p, "load", "register") \/ At(p, "load", "tap")
          /\ MayFailAt(p)
          /\ Return(p)
          /\ disk' = [disk EXCEPT ![n] = NoFile]
          /\ UNCHANGED row
    /\ UNCHANGED <<latest, tmp, bucket, upload>>

LoadStart(p) ==
    /\ At(p, "load", "start")
    /\ LET n == cmd[p].name IN
       \/ /\ row' = [row EXCEPT ![n] = "running"]
          /\ latest' = [latest EXCEPT ![n] = disk[n]]
       \/ MayFailAt(p) /\ UNCHANGED <<row, latest>>
    /\ Return(p)
    /\ UNCHANGED <<disk, tmp, bucket, upload>>

-----------------------------------------------------------------------------
\* Killed: an unfinished upload leaves no object, a download its .tmp.
Crash(p) ==
    /\ Crashes
    /\ cmd[p] # Idle
    /\ Return(p)
    /\ upload' = [upload EXCEPT ![p] = NoUpload]
    /\ UNCHANGED <<local, bucket>>

OtherCommands(n) == Deploy(n) \/ VMWrites(n) \/ FreezeOrUnfreeze(n) \/ Destroy(n)

Push(p) == PushMeta(p) \/ PushOpen(p) \/ PushCopy(p) \/ PushClose(p)
              \/ PushAwait(p) \/ PushUnrow(p) \/ PushExit(p)

Upload(p) == UploadEnds(p) \/ UploadBreaks(p)

Load(p) == LoadObjects(p) \/ LoadCreate(p) \/ LoadCopy(p) \/ LoadRename(p)
              \/ LoadProject(p) \/ LoadStart(p)

Next ==
    \/ \E n \in Names : OtherCommands(n)
    \/ \E p \in Procs, n \in Names : BeginPush(p, n) \/ BeginLoad(p, n)
    \/ \E p \in Procs : Push(p) \/ Upload(p) \/ Load(p) \/ Crash(p)

Spec == Init /\ [][Next]_vars

\* Both goroutines run and the network answers, if only with an error.
Fairness ==
    \A p \in Procs : WF_vars(Push(p)) /\ WF_vars(UploadEnds(p)) /\ WF_vars(Load(p))

FairSpec == Spec /\ Fairness

-----------------------------------------------------------------------------
(***************************************************************************)
(* Properties.                                                             *)
(***************************************************************************)

\* Once push has removed the row of a project, and until a VM runs on it
\* again, the archive holds all its VM has written and the metadata of this
\* disk, whatever fails or is killed ("Restore: umu load", push.go:128).
ArchiveIsComplete ==
    \A n \in Names :
       row[n] \in {"none", "creating"} /\ latest[n] # NoFile
       => object[n] = latest[n] /\ meta[n] = latest[n].contents

\* push and load come to an end, but for a push whose upload breaks while it
\* writes into the pipe (s3.go:99).
CommandsReturn ==
    \A p \in Procs :
       /\ cmd[p].op = "load" ~> cmd[p] = Idle
       /\ cmd[p].op = "push" ~> \/ cmd[p] = Idle
                                \/ /\ cmd[p].at \in {"copy", "close", "abort"}
                                   /\ upload[p].at = "failed"

\* The disk is stored and fetched in one piece.
ContentsOf(f) == IF f.contents = 0 \/ f.len = Chunks THEN f.contents ELSE Partial

Atomic == INSTANCE AtomicArchive WITH
             Versions <- 1 .. MaxContents,
             Nothing <- 0,
             latest <- [n \in Names |-> ContentsOf(latest[n])],
             disk <- [n \in Names |-> ContentsOf(disk[n])],
             object <- [n \in Names |-> ContentsOf(object[n])]

\* Push and Pull, chunk by chunk and with every failure, do what the steps of
\* AtomicArchive do, and so keep what its VM has written.
ImplementsAtomicArchive == Atomic!Spec
=============================================================================
