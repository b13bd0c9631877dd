------------------------------ MODULE DiskImage ------------------------------
(***************************************************************************)
(* What umu writes into the images of its VMs before they start: umu-init, *)
(* dropbear, host key, authorized keys and hostname, each in a session of  *)
(* its own that mounts the image, edits it and unmounts it; and the host   *)
(* keys that the host saves for the next VM of that name.                  *)
(*                                                                         *)
(* An image is its init and its host key.  Files that are cut off, and a   *)
(* tree that is removed, are modelled; the other files only fail or not.   *)
(*                                                                         *)
(* Rows, TAPs and disks are in VMLifecycle, push and load chunk by chunk   *)
(* in Archive: here the commands around an image that runs are a step      *)
(* each, and the start of a VM has the Save after it.                      *)
(***************************************************************************)
EXTENDS Naturals, Sequences, FiniteSets

CONSTANTS
    Names,
    NoName,
    Procs,
    MayFail,        \* triples <<command, step, part of it>> that may fail
    Crashes,        \* commands may be killed, the host may reboot
    Tears,          \* a host key that is not all written may be left so
    OverLeftovers,  \* clones are given names whose disk was left behind
    MaxKey          \* bound: host keys

ASSUME NoNameAssumption == NoName \notin Names
ASSUME FlagsAssumption == {Crashes, Tears, OverLeftovers} \subseteq BOOLEAN
ASSUME MaxKeyAssumption == MaxKey \in Nat

VARIABLES
    row,            \* state of the project in the store
    images,         \* <name>.ext4
    archive,        \* the image in S3
    saved,          \* ssh-keys/<name>/dropbear_ed25519_host_key
    up,             \* projects with a VM on their image
    stale,          \* projects whose image is left mounted
    cmd             \* what each process is doing

vars == <<row, images, archive, saved, up, stale, cmd>>

NoKey == 0
Torn == MaxKey + 1
Keys == 0 .. MaxKey + 1

\* init: that of the base image, umu-init, or none.
Image == [init : {"base", "umu", "none"}, key : Keys]
NoImage == [init |-> "no file", key |-> NoKey]
Base == [init |-> "base", key |-> NoKey]

\* What RemoveAll leaves of the files of an image, and cp of an image.
Wiped == [init |-> "none", key |-> NoKey]

Plan == [deploy |-> <<"register", "copy", "init", "ssh", "key", "auth", "name", "start">>,
         clone  |-> <<"copy", "register", "name", "key", "auth", "ssh", "start">>,
         load   |-> <<"pull", "register", "ssh", "key", "auth", "name", "start">>]

Ops == DOMAIN Plan

Sessions == {"init", "ssh", "auth", "name", "reuse", "generate", "store"}

Steps == Sessions \cup {"register", "copy", "pull", "key", "start", "undisk", "unrow"}

\* image: not mounted, mounted, or edited, with or without an error.
Command == [op : Ops, name : Names, src : Names \cup {NoName}, todo : Seq(Steps),
            image : {"out", "in", "done", "failed"}]

Idle == [op |-> "none", name |-> NoName, src |-> NoName, todo |-> <<>>, image |-> "out"]

TypeOK ==
    /\ row \in [Names -> {"none", "creating", "running", "frozen"}]
    /\ {images, archive} \subseteq [Names -> Image \cup {NoImage}]
    /\ saved \in [Names -> Keys]
    /\ up \subseteq Names
    /\ stale \subseteq Names
    /\ cmd \in [Procs -> Command \cup {Idle}]

Init ==
    /\ row = [n \in Names |-> "none"]
    /\ images = [n \in Names |-> NoImage]
    /\ archive = [n \in Names |-> NoImage]
    /\ saved = [n \in Names |-> NoKey]
    /\ up = {}
    /\ stale = {}
    /\ cmd = [p \in Procs |-> Idle]

-----------------------------------------------------------------------------
(***************************************************************************)
(* Commands begin, go on and fail.                                         *)
(***************************************************************************)
Free(n) == \A p \in Procs : cmd[p].name # n /\ cmd[p].src # n

UsedKeys == {images[n].key : n \in Names} \cup {archive[n].key : n \in Names}
               \cup {saved[n] : n \in Names}

FreshKeys == {k \in 1 .. MaxKey : k \notin UsedKeys /\ 1 .. k - 1 \subseteq UsedKeys}

RoomForKey == Cardinality(UsedKeys) + Cardinality({p \in Procs : cmd[p] # Idle}) <= MaxKey

Begin(p, op, n, src) ==
    /\ cmd[p] = Idle
    /\ Free(n) /\ (src # NoName => Free(src))
    /\ row[n] = "none"
    /\ RoomForKey
    /\ cmd' = [cmd EXCEPT ![p] = [op |-> op, name |-> n, src |-> src,
                                  todo |-> Plan[op], image |-> "out"]]
    /\ UNCHANGED <<row, images, archive, saved, up, stale>>

BeginCommand(p) ==
    \E n \in Names :
       \/ Begin(p, "deploy", n, NoName)
       \/ Begin(p, "load", n, NoName)
       \/ /\ images[n] = NoImage \/ OverLeftovers
          /\ \E src \in Names \ {n} : row[src] = "frozen" /\ Begin(p, "clone", n, src)

At(p, step) == cmd[p].todo # <<>> /\ Head(cmd[p].todo) = step

Do(p, todo) ==
    cmd' = [cmd EXCEPT ![p] = IF todo = <<>> THEN Idle
                              ELSE [@ EXCEPT !.todo = todo, !.image = "out"]]

Advance(p) == Do(p, Tail(cmd[p].todo))

\* deploy has SSH as a whole or not, and cannot do without its init; without a
\* new key there is none to save; the rest of a session's errors are warnings.
\* load keeps its row and its disk when the VM does not start.
AfterFailure(op, step, rest) ==
    CASE op = "deploy" /\ step = "copy"              -> <<"unrow">>
      [] op = "deploy" /\ step \in {"init", "start"} -> <<"undisk", "unrow">>
      [] op = "deploy" /\ step = "ssh"               -> <<"name", "start">>
      [] op = "clone" /\ step = "start"              -> <<"unrow", "undisk">>
      [] op # "deploy" /\ step = "register"          -> <<"undisk">>
      [] step = "generate"                           -> Tail(rest)
      [] op # "deploy" /\ step = "ssh"               -> rest
      [] step \in {"auth", "name", "reuse", "store"} -> rest
      [] OTHER                                       -> <<>>

Fails(p, step) == Do(p, AfterFailure(cmd[p].op, step, Tail(cmd[p].todo)))

MayFailAt(p, step, part) == <<cmd[p].op, step, part>> \in MayFail

Put(n, image) == images' = [images EXCEPT ![n] = image]

-----------------------------------------------------------------------------
(***************************************************************************)
(* Sessions.                                                               *)
(***************************************************************************)
KeyPlan_Anew(n) == <<"generate", "store">>

\* GenerateOrReuseDropbearHostKey.
KeyPlan(n) == IF saved[n] = NoKey THEN <<"generate", "store">> ELSE <<"reuse">>

ChooseKey(p) ==
    /\ At(p, "key")
    /\ Do(p, KeyPlan(cmd[p].name) \o Tail(cmd[p].todo))
    /\ UNCHANGED <<row, images, archive, saved, up, stale>>

Mount(p) ==
    \E step \in Sessions :
       /\ At(p, step)
       /\ cmd[p].image = "out"
       /\ \/ cmd' = [cmd EXCEPT ![p].image = "in"]
          \/ MayFailAt(p, step, "mount") /\ Fails(p, step)
       /\ UNCHANGED <<row, images, archive, saved, up, stale>>

InSession(p, step) == At(p, step) /\ cmd[p].image = "in"

\* What an edit that is broken off leaves: no init once the old one is removed,
\* a key that is cut off.
BrokenOff(p) ==
    LET i == images[cmd[p].name] IN
    CASE InSession(p, "init") -> {i, [i EXCEPT !.init = "none"]}
      [] InSession(p, "generate") \/ InSession(p, "reuse") ->
            {i} \cup IF Tears THEN {[i EXCEPT !.key = Torn]} ELSE {}
      [] OTHER -> {i}

KeyBrokenOff(p) ==
    {saved[cmd[p].name]} \cup IF Tears /\ InSession(p, "store") THEN {Torn} ELSE {}

Edited(p, result) ==
    /\ cmd' = [cmd EXCEPT ![p].image = result]
    /\ UNCHANGED <<row, archive, up, stale>>

Edit(p) ==
    LET n == cmd[p].name IN
    \/ /\ InSession(p, "init")
       /\ Put(n, [images[n] EXCEPT !.init = "umu"])
       /\ Edited(p, "done") /\ UNCHANGED saved
    \/ /\ InSession(p, "generate")
       /\ \E k \in FreshKeys : Put(n, [images[n] EXCEPT !.key = k])
       /\ Edited(p, "done") /\ UNCHANGED saved
    \/ /\ InSession(p, "reuse")
       /\ Put(n, [images[n] EXCEPT !.key = saved[n]])
       /\ Edited(p, "done") /\ UNCHANGED saved
    \/ /\ InSession(p, "store")
       /\ images[n].key # NoKey
       /\ saved' = [saved EXCEPT ![n] = images[n].key]
       /\ Edited(p, "done") /\ UNCHANGED images
    \/ /\ \E step \in {"ssh", "auth", "name"} : InSession(p, step)
       /\ Edited(p, "done") /\ UNCHANGED <<images, saved>>
    \/ /\ \E step \in Sessions :
             /\ InSession(p, step)
             /\ MayFailAt(p, step, "edit") \/ (step = "store" /\ images[n].key = NoKey)
       /\ \E i \in BrokenOff(p) : Put(n, i)
       /\ \E k \in KeyBrokenOff(p) : saved' = [saved EXCEPT ![n] = k]
       /\ Edited(p, "failed")

\* The deferred calls: an umount, whose error nobody sees, and RemoveAll of the
\* mount point, which removes the files of an image that is still mounted.
Unmount(p) ==
    \E step \in Sessions :
       /\ At(p, step)
       /\ cmd[p].image \in {"done", "failed"}
       /\ \/ UNCHANGED <<images, stale>>
          \/ /\ MayFailAt(p, step, "umount")
             /\ Put(cmd[p].name, Wiped)
             /\ stale' = stale \cup {cmd[p].name}
       /\ IF cmd[p].image = "done" THEN Advance(p) ELSE Fails(p, step)
       /\ UNCHANGED <<row, archive, saved, up>>

-----------------------------------------------------------------------------
(***************************************************************************)
(* Images come and go.  A mount keeps the file it was made of: cp writes   *)
(* into a file that is there, and a new file has no mount.                 *)
(***************************************************************************)
Register(p) ==
    /\ At(p, "register")
    /\ \/ /\ row' = [row EXCEPT ![cmd[p].name] = "creating"]
          /\ Advance(p)
       \/ /\ MayFailAt(p, "register", "all")
          /\ Fails(p, "register")
          /\ UNCHANGED row
    /\ UNCHANGED <<images, archive, saved, up, stale>>

\* A failed cp leaves what it has written; CloneDisk refuses an existing disk.
Copy(p) ==
    /\ At(p, "copy")
    /\ LET n == cmd[p].name
           source == IF cmd[p].op = "clone" THEN images[cmd[p].src] ELSE Base
       IN
       \/ /\ cmd[p].op = "clone" \/ images[n] = NoImage
          /\ source # NoImage
          /\ \/ Put(n, source) /\ Advance(p)
             \/ MayFailAt(p, "copy", "all") /\ Put(n, Wiped) /\ Fails(p, "copy")
       \/ /\ (cmd[p].op = "deploy" /\ images[n] # NoImage) \/ source = NoImage
          /\ Fails(p, "copy")
          /\ UNCHANGED images
    /\ UNCHANGED <<row, archive, saved, up, stale>>

Pull_InPlace(p) ==
    /\ At(p, "pull")
    /\ archive[cmd[p].name] # NoImage
    /\ Put(cmd[p].name, archive[cmd[p].name])
    /\ Advance(p)
    /\ UNCHANGED <<row, archive, saved, up, stale>>

\* Renamed over whatever is there.
Pull(p) ==
    /\ At(p, "pull")
    /\ LET n == cmd[p].name IN
       \/ /\ archive[n] # NoImage
          /\ Put(n, archive[n])
          /\ stale' = stale \ {n}
          /\ Advance(p)
       \/ /\ archive[n] = NoImage \/ MayFailAt(p, "pull", "all")
          /\ Fails(p, "pull")
          /\ UNCHANGED <<images, stale>>
    /\ UNCHANGED <<row, archive, saved, up>>

\* StartVM, and the Save of the row.
Start(p) ==
    /\ At(p, "start")
    /\ \/ /\ row' = [row EXCEPT ![cmd[p].name] = "running"]
          /\ up' = up \cup {cmd[p].name}
          /\ Advance(p)
       \/ /\ MayFailAt(p, "start", "all")
          /\ Fails(p, "start")
          /\ UNCHANGED <<row, up>>
    /\ UNCHANGED <<images, archive, saved, stale>>

\* DeleteDisk: its error is ignored.
RemoveImage(op, n) ==
    \/ Put(n, NoImage) /\ stale' = stale \ {n}
    \/ <<op, "undisk", "all">> \in MayFail /\ UNCHANGED <<images, stale>>

Undo(p) ==
    /\ \/ /\ At(p, "undisk")
          /\ RemoveImage(cmd[p].op, cmd[p].name)
          /\ UNCHANGED row
       \/ /\ At(p, "unrow")
          /\ row' = [row EXCEPT ![cmd[p].name] = "none"]
          /\ UNCHANGED <<images, stale>>
    /\ Advance(p)
    /\ UNCHANGED <<archive, saved, up>>

-----------------------------------------------------------------------------
(***************************************************************************)
(* Other commands, and the host.                                           *)
(***************************************************************************)
Freeze_Stopped(n) ==
    /\ row[n] \in {"running", "frozen"}
    /\ row' = [row EXCEPT ![n] = "stopped"]
    /\ up' = up \ {n}
    /\ UNCHANGED <<images, archive, saved, stale, cmd>>

Freeze(n) ==
    /\ row[n] \in {"running", "frozen"}
    /\ row' = [row EXCEPT ![n] = "frozen"]
    /\ up' = up \ {n}
    /\ UNCHANGED <<images, archive, saved, stale, cmd>>

Unfreeze(n) ==
    /\ row[n] = "frozen"
    /\ row' = [row EXCEPT ![n] = "running"]
    /\ up' = up \cup {n}
    /\ UNCHANGED <<images, archive, saved, stale, cmd>>

\* A push leaves the disk behind.
Push(n) ==
    /\ row[n] = "frozen"
    /\ archive' = [archive EXCEPT ![n] = images[n]]
    /\ row' = [row EXCEPT ![n] = "none"]
    /\ UNCHANGED <<images, saved, up, stale, cmd>>

\* Without a service there is no disk to remove; saved keys are kept.
Destroy(n) ==
    /\ row[n] # "none"
    /\ row' = [row EXCEPT ![n] = "none"]
    /\ up' = up \ {n}
    /\ IF row[n] = "creating" THEN UNCHANGED <<images, stale>> ELSE RemoveImage("destroy", n)
    /\ UNCHANGED <<archive, saved, cmd>>

\* What is mounted stays mounted.
Crash(p) ==
    /\ Crashes
    /\ cmd[p] # Idle
    /\ cmd' = [cmd EXCEPT ![p] = Idle]
    /\ \E i \in BrokenOff(p) : Put(cmd[p].name, i)
    /\ \E k \in KeyBrokenOff(p) : saved' = [saved EXCEPT ![cmd[p].name] = k]
    /\ stale' = IF cmd[p].image = "out" THEN stale ELSE stale \cup {cmd[p].name}
    /\ UNCHANGED <<row, archive, up>>

Reboot ==
    /\ Crashes
    /\ cmd = [p \in Procs |-> Idle]
    /\ up' = {}
    /\ stale' = {}
    /\ UNCHANGED <<row, images, archive, saved, cmd>>

Session(p) == ChooseKey(p) \/ Mount(p) \/ Edit(p) \/ Unmount(p)

Next ==
    \/ \E p \in Procs :
          \/ BeginCommand(p) \/ Register(p) \/ Copy(p) \/ Pull(p)
          \/ Session(p) \/ Start(p) \/ Undo(p) \/ Crash(p)
    \/ \E n \in Names :
          Free(n) /\ (Freeze(n) \/ Unfreeze(n) \/ Push(n) \/ Destroy(n))
    \/ Reboot

Spec == Init /\ [][Next]_vars

-----------------------------------------------------------------------------
(***************************************************************************)
(* Properties.                                                             *)
(***************************************************************************)
Mounted == stale \cup {cmd[p].name : p \in {q \in Procs : cmd[q].image # "out"}}

\* A VM only ever runs on an image that has umu-init (README.md:280) and that the
\* host has not mounted, whatever was cut off, killed, pushed or cloned before;
\* unless an umount fails, or a clone is made over what a killed command left.
BootsCleanImage == \A n \in up : images[n].init = "umu" /\ n \notin Mounted

\* A "host key (persistent per-VM)" (README.md:232): no two VMs have one key, and
\* the key of a VM, if it has one, is whole and the one saved for its name, if one
\* is; unless a key cannot be copied into an image that has another.
HostKeyPerVM ==
    \A n \in up :
       LET key == images[n].key IN
       key # NoKey => /\ key # Torn
                      /\ saved[n] \in {NoKey, key}
                      /\ \A m \in up \ {n} : images[m].key # key
=============================================================================
