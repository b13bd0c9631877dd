---------------------------- MODULE AtomicArchive ----------------------------
(***************************************************************************)
(* What push and load promise: the disk of a project goes to the archive   *)
(* and comes back in one piece, each in one step.  Versions are the        *)
(* contents that VMs may write to a disk; Partial stands for an archive    *)
(* that does not hold all of a disk.                                       *)
(***************************************************************************)
CONSTANTS
    Names,
    Versions,       \* contents that a VM may write
    Partial,        \* contents of a truncated archive
    Nothing         \* no file

VARIABLES
    row,            \* state of the project in the store
    latest,         \* contents last written by the VM of the project
    disk,           \* contents of <name>.ext4
    object          \* contents of <name>/disk.ext4.gz in the bucket

vars == <<row, latest, disk, object>>

Init ==
    /\ row = [n \in Names |-> "none"]
    /\ latest = [n \in Names |-> Nothing]
    /\ disk = [n \in Names |-> Nothing]
    /\ object = [n \in Names |-> Nothing]

\* A VM that runs, for the first time or not, writes to its disk.
Write(n, c) ==
    /\ row[n] = "running"
    /\ disk' = [disk EXCEPT ![n] = c]
    /\ latest' = [latest EXCEPT ![n] = c]
    /\ UNCHANGED <<row, object>>

\* deploy, freeze and unfreeze.
Deploy(n, c) ==
    /\ row[n] = "none" /\ disk[n] = Nothing
    /\ row' = [row EXCEPT ![n] = "running"]
    /\ disk' = [disk EXCEPT ![n] = c]
    /\ latest' = [latest EXCEPT ![n] = c]
    /\ UNCHANGED object

Freeze(n) ==
    /\ row[n] = "running"
    /\ row' = [row EXCEPT ![n] = "frozen"]
    /\ UNCHANGED <<latest, disk, object>>

Unfreeze(n) ==
    /\ row[n] = "frozen"
    /\ row' = [row EXCEPT ![n] = "running"]
    /\ UNCHANGED <<latest, disk, object>>

\* destroy gives up what the VM has written; of a project that has never run
\* it removes the row only.
Destroy(n) ==
    /\ row[n] \in {"running", "frozen"}
    /\ row' = [row EXCEPT ![n] = "none"]
    /\ disk' = [disk EXCEPT ![n] = Nothing]
    /\ latest' = [latest EXCEPT ![n] = Nothing]
    /\ UNCHANGED object

Abandon(n) ==
    /\ row[n] = "creating"
    /\ row' = [row EXCEPT ![n] = "none"]
    /\ UNCHANGED <<latest, disk, object>>

\* push stores the disk and forgets the project, in this order; one that
\* fails may spoil what was archived before, while the project stays.
Store(n) ==
    /\ row[n] = "frozen" /\ disk[n] # Nothing
    /\ object' = [object EXCEPT ![n] = disk[n]]
    /\ UNCHANGED <<row, latest, disk>>

Spoil(n) ==
    /\ row[n] = "frozen"
    /\ \E c \in {Partial, Nothing} : object' = [object EXCEPT ![n] = c]
    /\ UNCHANGED <<row, latest, disk>>

Forget(n) ==
    /\ row[n] = "frozen" /\ object[n] = disk[n]
    /\ row' = [row EXCEPT ![n] = "none"]
    /\ UNCHANGED <<latest, disk, object>>

\* load fetches the disk before it makes a project, and when it fails may
\* remove the disk and leave a project that has never run.
Fetch(n) ==
    /\ row[n] = "none" /\ object[n] # Nothing
    /\ disk' = [disk EXCEPT ![n] = object[n]]
    /\ UNCHANGED <<row, latest, object>>

Discard(n) ==
    /\ row[n] \in {"none", "creating"}
    /\ disk' = [disk EXCEPT ![n] = Nothing]
    /\ UNCHANGED <<row, latest, object>>

Create(n) ==
    /\ row[n] = "none"
    /\ disk[n] = object[n]
    /\ row' = [row EXCEPT ![n] = "creating"]
    /\ UNCHANGED <<latest, disk, object>>

Boot(n) ==
    /\ row[n] = "creating" /\ disk[n] # Nothing
    /\ row' = [row EXCEPT ![n] = "running"]
    /\ latest' = [latest EXCEPT ![n] = disk[n]]
    /\ UNCHANGED <<disk, object>>

Next ==
    \E n \in Names :
       \/ \E c \in Versions : Write(n, c) \/ Deploy(n, c)
       \/ Freeze(n) \/ Unfreeze(n) \/ Destroy(n) \/ Abandon(n)
       \/ Store(n) \/ Spoil(n) \/ Forget(n)
       \/ Fetch(n) \/ Discard(n) \/ Create(n) \/ Boot(n)

Spec == Init /\ [][Next]_vars

-----------------------------------------------------------------------------
\* What the VM of a project has last written is on its disk or, once push has
\* removed the project (push.go:124), in the archive.
LatestSurvives ==
    \A n \in Names : latest[n] # Nothing => latest[n] \in {disk[n], object[n]}
=============================================================================
