# A specification of umu

umu runs one Firecracker microVM per project on one host.  It has no server
that owns the state: every `umu` command is an operating system process that
reads the state store, works on the host (`ip`, `cp`, `firecracker`, Caddy,
Cloudflare, S3), and writes the state store.  What can go wrong is therefore
mostly between processes: two commands at once, a command that fails half way,
a command that is killed, a row that no longer says what the host has.

The modules here are TLA+ specifications of that program, written from its
source.  TLC checks them on small instances; the theorems are proved with
TLAPS for all values of the constants.

## 1. Inventory

| Component | State | Operations | Hard behaviour |
|---|---|---|---|
| State store, `internal/state` | SQLite table `projects`: name (key), implicit rowid, generation, status, services | `Register`, `Save`, `Get`, `List`, `Delete` | several statements per method without a transaction; a mutex per process only; rowids and generations that come back |
| VM commands, `cmd/deploy.go` ... | the row, a Firecracker process, a TAP device, a disk, a snapshot, an object in S3 | deploy, destroy, freeze, unfreeze, resize, clone, push, load | failures at every step with different clean-ups; killed processes; two commands at once |
| Network, `internal/network` | bridge `br-umu`, TAP devices, firewall rules, NDP proxies | bridge and TAP creation and deletion, `OpenPort`/`ClosePort`, address formulas | the bridge is shared: it is deleted by the command that sees no TAP; addresses from an index that is used again; numeric edges at 256 |
| Compute, `internal/compute` | jail directories, sockets, cgroups, running VMs | `StartVM`, `StopVMByPID`, `CreateSnapshot` | a stored PID that may be stale; paths that return early; one jail per `JailerName` |
| Storage, `internal/storage` | disk images, mounts of them, host keys saved per project | `CloneDisk`, `ResizeDisk`, `InjectInit`, `GenerateOrReuseDropbearHostKey`, `InjectHostname`, `safeRemoveFile` | partial files; files open in a VM; an image left mounted; an edit broken off half way |
| S3 archive, `internal/s3` | objects | `Push`, `Pull` | a pipe between two goroutines |
| Exposure: routes, DNS, ports, daemon | Caddy routes by hostname, DNS records, firewall rules | route add/remove, expose, port, `daemon` reconcile | four commands with four ideas of a project's hostname |
| Metadata service, `internal/metadata` | map by IPv6 address, one HTTP server per host | `Register`, `Deregister`, `EnsureRunning`, `serveMeta` | one listener per host, one map per process; the two notations of an address |
| Guest agent, `internal/agent` | one connection per command, pipes, channels | exec with two output readers, a timeout | goroutines, channels of a fixed size; a timeout that kills only the shell; a connection or a VM that goes away |

Configuration, health polling, `/proc` metrics, tables, ssh and shell scripts
keep no state that other parts depend on and are not modelled.

How they interact.  Commands share the state store, the host's resources, and
the formulas that turn a row's index into addresses, a MAC and a TAP name
(index = rowid - 1).  The store is the only thing a later command knows about
an earlier one.  Starting any command runs `init` of `internal/network`, which
makes sure the bridge is there.

What makes each component correct:

* store: methods look atomic; no lost update; an index belongs to one project;
* VM commands: one VM per network identity and per disk; a running VM keeps its
  TAP, disk and bridge; the status is true between commands; a failed deploy or
  clone leaves nothing; no command but destroy loses the disk of a live project;
* exposure: a project that is not up is not reachable, one that is destroyed
  leaves no route or record, a port belongs to one project;
* compute: a running VM can be reached through its socket and keeps its cgroup;
  a command stops its own project's VM only, and does not go on before it has;
* archive: what a VM has written survives push and load, whatever fails;
* images: a VM boots an image that is whole and that the host has not mounted;
  no two VMs have one host key;
* addresses: no two projects share one;
* metadata: a registered guest is served its data;
* agent: the host sees all output before the exit line and the shell's status;
  host, handler and readers come to an end.

Which of these are stated, and which hold only under an assumption, is in
sections 2 to 4.  The hazards this comes from are listed with their lines in `PROJECT.json`.

## 2. Modules

| Module | What it is |
|---|---|
| `ProjectTable` | the table as data: rows, callers' copies, the rowid of an insert, the generation check.  Used by all the others |
| `AtomicStore` | what the store promises: every method is one step |
| `StateStore` | the store, one SQL statement per step, with mutexes, failing statements and ending processes |
| `MCStateStore` | its instances: one Store for all callers, or one each |
| `StateStoreProofs` | theorems about `StateStore` |
| `VMLifecycle` | the VM commands over rows, VMs, network, disks, snapshots and archive |
| `MCVMLifecycle` | its instances: which commands, which failures |
| `VMLifecycleProofs` | theorems about `VMLifecycle` and `Addresses` |
| `Exposure` | what leads to a VM from outside: the routes, DNS records and port rules of the commands and of the daemon |
| `ExposureProofs` | theorems about `Exposure`: types, for whom something is made, what leads to a project between commands, and what is left of one that is gone |
| `MCExposure` | its instances: hostnames, failures |
| `VMProcess`, `MCVMProcess` | Firecracker processes with sockets, jail directories and cgroups: StartVM, its clean-up goroutine, and the three ways to stop a VM |
| `VMProcessProofs` | theorems about `VMProcess` |
| `AtomicArchive` | what push and load promise: a disk is stored and fetched in one piece |
| `Archive`, `MCArchive` | push and load, chunk by chunk, with pipe, upload goroutine and temporary file |
| `ArchiveProofs` | theorems about `Archive` |
| `DiskImage`, `MCDiskImage` | what is written into an image before its VM starts, session by session, and the host keys saved for the next VM of a name |
| `DiskImageProofs` | theorems about `DiskImage` |
| `Addresses` | what an index becomes, on top of `VMLifecycle` |
| `AgentExec` | one `umu exec`: host, handler, readers, shell and its children |
| `AgentExecProofs` | theorems about `AgentExec` |
| `Metadata` | the metadata server of a host and the registries of its processes |
| `MetadataProofs` | a theorem about `Metadata` |

How they are put together: `ProjectTable` gives `StateStore` the statements,
and `VMLifecycle` and `Exposure` the rowids.  `StateStore` implements
`AtomicStore` (`Atomic == INSTANCE AtomicStore WITH ...`), and that a method of
the store is one step is what the modules about commands build on.  `VMLifecycle`
and `Exposure` are two views of the same commands: the first keeps what makes
and stops VMs, the second what leads to them, with the first's steps between
`Register` and the last `Save` as one step `Boot` that succeeds or fails.
`VMProcess` opens the steps `start`, `kill` and `snapshot` of `VMLifecycle`,
`Archive` its `upload` and `pull`, `DiskImage` its `init` and the
warnings after it; `Archive` in turn implements `AtomicArchive`.
`Addresses` EXTENDS `VMLifecycle` and puts addresses for its indexes.  The guest
agent and the metadata service meet the rest only in the VM and stand alone.
Neither reads the other's variables: no step of the code that makes a VM
depends on a route, record or rule, nor the other way round, except through
the row and through whether the command goes on.

Definitions named `X_Y` are `X` with a plausible mistake `Y`.  No specification
uses them; they are there to show that the properties notice.

### State store

`rows[n]` keeps of a row what its concurrency is about: `rowid`, `gen`, and two
history values, the write that inserted it (`born`) and the write that last
changed it (`stamp`).  The remaining columns are whatever the last write put
there, so `stamp` stands for them.  `copies[c][n]` is the `*Project` that client
`c` holds, `pc[c]` the statement it executes next, `mu[s]` the mutex of Store
`s`.  Each action is one autocommitted statement with the Go code up to the
next:

| Code | Actions |
|---|---|
| `Register`: EXISTS, INSERT, SELECT rowid | `RegisterExists`, `RegisterInsert`, `RegisterRowid` |
| `Save`: SELECT generation, then UPDATE or INSERT | `SaveGeneration`, `SaveUpdate`, `SaveInsert` |
| `Get`, `List`, `Delete` | `Get`, `List`, `Delete` |
| end of a process, in the middle of a method or not | `Exit` |

`StoreOf` says which clients share a Store.  With one Store the module is one
process with concurrent callers; with one Store each, concurrent commands.
`MayFail` is the set of statements that may return an error.

The abstract specification is `AtomicStore`.  The refinement maps every
variable to itself except `index`: while a `Register` is between its INSERT and
its SELECT, the abstract caller already has the rowid of the row
(`SeenIndex`), because the INSERT is where Register takes effect.

### VM commands

A command is a record in `cmd[p]`: what it is, the project, the copy of the row
it has read, and `todo`, the steps it has left.  `Deploy(p, n)`, `Destroy(p,
n)` ... are the beginnings: the lookups, early returns and prompts of
`runDeploy`, `runDestroy` ..., ending with the list of steps to come.  The
steps are actions of their own (`Register`, `Tap`, `MakeDisk`, `Start`, `Save`
...) and are shared by the commands as the Go functions they model are.  A step
that fails replaces `todo` by the clean-up the code has for that failure
(`Cleanup`): explicit calls first, then deferred functions.

| Command | Steps |
|---|---|
| deploy | register, tap, disk, init, start, save |
| destroy | kill, untap, undisk (unless `--keep-disk`), count, unbridge, unrow |
| freeze | snapshot, kill, save |
| unfreeze | ensure, start, save |
| resize | kill, (grow), ensure, start, save |
| clone | copy, register, tap, start, save |
| load | pull, register, tap, start, save |
| push | upload, unrow |
| route add | save (its effect on the status only) |

What the kernel and the file system do is modelled from how the code uses them:

* a TAP can be opened by one process; deleting it cuts off the VM that had it;
* deleting a bridge leaves its TAPs without a master;
* a file that is removed, or renamed over, is no longer the one a VM has open,
  while `cp` onto a file writes into the same one;
* Firecracker fails without its disk file or its TAP;
* deleting a TAP, the bridge or a disk can fail; every caller ignores it, and a
  count of TAPs that fails is 0 (network.go:248);
* SIGKILL works, and a PID that a row or a command still holds is not given to
  another process.  The second is an assumption the code makes too.

A method of the store is one step here.  `OneStoreIsAtomic` justifies that for
callers of one process; between processes a Save can be lost between the two
statements of another (`NoLostUpdate` fails with a Store for each caller), and
that is not repeated here.

`Exclusive` says that operators do not give a command for a project while
another command for it runs.  Nothing in the code ensures it.  It is the
condition under which the commands keep their promises, and every run and
theorem has it.  Commands for different projects run side by side and meet in
the table, the bridge and the indexes.

Not in this module: the NDP proxy and metadata of these commands, whose errors
are only warnings and which no other step reads; further services of a project
(every command creates or copies one); sizes, ports and addresses as numbers.

### Exposure

Everything outside that leads to a VM holds its index, since all its addresses
come from it: `routes[h]` is the index Caddy proxies hostname `h` to, `dns[h]`
the index whose address the AAAA record has, or `HostIP`, and `rules[port]` the
indexes a host port is forwarded to, in the order of PREROUTING.  Of OpenPort's
rules that is the DNAT rule; those of the FORWARD chain, which a destroy flushes
with the bridge (network.go:231), are left out, so that "rules" are DNAT rules
here.  That an index is given out again when its row is gone is what makes
leftovers matter.

A command is again a record `cmd[p]` with the steps it has left.  A step names
its key and where it leads: `<<"route", h, Own>>`, `<<"dns", h, HostIP>>`,
`<<"open", port, i>>`.  `Own` is the index of the project the command is
about, which a deploy has only once it has registered.

OpenPort is two steps, since each is an `iptables` call of its own: `open`
deletes the rule (`Reopen`) and puts `forward`, which inserts it, in its place;
`unforward` is ClosePort.  The code drops the error of `iptables -D` (network.go:322,
351), be it that there is no such rule or that the table is locked, and goes on: a
failing `open` or `unforward` (`DeleteRule`) leaves the rule and changes nothing
else.  Ports are a set in a row, and commands open and close them in any order
(`Opening`, `Closing`).

| Command | Steps |
|---|---|
| deploy | register, boot, (route), open for every port, save, dns |
| clone | register, boot, open for every port of the source, (route), save, dns |
| load | register, boot, save, dns |
| destroy | (unroute), unforward for every port, undns, unrow |
| push | unrow |
| freeze | (unroute), save |
| unfreeze | boot, (route), save |
| route add | (dns to the host), route, save |
| route remove | save, (dns to the VM), unroute; or only unroute |
| unexpose | (unroute, dns to the VM), save |
| port open, close | open, save; unforward, save |
| daemon | open for every port of every project, ready |

`HostsOf(n)` are the hostnames meant for project `n`: its bare name, its FQDN
under the base domain (which for a name with a dot, or without a base domain,
is the bare name), and domains that operators give.  Which of these a command
uses differs, and the module follows each: freeze and unfreeze use the bare
name, deploy `--domain` or the FQDN, destroy the FQDN, unexpose the recorded
domain.

Assumed here: one command at a time on a project (built into `Begin`; with it no
Save is refused, so rows have no generation); no hostname is meant for two
projects (`HostsAssumption`; the code does not compare them); where
`DaemonAlone` is TRUE, that no command runs while the daemon reopens ports; and
where `ServerAlone` is TRUE, that no two commands find Caddy without its server
at once.  All runs have both TRUE.  With `DaemonAlone` FALSE, TLC finds that the
daemon reopens a port from a `List` made before a destroy, and that the rule then
leads to an index that is free.  With `ServerAlone` FALSE it finds the race in
`EnsureServer` (section 3).

`server` says whether Caddy has the server umu puts its routes in.  `AddRoute`
asks for it (`FindNoServer`), puts one without routes if there is none (`Serve`),
and removes and posts the route (`Route`).  install.sh leaves Caddy a Caddyfile
without that server, so there is none at first and after a reboot; `lost` is a
history variable, the hostnames whose routes went with one.

Not in this module: ports inside the VM, what TLS policies say, the A records of the
host, the ip6tables part of a port as a rule of its own (its failure is
modelled), the FORWARD rules, and listings, which write nothing.

### Firecracker processes

`sockets[j]` is the jail directory named `j`: 0 when it is not there, else the
PID that listens, or did, on the API socket in it.  `cgroups` are the cgroup
directories.  A VM knows whether it was asked to shut down, is paused, and is in
its cgroup.  `watched[p]` is the goroutine that StartVM leaves behind: it waits
for the VM to end and then removes directory and cgroup, and is gone with the
process of its command.  A command is a record with the steps it has left:

| Command | Steps |
|---|---|
| deploy, unfreeze | clean, launch, limit, save |
| resize | ask, poll, kill, clean, launch, limit, save |
| freeze | pause, create, resume, kill, save |
| destroy | ask, poll, kill, uncgroup, unjail, unrow |

clone and load do what deploy does here.  `Poll` is where destroy returns early
(vm.go:237): a VM that has shut down leaves directory and cgroup, unless the
goroutine of its command still lives.  A failed snapshot skips what is left of
it, with the VM paused.  `Halt` is a VM that ends by itself.

`JailOf` gives the JailerName of a project and `PidReuse` says whether the
kernel may give out a PID that a row still has.  The code depends on both: with
one jail for two projects (`OneJail`; names `a.b` and `a-b` have one) and with
reused PIDs, TLC finds a command that removes or kills the VM of another one.

### S3 archive

A file is the number of the contents a VM has last written and a length in
chunks.  `latest[n]` is a history variable: what the VM of `n` has last written.
`upload[p]` is the goroutine of a push: it reads from the pipe until the pipe
ends, and the object changes only when PutObject returns.

| Code | Actions |
|---|---|
| `Push`: metadata, open, `io.Copy`, closes, wait for the upload | `PushMeta`, `PushOpen`, `PushCopy`, `PushClose`, `PushAwait`, `PushExit` |
| its goroutine | `UploadEnds`, `UploadBreaks` |
| `runPush`: `store.Delete` | `PushUnrow` |
| `Pull`: objects, create, `io.Copy`, rename | `LoadObjects`, `LoadCreate`, `LoadCopy`, `LoadRename` |
| `runLoad`: register, TAP, start, Save | `LoadProject`, `LoadStart` |

A pipe that is closed without its error looks to the uploader like the end of
the disk, so a copy that fails half way can store a truncated object
(`PushExit`, `Uploaded`); then push fails and the project stays, which is why
nothing is lost.  In `AtomicArchive` this is `Spoil`.  The other commands are
one step each here; their steps are in `VMLifecycle`.

### Disk images

Each file goes into an image in a session of its own: a temporary mount point,
`mount`, the edit, and in deferred calls `umount` and `RemoveAll`.
`cmd[p].image` says how far process `p` is in it, `stale` which images a killed
command has left mounted, `saved[n]` the host key that the host keeps for
project `n`, which outlives the project.

| Code | Actions |
|---|---|
| `CloneDisk`, `cp` of clone, `Pull` | `Copy`, `Pull` |
| `InjectInit`, `InjectDropbearSources`, `InjectAuthorizedKeys`, `InjectHostname` | sessions `init`, `ssh`, `auth`, `name` |
| `GenerateOrReuseDropbearHostKey` | `ChooseKey`, then session `reuse`, or `generate` and `store` |
| mount, edit, deferred calls of a session | `Mount`, `Edit`, `Unmount` |
| the commands' order of sessions, and what they do when one fails | `Plan`, `AfterFailure` |
| clean-ups of deploy, clone and load | `Undo` |

Most errors of a session are warnings, so a VM starts with whatever is in its
image then (`BrokenOff`).  Freeze, unfreeze, push and destroy are a step each.
The Save after the start of a VM is part of the start here, and resize, which
grows an image and writes nothing into it, is left out; both are in
`VMLifecycle`.

### Addresses

An address is a record of the numbers in it: the last group of the IPv6
addresses, four bytes of the IPv4 address, three of the MAC.  The last group is
written in decimal and read as hexadecimal, so it can be written while it has
four digits.

### Guest agent

`wire` is what is on its way to the host, `written` and `taken` count chunks
into and out of each pipe, `dones` and `errs` are the channels, `reader` the two
goroutines, `main` the handler.  `sh` may exit, fork a process that holds the
pipes (`background`), or be killed by the context.  `Stop` is an agent that is
killed, whose connection the kernel closes, or a VM that falls silent.

### Metadata

An address has the notation in which it is written, with or without brackets:
that is what the lookup is about.  `server` is the process that listens,
`entries[p]` the map of process `p`.  `Dial` and `Listen` are EnsureRunning, and
`gateway` says whether the bridge has the server's address, which the first
command with a VM gives it.

## 3. Runs

All passing runs are checked to the end.  Deadlock checking is on.

### StateStore

| Run | Instance | Shows |
|---|---|---|
| `store_one` | 2 clients, 1 Store, 2 names, 4 writes; any statement but SELECT rowid may fail | types, `ImplementsAtomicStore`, `NoLostUpdate` |
| `store_many` | 2 clients, a Store each, 2 names, 4 writes, the same failures | what the database alone guarantees: `InsertNeverReplaces`, `OwnIndexWhileRegistered` |

`MaxWrites = 4` lets a name be registered, saved, deleted and registered again
with one write to spare, or two names be registered and saved; the lost update
needs three.  Two clients are enough for what a method of one does between two
statements of another; the theorems are for any number.

The SELECT of the rowid may not fail in these runs: its error is dropped by the
code and the index is then -1, which `OwnIndexWhileRegistered` and the atomic
store forbid.  The theorems have the same condition.

### VMLifecycle

| Run | Instance | Shows |
|---|---|---|
| `lifecycle_concurrent` | 2 commands at a time on 2 names; deploy, destroy, freeze, unfreeze, resize, clone; failures the code cleans up after | `UniqueNetwork`, `OneVMPerDisk`, `VMKeepsItsResources`, `StatusIsTrue`, `FailedLeavesNothing` |
| `lifecycle_faulty` | 1 command at a time; deploy, destroy, freeze, unfreeze, clone, push, load, route; every failure of steps on rows, disks and VMs, killed commands, reboots | `RowsHaveOwnNetwork`, `RowsHaveOwnAddresses`, `DataSurvives` |
| `lifecycle_bridge` | deploy and destroy at the same time | `VMIsBridged` fails: count of TAPs and deletion of the bridge are apart |

Bounds: rowids up to 3 and two names, so that a rowid is given out, freed and
given out again while another project lives; rows saved up to generation 4:
deploy, freeze, unfreeze and one command more (`route`, which may be given again
and again, only where it leaves room for that one); two VMs (one in
`lifecycle_faulty`, where a crash leaves more of them than rows).  The bounds
are guards of the actions that begin a command, so a command that has begun
always runs to its end.

`CleanedUpFailures` leaves out the failures after which the code does not
restore what the properties speak of: the last Save of deploy and clone, the
disk step of deploy (a failed `cp` leaves a partial file), the deletes of rows,
the removal of TAP and disk by deploy and clone when they clean up, load after
its row exists, resize after its kill.  A disk or bridge that destroy fails to
remove and TAPs that it fails to count are in.  `AllFailures` in `lifecycle_faulty`
has every step on rows, disks and VMs, for every command.  It leaves out the
deletes of TAPs and the bridge: its properties mention neither, and what stays
only makes a later start fail, as any may there anyway.

A TAP that stays is in neither run, for its states (six times as many in
`lifecycle_concurrent`, where all properties hold with it in destroy).  The theorems
of section 4 have it in every command; only `FailedLeavesNothing`, which speaks of
the TAP, needs it gone after a failed deploy or clone.  Push and load are only in `lifecycle_faulty`
since a load that fails keeps its row: when another command deletes the bridge
under it (`lifecycle_bridge`), `StatusIsTrue` does not hold.

### Exposure

| Run | Instance | Shows |
|---|---|---|
| `exposure` | 2 commands at a time on 2 projects, 1 port; every command but push, reboots; failures the code cleans up after | `TypeOK`, `ForwardsHaveOwner`, `PortsMatchStore`, `NameLeadsToOwner`, `RecordedDomainWorks`, `RoutesOfOneHost`, `NameLeadsToVM` |
| `exposure_faulty` | 1 command at a time; every command, clones with `--domain`, every failure but of the delete in OpenPort | `ForwardedOnce`, `MadeForOwner` |

The two projects are the two kinds there are: `n1` has one hostname, as without
a base domain, and `n2` has a bare name and an FQDN.  One port is enough, since
the projects share it (rules are kept per port).  `MaxIndex` is 2 in `exposure`,
so that two projects live at once and an index is given out again beside a
living one, and 3 in `exposure_faulty`.

`exposure` tells states apart by `Seen`, which leaves out the route and record
of the bare name of `n2`: the steps write them and no guard, step or property
reads them; and the lost routes of hostnames that no row records, which
`RecordedDomainWorks` does not ask for.  `exposure_faulty` leaves out routes and records altogether, which
its two properties do not mention.

`CleanedUpFailures` are the failures after which the code makes rows and host
agree again.  It leaves out those of a route, record or rule, which most
commands only warn of, and of a Save, after which only `port open` takes its
work back; there the properties about agreement do not hold, nor does the code
say they do.  Of the deletes of rules it has those of OpenPort in deploy, clone and
port open, which find no rule.  `exposure_faulty` has all failures but that of the
delete in OpenPort, with which `ForwardedOnce` fails: the rule is inserted beside
the one that is left.

### The other modules

| Run | Instance | Shows |
|---|---|---|
| `vm_process` | 2 commands at a time on 2 projects with a jail each, 2 PIDs; every failure, killed commands, VMs that end by themselves | `TypeOK`, `VMKeepsJail`, `TouchesOwnVM`, `StoppedIsGone` |
| `archive` | 1 command at a time on 1 project, a disk of 2 chunks, 3 contents; every failure, killed commands | `TypeOK`, `ArchiveIsComplete`, `ImplementsAtomicArchive`, `CommandsReturn` |
| `disk_image` | 2 commands at a time on 2 projects, 3 host keys; edits that fail or are broken off, killed commands, reboots | `TypeOK`, `BootsCleanImage`, `HostKeyPerVM` |
| `agent_exec` | 2 chunks to each stream, pipes of 1 chunk; agent and VM may be stopped | `TypeOK`, `OutputIsComplete`, `StatusIsOfShell`, `HostReturns`, `HandlerEnds`, `ReadersEnd` |
| `metadata_lookup` | 2 guests, 2 processes, 2 attempts to listen each | `MetadataIsServed` fails: the lookup has brackets, the key has not |

`vm_process`: a PID for each project is enough, since none has two VMs, and a
third would only rename them.  `archive`: one chunk makes no difference between a
short and a whole copy, two do; of three contents one is in the archive, one on
the disk, and one to be written next.  Projects share nothing in `Archive`, and
the theorems are for any number of them and of processes.  `disk_image`: a key for
each project, and one that is generated while both are in use or in the archive.
Four conditions of it are conditions of the properties: an `umount` does not
fail (`NoticedFailures`); a clone is not given a name whose disk was left behind
(`OverLeftovers`); a key file that is not all written is not left so (`Tears`);
and a key that must replace another one gets into the image (`KeyFailures`).
Without any of them TLC finds a VM on a wiped or mounted image, or with a key
that is torn or another VM's.  `agent_exec`: a pipe
of one chunk fills, and a second chunk can be lost or come late; channels have
the capacity that the code gives them.

### Fairness and liveness

`CommandsReturn`, `HostReturns`, `HandlerEnds` and `ReadersEnd` are checked
under weak fairness of what the Go runtime and the kernel always let go on:

* in `Archive`: both goroutines of a push run, and a request to S3 ends, if only
  with an error (`WF` of `Push`, `UploadEnds`, `Load`).  Nothing makes an upload
  break, a step fail or an operator give a command;
* in `AgentExec`: host and handler run, readers run, timers expire and the
  context kills the shell.  `sh` and what it leaves in the background need not
  end and need not write, which is why the properties about the handler speak of
  background processes that come to an end.

`CommandsReturn` leaves out a push whose upload has broken while it writes into
the pipe: nobody reads from the pipe any more and the code does wait for ever
(s3.go:99).  The other specifications state no fairness: a command may always
stop, and no property asks that it go on.

### Where the code differs from what it says

The two violation runs are the findings in `PROJECT.json`: a bridge deleted
under a new TAP, and guests that are never served their metadata.  Further
disagreements met while modelling, which no run is given to:

* two processes that Save one project can lose an update, since the generation
  is checked in one statement and written in another (state.go:242);
  `NoLostUpdate` fails with a Store for each caller;
* a deploy whose last Save fails loses its row but not its VM, whose index is
  given out again (deploy.go:263); `UniqueNetwork` fails with that failure;
* the snapshot that freeze takes "for faster unfreeze" is never used: unfreeze
  wants an empty socket path, and no command empties it (unfreeze.go:125);
* freeze removes the route of the bare name (freeze.go:99), deploy adds one for
  the FQDN: with a base domain a frozen project stays routed;
* push says the VM is in S3 but leaves its disk, TAP, record and ports on the
  host (push.go:124); `ForwardsHaveOwner` and `NameLeadsToOwner` fail with push;
* route add on a frozen project makes its status running (route.go:162);
  `StatusIsTrue` fails when a run has the command `route`;
* a VM that shuts down when asked keeps its jail directory and cgroup: destroy
  has returned before the clean-up that vm.go:260 announces;
* a push whose upload breaks never returns (s3.go:99);
* `umu exec` reports status 0 when the connection ends without an exit line
  (host.go:57);
* projects `a.b` and `a-b` have one jail directory (project.go:22), and a stored
  PID may be another process's by now (vm.go:246): see `OneJail` and `PidReuse`;
* without `Exclusive`, clone copies onto the disk of a project that another
  command makes meanwhile (clone.go:123), and from a disk that an unfreeze has
  just opened (clone.go:82); `DataSurvives` fails;
* the daemon and a destroy, as above (`DaemonAlone`);
* OpenPort calls itself "Idempotent: existing rules are deleted first"
  (network.go:317), but drops the error of the delete and inserts all the same
  (network.go:322): after a delete that fails, on a locked table for one, the rule
  is there twice and a ClosePort leaves one.  ClosePort returns nil when its
  deletes fail (network.go:351), so port close and destroy forget a rule that
  stays.  `ForwardedOnce` fails with the first, `ForwardsHaveOwner` and
  `PortsMatchStore` with the second;
* an `ip link show` that fails counts as a bridge without TAPs (network.go:248),
  and destroy deletes the bridge under the VMs of others;
* two commands that both find Caddy without the server (caddy.go:53): the second
  `putServer` "creates or replaces" it and the other's route is gone, although
  `TestEnsureServer_DoesNotOverwriteWhenExists` asks that EnsureServer keep
  routes; or Caddy refuses, and the command is left without its route;
* after a restart of Caddy nothing puts the routes back that rows record: the
  daemon reopens ports only (daemon.go:142);
* an `umount` whose error is not looked at is followed by `RemoveAll` of the mount
  point, which then removes the files of the image (storage.go:109), and the VM
  is started on it all the same; `BootsCleanImage` fails with that failure;
* clone writes into a disk that was left behind (clone.go:123), even while a
  killed command's mount of it is there; `BootsCleanImage` fails with
  `OverLeftovers`;
* a host key file that was cut off is used for every later VM of that name
  (ssh.go:156), and a clone whose key step fails, which is a warning, shares the
  key of its source (clone.go:167) although keys are "per-VM" (README.md:232);
  `HostKeyPerVM` fails with `Tears` and with `KeyFailures`.

## 4. Theorems

All are proved with TLAPS for any sets of names, clients and processes and any
values of the bounds; for any failures and any commands too, unless the column
"Assumes" says otherwise.

| Theorem | Assumes | Argument |
|---|---|---|
| `StateStoreProofs!TypeCorrect` | | inductive |
| `MutexHeld` | | inductive with types |
| `RowidsDistinct`, `NoInsertReplaces` | | every change of the table is one of three (`RowChanges`), and an insert takes a rowid above all others and finds its name free |
| `IndexIsOwn` | SELECT rowid does not fail | `Registrations`: `born` names one registration for good, and as long as it is there its creator is about to ask for its rowid, or has been told it |
| `OneStoreIsAtomic` | one Store, SELECT rowid does not fail | `Window`: what a method read is still so when it writes, since the mutex is held; then each statement is a step of `AtomicStore` or none |
| `OneStoreLosesNoUpdate`, `OneStoreCountsSaves` | one Store | `CopiesInOrder`: of the copies of one registration, one that is not behind the row's generation holds its contents |
| `OneStoreIndex` | one Store, SELECT rowid does not fail | `Window` |
| `VMLifecycleProofs!TypeCorrect`, `OwnNetwork`, `DataIsSafe` | `Exclusive` | the invariant `IInv` |
| `OwnAddresses` | `Exclusive` | `OwnNetwork`, and that different indexes below 256 have no address in common |
| `OwnNetworkOfVM`, `OwnDisk`, `ResourcesKept` | `Exclusive`, no `Crashes`, `StartedAreSaved` | the invariant `Ownership` |
| `FailuresLeaveNothing` | `Exclusive`, no `Crashes`, `StartedAreSaved`, `RowsAreRemoved`, `TapsAreRemoved`, `NoDiskIsLeft` | `Belongings`, `Makers` and `Accounts` |
| `StatusHolds` | `Exclusive`, no `Crashes`, `StartedAreSaved`, `RowsAreRemoved`, `StatusIsKept` | `Belongings`, `Makers`, `Serves` and `AllSettled` |
| `ExposureProofs!TypeCorrect` | | part of the invariant `Core` |
| `OnlyForOwner` | `DaemonAlone` | `Core`: a command that has registered its project owns the row to its end (`OwnsRow`), and the daemon's list is still true when it acts on it (`ReadsRows`) |
| `RulesOnce` | `DaemonAlone`, `RulesAreReplaced` | `Once`: whoever is about to insert a rule has deleted it just before |
| `NamesHaveOwners` | `NamesAreRemoved` | `NamesFollow`: where a record leads, there is the row of its project; `Unnamed`: a command that deletes its row has no record, or its `undns` still before it |
| `ForwardsOwned` | `DaemonAlone`, `PortsAreRecorded` | `RulesKnown`: every rule of a project is for a port of its row, or of the command that works on it |
| `PortsAgree` | `DaemonAlone`, `RecordedArePorts` | `Once`, `RulesKnown` and `RulesMade`: every port of a row has its rule, or is about to get it or to lose its record |
| `NamesLeadToVMs` | `NamesAreMade` | `NamesKept`: the record leads to the VM, or the command that has made this untrue goes on to its `dns` or its Save |
| `RoutesAreOwn` | `RoutesAreRemoved` | `RoutesKept`: a route leads to its own project's VM; if the row does not ask for it, its `unroute` or the Save is still to come |
| `DomainsWork` | `DomainsAreServed` | `DomainsKept`: a recorded domain has its route and record, and nothing that a command goes on to takes them away; or the row is about to be replaced |
| `VMProcessProofs!TypeCorrect` | | inductive |
| `JailKept`, `OwnVMOnly`, `StoppedBefore` | `Injective`, no `PidReuse` | the invariant `IInv` |
| `AgentExecProofs!TypeCorrect`, `OutputComplete`, `StatusCorrect` | | the invariant `IInv` |
| `ArchiveProofs!TypesHold`, `ArchivesAreComplete` | | the invariant `IInv` |
| `ArchiveRefines`, `WorkSurvives` | | each step of `Archive` is a step of `AtomicArchive` or none; `LatestSurvives` is an invariant there |
| `DiskImageProofs!TypeCorrect` | | the invariant `Core` |
| `ImagesAreClean` | `UnmountsWork`, no `OverLeftovers` | `Core` and `Clean` |
| `HostKeysHold` | `KeysGetIn`, no `Tears` | `Core` and `Keyed` |
| `MetadataProofs!NobodyIsServed` | | registries hold addresses without brackets, requests come with them |

`Window` is why the mutex is enough inside a method and `CopiesInOrder` why the
generation is enough between methods; neither works across processes.

`OwnNetwork` and `DataIsSafe` hold with every failure, killed commands and
reboots.  Neither property is inductive: that a Save does not bring an old index
back depends on which copy the command holds, and that a clean-up does not
remove a live project's disk depends on the row of that name not being written
by another command meanwhile.  `IInv` is

* `RowsKeepIndex`: a service has the index of its row, and rowids differ;
* `OneCommandPerName`: what `Exclusive` gives;
* `Copies`: a command that will save has a row to save to and a copy that has no
  other index; a command that makes a project finds the row missing or creating;
* `Plans`: what all lists of steps have in common, clean-ups included, so that
  the proof follows a list to its end without knowing which command made it.

`UniqueNetwork`, `OneVMPerDisk` and `VMKeepsItsResources` follow from `Ownership`,
which adds to `IInv`

* `VMsAreOwned`: a running VM has its disk, its TAP's device and a row with its
  index, no other VM has its name, and somebody knows its PID: the row, which
  says that it runs, if no command works on the project; else the command, which
  has its `kill` still before it or only its `save`;
* `CopiesUpToDate`: a command that will save or delete a TAP has a copy of the
  row's generation and index; with `VMPlan`, what all lists of steps have in
  common about VMs: nothing but the snapshot comes before `kill`, and only `save`
  comes after `start`;
* `RowsServe`: a row that is running or frozen has an index.

Here a command must not end between its `start` and its `save`: nothing would then
know the PID of the VM, and its own clean-up, or the next command on that name,
takes the row, the TAP or the disk from under it.  `StartedAreSaved` leaves that
failure out for the five commands that start VMs (deploy.go:263, clone.go:251,
load.go:189, unfreeze.go:269 and resize.go:226), and `~Crashes` the kill.  Each
is needed: with the failing Save of any one of the five, with killed commands,
or without `Exclusive`, TLC finds `VMKeepsItsResources` violated.  All other failures
are in, and all commands, push, load and route included.

`FailedLeavesNothing` and `StatusIsTrue` are about the end of a command, and so
about what each kind of command has still to do.  `Belongings` adds to
`Ownership` which steps each operation has, its clean-ups included, that no list
has a step twice, that a PID belongs to one project (`PidsAreOwn`), and that the
TAP and the disk of a VM are there (`VMsHaveTheirs`).  On top of it are

* `Makers`: a deploy or clone whose row is there goes on to its Save or to its
  `unrow`, and to the latter only with its TAP gone or its `untap` before it;
* `Accounts`: its disk was there before it, or is not there, or it goes on to an
  `undisk` or to its Save;
* `Serves`: every other command gets to the step that makes its row true again,
  and until then the row says what it said when the command began;
* `AllSettled`: of a project that no command works on, a row is running with a
  VM or frozen with a disk.

That no other project is touched, its indexes and PIDs included, is one lemma
(`Elsewhere`), so that each invariant is a lemma for the step of one command.
The assumptions are the failures the code does nothing about: `RowsAreRemoved`
leaves out that a deploy or clone cannot delete its row (deploy.go:95,
clone.go:147), `TapsAreRemoved` and `NoDiskIsLeft` that they cannot delete their
TAP or their disk, or that a copy of a disk breaks off and leaves what it has
written, and `StatusIsKept` the `unrow` of destroy, the Save of freeze,
and the disk and the VM of resize, with the commands load and route.  With any
one of them TLC finds the property violated.

`FailedLeavesNothing` says of the TAP that it is gone when the row goes, and not
when the command ends: a failed clone removes its disk after its row, and by
then a deploy may have the index, and a TAP of that name.

In `ArchiveProofs`, `IInv` says of each project that what its VM has written is
on the disk while it has a row, and in the archive once push has taken the row
away (`NameInOrder`); and of each command what it has established so far
(`ProcInOrder`): a push that waits for its upload has put the whole disk into
the pipe, a push that removes the row has an object that equals the disk, a load
has copied as much as its temporary file is long.  It needs `OneCommandPerName`,
because a push reads the disk for as long as it copies.  The theorems need no
assumption: one command at a time on a project is a guard of `Begin` there.

### Exposure

A list of steps can be long (deploy has one step for every port), and a failure
replaces it by another, so the proofs never say where in its list a command is.
`Core` says what all lists have in common, whatever is left of them:

* `Shaped`, with `Fits` and `Ordered`: whose steps they are, and which kinds
  come before which;
* `OwnsRow`: from the end of its register on, a command has its row, and no
  other command has the name (`OnePerProject`);
* `RowsAreProjects`: rowids differ, so an index names one project;
* `ReadsRows` and `DaemonIsAlone`: the daemon's steps lead to indexes that
  projects have, which is where `DaemonAlone` is needed: without it a destroy
  between `List` and the step makes the index nobody's.

The lemma `Outcomes` reduces the thirteen actions to what they leave to do: the
rest of the list, a clean-up, or nothing.  With it each further invariant is a
lemma for steps, a lemma for beginnings, and the reboot.  `OpensPorts` says that
a `port open` opens only the one port its row does not have yet.

What the assumptions leave out, failures for the most part, is what the code does
not undo; with any one of them TLC finds the property violated, but for a failing
`open` of deploy, clone and port open in the case of `PortsAreRecorded` and
`RecordedArePorts`.  Those three find no rule that they could leave: `exposure`
has them, while the two theorems leave them out.

| Assumption | Leaves out | Because the code |
|---|---|---|
| `NamesAreRemoved` | push; `undns` of destroy | push deletes the row only (push.go:124); destroy warns and goes on |
| `RulesAreReplaced` | `open` of every command | OpenPort inserts though its delete has failed (network.go:322) |
| `PortsAreRecorded` | push; `open` and `unforward` of every command; `forward` of deploy and port open; `save` of deploy and clone | push as above; a rule that is not deleted stays when its record goes; OpenPort can fail in its IPv6 part when the IPv4 rule is there, and then the port is not recorded; a failed Save removes the row but not the rules |
| `RecordedArePorts` | these, `forward` of clone and daemon, `save` of port close, `unrow` of destroy | the port is recorded all the same, or still, when its rule is not there |
| `NamesAreMade` | two commands that put Caddy's server; `dns` of deploy, clone, load, route remove and unexpose; `route` and `save` of route add; `unrow` of destroy | a record that is not made is at most a warning (deploy.go:273); route add gives up (route.go:154), or cannot save (route.go:163), when the name already leads to the host; destroy gives up at Delete after its Teardown (destroy.go:146) |
| `RoutesAreRemoved` | `unroute` of destroy, freeze, route remove and unexpose; `save` of deploy, clone and unfreeze; `route` and `save` of route add | a route that stays is a warning (freeze.go:101), or an error after the row was saved (route.go:207); a command that fails at its Save, or AddRoute after it has posted, leaves the route that is there, and the row says that the project is frozen, is not exposed, or is gone |
| `DomainsAreServed` | two commands that put Caddy's server; clones given `--domain`; `route` of unfreeze; `save` of freeze, route remove and unexpose; `dns` and `route` of route add; `unrow` of destroy | a clone of `--domain` without `--port` records a domain that it does not route (clone.go:188, 238); unfreeze records that the project runs without its route (unfreeze.go:228); freeze and unexpose remove first and save then, route remove goes on after its Save (route.go:190), destroy gives up at Delete; route add records a domain that has no record, or replaces the route of the one recorded and gives up |

`RulesKnown` has one clause for a project that no command works on (`Quiet`): its
rules are for the ports of its row; one for a command that does (`Accounts`):
each rule is for a port that it has yet to close, or that the row it has yet to
save records, or, if it saves and deletes none, the row that is there; and one
for the commands by themselves (`KnowsPorts`), how the ports of a command's copy
are those of the row.  A command at its `unrow` has no port left to close, so no
index becomes free while a rule leads to it.  `RulesMade` is the converse, once the
daemon runs or has run after a reboot: a recorded port has its rule, except
while a destroy or port close works on the project, and of these
`ClosesUnrecorded` says that the record goes with the command's last step.

The last three theorems are about where a name, a hostname and a recorded domain
lead when no command works on the project.  The assertion itself is lost in the
middle of nearly every command, so each invariant has two parts: the assertion for
every quiet project (`Leads`, `Live`, `Works`), and for every command what is true
of its project while it works (`Named`, `Routed`, `Served`): the row that is there
still agrees with what leads to the VM, or a step that is still to come makes it
agree, and until the Save the same of the row that will be saved.  Clean-ups end a
list early, so what a command has not done must be harmless to leave undone, or
be one of the failures in the table.  The three need different things beside this:

* `NamesKept` and `DomainsKept` need that one command at a time finds Caddy
  without its server, `ServesAlone`, which `ServerAlone` gives: else route add is
  refused and gives up after it has changed the record, or a second `putServer`
  takes the routes of the first away (caddy.go:62).
  `RoutesAreOwn` has no such assumption, since that race only removes routes;
* `RoutesKept` says that a `boot` is only ever before a route that is not there,
  and that an `unrow` has no route or its `unroute` before it, so that an index
  that is given out again comes without a route;
* `DomainsKept` speaks of frozen projects too: their domain keeps its route
  unless it is the bare name, the only route freeze removes, and unfreeze adds no
  other.  While Caddy has no server it has no route either, which is why putting
  one takes nothing away.

### Firecracker processes

`Injective` says that projects have jails of their own, `~PidReuse` that the
kernel gives out no PID that a row or a command has noted.  The code ensures
neither (section 3), and the theorems are false without either.  Steps that
fail, killed commands and VMs that end by themselves are all in.  A command is
at a position of its operation's `Plan`, and `IInv` says what is known there:

* `OneEach`: two commands do not work on one project;
* `PidsAreTrue`: a PID that a row, a command or a socket has is the VM of that
  project, or of nobody;
* `RowPids`, `Reachable`: a VM that its row leads to has its own socket and its
  cgroup, and a row that is not running leads to none;
* `Knows`: after `kill` the VM of the row is gone (`Gone`), and until `save` a new
  one can be reached (`Started`);
* `Watches`: a goroutine watches a VM only while its command has not saved the
  row, so that it never cleans up after a VM that a row leads to.

`TypeCorrect` has no assumption.

### Guest agent

`IInv` says of each stream that what the host has and what is on the wire are, in
this order, the chunks that the reader has sent, each once; that a reader that
has ended has taken all that was ever written; and that, as long as the host is
connected, no write to it fails and
the handler is past the two joins only when both readers have found the end of
their pipes.  So an exit line comes after all output and with the status of the
shell that ended.  After the host has gone nothing is claimed of what is lost.
There may be any number of chunks, pipes may have any size from one on, and
agent and VM may stop at any time.

### Disk images

A command has a list of steps to do here too, and a failure replaces it by
another, so the proofs begin with what all these lists have in common (`Fits`):
an image is copied or fetched before a session edits it, whoever makes an image
goes on to its key and to its start, and a clean-up has neither.  `Core` says
besides that commands have their names for themselves (`Apart`) and that a
session finds an image there (`Present`), and is all that the types need.

`Clean` is for what a VM runs on.  An image that is there has umu-init, or the
list of the deploy that has made it still has its `init`; it is not left mounted
from the time a command has it; and so are the image of a project that runs or is
frozen and the one in the archive, as those are what push, load and clone take.
The two assumptions leave out an umount that fails and a clone over a disk that
was left behind; both are failures of the code (section 3), not of the proof.

`Keyed` is for the host key.  A key is a project's own if it is saved under its
name, in its archive, or in the image that its VM has or that a command makes for
it; no key is two projects' (`KeysApart`).  A clone has the key of its source
until its own key step is done (`Owned`), and so it must not get past that step
without it: `HasKey` says from which point of a list on the image has its key,
and `KeySaved`, that the key is then the saved one or none is.  `KeysGetIn`
leaves out that the key step of a clone, or of a load whose saved key is newer than
the archive, fails to mount or to write: a warning to the code (clone.go:167).
Umounts may fail here, for what is left then is an image without a key, and
clones may be made over what was left behind.  TLC finds `HostKeyPerVM` violated
with any one of the six failures and with `Tears`.

### Only model-checked

* in `VMLifecycle`, `VMIsBridged`, which the code does not keep;
* out of the prover's reach: liveness under fairness, `CommandsReturn`,
  `HostReturns`, `HandlerEnds` and `ReadersEnd`.

## 5. Not modelled, and the plan

Not modelled for good: configuration, health polling, metrics, tables, ssh and
install scripts keep no state of their own; checksums and kernel arguments are
data no property tells apart; the import of an old `state.json` happens once per
installation.  The NDP proxy of an address is set up again by whoever gets the
address next, and its failure is a warning.  `StopVM`,
`UpdateRoute`, `CreateVolume` and `InjectSecrets` have no caller, and
`RestoreFromSnapshot` is only called for a row without a socket path, which no
row has once its VM was started (unfreeze.go:125).

What would be next, in this order:

1. The stale copy of state.go:231: a copy read before a destroy and a new deploy of
   the name can have a generation that the new row has not passed yet, and Save
   then takes it.  The code does not refuse it, and no property speaks of it.
2. The two records of the host that the daemon makes (`ensureHostDNS`), which no
   other part reads.
