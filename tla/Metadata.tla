------------------------------- MODULE Metadata -------------------------------
(***************************************************************************)
(* The metadata service: one HTTP server for a host, which the first       *)
(* process that needs it starts, and a registry that every process has for *)
(* itself.                                                                 *)
(*                                                                         *)
(* Commands start a VM each; the daemon starts none and stays.  An address *)
(* of a guest has the notation in which it is written: GuestIP as such,    *)
(* and with brackets in the RemoteAddr of a request, because of the port   *)
(* behind it.  Wait has no caller.                                         *)
(***************************************************************************)
EXTENDS Naturals

CONSTANTS
    Guests,         \* one VM each
    Procs,
    Nobody,
    MaxAttempts     \* attempts to listen, 10 in the code

VARIABLES
    gateway,        \* the bridge has the address of the server
    server,         \* the process that listens, or Nobody
    proc,           \* what each process is doing
    entries,        \* addresses in the registry of each process
    vms,            \* guests that run
    answer          \* what each guest has been answered last

vars == <<gateway, server, proc, entries, vms, answer>>

Address == [guest : Guests, brackets : BOOLEAN]

\* GuestIP, the key of Register.
GuestIP(g) == [guest |-> g, brackets |-> FALSE]

\* net/http: host and port of a connection over IPv6.
RemoteAddr(g) == [host |-> [guest |-> g, brackets |-> TRUE], port |-> "ephemeral"]

\* What is before the last colon, as it is.
SplitHostPort(addr) == addr.host

Out == [at |-> "out", guest |-> Nobody, tries |-> 0]

Process == [at : {"out", "dial", "listen", "register", "start", "stay"},
            guest : Guests \cup {Nobody},
            tries : Nat]

TypeOK ==
    /\ gateway \in BOOLEAN
    /\ server \in Procs \cup {Nobody}
    /\ proc \in [Procs -> Process]
    /\ entries \in [Procs -> SUBSET Address]
    /\ vms \subseteq Guests
    /\ answer \in [Guests -> {"none", "payload", "not found"}]

Init ==
    /\ gateway = FALSE
    /\ server = Nobody
    /\ proc = [p \in Procs |-> Out]
    /\ entries = [p \in Procs |-> {}]
    /\ vms = {}
    /\ answer = [g \in Guests |-> "none"]

-----------------------------------------------------------------------------
\* Setting up the network of its VM, a command gives the bridge its address.
StartCommand(p, g) ==
    /\ proc[p] = Out
    /\ g \notin vms
    /\ \A q \in Procs : proc[q].guest # g
    /\ gateway' = TRUE
    /\ proc' = [proc EXCEPT ![p] = [Out EXCEPT !.at = "dial", !.guest = g]]
    /\ UNCHANGED <<server, entries, vms, answer>>

StartDaemon(p) ==
    /\ proc[p] = Out
    /\ proc' = [proc EXCEPT ![p].at = "dial"]
    /\ UNCHANGED <<gateway, server, entries, vms, answer>>

\* EnsureRunning: with an answer in time this process will never listen.
Dial(p) ==
    /\ proc[p].at = "dial"
    /\ \/ server # Nobody /\ proc' = [proc EXCEPT ![p].at = "register"]
       \/ proc' = [proc EXCEPT ![p].at = "listen"]
    /\ UNCHANGED <<gateway, server, entries, vms, answer>>

Listen(p) ==
    /\ proc[p].at = "listen"
    /\ IF gateway /\ server = Nobody
       THEN /\ server' = p
            /\ proc' = [proc EXCEPT ![p].at = "register"]
       ELSE /\ proc' = [proc EXCEPT ![p].tries = @ + 1,
                                    ![p].at = IF proc[p].tries + 1 < MaxAttempts
                                              THEN "listen" ELSE "register"]
            /\ UNCHANGED server
    /\ UNCHANGED <<gateway, entries, vms, answer>>

\* The daemon has nothing to register, and waits for a signal.
Register(p) ==
    /\ proc[p].at = "register"
    /\ IF proc[p].guest = Nobody
       THEN /\ proc' = [proc EXCEPT ![p].at = "stay"]
            /\ UNCHANGED entries
       ELSE /\ proc' = [proc EXCEPT ![p].at = "start"]
            /\ entries' = [entries EXCEPT ![p] = @ \cup {GuestIP(proc[p].guest)}]
    /\ UNCHANGED <<gateway, server, vms, answer>>

\* The command goes on for a while, but has nothing more to do with metadata.
StartVM(p) ==
    /\ proc[p].at = "start"
    /\ proc' = [proc EXCEPT ![p].at = "stay"]
    /\ \/ vms' = vms \cup {proc[p].guest} /\ UNCHANGED entries
       \/ /\ entries' = [entries EXCEPT ![p] = @ \ {GuestIP(proc[p].guest)}]  \* Deregister
          /\ UNCHANGED vms
    /\ UNCHANGED <<gateway, server, answer>>

\* A process ends or is killed; listener and registry go with it.
Exit(p) ==
    /\ proc[p] # Out
    /\ proc' = [proc EXCEPT ![p] = Out]
    /\ entries' = [entries EXCEPT ![p] = {}]
    /\ server' = IF server = p THEN Nobody ELSE server
    /\ UNCHANGED <<gateway, vms, answer>>

\* serveMeta.
Request(g) ==
    /\ g \in vms
    /\ server # Nobody
    /\ answer' = [answer EXCEPT ![g] = IF SplitHostPort(RemoteAddr(g)) \in entries[server]
                                       THEN "payload" ELSE "not found"]
    /\ UNCHANGED <<gateway, server, proc, entries, vms>>

Stop(g) ==
    /\ g \in vms
    /\ vms' = vms \ {g}
    /\ answer' = [answer EXCEPT ![g] = "none"]
    /\ UNCHANGED <<gateway, server, proc, entries>>

Next ==
    \/ \E p \in Procs :
          \/ \E g \in Guests : StartCommand(p, g)
          \/ StartDaemon(p) \/ Dial(p) \/ Listen(p) \/ Register(p) \/ StartVM(p) \/ Exit(p)
    \/ \E g \in Guests : Request(g) \/ Stop(g)

Spec == Init /\ [][Next]_vars

-----------------------------------------------------------------------------
(***************************************************************************)
(* Properties.                                                             *)
(***************************************************************************)

\* A guest that the serving process has registered gets its payload: the
\* server "serves metadata to all VMs. VMs identify themselves by their source
\* IP" (registry.go:4).
MetadataIsServed ==
    [][\A g \in Guests :
          answer'[g] = "not found" /\ answer[g] # "not found"
          => GuestIP(g) \notin entries[server]]_vars
=============================================================================
