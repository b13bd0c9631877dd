------------------------------ MODULE Exposure ------------------------------
(***************************************************************************)
(* How a VM is reached from outside: Caddy routes by hostname, AAAA        *)
(* records at Cloudflare, and TCP ports that iptables forwards.            *)
(*                                                                         *)
(* Whatever leads to a VM is an index, the rowid of its project, because   *)
(* every address of a VM is computed from it: an index that is free again  *)
(* is given to another project, with all that still leads to it.           *)
(*                                                                         *)
(* A command is a process that reads the row of its project, works through *)
(* todo, and writes the row.  One command at a time works on a project or  *)
(* on one of its hostnames; so no Save is refused and generations are left *)
(* out here (see StateStore).  boot stands for the steps of VMLifecycle    *)
(* that make a VM.  Of OpenPort's rules there is the DNAT rule; those of    *)
(* the FORWARD chain, which destroy flushes with the bridge                *)
(* (network.go:231), the port inside the VM, TLS and wording are left out. *)
(***************************************************************************)
EXTENDS ProjectTable, SequencesExt

CONSTANTS
    NoName, NoHost,
    Procs,              \* processes that run commands
    Hosts,              \* hostnames
    Bare, Fqdn,         \* a project's name, and the same under the base domain
    DomainsOf,          \* hostnames that operators give to route, deploy, clone
    HostIP,             \* the address of the host itself
    Ports,
    Commands,           \* the commands operators give in this instance
    CloneDomains,       \* clones are given --domain
    DaemonAlone,        \* no command runs while the daemon reopens ports
    ServerAlone,        \* no two commands find Caddy without its server at once
    MayFail,            \* pairs <<command, step>> that may fail
    MaxIndex            \* bound: rowids

HostsOf(n) == {Bare[n], Fqdn[n]} \cup DomainsOf[n]

ASSUME NoneAssumption == NoName \notin Names /\ NoHost \notin Hosts /\ HostIP \notin Nat
ASSUME BoundAssumption == MaxIndex \in Nat
ASSUME FiniteAssumption == IsFiniteSet(Names) /\ IsFiniteSet(Ports)
ASSUME FlagsAssumption == {CloneDomains, DaemonAlone, ServerAlone} \subseteq BOOLEAN
\* No hostname is meant for two projects.
ASSUME HostsAssumption ==
    /\ \A n \in Names : HostsOf(n) \subseteq Hosts
    /\ \A m, n \in Names : m # n => HostsOf(m) \cap HostsOf(n) = {}

VARIABLES
    rows,       \* the projects table
    cmd,        \* what each process is doing
    server,     \* Caddy has the server that holds the routes
    routes,     \* Caddy: the index a hostname is proxied to, or 0
    lost,       \* history: hostnames whose route went when Caddy started anew
    dns,        \* AAAA records: HostIP, the index of a VM, or 0
    rules,      \* PREROUTING: the indexes a port is forwarded to, first wins
    restored    \* the daemon has reopened the ports since the host booted

caddy == <<server, routes, lost>>

vars == <<rows, cmd, caddy, dns, rules, restored>>

\* made: the row has its service.
Project == [rowid : Nat, status : {"none", "creating", "running", "frozen"},
            made : BOOLEAN, expose : BOOLEAN, domain : Hosts \cup {NoHost},
            ports : SUBSET Ports]

NoProject == [rowid |-> 0, status |-> "none", made |-> FALSE, expose |-> FALSE,
              domain |-> NoHost, ports |-> {}]

Ops == {"deploy", "destroy", "freeze", "unfreeze", "clone", "push", "load",
        "route add", "route remove", "unexpose", "port open", "port close", "daemon"}

\* A step has a hostname or a port as key, and the index it leads to; Own is
\* the index of the project the command is about.
Own == 0

Step == ({"route"} \X Hosts \X {Own})
           \cup ({"unroute", "undns"} \X Hosts)
           \cup ({"dns"} \X Hosts \X {Own, HostIP})
           \cup ({"open", "forward", "unforward"} \X Ports \X Nat)
           \cup {<<"register">>, <<"boot">>, <<"serve">>, <<"save">>, <<"unrow">>, <<"ready">>}

\* row: the contents that save will write.
Command == [op : Ops \cup {"none"}, name : Names \cup {NoName}, row : Project,
            todo : Seq(Step)]

Idle == [op |-> "none", name |-> NoName, row |-> NoProject, todo |-> <<>>]

TypeOK ==
    /\ rows \in [Names -> Project]
    /\ cmd \in [Procs -> Command]
    /\ server \in BOOLEAN
    /\ routes \in [Hosts -> Nat]
    /\ lost \subseteq Hosts
    /\ dns \in [Hosts -> Nat \cup {HostIP}]
    /\ rules \in [Ports -> Seq(Nat)]
    /\ restored \in BOOLEAN

Init ==
    /\ rows = [n \in Names |-> NoProject]
    /\ cmd = [p \in Procs |-> Idle]
    /\ server = FALSE
    /\ routes = [h \in Hosts |-> 0]
    /\ lost = {}
    /\ dns = [h \in Hosts |-> 0]
    /\ rules = [port \in Ports |-> <<>>]
    /\ restored = TRUE

-----------------------------------------------------------------------------
(***************************************************************************)
(* Sequences of steps that commands share.                                 *)
(***************************************************************************)
When(condition, step) == IF condition THEN <<step>> ELSE <<>>

OpenPort(port, i) == <<"open", port, i>>
ClosePort(port, i) == <<"unforward", port, i>>

\* Ports are opened and closed in any order; no property depends on it.
Opening(ports) ==
    {[k \in DOMAIN order |-> OpenPort(order[k], Own)] : order \in SetToSeqs(ports)}
Closing(ports) ==
    {[k \in DOMAIN order |-> ClosePort(order[k], Own)] : order \in SetToSeqs(ports)}

Unexposed(row) == [row EXCEPT !.expose = FALSE, !.domain = NoHost]

-----------------------------------------------------------------------------
(***************************************************************************)
(* Commands begin.                                                         *)
(***************************************************************************)
DaemonRuns == \E q \in Procs : cmd[q].op = "daemon"

AddsRoute(todo) == \E k \in DOMAIN todo : todo[k][1] = "route"

Begin(p, op, n, row, todo) ==
    /\ op \in Commands
    /\ cmd[p] = Idle
    /\ n # NoName => \A q \in Procs : cmd[q].name # n
    /\ DaemonAlone => ~DaemonRuns
    /\ ServerAlone /\ ~server /\ AddsRoute(todo) => \A q \in Procs : ~AddsRoute(cmd[q].todo)
    /\ cmd' = [cmd EXCEPT ![p] = [op |-> op, name |-> n, row |-> row, todo |-> todo]]
    /\ UNCHANGED <<rows, caddy, dns, rules, restored>>

At(p, step) == cmd[p].todo # <<>> /\ Head(cmd[p].todo)[1] = step

RoomForRow ==
    \A n \in Names : rows[n].rowid + Cardinality({q \in Procs : At(q, "register")}) < MaxIndex

Making == [NoProject EXCEPT !.status = "running", !.made = TRUE]

\* --port routes --domain or else the FQDN; the domain is not recorded.
Deploy(p, n) ==
    /\ ~Present(rows, n)
    /\ RoomForRow
    /\ \E expose, port \in BOOLEAN, ports \in SUBSET Ports,
          h \in DomainsOf[n] \cup {Fqdn[n]} : \E opening \in Opening(ports) :
          Begin(p, "deploy", n,
                [Making EXCEPT !.expose = expose \/ port, !.ports = ports],
                << <<"register">>, <<"boot">> >>
                   \o When(port, <<"route", h, Own>>)
                   \o opening
                   \o << <<"save">>, <<"dns", Fqdn[n], Own>> >>)

\* The clone opens the ports of its source and records --domain, with or
\* without --port.
Clone(p, src, n) ==
    /\ Present(rows, src)
    /\ rows[src].status # "running"
    /\ rows[src].made
    /\ ~Present(rows, n)
    /\ RoomForRow
    /\ \E expose, port \in BOOLEAN, opening \in Opening(rows[src].ports),
          h \in {NoHost} \cup IF CloneDomains THEN DomainsOf[n] ELSE {} :
          Begin(p, "clone", n,
                [Making EXCEPT !.expose = expose \/ port, !.domain = h,
                               !.ports = rows[src].ports],
                << <<"register">>, <<"boot">> >>
                   \o opening
                   \o When(port, <<"route", IF h = NoHost THEN Fqdn[n] ELSE h, Own>>)
                   \o << <<"save">>, <<"dns", Fqdn[n], Own>> >>)

\* load makes the record under the bare name.
Load(p, n) ==
    /\ ~Present(rows, n)
    /\ RoomForRow
    /\ Begin(p, "load", n, Making,
             << <<"register">>, <<"boot">>, <<"save">>, <<"dns", Bare[n], Own>> >>)

\* push deletes the row and nothing that leads to the VM.
Push(p, n) ==
    /\ rows[n].made
    /\ rows[n].status # "running"
    /\ Begin(p, "push", n, rows[n], << <<"unrow">> >>)

Destroy_RowFirst(p, n) ==
    /\ Present(rows, n)
    /\ \E closing \in Closing(rows[n].ports) :
          Begin(p, "destroy", n, rows[n],
                When(rows[n].expose, <<"unroute", Fqdn[n]>>)
                   \o closing
                   \o << <<"unrow">>, <<"undns", Fqdn[n]>> >>)

Destroy_KeepsPorts(p, n) ==
    /\ Present(rows, n)
    /\ Begin(p, "destroy", n, rows[n],
             When(rows[n].expose, <<"unroute", Fqdn[n]>>)
                \o << <<"undns", Fqdn[n]>>, <<"unrow">> >>)

\* The FQDN only, whatever domain is recorded.
Destroy(p, n) ==
    /\ Present(rows, n)
    /\ \E closing \in Closing(rows[n].ports) :
          Begin(p, "destroy", n, rows[n],
                When(rows[n].expose, <<"unroute", Fqdn[n]>>)
                   \o closing
                   \o << <<"undns", Fqdn[n]>>, <<"unrow">> >>)

Freeze_KeepsRoute(p, n) ==
    /\ rows[n].status \in {"running", "frozen"}
    /\ Begin(p, "freeze", n, [rows[n] EXCEPT !.status = "frozen"], << <<"save">> >>)

Freeze_Stopped(p, n) ==
    /\ rows[n].status \in {"running", "frozen"}
    /\ Begin(p, "freeze", n, [rows[n] EXCEPT !.status = "stopped"],
             When(rows[n].expose, <<"unroute", Bare[n]>>) \o << <<"save">> >>)

\* freeze and unfreeze know the route of the bare name only.
Freeze(p, n) ==
    /\ rows[n].status \in {"running", "frozen"}
    /\ Begin(p, "freeze", n, [rows[n] EXCEPT !.status = "frozen"],
             When(rows[n].expose, <<"unroute", Bare[n]>>) \o << <<"save">> >>)

Unfreeze(p, n) ==
    /\ rows[n].status = "frozen"
    /\ Begin(p, "unfreeze", n, [rows[n] EXCEPT !.status = "running"],
             << <<"boot">> >> \o When(rows[n].expose, <<"route", Bare[n], Own>>)
                \o << <<"save">> >>)

\* Without a domain, the FQDN, which must not be the bare name.
RouteAdd(p, n) ==
    /\ rows[n].made
    /\ \E h \in DomainsOf[n] \cup ({Fqdn[n]} \ {Bare[n]}) :
          Begin(p, "route add", n,
                [rows[n] EXCEPT !.status = "running", !.expose = TRUE, !.domain = h],
                When(h = Fqdn[n], <<"dns", h, HostIP>>)
                   \o << <<"route", h, Own>>, <<"save">> >>)

\* route remove is given a hostname; n is the project it is meant for.
RouteRemove(p, n) ==
    \E h \in HostsOf(n) :
       IF rows[n].made /\ rows[n].domain = h
       THEN Begin(p, "route remove", n, Unexposed(rows[n]),
                  << <<"save">> >> \o When(h = Fqdn[n], <<"dns", h, Own>>)
                     \o << <<"unroute", h>> >>)
       ELSE Begin(p, "route remove", n, rows[n], << <<"unroute", h>> >>)

Unexpose_KeepsName(p, n) ==
    /\ Present(rows, n)
    /\ LET h == IF rows[n].domain = NoHost THEN Fqdn[n] ELSE rows[n].domain
       IN Begin(p, "unexpose", n, Unexposed(rows[n]),
                When(rows[n].expose, <<"unroute", h>>) \o << <<"save">> >>)

Unexpose(p, n) ==
    /\ Present(rows, n)
    /\ LET h == IF rows[n].domain = NoHost THEN Fqdn[n] ELSE rows[n].domain
       IN Begin(p, "unexpose", n, Unexposed(rows[n]),
                When(rows[n].expose, <<"unroute", h>>)
                   \o When(rows[n].expose /\ h = Fqdn[n], <<"dns", h, Own>>)
                   \o << <<"save">> >>)

PortOpen(p, n) ==
    /\ rows[n].made
    /\ \E port \in Ports \ rows[n].ports :
          Begin(p, "port open", n, [rows[n] EXCEPT !.ports = @ \cup {port}],
                << OpenPort(port, Own), <<"save">> >>)

PortClose(p, n) ==
    /\ rows[n].made
    /\ \E port \in rows[n].ports :
          Begin(p, "port close", n, [rows[n] EXCEPT !.ports = @ \ {port}],
                << ClosePort(port, Own), <<"save">> >>)

\* The daemon as it starts: the ports of every project, each with its index.
Daemon(p) ==
    /\ DaemonAlone => \A q \in Procs : cmd[q] = Idle
    /\ \E order \in SetToSeqs(UNION {rows[n].ports \X {rows[n].rowid} : n \in Names}) :
          Begin(p, "daemon", NoName, NoProject,
                [k \in DOMAIN order |-> OpenPort(order[k][1], order[k][2])]
                   \o << <<"ready">> >>)

-----------------------------------------------------------------------------
(***************************************************************************)
(* Steps.                                                                  *)
(***************************************************************************)
NextStep(p) == Head(cmd[p].todo)
Key(p) == NextStep(p)[2]

Index(p) == LET to == NextStep(p)[3] IN IF to = Own THEN cmd[p].row.rowid ELSE to

Continue(p, c) == cmd' = [cmd EXCEPT ![p] = IF c.todo = <<>> THEN Idle ELSE c]

Advance(p) == Continue(p, [cmd[p] EXCEPT !.todo = Tail(@)])

\* A failed step ends the command but for its clean-up.
GiveUp(p, cleanup) == Continue(p, [cmd[p] EXCEPT !.todo = cleanup])

MayFailAt(p, step) == <<cmd[p].op, step>> \in MayFail

Register(p) ==
    /\ At(p, "register")
    /\ LET n == cmd[p].name IN
       \/ \E r \in NextRowid(rows) :
             /\ rows' = [rows EXCEPT ![n] = [NoProject EXCEPT !.rowid = r,
                                                              !.status = "creating"]]
             /\ Continue(p, [cmd[p] EXCEPT !.todo = Tail(@), !.row.rowid = r])
       \/ /\ MayFailAt(p, "register")
          /\ GiveUp(p, <<>>)
          /\ UNCHANGED rows
    /\ UNCHANGED <<caddy, dns, rules, restored>>

Boot_NoReturn(p) ==
    /\ At(p, "boot")
    /\ \/ Advance(p)
       \/ /\ MayFailAt(p, "boot")
          /\ GiveUp(p, When(cmd[p].op \in {"deploy", "clone"}, <<"unrow">>)
                          \o Tail(cmd[p].todo))
    /\ UNCHANGED <<rows, caddy, dns, rules, restored>>

\* Without a VM deploy and clone delete the row they registered; load keeps it.
Boot(p) ==
    /\ At(p, "boot")
    /\ \/ Advance(p)
       \/ /\ MayFailAt(p, "boot")
          /\ GiveUp(p, When(cmd[p].op \in {"deploy", "clone"}, <<"unrow">>))
    /\ UNCHANGED <<rows, caddy, dns, rules, restored>>

\* AddRoute: only route add gives up when it fails.
RouteFails(p, rest) ==
    IF cmd[p].op = "route add" THEN GiveUp(p, <<>>)
    ELSE Continue(p, [cmd[p] EXCEPT !.todo = rest])

FindNoServer_Always(p) ==
    /\ At(p, "route")
    /\ Continue(p, [cmd[p] EXCEPT !.todo = << <<"serve">> >> \o @])
    /\ UNCHANGED <<rows, caddy, dns, rules, restored>>

\* EnsureServer asks for the server first.
FindNoServer(p) ==
    /\ At(p, "route")
    /\ ~server
    /\ Continue(p, [cmd[p] EXCEPT !.todo = << <<"serve">> >> \o @])
    /\ UNCHANGED <<rows, caddy, dns, rules, restored>>

\* putServer "creates or replaces" the server (caddy.go:62), or is refused when
\* there is one.
Serve(p) ==
    /\ At(p, "serve")
    /\ \/ /\ server' = TRUE
          /\ routes' = [h \in Hosts |-> 0]
          /\ Advance(p)
       \/ /\ MayFailAt(p, "route") \/ server
          /\ RouteFails(p, Tail(Tail(cmd[p].todo)))
          /\ UNCHANGED <<server, routes>>
    /\ UNCHANGED <<rows, lost, dns, rules, restored>>

\* The rest of AddRoute removes the route of that hostname, then posts, and sets
\* TLS policies.
Route(p) ==
    /\ At(p, "route")
    /\ \/ /\ server
          /\ routes' = [routes EXCEPT ![Key(p)] = Index(p)]
          /\ lost' = lost \ {Key(p)}
          /\ Advance(p)
       \/ /\ MayFailAt(p, "route")
          /\ \E i \in {routes[Key(p)]} \cup IF server THEN {0, Index(p)} ELSE {} :
                routes' = [routes EXCEPT ![Key(p)] = i]
          /\ RouteFails(p, Tail(cmd[p].todo))
          /\ UNCHANGED lost
    /\ UNCHANGED <<rows, server, dns, rules, restored>>

Unroute(p) ==
    /\ At(p, "unroute")
    /\ \/ /\ routes' = [routes EXCEPT ![Key(p)] = 0]
          /\ lost' = lost \ {Key(p)}
       \/ MayFailAt(p, "unroute") /\ UNCHANGED <<routes, lost>>
    /\ Advance(p)
    /\ UNCHANGED <<rows, server, dns, rules, restored>>

\* Setup and Teardown: their errors are warnings or ignored.
Record(p) ==
    /\ \/ /\ At(p, "dns")
          /\ \/ dns' = [dns EXCEPT ![Key(p)] = Index(p)]
             \/ MayFailAt(p, "dns") /\ UNCHANGED dns
       \/ /\ At(p, "undns")
          /\ \/ dns' = [dns EXCEPT ![Key(p)] = 0]
             \/ MayFailAt(p, "undns") /\ UNCHANGED dns
    /\ Advance(p)
    /\ UNCHANGED <<rows, caddy, rules, restored>>

\* iptables -D of one such rule, if there is one.
Deleted(p) == [rules EXCEPT ![Key(p)] = RemoveFirst(@, Index(p))]

\* Its error is dropped, be it that there is no rule or that the table is locked.
DeleteRule(p, step) ==
    \/ rules' = Deleted(p)
    \/ MayFailAt(p, step) /\ UNCHANGED rules

Reopen_Twice(p) ==
    /\ At(p, "open")
    /\ Continue(p, [cmd[p] EXCEPT !.todo = << <<"forward", Key(p), NextStep(p)[3]>> >> \o Tail(@)])
    /\ UNCHANGED <<rows, caddy, dns, rules, restored>>

\* OpenPort deletes the rule first, so that it is there once, in front, and goes
\* on to insert it if that fails.
Reopen(p) ==
    /\ At(p, "open")
    /\ DeleteRule(p, "open")
    /\ Continue(p, [cmd[p] EXCEPT !.todo = << <<"forward", Key(p), NextStep(p)[3]>> >> \o Tail(@)])
    /\ UNCHANGED <<rows, caddy, dns, restored>>

\* iptables -I at position 1.  An error may come after the rule (the IPv6 part):
\* deploy then does not record the port, port open gives up.
Forward(p) ==
    /\ At(p, "forward")
    /\ LET new == [rules EXCEPT ![Key(p)] = <<Index(p)>> \o @] IN
       \/ /\ rules' = new
          /\ Advance(p)
       \/ /\ MayFailAt(p, "forward")
          /\ rules' \in {rules, new}
          /\ CASE cmd[p].op = "deploy" ->
                    Continue(p, [cmd[p] EXCEPT !.todo = Tail(@), !.row.ports = @ \ {Key(p)}])
               [] cmd[p].op = "port open" -> GiveUp(p, <<>>)
               [] OTHER -> Advance(p)
    /\ UNCHANGED <<rows, caddy, dns, restored>>

Unforward(p) ==
    /\ At(p, "unforward")
    /\ DeleteRule(p, "unforward")
    /\ Advance(p)
    /\ UNCHANGED <<rows, caddy, dns, restored>>

\* After a failed Save, deploy and clone delete their row, port open closes
\* the port, route remove goes on, and the others end.
AfterFailedSave_Nothing(p) == <<>>

AfterFailedSave(p) ==
    CASE cmd[p].op \in {"deploy", "clone"} -> << <<"unrow">> >>
      [] cmd[p].op = "port open" ->
            << ClosePort(CHOOSE port \in cmd[p].row.ports : port \notin rows[cmd[p].name].ports,
                         Own) >>
      [] cmd[p].op = "route remove" -> Tail(cmd[p].todo)
      [] OTHER -> <<>>

Save(p) ==
    /\ At(p, "save")
    /\ \/ /\ rows' = [rows EXCEPT ![cmd[p].name] = cmd[p].row]
          /\ Advance(p)
       \/ /\ MayFailAt(p, "save")
          /\ GiveUp(p, AfterFailedSave(p))
          /\ UNCHANGED rows
    /\ UNCHANGED <<caddy, dns, rules, restored>>

Unrow(p) ==
    /\ At(p, "unrow")
    /\ \/ rows' = [rows EXCEPT ![cmd[p].name] = NoProject]
       \/ MayFailAt(p, "unrow") /\ UNCHANGED rows
    /\ Advance(p)
    /\ UNCHANGED <<caddy, dns, rules, restored>>

Ready(p) ==
    /\ At(p, "ready")
    /\ restored' = TRUE
    /\ Advance(p)
    /\ UNCHANGED <<rows, caddy, dns, rules>>

\* iptables forgets its rules; Caddy starts from a Caddyfile without the server.
Reboot ==
    /\ \A p \in Procs : cmd[p] = Idle
    /\ server' = FALSE
    /\ routes' = [h \in Hosts |-> 0]
    /\ lost' = lost \cup {h \in Hosts : routes[h] # 0}
    /\ rules' = [port \in Ports |-> <<>>]
    /\ restored' = FALSE
    /\ UNCHANGED <<rows, cmd, dns>>

BeginCommand(p) ==
    \/ \E n \in Names :
          \/ Deploy(p, n) \/ Load(p, n) \/ Push(p, n) \/ Destroy(p, n)
          \/ Freeze(p, n) \/ Unfreeze(p, n)
          \/ RouteAdd(p, n) \/ RouteRemove(p, n) \/ Unexpose(p, n)
          \/ PortOpen(p, n) \/ PortClose(p, n)
          \/ \E src \in Names : Clone(p, src, n)
    \/ Daemon(p)

DoStep(p) ==
    \/ Register(p) \/ Boot(p)
    \/ FindNoServer(p) \/ Serve(p) \/ Route(p) \/ Unroute(p) \/ Record(p)
    \/ Reopen(p) \/ Forward(p) \/ Unforward(p)
    \/ Save(p) \/ Unrow(p) \/ Ready(p)

Next ==
    \/ \E p \in Procs : BeginCommand(p) \/ DoStep(p)
    \/ Reboot

Spec == Init /\ [][Next]_vars

-----------------------------------------------------------------------------
(***************************************************************************)
(* Properties.                                                             *)
(***************************************************************************)
Quiet(n) == \A p \in Procs : cmd[p].name # n

HasIndex(n, i) == Present(rows, n) /\ rows[n].rowid = i

\* A port is never forwarded to an address that no project has: destroy closes
\* the ports of a project (README.md:204) before its index can be given away.
\* push does not: this and NameLeadsToOwner hold of the other commands.
ForwardsHaveOwner ==
    \A port \in Ports : \A i \in ToSet(rules[port]) : \E n \in Names : HasIndex(n, i)

\* A rule is never there twice, so that one ClosePort is enough ("Idempotent:
\* existing rules are deleted first", network.go:317), whatever failed before, as
\* long as these deletes do not: a rule that one of them leaves is there twice
\* after the insert, since the code drops its error (network.go:322).
ForwardedOnce == \A port \in Ports : IsInjective(rules[port])

\* Whatever fails, a route, record or rule is only made for a project that is in
\* the store at that moment with that index.
MadeForOwner ==
    \A p \in Procs :
       At(p, "route") \/ At(p, "forward") \/ (At(p, "dns") /\ NextStep(p)[3] = Own)
          => \E n \in Names : HasIndex(n, Index(p))

\* Between commands iptables has, of each project, a rule for every port that
\* its row records, once, and no other; before the daemon has reopened them
\* (daemon.go:142) some may be missing.
PortsMatchStore ==
    \A n \in Names, port \in Ports :
       Present(rows, n) /\ Quiet(n) /\ ~DaemonRuns =>
          LET open == Cardinality({k \in DOMAIN rules[port] : rules[port][k] = rows[n].rowid})
          IN IF port \in rows[n].ports
             THEN open <= 1 /\ (restored => open = 1)
             ELSE open = 0

\* The DNS name of a project never leads to the VM of another one, although
\* indexes are given out again: destroy removes the record before the row.
NameLeadsToOwner ==
    \A n \in Names : dns[Fqdn[n]] \in {0, HostIP} \/ HasIndex(n, dns[Fqdn[n]])

\* Between commands, the domain that the row of a running project records is
\* routed to its VM, and if it is the FQDN it leads to the host, where Caddy is
\* ("flips the DNS to point to the host", README.md:165); the route may be gone
\* if Caddy has started anew, since the daemon reopens ports only.
RecordedDomainWorks ==
    \A n \in Names :
       LET h == rows[n].domain
       IN Quiet(n) /\ h # NoHost =>
             /\ rows[n].status = "running" /\ h \notin lost => routes[h] = rows[n].rowid
             /\ h = Fqdn[n] => dns[h] = HostIP

\* Projects that only ever have one hostname: a name with a dot, or no base
\* domain, and no other domain given.
OneHost == {n \in Names : HostsOf(n) = {Fqdn[n]}}

\* A route of such a project leads to no other VM, and there is none between
\* commands while it is frozen ("Caddy proxy routes are removed so the project
\* becomes unreachable", freeze.go:23) or not exposed (unexpose.go:16).
RoutesOfOneHost ==
    \A n \in OneHost :
       routes[Fqdn[n]] # 0 =>
          /\ HasIndex(n, routes[Fqdn[n]])
          /\ Quiet(n) => rows[n].status = "running" /\ rows[n].expose

\* Between commands, the name of such a project leads to its VM unless it is
\* exposed ("unexpose flips DNS back to the VM's IP", README.md:174).
NameLeadsToVM ==
    \A n \in OneHost :
       Quiet(n) /\ rows[n].made /\ ~rows[n].expose => dns[Fqdn[n]] = rows[n].rowid
=============================================================================
