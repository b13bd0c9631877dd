---------------------------- MODULE MetadataProofs ----------------------------
(***************************************************************************)
(* Whatever processes come and go, the server finds no guest: registries   *)
(* hold addresses without brackets only, and requests come with them.      *)
(***************************************************************************)
EXTENDS Metadata, TLAPS

\* The addresses that Register has stored.
Registered == entries \in [Procs -> SUBSET {GuestIP(g) : g \in Guests}]

ServedNot == \A g \in Guests : answer[g] # "payload"

\* The daemon starts no VM.
Starting == \A p \in Procs : proc[p].at = "start" => proc[p].guest \in Guests

IInv == TypeOK /\ Registered /\ ServedNot /\ Starting

LEMMA InitInv == Init => IInv
<1> SUFFICES ASSUME Init PROVE IInv
  OBVIOUS
<1>1. Out \in Process
  BY DEF Out, Process
<1>2. TypeOK
  BY <1>1 DEF Init, TypeOK
<1>3. Registered /\ ServedNot /\ Starting
  BY DEF Init, Registered, ServedNot, Starting, Out
<1> QED
  BY <1>2, <1>3 DEF IInv

\* One attempt to listen more.
LEMMA RetryIsProcess ==
    ASSUME NEW r \in Process, NEW at \in {"listen", "register"}
    PROVE  [r EXCEPT !.tries = @ + 1, !.at = at] \in Process
<1>1. r.tries \in Nat
  BY DEF Process
<1>2. r.tries + 1 \in Nat
  BY <1>1
<1> QED
  BY <1>2 DEF Process

\* Storing an address.
LEMMA EntryIsRegistered ==
    ASSUME Registered, NEW p \in Procs, NEW g \in Guests,
           entries' = [entries EXCEPT ![p] = @ \cup {GuestIP(g)}]
    PROVE  Registered'
<1>1. GuestIP(g) \in {GuestIP(h) : h \in Guests}
  OBVIOUS
<1>2. entries[p] \cup {GuestIP(g)} \in SUBSET {GuestIP(h) : h \in Guests}
  BY <1>1 DEF Registered
<1> QED
  BY <1>2 DEF Registered

\* The two notations of an address differ.
LEMMA BracketsDiffer ==
    ASSUME NEW g \in Guests, NEW h \in Guests
    PROVE  SplitHostPort(RemoteAddr(g)) # GuestIP(h)
  BY DEF SplitHostPort, RemoteAddr, GuestIP

\* Only addresses are registered.
LEMMA RegisteredAreAddresses ==
    /\ Registered => entries \in [Procs -> SUBSET Address]
    /\ Registered' => entries' \in [Procs -> SUBSET Address]
<1>1. {GuestIP(g) : g \in Guests} \subseteq Address
  <2>1. \A g \in Guests : GuestIP(g) \in Address
    BY DEF GuestIP, Address
  <2> QED
    BY <2>1
<1>2. Registered => entries \in [Procs -> SUBSET Address]
  BY <1>1 DEF Registered
<1>3. Registered' => entries' \in [Procs -> SUBSET Address]
  BY <1>1 DEF Registered
<1> QED
  BY <1>2, <1>3

\* A process that goes on to another step.
LEMMA ProcessGoesOn ==
    ASSUME IInv, NEW p \in Procs, NEW r \in Process,
           r.at = "start" => r.guest \in Guests,
           proc' = [proc EXCEPT ![p] = r]
    PROVE  proc' \in [Procs -> Process] /\ Starting'
  BY DEF IInv, TypeOK, Starting

LEMMA NextInv == IInv /\ [Next]_vars => IInv'
<1> SUFFICES ASSUME IInv, [Next]_vars PROVE IInv'
  OBVIOUS
<1>0. proc \in [Procs -> Process]
  BY DEF IInv, TypeOK
<1>1. ASSUME NEW p \in Procs, NEW g \in Guests, StartCommand(p, g) PROVE IInv'
  <2>1. [Out EXCEPT !.at = "dial", !.guest = g] \in Process
    BY DEF Out, Process
  <2>2. proc' \in [Procs -> Process] /\ Starting'
    BY <1>1, <2>1, ProcessGoesOn DEF StartCommand, Out
  <2> QED
    BY <1>1, <2>2 DEF IInv, TypeOK, Registered, ServedNot, StartCommand
<1>2. ASSUME NEW p \in Procs, StartDaemon(p) PROVE IInv'
  <2>1. [proc[p] EXCEPT !.at = "dial"] \in Process
    BY <1>0 DEF Process
  <2>2. proc' \in [Procs -> Process] /\ Starting'
    BY <1>2, <2>1, ProcessGoesOn DEF StartDaemon, Process
  <2> QED
    BY <1>2, <2>2 DEF IInv, TypeOK, Registered, ServedNot, StartDaemon
<1>3. ASSUME NEW p \in Procs, Dial(p) PROVE IInv'
  <2>1. PICK at \in {"register", "listen"} : proc' = [proc EXCEPT ![p].at = at]
    BY <1>3 DEF Dial
  <2>2. [proc[p] EXCEPT !.at = at] \in Process
    BY <1>0, <2>1 DEF Process
  <2>3. proc' \in [Procs -> Process] /\ Starting'
    BY <2>1, <2>2, ProcessGoesOn DEF Process
  <2> QED
    BY <1>3, <2>3 DEF IInv, TypeOK, Registered, ServedNot, Dial
<1>4. ASSUME NEW p \in Procs, Listen(p) PROVE IInv'
  <2>0. proc[p] \in Process
    BY <1>0
  <2>1. proc' \in [Procs -> Process] /\ Starting'
    <3>1. CASE gateway /\ server = Nobody
      <4>1. [proc[p] EXCEPT !.at = "register"] \in Process
        BY <2>0 DEF Process
      <4> QED
        BY <1>4, <3>1, <4>1, ProcessGoesOn DEF Listen, Process
    <3>2. CASE ~(gateway /\ server = Nobody)
      <4>1. PICK at \in {"listen", "register"} :
               proc' = [proc EXCEPT ![p].tries = @ + 1, ![p].at = at]
        BY <1>4, <3>2 DEF Listen
      <4>2. [proc[p] EXCEPT !.tries = @ + 1, !.at = at] \in Process
        BY <2>0, RetryIsProcess
      <4>3. [proc[p] EXCEPT !.tries = @ + 1, !.at = at].at # "start"
        BY <2>0 DEF Process
      <4>4. proc' = [proc EXCEPT ![p] = [proc[p] EXCEPT !.tries = @ + 1, !.at = at]]
        BY <1>0, <4>1
      <4> QED
        BY <4>2, <4>3, <4>4, ProcessGoesOn
    <3> QED
      BY <3>1, <3>2
  <2>2. server' \in Procs \cup {Nobody}
    BY <1>4 DEF IInv, TypeOK, Listen
  <2>3. UNCHANGED <<gateway, entries, vms, answer>>
    BY <1>4 DEF Listen
  <2> QED
    BY <2>1, <2>2, <2>3 DEF IInv, TypeOK, Registered, ServedNot
<1>5. ASSUME NEW p \in Procs, Register(p) PROVE IInv'
  <2>0. proc[p] \in Process
    BY <1>0
  <2>1. UNCHANGED <<gateway, server, vms, answer>>
    BY <1>5 DEF Register
  <2>2. proc' \in [Procs -> Process] /\ Starting' /\ Registered'
    <3>1. CASE proc[p].guest = Nobody
      <4>1. [proc[p] EXCEPT !.at = "stay"] \in Process
        BY <2>0 DEF Process
      <4> QED
        BY <1>5, <3>1, <4>1, ProcessGoesOn DEF Register, Process, IInv, Registered
    <3>2. CASE proc[p].guest # Nobody
      <4>1. proc[p].guest \in Guests
        BY <2>0, <3>2 DEF Process
      <4>2. [proc[p] EXCEPT !.at = "start"] \in Process
        BY <2>0 DEF Process
      <4>3. [proc[p] EXCEPT !.at = "start"].guest \in Guests
        BY <2>0, <4>1 DEF Process
      <4>4. /\ proc' = [proc EXCEPT ![p] = [proc[p] EXCEPT !.at = "start"]]
            /\ entries' = [entries EXCEPT ![p] = @ \cup {GuestIP(proc[p].guest)}]
        BY <1>5, <3>2 DEF Register
      <4>5. proc' \in [Procs -> Process] /\ Starting'
        BY <4>2, <4>3, <4>4, ProcessGoesOn
      <4>6. Registered'
        BY <4>1, <4>4, EntryIsRegistered DEF IInv
      <4> QED
        BY <4>5, <4>6
    <3> QED
      BY <3>1, <3>2
  <2>3. TypeOK' /\ ServedNot'
    BY <2>1, <2>2, RegisteredAreAddresses DEF IInv, TypeOK, ServedNot
  <2> QED
    BY <2>2, <2>3 DEF IInv
<1>6. ASSUME NEW p \in Procs, StartVM(p) PROVE IInv'
  <2>1. [proc[p] EXCEPT !.at = "stay"] \in Process
    BY <1>0 DEF Process
  <2>2. proc' \in [Procs -> Process] /\ Starting'
    BY <1>6, <2>1, ProcessGoesOn DEF StartVM, Process
  <2>3. UNCHANGED <<gateway, server, answer>>
    BY <1>6 DEF StartVM
  <2>4. Registered'
    BY <1>6 DEF StartVM, IInv, Registered
  <2>5. vms' \subseteq Guests
    <3>1. proc[p].guest \in Guests /\ vms \subseteq Guests
      BY <1>6 DEF StartVM, IInv, TypeOK, Starting
    <3>2. vms' = vms \cup {proc[p].guest} \/ vms' = vms
      BY <1>6 DEF StartVM
    <3> QED
      BY <3>1, <3>2
  <2>6. TypeOK' /\ ServedNot'
    BY <2>2, <2>3, <2>4, <2>5, RegisteredAreAddresses DEF IInv, TypeOK, ServedNot
  <2> QED
    BY <2>2, <2>4, <2>6 DEF IInv
<1>7. ASSUME NEW p \in Procs, Exit(p) PROVE IInv'
  <2>1. Out \in Process
    BY DEF Out, Process
  <2>2. proc' \in [Procs -> Process] /\ Starting'
    BY <1>7, <2>1, ProcessGoesOn DEF Exit, Out
  <2>3. server' \in Procs \cup {Nobody}
    BY <1>7 DEF Exit, IInv, TypeOK
  <2>4. Registered'
    BY <1>7 DEF Exit, IInv, Registered
  <2>5. UNCHANGED <<gateway, vms, answer>>
    BY <1>7 DEF Exit
  <2>6. TypeOK' /\ ServedNot'
    BY <2>2, <2>3, <2>4, <2>5, RegisteredAreAddresses DEF IInv, TypeOK, ServedNot
  <2> QED
    BY <2>2, <2>4, <2>6 DEF IInv
<1>8. ASSUME NEW g \in Guests, Request(g) PROVE IInv'
  <2>1. server \in Procs
    BY <1>8 DEF Request, IInv, TypeOK
  <2>2. SplitHostPort(RemoteAddr(g)) \notin entries[server]
    BY <2>1, BracketsDiffer DEF IInv, Registered
  <2>3. answer' = [answer EXCEPT ![g] = "not found"]
    BY <1>8, <2>2 DEF Request
  <2>4. UNCHANGED <<gateway, server, proc, entries, vms>>
    BY <1>8 DEF Request
  <2> QED
    BY <2>3, <2>4 DEF IInv, TypeOK, Registered, ServedNot, Starting
<1>9. ASSUME NEW g \in Guests, Stop(g) PROVE IInv'
  BY <1>9 DEF Stop, IInv, TypeOK, Registered, ServedNot, Starting
<1>10. CASE UNCHANGED vars
  BY <1>10 DEF vars, IInv, TypeOK, Registered, ServedNot, Starting
<1> QED
  BY <1>1, <1>2, <1>3, <1>4, <1>5, <1>6, <1>7, <1>8, <1>9, <1>10 DEF Next

\* No guest is ever served, whichever process listens and whatever has been
\* registered (registry.go:79): with MetadataIsServed violated by one request,
\* this says that every request goes the same way.
THEOREM NobodyIsServed == Spec => [](TypeOK /\ ServedNot)
<1>1. IInv => TypeOK /\ ServedNot
  BY DEF IInv
<1> QED
  BY <1>1, InitInv, NextInv, PTL DEF Spec
=============================================================================
