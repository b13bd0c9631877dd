---------------------------- MODULE AtomicStore -----------------------------
(***************************************************************************)
(* What internal/state.Store promises: every method is one step.           *)
(*                                                                         *)
(* Register adds a new project and returns its index; Save writes a copy   *)
(* that is not older than the row, under the next generation; Get and List *)
(* copy rows out; Delete removes a row.  A method that fails leaves the    *)
(* table alone, and its caller gives up its copy.                          *)
(***************************************************************************)
EXTENDS ProjectTable

CONSTANT Clients

VARIABLES rows,         \* the table
          clock,        \* number of writes so far
          copies,       \* what each client holds of each project
          index         \* what each client's last Register returned

vars == <<rows, clock, copies, index>>

NoIndex == -1

Init == /\ rows = [n \in Names |-> Absent]
        /\ clock = 0
        /\ copies = [c \in Clients |-> [n \in Names |-> NoCopy]]
        /\ index = [c \in Clients |-> NoIndex]

Get(c, n) ==
    /\ copies' = [copies EXCEPT ![c][n] = CopyOf(rows[n])]
    /\ UNCHANGED <<rows, clock, index>>

List(c) ==
    /\ copies' = [copies EXCEPT ![c] = [n \in Names |-> CopyOf(rows[n])]]
    /\ UNCHANGED <<rows, clock, index>>

Insert(c, n, r) ==
    /\ ~Present(rows, n)
    /\ clock' = clock + 1
    /\ rows' = [rows EXCEPT ![n] = NewRow(r, clock + 1)]
    /\ copies' = [copies EXCEPT ![c][n] = CopyOf(NewRow(r, clock + 1))]

Register(c, n) ==
    \E r \in NextRowid(rows) : /\ Insert(c, n, r)
                   /\ index' = [index EXCEPT ![c] = r - 1]

\* A held copy that is not stale replaces the contents of the row ...
Update(c, n) ==
    /\ Present(rows, n)
    /\ Held(copies[c][n])
    /\ ~Stale(rows[n], copies[c][n])
    /\ clock' = clock + 1
    /\ rows' = [rows EXCEPT ![n] = Rewritten(@, NextGen(@, copies[c][n]), clock + 1)]
    /\ copies' = [copies EXCEPT ![c][n] = [gen  |-> NextGen(rows[n], @),
                                           base |-> clock + 1,
                                           born |-> @.born]]
    /\ UNCHANGED index

\* ... and is inserted when there is no row.
Reinsert(c, n) ==
    /\ Held(copies[c][n])
    /\ \E r \in NextRowid(rows) : Insert(c, n, r)
    /\ UNCHANGED index

Save(c, n) == Update(c, n) \/ Reinsert(c, n)

Delete(c, n) ==
    /\ rows' = [rows EXCEPT ![n] = Absent]
    /\ copies' = [copies EXCEPT ![c][n] = NoCopy]
    /\ UNCHANGED <<clock, index>>

\* A method that fails: its caller gives up its copies of N.
Fail(c, N) ==
    /\ copies' = [copies EXCEPT ![c] = [n \in Names |-> IF n \in N THEN NoCopy ELSE @[n]]]
    /\ UNCHANGED <<rows, clock, index>>

\* The process that holds these clients ends.
Exit(C) ==
    /\ copies' = [c \in Clients |-> IF c \in C THEN [n \in Names |-> NoCopy]
                                               ELSE copies[c]]
    /\ index' = [c \in Clients |-> IF c \in C THEN NoIndex ELSE index[c]]
    /\ UNCHANGED <<rows, clock>>

Next ==
    \/ \E c \in Clients, n \in Names :
          Get(c, n) \/ Register(c, n) \/ Save(c, n) \/ Delete(c, n) \/ Fail(c, {n})
    \/ \E c \in Clients : List(c) \/ Fail(c, Names)
    \/ \E C \in SUBSET Clients : Exit(C)

Spec == Init /\ [][Next]_vars
=============================================================================
