----------------------------- MODULE StateStore -----------------------------
(***************************************************************************)
(* internal/state.Store, one SQL statement per step.                       *)
(*                                                                         *)
(* Every umu command is a process with a Store of its own; a Store's mutex *)
(* orders the methods of one process and nothing else.  A method is        *)
(* several autocommitted statements (there is no transaction), so the      *)
(* statements of two processes interleave.  StoreOf says which clients     *)
(* share a Store: one Store for all is a single process with concurrent    *)
(* callers, one Store per client is concurrent umu commands.               *)
(*                                                                         *)
(* Taking the mutex is part of a method's first statement and releasing it *)
(* part of its last.                                                       *)
(***************************************************************************)
EXTENDS ProjectTable

CONSTANTS
    Clients,        \* callers of the store
    Stores,         \* Store values, each with its own mutex
    StoreOf,        \* the Store each client calls
    Nobody,         \* the holder of a free mutex
    NoName,         \* the argument of an idle client
    MayFail,        \* statements that may return an error (SQLITE_BUSY, I/O)
    MaxWrites       \* bound: no Register or Save starts after this many writes

Statements == {"get", "list", "exists", "insert", "rowid", "generation",
               "update", "delete"}

ASSUME StoresAssumption == StoreOf \in [Clients -> Stores]
ASSUME NobodyAssumption == Nobody \notin Clients
ASSUME NoNameAssumption == NoName \notin Names
ASSUME MayFailAssumption == MayFail \subseteq Statements
ASSUME MaxWritesAssumption == MaxWrites \in Nat

VARIABLES
    rows,           \* the projects table
    clock,          \* history: number of writes so far
    mu,             \* the client inside each Store's mutex
    pc,             \* the statement each client executes next
    arg,            \* the project of the method in progress
    pending,        \* p.Generation between Save's SELECT and its UPDATE
    copies,         \* the project copies each client holds
    index,          \* the index the client's last Register returned
    inserted        \* history: the row that Register inserted

vars == <<rows, clock, mu, pc, arg, pending, copies, index, inserted>>

PcValues == {"idle", "insert", "rowid", "reinsert", "update"}

NoIndex == -1

TypeOK ==
    /\ rows \in Tables
    /\ clock \in Nat
    /\ mu \in [Stores -> Clients \cup {Nobody}]
    /\ pc \in [Clients -> PcValues]
    /\ arg \in [Clients -> Names \cup {NoName}]
    /\ \A c \in Clients : pc[c] # "idle" => arg[c] \in Names
    /\ pending \in [Clients -> Nat]
    /\ copies \in [Clients -> [Names -> Copy]]
    /\ index \in [Clients -> Int]
    /\ inserted \in [Clients -> [rowid : Nat, born : Nat]]

Init ==
    /\ rows = [n \in Names |-> Absent]
    /\ clock = 0
    /\ mu = [s \in Stores |-> Nobody]
    /\ pc = [c \in Clients |-> "idle"]
    /\ arg = [c \in Clients |-> NoName]
    /\ pending = [c \in Clients |-> 0]
    /\ copies = [c \in Clients |-> [n \in Names |-> NoCopy]]
    /\ index = [c \in Clients |-> NoIndex]
    /\ inserted = [c \in Clients |-> [rowid |-> 0, born |-> 0]]

-----------------------------------------------------------------------------
(***************************************************************************)
(* The mutex.  A method of one statement needs it free and leaves it free. *)
(***************************************************************************)
Unlocked_Always(c) == TRUE
Unlocked(c) == mu[StoreOf[c]] = Nobody

Enter_ForgetsName(c, n, at) ==
    /\ mu' = [mu EXCEPT ![StoreOf[c]] = c]
    /\ pc' = [pc EXCEPT ![c] = at]
    /\ UNCHANGED arg

\* First statement of a method on n, which goes on at statement `at'.
Enter(c, n, at) ==
    /\ mu' = [mu EXCEPT ![StoreOf[c]] = c]
    /\ pc' = [pc EXCEPT ![c] = at]
    /\ arg' = [arg EXCEPT ![c] = n]

\* Last statement of a method.
Return(c) ==
    /\ mu' = [mu EXCEPT ![StoreOf[c]] = Nobody]
    /\ pc' = [pc EXCEPT ![c] = "idle"]
    /\ arg' = [arg EXCEPT ![c] = NoName]
    /\ pending' = [pending EXCEPT ![c] = 0]

GiveUp(c, n) == copies' = [copies EXCEPT ![c][n] = NoCopy]

calling == <<mu, pc, arg, pending>>

-----------------------------------------------------------------------------
(***************************************************************************)
(* Methods of one statement.                                               *)
(***************************************************************************)

\* Get reports an error of its SELECT as "no such project".
Get(c, n) ==
    /\ Unlocked(c)
    /\ \/ copies' = [copies EXCEPT ![c][n] = CopyOf(rows[n])]
       \/ "get" \in MayFail /\ GiveUp(c, n)
    /\ UNCHANGED <<rows, clock, calling, index, inserted>>

List(c) ==
    /\ Unlocked(c)
    /\ \/ copies' = [copies EXCEPT ![c] = [n \in Names |-> CopyOf(rows[n])]]
       \/ /\ "list" \in MayFail
          /\ copies' = [copies EXCEPT ![c] = [n \in Names |-> NoCopy]]
    /\ UNCHANGED <<rows, clock, calling, index, inserted>>

\* Every command that deletes a project is done with it.
Delete(c, n) ==
    /\ Unlocked(c)
    /\ GiveUp(c, n)
    /\ \/ rows' = [rows EXCEPT ![n] = Absent]
       \/ "delete" \in MayFail /\ UNCHANGED rows
    /\ UNCHANGED <<clock, calling, index, inserted>>

-----------------------------------------------------------------------------
(***************************************************************************)
(* Register: SELECT EXISTS, INSERT, SELECT rowid.                          *)
(***************************************************************************)
RegisterExists(c, n) ==
    /\ Unlocked(c)
    /\ clock < MaxWrites
    /\ \/ /\ ~Present(rows, n)
          /\ Enter(c, n, "insert")
       \/ /\ Present(rows, n) \/ "exists" \in MayFail
          /\ UNCHANGED <<mu, pc, arg>>
    /\ GiveUp(c, n)
    /\ UNCHANGED <<rows, clock, pending, index, inserted>>

\* INSERT OR REPLACE
InsertRow_Replaces(c, n, r) ==
    /\ clock' = clock + 1
    /\ rows' = [rows EXCEPT ![n] = NewRow(r, clock + 1)]
    /\ copies' = [copies EXCEPT ![c][n] = CopyOf(NewRow(r, clock + 1))]

\* insertProject: the primary key refuses a second row of a name.
InsertRow(c, n, r) ==
    /\ ~Present(rows, n)
    /\ clock' = clock + 1
    /\ rows' = [rows EXCEPT ![n] = NewRow(r, clock + 1)]
    /\ copies' = [copies EXCEPT ![c][n] = CopyOf(NewRow(r, clock + 1))]

InsertFails(c) ==
    /\ Present(rows, arg[c]) \/ "insert" \in MayFail
    /\ GiveUp(c, arg[c])
    /\ Return(c)
    /\ UNCHANGED <<rows, clock, index, inserted>>

RegisterInsert(c) ==
    /\ pc[c] = "insert"
    /\ \/ \E r \in NextRowid(rows) :
             /\ InsertRow(c, arg[c], r)
             /\ inserted' = [inserted EXCEPT
                               ![c] = [rowid |-> r, born |-> clock + 1]]
             /\ pc' = [pc EXCEPT ![c] = "rowid"]
             /\ UNCHANGED <<mu, arg, pending, index>>
       \/ InsertFails(c)

\* SELECT rowid FROM projects WHERE name = ?; SELECT max(rowid) would do if
\* nothing else inserted.
SelectRowid_Max(n) == CHOOSE r \in {rows[m].rowid : m \in Names} :
                         \A m \in Names : rows[m].rowid <= r
SelectRowid(n) == rows[n].rowid

\* The error of Scan is dropped: without a row, or without an answer, rowID
\* stays 0 and Register succeeds with index -1.
RegisterRowid(c) ==
    /\ pc[c] = "rowid"
    /\ \E answer \in {SelectRowid(arg[c])}
                     \cup (IF "rowid" \in MayFail THEN {0} ELSE {}) :
          index' = [index EXCEPT ![c] = answer - 1]
    /\ Return(c)
    /\ UNCHANGED <<rows, clock, copies, inserted>>

-----------------------------------------------------------------------------
(***************************************************************************)
(* Save: SELECT generation, then UPDATE, or INSERT when there is no row.   *)
(* A caller whose Save fails does not save that copy again.                *)
(***************************************************************************)
SaveGeneration(c, n) ==
    /\ Unlocked(c)
    /\ Held(copies[c][n])
    /\ clock < MaxWrites
    /\ \/ /\ ~Present(rows, n)
          /\ Enter(c, n, "reinsert")
          /\ UNCHANGED <<pending, copies>>
       \/ /\ Present(rows, n)
          /\ ~Stale(rows[n], copies[c][n])
          /\ Enter(c, n, "update")
          /\ pending' = [pending EXCEPT ![c] = NextGen(rows[n], copies[c][n])]
          /\ UNCHANGED copies
       \/ /\ \/ Present(rows, n) /\ Stale(rows[n], copies[c][n])
             \/ "generation" \in MayFail
          /\ GiveUp(c, n)
          /\ UNCHANGED calling
    /\ UNCHANGED <<rows, clock, index, inserted>>

SaveInsert(c) ==
    /\ pc[c] = "reinsert"
    /\ \/ /\ \E r \in NextRowid(rows) : InsertRow(c, arg[c], r)
          /\ Return(c)
          /\ UNCHANGED <<index, inserted>>
       \/ InsertFails(c)

\* UPDATE ... WHERE name = ?: unconditional, and not an error when it
\* matches no row.
SaveUpdate(c) ==
    /\ pc[c] = "update"
    /\ LET n == arg[c] IN
       \/ /\ clock' = clock + 1
          /\ rows' = [rows EXCEPT ![n] = IF Present(rows, n)
                                         THEN Rewritten(@, pending[c], clock + 1)
                                         ELSE @]
          /\ copies' = [copies EXCEPT
                          ![c][n] = [gen  |-> pending[c],
                                     base |-> clock + 1,
                                     born |-> @.born]]
       \/ /\ "update" \in MayFail
          /\ GiveUp(c, n)
          /\ UNCHANGED <<rows, clock>>
    /\ Return(c)
    /\ UNCHANGED <<index, inserted>>

-----------------------------------------------------------------------------
\* The process of a Store ends, in the middle of a method or not.
Exit(s) ==
    LET here(c) == StoreOf[c] = s IN
    /\ mu' = [mu EXCEPT ![s] = Nobody]
    /\ pc' = [c \in Clients |-> IF here(c) THEN "idle" ELSE pc[c]]
    /\ arg' = [c \in Clients |-> IF here(c) THEN NoName ELSE arg[c]]
    /\ pending' = [c \in Clients |-> IF here(c) THEN 0 ELSE pending[c]]
    /\ copies' = [c \in Clients |-> IF here(c) THEN [n \in Names |-> NoCopy]
                                               ELSE copies[c]]
    /\ index' = [c \in Clients |-> IF here(c) THEN NoIndex ELSE index[c]]
    /\ inserted' = [c \in Clients |-> IF here(c) THEN [rowid |-> 0, born |-> 0]
                                                 ELSE inserted[c]]
    /\ UNCHANGED <<rows, clock>>

Next ==
    \/ \E c \in Clients, n \in Names :
          \/ Get(c, n)
          \/ Delete(c, n)
          \/ RegisterExists(c, n)
          \/ SaveGeneration(c, n)
    \/ \E c \in Clients :
          \/ List(c)
          \/ RegisterInsert(c)
          \/ RegisterRowid(c)
          \/ SaveInsert(c)
          \/ SaveUpdate(c)
    \/ \E s \in Stores : Exit(s)

Spec == Init /\ [][Next]_vars

-----------------------------------------------------------------------------
(***************************************************************************)
(* Properties.                                                             *)
(***************************************************************************)

\* A method in progress is inside the mutex of its Store, so the clients of
\* one Store execute their methods one at a time.
MethodHoldsMutex == \A c \in Clients : pc[c] # "idle" => mu[StoreOf[c]] = c

\* No two projects share a rowid, whatever the processes do: the index, and
\* every address computed from it, belongs to one registered project.
RowidsUnique ==
    \A m, n \in Names : /\ Present(rows, m)
                        /\ rows[m].rowid = rows[n].rowid
                        => m = n

\* A registration is never overwritten by another: a row changes hands only
\* by being deleted first.  Between processes only the primary key does this.
InsertNeverReplaces ==
    [][\A n \in Names : Present(rows, n) /\ Present(rows', n)
                           => rows'[n].born = rows[n].born]_rows

\* Client c's Save rewrites the row of n in this step.
Overwrites(c, n) ==
    /\ pc[c] = "update"
    /\ arg[c] = n
    /\ rows'[n].stamp # rows[n].stamp
    /\ copies'[c][n].base = rows'[n].stamp

\* ErrStaleGeneration (state.go:91) and TestStaleGenerationRejected: a Save
\* that goes through was made from the row's latest contents, as long as the
\* row is still the one the copy was read from.
NoLostUpdate ==
    [][\A c \in Clients, n \in Names :
          Overwrites(c, n) /\ copies[c][n].born = rows[n].born
             => copies[c][n].base = rows[n].stamp]_vars

\* The generation counts the Saves of a registration: each adds one, so it
\* never stands still or falls under a writer's hands.
GenerationCountsSaves ==
    [][\A n \in Names :
          /\ rows'[n].born = rows[n].born
          /\ rows'[n].stamp # rows[n].stamp
          => rows'[n].gen = rows[n].gen + 1]_rows

\* "Register atomically adds a new project and returns its index"
\* (state.go:193): the index is that of the row this call inserted.
RegisterReturnsOwnIndex ==
    \A c \in Clients :
       inserted[c].born # 0 /\ pc[c] # "rowid" => index[c] = inserted[c].rowid - 1

\* The part of that promise that survives other processes: as long as the row
\* is still there, the index its creator works with is the row's own.
OwnIndexWhileRegistered ==
    \A c \in Clients, n \in Names :
       /\ inserted[c].born # 0
       /\ pc[c] # "rowid"
       /\ rows[n].born = inserted[c].born
       => index[c] = rows[n].rowid - 1

\* The index as the caller of a Register sees it: the call is over, for the
\* table and for its caller, once the row is in.
SeenIndex == [c \in Clients |-> IF pc[c] = "rowid" THEN rows[arg[c]].rowid - 1
                                                  ELSE index[c]]

Atomic == INSTANCE AtomicStore WITH index <- SeenIndex

\* Clients of one Store see every method happen in one step.
ImplementsAtomicStore == Atomic!Spec
=============================================================================
