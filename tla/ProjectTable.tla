---------------------------- MODULE ProjectTable ----------------------------
(***************************************************************************)
(* The projects table of internal/state as data: rows, the in-memory       *)
(* copies of a project that callers hold, and what an INSERT writes.       *)
(*                                                                         *)
(* A row keeps what the concurrency of the store is about.  rowid is       *)
(* SQLite's implicit key, from which every address of a VM is derived; gen *)
(* is the generation column.  born and stamp are history: the number of    *)
(* the write that inserted the row and of the write that last changed it.  *)
(* The other columns are what that last write put there, so a stamp stands *)
(* for a whole contents: status, services_json and the rest.               *)
(***************************************************************************)
EXTENDS Integers, FiniteSets

CONSTANT Names          \* project names, the primary key

Row == [rowid : Nat, gen : Nat, born : Nat, stamp : Nat]

\* No row of that name.  SQLite never gives out rowid 0.
Absent == [rowid |-> 0, gen |-> 0, born |-> 0, stamp |-> 0]

Tables == [Names -> Row]

Present(table, n) == table[n].rowid # 0

\* A caller's copy: the generation it carries, the write it was read from or
\* last saved as, and the insertion of the row it belongs to.
Copy == [gen : Nat, base : Nat, born : Nat]

NoCopy == [gen |-> 0, base |-> 0, born |-> 0]

Held(copy) == copy.base # 0

CopyOf(row) == [gen |-> row.gen, base |-> row.stamp, born |-> row.born]

\* (Definitions named X_Y are X with a mistake Y; no specification uses them.)

\* The rowid of an INSERT without AUTOINCREMENT: one more than the largest
\* in the table, as the set of that one number.  The largest is given out
\* again once its row is deleted.  By count, two live rows can get one number.
NextRowid_ByCount(table) ==
    {Cardinality({n \in Names : Present(table, n)}) + 1}

NextRowid(table) ==
    {table[m].rowid + 1 : m \in {k \in Names :
                                   \A n \in Names : table[n].rowid <= table[k].rowid}}

\* insertProject: the row written as number t.  Both callers pass a project
\* whose generation is, or becomes, 1.
NewRow(r, t) == [rowid |-> r, gen |-> 1, born |-> t, stamp |-> t]

\* Save refuses a copy when the row is at a later generation, and counts on
\* from the generation it reads.
Stale_Never(row, copy) == FALSE
Stale(row, copy) == row.gen > copy.gen

NextGen(row, copy) == row.gen + 1

\* The UPDATE of Save: a new generation and contents, the same row.
Rewritten(row, g, t) == [row EXCEPT !.gen = g, !.stamp = t]
=============================================================================
