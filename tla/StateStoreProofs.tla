-------------------------- MODULE StateStoreProofs --------------------------
(***************************************************************************)
(* Proofs about StateStore.  The first part holds for any number of        *)
(* processes, the second for clients of one Store.                         *)
(***************************************************************************)
EXTENDS StateStore, TLAPS

-----------------------------------------------------------------------------
(***************************************************************************)
(* The operators of ProjectTable.                                          *)
(***************************************************************************)

\* A new rowid is above every rowid in the table.
LEMMA NextRowidFresh ==
    ASSUME NEW table \in Tables, NEW r \in NextRowid(table)
    PROVE  r \in Nat \ {0} /\ \A n \in Names : table[n].rowid < r
BY DEF Tables, Row, NextRowid

\* An INSERT produces a table.
LEMMA NewRowType ==
    ASSUME NEW table \in Tables, NEW r \in NextRowid(table), NEW t \in Nat
    PROVE  NewRow(r, t) \in Row /\ CopyOf(NewRow(r, t)) \in Copy
BY NextRowidFresh DEF NewRow, CopyOf, Row, Copy

\* A copy of a row is a copy.
LEMMA CopyType ==
    ASSUME NEW table \in Tables, NEW n \in Names
    PROVE  CopyOf(table[n]) \in Copy
BY DEF CopyOf, Tables, Row, Copy

\* An UPDATE changes the generation and the contents of a row, and not which
\* row it is.
LEMMA RewrittenType ==
    ASSUME NEW row \in Row, NEW g \in Nat, NEW t \in Nat
    PROVE  /\ Rewritten(row, g, t) \in Row
           /\ Rewritten(row, g, t).rowid = row.rowid
           /\ Rewritten(row, g, t).born = row.born
           /\ Rewritten(row, g, t).gen = g
           /\ Rewritten(row, g, t).stamp = t
BY DEF Rewritten, Row

-----------------------------------------------------------------------------
\* Every variable keeps its type, for every set of names, clients, stores and
\* failing statements.
THEOREM TypeCorrect == Spec => []TypeOK
<1>1. Init => TypeOK
  BY NobodyAssumption, StoresAssumption
     DEF Init, TypeOK, Tables, Row, Absent, Copy, NoCopy, PcValues, NoIndex
<1>2. TypeOK /\ [Next]_vars => TypeOK'
  <2> SUFFICES ASSUME TypeOK, [Next]_vars PROVE TypeOK'
    OBVIOUS
  <2> USE StoresAssumption
  <2> DEFINE NoCopies == [n \in Names |-> NoCopy]
  <2>0. Absent \in Row /\ NoCopy \in Copy /\ NoCopies \in [Names -> Copy]
    BY DEF Absent, Row, NoCopy, Copy
  <2>a. ASSUME NEW c \in Clients, NEW n \in Names, GiveUp(c, n)
        PROVE  copies' \in [Clients -> [Names -> Copy]]
    BY <2>0, <2>a DEF GiveUp, TypeOK
  <2>b. ASSUME NEW c \in Clients, NEW n \in Names, NEW at \in PcValues, Enter(c, n, at)
        PROVE  /\ mu' \in [Stores -> Clients \cup {Nobody}]
               /\ pc' \in [Clients -> PcValues]
               /\ arg' \in [Clients -> Names \cup {NoName}]
               /\ \A d \in Clients : pc'[d] # "idle" => arg'[d] \in Names
    BY <2>b DEF Enter, TypeOK
  <2>1. ASSUME NEW c \in Clients, NEW n \in Names, Get(c, n) PROVE TypeOK'
    <3>1. CopyOf(rows[n]) \in Copy
      BY CopyType DEF TypeOK
    <3>2. copies' \in [Clients -> [Names -> Copy]]
      <4>1. CASE copies' = [copies EXCEPT ![c][n] = CopyOf(rows[n])]
        BY <3>1, <4>1 DEF TypeOK
      <4>2. QED
        BY <2>1, <2>a, <4>1 DEF Get
    <3>3. QED
      BY <2>1, <3>2 DEF Get, calling, TypeOK
  <2>2. ASSUME NEW c \in Clients, NEW n \in Names, Delete(c, n) PROVE TypeOK'
    <3>1. copies' \in [Clients -> [Names -> Copy]]
      BY <2>2, <2>a DEF Delete
    <3>2. rows' \in Tables
      BY <2>0, <2>2 DEF Delete, TypeOK, Tables
    <3>3. QED
      BY <2>2, <3>1, <3>2 DEF Delete, calling, TypeOK
  <2>3. ASSUME NEW c \in Clients, NEW n \in Names, RegisterExists(c, n)
        PROVE  TypeOK'
    <3>1. copies' \in [Clients -> [Names -> Copy]]
      BY <2>3, <2>a DEF RegisterExists
    <3>2. CASE Enter(c, n, "insert")
      BY <2>3, <2>b, <3>1, <3>2 DEF RegisterExists, TypeOK, PcValues
    <3>3. CASE UNCHANGED <<mu, pc, arg>>
      BY <2>3, <3>1, <3>3 DEF RegisterExists, TypeOK
    <3>4. QED
      BY <2>3, <3>2, <3>3 DEF RegisterExists
  <2>4. ASSUME NEW c \in Clients, NEW n \in Names, SaveGeneration(c, n)
        PROVE  TypeOK'
    <3>1. NextGen(rows[n], copies[c][n]) \in Nat
      BY DEF NextGen, TypeOK, Tables, Row
    <3>2. CASE Enter(c, n, "reinsert") /\ UNCHANGED <<pending, copies>>
      BY <2>4, <2>b, <3>2 DEF SaveGeneration, TypeOK, PcValues
    <3>3. CASE /\ Enter(c, n, "update")
               /\ pending' = [pending EXCEPT ![c] = NextGen(rows[n], copies[c][n])]
               /\ UNCHANGED copies
      BY <2>4, <2>b, <3>1, <3>3 DEF SaveGeneration, TypeOK, PcValues
    <3>4. CASE GiveUp(c, n) /\ UNCHANGED calling
      <4>1. copies' \in [Clients -> [Names -> Copy]]
        BY <2>a, <3>4
      <4>2. QED
        BY <2>4, <3>4, <4>1 DEF SaveGeneration, calling, TypeOK
    <3>5. QED
      BY <2>4, <3>2, <3>3, <3>4 DEF SaveGeneration
  <2>5. ASSUME NEW c \in Clients, List(c) PROVE TypeOK'
    <3>1. [n \in Names |-> CopyOf(rows[n])] \in [Names -> Copy]
      BY CopyType DEF TypeOK
    <3>2. copies' \in [Clients -> [Names -> Copy]]
      BY <2>0, <2>5, <3>1 DEF List, TypeOK
    <3>3. QED
      BY <2>5, <3>2 DEF List, calling, TypeOK
  <2>6. ASSUME NEW c \in Clients, InsertFails(c), arg[c] \in Names PROVE TypeOK'
    BY <2>0, <2>6 DEF InsertFails, Return, GiveUp, TypeOK, PcValues
  <2>7. ASSUME NEW n \in Names, NEW c \in Clients, NEW r \in NextRowid(rows),
               InsertRow(c, n, r)
        PROVE  /\ rows' \in Tables
               /\ clock' \in Nat
               /\ copies' \in [Clients -> [Names -> Copy]]
    <3>1. clock + 1 \in Nat
      BY DEF TypeOK
    <3>2. QED
      BY <2>7, <3>1, NewRowType DEF InsertRow, TypeOK, Tables
  <2>8. ASSUME NEW c \in Clients, RegisterInsert(c) PROVE TypeOK'
    <3>1. arg[c] \in Names
      BY <2>8 DEF RegisterInsert, TypeOK
    <3>2. ASSUME NEW r \in NextRowid(rows), InsertRow(c, arg[c], r),
                 inserted' = [inserted EXCEPT ![c] = [rowid |-> r, born |-> clock + 1]],
                 pc' = [pc EXCEPT ![c] = "rowid"],
                 UNCHANGED <<mu, arg, pending, index>>
          PROVE  TypeOK'
      <4>1. r \in Nat /\ clock + 1 \in Nat
        BY NextRowidFresh DEF TypeOK
      <4>2. QED
        BY <2>7, <2>8, <3>1, <3>2, <4>1 DEF RegisterInsert, TypeOK, PcValues
    <3>3. QED
      BY <2>6, <2>8, <3>1, <3>2 DEF RegisterInsert
  <2>9. ASSUME NEW c \in Clients, RegisterRowid(c) PROVE TypeOK'
    <3>1. arg[c] \in Names /\ SelectRowid(arg[c]) \in Nat
      BY <2>9 DEF RegisterRowid, SelectRowid, TypeOK, Tables, Row
    <3>2. PICK answer \in Nat : index' = [index EXCEPT ![c] = answer - 1]
      BY <2>9, <3>1 DEF RegisterRowid
    <3>3. index' \in [Clients -> Int]
      BY <3>2 DEF TypeOK
    <3>4. QED
      BY <2>9, <3>3 DEF RegisterRowid, Return, TypeOK, PcValues
  <2>10. ASSUME NEW c \in Clients, SaveInsert(c) PROVE TypeOK'
    <3>1. arg[c] \in Names
      BY <2>10 DEF SaveInsert, TypeOK
    <3>2. ASSUME NEW r \in NextRowid(rows), InsertRow(c, arg[c], r), Return(c),
                 UNCHANGED <<index, inserted>>
          PROVE  TypeOK'
      BY <2>7, <3>1, <3>2 DEF Return, TypeOK, PcValues
    <3>3. QED
      BY <2>6, <2>10, <3>1, <3>2 DEF SaveInsert
  <2>11. ASSUME NEW c \in Clients, SaveUpdate(c) PROVE TypeOK'
    <3>1. arg[c] \in Names /\ clock + 1 \in Nat /\ pending[c] \in Nat
      BY <2>11 DEF SaveUpdate, TypeOK
    <3> DEFINE written == IF Present(rows, arg[c])
                          THEN Rewritten(rows[arg[c]], pending[c], clock + 1)
                          ELSE rows[arg[c]]
    <3>2. written \in Row
      BY <3>1, RewrittenType DEF TypeOK, Tables
    <3>3. rows' \in Tables /\ clock' \in Nat
      <4>1. \/ rows' = [rows EXCEPT ![arg[c]] = written] /\ clock' = clock + 1
            \/ UNCHANGED <<rows, clock>>
        BY <2>11 DEF SaveUpdate
      <4> HIDE DEF written
      <4>2. QED
        BY <3>1, <3>2, <4>1 DEF TypeOK, Tables
    <3>4. copies' \in [Clients -> [Names -> Copy]]
      <4>1. CASE copies' = [copies EXCEPT ![c][arg[c]] = [gen  |-> pending[c],
                                                          base |-> clock + 1,
                                                          born |-> @.born]]
        BY <3>1, <4>1 DEF TypeOK, Copy
      <4>2. QED
        BY <2>11, <2>a, <3>1, <4>1 DEF SaveUpdate
    <3>5. QED
      BY <2>11, <3>3, <3>4 DEF SaveUpdate, Return, TypeOK, PcValues
  <2>12. ASSUME NEW s \in Stores, Exit(s) PROVE TypeOK'
    BY <2>0, <2>12 DEF Exit, TypeOK, PcValues, NoIndex
  <2>13. CASE UNCHANGED vars
    BY <2>13 DEF vars, TypeOK
  <2> QED
    BY <2>1, <2>2, <2>3, <2>4, <2>5, <2>8, <2>9, <2>10, <2>11, <2>12, <2>13 DEF Next
<1>3. QED
  BY <1>1, <1>2, PTL DEF Spec

-----------------------------------------------------------------------------
(***************************************************************************)
(* Any number of processes.                                                *)
(***************************************************************************)

\* The three ways in which a step changes the table.
Removes(n) ==
    /\ rows' = [rows EXCEPT ![n] = Absent]
    /\ UNCHANGED clock

Adds(c) ==
    /\ pc[c] \in {"insert", "reinsert"}
    /\ \E r \in NextRowid(rows) : InsertRow(c, arg[c], r)

Writes(c) ==
    /\ pc[c] = "update"
    /\ clock' = clock + 1
    /\ rows' = [rows EXCEPT ![arg[c]] = IF Present(rows, arg[c])
                                        THEN Rewritten(@, pending[c], clock + 1)
                                        ELSE @]

LEMMA RowChanges ==
    ASSUME [Next]_vars
    PROVE  \/ UNCHANGED <<rows, clock>>
           \/ \E n \in Names : Removes(n)
           \/ \E c \in Clients : Adds(c)
           \/ \E c \in Clients : Writes(c)
<1>1. ASSUME NEW c \in Clients, NEW n \in Names,
             Get(c, n) \/ RegisterExists(c, n) \/ SaveGeneration(c, n)
      PROVE  UNCHANGED <<rows, clock>>
  BY <1>1 DEF Get, RegisterExists, SaveGeneration
<1>2. ASSUME NEW c \in Clients, NEW n \in Names, Delete(c, n)
      PROVE  Removes(n) \/ UNCHANGED <<rows, clock>>
  BY <1>2 DEF Delete, Removes
<1>3. ASSUME NEW c \in Clients, List(c) \/ RegisterRowid(c)
      PROVE  UNCHANGED <<rows, clock>>
  BY <1>3 DEF List, RegisterRowid
<1>4. ASSUME NEW c \in Clients, RegisterInsert(c) \/ SaveInsert(c)
      PROVE  Adds(c) \/ UNCHANGED <<rows, clock>>
  BY <1>4 DEF RegisterInsert, SaveInsert, InsertFails, Adds
<1>5. ASSUME NEW c \in Clients, SaveUpdate(c)
      PROVE  Writes(c) \/ UNCHANGED <<rows, clock>>
  BY <1>5 DEF SaveUpdate, Writes
<1>6. ASSUME NEW s \in Stores, Exit(s) PROVE UNCHANGED <<rows, clock>>
  BY <1>6 DEF Exit
<1> QED
  BY <1>1, <1>2, <1>3, <1>4, <1>5, <1>6 DEF Next, vars

\* Every method in progress is inside its Store's mutex.
THEOREM MutexHeld == Spec => []MethodHoldsMutex
<1>1. Init => MethodHoldsMutex
  BY DEF Init, MethodHoldsMutex
<1>2. TypeOK /\ MethodHoldsMutex /\ [Next]_vars => MethodHoldsMutex'
  <2> SUFFICES ASSUME TypeOK, MethodHoldsMutex, [Next]_vars,
                      NEW d \in Clients, pc'[d] # "idle"
               PROVE  mu'[StoreOf[d]] = d
    BY DEF MethodHoldsMutex
  <2> USE StoresAssumption, NobodyAssumption DEF TypeOK
  <2>1. ASSUME NEW c \in Clients, NEW n \in Names, NEW at \in PcValues,
               Unlocked(c), Enter(c, n, at)
        PROVE  mu'[StoreOf[d]] = d
    BY <2>1 DEF Unlocked, Enter, MethodHoldsMutex
  <2>2. ASSUME NEW c \in Clients, pc[c] # "idle", Return(c)
        PROVE  mu'[StoreOf[d]] = d
    BY <2>2 DEF Return, MethodHoldsMutex
  <2>3. CASE UNCHANGED <<mu, pc>>
    BY <2>3 DEF MethodHoldsMutex
  <2>4. ASSUME NEW c \in Clients, NEW n \in Names,
               Get(c, n) \/ Delete(c, n) \/ RegisterExists(c, n) \/ SaveGeneration(c, n)
        PROVE  mu'[StoreOf[d]] = d
    BY <2>1, <2>3, <2>4
       DEF Get, Delete, RegisterExists, SaveGeneration, calling, PcValues
  <2>5. ASSUME NEW c \in Clients, List(c)
        PROVE  mu'[StoreOf[d]] = d
    BY <2>3, <2>5 DEF List, calling
  <2>6. ASSUME NEW c \in Clients, RegisterInsert(c)
        PROVE  mu'[StoreOf[d]] = d
    <3>1. CASE InsertFails(c)
      BY <2>2, <2>6, <3>1 DEF RegisterInsert, InsertFails
    <3>2. CASE pc' = [pc EXCEPT ![c] = "rowid"] /\ UNCHANGED mu
      BY <2>6, <3>2 DEF RegisterInsert, MethodHoldsMutex
    <3>3. QED
      BY <2>6, <3>1, <3>2 DEF RegisterInsert
  <2>7. ASSUME NEW c \in Clients, RegisterRowid(c) \/ SaveInsert(c) \/ SaveUpdate(c)
        PROVE  mu'[StoreOf[d]] = d
    BY <2>2, <2>7 DEF RegisterRowid, SaveInsert, SaveUpdate, InsertFails
  <2>8. ASSUME NEW s \in Stores, Exit(s)
        PROVE  mu'[StoreOf[d]] = d
    BY <2>8 DEF Exit, MethodHoldsMutex
  <2> QED
    BY <2>3, <2>4, <2>5, <2>6, <2>7, <2>8 DEF Next, vars
<1>3. QED
  BY <1>1, <1>2, TypeCorrect, PTL DEF Spec

\* No two registered projects share a rowid, under any interleaving of any
\* number of processes: the index that deploy, clone and load compute every
\* address from identifies one row.
THEOREM RowidsDistinct == Spec => []RowidsUnique
<1>1. Init => RowidsUnique
  BY DEF Init, RowidsUnique, Present, Absent
<1>2. TypeOK /\ RowidsUnique /\ [Next]_vars => RowidsUnique'
  <2> SUFFICES ASSUME TypeOK, RowidsUnique, [Next]_vars,
                      NEW m \in Names, NEW n \in Names,
                      Present(rows', m), rows'[m].rowid = rows'[n].rowid
               PROVE  m = n
    BY DEF RowidsUnique, Present
  <2>1. CASE UNCHANGED <<rows, clock>>
    BY <2>1 DEF RowidsUnique, Present
  <2>2. ASSUME NEW k \in Names, Removes(k) PROVE m = n
    BY <2>2 DEF Removes, RowidsUnique, Present, Absent, TypeOK, Tables
  <2>3. ASSUME NEW c \in Clients, Adds(c) PROVE m = n
    <3>1. PICK r \in NextRowid(rows) : InsertRow(c, arg[c], r)
      BY <2>3 DEF Adds
    <3>2. r \in Nat \ {0} /\ \A k \in Names : rows[k].rowid < r
      BY NextRowidFresh DEF TypeOK
    <3>3. arg[c] \in Names /\ \A k \in Names : rows[k] \in Row
      BY <2>3 DEF Adds, TypeOK, Tables
    <3>4. \A k \in Names : rows'[k].rowid = IF k = arg[c] THEN r ELSE rows[k].rowid
      BY <3>1, <3>3 DEF InsertRow, NewRow, TypeOK, Tables
    <3>5. QED
      BY <3>2, <3>3, <3>4 DEF RowidsUnique, Present, Row
  <2>4. ASSUME NEW c \in Clients, Writes(c) PROVE m = n
    <3>1. /\ arg[c] \in Names
          /\ rows[arg[c]] \in Row
          /\ pending[c] \in Nat
          /\ clock + 1 \in Nat
      BY <2>4 DEF Writes, TypeOK, Tables
    <3>2. Rewritten(rows[arg[c]], pending[c], clock + 1).rowid = rows[arg[c]].rowid
      BY <3>1 DEF Rewritten, Row
    <3>3. \A k \in Names : rows'[k].rowid = rows[k].rowid
      BY <2>4, <3>1, <3>2 DEF Writes, TypeOK, Tables
    <3>4. QED
      BY <3>3 DEF RowidsUnique, Present
  <2> QED
    BY <2>1, <2>2, <2>3, <2>4, RowChanges
<1>3. QED
  BY <1>1, <1>2, TypeCorrect, PTL DEF Spec

\* A registered project is never overwritten by another registration.
THEOREM NoInsertReplaces == Spec => InsertNeverReplaces
<1>1. ASSUME TypeOK, [Next]_vars, NEW n \in Names,
             Present(rows, n), Present(rows', n)
      PROVE  rows'[n].born = rows[n].born
  <2>1. CASE UNCHANGED <<rows, clock>>
    BY <2>1
  <2>2. ASSUME NEW k \in Names, Removes(k) PROVE rows'[n].born = rows[n].born
    BY <1>1, <2>2 DEF Removes, Present, Absent, TypeOK, Tables
  <2>3. ASSUME NEW c \in Clients, Adds(c) PROVE rows'[n].born = rows[n].born
    BY <1>1, <2>3 DEF Adds, InsertRow, TypeOK, Tables
  <2>4. ASSUME NEW c \in Clients, Writes(c) PROVE rows'[n].born = rows[n].born
    <3>1. /\ arg[c] \in Names
          /\ rows[arg[c]] \in Row
          /\ pending[c] \in Nat
          /\ clock + 1 \in Nat
      BY <1>1, <2>4 DEF Writes, TypeOK, Tables
    <3>2. Rewritten(rows[arg[c]], pending[c], clock + 1).born = rows[arg[c]].born
      BY <3>1 DEF Rewritten, Row
    <3>3. QED
      BY <1>1, <2>4, <3>1, <3>2 DEF Writes, TypeOK, Tables
  <2> QED
    BY <1>1, <2>1, <2>2, <2>3, <2>4, RowChanges
<1>2. TypeOK /\ [Next]_vars =>
        [\A n \in Names : Present(rows, n) /\ Present(rows', n)
                            => rows'[n].born = rows[n].born]_rows
  BY <1>1
<1>3. QED
  BY <1>2, TypeCorrect, PTL DEF Spec, InsertNeverReplaces

LEMMA UnlockedIdle ==
    ASSUME MethodHoldsMutex, NEW c \in Clients, Unlocked(c)
    PROVE  pc[c] = "idle"
BY NobodyAssumption DEF MethodHoldsMutex, Unlocked

\* Insertions are numbered as they happen, so born names one registration for
\* good: a client's registration is the row it goes on to ask the rowid of, or
\* the row whose rowid it has been told, or gone.
Registrations ==
    /\ \A n \in Names : rows[n].born <= clock
    /\ \A m, n \in Names : rows[m].born # 0 /\ rows[m].born = rows[n].born => m = n
    /\ \A c \in Clients :
          /\ inserted[c].born <= clock
          /\ pc[c] = "rowid" => inserted[c].born # 0
    /\ \A c \in Clients, n \in Names :
          inserted[c].born # 0 /\ rows[n].born = inserted[c].born
             => IF pc[c] = "rowid" THEN arg[c] = n ELSE index[c] = rows[n].rowid - 1

\* A step leaves it to a row which registration it is, deletes it, or inserts
\* it as the latest registration.
LEMMA RegistrationChanges ==
    ASSUME TypeOK, [Next]_vars, NEW n \in Names
    PROVE  \/ /\ rows'[n].born = rows[n].born /\ rows'[n].rowid = rows[n].rowid
              /\ clock' \in {clock, clock + 1}
           \/ rows'[n] = Absent /\ clock' = clock
           \/ /\ rows'[n].born = clock + 1 /\ clock' = clock + 1
              /\ \E c \in Clients : Adds(c) /\ n = arg[c]
<1>1. ASSUME NEW k \in Names, Removes(k)
      PROVE  (rows'[n] = rows[n] \/ rows'[n] = Absent) /\ clock' = clock
  BY <1>1 DEF Removes, TypeOK, Tables
<1>2. ASSUME NEW c \in Clients, Adds(c)
      PROVE  /\ clock' = clock + 1
             /\ IF n = arg[c] THEN rows'[n].born = clock + 1 ELSE rows'[n] = rows[n]
  BY <1>2 DEF Adds, InsertRow, NewRow, TypeOK, Tables
<1>3. ASSUME NEW c \in Clients, Writes(c)
      PROVE  /\ clock' = clock + 1
             /\ rows'[n].born = rows[n].born /\ rows'[n].rowid = rows[n].rowid
  <2>1. arg[c] \in Names /\ rows[n] \in Row /\ pending[c] \in Nat /\ clock + 1 \in Nat
    BY <1>3 DEF Writes, TypeOK, Tables
  <2>2. rows'[n] \in {rows[n], Rewritten(rows[n], pending[c], clock + 1)}
    BY <1>3, <2>1 DEF Writes, TypeOK, Tables
  <2>3. QED
    BY <1>3, <2>1, <2>2, RewrittenType DEF Writes
<1>4. QED
  BY <1>1, <1>2, <1>3, RowChanges

LEMMA RegistrationsHold ==
    ASSUME "rowid" \notin MayFail
    PROVE  Spec => []Registrations
<1>1. Init => Registrations
  BY DEF Init, Registrations, Absent
<1>2. TypeOK /\ TypeOK' /\ MethodHoldsMutex /\ Registrations /\ [Next]_vars
      => Registrations'
  <2> SUFFICES ASSUME TypeOK, TypeOK', MethodHoldsMutex, Registrations, [Next]_vars
               PROVE  Registrations'
    OBVIOUS
  <2>1. /\ clock \in Nat /\ clock' \in Nat
        /\ \A n \in Names : rows[n] \in Row /\ rows'[n] \in Row
        /\ \A c \in Clients : inserted[c].born \in Nat
        /\ \A c \in Clients : pc[c] # "idle" => arg[c] \in Names
    BY DEF TypeOK, Tables
  <2> DEFINE Known(c) == /\ inserted[c].born <= clock
                         /\ pc[c] = "rowid" => inserted[c].born # 0
             Told(c, n) ==
                inserted[c].born # 0 /\ rows[n].born = inserted[c].born
                   => IF pc[c] = "rowid" THEN arg[c] = n
                                         ELSE index[c] = rows[n].rowid - 1
             Asks(c) == /\ pc[c] = "insert"
                        /\ inserted'[c].born = clock + 1
                        /\ clock' = clock + 1
                        /\ pc'[c] = "rowid"
                        /\ arg'[c] = arg[c]
                        /\ rows'[arg[c]].born = clock + 1
             IsTold(c) == /\ pc[c] = "rowid" /\ pc'[c] # "rowid"
                          /\ inserted'[c] = inserted[c]
                          /\ index'[c] = rows[arg[c]].rowid - 1
                          /\ rows' = rows /\ clock' = clock
             Waits(c) == /\ UNCHANGED <<inserted[c], index[c]>>
                         /\ pc[c] = "rowid" <=> pc'[c] = "rowid"
                         /\ pc[c] = "rowid" => arg'[c] = arg[c]
             Forgets(c) == inserted'[c].born = 0 /\ pc'[c] = "idle"
  <2>2. ASSUME NEW n \in Names PROVE rows'[n].born <= clock'
    <3>1. rows[n].born <= clock
      BY DEF Registrations
    <3>2. QED
      BY <2>1, <3>1, RegistrationChanges DEF Row, Absent
  <2>3. ASSUME NEW m \in Names, NEW n \in Names,
               rows'[m].born # 0, rows'[m].born = rows'[n].born
        PROVE  m = n
    <3>1. /\ rows[m].born <= clock /\ rows[n].born <= clock
          /\ rows[m].born # 0 /\ rows[m].born = rows[n].born => m = n
      BY DEF Registrations
    <3>2. ASSUME NEW c \in Clients, Adds(c)
          PROVE  m = n
      <4>1. arg[c] \in Names
        BY <2>1, <3>2 DEF Adds
      <4>2. /\ rows'[m].born = IF m = arg[c] THEN clock + 1 ELSE rows[m].born
            /\ rows'[n].born = IF n = arg[c] THEN clock + 1 ELSE rows[n].born
        BY <3>2, <4>1 DEF Adds, InsertRow, NewRow, TypeOK, Tables
      <4>3. /\ clock \in Nat
            /\ rows[m].born \in Nat /\ rows[n].born \in Nat
        BY <2>1 DEF Row
      <4>4. CASE m # arg[c] /\ n # arg[c]
        BY <2>3, <3>1, <4>2, <4>4
      <4>5. CASE m = arg[c] \/ n = arg[c]
        <5>1. rows[m].born < clock + 1 /\ rows[n].born < clock + 1
          BY <3>1, <4>3
        <5>2. m # n => clock + 1 \in {rows[m].born, rows[n].born}
          BY <2>3, <4>2, <4>5
        <5>3. QED
          BY <4>3, <5>1, <5>2
      <4>6. QED
        BY <4>4, <4>5
    <3>3. QED
      BY <2>1, <2>3, <3>1, <3>2, RegistrationChanges DEF Row, Absent
  <2>4. ASSUME NEW c \in Clients
        PROVE  Waits(c) \/ Asks(c) \/ IsTold(c) \/ Forgets(c)
    <3>1. ASSUME NEW d \in Clients, NEW n \in Names,
                 Get(d, n) \/ Delete(d, n) \/ RegisterExists(d, n) \/ SaveGeneration(d, n)
          PROVE  Waits(c)
      <4>1. pc[d] = "idle"
        BY <3>1, UnlockedIdle DEF Get, Delete, RegisterExists, SaveGeneration
      <4>2. /\ UNCHANGED <<inserted, index>>
            /\ \/ UNCHANGED <<pc, arg>>
               \/ \E at \in {"insert", "reinsert", "update"} : Enter(d, n, at)
        BY <3>1 DEF Get, Delete, RegisterExists, SaveGeneration, calling
      <4>3. QED
        BY <4>1, <4>2 DEF Enter, TypeOK
    <3>2. ASSUME NEW d \in Clients, List(d) PROVE Waits(c)
      BY <3>2 DEF List, calling
    <3>3. ASSUME NEW d \in Clients, pc[d] \in {"insert", "reinsert", "update"},
                 Return(d), UNCHANGED <<index, inserted>>
          PROVE  Waits(c)
      BY <3>3 DEF Return, TypeOK
    <3>4. ASSUME NEW d \in Clients, RegisterInsert(d) PROVE Waits(c) \/ Asks(c)
      <4>1. CASE InsertFails(d)
        BY <3>3, <3>4, <4>1 DEF RegisterInsert, InsertFails
      <4>2. CASE ~InsertFails(d)
        <5>1. PICK r \in NextRowid(rows) :
                 /\ InsertRow(d, arg[d], r)
                 /\ inserted' = [inserted EXCEPT
                                   ![d] = [rowid |-> r, born |-> clock + 1]]
                 /\ pc' = [pc EXCEPT ![d] = "rowid"]
                 /\ UNCHANGED <<mu, arg, pending, index>>
          BY <3>4, <4>2 DEF RegisterInsert
        <5>2. arg[d] \in Names
          BY <2>1, <3>4 DEF RegisterInsert
        <5>3. rows'[arg[d]].born = clock + 1 /\ clock' = clock + 1
          BY <5>1, <5>2 DEF InsertRow, NewRow, TypeOK, Tables
        <5>4. CASE c = d
          BY <3>4, <5>1, <5>3, <5>4 DEF RegisterInsert, TypeOK
        <5>5. CASE c # d
          BY <5>1, <5>5 DEF TypeOK
        <5>6. QED
          BY <5>4, <5>5
      <4>3. QED
        BY <4>1, <4>2
    <3>5. ASSUME NEW d \in Clients, RegisterRowid(d) PROVE Waits(c) \/ IsTold(c)
      <4>1. index' = [index EXCEPT ![d] = rows[arg[d]].rowid - 1]
        BY <3>5, "rowid" \notin MayFail DEF RegisterRowid, SelectRowid
      <4>2. QED
        BY <3>5, <4>1 DEF RegisterRowid, Return, TypeOK
    <3>6. ASSUME NEW d \in Clients, SaveInsert(d) \/ SaveUpdate(d) PROVE Waits(c)
      BY <3>3, <3>6 DEF SaveInsert, SaveUpdate, InsertFails
    <3>7. ASSUME NEW s \in Stores, Exit(s) PROVE Waits(c) \/ Forgets(c)
      BY <3>7 DEF Exit
    <3>8. CASE UNCHANGED vars
      BY <3>8 DEF vars
    <3> QED
      BY <3>1, <3>2, <3>4, <3>5, <3>6, <3>7, <3>8 DEF Next
  <2>5. ASSUME NEW c \in Clients
        PROVE  Known(c)'
    <3>1. Known(c)
      BY DEF Registrations
    <3>2. clock <= clock'
      <4>1. CASE UNCHANGED <<rows, clock>>
        BY <2>1, <4>1
      <4>2. QED
        BY <2>1, <4>1, RowChanges DEF Removes, Adds, Writes, InsertRow
    <3>3. QED
      BY <2>1, <2>4, <3>1, <3>2
  <2>6. ASSUME NEW c \in Clients, NEW n \in Names
        PROVE  Told(c, n)'
    <3>1. Told(c, n) /\ Known(c)
      BY DEF Registrations
    <3>2. CASE Asks(c)
      BY <2>1, <2>3, <3>2
    <3>3. CASE IsTold(c)
      BY <3>1, <3>3
    <3>4. CASE Waits(c)
      BY <2>1, <3>1, <3>4, RegistrationChanges DEF Row, Absent
    <3>5. QED
      BY <2>4, <3>2, <3>3, <3>4
  <2>7. QED
    BY <2>2, <2>3, <2>5, <2>6 DEF Registrations
<1>3. QED
  BY <1>1, <1>2, TypeCorrect, MutexHeld, PTL DEF Spec

\* "Register atomically adds a new project and returns its index"
\* (state.go:193), for any number of processes: the row may be deleted before
\* the SELECT of its rowid or at any time after it, and the name registered
\* again, but the creator of a row that is still there has its index.
THEOREM IndexIsOwn ==
    ASSUME "rowid" \notin MayFail
    PROVE  Spec => []OwnIndexWhileRegistered
<1>1. Registrations => OwnIndexWhileRegistered
  BY DEF Registrations, OwnIndexWhileRegistered
<1>2. QED
  BY <1>1, RegistrationsHold, PTL

-----------------------------------------------------------------------------
(***************************************************************************)
(* Clients of one Store.  The mutex gives each method the table to itself  *)
(* between its statements, so what it read is still so when it writes      *)
(* (Window).  For the copies that callers keep between methods there is no *)
(* lock; there the generation does the work: a copy of the same row that   *)
(* is not behind it in generation holds its latest contents (CopiesInOrder). *)
(***************************************************************************)
OneStoreShared == \A c, d \in Clients : StoreOf[c] = StoreOf[d]

Window ==
    \A c \in Clients :
       /\ pc[c] \in {"insert", "reinsert"} => ~Present(rows, arg[c])
       /\ pc[c] \in {"reinsert", "update"} => Held(copies[c][arg[c]])
       /\ pc[c] = "rowid" => /\ Present(rows, arg[c])
                            /\ rows[arg[c]].rowid = inserted[c].rowid
       /\ pc[c] = "update" => /\ Present(rows, arg[c])
                             /\ ~Stale(rows[arg[c]], copies[c][arg[c]])
                             /\ pending[c] = rows[arg[c]].gen + 1

\* Writes are numbered as they happen, and of two copies of one registration
\* the one with the later contents has the larger generation.
CopiesInOrder ==
    /\ \A n \in Names : /\ rows[n].born <= clock /\ rows[n].stamp <= clock
                        /\ rows[n] = Absent \/ rows[n].born # 0
    /\ \A c \in Clients, n \in Names :
          /\ copies[c][n].born <= clock
          /\ Held(copies[c][n]) /\ Present(rows, n) /\ copies[c][n].born = rows[n].born
             => /\ copies[c][n].gen <= rows[n].gen
                /\ copies[c][n].gen = rows[n].gen => copies[c][n].base = rows[n].stamp

\* Inside one Store's mutex there is one client.
LEMMA OneInside ==
    ASSUME OneStoreShared, MethodHoldsMutex, TypeOK, NEW c \in Clients,
           pc[c] # "idle" \/ Unlocked(c)
    PROVE  \A d \in Clients : d # c => pc[d] = "idle"
BY NobodyAssumption DEF OneStoreShared, MethodHoldsMutex, Unlocked

\* What a client read under the mutex still holds at its next statement.
LEMMA WindowHolds ==
    ASSUME OneStoreShared
    PROVE  Spec => []Window
<1>1. Init => Window
  BY DEF Init, Window
<1>2. TypeOK /\ MethodHoldsMutex /\ Window /\ [Next]_vars => Window'
  <2> SUFFICES ASSUME TypeOK, MethodHoldsMutex, Window, [Next]_vars
               PROVE  Window'
    OBVIOUS
  <2>1. ASSUME \A d \in Clients : pc'[d] = "idle" PROVE Window'
    BY <2>1 DEF Window
  <2>2. ASSUME NEW c \in Clients, pc[c] # "idle", Return(c) PROVE Window'
    BY <2>1, <2>2, OneInside DEF Return, TypeOK
  <2>3. ASSUME NEW c \in Clients, Unlocked(c), UNCHANGED pc PROVE Window'
    BY <2>1, <2>3, OneInside, UnlockedIdle
  <2>4. ASSUME NEW c \in Clients, NEW n \in Names,
               Get(c, n) \/ Delete(c, n)
        PROVE  Window'
    BY <2>3, <2>4 DEF Get, Delete, calling
  <2>4a. ASSUME NEW c \in Clients, List(c) PROVE Window'
    BY <2>3, <2>4a DEF List, calling
  <2>5. ASSUME NEW c \in Clients, NEW n \in Names, RegisterExists(c, n)
        PROVE  Window'
    <3>1. CASE ~Present(rows, n) /\ Enter(c, n, "insert")
      <4>1. \A d \in Clients : d # c => pc'[d] = "idle"
        BY <2>5, <3>1, OneInside DEF RegisterExists, Enter, TypeOK
      <4>2. pc'[c] = "insert" /\ arg'[c] = n /\ rows' = rows
        BY <2>5, <3>1 DEF RegisterExists, Enter, TypeOK
      <4>3. QED
        BY <3>1, <4>1, <4>2 DEF Window, Present
    <3>2. QED
      BY <2>3, <2>5, <3>1 DEF RegisterExists
  <2>6. ASSUME NEW c \in Clients, NEW n \in Names, SaveGeneration(c, n)
        PROVE  Window'
    <3>1. ASSUME NEW at \in PcValues, Enter(c, n, at)
          PROVE  /\ \A d \in Clients : d # c => pc'[d] = "idle"
                 /\ pc'[c] = at /\ arg'[c] = n /\ rows' = rows
      BY <2>6, <3>1, OneInside DEF SaveGeneration, Enter, TypeOK
    <3>2. CASE /\ ~Present(rows, n)
               /\ Enter(c, n, "reinsert")
               /\ UNCHANGED <<pending, copies>>
      BY <2>6, <3>1, <3>2 DEF SaveGeneration, Window, Present, PcValues
    <3>3. CASE /\ Present(rows, n)
               /\ ~Stale(rows[n], copies[c][n])
               /\ Enter(c, n, "update")
               /\ pending' = [pending EXCEPT ![c] = NextGen(rows[n], copies[c][n])]
               /\ UNCHANGED copies
      <4>1. pending'[c] = rows[n].gen + 1
        BY <3>3 DEF NextGen, TypeOK
      <4>2. QED
        BY <2>6, <3>1, <3>3, <4>1 DEF SaveGeneration, Window, Present, Stale, PcValues
    <3>4. QED
      BY <2>3, <2>6, <3>2, <3>3 DEF SaveGeneration, calling
  <2>7. ASSUME NEW c \in Clients, RegisterInsert(c) PROVE Window'
    <3>1. ASSUME NEW r \in NextRowid(rows), InsertRow(c, arg[c], r),
                 inserted' = [inserted EXCEPT ![c] = [rowid |-> r, born |-> clock + 1]],
                 pc' = [pc EXCEPT ![c] = "rowid"],
                 UNCHANGED arg
          PROVE  Window'
      <4>1. arg[c] \in Names /\ r \in Nat \ {0}
        BY <2>7, NextRowidFresh DEF RegisterInsert, TypeOK
      <4>2. \A d \in Clients : d # c => pc'[d] = "idle"
        BY <2>7, <3>1, OneInside DEF RegisterInsert, TypeOK
      <4>3. /\ pc'[c] = "rowid" /\ arg'[c] = arg[c]
            /\ rows'[arg[c]].rowid = r /\ inserted'[c].rowid = r
        BY <3>1, <4>1 DEF InsertRow, NewRow, TypeOK, Tables
      <4>4. QED
        BY <4>1, <4>2, <4>3 DEF Window, Present
    <3>2. QED
      BY <2>2, <2>7, <3>1 DEF RegisterInsert, InsertFails
  <2>8. ASSUME NEW c \in Clients, RegisterRowid(c) \/ SaveInsert(c) \/ SaveUpdate(c)
        PROVE  Window'
    BY <2>2, <2>8 DEF RegisterRowid, SaveInsert, SaveUpdate, InsertFails
  <2>9. ASSUME NEW s \in Stores, Exit(s) PROVE Window'
    BY <2>9 DEF Exit, Window
  <2>10. CASE UNCHANGED vars
    BY <2>10 DEF vars, Window, Present, Held, Stale
  <2> QED
    BY <2>4, <2>4a, <2>5, <2>6, <2>7, <2>8, <2>9, <2>10 DEF Next
<1>3. QED
  BY <1>1, <1>2, TypeCorrect, MutexHeld, PTL DEF Spec

\* The refinement: every step of StateStore is a step of AtomicStore, or none.
GaveUp(c, n) == GiveUp(c, n) /\ UNCHANGED <<rows, clock, SeenIndex>>

\* Both specifications speak of the same table.
LEMMA SameTable ==
    /\ Atomic!Absent = Absent /\ Atomic!NoCopy = NoCopy /\ Atomic!NoIndex = NoIndex
    /\ \A table : Atomic!NextRowid(table) = NextRowid(table)
    /\ \A table, n : Atomic!Present(table, n) = Present(table, n)
    /\ \A row : Atomic!CopyOf(row) = CopyOf(row)
    /\ \A copy : Atomic!Held(copy) = Held(copy)
    /\ \A row, copy : /\ Atomic!Stale(row, copy) = Stale(row, copy)
                      /\ Atomic!NextGen(row, copy) = NextGen(row, copy)
    /\ \A r, t : Atomic!NewRow(r, t) = NewRow(r, t)
    /\ \A row, g, t : Atomic!Rewritten(row, g, t) = Rewritten(row, g, t)
BY DEF Atomic!Absent, Atomic!NoCopy, Atomic!NoIndex, Atomic!NextRowid, Atomic!Present,
       Atomic!CopyOf, Atomic!Held, Atomic!Stale, Atomic!NextGen, Atomic!NewRow,
       Atomic!Rewritten, Absent, NoCopy, NoIndex, NextRowid, Present, CopyOf, Held,
       Stale, NextGen, NewRow, Rewritten

LEMMA GaveUpFails ==
    ASSUME TypeOK, NEW c \in Clients, NEW n \in Names, GaveUp(c, n)
    PROVE  Atomic!Fail(c, {n})
<1>1. [copies EXCEPT ![c] = [m \in Names |-> IF m \in {n} THEN NoCopy ELSE @[m]]]
        = [copies EXCEPT ![c][n] = NoCopy]
  BY DEF TypeOK
<1>2. QED
  BY <1>1, SameTable DEF GaveUp, GiveUp, Atomic!Fail

\* "Register atomically adds a new project and returns its index": to clients
\* of one Store, with no failing SELECT rowid, every method of the store is one
\* atomic step.
THEOREM OneStoreIsAtomic ==
    ASSUME OneStoreShared, "rowid" \notin MayFail
    PROVE  Spec => ImplementsAtomicStore
<1>1. Init => Atomic!Init
  BY SameTable DEF Init, Atomic!Init, SeenIndex
<1>2. TypeOK /\ TypeOK' /\ MethodHoldsMutex /\ Window /\ [Next]_vars
         => [Atomic!Next]_Atomic!vars
  <2> SUFFICES ASSUME TypeOK, TypeOK', MethodHoldsMutex, Window, [Next]_vars
               PROVE  Atomic!Next \/ UNCHANGED <<rows, clock, copies, SeenIndex>>
    BY DEF Atomic!vars
  <2>1. ASSUME UNCHANGED <<rows, pc, arg, index>> PROVE UNCHANGED SeenIndex
    BY <2>1 DEF SeenIndex
  <2>2. ASSUME NEW c \in Clients, NEW n \in Names, Get(c, n)
        PROVE  Atomic!Next
    <3>1. UNCHANGED <<rows, clock, SeenIndex>>
      BY <2>1, <2>2 DEF Get, calling
    <3>2. CASE GiveUp(c, n)
      BY <3>1, <3>2, GaveUpFails DEF GaveUp, Atomic!Next
    <3>3. QED
      BY <2>2, <3>1, <3>2, SameTable DEF Get, Atomic!Get, Atomic!Next
  <2>3. ASSUME NEW c \in Clients, NEW n \in Names, Delete(c, n)
        PROVE  Atomic!Next
    <3>1. \A d \in Clients : pc[d] = "idle"
      BY <2>3, OneInside, UnlockedIdle DEF Delete
    <3>2. UNCHANGED SeenIndex
      BY <2>3, <3>1 DEF Delete, calling, SeenIndex
    <3>3. CASE rows' = [rows EXCEPT ![n] = Absent]
      BY <2>3, <3>2, <3>3, SameTable DEF Delete, GiveUp, Atomic!Delete, Atomic!Next
    <3>4. CASE UNCHANGED rows
      BY <2>3, <3>2, <3>4, GaveUpFails DEF Delete, GaveUp, Atomic!Next
    <3>5. QED
      BY <2>3, <3>3, <3>4 DEF Delete
  <2>4. ASSUME NEW c \in Clients, NEW n \in Names, RegisterExists(c, n)
        PROVE  Atomic!Next
    <3>1. UNCHANGED SeenIndex
      <4>1. \A d \in Clients : pc[d] # "rowid" /\ pc'[d] # "rowid"
        BY <2>4, OneInside, UnlockedIdle DEF RegisterExists, Enter, TypeOK, PcValues
      <4>2. QED
        BY <2>4, <4>1 DEF RegisterExists, SeenIndex
    <3>2. QED
      BY <2>4, <3>1, GaveUpFails DEF RegisterExists, GaveUp, Atomic!Next
  <2>5. ASSUME NEW c \in Clients, NEW n \in Names, SaveGeneration(c, n)
        PROVE  Atomic!Next \/ UNCHANGED <<rows, clock, copies, SeenIndex>>
    <3>1. UNCHANGED SeenIndex
      <4>1. \A d \in Clients : pc[d] # "rowid" /\ pc'[d] # "rowid"
        BY <2>5, OneInside, UnlockedIdle DEF SaveGeneration, Enter, calling, TypeOK
      <4>2. QED
        BY <2>5, <4>1 DEF SaveGeneration, SeenIndex
    <3>2. QED
      BY <2>5, <3>1, GaveUpFails DEF SaveGeneration, GaveUp, Atomic!Next
  <2>6. ASSUME NEW c \in Clients, List(c) PROVE Atomic!Next
    <3>1. UNCHANGED <<rows, clock, SeenIndex>>
      BY <2>1, <2>6 DEF List, calling
    <3>2. CASE copies' = [copies EXCEPT ![c] = [n \in Names |-> CopyOf(rows[n])]]
      BY <3>1, <3>2, SameTable DEF Atomic!List, Atomic!Next
    <3>3. CASE copies' = [copies EXCEPT ![c] = [n \in Names |-> NoCopy]]
      BY <3>1, <3>3, SameTable DEF Atomic!Fail, Atomic!Next
    <3>4. QED
      BY <2>6, <3>2, <3>3 DEF List
  <2>7. ASSUME NEW c \in Clients, pc[c] \in {"insert", "reinsert", "update"}, Return(c)
        PROVE  \A d \in Clients : pc[d] # "rowid" /\ pc'[d] # "rowid"
    BY <2>7, OneInside DEF Return, TypeOK
  <2>8. ASSUME NEW c \in Clients, pc[c] \in {"insert", "reinsert"}, InsertFails(c)
        PROVE  Atomic!Next
    <3>1. UNCHANGED SeenIndex
      BY <2>7, <2>8 DEF InsertFails, SeenIndex
    <3>2. QED
      BY <2>8, <3>1, GaveUpFails DEF InsertFails, GaveUp, Atomic!Next, TypeOK
  <2>9. ASSUME NEW c \in Clients, RegisterInsert(c) PROVE Atomic!Next
    <3>1. ASSUME NEW r \in NextRowid(rows), InsertRow(c, arg[c], r),
                 pc' = [pc EXCEPT ![c] = "rowid"],
                 UNCHANGED <<arg, index>>
          PROVE  Atomic!Next
      <4>1. arg[c] \in Names /\ \A d \in Clients : pc[d] # "rowid"
        BY <2>9, OneInside DEF RegisterInsert, TypeOK
      <4>2. rows'[arg[c]].rowid = r
        BY <3>1, <4>1 DEF InsertRow, NewRow, TypeOK, Tables
      <4>3. SeenIndex' = [SeenIndex EXCEPT ![c] = r - 1]
        BY <3>1, <4>1, <4>2 DEF SeenIndex, TypeOK
      <4>4. QED
        BY <3>1, <4>1, <4>3, SameTable
           DEF InsertRow, Atomic!Insert, Atomic!Register, Atomic!Next
    <3>2. QED
      BY <2>8, <2>9, <3>1 DEF RegisterInsert
  <2>10. ASSUME NEW c \in Clients, SaveInsert(c) PROVE Atomic!Next
    <3>1. ASSUME NEW r \in NextRowid(rows), InsertRow(c, arg[c], r), Return(c),
                 UNCHANGED <<index, inserted>>
          PROVE  Atomic!Next
      <4>1. arg[c] \in Names /\ Held(copies[c][arg[c]])
        BY <2>10 DEF SaveInsert, Window, TypeOK
      <4>2. UNCHANGED SeenIndex
        BY <2>7, <2>10, <3>1 DEF SaveInsert, SeenIndex
      <4>3. QED
        BY <3>1, <4>1, <4>2, SameTable
           DEF InsertRow, Atomic!Insert, Atomic!Reinsert, Atomic!Save, Atomic!Next
    <3>2. QED
      BY <2>8, <2>10, <3>1 DEF SaveInsert
  <2>11. ASSUME NEW c \in Clients, SaveUpdate(c) PROVE Atomic!Next
    <3>1. arg[c] \in Names /\ UNCHANGED SeenIndex
      BY <2>7, <2>11 DEF SaveUpdate, SeenIndex, TypeOK
    <3>2. CASE GiveUp(c, arg[c]) /\ UNCHANGED <<rows, clock>>
      BY <3>1, <3>2, GaveUpFails DEF GaveUp, Atomic!Next
    <3>3. CASE /\ clock' = clock + 1
               /\ rows' = [rows EXCEPT ![arg[c]] =
                             IF Present(rows, arg[c])
                             THEN Rewritten(@, pending[c], clock + 1) ELSE @]
               /\ copies' = [copies EXCEPT ![c][arg[c]] = [gen  |-> pending[c],
                                                           base |-> clock + 1,
                                                           born |-> @.born]]
      <4>1. /\ Present(rows, arg[c])
            /\ ~Stale(rows[arg[c]], copies[c][arg[c]])
            /\ Held(copies[c][arg[c]])
            /\ pending[c] = NextGen(rows[arg[c]], copies[c][arg[c]])
        BY <2>11 DEF SaveUpdate, Window, NextGen
      <4>2. Atomic!Update(c, arg[c])
        BY <3>1, <3>3, <4>1, SameTable DEF Atomic!Update
      <4>3. QED
        BY <3>1, <4>2 DEF Atomic!Save, Atomic!Next
    <3>4. QED
      BY <2>11, <3>2, <3>3 DEF SaveUpdate
  <2>12. ASSUME NEW c \in Clients, RegisterRowid(c)
         PROVE  UNCHANGED <<rows, clock, copies, SeenIndex>>
    <3>1. index' = [index EXCEPT ![c] = rows[arg[c]].rowid - 1]
      BY <2>12 DEF RegisterRowid, SelectRowid
    <3>2. \A d \in Clients : d # c => pc[d] = "idle" /\ pc'[d] = "idle"
      BY <2>12, OneInside DEF RegisterRowid, Return, TypeOK
    <3>3. pc[c] = "rowid" /\ pc'[c] = "idle" /\ UNCHANGED <<rows, clock, copies>>
      BY <2>12 DEF RegisterRowid, Return, TypeOK
    <3>4. UNCHANGED SeenIndex
      BY <3>1, <3>2, <3>3 DEF SeenIndex, TypeOK
    <3>5. QED
      BY <3>3, <3>4
  <2>13. ASSUME NEW s \in Stores, Exit(s) PROVE Atomic!Next
    <3> DEFINE C == {c \in Clients : StoreOf[c] = s}
    <3>1. SeenIndex' = [c \in Clients |-> IF c \in C THEN NoIndex ELSE SeenIndex[c]]
      BY <2>13 DEF Exit, SeenIndex, TypeOK
    <3>2. copies' = [c \in Clients |-> IF c \in C THEN [n \in Names |-> NoCopy]
                                                  ELSE copies[c]]
      BY <2>13 DEF Exit
    <3>3. Atomic!Exit(C)
      BY <2>13, <3>1, <3>2, SameTable DEF Exit, Atomic!Exit
    <3>4. QED
      BY <3>3 DEF Atomic!Next
  <2>14. CASE UNCHANGED vars
    BY <2>1, <2>14 DEF vars
  <2> QED
    BY <2>2, <2>3, <2>4, <2>5, <2>6, <2>9, <2>10, <2>11, <2>12, <2>13, <2>14 DEF Next
<1>3. QED
  BY <1>1, <1>2, TypeCorrect, MutexHeld, WindowHolds, PTL
     DEF Spec, ImplementsAtomicStore, Atomic!Spec

\* How a step changes the copies a client holds: it keeps a copy, drops it,
\* reads it from the row, or has just written it.
Keeps(c, n)  == copies'[c][n] = copies[c][n]
Drops(c, n)  == copies'[c][n] = NoCopy
Reads(c, n)  == copies'[c][n] = CopyOf(rows[n]) /\ UNCHANGED <<rows, clock>>
Wrote(c, n)  == /\ arg[c] = n
                /\ \/ Adds(c) /\ copies'[c][n] = CopyOf(rows'[n])
                   \/ /\ Writes(c)
                      /\ copies'[c][n] = [gen  |-> pending[c],
                                         base |-> clock + 1,
                                         born |-> copies[c][n].born]

LEMMA CopyChanges ==
    ASSUME TypeOK, [Next]_vars, NEW c \in Clients, NEW n \in Names
    PROVE  Keeps(c, n) \/ Drops(c, n) \/ Reads(c, n) \/ Wrote(c, n)
<1> USE DEF TypeOK, Keeps, Drops, Reads
<1>1. ASSUME NEW d \in Clients, NEW m \in Names, GiveUp(d, m)
      PROVE  Keeps(c, n) \/ Drops(c, n)
  BY <1>1 DEF GiveUp
<1>2. ASSUME NEW d \in Clients, NEW m \in Names, Get(d, m)
      PROVE  Keeps(c, n) \/ Drops(c, n) \/ Reads(c, n)
  <2>1. CASE copies' = [copies EXCEPT ![d][m] = CopyOf(rows[m])]
    BY <1>2, <2>1 DEF Get
  <2>2. QED
    BY <1>1, <1>2, <2>1 DEF Get
<1>3. ASSUME NEW d \in Clients, NEW m \in Names,
             Delete(d, m) \/ RegisterExists(d, m) \/ SaveGeneration(d, m)
      PROVE  Keeps(c, n) \/ Drops(c, n)
  BY <1>1, <1>3 DEF Delete, RegisterExists, SaveGeneration
<1>4. ASSUME NEW d \in Clients, List(d)
      PROVE  Keeps(c, n) \/ Drops(c, n) \/ Reads(c, n)
  BY <1>4 DEF List
<1>5. ASSUME NEW d \in Clients, RegisterInsert(d) \/ SaveInsert(d)
      PROVE  Keeps(c, n) \/ Drops(c, n) \/ Wrote(c, n)
  <2>1. arg[d] \in Names
    BY <1>5 DEF RegisterInsert, SaveInsert
  <2>2. CASE InsertFails(d)
    BY <1>1, <2>1, <2>2 DEF InsertFails
  <2>3. CASE Adds(d)
    <3>1. PICK r \in NextRowid(rows) : InsertRow(d, arg[d], r)
      BY <2>3 DEF Adds
    <3>2. copies'[c][n] = IF c = d /\ n = arg[d] THEN CopyOf(rows'[n]) ELSE copies[c][n]
      BY <2>1, <3>1 DEF InsertRow, Tables
    <3>3. QED
      BY <2>3, <3>2 DEF Wrote
  <2>4. QED
    BY <1>5, <2>2, <2>3 DEF RegisterInsert, SaveInsert, Adds
<1>6. ASSUME NEW d \in Clients, SaveUpdate(d)
      PROVE  Keeps(c, n) \/ Drops(c, n) \/ Wrote(c, n)
  <2>1. arg[d] \in Names
    BY <1>6 DEF SaveUpdate
  <2>2. CASE GiveUp(d, arg[d])
    BY <1>1, <2>1, <2>2
  <2>3. CASE /\ Writes(d)
             /\ copies' = [copies EXCEPT ![d][arg[d]] = [gen  |-> pending[d],
                                                         base |-> clock + 1,
                                                         born |-> @.born]]
    BY <2>1, <2>3 DEF Wrote
  <2>4. QED
    BY <1>6, <2>2, <2>3 DEF SaveUpdate, Writes
<1>7. ASSUME NEW d \in Clients, RegisterRowid(d) PROVE Keeps(c, n)
  BY <1>7 DEF RegisterRowid
<1>8. ASSUME NEW s \in Stores, Exit(s) PROVE Keeps(c, n) \/ Drops(c, n)
  BY <1>8 DEF Exit
<1>9. CASE UNCHANGED vars
  BY <1>9 DEF vars
<1> QED
  BY <1>2, <1>3, <1>4, <1>5, <1>6, <1>7, <1>8, <1>9 DEF Next

\* The order of the copies, for clients of one Store.
LEMMA CopiesStayInOrder ==
    ASSUME OneStoreShared
    PROVE  Spec => []CopiesInOrder
<1>1. Init => CopiesInOrder
  BY DEF Init, CopiesInOrder, Absent, NoCopy, Held, Present
<1>2. TypeOK /\ TypeOK' /\ Window /\ CopiesInOrder /\ [Next]_vars => CopiesInOrder'
  <2> SUFFICES ASSUME TypeOK, TypeOK', Window, CopiesInOrder, [Next]_vars
               PROVE  CopiesInOrder'
    OBVIOUS
  <2> DEFINE RowInOrder(n) == /\ rows'[n].born <= clock' /\ rows'[n].stamp <= clock'
                              /\ rows'[n] = Absent \/ rows'[n].born # 0
             CopyInOrder(c, n) ==
                /\ copies'[c][n].born <= clock'
                /\ Held(copies'[c][n]) /\ Present(rows', n)
                      /\ copies'[c][n].born = rows'[n].born
                   => /\ copies'[c][n].gen <= rows'[n].gen
                      /\ copies'[c][n].gen = rows'[n].gen
                            => copies'[c][n].base = rows'[n].stamp
  <2>1. ASSUME NEW n \in Names
        PROVE  \/ rows'[n] = rows[n] /\ clock' \in {clock, clock + 1}
               \/ rows'[n] = Absent /\ clock' = clock
               \/ \E r \in NextRowid(rows) : /\ rows'[n] = NewRow(r, clock + 1)
                                             /\ clock' = clock + 1
               \/ /\ Present(rows, n)
                  /\ rows'[n] = Rewritten(rows[n], rows[n].gen + 1, clock + 1)
                  /\ clock' = clock + 1
    <3>1. ASSUME NEW d \in Clients, Adds(d)
          PROVE  /\ clock' = clock + 1
                 /\ \E r \in NextRowid(rows) :
                       rows'[n] = IF n = arg[d] THEN NewRow(r, clock + 1) ELSE rows[n]
      BY <3>1 DEF Adds, InsertRow, TypeOK, Tables
    <3>2. ASSUME NEW d \in Clients, Writes(d)
          PROVE  /\ clock' = clock + 1
                 /\ \/ rows'[n] = rows[n]
                    \/ /\ Present(rows, n)
                       /\ rows'[n] = Rewritten(rows[n], rows[n].gen + 1, clock + 1)
      BY <3>2 DEF Writes, Window, TypeOK, Tables
    <3>3. QED
      BY <3>1, <3>2, RowChanges DEF Removes, TypeOK, Tables
  <2>2. ASSUME NEW n \in Names
        PROVE  rows[n] \in Row /\ rows'[n] \in Row /\ clock \in Nat /\ clock' \in Nat
    BY DEF TypeOK, Tables
  <2>3. ASSUME NEW n \in Names
        PROVE  RowInOrder(n)
    <3>1. /\ rows[n].born <= clock /\ rows[n].stamp <= clock
          /\ rows[n] = Absent \/ rows[n].born # 0
      BY DEF CopiesInOrder
    <3>2. CASE \E r \in NextRowid(rows) : /\ rows'[n] = NewRow(r, clock + 1)
                                          /\ clock' = clock + 1
      BY <2>2, <3>2 DEF NewRow, Row
    <3>3. CASE /\ Present(rows, n)
               /\ rows'[n] = Rewritten(rows[n], rows[n].gen + 1, clock + 1)
               /\ clock' = clock + 1
      <4>1. rows'[n].born = rows[n].born /\ rows'[n].stamp = clock + 1
        BY <2>2, <3>3 DEF Rewritten, Row
      <4>2. rows[n].born # 0
        BY <3>1, <3>3 DEF Present, Absent
      <4>3. QED
        BY <2>2, <3>1, <3>3, <4>1, <4>2 DEF Row
    <3>4. CASE rows'[n] = Absent /\ clock' = clock
      BY <2>2, <3>4 DEF Absent
    <3>5. CASE rows'[n] = rows[n] /\ clock' \in {clock, clock + 1}
      BY <2>2, <3>1, <3>5 DEF Row
    <3>6. QED
      BY <2>1, <3>2, <3>3, <3>4, <3>5
  <2>4. ASSUME NEW c \in Clients, NEW n \in Names
        PROVE  CopyInOrder(c, n)
    <3>1. copies[c][n] \in Copy /\ copies'[c][n] \in Copy
      BY DEF TypeOK
    <3>2. CASE Drops(c, n)
      BY <2>2, <3>2 DEF Drops, NoCopy, Held
    <3>3. CASE Reads(c, n)
      <4>1. copies'[c][n].born = rows'[n].born /\ copies'[c][n].base = rows'[n].stamp
            /\ copies'[c][n].gen = rows'[n].gen
        BY <3>3 DEF Reads, CopyOf
      <4>2. QED
        BY <2>2, <2>3, <4>1 DEF Row
    <3>4. CASE Wrote(c, n) /\ Adds(c) /\ copies'[c][n] = CopyOf(rows'[n])
      <4>1. copies'[c][n].born = rows'[n].born /\ copies'[c][n].base = rows'[n].stamp
            /\ copies'[c][n].gen = rows'[n].gen
        BY <3>4 DEF CopyOf
      <4>2. QED
        BY <2>2, <2>3, <4>1 DEF Row
    <3>5. CASE Keeps(c, n)
      <4>1. /\ copies[c][n].born <= clock
            /\ Held(copies[c][n]) /\ Present(rows, n)
                  /\ copies[c][n].born = rows[n].born
               => /\ copies[c][n].gen <= rows[n].gen
                  /\ copies[c][n].gen = rows[n].gen => copies[c][n].base = rows[n].stamp
        BY DEF CopiesInOrder
      <4>2. CASE \E r \in NextRowid(rows) : /\ rows'[n] = NewRow(r, clock + 1)
                                            /\ clock' = clock + 1
        BY <2>2, <3>1, <3>5, <4>1, <4>2 DEF Keeps, NewRow, Copy
      <4>3. CASE /\ Present(rows, n)
                 /\ rows'[n] = Rewritten(rows[n], rows[n].gen + 1, clock + 1)
                 /\ clock' = clock + 1
        <5>1. rows'[n].gen = rows[n].gen + 1 /\ rows'[n].born = rows[n].born
          BY <2>2, <4>3 DEF Rewritten, Row
        <5>2. QED
          BY <2>2, <3>1, <3>5, <4>1, <4>3, <5>1 DEF Keeps, Row, Copy
      <4>4. CASE rows'[n] = Absent /\ clock' = clock
        BY <2>2, <3>5, <4>1, <4>4 DEF Keeps, Absent, Present
      <4>5. CASE rows'[n] = rows[n] /\ clock' \in {clock, clock + 1}
        BY <2>2, <3>1, <3>5, <4>1, <4>5 DEF Keeps, Present, Copy
      <4>6. QED
        BY <2>1, <4>2, <4>3, <4>4, <4>5
    <3>6. CASE /\ arg[c] = n
               /\ Writes(c)
               /\ copies'[c][n] = [gen  |-> pending[c],
                                  base |-> clock + 1,
                                  born |-> copies[c][n].born]
      <4>1. /\ rows'[n] = Rewritten(rows[n], pending[c], clock + 1)
            /\ clock' = clock + 1
        BY <3>6 DEF Writes, Window, TypeOK, Tables
      <4>2. rows'[n].gen = pending[c] /\ rows'[n].stamp = clock + 1
        BY <2>2, <4>1 DEF Rewritten, Row
      <4>3. copies[c][n].born <= clock
        BY DEF CopiesInOrder
      <4>4. pending[c] \in Nat
        BY DEF TypeOK
      <4>5. QED
        BY <2>2, <3>1, <3>6, <4>1, <4>2, <4>3, <4>4 DEF Copy
    <3>7. QED
      BY <3>2, <3>3, <3>4, <3>5, <3>6, CopyChanges DEF Wrote
  <2>5. QED
    BY <2>3, <2>4 DEF CopiesInOrder, Held, Present
<1>3. QED
  BY <1>1, <1>2, TypeCorrect, WindowHolds, PTL DEF Spec

\* ErrStaleGeneration: among clients of one Store, a Save that goes through was
\* made from the row's latest contents, unless the project was deleted and
\* registered again since the copy was read.
THEOREM OneStoreLosesNoUpdate ==
    ASSUME OneStoreShared
    PROVE  Spec => NoLostUpdate
<1>1. ASSUME TypeOK, Window, CopiesInOrder,
             NEW c \in Clients, NEW n \in Names,
             pc[c] = "update", arg[c] = n, copies[c][n].born = rows[n].born
      PROVE  copies[c][n].base = rows[n].stamp
  <2>1. /\ Present(rows, n) /\ Held(copies[c][n])
        /\ ~Stale(rows[n], copies[c][n])
    BY <1>1 DEF Window
  <2>2. rows[n] \in Row /\ copies[c][n] \in Copy
    BY <1>1 DEF TypeOK, Tables
  <2>3. /\ copies[c][n].gen <= rows[n].gen
        /\ copies[c][n].gen = rows[n].gen => copies[c][n].base = rows[n].stamp
    BY <1>1, <2>1 DEF CopiesInOrder
  <2>4. QED
    BY <2>1, <2>2, <2>3 DEF Stale, Row, Copy
<1>2. TypeOK /\ Window /\ CopiesInOrder =>
         [\A c \in Clients, n \in Names :
            Overwrites(c, n) /\ copies[c][n].born = rows[n].born
               => copies[c][n].base = rows[n].stamp]_vars
  BY <1>1 DEF Overwrites
<1>3. QED
  BY <1>2, TypeCorrect, WindowHolds, CopiesStayInOrder, PTL DEF Spec, NoLostUpdate

\* Among clients of one Store the generation of a registration counts its
\* Saves: every change of its contents adds exactly one.
THEOREM OneStoreCountsSaves ==
    ASSUME OneStoreShared
    PROVE  Spec => GenerationCountsSaves
<1>1. ASSUME TypeOK, TypeOK', Window, CopiesInOrder, [Next]_vars, NEW n \in Names,
             rows'[n].born = rows[n].born, rows'[n].stamp # rows[n].stamp
      PROVE  rows'[n].gen = rows[n].gen + 1
  <2>1. rows[n] \in Row /\ rows'[n] \in Row /\ clock \in Nat
    BY <1>1 DEF TypeOK, Tables
  <2>2. rows[n].born <= clock
    BY <1>1 DEF CopiesInOrder
  <2>3. ASSUME NEW k \in Names, Removes(k) PROVE rows'[n].gen = rows[n].gen + 1
    <3>1. rows'[n] = rows[n] \/ rows'[n] = Absent
      BY <1>1, <2>3 DEF Removes, TypeOK, Tables
    <3>2. rows'[n] = Absent /\ rows[n].born = 0
      BY <1>1, <3>1 DEF Absent
    <3>3. rows[n] = Absent
      BY <1>1, <3>2 DEF CopiesInOrder
    <3>4. QED
      BY <1>1, <3>2, <3>3
  <2>4. ASSUME NEW c \in Clients, Adds(c) PROVE rows'[n].gen = rows[n].gen + 1
    BY <1>1, <2>1, <2>2, <2>4 DEF Adds, InsertRow, NewRow, TypeOK, Tables
  <2>5. ASSUME NEW c \in Clients, Writes(c) PROVE rows'[n].gen = rows[n].gen + 1
    <3>1. rows'[n] = Rewritten(rows[n], rows[n].gen + 1, clock + 1)
      BY <1>1, <2>5 DEF Writes, Window, TypeOK, Tables
    <3>2. QED
      BY <2>1, <3>1 DEF Rewritten, Row
  <2> QED
    BY <1>1, <2>3, <2>4, <2>5, RowChanges
<1>2. TypeOK /\ TypeOK' /\ Window /\ CopiesInOrder /\ [Next]_vars =>
         [\A n \in Names :
            /\ rows'[n].born = rows[n].born
            /\ rows'[n].stamp # rows[n].stamp
            => rows'[n].gen = rows[n].gen + 1]_rows
  BY <1>1
<1>3. QED
  BY <1>2, TypeCorrect, WindowHolds, CopiesStayInOrder, PTL
     DEF Spec, GenerationCountsSaves

\* "Register atomically adds a new project and returns its index"
\* (state.go:193): so it does for clients of one Store when SELECT rowid does
\* not fail.
THEOREM OneStoreIndex ==
    ASSUME OneStoreShared, "rowid" \notin MayFail
    PROVE  Spec => []RegisterReturnsOwnIndex
<1>1. Init => RegisterReturnsOwnIndex
  BY DEF Init, RegisterReturnsOwnIndex
<1>2. /\ TypeOK /\ MethodHoldsMutex /\ Window /\ RegisterReturnsOwnIndex /\ [Next]_vars
      => RegisterReturnsOwnIndex'
  <2> SUFFICES ASSUME TypeOK, MethodHoldsMutex, Window,
                      RegisterReturnsOwnIndex, [Next]_vars,
                      NEW d \in Clients, inserted'[d].born # 0, pc'[d] # "rowid"
               PROVE  index'[d] = inserted'[d].rowid - 1
    BY DEF RegisterReturnsOwnIndex
  <2> USE DEF TypeOK
  <2>1. CASE UNCHANGED <<index, inserted>> /\ pc[d] # "rowid"
    BY <2>1 DEF RegisterReturnsOwnIndex
  <2>2. ASSUME NEW c \in Clients, RegisterInsert(c)
        PROVE  index'[d] = inserted'[d].rowid - 1
    <3>1. CASE InsertFails(c)
      BY <2>1, <2>2, <3>1 DEF RegisterInsert, InsertFails, Return
    <3>2. CASE /\ \E r \in Nat : inserted' = [inserted EXCEPT
                                               ![c] = [rowid |-> r, born |-> clock + 1]]
               /\ pc' = [pc EXCEPT ![c] = "rowid"]
               /\ UNCHANGED index
      BY <2>2, <3>2 DEF RegisterReturnsOwnIndex
    <3>3. QED
      BY <2>2, <3>1, <3>2, NextRowidFresh DEF RegisterInsert
  <2>3. ASSUME NEW c \in Clients, RegisterRowid(c)
        PROVE  index'[d] = inserted'[d].rowid - 1
    <3>1. index' = [index EXCEPT ![c] = rows[arg[c]].rowid - 1]
      BY <2>3 DEF RegisterRowid, SelectRowid
    <3>2. rows[arg[c]].rowid = inserted[c].rowid
      BY <2>3 DEF RegisterRowid, Window
    <3>3. UNCHANGED inserted /\ (d # c => pc'[d] = pc[d])
      BY <2>3 DEF RegisterRowid, Return
    <3>4. QED
      BY <3>1, <3>2, <3>3 DEF RegisterReturnsOwnIndex
  <2>4. ASSUME NEW c \in Clients, SaveInsert(c) \/ SaveUpdate(c)
        PROVE  index'[d] = inserted'[d].rowid - 1
    BY <2>1, <2>4 DEF SaveInsert, SaveUpdate, InsertFails, Return
  <2>5. ASSUME NEW c \in Clients, NEW n \in Names,
               \/ Get(c, n) \/ Delete(c, n) \/ RegisterExists(c, n)
               \/ SaveGeneration(c, n)
        PROVE  index'[d] = inserted'[d].rowid - 1
    <3>1. UNCHANGED <<index, inserted>> /\ (d # c => pc'[d] = pc[d])
      BY <2>5 DEF Get, Delete, RegisterExists, SaveGeneration, Enter, calling
    <3>2. pc[c] = "idle"
      BY <2>5, UnlockedIdle DEF Get, Delete, RegisterExists, SaveGeneration
    <3>3. QED
      BY <2>1, <3>1, <3>2
  <2>6. ASSUME NEW c \in Clients, List(c)
        PROVE  index'[d] = inserted'[d].rowid - 1
    BY <2>1, <2>6 DEF List, calling
  <2>7. ASSUME NEW s \in Stores, Exit(s)
        PROVE  index'[d] = inserted'[d].rowid - 1
    BY <2>7 DEF Exit, RegisterReturnsOwnIndex
  <2>8. CASE UNCHANGED vars
    BY <2>1, <2>8 DEF vars
  <2> QED
    BY <2>2, <2>3, <2>4, <2>5, <2>6, <2>7, <2>8 DEF Next
<1>3. QED
  BY <1>1, <1>2, TypeCorrect, MutexHeld, WindowHolds, PTL DEF Spec
=============================================================================
