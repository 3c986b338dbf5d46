-------------------------- MODULE SqliteStore_proofs --------------------------
(***************************************************************************)
(* Proofs about SqliteStore for any number of connections, memories,       *)
(* terms, scopes and events. The inductive invariant is Inv. A step        *)
(* changes little of it, so each kind of step has a frame lemma (a         *)
(* statement inside a transaction, a rollback, a commit, a step outside    *)
(* transactions, BEGIN IMMEDIATE), and each action is shown to fit one of  *)
(* them.                                                                   *)
(***************************************************************************)
EXTENDS SqliteStore, FiniteSetTheorems, TLAPS

USE MemoryAssumption, TextAssumption, InitialAssumption, ConnectionAssumption,
    PutAssumption, BoundAssumption

(***************************************************************************)
(* Every database a store may be opened on (a new file, a legacy or older  *)
(* database, one written by newer code) satisfies the invariant.           *)
(***************************************************************************)
THEOREM InitInv == Init => Inv
<1> SUFFICES ASSUME Init PROVE Inv
  OBVIOUS
<1>1. TypeOK
  <2>1. CASE db = FreshDatabase
    BY <2>1 DEF Init, TypeOK, Database, FreshDatabase, PC, LATEST_SCHEMA_VERSION
  <2>2. ASSUME NEW v \in 0..(LATEST_SCHEMA_VERSION + 1), NEW rows \in InitialRows,
               db = OlderDatabase(v, rows)
        PROVE  TypeOK
    <3>1. rows \in [MemoryId -> Memory \cup {NoRow}]
      BY InitialAssumption
    <3>2. db \in Database
      BY <2>2, <3>1 DEF Database, OlderDatabase, IndexedAt, TermsOfRows, AllTables, BaseTables,
                        LATEST_SCHEMA_VERSION
    <3>3. QED
      BY <3>2 DEF Init, TypeOK, PC, LATEST_SCHEMA_VERSION
  <2>3. QED
    BY <2>1, <2>2 DEF Init
<1>2. Indexed(db) /\ SchemaMatches(db)
  <2>1. CASE db = FreshDatabase
    BY <2>1 DEF Indexed, SchemaMatches, FreshDatabase, IndexedAt
  <2>2. ASSUME NEW v \in 0..(LATEST_SCHEMA_VERSION + 1), NEW rows \in InitialRows,
               db = OlderDatabase(v, rows)
        PROVE  Indexed(db) /\ SchemaMatches(db)
    BY <2>2 DEF Indexed, SchemaMatches, OlderDatabase, IndexedAt, AllTables, BaseTables
  <2>3. QED
    BY <2>1, <2>2 DEF Init
<1>3. ASSUME NEW c \in Connection
      PROVE  HoldsLock(c) /\ HasPut(c) /\ TablesInUse(c) /\ lock # c
  BY DEF Init, HoldsLock, HasPut, TablesInUse, InTransaction, Migrating, Putting, Appending, Opening
<1>4. QED
  BY <1>1, <1>2, <1>3 DEF Init, Inv

(* The first migration run_migrations applies to a database at version v.  *)
LEMMA FirstPending ==
    ASSUME NEW v \in Nat
    PROVE  (IF v >= LATEST_SCHEMA_VERSION THEN 1 ELSE v + 1) \in 1..LATEST_SCHEMA_VERSION
<1>1. CASE v >= 2
  BY <1>1 DEF LATEST_SCHEMA_VERSION
<1>2. CASE v < 2
  BY <1>2 DEF LATEST_SCHEMA_VERSION
<1>3. QED
  BY <1>1, <1>2

(***************************************************************************)
(* Every step keeps the types: statements, migrations, failures, rollbacks *)
(* and crashes (sqlite_store.py, migrations.py).                           *)
(***************************************************************************)
THEOREM TypeStep == Inv /\ [Next]_vars => TypeOK'
<1> SUFFICES ASSUME Inv, [Next]_vars PROVE TypeOK'
  OBVIOUS
<1>0. TypeOK /\ \A c \in Connection : put[c] # NoPut <=> pc[c] \in Putting \cup {"put_begin"}
  BY DEF Inv, HasPut
<1> USE <1>0 DEF TypeOK, Goto, PC, Calling, Opening, InTransaction, Begin, Migrating, Putting, Appending
<1>1. CASE OperatorRollback
  <2>1. [db EXCEPT !.tables = @ \ {"memory_terms"}, !.terms = {}, !.version = 1] \in Database
    BY DEF Database
  <2>2. QED
    BY <1>1, <2>1 DEF OperatorRollback
<1>2. ASSUME NEW c \in Connection, Raise(c) PROVE TypeOK'
  BY <1>2 DEF Raise, Release
<1>3. ASSUME NEW c \in Connection, BusyTimeout(c) \/ StatementFails(c) \/ MigrationNullText(c) \/ PutRaises(c) PROVE TypeOK'
  BY <1>2, <1>3 DEF BusyTimeout, StatementFails, MigrationNullText, PutRaises
<1>4. ASSUME NEW c \in Connection, Crash(c) PROVE TypeOK'
  BY <1>4 DEF Crash, Release
<1>5. ASSUME NEW c \in Connection, Call(c) PROVE TypeOK'
  BY <1>5 DEF Call, Open, Put, AppendEvent, Close
<1>6. ASSUME NEW c \in Connection, MigrationStep(c) PROVE TypeOK'
  <2>1. CASE ReadVersion(c)
    <3>1. db.version \in Nat
      BY DEF Database
    <3> DEFINE next == IF db.version >= LATEST_SCHEMA_VERSION THEN 1 ELSE db.version + 1
    <3>2. next \in 1..LATEST_SCHEMA_VERSION
      BY <3>1, FirstPending
    <3>4. target' = [target EXCEPT ![c] = next]
      BY <2>1 DEF ReadVersion
    <3>3. QED
      BY <2>1, <3>2, <3>4 DEF ReadVersion
  <2>2. CASE MigrationBegin(c)
    BY <2>2 DEF MigrationBegin, BeginImmediate
  <2>3. CASE MigrationCreate(c)
    BY <2>3 DEF MigrationCreate, Database, AllTables, BaseTables, TermsOfRows
  <2>4. CASE MigrationBackfill(c)
    BY <2>4 DEF MigrationBackfill, InsertTerm, Database
  <2>5. CASE MigrationBackfilled(c)
    BY <2>5 DEF MigrationBackfilled
  <2>6. CASE MigrationVersion(c)
    BY <2>6 DEF MigrationVersion, Database, LATEST_SCHEMA_VERSION
  <2>7. CASE MigrationCommit(c)
    BY <2>7 DEF MigrationCommit, LATEST_SCHEMA_VERSION
  <2>8. QED
    BY <1>3, <1>6, <2>1, <2>2, <2>3, <2>4, <2>5, <2>6, <2>7 DEF MigrationStep
<1>7. ASSUME NEW c \in Connection, WriteStep(c) PROVE TypeOK'
  <2>1. CASE PutBegin(c) \/ EventBegin(c)
    BY <2>1 DEF PutBegin, EventBegin, BeginImmediate
  <2>2. CASE PutRow(c)
    <3>1. put[c] \in [id : MemoryId, memory : Memory]
      BY <2>2 DEF PutRow
    <3>2. [work EXCEPT !.rows[put[c].id] = put[c].memory] \in Database
      BY <3>1 DEF Database
    <3>3. QED
      BY <2>2, <3>2 DEF PutRow
  <2>3. CASE PutDeleteTerms(c)
    <3>1. put[c] \in [id : MemoryId, memory : Memory]
      BY <2>3 DEF PutDeleteTerms
    <3>2. put[c].memory.text \in Text
      BY <2>3, <3>1 DEF PutDeleteTerms
    <3>3. {put[c].id} \X Tokens[put[c].memory.text] \in SUBSET (MemoryId \X Term)
      BY <3>1, <3>2
    <3>4. [work EXCEPT !.terms = {p \in @ : p[1] # put[c].id}] \in Database
      BY DEF Database
    <3>5. QED
      BY <2>3, <3>3, <3>4 DEF PutDeleteTerms
  <2>4. CASE PutTerm(c)
    BY <2>4 DEF PutTerm, InsertTerm, Database
  <2>5. CASE PutTermsDone(c)
    BY <2>5 DEF PutTermsDone
  <2>6. CASE PutCommit(c)
    BY <2>6 DEF PutCommit
  <2>7. CASE EventRow(c)
    BY <2>7 DEF EventRow, Database, Event
  <2>8. CASE EventCommit(c)
    BY <2>8 DEF EventCommit
  <2>9. QED
    BY <1>3, <1>7, <2>1, <2>2, <2>3, <2>4, <2>5, <2>6, <2>7, <2>8 DEF WriteStep
<1>8. CASE UNCHANGED vars
  BY <1>8 DEF vars
<1>9. QED
  BY <1>1, <1>3, <1>4, <1>5, <1>6, <1>7, <1>8 DEF Next, Step, Progress

(* A statement of c's transaction: only what c has staged changes.         *)
LEMMA StatementFrame ==
    ASSUME Inv, TypeOK', NEW c \in Connection, lock = c,
           UNCHANGED <<db, lock, put, target, outcome, rollbacks>>,
           NEW label \in InTransaction, Goto(c, label),
           label \in Migrating <=> pc[c] \in Migrating,
           label \in Putting <=> pc[c] \in Putting,
           Staged(c)'
    PROVE  Inv'
<1>1. Indexed(db)' /\ SchemaMatches(db)'
  BY DEF Inv, Indexed, SchemaMatches
<1>2. pc' = [pc EXCEPT ![c] = label] /\ pc \in [Connection -> PC] /\ pc[c] \in InTransaction
  BY DEF Goto, Inv, TypeOK, HoldsLock
<1>3. ASSUME NEW d \in Connection PROVE HoldsLock(d)' /\ HasPut(d)' /\ TablesInUse(d)'
  <2>1. CASE d = c
    <3>1. pc'[c] = label /\ HasPut(c) /\ TablesInUse(c)
      BY <1>2 DEF Inv
    <3>2. HoldsLock(c)'
      BY <3>1 DEF HoldsLock
    <3>3. HasPut(c)'
      BY <1>2, <3>1 DEF HasPut, InTransaction, Migrating, Putting, Appending
    <3>4. TablesInUse(c)'
      BY <1>2, <3>1 DEF TablesInUse, InTransaction, Migrating, Putting, Appending, Opening
    <3>5. QED
      BY <2>1, <3>2, <3>3, <3>4
  <2>2. CASE d # c
    BY <1>2, <2>2 DEF Inv, HoldsLock, HasPut, TablesInUse
  <2>3. QED
    BY <2>1, <2>2
<1>4. QED
  BY <1>1, <1>3, ConnectionAssumption DEF Inv

(* The end of c's transaction, if it had one, without a commit.            *)
LEMMA ReleaseFrame ==
    ASSUME Inv, TypeOK', NEW c \in Connection, Release(c),
           UNCHANGED <<db, target, rollbacks>>,
           NEW label \in {"closed", "idle"}, Goto(c, label),
           put' = [put EXCEPT ![c] = NoPut], todo' = [todo EXCEPT ![c] = {}],
           label = "idle" => pc[c] \notin {"closed"} \cup Opening \cup Migrating
    PROVE  Inv'
<1>1. Indexed(db)' /\ SchemaMatches(db)'
  BY DEF Inv, Indexed, SchemaMatches
<1>2. pc' = [pc EXCEPT ![c] = label] /\ pc \in [Connection -> PC]
  BY DEF Goto, Inv, TypeOK
<1>3. lock' # c /\ (lock # c => lock' = lock /\ work' = work)
  BY ConnectionAssumption DEF Release
<1>4. lock' = NoConnection => work' = db'
  BY DEF Release, Inv
<1>5. HoldsLock(c)' /\ HasPut(c)' /\ TablesInUse(c)'
  <2>1. pc'[c] = label /\ put'[c] = NoPut /\ TablesInUse(c)
    BY <1>2 DEF Inv, TypeOK
  <2>2. HoldsLock(c)' /\ HasPut(c)'
    BY <1>3, <2>1 DEF HoldsLock, HasPut, InTransaction, Migrating, Putting, Appending
  <2>3. TablesInUse(c)'
    BY <2>1 DEF TablesInUse, Opening, Migrating
  <2>4. QED
    BY <2>2, <2>3
<1>6. ASSUME NEW d \in Connection, d # c
      PROVE  /\ HoldsLock(d)' /\ HasPut(d)' /\ TablesInUse(d)'
             /\ lock' = d => Staged(d)'
  <2>1. /\ pc'[d] = pc[d] /\ put'[d] = put[d] /\ target'[d] = target[d]
        /\ HoldsLock(d) /\ HasPut(d) /\ TablesInUse(d)
    BY <1>2, <1>6 DEF Inv, TypeOK
  <2>2. lock' = d <=> lock = d
    BY <1>3, <1>6, ConnectionAssumption DEF Release
  <2>3. HoldsLock(d)' /\ HasPut(d)' /\ TablesInUse(d)'
    BY <2>1, <2>2 DEF HoldsLock, HasPut, TablesInUse
  <2>4. ASSUME lock' = d PROVE Staged(d)'
    <3>1. todo'[d] = todo[d] /\ work' = work /\ Staged(d)
      BY <1>3, <1>6, <2>2, <2>4 DEF Inv, TypeOK
    <3>2. QED
      BY <2>1, <3>1 DEF Staged, StagedRows, StagedTerms, StagedSchema, StagedEvents, Indexed
  <2>5. QED
    BY <2>3, <2>4
<1>7. QED
  BY <1>1, <1>3, <1>4, <1>5, <1>6 DEF Inv

(* The commit of c's transaction: what it staged is the database.          *)
LEMMA CommitFrame ==
    ASSUME Inv, TypeOK', NEW c \in Connection, lock = c,
           db' = work, lock' = NoConnection, UNCHANGED <<work, todo, rollbacks>>,
           NEW label \in {"idle", "migration_begin"}, Goto(c, label),
           NEW v, target' = [target EXCEPT ![c] = v],
           put' = [put EXCEPT ![c] = NoPut],
           Indexed(work), SchemaMatches(work), BaseTables \subseteq work.tables,
           label = "idle" => (rollbacks = 0 => work.tables = AllTables)
    PROVE  Inv'
<1>1. Indexed(db)' /\ SchemaMatches(db)'
  BY DEF Indexed, SchemaMatches
<1>2. pc' = [pc EXCEPT ![c] = label] /\ pc \in [Connection -> PC]
  BY DEF Goto, Inv, TypeOK
<1>3. db.tables \subseteq work.tables /\ work.tables \subseteq AllTables
  BY DEF Inv, Staged, StagedSchema, TypeOK, Database
<1>4. HoldsLock(c)' /\ HasPut(c)' /\ TablesInUse(c)'
  <2>1. pc'[c] = label /\ put'[c] = NoPut
    BY <1>2 DEF Inv, TypeOK
  <2>2. HoldsLock(c)' /\ HasPut(c)'
    BY <2>1, ConnectionAssumption DEF HoldsLock, HasPut, InTransaction, Migrating, Putting, Appending
  <2>3. TablesInUse(c)'
    BY <2>1 DEF TablesInUse, Opening, Migrating
  <2>4. QED
    BY <2>2, <2>3
<1>5. ASSUME NEW d \in Connection, d # c
      PROVE  HoldsLock(d)' /\ HasPut(d)' /\ TablesInUse(d)'
  <2>1. /\ pc'[d] = pc[d] /\ put'[d] = put[d] /\ target'[d] = target[d]
        /\ HoldsLock(d) /\ HasPut(d) /\ TablesInUse(d)
    BY <1>2, <1>5 DEF Inv, TypeOK
  <2>2. HoldsLock(d)' /\ HasPut(d)'
    BY <1>5, <2>1, ConnectionAssumption DEF HoldsLock, HasPut
  <2>3. TablesInUse(d)'
    BY <1>3, <2>1 DEF TablesInUse
  <2>4. QED
    BY <2>2, <2>3
<1>6. QED
  BY <1>1, <1>4, <1>5, ConnectionAssumption DEF Inv

(* A step of c outside transactions that leaves database and lock alone.   *)
LEMMA OutsideFrame ==
    ASSUME Inv, TypeOK', NEW c \in Connection, pc[c] \notin InTransaction,
           UNCHANGED <<db, work, lock, todo, rollbacks>>,
           NEW label \in PC \ InTransaction, Goto(c, label),
           \A d \in Connection \ {c} : put'[d] = put[d] /\ target'[d] = target[d],
           HasPut(c)', TablesInUse(c)'
    PROVE  Inv'
<1>1. Indexed(db)' /\ SchemaMatches(db)'
  BY DEF Inv, Indexed, SchemaMatches
<1>2. pc' = [pc EXCEPT ![c] = label] /\ pc \in [Connection -> PC]
  BY DEF Goto, Inv, TypeOK
<1>3. HoldsLock(c)' /\ lock # c
  BY <1>2 DEF HoldsLock, Inv
<1>4. ASSUME NEW d \in Connection, d # c
      PROVE  /\ HoldsLock(d)' /\ HasPut(d)' /\ TablesInUse(d)'
             /\ lock' = d => Staged(d)'
  <2>1. /\ pc'[d] = pc[d] /\ put'[d] = put[d] /\ target'[d] = target[d]
        /\ HoldsLock(d) /\ HasPut(d) /\ TablesInUse(d)
        /\ lock = d => Staged(d)
    BY <1>2, <1>4 DEF Inv, TypeOK
  <2> db' = db /\ work' = work /\ lock' = lock /\ todo' = todo /\ rollbacks' = rollbacks
    OBVIOUS
  <2>2. HoldsLock(d)' /\ HasPut(d)' /\ TablesInUse(d)'
    <3>1. HoldsLock(d)' /\ HasPut(d)'
      BY <2>1 DEF HoldsLock, HasPut
    <3>2. TablesInUse(d)'
      BY <2>1 DEF TablesInUse
    <3>3. QED
      BY <3>1, <3>2
  <2>3. ASSUME lock' = d PROVE Staged(d)'
    <3>1. Staged(d)
      BY <2>1, <2>3
    <3>2. QED
      BY <2>1, <3>1 DEF Staged, StagedRows, StagedTerms, StagedSchema, StagedEvents, Indexed
  <2>4. QED
    BY <2>2, <2>3
<1>5. QED
  BY <1>1, <1>3, <1>4 DEF Inv

(* BEGIN IMMEDIATE: the transaction starts on the committed database.      *)
LEMMA BeginFrame ==
    ASSUME Inv, TypeOK', NEW c \in Connection,
           NEW label \in {"migration_create", "put_row", "event_row"},
           BeginImmediate(c, label), pc[c] \in Begin,
           label \in Migrating <=> pc[c] = "migration_begin",
           label \in Putting <=> pc[c] = "put_begin"
    PROVE  Inv'
<1>1. Indexed(db)' /\ SchemaMatches(db)'
  BY DEF Inv, Indexed, SchemaMatches, BeginImmediate
<1>2. pc' = [pc EXCEPT ![c] = label] /\ pc \in [Connection -> PC]
  BY DEF Goto, Inv, TypeOK, BeginImmediate
<1>3. HoldsLock(c)' /\ HasPut(c)' /\ TablesInUse(c)' /\ Staged(c)'
  <2>1. pc'[c] = label /\ put'[c] = put[c] /\ HasPut(c) /\ TablesInUse(c)
    BY <1>2 DEF Inv, TypeOK, BeginImmediate
  <2>2. HoldsLock(c)'
    BY <2>1 DEF HoldsLock, BeginImmediate, InTransaction, Migrating, Putting, Appending
  <2>3. HasPut(c)'
    BY <2>1 DEF HasPut, Begin, Putting, Migrating
  <2>4. TablesInUse(c)'
    BY <2>1 DEF TablesInUse, BeginImmediate, Begin, Opening, Migrating
  <2>5. Staged(c)'
    BY <1>1, <2>1 DEF Staged, StagedRows, StagedTerms, StagedSchema, StagedEvents, BeginImmediate,
                  Indexed, Migrating
  <2>6. QED
    BY <2>2, <2>3, <2>4, <2>5
<1>4. ASSUME NEW d \in Connection, d # c
      PROVE  HoldsLock(d)' /\ HasPut(d)' /\ TablesInUse(d)' /\ lock' # d
  <2>1. /\ pc'[d] = pc[d] /\ HoldsLock(d) /\ HasPut(d) /\ TablesInUse(d)
    BY <1>2, <1>4 DEF Inv, TypeOK
  <2>2. QED
    BY <1>4, <2>1, ConnectionAssumption DEF HoldsLock, HasPut, TablesInUse, BeginImmediate
<1>5. QED
  BY <1>1, <1>3, <1>4, ConnectionAssumption DEF Inv, BeginImmediate

(* What each step needs to know of its connection.                         *)
LEMMA AtLabel ==
    ASSUME Inv, NEW c \in Connection
    PROVE  /\ pc[c] \in InTransaction => lock = c /\ Staged(c)
           /\ HasPut(c) /\ TablesInUse(c)
           /\ put[c] # NoPut => put[c] \in [id : MemoryId, memory : Memory]
  BY DEF Inv, HoldsLock, TypeOK

(***************************************************************************)
(* An exception that rolls its transaction back (the except branches of    *)
(* put, append_event and run_migrations) keeps the invariant.              *)
(***************************************************************************)
LEMMA RaiseStep == ASSUME Inv, TypeOK', NEW c \in Connection, Raise(c), pc[c] # "closed"
                   PROVE  Inv'
<1> DEFINE label == IF pc[c] \in Opening \cup Migrating THEN "closed" ELSE "idle"
<1>1. label \in {"closed", "idle"} /\ Goto(c, label)
  BY DEF Raise
<1>2. label = "idle" => pc[c] \notin {"closed"} \cup Opening \cup Migrating
  OBVIOUS
<1> HIDE DEF label
<1>3. QED
  BY <1>1, <1>2, ReleaseFrame DEF Raise

(***************************************************************************)
(* Each step of run_migrations keeps the invariant: in particular a        *)
(* migration chosen from a stale version does (migrations.py:101-118).     *)
(***************************************************************************)
LEMMA MigrationInv == ASSUME Inv, TypeOK', NEW c \in Connection, MigrationStep(c) PROVE Inv'
<1> USE AtLabel DEF InTransaction, Migrating, Putting, Appending
<1>1. CASE ReadVersion(c)
  <2> DEFINE label == IF db.version > LATEST_SCHEMA_VERSION THEN "closed"
                      ELSE IF db.version = LATEST_SCHEMA_VERSION THEN "idle"
                      ELSE "migration_begin"
  <2>1. label \in {"closed", "idle", "migration_begin"} /\ Goto(c, label)
    BY <1>1 DEF ReadVersion
  <2>2. pc'[c] = label /\ put' = put /\ UNCHANGED <<db, work, lock, todo, rollbacks>>
    BY <1>1, <2>1 DEF ReadVersion, Goto, Inv, TypeOK
  <2>3. db.version \in Nat /\ SchemaMatches(db)
    BY DEF Inv, TypeOK, Database
  <2>4. target' = [target EXCEPT ![c] = IF db.version >= LATEST_SCHEMA_VERSION
                                        THEN 1 ELSE db.version + 1]
    BY <1>1 DEF ReadVersion
  <2>5. label = "migration_begin" => target'[c] = 1 \/ BaseTables \subseteq db.tables
    BY <2>3, <2>4 DEF Inv, TypeOK, LATEST_SCHEMA_VERSION, SchemaMatches
  <2>6. label = "idle" => db.tables = AllTables
    BY <2>3 DEF LATEST_SCHEMA_VERSION, SchemaMatches, IndexedAt
  <2>7. HasPut(c)'
    BY <1>1, <2>1, <2>2 DEF HasPut, ReadVersion
  <2>8. TablesInUse(c)'
    BY <2>1, <2>2, <2>5, <2>6 DEF TablesInUse, Opening, AllTables
  <2>9. \A d \in Connection \ {c} : put'[d] = put[d] /\ target'[d] = target[d]
    BY <2>2, <2>4 DEF Inv, TypeOK
  <2> HIDE DEF label
  <2>10. QED
    BY <1>1, <2>1, <2>2, <2>7, <2>8, <2>9, OutsideFrame DEF ReadVersion, PC, Calling, Begin
<1>2. CASE MigrationBegin(c)
  BY <1>2, BeginFrame DEF MigrationBegin, Begin
<1>3. CASE MigrationCreate(c)
  <2>1. Staged(c)'
    <3>1. lock = c /\ Staged(c) /\ pc[c] = "migration_create"
      BY <1>3 DEF MigrationCreate
    <3>2. Indexed(work) /\ work.tables = db.tables
      BY <3>1 DEF Staged, StagedTerms, StagedSchema
    <3>3. CASE target[c] = 1
      BY <1>3, <3>1, <3>2, <3>3 DEF MigrationCreate, Goto, Inv, TypeOK, Database, Indexed, BaseTables,
             Staged, StagedTerms, StagedSchema, StagedRows, StagedEvents
    <3>4. CASE target[c] # 1
      BY <1>3, <3>1, <3>2, <3>4 DEF MigrationCreate, Goto, Inv, TypeOK, Database, Indexed,
             Staged, StagedTerms, StagedSchema, StagedRows, StagedEvents
    <3>5. QED
      BY <3>3, <3>4
  <2>2. QED
    BY <1>3, <2>1, StatementFrame DEF MigrationCreate
<1>4. CASE MigrationBackfill(c)
  <2>1. Staged(c)'
      BY <1>4 DEF MigrationBackfill, InsertTerm, Inv, TypeOK, Database, Indexed,
             Staged, StagedTerms, StagedSchema, StagedRows, StagedEvents
  <2>2. QED
    BY <1>4, <2>1, StatementFrame DEF MigrationBackfill, InsertTerm, Goto, Inv, TypeOK
<1>5. CASE MigrationNullText(c)
  BY <1>5, RaiseStep DEF MigrationNullText
<1>6. CASE MigrationBackfilled(c)
  <2>1. Staged(c)'
    <3>1. Staged(c) /\ pc[c] = "migration_backfill" /\ todo[c] = {}
      BY <1>6 DEF MigrationBackfilled
    <3>2. Indexed(work)
      BY <3>1 DEF Staged, StagedTerms, Indexed
    <3>3. pc'[c] = "migration_version" /\ UNCHANGED <<db, work, target>>
      BY <1>6 DEF MigrationBackfilled, Goto, Inv, TypeOK
    <3>4. QED
      BY <3>1, <3>2, <3>3 DEF Indexed, Staged, StagedTerms, StagedSchema, StagedRows, StagedEvents
  <2>2. QED
    BY <1>6, <2>1, StatementFrame DEF MigrationBackfilled
<1>7. CASE MigrationVersion(c)
  <2>1. Staged(c)'
      BY <1>7 DEF MigrationVersion, Goto, Inv, TypeOK, Database, Indexed,
             Staged, StagedTerms, StagedSchema, StagedRows, StagedEvents
  <2>2. QED
    BY <1>7, <2>1, StatementFrame DEF MigrationVersion
<1>8. CASE MigrationCommit(c)
  <2>1. lock = c /\ Staged(c) /\ pc[c] = "migration_commit" /\ put[c] = NoPut
    BY <1>8 DEF MigrationCommit, HasPut
  <2>2. /\ Indexed(work) /\ work.version = target[c]
        /\ work.tables = db.tables \cup IF target[c] = 1 THEN BaseTables ELSE {"memory_terms"}
    BY <2>1 DEF Staged, StagedTerms, StagedSchema
  <2>3. target[c] \in {1, 2} /\ (target[c] = 1 \/ BaseTables \subseteq db.tables)
    BY <2>1 DEF Inv, TypeOK, TablesInUse, LATEST_SCHEMA_VERSION
  <2>4. BaseTables \subseteq work.tables /\ (target[c] = 2 => work.tables = AllTables)
    BY <2>2, <2>3 DEF Inv, TypeOK, Database, AllTables
  <2>5. SchemaMatches(work)
    BY <2>2, <2>3, <2>4 DEF SchemaMatches, IndexedAt
  <2>6. put' = [put EXCEPT ![c] = NoPut]
    BY <1>8, <2>1 DEF MigrationCommit, Inv, TypeOK
  <2>7. CASE target[c] = 2
    BY <1>8, <2>1, <2>2, <2>4, <2>5, <2>6, <2>7, CommitFrame DEF MigrationCommit, LATEST_SCHEMA_VERSION
  <2>8. CASE target[c] = 1
    BY <1>8, <2>1, <2>2, <2>4, <2>5, <2>6, <2>8, CommitFrame DEF MigrationCommit, LATEST_SCHEMA_VERSION
  <2>9. QED
    BY <2>3, <2>7, <2>8
<1>9. QED
  BY <1>1, <1>2, <1>3, <1>4, <1>5, <1>6, <1>7, <1>8 DEF MigrationStep

(***************************************************************************)
(* Each statement of put and append_event keeps the invariant.             *)
(***************************************************************************)
LEMMA WriteInv == ASSUME Inv, TypeOK', NEW c \in Connection, WriteStep(c) PROVE Inv'
<1> USE AtLabel DEF InTransaction, Migrating, Putting, Appending
<1>1. CASE PutBegin(c)
  BY <1>1, BeginFrame DEF PutBegin, Begin
<1>2. CASE PutRow(c)
  <2>1. lock = c /\ Staged(c) /\ pc[c] = "put_row" /\ put[c] \in [id : MemoryId, memory : Memory]
    BY <1>2 DEF PutRow, HasPut
  <2>2. Staged(c)'
    <3>1. work.rows = db.rows /\ work.tables = db.tables /\ work.terms = db.terms
      BY <2>1 DEF Inv, Indexed, Staged, StagedTerms, StagedSchema, StagedRows
    <3>2. /\ work' = [work EXCEPT !.rows = [@ EXCEPT ![put[c].id] = put[c].memory]]
          /\ pc'[c] = "put_delete_terms" /\ UNCHANGED <<db, put, target>>
      BY <1>2 DEF PutRow, Goto, Inv, TypeOK
    <3>3. /\ work'.rows = [work.rows EXCEPT ![put[c].id] = put[c].memory]
          /\ work'.terms = work.terms /\ work'.tables = work.tables
          /\ work'.version = work.version /\ work'.events = work.events
      BY <3>2 DEF Inv, TypeOK, Database
    <3>4. QED
      BY <2>1, <3>1, <3>2, <3>3
         DEF Staged, StagedTerms, StagedSchema, StagedRows, StagedEvents
  <2>3. QED
    BY <1>2, <2>2, StatementFrame DEF PutRow
<1>3. CASE PutDeleteTerms(c)
  <2>1. /\ lock = c /\ Staged(c) /\ pc[c] = "put_delete_terms"
        /\ put[c] \in [id : MemoryId, memory : Memory]
        /\ put[c].memory \in Memory /\ put[c].memory.text \in Text
    BY <1>3, MemoryAssumption DEF PutDeleteTerms, HasPut
  <2> DEFINE id == put[c].id  new == {put[c].id} \X Tokens[put[c].memory.text]
             kept == {p \in work.terms : p[1] # put[c].id}
  <2>2. /\ work.rows = [db.rows EXCEPT ![id] = put[c].memory]
        /\ work.terms = TermsOfRows(db.rows) /\ "memory_terms" \in work.tables
    BY <1>3, <2>1 DEF PutDeleteTerms, Inv, Indexed, Staged, StagedRows, StagedTerms, StagedSchema
  <2>3. db.rows \in [MemoryId -> Memory \cup {NoRow}]
    BY DEF Inv, TypeOK, Database
  <2>4. RowTerms(work.rows[id]) = Tokens[put[c].memory.text]
    BY <2>1, <2>2, <2>3, MemoryAssumption, TextAssumption DEF RowTerms
  <2>5. \A i \in MemoryId : i # id => work.rows[i] = db.rows[i]
    BY <2>2, <2>3
  <2>6. Tokens[put[c].memory.text] \subseteq Term /\ id \in MemoryId
    BY <2>1, TextAssumption
  <2>7. kept \cup new = TermsOfRows(work.rows)
    BY <2>2, <2>4, <2>5, <2>6 DEF TermsOfRows
  <2>8. Staged(c)'
    <3>1. /\ work' = [work EXCEPT !.terms = kept] /\ todo'[c] = new /\ pc'[c] = "put_terms"
          /\ UNCHANGED <<db, put, target>>
      BY <1>3 DEF PutDeleteTerms, Goto, Inv, TypeOK
    <3>2. work'.terms = kept /\ work'.rows = work.rows /\ work'.tables = work.tables
          /\ work'.version = work.version /\ work'.events = work.events
      BY <3>1 DEF Inv, TypeOK, Database
    <3>3. QED
      BY <2>1, <2>2, <2>7, <3>1, <3>2
         DEF Staged, StagedTerms, StagedSchema, StagedRows, StagedEvents
  <2>9. QED
    BY <1>3, <2>1, <2>8, StatementFrame DEF PutDeleteTerms
<1>4. CASE PutRaises(c)
  BY <1>4, RaiseStep DEF PutRaises
<1>5. CASE PutTerm(c)
  <2>1. Staged(c)'
      BY <1>5 DEF PutTerm, InsertTerm, Inv, TypeOK, Database,
             Staged, StagedTerms, StagedSchema, StagedRows, StagedEvents
  <2>2. QED
    BY <1>5, <2>1, StatementFrame DEF PutTerm, InsertTerm, Goto, Inv, TypeOK
<1>6. CASE PutTermsDone(c)
  <2>1. Staged(c)'
    <3>1. Staged(c) /\ pc[c] = "put_terms" /\ todo[c] = {}
      BY <1>6 DEF PutTermsDone
    <3>2. Indexed(work)
      BY <3>1 DEF Staged, StagedTerms, Indexed
    <3>3. pc'[c] = "put_commit" /\ UNCHANGED <<db, work, put, target>>
      BY <1>6 DEF PutTermsDone, Goto, Inv, TypeOK
    <3>4. QED
      BY <3>1, <3>2, <3>3 DEF Indexed, Staged, StagedTerms, StagedSchema, StagedRows, StagedEvents
  <2>2. QED
    BY <1>6, <2>1, StatementFrame DEF PutTermsDone
<1>7. CASE PutCommit(c)
  <2>1. lock = c /\ Staged(c) /\ pc[c] = "put_commit" /\ TablesInUse(c)
    BY <1>7 DEF PutCommit
  <2>2. Indexed(work) /\ work.version = db.version /\ work.tables = db.tables
    BY <2>1 DEF Staged, StagedTerms, StagedSchema
  <2>3. SchemaMatches(work)
    BY <2>2 DEF Inv, SchemaMatches
  <2>4. BaseTables \subseteq work.tables /\ (rollbacks = 0 => work.tables = AllTables)
    BY <2>1, <2>2 DEF TablesInUse, Opening
  <2>5. target' = [target EXCEPT ![c] = target[c]]
    BY <1>7 DEF PutCommit, Inv, TypeOK
  <2>6. QED
    BY <1>7, <2>1, <2>2, <2>3, <2>4, <2>5, CommitFrame DEF PutCommit
<1>8. CASE EventBegin(c)
  BY <1>8, BeginFrame DEF EventBegin, Begin
<1>9. CASE EventRow(c)
  <2>1. Staged(c)'
      BY <1>9 DEF EventRow, Goto, Inv, TypeOK, Database, Indexed,
             Staged, StagedTerms, StagedSchema, StagedRows, StagedEvents
  <2>2. QED
    BY <1>9, <2>1, StatementFrame DEF EventRow
<1>10. CASE EventCommit(c)
  <2>1. lock = c /\ Staged(c) /\ pc[c] = "event_commit" /\ TablesInUse(c) /\ put[c] = NoPut
    BY <1>10 DEF EventCommit, HasPut
  <2>2. Indexed(work) /\ work.version = db.version /\ work.tables = db.tables
    BY <2>1 DEF Staged, StagedTerms, StagedSchema
  <2>3. SchemaMatches(work)
    BY <2>2 DEF Inv, SchemaMatches
  <2>4. BaseTables \subseteq work.tables /\ (rollbacks = 0 => work.tables = AllTables)
    BY <2>1, <2>2 DEF TablesInUse, Opening
  <2>5. /\ target' = [target EXCEPT ![c] = target[c]]
        /\ put' = [put EXCEPT ![c] = NoPut]
    BY <1>10, <2>1 DEF EventCommit, Inv, TypeOK
  <2>6. QED
    BY <1>10, <2>1, <2>2, <2>3, <2>4, <2>5, CommitFrame DEF EventCommit
<1>11. QED
  BY <1>1, <1>2, <1>3, <1>4, <1>5, <1>6, <1>7, <1>8, <1>9, <1>10 DEF WriteStep

(***************************************************************************)
(* The start of a call, and closing a connection, keep the invariant.      *)
(***************************************************************************)
LEMMA CallInv == ASSUME Inv, TypeOK', NEW c \in Connection, Call(c) PROVE Inv'
<1> USE AtLabel DEF InTransaction, Migrating, Putting, Appending, PC, Calling, Opening, Begin
<1>1. CASE Open(c)
  <2>1. HasPut(c)' /\ TablesInUse(c)'
    BY <1>1 DEF Open, Goto, Inv, TypeOK, HasPut, TablesInUse
  <2>2. QED
    BY <1>1, <2>1, OutsideFrame DEF Open
<1>2. CASE Put(c)
  <2>1. /\ \A d \in Connection \ {c} : put'[d] = put[d]
        /\ put'[c] # NoPut /\ pc'[c] = "put_begin"
    BY <1>2, PutAssumption DEF Put, Goto, Inv, TypeOK
  <2>2. HasPut(c)' /\ TablesInUse(c)'
    BY <1>2, <2>1 DEF Put, HasPut, TablesInUse
  <2>3. QED
    BY <1>2, <2>1, <2>2, OutsideFrame DEF Put
<1>3. CASE AppendEvent(c)
  <2>1. HasPut(c)' /\ TablesInUse(c)'
    BY <1>3 DEF AppendEvent, Goto, Inv, TypeOK, HasPut, TablesInUse
  <2>2. QED
    BY <1>3, <2>1, OutsideFrame DEF AppendEvent
<1>4. CASE Close(c)
  <2>1. HasPut(c)' /\ TablesInUse(c)'
    BY <1>4 DEF Close, Goto, Inv, TypeOK, HasPut, TablesInUse
  <2>2. QED
    BY <1>4, <2>1, OutsideFrame DEF Close
<1>5. QED
  BY <1>1, <1>2, <1>3, <1>4 DEF Call

(***************************************************************************)
(* The invariant is inductive.                                             *)
(***************************************************************************)
THEOREM InvStep == Inv /\ [Next]_vars => Inv'
<1> SUFFICES ASSUME Inv, [Next]_vars PROVE Inv'
  OBVIOUS
<1>0. TypeOK'
  BY TypeStep
<1>1. CASE OperatorRollback
  <2>1. /\ db' = [db EXCEPT !.tables = @ \ {"memory_terms"}, !.terms = {}, !.version = 1]
        /\ work' = db' /\ rollbacks' # 0 /\ lock' = lock /\ lock = NoConnection
        /\ UNCHANGED <<pc, put, target>> /\ BaseTables \subseteq db.tables
    BY <1>1 DEF OperatorRollback, Inv, TypeOK
  <2>2. db'.tables = BaseTables /\ db'.terms = {} /\ db'.version = 1
    <3>1. db.tables \in SUBSET AllTables /\ db'.tables = db.tables \ {"memory_terms"}
      BY <2>1 DEF Inv, TypeOK, Database
    <3>2. db'.tables = BaseTables
      BY <2>1, <3>1 DEF AllTables, BaseTables
    <3>3. QED
      BY <2>1, <3>2 DEF Inv, TypeOK, Database
  <2>3. Indexed(db)' /\ SchemaMatches(db)'
    BY <2>2 DEF Indexed, SchemaMatches, IndexedAt, BaseTables
  <2>4. ASSUME NEW c \in Connection
        PROVE  HoldsLock(c)' /\ HasPut(c)' /\ TablesInUse(c)' /\ lock' # c
    BY <2>1, <2>2, ConnectionAssumption DEF Inv, HoldsLock, HasPut, TablesInUse
  <2>5. QED
    BY <1>0, <2>1, <2>3, <2>4 DEF Inv
<1>2. ASSUME NEW c \in Connection, BusyTimeout(c) \/ StatementFails(c) PROVE Inv'
  BY <1>0, <1>2, RaiseStep DEF BusyTimeout, StatementFails, Begin, InTransaction, Migrating, Putting, Appending
<1>3. ASSUME NEW c \in Connection, Crash(c) PROVE Inv'
  BY <1>0, <1>3, ReleaseFrame DEF Crash
<1>4. CASE UNCHANGED vars
  <2>1. Indexed(db)' /\ SchemaMatches(db)'
    BY <1>4 DEF vars, Inv, Indexed, SchemaMatches
  <2>2. ASSUME NEW c \in Connection
        PROVE  HoldsLock(c)' /\ HasPut(c)' /\ TablesInUse(c)' /\ (lock' = c => Staged(c)')
    BY <1>4 DEF vars, Inv, HoldsLock, HasPut, TablesInUse, Staged, StagedTerms, StagedSchema,
                StagedRows, StagedEvents, Indexed
  <2>3. QED
    BY <1>0, <1>4, <2>1, <2>2 DEF vars, Inv
<1>5. QED
  BY <1>0, <1>1, <1>2, <1>3, <1>4, MigrationInv, WriteInv, CallInv DEF Next, Step, Progress

(***************************************************************************)
(* In every reachable state the open transaction differs from the          *)
(* committed database by exactly the statements executed so far, and       *)
(* index, schema marker and rows agree (sqlite_store.py, migrations.py).   *)
(***************************************************************************)
THEOREM Invariance == Spec => []Inv
  BY InitInv, InvStep, PTL DEF Spec

(***************************************************************************)
(* Every variable of the store keeps its type.                             *)
(***************************************************************************)
THEOREM TypeCorrect == Spec => []TypeOK
<1>1. Inv => TypeOK
  BY DEF Inv
<1>2. QED
  BY <1>1, Invariance, PTL

(***************************************************************************)
(* A connection that came out of SQLiteStore.__init__ finds every table    *)
(* its statements name, unless an operator has dropped the index.          *)
(***************************************************************************)
THEOREM TablesFound == Spec => []OpenFindsTables
<1>1. Inv => OpenFindsTables
  BY DEF Inv, OpenFindsTables, TablesInUse, Migrating, Opening
<1>2. QED
  BY <1>1, Invariance, PTL

(***************************************************************************)
(* candidate_ids through memory_terms answers every query on every scope   *)
(* as the reference store does from the texts, at every committed state.   *)
(***************************************************************************)
THEOREM IndexAgreesWithPort == Spec => []CandidatesMatchPort
<1>1. ASSUME Inv, "memory_terms" \in db.tables,
             NEW terms \in SUBSET Term, NEW scope \in Scope
      PROVE  CandidateIds(terms, scope) = Port!CandidateIds(terms, scope)
  <2>1. db.terms = TermsOfRows(db.rows) /\ db.rows \in [MemoryId -> Memory \cup {NoRow}]
    BY <1>1 DEF Inv, Indexed, TypeOK, Database
  <2>2. ASSUME NEW id \in MemoryId
        PROVE  (\E t \in terms : <<id, t>> \in db.terms) <=> RowTerms(db.rows[id]) \cap terms # {}
    BY <2>1 DEF TermsOfRows
  <2>3. \A id \in MemoryId : RowTerms(db.rows[id]) = Port!TermsOf(db.rows[id])
    BY DEF RowTerms, Port!TermsOf
  <2>4. QED
    BY <2>2, <2>3 DEF CandidateIds, Port!CandidateIds
<1>2. Inv => CandidatesMatchPort
  BY <1>1 DEF CandidatesMatchPort
<1>3. QED
  BY <1>2, Invariance, PTL

(* A step changes a stored row or the log only by the commit of a put or of *)
(* an event, and then as that call asked.                                   *)
LEMMA CommittedChange ==
    ASSUME Inv, [Next]_vars
    PROVE  \/ \E c \in Connection : PutCommit(c) /\ lock = c
                /\ db'.rows = [db.rows EXCEPT ![put[c].id] = put[c].memory]
                /\ db'.events = db.events
                /\ put[c] \in [id : MemoryId, memory : Memory]
           \/ db'.rows = db.rows /\ db.events \subseteq db'.events
<1>1. CASE OperatorRollback
  BY <1>1 DEF OperatorRollback, Inv, TypeOK, Database
<1>2. ASSUME NEW c \in Connection, PutCommit(c)
      PROVE  /\ lock = c /\ put[c] \in [id : MemoryId, memory : Memory]
             /\ db'.rows = [db.rows EXCEPT ![put[c].id] = put[c].memory]
             /\ db'.events = db.events
  <2>1. lock = c /\ Staged(c) /\ pc[c] = "put_commit" /\ put[c] \in [id : MemoryId, memory : Memory]
    BY <1>2, AtLabel DEF PutCommit, InTransaction, Putting, HasPut
  <2>2. QED
    BY <1>2, <2>1 DEF PutCommit, Staged, StagedRows, StagedEvents, Appending
<1>3. ASSUME NEW c \in Connection, EventCommit(c) \/ MigrationCommit(c)
      PROVE  db'.rows = db.rows /\ db.events \subseteq db'.events
  <2>1. lock = c /\ Staged(c) /\ pc[c] \in {"event_commit", "migration_commit"}
    BY <1>3, AtLabel DEF EventCommit, MigrationCommit, InTransaction, Appending, Migrating
  <2>2. QED
    BY <1>3, <2>1 DEF EventCommit, MigrationCommit, Staged, StagedRows, StagedEvents
<1>4. CASE UNCHANGED db
  BY <1>4
<1>5. ASSUME NEW c \in Connection, Step(c) \/ Call(c) \/ Crash(c)
      PROVE  PutCommit(c) \/ EventCommit(c) \/ MigrationCommit(c) \/ UNCHANGED db
  BY <1>5 DEF Step, Progress, Call, Crash, MigrationStep, WriteStep, BusyTimeout, StatementFails, Raise,
       ReadVersion, MigrationBegin, MigrationCreate, MigrationBackfill, InsertTerm,
       MigrationNullText, MigrationBackfilled, MigrationVersion, BeginImmediate, PutBegin, PutRow,
       PutDeleteTerms, PutRaises, PutTerm, PutTermsDone, EventBegin, EventRow,
       Open, Put, AppendEvent, Close
<1>6. QED
  BY <1>1, <1>2, <1>3, <1>4, <1>5 DEF Next, vars

(***************************************************************************)
(* No put, migration, rollback, failure or crash removes a stored memory   *)
(* or an activity event.                                                   *)
(***************************************************************************)
THEOREM NothingIsLost == Spec => NothingLost
<1>1. Inv /\ [Next]_vars =>
         [/\ \A id \in MemoryId : db.rows[id] # NoRow => db'.rows[id] # NoRow
          /\ db.events \subseteq db'.events]_vars
  <2> SUFFICES ASSUME Inv, [Next]_vars
               PROVE  /\ \A id \in MemoryId : db.rows[id] # NoRow => db'.rows[id] # NoRow
                      /\ db.events \subseteq db'.events
    OBVIOUS
  <2>1. ASSUME NEW c \in Connection, put[c] \in [id : MemoryId, memory : Memory],
               db'.rows = [db.rows EXCEPT ![put[c].id] = put[c].memory],
               NEW id \in MemoryId, db.rows[id] # NoRow
        PROVE  db'.rows[id] # NoRow
    BY <2>1, MemoryAssumption DEF Inv, TypeOK, Database
  <2>2. QED
    BY <2>1, CommittedChange
<1>2. QED
  BY <1>1, Invariance, PTL DEF Spec, NothingLost

(***************************************************************************)
(* When SQLiteStore.__init__ returns, the database is at the latest        *)
(* version with all tables, although other openers migrate it at the same  *)
(* time.                                                                   *)
(***************************************************************************)
THEOREM ConstructorReachesLatest == Spec => OpenReachesLatest
<1>1. Inv /\ [Next]_vars =>
         [\A c \in Connection :
             pc[c] \in Opening \cup Migrating /\ pc'[c] = "idle" =>
                db'.version = LATEST_SCHEMA_VERSION /\ db'.tables = AllTables]_vars
  <2> SUFFICES ASSUME Inv, [Next]_vars, NEW c \in Connection,
                      pc[c] \in Opening \cup Migrating, pc'[c] = "idle"
               PROVE  db'.version = LATEST_SCHEMA_VERSION /\ db'.tables = AllTables
    OBVIOUS
  <2> USE DEF Opening, Migrating
  <2>0. pc \in [Connection -> PC] /\ pc'[c] # pc[c]
    BY DEF Inv, TypeOK
  <2>1. CASE ReadVersion(c)
    <3>1. db.version \in Nat /\ db.version = LATEST_SCHEMA_VERSION /\ db' = db
      BY <2>0, <2>1 DEF ReadVersion, Goto, Inv, TypeOK, Database
    <3>2. QED
      BY <3>1 DEF Inv, SchemaMatches, IndexedAt, LATEST_SCHEMA_VERSION
  <2>2. CASE MigrationCommit(c)
    <3>1. target[c] = LATEST_SCHEMA_VERSION /\ pc[c] = "migration_commit" /\ db' = work
      BY <2>0, <2>2 DEF MigrationCommit, Goto
    <3>2. Staged(c) /\ TablesInUse(c)
      BY <3>1, AtLabel DEF InTransaction
    <3>3. work.version = LATEST_SCHEMA_VERSION /\ work.tables = db.tables \cup {"memory_terms"}
      BY <3>1, <3>2 DEF Staged, StagedSchema, LATEST_SCHEMA_VERSION
    <3>4. BaseTables \subseteq db.tables /\ db.tables \subseteq AllTables
      BY <3>1, <3>2 DEF TablesInUse, LATEST_SCHEMA_VERSION, Inv, TypeOK, Database
    <3>5. QED
      BY <3>1, <3>3, <3>4 DEF AllTables
  <2>3. ASSUME ~ReadVersion(c), ~MigrationCommit(c), MigrationStep(c) PROVE FALSE
    BY <2>0, <2>3 DEF MigrationStep, MigrationBegin, BeginImmediate, MigrationCreate,
       MigrationBackfill, InsertTerm, MigrationNullText, MigrationBackfilled, MigrationVersion,
       Raise, Goto
  <2>4. ASSUME WriteStep(c) \/ Call(c) PROVE FALSE
    BY <2>0, <2>4 DEF WriteStep, PutBegin, PutRow, PutDeleteTerms, PutRaises, PutTerm,
       PutTermsDone, PutCommit, EventBegin, EventRow, EventCommit, Call, Open, Put, AppendEvent,
       Close, Goto
  <2>5. ASSUME BusyTimeout(c) \/ StatementFails(c) \/ Crash(c) PROVE FALSE
    BY <2>0, <2>5 DEF BusyTimeout, StatementFails, Crash, Raise, Goto
  <2>6. ASSUME NEW d \in Connection, d # c, Step(d) \/ Call(d) \/ Crash(d) PROVE FALSE
    <3>1. \/ pc' = pc
          \/ \E label \in {pc'[d]} : pc' = [pc EXCEPT ![d] = label]
      BY <2>0, <2>6 DEF Step, Progress, MigrationStep, ReadVersion, MigrationBegin, BeginImmediate, MigrationCreate,
       MigrationBackfill, InsertTerm, MigrationNullText, MigrationBackfilled, MigrationVersion,
       MigrationCommit, BusyTimeout, StatementFails, Crash, Raise, Goto,
       WriteStep, PutBegin, PutRow, PutDeleteTerms, PutRaises, PutTerm,
       PutTermsDone, PutCommit, EventBegin, EventRow, EventCommit, Call, Open, Put, AppendEvent,
       Close
    <3>2. QED
      BY <2>0, <2>6, <3>1
  <2>7. CASE OperatorRollback \/ UNCHANGED vars
    BY <2>0, <2>7 DEF OperatorRollback, vars
  <2>8. QED
    BY <2>1, <2>2, <2>3, <2>4, <2>5, <2>6, <2>7 DEF Next, Step, Progress
<1>2. QED
  BY <1>1, Invariance, PTL DEF Spec, OpenReachesLatest

(***************************************************************************)
(* SQLiteStore implements the MemoryStore port: each put takes effect at   *)
(* its commit, whole, or raises and leaves nothing.                        *)
(***************************************************************************)
THEOREM Refinement == Spec => ImplementsPort
<1>1. Init => Port!Init
  <2>1. Init => Inv
    BY InitInv
  <2>2. QED
    BY <2>1 DEF Init, Port!Init, Inv, TypeOK, Database
<1>2. Inv /\ Inv' /\ [Next]_vars => [Port!Next]_(Port!storeVars)
  <2> SUFFICES ASSUME Inv, Inv', [Next]_vars PROVE [Port!Next]_(Port!storeVars)
    OBVIOUS
  <2>1. put \in [Connection -> [id : MemoryId, memory : Memory] \cup {NoPut}]
        /\ outcome \in [Connection -> {"none", "stored", "raised"}]
        /\ \A c \in Connection : HasPut(c)
    BY DEF Inv, TypeOK
  <2>2. ASSUME NEW c \in Connection, Raise(c) \/ Crash(c) PROVE [Port!Next]_(Port!storeVars)
    <3>1. CASE put[c] = NoPut
      <4>1. put' = put /\ outcome' = outcome /\ db' = db
        BY <2>1, <2>2, <3>1 DEF Raise, Crash
      <4>2. QED
        BY <4>1 DEF Port!storeVars
    <3>2. CASE put[c] # NoPut
      <4>1. Port!Refuse(c)
        BY <2>2, <3>2 DEF Raise, Crash, Port!Refuse
      <4>2. QED
        BY <4>1 DEF Port!Next
    <3>3. QED
      BY <3>1, <3>2
  <2>3. ASSUME NEW c \in Connection, Put(c) PROVE [Port!Next]_(Port!storeVars)
    <3>1. put[c] = NoPut
      BY <2>1, <2>3 DEF Put, HasPut, Putting
    <3>2. Port!Request(c)
      BY <2>3, <3>1 DEF Put, Port!Request
    <3>3. QED
      BY <3>2 DEF Port!Next
  <2>4. ASSUME NEW c \in Connection, PutCommit(c), put[c] \in [id : MemoryId, memory : Memory],
               db'.rows = [db.rows EXCEPT ![put[c].id] = put[c].memory]
        PROVE  [Port!Next]_(Port!storeVars)
    <3>1. Port!Put(c)
      BY <2>4, PutAssumption DEF PutCommit, Port!Put
    <3>2. QED
      BY <3>1 DEF Port!Next
  <2>5. ASSUME db'.rows = db.rows, put' = put, outcome' = outcome
        PROVE  [Port!Next]_(Port!storeVars)
    BY <2>5 DEF Port!storeVars
  <2>6. ASSUME NEW c \in Connection, Step(c) \/ Call(c)
        PROVE  Raise(c) \/ Put(c) \/ PutCommit(c) \/ (put' = put /\ outcome' = outcome)
    BY <2>6 DEF Step, Progress, MigrationStep, ReadVersion, MigrationBegin, BeginImmediate, MigrationCreate,
       MigrationBackfill, InsertTerm, MigrationNullText, MigrationBackfilled, MigrationVersion,
       MigrationCommit, BusyTimeout, StatementFails,
       WriteStep, PutBegin, PutRow, PutDeleteTerms, PutRaises, PutTerm,
       PutTermsDone, EventBegin, EventRow, EventCommit, Call, Open, AppendEvent, Close
  <2>7. CASE \E c \in Connection : /\ PutCommit(c)
                                    /\ put[c] \in [id : MemoryId, memory : Memory]
                                    /\ db'.rows = [db.rows EXCEPT ![put[c].id] = put[c].memory]
    BY <2>4, <2>7
  <2>8. CASE db'.rows = db.rows
    <3>1. CASE OperatorRollback \/ UNCHANGED vars
      BY <2>5, <2>8, <3>1 DEF OperatorRollback, vars
    <3>2. ASSUME NEW c \in Connection, PutCommit(c)
          PROVE  put[c] \in [id : MemoryId, memory : Memory]
                 /\ db'.rows = [db.rows EXCEPT ![put[c].id] = put[c].memory]
      <4>1. lock = c /\ Staged(c) /\ pc[c] = "put_commit"
            /\ put[c] \in [id : MemoryId, memory : Memory]
        BY <3>2, AtLabel DEF PutCommit, InTransaction, Putting, HasPut
      <4>2. QED
        BY <3>2, <4>1 DEF PutCommit, Staged, StagedRows
    <3>3. QED
      BY <2>2, <2>3, <2>4, <2>5, <2>6, <2>8, <3>1, <3>2 DEF Next
  <2>9. QED
    BY <2>7, <2>8, CommittedChange
<1>3. QED
  BY <1>1, <1>2, Invariance, PTL DEF Spec, ImplementsPort, Port!Spec

(***************************************************************************)
(* The text of a memory is checked between the INSERT of its row and the   *)
(* commit, so no memory without text is ever committed where the index is  *)
(* (sqlite_store.py put; migrations.py _migration_2 for the rows of older  *)
(* databases). TextInv adds what the steps after the check know.           *)
(***************************************************************************)
LEMMA TextInit == Init => TextInv
<1> SUFFICES ASSUME Init PROVE TextInv
  OBVIOUS
<1>1. IndexedRowsHaveText
  <2>1. CASE db = FreshDatabase
    BY <2>1 DEF IndexedRowsHaveText, FreshDatabase
  <2>2. ASSUME NEW v \in 0..(LATEST_SCHEMA_VERSION + 1), NEW rows \in InitialRows,
               IndexedAt(v) => NullRows(rows) = {}, db = OlderDatabase(v, rows)
        PROVE  IndexedRowsHaveText
    BY <2>2 DEF IndexedRowsHaveText, OlderDatabase, BaseTables
  <2>3. QED
    BY <2>1, <2>2 DEF Init
<1>2. \A c \in Connection : TextChecked(c)
  BY DEF Init, TextChecked
<1>3. QED
  BY <1>1, <1>2 DEF TextInv

(* A step that commits nothing keeps TextInv, if it is no step past a check *)
(* that has not been made.                                                  *)
LEMMA TextFrame ==
    ASSUME Inv, TextInv, NEW c \in Connection, db' = db,
           \A d \in Connection \ {c} : UNCHANGED <<pc[d], put[d], target[d]>>,
           TextChecked(c)'
    PROVE  TextInv'
<1>1. IndexedRowsHaveText'
  BY DEF TextInv, IndexedRowsHaveText
<1>2. ASSUME NEW d \in Connection \ {c} PROVE TextChecked(d)'
  BY <1>2 DEF TextInv, TextChecked
<1>3. QED
  BY <1>1, <1>2 DEF TextInv

(* Each step keeps it: only the commits of a put and of a migration        *)
(* matter.                                                                 *)
LEMMA TextStep == ASSUME Inv, TextInv, [Next]_vars PROVE TextInv'
<1> USE DEF Goto
<1>0. TypeOK /\ TypeOK'
  BY TypeStep DEF Inv
<1>1. CASE OperatorRollback
  BY <1>0, <1>1 DEF OperatorRollback, TextInv, IndexedRowsHaveText, TextChecked, TypeOK, Database
<1>2. ASSUME NEW c \in Connection, Raise(c) \/ Crash(c) PROVE TextInv'
  <2>1. pc'[c] \in {"closed", "idle"} /\ db' = db
        /\ \A d \in Connection \ {c} : UNCHANGED <<pc[d], put[d], target[d]>>
    BY <1>0, <1>2 DEF Raise, Crash, TypeOK
  <2>2. QED
    BY <2>1, TextFrame DEF TextChecked
<1>3. ASSUME NEW c \in Connection, Call(c) PROVE TextInv'
  <2>1. pc'[c] \in {"opening", "put_begin", "event_begin", "closed"} /\ db' = db
        /\ \A d \in Connection \ {c} : UNCHANGED <<pc[d], put[d], target[d]>>
    BY <1>0, <1>3 DEF Call, Open, Put, AppendEvent, Close, TypeOK
  <2>2. QED
    BY <2>1, TextFrame DEF TextChecked
<1>4. ASSUME NEW c \in Connection,
             \/ ReadVersion(c) \/ MigrationBegin(c) \/ MigrationCreate(c)
             \/ PutBegin(c) \/ PutRow(c) \/ EventBegin(c) \/ EventRow(c)
      PROVE  TextInv'
  <2>1. /\ pc'[c] \in {"closed", "idle", "migration_begin", "migration_create",
                       "migration_backfill", "migration_version", "put_row",
                       "put_delete_terms", "event_row", "event_commit"}
        /\ pc'[c] = "migration_version" => target'[c] = 1
    BY <1>0, <1>4 DEF ReadVersion, MigrationBegin, MigrationCreate, BeginImmediate, PutBegin,
                      PutRow, EventBegin, EventRow, TypeOK
  <2>2. /\ db' = db
        /\ \A d \in Connection \ {c} : UNCHANGED <<pc[d], put[d], target[d]>>
    BY <1>0, <1>4 DEF ReadVersion, MigrationBegin, MigrationCreate, BeginImmediate, PutBegin,
                      PutRow, EventBegin, EventRow, TypeOK
  <2>3. QED
    BY <2>1, <2>2, TextFrame DEF TextChecked
<1>5. ASSUME NEW c \in Connection, MigrationBackfilled(c) PROVE TextInv'
  <2>1. pc[c] = "migration_backfill" /\ lock = c /\ Staged(c)
    BY <1>5, AtLabel DEF MigrationBackfilled, InTransaction, Migrating
  <2>2. NullRows(db.rows) = {}
    BY <1>5, <2>1 DEF MigrationBackfilled, Staged, StagedRows
  <2>3. TextChecked(c)'
    BY <1>0, <1>5, <2>2 DEF MigrationBackfilled, TextChecked, TypeOK
  <2>4. QED
    BY <1>0, <1>5, <2>3, TextFrame DEF MigrationBackfilled, TypeOK
<1>6. ASSUME NEW c \in Connection,
             \/ MigrationBackfill(c) \/ MigrationVersion(c) \/ PutDeleteTerms(c)
             \/ PutTerm(c) \/ PutTermsDone(c)
      PROVE  TextInv'
  <2>1. TextChecked(c)'
    BY <1>0, <1>6 DEF MigrationBackfill, MigrationVersion, PutDeleteTerms, PutTerm, PutTermsDone,
                      InsertTerm, TextInv, TextChecked, TypeOK
  <2>2. QED
    BY <1>0, <1>6, <2>1, TextFrame
       DEF MigrationBackfill, MigrationVersion, PutDeleteTerms, PutTerm, PutTermsDone,
           InsertTerm, TypeOK
<1>7. ASSUME NEW c \in Connection, MigrationCommit(c) PROVE TextInv'
  <2>1. lock = c /\ Staged(c) /\ pc[c] = "migration_commit" /\ target[c] \in {1, 2}
    BY <1>0, <1>7, AtLabel DEF MigrationCommit, InTransaction, Migrating, TypeOK,
                               LATEST_SCHEMA_VERSION
  <2>2. /\ db'.rows = db.rows
        /\ db'.tables = db.tables \cup IF target[c] = 1 THEN BaseTables ELSE {"memory_terms"}
    BY <1>7, <2>1 DEF MigrationCommit, Staged, StagedRows, StagedSchema, Migrating
  <2>3. target[c] = 2 => NullRows(db.rows) = {}
    BY <2>1 DEF TextInv, TextChecked
  <2>4. IndexedRowsHaveText'
    BY <2>1, <2>2, <2>3 DEF TextInv, IndexedRowsHaveText, BaseTables
  <2>5. ASSUME NEW d \in Connection PROVE TextChecked(d)'
    BY <1>0, <1>7, <2>2 DEF MigrationCommit, TextInv, TextChecked, TypeOK
  <2>6. QED
    BY <2>4, <2>5 DEF TextInv
<1>8. ASSUME NEW c \in Connection, PutCommit(c) PROVE TextInv'
  <2>1. /\ lock = c /\ Staged(c) /\ pc[c] = "put_commit"
        /\ put[c] \in [id : MemoryId, memory : Memory]
    BY <1>8, AtLabel DEF PutCommit, InTransaction, Putting, HasPut
  <2>2. db'.tables = db.tables /\ db'.rows = [db.rows EXCEPT ![put[c].id] = put[c].memory]
    BY <1>8, <2>1 DEF PutCommit, Staged, StagedRows, StagedSchema, Migrating
  <2>3. put[c].memory.text # NullText /\ db.rows \in [MemoryId -> Memory \cup {NoRow}]
    BY <1>0, <2>1 DEF TextInv, TextChecked, TypeOK, Database
  <2>4. NullRows(db'.rows) \subseteq NullRows(db.rows)
    BY <2>2, <2>3 DEF NullRows
  <2>5. ASSUME NEW d \in Connection PROVE TextChecked(d)'
    <3>1. CASE d = c
      BY <1>0, <1>8, <3>1 DEF PutCommit, TextChecked, TypeOK
    <3>2. CASE d # c
      BY <1>0, <1>8, <2>4, <3>2 DEF PutCommit, TextInv, TextChecked, TypeOK
    <3>3. QED
      BY <3>1, <3>2
  <2>6. QED
    BY <2>2, <2>4, <2>5 DEF TextInv, IndexedRowsHaveText
<1>9. ASSUME NEW c \in Connection, EventCommit(c) PROVE TextInv'
  <2>1. lock = c /\ Staged(c) /\ pc[c] = "event_commit"
    BY <1>9, AtLabel DEF EventCommit, InTransaction, Appending
  <2>2. db'.tables = db.tables /\ db'.rows = db.rows
    BY <1>9, <2>1 DEF EventCommit, Staged, StagedRows, StagedSchema, Migrating
  <2>3. QED
    BY <1>0, <1>9, <2>2 DEF EventCommit, TextInv, IndexedRowsHaveText, TextChecked, TypeOK
<1>10. CASE UNCHANGED vars
  BY <1>10 DEF vars, TextInv, IndexedRowsHaveText, TextChecked
<1>11. QED
  BY <1>1, <1>2, <1>3, <1>4, <1>5, <1>6, <1>7, <1>8, <1>9, <1>10
     DEF Next, Step, Progress, MigrationStep, WriteStep, BusyTimeout, StatementFails,
         MigrationNullText, PutRaises

(***************************************************************************)
(* Where there is an index, no memory is without a text, whatever puts,    *)
(* migrations, failures and crashes have gone before.                      *)
(***************************************************************************)
THEOREM TextsIndexed == Spec => []IndexedRowsHaveText
<1>1. TextInv => IndexedRowsHaveText
  BY DEF TextInv
<1>2. QED
  BY <1>1, TextInit, TextStep, Invariance, PTL DEF Spec

(***************************************************************************)
(* A legacy database that holds a memory without text never gets to the    *)
(* version that has the index, however often and by however many openers   *)
(* it is tried (migrations.py:51 raises on that row).                      *)
(***************************************************************************)
THEOREM HeldBack == Spec => [](NullRows(db.rows) # {} => db.version <= 1)
<1>1. Inv /\ IndexedRowsHaveText => (NullRows(db.rows) # {} => db.version <= 1)
  BY DEF Inv, TypeOK, Database, SchemaMatches, IndexedAt, IndexedRowsHaveText, AllTables
<1>2. QED
  BY <1>1, Invariance, TextsIndexed, PTL

(***************************************************************************)
(* While openers race each other and nothing fails, a version set back is  *)
(* in repair: an opener that commits migration 1 over version 2 goes on to *)
(* migration 2, and every other step leaves the repairer where it is       *)
(* (migrations.py loop over the pending versions).                         *)
(***************************************************************************)
LEMMA OpenIsSpec == OpenSpec => [][Next]_vars
<1>1. OpenNext => Next
  BY DEF OpenNext, Next, Step, Progress, Call
<1>2. [OpenNext]_vars => [Next]_vars
  BY <1>1
<1>3. QED
  BY <1>2, PTL DEF OpenSpec

(* No constructor has returned at the start.                               *)
LEMMA RepairInit == Init => RegressUnderRepair
  BY DEF Init, RegressUnderRepair

(* Only the commit of migration 1 over version 2 takes the version back.   *)
LEMMA RepairStep == ASSUME Inv, RegressUnderRepair, [OpenNext]_vars PROVE RegressUnderRepair'
<1> DEFINE repairing(d) == /\ pc[d] \in {"migration_begin"} \cup Migrating
                           /\ target[d] = LATEST_SCHEMA_VERSION
<1> SUFFICES ASSUME NullRows(db'.rows) = {}, NEW e \in Connection, pc'[e] = "idle",
                    db'.version # LATEST_SCHEMA_VERSION
             PROVE  \E d \in Connection : repairing(d)'
  BY DEF RegressUnderRepair
<1> USE DEF Goto
<1>0. TypeOK /\ TypeOK'
  <2>1. [Next]_vars
    BY DEF OpenNext, Next, Step, Progress, Call
  <2>2. QED
    BY <2>1, TypeStep DEF Inv
<1>1. ASSUME NEW c \in Connection, MigrationCommit(c) PROVE \E d \in Connection : repairing(d)'
  <2>1. lock = c /\ Staged(c) /\ pc[c] = "migration_commit" /\ target[c] \in {1, 2}
    BY <1>0, <1>1, AtLabel DEF MigrationCommit, InTransaction, Migrating, TypeOK,
                               LATEST_SCHEMA_VERSION
  <2>2. db'.version = target[c]
    BY <1>1, <2>1 DEF MigrationCommit, Staged, StagedSchema
  <2>3. target[c] = 1
    BY <2>1, <2>2 DEF LATEST_SCHEMA_VERSION
  <2>4. pc'[c] = "migration_begin" /\ target'[c] = 2
    BY <1>0, <1>1, <2>3 DEF MigrationCommit, TypeOK, LATEST_SCHEMA_VERSION
  <2>5. QED
    BY <2>4 DEF LATEST_SCHEMA_VERSION
<1>2. ASSUME NEW c \in Connection, MigrationNullText(c) PROVE FALSE
  <2>1. pc[c] = "migration_backfill" /\ lock = c /\ Staged(c) /\ db' = db
    BY <1>2, AtLabel DEF MigrationNullText, Raise, InTransaction, Migrating
  <2>2. work.rows = db.rows
    BY <2>1 DEF Staged, StagedRows
  <2>3. QED
    BY <1>2, <2>1, <2>2 DEF MigrationNullText
<1>3. ASSUME NEW c \in Connection,
             \/ Open(c) \/ ReadVersion(c) \/ MigrationBegin(c) \/ MigrationCreate(c)
             \/ MigrationBackfill(c) \/ MigrationBackfilled(c) \/ MigrationVersion(c)
      PROVE  \E d \in Connection : repairing(d)'
  <2>1. /\ db' = db
        /\ pc'[c] = "idle" => db.version = LATEST_SCHEMA_VERSION
        /\ \A d \in Connection \ {c} : pc'[d] = pc[d] /\ target'[d] = target[d]
        /\ repairing(c) => repairing(c)'
    BY <1>0, <1>3 DEF Open, ReadVersion, MigrationBegin, MigrationCreate, MigrationBackfill,
       MigrationBackfilled, MigrationVersion, BeginImmediate, InsertTerm, Migrating, TypeOK
  <2>2. e # c /\ pc[e] = "idle"
    BY <2>1
  <2>3. PICK d \in Connection : repairing(d)
    BY <2>1, <2>2 DEF RegressUnderRepair
  <2>4. CASE d = c
    BY <2>1, <2>3, <2>4
  <2>5. CASE d # c
    BY <2>1, <2>3, <2>5
  <2>6. QED
    BY <2>4, <2>5
<1>4. CASE UNCHANGED vars
  BY <1>4 DEF vars, RegressUnderRepair
<1>5. QED
  BY <1>1, <1>2, <1>3, <1>4 DEF OpenNext, MigrationStep

(***************************************************************************)
(* Once a constructor has returned, the version is the latest or some      *)
(* opener is in the middle of the migration to it.                         *)
(***************************************************************************)
THEOREM RegressIsRepaired == OpenSpec => []RegressUnderRepair
<1>1. OpenSpec => []Inv
  BY OpenIsSpec, InitInv, InvStep, PTL DEF OpenSpec
<1>2. Inv /\ RegressUnderRepair /\ [OpenNext]_vars => RegressUnderRepair'
  BY RepairStep
<1>3. QED
  BY <1>1, <1>2, RepairInit, PTL DEF OpenSpec

(***************************************************************************)
(* The loops over terms end because a store holds finitely many memories   *)
(* of finitely many terms each.                                            *)
(***************************************************************************)
StoredIds(rows) == {id \in MemoryId : rows[id] # NoRow}

FiniteInv == IsFiniteSet(StoredIds(db.rows)) /\ \A c \in Connection : IsFiniteSet(todo[c])

(* A text has finitely many terms.                                         *)
LEMMA RowTermsFinite ==
    ASSUME NEW row \in Memory \cup {NoRow} PROVE IsFiniteSet(RowTerms(row))
<1>1. CASE RowTerms(row) = {}
  BY <1>1, FS_EmptySet
<1>2. CASE row # NoRow /\ row.text # NullText
  BY <1>2, MemoryAssumption, TextAssumption DEF RowTerms
<1>3. QED
  BY <1>1, <1>2 DEF RowTerms

(* The index of finitely many rows is finite.                              *)
LEMMA IndexFinite ==
    ASSUME NEW rows \in [MemoryId -> Memory \cup {NoRow}], IsFiniteSet(StoredIds(rows))
    PROVE  IsFiniteSet(TermsOfRows(rows))
<1> DEFINE S == StoredIds(rows)
           f == [id \in S |-> {id} \X RowTerms(rows[id])]
           T == {f[id] : id \in S}
<1>1. IsFiniteSet(T)
  <2>1. f \in Surjection(S, T)
    BY DEF Surjection
  <2>2. QED
    BY <2>1, FS_Surjection
<1>2. ASSUME NEW id \in S PROVE IsFiniteSet(f[id])
  <2>1. rows[id] \in Memory \cup {NoRow}
    BY DEF StoredIds
  <2>2. IsFiniteSet({id}) /\ IsFiniteSet(RowTerms(rows[id]))
    BY <2>1, FS_Singleton, RowTermsFinite
  <2>3. IsFiniteSet({id} \X RowTerms(rows[id]))
    BY <2>2, FS_Product
  <2>4. QED
    BY <2>3
<1>3. IsFiniteSet(UNION T)
  BY <1>1, <1>2, FS_UNION
<1>4. TermsOfRows(rows) \subseteq UNION T
  <2>1. ASSUME NEW p \in TermsOfRows(rows) PROVE p \in UNION T
    <3>1. p \in MemoryId \X Term /\ p[2] \in RowTerms(rows[p[1]])
      BY DEF TermsOfRows
    <3>2. p[1] \in S
      BY <3>1 DEF RowTerms, StoredIds
    <3>3. p \in f[p[1]]
      BY <3>1, <3>2
    <3>4. QED
      BY <3>2, <3>3
  <2>2. QED
    BY <2>1
<1>5. QED
  BY <1>3, <1>4, FS_Subset

(* Every database a store is opened on is finite.                          *)
LEMMA StoreFiniteInit == Init => FiniteInv
<1> SUFFICES ASSUME Init PROVE FiniteInv
  OBVIOUS
<1>1. IsFiniteSet(StoredIds(db.rows))
  <2>1. CASE db = FreshDatabase
    <3>1. StoredIds(db.rows) = {}
      BY <2>1 DEF StoredIds, FreshDatabase
    <3>2. QED
      BY <3>1, FS_EmptySet
  <2>2. ASSUME NEW v \in 0..(LATEST_SCHEMA_VERSION + 1), NEW rows \in InitialRows,
               db = OlderDatabase(v, rows)
        PROVE  IsFiniteSet(StoredIds(db.rows))
    BY <2>2, InitialAssumption DEF StoredIds, OlderDatabase
  <2>3. QED
    BY <2>1, <2>2 DEF Init
<1>2. \A c \in Connection : IsFiniteSet(todo[c])
  BY FS_EmptySet DEF Init
<1>3. QED
  BY <1>1, <1>2 DEF FiniteInv

(* A step leaves a loop what it had left, or less, or fills it with the     *)
(* terms of the stored memories or of the one that is put.                 *)
LEMMA TodoChange ==
    ASSUME Inv, [Next]_vars, NEW d \in Connection
    PROVE  \/ todo'[d] \subseteq todo[d]
           \/ todo'[d] = TermsOfRows(work.rows) /\ work.rows = db.rows
           \/ /\ todo'[d] = {put[d].id} \X Tokens[put[d].memory.text]
              /\ put[d].memory.text \in Text
<1>0. todo \in [Connection -> SUBSET (MemoryId \X Term)]
  BY DEF Inv, TypeOK
<1>1. ASSUME NEW c \in Connection, MigrationCreate(c), c = d
      PROVE  todo'[d] = {} \/ (todo'[d] = TermsOfRows(work.rows) /\ work.rows = db.rows)
  <2>1. Staged(c) /\ pc[c] = "migration_create"
    BY <1>1, AtLabel DEF MigrationCreate, InTransaction, Migrating
  <2>2. work.rows = db.rows
    BY <2>1 DEF Staged, StagedRows
  <2>3. QED
    BY <1>0, <1>1, <2>2 DEF MigrationCreate
<1>2. ASSUME NEW c \in Connection, PutDeleteTerms(c), c = d
      PROVE  /\ todo'[d] = {put[d].id} \X Tokens[put[d].memory.text]
             /\ put[d].memory.text \in Text
  <2>1. put[c] \in [id : MemoryId, memory : Memory]
    BY <1>2, AtLabel DEF PutDeleteTerms, HasPut, Putting
  <2>2. QED
    BY <1>0, <1>2, <2>1, MemoryAssumption DEF PutDeleteTerms
<1>3. ASSUME NEW c \in Connection, c # d, MigrationCreate(c) \/ PutDeleteTerms(c)
      PROVE  todo'[d] \subseteq todo[d]
  BY <1>0, <1>3 DEF MigrationCreate, PutDeleteTerms
<1>4. ASSUME NEW c \in Connection, Raise(c) \/ Crash(c) \/ InsertTerm(c)
      PROVE  todo'[d] \subseteq todo[d]
  BY <1>0, <1>4 DEF Raise, Crash, InsertTerm
<1>5. ASSUME todo' = todo PROVE todo'[d] \subseteq todo[d]
  BY <1>5
<1>6. ASSUME NEW c \in Connection, Step(c) \/ Call(c)
      PROVE  \/ todo' = todo \/ Raise(c) \/ InsertTerm(c)
             \/ MigrationCreate(c) \/ PutDeleteTerms(c)
  BY <1>6 DEF Step, Progress, MigrationStep, ReadVersion, MigrationBegin, BeginImmediate,
     MigrationBackfill, MigrationNullText, MigrationBackfilled, MigrationVersion,
     MigrationCommit, BusyTimeout, StatementFails, WriteStep, PutBegin, PutRow, PutRaises,
     PutTerm, PutTermsDone, PutCommit, EventBegin, EventRow, EventCommit, Call, Open, Put,
     AppendEvent, Close
<1>7. CASE OperatorRollback \/ UNCHANGED vars
  BY <1>5, <1>7 DEF OperatorRollback, vars
<1>8. QED
  BY <1>1, <1>2, <1>3, <1>4, <1>5, <1>6, <1>7 DEF Next

(* A step adds at most one memory, so the store stays finite, and so does  *)
(* what each loop has left.                                                *)
LEMMA StoreFiniteStep == ASSUME Inv, FiniteInv, [Next]_vars PROVE FiniteInv'
<1>0. /\ db.rows \in [MemoryId -> Memory \cup {NoRow}]
      /\ IsFiniteSet(StoredIds(db.rows)) /\ \A d \in Connection : IsFiniteSet(todo[d])
  BY DEF Inv, TypeOK, Database, FiniteInv
<1>1. IsFiniteSet(StoredIds(db'.rows))
  <2>1. ASSUME NEW c \in Connection, put[c] \in [id : MemoryId, memory : Memory],
               db'.rows = [db.rows EXCEPT ![put[c].id] = put[c].memory]
        PROVE  IsFiniteSet(StoredIds(db'.rows))
    <3>1. StoredIds(db'.rows) \subseteq StoredIds(db.rows) \cup {put[c].id}
      BY <1>0, <2>1 DEF StoredIds
    <3>2. IsFiniteSet(StoredIds(db.rows) \cup {put[c].id})
      BY <1>0, FS_AddElement
    <3>3. QED
      BY <3>1, <3>2, FS_Subset
  <2>2. QED
    BY <1>0, <2>1, CommittedChange
<1>2. ASSUME NEW d \in Connection PROVE IsFiniteSet(todo'[d])
  <2>1. CASE todo'[d] \subseteq todo[d]
    BY <1>0, <2>1, FS_Subset
  <2>2. CASE todo'[d] = TermsOfRows(work.rows) /\ work.rows = db.rows
    BY <1>0, <2>2, IndexFinite
  <2>3. CASE /\ todo'[d] = {put[d].id} \X Tokens[put[d].memory.text]
             /\ put[d].memory.text \in Text
    <3>1. IsFiniteSet({put[d].id}) /\ IsFiniteSet(Tokens[put[d].memory.text])
      BY <2>3, FS_Singleton, TextAssumption
    <3>2. QED
      BY <2>3, <3>1, FS_Product
  <2>4. QED
    BY <2>1, <2>2, <2>3, TodoChange
<1>3. QED
  BY <1>1, <1>2 DEF FiniteInv

(***************************************************************************)
(* A step of one connection leaves the others where they are.              *)
(***************************************************************************)
LEMMA StaysLocal ==
    ASSUME Inv, NEW c \in Connection, Step(c) \/ Call(c) \/ Crash(c), NEW d \in Connection \ {c}
    PROVE  UNCHANGED <<pc[d], target[d], todo[d]>>
<1>0. /\ pc \in [Connection -> PC] /\ todo \in [Connection -> SUBSET (MemoryId \X Term)]
      /\ target \in [Connection -> 1..LATEST_SCHEMA_VERSION]
  BY DEF Inv, TypeOK
<1>1. CASE Raise(c) \/ Crash(c)
  BY <1>0, <1>1 DEF Raise, Crash, Goto
<1>2. CASE Call(c)
  BY <1>0, <1>2 DEF Call, Open, Put, AppendEvent, Close, Goto
<1>3. CASE MigrationStep(c) /\ ~Raise(c)
  BY <1>0, <1>3 DEF MigrationStep, ReadVersion, MigrationBegin, BeginImmediate, MigrationCreate,
     MigrationBackfill, InsertTerm, MigrationNullText, MigrationBackfilled, MigrationVersion,
     MigrationCommit, Goto
<1>4. CASE WriteStep(c) /\ ~Raise(c)
  BY <1>0, <1>4 DEF WriteStep, PutBegin, BeginImmediate, PutRow, PutDeleteTerms, PutRaises, PutTerm,
     InsertTerm, PutTermsDone, PutCommit, EventBegin, EventRow, EventCommit, Goto
<1>5. QED
  BY <1>1, <1>2, <1>3, <1>4 DEF Step, Progress, BusyTimeout, StatementFails

(* An insertion leaves one term less to insert.                            *)
LEMMA LoopAdvances ==
    ASSUME Inv, FiniteInv, NEW c \in Connection, InsertTerm(c)
    PROVE  Advances(c)
<1>1. PICK p \in todo[c] : todo'[c] = todo[c] \ {p}
  BY DEF InsertTerm, Inv, TypeOK
<1>2. /\ Cardinality(todo[c]) \in Nat /\ Cardinality(todo[c] \ {p}) \in Nat
      /\ Cardinality(todo[c] \ {p}) = Cardinality(todo[c]) - 1
  BY <1>1, FS_RemoveElement, FS_CardinalityType DEF FiniteInv
<1>3. Cardinality(todo[c])' = Cardinality(todo[c]) - 1 /\ pc' = pc
  BY <1>1, <1>2 DEF InsertTerm
<1>4. Cardinality(todo[c])' \in 0..(Cardinality(todo[c]) - 1)
  BY <1>1, <1>2
<1>5. QED
  BY <1>3, <1>4 DEF Advances

(* Every step of a call brings it nearer to its end.                       *)
LEMMA StoreMoveAdvances ==
    ASSUME Inv, FiniteInv, NEW c \in Connection, Step(c) \/ Crash(c), pc[c] \in Calling
    PROVE  Advances(c)
<1> USE DEF Goto
<1>0. /\ pc \in [Connection -> PC] /\ target \in [Connection -> {1, 2}]
      /\ target[c] \in {1, 2} /\ db.version \in Nat
  BY DEF Inv, TypeOK, Database, LATEST_SCHEMA_VERSION
<1>1. ASSUME pc'[c] \in {"idle", "closed"} PROVE Advances(c)
  <2>1. LabelsLeft(c)' = 0
    BY <1>1 DEF LabelsLeft, LabelsFrom, Migrating
  <2>2. LabelsFrom[pc[c]] \in Nat /\ LabelsFrom[pc[c]] > 0
    BY DEF LabelsFrom, Calling, Opening, InTransaction, Migrating, Putting, Appending, Begin
  <2>3. LabelsLeft(c) > 0
    BY <1>0, <2>2 DEF LabelsLeft, LATEST_SCHEMA_VERSION
  <2>4. QED
    BY <2>1, <2>3 DEF Advances
<1>2. CASE Raise(c) \/ Crash(c)
  BY <1>0, <1>1, <1>2 DEF Raise, Crash
<1>3. CASE MigrationStep(c) /\ ~Raise(c) /\ ~InsertTerm(c)
  <2>1. \/ pc'[c] \in {"idle", "closed"}
        \/ /\ \/ pc[c] = "migration_begin" /\ pc'[c] = "migration_create"
              \/ pc[c] = "migration_create" /\ pc'[c] \in {"migration_backfill", "migration_version"}
              \/ pc[c] = "migration_backfill" /\ pc'[c] = "migration_version"
              \/ pc[c] = "migration_version" /\ pc'[c] = "migration_commit"
           /\ target' = target
        \/ pc[c] = "opening" /\ pc'[c] = "migration_begin" /\ target'[c] \in {1, 2}
        \/ /\ pc[c] = "migration_commit" /\ pc'[c] = "migration_begin"
           /\ target[c] = 1 /\ target'[c] = 2
    <3>1. CASE ReadVersion(c)
      <4>1. (IF db.version >= LATEST_SCHEMA_VERSION THEN 1 ELSE db.version + 1) \in {1, 2}
        BY <1>0, FirstPending DEF LATEST_SCHEMA_VERSION
      <4>2. QED
        BY <1>0, <3>1, <4>1 DEF ReadVersion
    <3>2. CASE MigrationCommit(c)
      BY <1>0, <3>2 DEF MigrationCommit, LATEST_SCHEMA_VERSION
    <3>3. QED
      BY <1>0, <1>3, <3>1, <3>2 DEF MigrationStep, MigrationBegin, BeginImmediate, MigrationCreate,
         MigrationBackfill, MigrationNullText, MigrationBackfilled, MigrationVersion
  <2>2. ASSUME /\ \/ pc[c] = "migration_begin" /\ pc'[c] = "migration_create"
                  \/ pc[c] = "migration_create" /\ pc'[c] \in {"migration_backfill", "migration_version"}
                  \/ pc[c] = "migration_backfill" /\ pc'[c] = "migration_version"
                  \/ pc[c] = "migration_version" /\ pc'[c] = "migration_commit"
               /\ target' = target
        PROVE  Advances(c)
    <3>1. /\ LabelsFrom[pc[c]] \in Nat /\ LabelsFrom[pc'[c]] \in Nat
          /\ LabelsFrom[pc'[c]] < LabelsFrom[pc[c]]
      BY <2>2 DEF LabelsFrom
    <3>2. pc[c] \in {"migration_begin"} \cup Migrating /\ pc'[c] \in {"migration_begin"} \cup Migrating
      BY <2>2 DEF Migrating
    <3>3. /\ LabelsLeft(c) = LabelsFrom[pc[c]] + 5 * (2 - target[c])
          /\ LabelsLeft(c)' = LabelsFrom[pc'[c]] + 5 * (2 - target[c])
      BY <2>2, <3>2 DEF LabelsLeft, LATEST_SCHEMA_VERSION
    <3>4. QED
      BY <1>0, <3>1, <3>3 DEF Advances
  <2>3. ASSUME pc[c] = "opening", pc'[c] = "migration_begin", target'[c] \in {1, 2}
        PROVE  Advances(c)
    <3>1. LabelsLeft(c) = 11 /\ LabelsLeft(c)' = 5 + 5 * (2 - target'[c])
      BY <2>3 DEF LabelsLeft, LabelsFrom, Migrating, LATEST_SCHEMA_VERSION
    <3>2. QED
      BY <2>3, <3>1 DEF Advances
  <2>4. ASSUME pc[c] = "migration_commit", pc'[c] = "migration_begin", target[c] = 1, target'[c] = 2
        PROVE  Advances(c)
    <3>1. LabelsLeft(c) = 6 /\ LabelsLeft(c)' = 5
      BY <2>4 DEF LabelsLeft, LabelsFrom, Migrating, LATEST_SCHEMA_VERSION
    <3>2. QED
      BY <3>1 DEF Advances
  <2>5. QED
    BY <1>1, <2>1, <2>2, <2>3, <2>4
<1>4. CASE WriteStep(c) /\ ~Raise(c) /\ ~InsertTerm(c)
  <2>1. \/ pc'[c] \in {"idle", "closed"}
        \/ pc[c] = "put_begin" /\ pc'[c] = "put_row"
        \/ pc[c] = "put_row" /\ pc'[c] = "put_delete_terms"
        \/ pc[c] = "put_delete_terms" /\ pc'[c] = "put_terms"
        \/ pc[c] = "put_terms" /\ pc'[c] = "put_commit"
        \/ pc[c] = "event_begin" /\ pc'[c] = "event_row"
        \/ pc[c] = "event_row" /\ pc'[c] = "event_commit"
    BY <1>0, <1>4 DEF WriteStep, PutBegin, BeginImmediate, PutRow, PutDeleteTerms, PutRaises, PutTerm,
       PutTermsDone, PutCommit, EventBegin, EventRow, EventCommit
  <2>2. CASE pc'[c] \notin {"idle", "closed"}
    <3>1. LabelsLeft(c) = LabelsFrom[pc[c]] /\ LabelsLeft(c)' = LabelsFrom[pc'[c]]
      <4>1. pc[c] \notin {"migration_begin"} \cup Migrating /\ pc'[c] \notin {"migration_begin"} \cup Migrating
            /\ LabelsFrom[pc[c]] \in Nat /\ LabelsFrom[pc'[c]] \in Nat
        BY <2>1, <2>2 DEF Migrating, LabelsFrom
      <4>2. QED
        BY <4>1 DEF LabelsLeft
    <3>2. LabelsFrom[pc'[c]] < LabelsFrom[pc[c]]
      BY <2>1, <2>2 DEF LabelsFrom
    <3>3. QED
      BY <3>1, <3>2 DEF Advances
  <2>3. QED
    BY <1>1, <2>2
<1>5. CASE InsertTerm(c)
  BY <1>5, LoopAdvances
<1>6. QED
  BY <1>2, <1>3, <1>4, <1>5 DEF Step, Progress, BusyTimeout, StatementFails

(***************************************************************************)
(* No call on the store runs on for ever: every step of a call, of         *)
(* whatever interleaving and whatever fails, brings it nearer to its end   *)
(* and moves no other connection.                                          *)
(***************************************************************************)
THEOREM CallsAdvance == Spec => EveryStepAdvances
<1> DEFINE Moved == \E c \in Connection :
              /\ pc[c] \in Calling => Advances(c)
              /\ \A d \in Connection \ {c} : UNCHANGED <<pc[d], target[d], todo[d]>>
<1>1. ASSUME Inv, FiniteInv, Next
      PROVE  (rollbacks' = rollbacks + 1 /\ UNCHANGED <<pc, target, todo>>) \/ Moved
  <2>1. CASE OperatorRollback
    BY <2>1 DEF OperatorRollback
  <2>2. ASSUME NEW c \in Connection, Step(c) \/ Call(c) \/ Crash(c)
        PROVE  Moved
    <3>1. \A d \in Connection \ {c} : UNCHANGED <<pc[d], target[d], todo[d]>>
      BY <1>1, <2>2, StaysLocal
    <3>2. Call(c) => pc[c] \notin Calling
      BY DEF Call, Open, Put, AppendEvent, Close, Calling, Opening, InTransaction, Migrating, Putting,
         Appending, Begin
    <3>3. pc[c] \in Calling => Advances(c)
      BY <1>1, <2>2, <3>2, StoreMoveAdvances
    <3>4. QED
      BY <3>1, <3>3
  <2>3. QED
    BY <1>1, <2>1, <2>2 DEF Next
<1>2. Inv /\ FiniteInv /\ [Next]_vars =>
        [(rollbacks' = rollbacks + 1 /\ UNCHANGED <<pc, target, todo>>) \/ Moved]_vars
  BY <1>1
<1>3. Inv /\ FiniteInv /\ [Next]_vars => FiniteInv'
  BY StoreFiniteStep
<1>4. QED
  BY <1>2, <1>3, Invariance, StoreFiniteInit, PTL DEF Spec, EveryStepAdvances

=============================================================================
