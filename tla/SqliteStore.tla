----------------------------- MODULE SqliteStore -----------------------------
(***************************************************************************)
(* The durable store (sqlite_store.py) and its migration runner            *)
(* (migrations.py).  Several connections, each one SQLiteStore object of   *)
(* some thread or process, share one database file.  Every write runs in a *)
(* BEGIN IMMEDIATE transaction, one statement per step, on a copy "work"   *)
(* that the others see only when it is committed.  A statement may fail, a *)
(* writer may wait too long for the lock, a process may die at any step.   *)
(***************************************************************************)
EXTENDS Naturals, FiniteSets

CONSTANTS Connection,   \* SQLiteStore objects
          MemoryId,     \* primary keys of table memories
          Memory,       \* the memories callers put
          Text,         \* texts, other than None
          NullText,     \* the text None (SQL NULL)
          Scope,        \* (project, agent) pairs; IS NULL and = decide equality
          Term,         \* what text.lower().split() may produce
          Tokens,       \* text -> set(text.lower().split())
          InitialRows,  \* contents table memories may have at the start
          MaxEvents,    \* bound: events each connection appends
          MaxRollbacks, \* bound: operator rollbacks of version 2
          NoRow,        \* the key is absent
          NoPut,        \* no put in progress on a connection
          NoConnection  \* nobody holds the write lock

LATEST_SCHEMA_VERSION == 2

ASSUME MemoryAssumption ==
    /\ \A m \in Memory : m.text \in Text \cup {NullText} /\ m.scope \in Scope
    /\ NoRow \notin Memory
ASSUME TextAssumption ==
    /\ NullText \notin Text
    /\ Tokens \in [Text -> SUBSET Term]
    /\ \A text \in Text : IsFiniteSet(Tokens[text])
ASSUME InitialAssumption ==
    \A rows \in InitialRows : /\ rows \in [MemoryId -> Memory \cup {NoRow}]
                              /\ IsFiniteSet({id \in MemoryId : rows[id] # NoRow})
ASSUME ConnectionAssumption == NoConnection \notin Connection
ASSUME PutAssumption == NoPut \notin [id : MemoryId, memory : Memory]
ASSUME BoundAssumption == MaxEvents \in Nat /\ MaxRollbacks \in Nat

VARIABLES
    db,        \* the committed database
    work,      \* the database as the open transaction sees it
    lock,      \* the connection whose transaction is open
    pc,        \* where each connection is
    put,       \* the put a connection is executing: its argument
    todo,      \* (memory id, term) pairs it has still to insert
    target,    \* the migration it is to apply: "version" of the loop
    outcome,   \* how the latest put of each connection ended
    rollbacks  \* operator rollbacks so far

vars == <<db, work, lock, pc, put, todo, target, outcome, rollbacks>>

BaseTables == {"memories", "activity_events"}
AllTables == BaseTables \cup {"memory_terms"}

Event == Connection \X (1..MaxEvents)   \* rows of activity_events, by event_id

Database == [version : Nat,                               \* PRAGMA user_version
             tables  : SUBSET AllTables,
             rows    : [MemoryId -> Memory \cup {NoRow}], \* memories
             terms   : SUBSET (MemoryId \X Term),         \* memory_terms
             events  : SUBSET Event]                      \* activity_events

Opening   == {"opening", "migration_begin"}
Migrating == {"migration_create", "migration_backfill", "migration_version",
              "migration_commit"}
Putting   == {"put_row", "put_delete_terms", "put_terms", "put_commit"}
Appending == {"event_row", "event_commit"}
InTransaction == Migrating \cup Putting \cup Appending
Begin     == {"migration_begin", "put_begin", "event_begin"}
Calling   == Opening \cup InTransaction \cup Begin
PC        == Calling \cup {"closed", "idle"}

\* The distinct terms of a stored memory; none for a row without text.
RowTerms(row) == IF row = NoRow THEN {}
                 ELSE IF row.text = NullText THEN {} ELSE Tokens[row.text]

\* The contents of memory_terms that answer for "rows".
TermsOfRows(rows) == {p \in MemoryId \X Term : p[2] \in RowTerms(rows[p[1]])}

NullRows(rows) == {id \in MemoryId : rows[id] # NoRow /\ rows[id].text = NullText}

-----------------------------------------------------------------------------
\* Databases a store is opened on: a new file, a legacy one (tables, but
\* user_version 0), one at each schema version, one written by newer code.
FreshDatabase == [version |-> 0, tables |-> {}, rows |-> [id \in MemoryId |-> NoRow],
                  terms |-> {}, events |-> {}]

IndexedAt(v) == v >= 2

OlderDatabase(v, rows) ==
    [version |-> v,
     tables  |-> IF IndexedAt(v) THEN AllTables ELSE BaseTables,
     rows    |-> rows,
     terms   |-> IF IndexedAt(v) THEN TermsOfRows(rows) ELSE {},
     events  |-> {}]

Init ==
    /\ \/ db = FreshDatabase
       \/ \E v \in 0..(LATEST_SCHEMA_VERSION + 1), rows \in InitialRows :
             /\ IndexedAt(v) => NullRows(rows) = {}
             /\ db = OlderDatabase(v, rows)
    /\ work = db
    /\ lock = NoConnection
    /\ pc = [c \in Connection |-> "closed"]
    /\ put = [c \in Connection |-> NoPut]
    /\ todo = [c \in Connection |-> {}]
    /\ target = [c \in Connection |-> 1]
    /\ outcome = [c \in Connection |-> "none"]
    /\ rollbacks = 0

-----------------------------------------------------------------------------
\* How a call leaves the store.

Goto(c, label) == pc' = [pc EXCEPT ![c] = label]

\* The transaction of c, if it has one, is rolled back.
Release(c) ==
    /\ lock' = IF lock = c THEN NoConnection ELSE lock
    /\ work' = IF lock = c THEN db ELSE work

\* The call of c propagates an exception: rollback if in a transaction; a
\* failing constructor also closes its connection.
Raise(c) ==
    /\ Release(c)
    /\ Goto(c, IF pc[c] \in Opening \cup Migrating THEN "closed" ELSE "idle")
    /\ put' = [put EXCEPT ![c] = NoPut]
    /\ outcome' = IF put[c] = NoPut THEN outcome ELSE [outcome EXCEPT ![c] = "raised"]
    /\ todo' = [todo EXCEPT ![c] = {}]
    /\ UNCHANGED <<db, target, rollbacks>>

\* Mutant: a deferred BEGIN, which takes no lock.
BeginDeferred(c, label) ==
    /\ lock' = c
    /\ work' = db
    /\ Goto(c, label)
    /\ UNCHANGED <<db, put, todo, target, outcome, rollbacks>>

\* BEGIN IMMEDIATE: the write lock is free and c takes it.
BeginImmediate(c, label) ==
    /\ lock = NoConnection
    /\ lock' = c
    /\ work' = db
    /\ Goto(c, label)
    /\ UNCHANGED <<db, put, todo, target, outcome, rollbacks>>

\* BEGIN IMMEDIATE: another connection held the lock for busy_timeout.
BusyTimeout(c) ==
    /\ pc[c] \in Begin
    /\ lock # NoConnection
    /\ Raise(c)

\* A statement or the commit fails (disk, I/O, busy, interrupted).
StatementFails(c) == pc[c] \in InTransaction \cup {"opening"} /\ Raise(c)

\* The process of c dies; the journal undoes its open transaction.
Crash(c) ==
    /\ pc[c] # "closed"
    /\ Release(c)
    /\ Goto(c, "closed")
    /\ put' = [put EXCEPT ![c] = NoPut]
    /\ outcome' = IF put[c] = NoPut THEN outcome ELSE [outcome EXCEPT ![c] = "none"]
    /\ todo' = [todo EXCEPT ![c] = {}]
    /\ UNCHANGED <<db, target, rollbacks>>

Close(c) ==
    /\ pc[c] = "idle"
    /\ Goto(c, "closed")
    /\ UNCHANGED <<db, work, lock, put, todo, target, outcome, rollbacks>>

-----------------------------------------------------------------------------
\* SQLiteStore.__init__ and run_migrations.

Open(c) ==
    /\ pc[c] = "closed"
    /\ Goto(c, "opening")
    /\ UNCHANGED <<db, work, lock, put, todo, target, outcome, rollbacks>>

\* Mutant: range(current, LATEST + 1), the version present applied again.
ReadVersionOffByOne(c) ==
    /\ pc[c] = "opening"
    /\ target' = [target EXCEPT ![c] = db.version]
    /\ Goto(c, IF db.version > LATEST_SCHEMA_VERSION THEN "closed" ELSE "migration_begin")
    /\ UNCHANGED <<db, work, lock, put, todo, outcome, rollbacks>>

\* "current" is read once, outside any transaction.
ReadVersion(c) ==
    /\ pc[c] = "opening"
    /\ target' = [target EXCEPT ![c] = IF db.version >= LATEST_SCHEMA_VERSION
                                       THEN 1 ELSE db.version + 1]
    /\ Goto(c, IF db.version > LATEST_SCHEMA_VERSION THEN "closed"
               ELSE IF db.version = LATEST_SCHEMA_VERSION THEN "idle"
               ELSE "migration_begin")
    /\ UNCHANGED <<db, work, lock, put, todo, outcome, rollbacks>>

MigrationBegin(c) ==
    pc[c] = "migration_begin" /\ BeginImmediate(c, "migration_create")

\* Mutant: the baseline drops and creates its tables, without IF NOT EXISTS.
MigrationRecreate(c) ==
    /\ pc[c] = "migration_create"
    /\ work' = IF target[c] = 1
               THEN [work EXCEPT !.tables = @ \cup BaseTables,
                                 !.rows = [id \in MemoryId |-> NoRow], !.events = {}]
               ELSE [work EXCEPT !.tables = @ \cup {"memory_terms"}]
    /\ todo' = [todo EXCEPT ![c] = IF target[c] = 1 THEN {} ELSE TermsOfRows(work.rows)]
    /\ Goto(c, IF target[c] = 1 THEN "migration_version" ELSE "migration_backfill")
    /\ UNCHANGED <<db, lock, put, target, outcome, rollbacks>>

\* CREATE TABLE IF NOT EXISTS; _migration_2 then reads all memories.
MigrationCreate(c) ==
    /\ pc[c] = "migration_create"
    /\ work' = [work EXCEPT !.tables = @ \cup IF target[c] = 1 THEN BaseTables
                                              ELSE {"memory_terms"}]
    /\ todo' = [todo EXCEPT ![c] = IF target[c] = 1 THEN {} ELSE TermsOfRows(work.rows)]
    /\ Goto(c, IF target[c] = 1 THEN "migration_version" ELSE "migration_backfill")
    /\ UNCHANGED <<db, lock, put, target, outcome, rollbacks>>

\* Mutant: the same term again and again.
InsertTermForever(c) ==
    /\ \E p \in todo[c] : work' = [work EXCEPT !.terms = @ \cup {p}]
    /\ UNCHANGED <<db, lock, pc, put, todo, target, outcome, rollbacks>>

\* INSERT OR IGNORE INTO memory_terms
InsertTerm(c) ==
    /\ \E p \in todo[c] :
          /\ work' = [work EXCEPT !.terms = @ \cup {p}]
          /\ todo' = [todo EXCEPT ![c] = @ \ {p}]
    /\ UNCHANGED <<db, lock, pc, put, target, outcome, rollbacks>>

MigrationBackfill(c) == pc[c] = "migration_backfill" /\ InsertTerm(c)

\* text.lower() on a row whose text is NULL
MigrationNullText(c) ==
    /\ pc[c] = "migration_backfill"
    /\ NullRows(work.rows) # {}
    /\ Raise(c)

MigrationBackfilled(c) ==
    /\ pc[c] = "migration_backfill"
    /\ todo[c] = {}
    /\ NullRows(work.rows) = {}
    /\ Goto(c, "migration_version")
    /\ UNCHANGED <<db, work, lock, put, todo, target, outcome, rollbacks>>

\* Mutant: user_version set to the version the migration started from.
MigrationVersionBefore(c) ==
    /\ pc[c] = "migration_version"
    /\ work' = [work EXCEPT !.version = target[c] - 1]
    /\ Goto(c, "migration_commit")
    /\ UNCHANGED <<db, lock, put, todo, target, outcome, rollbacks>>

\* PRAGMA user_version = version
MigrationVersion(c) ==
    /\ pc[c] = "migration_version"
    /\ work' = [work EXCEPT !.version = target[c]]
    /\ Goto(c, "migration_commit")
    /\ UNCHANGED <<db, lock, put, todo, target, outcome, rollbacks>>

\* Mutant: only the first pending migration is applied.
MigrationCommitOne(c) ==
    /\ pc[c] = "migration_commit"
    /\ db' = work
    /\ lock' = NoConnection
    /\ target' = [target EXCEPT ![c] = 1]
    /\ Goto(c, "idle")
    /\ UNCHANGED <<work, put, todo, outcome, rollbacks>>

\* commit, then the next iteration of the loop over versions
MigrationCommit(c) ==
    /\ pc[c] = "migration_commit"
    /\ db' = work
    /\ lock' = NoConnection
    /\ target' = [target EXCEPT ![c] = IF @ = LATEST_SCHEMA_VERSION THEN 1 ELSE @ + 1]
    /\ Goto(c, IF target[c] = LATEST_SCHEMA_VERSION THEN "idle" ELSE "migration_begin")
    /\ UNCHANGED <<work, put, todo, outcome, rollbacks>>

\* _migration_2_rollback, run by an operator in a transaction of its own.  The
\* function itself checks nothing; its docstring leaves to the operator that
\* there is a store to roll back, be it indexed, without index or legacy.
OperatorRollback ==
    /\ rollbacks < MaxRollbacks
    /\ lock = NoConnection
    /\ BaseTables \subseteq db.tables
    /\ db' = [db EXCEPT !.tables = @ \ {"memory_terms"}, !.terms = {}, !.version = 1]
    /\ work' = db'
    /\ rollbacks' = rollbacks + 1
    /\ UNCHANGED <<lock, pc, put, todo, target, outcome>>

-----------------------------------------------------------------------------
\* SQLiteStore.put

Put(c) ==
    /\ pc[c] = "idle"
    /\ \E id \in MemoryId, m \in Memory : put' = [put EXCEPT ![c] = [id |-> id, memory |-> m]]
    /\ outcome' = [outcome EXCEPT ![c] = "none"]
    /\ Goto(c, "put_begin")
    /\ UNCHANGED <<db, work, lock, todo, target, rollbacks>>

PutBegin(c) == pc[c] = "put_begin" /\ BeginImmediate(c, "put_row")

\* Mutant: the row is written in autocommit mode, outside the transaction.
PutRowAutocommit(c) ==
    /\ pc[c] = "put_row"
    /\ "memories" \in work.tables
    /\ work' = [work EXCEPT !.rows[put[c].id] = put[c].memory]
    /\ db' = [db EXCEPT !.rows[put[c].id] = put[c].memory]
    /\ Goto(c, "put_delete_terms")
    /\ UNCHANGED <<lock, put, todo, target, outcome, rollbacks>>

\* INSERT OR REPLACE INTO memories
PutRow(c) ==
    /\ pc[c] = "put_row"
    /\ "memories" \in work.tables
    /\ work' = [work EXCEPT !.rows[put[c].id] = put[c].memory]
    /\ Goto(c, "put_delete_terms")
    /\ UNCHANGED <<db, lock, put, todo, target, outcome, rollbacks>>

\* Mutant: the terms of the memory replaced stay in the index.
PutKeepTerms(c) ==
    /\ pc[c] = "put_delete_terms"
    /\ "memory_terms" \in work.tables
    /\ put[c].memory.text # NullText
    /\ todo' = [todo EXCEPT ![c] = {put[c].id} \X Tokens[put[c].memory.text]]
    /\ Goto(c, "put_terms")
    /\ UNCHANGED <<db, work, lock, put, target, outcome, rollbacks>>

\* DELETE FROM memory_terms, then set(memory.text.lower().split())
PutDeleteTerms(c) ==
    /\ pc[c] = "put_delete_terms"
    /\ "memory_terms" \in work.tables
    /\ put[c].memory.text # NullText
    /\ work' = [work EXCEPT !.terms = {p \in @ : p[1] # put[c].id}]
    /\ todo' = [todo EXCEPT ![c] = {put[c].id} \X Tokens[put[c].memory.text]]
    /\ Goto(c, "put_terms")
    /\ UNCHANGED <<db, lock, put, target, outcome, rollbacks>>

\* The index table is gone ("no such table"), or the text is None.
PutRaises(c) ==
    /\ pc[c] = "put_delete_terms"
    /\ "memory_terms" \notin work.tables \/ put[c].memory.text = NullText
    /\ Raise(c)

PutTerm(c) == pc[c] = "put_terms" /\ InsertTerm(c)

PutTermsDone(c) ==
    /\ pc[c] = "put_terms"
    /\ todo[c] = {}
    /\ Goto(c, "put_commit")
    /\ UNCHANGED <<db, work, lock, put, todo, target, outcome, rollbacks>>

PutCommit(c) ==
    /\ pc[c] = "put_commit"
    /\ db' = work
    /\ lock' = NoConnection
    /\ put' = [put EXCEPT ![c] = NoPut]
    /\ outcome' = [outcome EXCEPT ![c] = "stored"]
    /\ Goto(c, "idle")
    /\ UNCHANGED <<work, todo, target, rollbacks>>

\* SQLiteStore.append_event; event ids are fresh uuids.
AppendEvent(c) ==
    /\ pc[c] = "idle"
    /\ ~ \A n \in 1..MaxEvents : <<c, n>> \in db.events
    /\ Goto(c, "event_begin")
    /\ UNCHANGED <<db, work, lock, put, todo, target, outcome, rollbacks>>

EventBegin(c) == pc[c] = "event_begin" /\ BeginImmediate(c, "event_row")

EventRow(c) ==
    /\ pc[c] = "event_row"
    /\ "activity_events" \in work.tables
    /\ \E n \in 1..MaxEvents :
          /\ <<c, n>> \notin work.events
          /\ work' = [work EXCEPT !.events = @ \cup {<<c, n>>}]
    /\ Goto(c, "event_commit")
    /\ UNCHANGED <<db, lock, put, todo, target, outcome, rollbacks>>

EventCommit(c) ==
    /\ pc[c] = "event_commit"
    /\ db' = work
    /\ lock' = NoConnection
    /\ Goto(c, "idle")
    /\ UNCHANGED <<work, put, todo, target, outcome, rollbacks>>

-----------------------------------------------------------------------------
\* The next step of the call c is executing, whatever its result.
MigrationStep(c) ==
    \/ ReadVersion(c) \/ MigrationBegin(c) \/ MigrationCreate(c)
    \/ MigrationBackfill(c) \/ MigrationNullText(c) \/ MigrationBackfilled(c)
    \/ MigrationVersion(c) \/ MigrationCommit(c)

WriteStep(c) ==
    \/ PutBegin(c) \/ PutRow(c) \/ PutDeleteTerms(c) \/ PutRaises(c)
    \/ PutTerm(c) \/ PutTermsDone(c) \/ PutCommit(c)
    \/ EventBegin(c) \/ EventRow(c) \/ EventCommit(c)

Progress(c) == MigrationStep(c) \/ WriteStep(c) \/ BusyTimeout(c)

Step(c) == Progress(c) \/ StatementFails(c)

Call(c) == Open(c) \/ Put(c) \/ AppendEvent(c) \/ Close(c)

Next == OperatorRollback \/ \E c \in Connection : Step(c) \/ Call(c) \/ Crash(c)

Spec == Init /\ [][Next]_vars

\* A call in progress keeps executing; nobody is obliged to call, and no
\* failure is relied on but the busy timeout of a writer that has to wait.
FairSpec == Spec /\ \A c \in Connection : WF_vars(Progress(c))

\* Every connection is opened and nothing fails: the runner on its own.
OpenNext == \E c \in Connection : Open(c) \/ MigrationStep(c)
OpenSpec == /\ Init /\ [][OpenNext]_vars
            /\ \A c \in Connection : WF_vars(Open(c) \/ MigrationStep(c))

-----------------------------------------------------------------------------
\* SQLiteStore.candidate_ids: one SELECT on the committed database.
CandidateIds(terms, scope) ==
    {id \in MemoryId : /\ db.rows[id] # NoRow
                       /\ db.rows[id].scope = scope
                       /\ \E t \in terms : <<id, t>> \in db.terms}

-----------------------------------------------------------------------------
\* The store as an implementation of the port: a put takes effect at its commit.
Port == INSTANCE MemoryStore WITH Client <- Connection, NoMemory <- NoRow,
                                  NoRequest <- NoPut, items <- db.rows,
                                  request <- put

TypeOK ==
    /\ db \in Database
    /\ work \in Database
    /\ lock \in Connection \cup {NoConnection}
    /\ pc \in [Connection -> PC]
    /\ put \in [Connection -> [id : MemoryId, memory : Memory] \cup {NoPut}]
    /\ todo \in [Connection -> SUBSET (MemoryId \X Term)]
    /\ target \in [Connection -> 1..LATEST_SCHEMA_VERSION]
    /\ outcome \in [Connection -> {"none", "stored", "raised"}]
    /\ rollbacks \in 0..MaxRollbacks

\* memory_terms, where it exists, is exactly the index of the rows.
Indexed(d) == d.terms = IF "memory_terms" \in d.tables THEN TermsOfRows(d.rows) ELSE {}

\* user_version never promises a table that is not there.
SchemaMatches(d) == /\ d.version >= 1 => BaseTables \subseteq d.tables
                    /\ IndexedAt(d.version) => d.tables = AllTables

\* What the statements c has executed so far have left in its transaction.
StagedRows(c) ==
    work.rows = IF pc[c] \in {"put_delete_terms", "put_terms", "put_commit"}
                THEN [db.rows EXCEPT ![put[c].id] = put[c].memory] ELSE db.rows

StagedTerms(c) ==
    CASE pc[c] = "put_delete_terms" -> work.terms = db.terms
      [] pc[c] \in {"put_terms", "migration_backfill"} ->
             /\ "memory_terms" \in work.tables
             /\ work.terms \cup todo[c] = TermsOfRows(work.rows)
      [] OTHER -> Indexed(work)

StagedSchema(c) ==
    /\ pc[c] \in Migrating \ {"migration_create"} =>
          work.tables = db.tables \cup IF target[c] = 1 THEN BaseTables ELSE {"memory_terms"}
    /\ pc[c] \notin Migrating \ {"migration_create"} => work.tables = db.tables
    /\ work.version = IF pc[c] = "migration_commit" THEN target[c] ELSE db.version

StagedEvents(c) == /\ db.events \subseteq work.events
                   /\ pc[c] \notin Appending => work.events = db.events

Staged(c) == StagedRows(c) /\ StagedTerms(c) /\ StagedSchema(c) /\ StagedEvents(c)

HoldsLock(c) == lock = c <=> pc[c] \in InTransaction

HasPut(c) == put[c] # NoPut <=> pc[c] \in Putting \cup {"put_begin"}

\* Connections past "opening" (but for one about to create them) find the
\* base tables; connections past the constructor find the index too.
TablesInUse(c) ==
    /\ \/ pc[c] \in {"closed", "opening"}
       \/ pc[c] \in {"migration_begin"} \cup Migrating /\ target[c] = 1
       \/ BaseTables \subseteq db.tables
    /\ \/ pc[c] \in {"closed"} \cup Opening \cup Migrating
       \/ rollbacks = 0 => db.tables = AllTables

\* The transaction in progress and the committed database agree but for the
\* statements executed so far, and the committed index and schema marker are
\* right at every instant (sqlite_store.py put, migrations.py).
Inv ==
    /\ TypeOK
    /\ Indexed(db) /\ SchemaMatches(db)
    /\ lock = NoConnection => work = db
    /\ \A c \in Connection : /\ HoldsLock(c) /\ HasPut(c) /\ TablesInUse(c)
                             /\ lock = c => Staged(c)

\* While the index table exists, the inverted index answers every candidate
\* query exactly as the reference store does from the texts themselves
\* (sqlite_store.py candidate_ids, memory_store.py candidate_ids), whatever
\* puts, migrations, failures and crashes have gone before.
CandidatesMatchPort ==
    "memory_terms" \in db.tables =>
        \A terms \in SUBSET Term, scope \in Scope :
            CandidateIds(terms, scope) = Port!CandidateIds(terms, scope)

\* A connection that came out of its constructor has every table it uses
\* until an operator drops the index, even while a slower opener has set
\* user_version back (migrations.py run_migrations).
OpenFindsTables ==
    \A c \in Connection :
        pc[c] \notin {"closed"} \cup Opening \cup Migrating =>
            /\ BaseTables \subseteq db.tables
            /\ rollbacks = 0 => db.tables = AllTables

\* A constructor that returns leaves the database at the latest version with
\* all tables, whoever else was migrating it (migrations.py loop).
OpenReachesLatest ==
    [][\A c \in Connection :
          pc[c] \in Opening \cup Migrating /\ pc'[c] = "idle" =>
              db'.version = LATEST_SCHEMA_VERSION /\ db'.tables = AllTables]_vars

\* Where there is an index, no memory is without a text: a put of None writes
\* the row before its text.lower() raises (sqlite_store.py put), and the backfill
\* of a legacy database raises on such a row (migrations.py _migration_2).  So a
\* database that holds one never gets to the version that has the index.
IndexedRowsHaveText == "memory_terms" \in db.tables => NullRows(db.rows) = {}

\* The steps after the check of the text, with what it has established.
TextChecked(c) ==
    /\ pc[c] \in {"put_terms", "put_commit"} => put[c].memory.text # NullText
    /\ pc[c] \in {"migration_version", "migration_commit"} /\ target[c] > 1 =>
          NullRows(db.rows) = {}

TextInv == IndexedRowsHaveText /\ \A c \in Connection : TextChecked(c)

\* A slower opener may set user_version back (VersionNeverRegresses), but while
\* nothing fails it is also on its way to set it right again: once a constructor
\* has returned, the version is the latest or a connection is in the middle of
\* the migration to it (migrations.py loop over the pending versions).
RegressUnderRepair ==
    (\E c \in Connection : pc[c] = "idle") /\ NullRows(db.rows) = {} =>
        \/ db.version = LATEST_SCHEMA_VERSION
        \/ \E d \in Connection : /\ pc[d] \in {"migration_begin"} \cup Migrating
                                 /\ target[d] = LATEST_SCHEMA_VERSION

\* How many labels a call has still to go through, at most.
LabelsFrom ==
    [closed |-> 0, idle |-> 0, opening |-> 11,
     migration_begin |-> 5, migration_create |-> 4, migration_backfill |-> 3,
     migration_version |-> 2, migration_commit |-> 1,
     put_begin |-> 5, put_row |-> 4, put_delete_terms |-> 3, put_terms |-> 2, put_commit |-> 1,
     event_begin |-> 3, event_row |-> 2, event_commit |-> 1]

LabelsLeft(c) == LabelsFrom[pc[c]] +
    IF pc[c] \in {"migration_begin"} \cup Migrating
    THEN 5 * (LATEST_SCHEMA_VERSION - target[c]) ELSE 0

Advances(c) ==
    \/ LabelsLeft(c)' < LabelsLeft(c)
    \/ pc'[c] = pc[c] /\ Cardinality(todo[c])' \in 0..(Cardinality(todo[c]) - 1)

\* No call runs on for ever, whatever the others do and whatever fails: every
\* step of a call brings it nearer to its end and leaves the other connections
\* where they are (the loops over versions and over terms; no retry anywhere).
EveryStepAdvances ==
    [][\/ rollbacks' = rollbacks + 1 /\ UNCHANGED <<pc, target, todo>>
       \/ \E c \in Connection :
             /\ pc[c] \in Calling => Advances(c)
             /\ \A d \in Connection \ {c} : UNCHANGED <<pc[d], target[d], todo[d]>>]_vars

\* No step of any connection, failure, migration or rollback removes a stored
\* memory or an activity event (no operation of the store deletes either).
NothingLost ==
    [][/\ \A id \in MemoryId : db.rows[id] # NoRow => db'.rows[id] # NoRow
       /\ db.events \subseteq db'.events]_vars

\* The SQLite store implements the port: each put takes effect at one
\* instant, entirely, or raises and leaves nothing.
ImplementsPort == Port!Spec

\* Every call on a connection ends: with its result, an exception, a busy
\* timeout or the death of its process (bounded waits, finite loops).
CallsEnd == \A c \in Connection : pc[c] \in Calling ~> pc[c] \notin Calling

\* When every connection opens and nothing fails, fresh and legacy databases
\* converge on the latest version and stay there (migrations.py docstring,
\* "Fresh and legacy databases both converge", PROJECT_CONTINUITY.md:46-47);
\* but a legacy database with one row whose text is NULL never gets beyond
\* version 1, as every open fails in the backfill (migrations.py:51).
Converges ==
    /\ db.version <= LATEST_SCHEMA_VERSION /\ NullRows(db.rows) = {} =>
          <>[](db.version = LATEST_SCHEMA_VERSION)
    /\ db.version < LATEST_SCHEMA_VERSION /\ NullRows(db.rows) # {} =>
          <>[](db.version = 1)

\* "Running the runner again is a no-op" (migrations.py:86-88): a migration
\* never lowers user_version.
VersionNeverRegresses == [][rollbacks' = rollbacks => db'.version >= db.version]_vars

=============================================================================
