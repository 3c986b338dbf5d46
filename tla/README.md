# Neuro Core 2: TLA+ models, model checking and proofs

Neuro Core 2 is a memory plugin for agents: agents capture texts into scopes,
retrieve them by lexical overlap and trust, and move them through a validation
lifecycle; every decision and effect is logged as an activity event. Memories
and events live in one SQLite file that every tool call opens anew, so the hard
part of the code is what happens *between* its small, sequential functions:
connections that migrate the same file, writers that wait for each other,
calls that read a memory in one transaction and write it in a later one, and
processes that die between the store's change and its audit event.

All file and line references are to `src/`.

## 1. Inventory

| Component | State it keeps | Operations | Correct when |
|---|---|---|---|
| SQLite store (`sqlite_store.py`) | tables `memories`, `memory_terms`, `activity_events`; one connection | `put`, `get`, `list`, `candidate_ids`, `append_event`, `list_events`, `close` | a put is atomic; the inverted index answers like the texts; nothing is lost; every call ends |
| Migrations (`migrations.py`) | `PRAGMA user_version` | `run_migrations` (on every open), `_migration_2_rollback` (operator) | every opener ends at the latest version; open connections keep their tables; the schema marker never promises a missing table |
| Store port (`memory_store.py`) | dictionary id → memory | `put`, `get`, `list`, `candidate_ids` | it is the specification of the store |
| Lifecycle (`memory_lifecycle.py`) | none | `transition`, `retrievable` | `superseded` is terminal and not retrieved |
| Domain (`neuro_core_2.py`) | none | `retrieve` | exact scope, ranked by score, the index loses no hit |
| Caller identity (`caller_identity.py`) | none | `derive_caller_identity`, `scope_binding_denial` | a scope separates callers |
| Service (`neuro_core_2_service.py`) | store, in-process ledger | `capture`, `retrieve`, `validate`, `list_activity`, `record_tool_layer_denial` | no effect without a logged permission; log and store agree |
| Tools (`tools/*.py`) | none between calls; one store per call | `execute` | the scope is bound before the store is touched; denials are audited |
| Ledger (`activity_ledger.py`) | list of events of one service object | `append`, `for_scope`, `all` | it and the durable table differ by at most the event in flight |
| Audit tool (`tools/neuro_core_2_audit.py`) | none | one query | most recent events first, none lost between two audits, no effect without its decision |
| Hooks, session extension (`hooks.py`, `extensions/`) | global store, service, config; the host's cache of extensions | `on_plugin_load`, `on_plugin_activate`, `register_extension`, `execute` | sessions find a service whose store is open; reloads leak no connection |
| Installer (`install.py`) | the files of the target directory | copy, validate | what is reported as installed is the source's and can be loaded |
| Config loader, `verify.py`, pre-commit hook | none | file I/O | not modelled: no state, no concurrency |

Interaction: a tool derives the caller's identity from the host agent, binds
the requested scope to it (layer 2), opens a `SQLiteStore` — which runs the
migrations — and calls the service, which binds again (layer 3, or layer 4 on
the stored scope of the memory to validate), appends the authorization event
(layer 5), and then works on the store, one transaction per operation. Tools of
several agents, in threads or processes, share nothing but the database file. The
plugin's hooks keep one more store and service in module globals, which the
session extension uses whenever the host starts an agent, and which every reload
of the plugin closes and replaces. The audit tool reads the events back.

Hard behaviours: the version read outside the migration's transaction; a
writer's bounded wait; statements that fail in the middle of a transaction;
crashes between two transactions of one call; the read–decide–write of
`validate`; candidates selected by one query and read by others; the
capture of a memory that is stored already; the best-effort record of tool denials; events that get their time before they wait
for the lock; ledger and table written one after the other; globals replaced
under their users; files overwritten before they are validated; slices with
negative bounds. `PROJECT.json` lists each at its line, with the properties that
watch it or why none does.

## 2. Modules

| Module | Models | Role |
|---|---|---|
| `MemoryStore` | the port and `InMemoryStore` | abstract specification: one dictionary, atomic puts |
| `SqliteStore` | `sqlite_store.py`, `migrations.py` | several connections, one statement per step |
| `SqliteStore_proofs` | | theorems about it |
| `MemoryLifecycle` | `memory_lifecycle.py` | operators |
| `NeuroCore2` | `retrieve()` and the cap | operators |
| `CallerIdentity`, `CallerIdentity_proofs` | `caller_identity.py` | operators; separation theorems |
| `NeuroCoreService` | service and the three tools | calls that interleave between store operations |
| `AuditedMemory` | what the service promises | abstract specification: permitted instants |
| `NeuroCoreService_proofs` | | theorems about it, refinement included |
| `NeuroCoreRetrieval_proofs` | | its retrievals: what is ranked, cut and logged; every step advances a call |
| `NeuroCoreSerial_proofs` | | what holds of calls that do not overlap |
| `ActivityAudit`, `ActivityAudit_proofs` | `activity_ledger.py`, `append_event`, `list_events`, `list_activity`, the audit tool | events on their way into the table and out of it |
| `PluginHooks`, `PluginHooks_proofs` | `hooks.py`, `extensions/__init__.py` | the plugin's globals under the host's threads |
| `Installer`, `Installer_proofs` | `install.py` | copies and validations over the files of directories |
| `MCSqliteStore`, `MCNeuroCoreService`, `MCActivityAudit`, `MCPluginHooks`, `MCInstaller` | | instances for TLC |

`NeuroCoreService` takes each store operation as one step. `SqliteStore`
justifies it: `ImplementsPort` (proved) says that a put takes effect at one
instant or raises and leaves nothing, `CandidatesMatchPort` (proved) that the
candidate query depends on the memories alone, `EveryStepAdvances` (proved) and
`CallsEnd` (checked) that the operation ends.

### SqliteStore

`db` is the committed file (`user_version`, tables, rows, index, events);
`work` what the open transaction sees; `lock` the connection whose `BEGIN
IMMEDIATE` succeeded; `pc[c]` the statement connection `c` executes next;
`put[c]` the argument of its put; `todo[c]` the index entries it has still to
insert; `target[c]` the loop variable of `run_migrations`; `outcome[c]` how its
last put ended (the port's view); `rollbacks` counts operator rollbacks. Every
statement of `put`, `append_event` and the migrations is an action; a statement
may fail (`StatementFails`: exception, rollback, and for a constructor the
close of the connection), a `BEGIN IMMEDIATE` may find the lock held and time
out (`BusyTimeout`), a process may die (`Crash`; the journal undoes its open
transaction), and an operator may run `_migration_2_rollback`. That function
has no guard. `OperatorRollback` has one (`BaseTables \subseteq db.tables`): the
operator rolls back any database that has its tables, of whatever version, with or
without the index. On a file without tables the function would only write
version 1 over nothing, which its docstring (`migrations.py:58-68`) is not about,
and after which no opener would ever create `memories`. The initial
database is a new file, a legacy one (tables, version 0), one at each version,
or one written by newer code.

Abstractions: a text is a model value with a set of terms; a scope a model value
(a pair with a project, equality is `=`/`IS NULL`); the event row its id, fresh
for its connection. That SQLite serializes `BEGIN IMMEDIATE` transactions and
that commit is atomic are taken from SQLite. `CREATE TABLE IF NOT EXISTS` with
the SELECT that follows it in the same transaction is one step. `get`, `list`
and `list_events` read the committed state and change nothing.

### NeuroCoreService

`memories` and `log` are the durable state; for each call, `pc`, its `request`,
the memory it has read or is to write (`current`), and of a retrieval the
candidates still to get (`ids`), those got (`found`), the ranking (`results`)
and how many of its events are stored (`logged`). A request names an operation,
its arguments and how it reaches the service: through a tool (`"tool"`), with a
derived identity (`"identity"`), with a plain `caller_context` (`"context"`) or
with none. A capture carries the Memory it is to store: a new one, whose uuid the
call draws (`NewId`), as the tool and the keyword mode make it (`IsNew`), or, in the
positional mode `service.capture(Memory(...))`, one that a client has, with its own
id and validation state. `Put` replaces whatever is stored under that id (`Target`;
`INSERT OR REPLACE`), of whatever scope, while layer 3 has checked the new scope only.
Clients have the ids of memories of earlier sessions and of Memories not captured yet
(`Known`), and an id that a call has drawn once that memory is stored (`HasId`).
`CaptureTool`, `RetrieveTool` and `ValidateTool` are the tools up
to their binding, `ServiceCall` the entry without a tool; `ToolDenial` and
`ToolDenialUnrecorded` the two outcomes of `_record_denial_event`; `OpenStore`,
`GetCurrent`, `Allow`/`Unchecked`/`Deny`, `Transition`/`IllegalTransition`,
`Put`, `EffectEvent`, `Candidates`, `GetCandidate`, `Rank`, `RetrievedEvent` and
`ReturnResults` follow the source. At every use of the store the call may raise
(`StoreRaises`), and at any time its process may die (`Crash`).

Abstractions: uuids are the names of the calls that draw them; importance and
confidence, which enter the score by their sum only, are one weight in quarters,
and the rounding of the score is left out; the order of equal scores is left
open, as SQL leaves it; of an event the model keeps call, kind, scope, target
and outcome (the row keeps no evidence either, but for `source`). Arguments that
make Python raise before anything is stored (a malformed number, an unknown
state, a text that is None) end like `StoreRaises`. The enforcement flag of the
tools is `True`, as in the source. The two modes of `retrieve` differ in what they
return only; in `capture` the keyword mode makes the same new Memory as the tool, and
what it refuses (a project of None, after the allow event) ends like `StoreRaises`.

`AuditedMemory` is the service as its users may think of it: memories that calls
capture, show and revalidate in single instants, in scopes a call is permitted to
act in by then. What it promises of a stored memory is that its text, weight and
scope are together those of one version: the one of an earlier session, or one that
a permitted call has `offered`. It does not promise that a version stays, since a
capture under an id replaces what is there without asking for a permission in the
old scope, nor that the latest stays, since a validation that read an older one
writes that back; nor does it order the validation states, because overlapping
calls do not (see `service_stale_validate`). `NeuroCoreService` implements it with
the permissions (`May`), the offers (`Offered`) and the shown memories (`Shown`) read
off the log and the requests: a put is the instant of a capture or validation, a
retrieved event that of a retrieval, the allow event (or a call without
`caller_context`) gives permission, and every other step stutters.

What replaced memories do to the stronger properties one might expect is stated
with them: `ContentKeptUnlessRecaptured` and `CallerIsolation` except an id under
which a capture by a client that knows it has been allowed (`Recaptured`);
`LifecycleRespected` says that such a put stores exactly the client's Memory, and
that nothing else leaves the lifecycle; `LogAlignedUnlessFailed` is about ids that
nobody captures in a state other than `unreviewed`, since the event of a capture says
`stored` whatever the state (`OnlyUnreviewed`).

### ActivityAudit

Every call (`Writer`) has a plan of events (a decision, then effects, as
`capture`, `retrieve` and `validate` make them). `Record` makes the next one, with
`occurred_at` from the clock and its place in the `ledger` of the call's service;
`AppendEvent` is the INSERT once the write lock is there, so that any number of
ticks and of other calls' rows may come between; `AppendRaises` ends the call
with the event in the ledger only; `Crash` takes the ledger away. `rows` is the
table, in rowid order; `Stored` is the way of an event through the row and back
(`append_event`, `_event`), which keeps of the evidence only `source`. The audit
tool is one action per outcome: refused by the limit check, an exception (a date
bound with at least one event left to compare; the store), or the filtered,
sorted (`InOrder` is the stable sort of the two sorts in a row) and sliced rows.
Its reading is one query, hence one step. Abstractions: a body is kind, scope,
one target, and which evidence entries there are; outcomes and serialization are
left out; the wall clock never steps back, which `SettledIsFinal` and what it says of
past times need. `NullScopes` are the scopes whose project is None.

### PluginHooks

`store` and `service` are the globals `_store` and `_service`, the service by the
store it was constructed with; `stores` all the connections ever opened, with the
thread that opened each, as Python's sqlite3 checks it; `registered` whether the
host's cache has the extension; `mine` the local reference of a thread between
reading a global and using it. `on_plugin_load` is one action per access to a
global (`BeginLoad` with `CloseStore`, `OpenStore`, `SetStore`,
`ConstructService`, which reads `_store` again, `SetService`,
`RegisterExtension`), and may raise in the loader, the constructor and the
registration. Left out: connections that nothing refers to are closed by the
garbage collector at some time or other, `_config` and the scope of the session
event, the conversion of `busy_timeout_ms` after the connection is made
(`sqlite_store.py:42-43`, outside the constructor's `try`: a malformed value leaves
that connection to the garbage collector), the contents of the table (`ActivityAudit` has the event), and
`register_plugin`, which keeps no state. No document says whether the host calls
the hooks from one thread or several, so the run has two, and what needs a
single one is stated for as long as no other thread has called (`Alone`).

### Installer

`dir` is what each directory holds, file by file: nothing, a file of a release,
or a truncated one. A run chooses its source (`here`), target and whether the
host's packages are importable (`Start`, with the refusal of a target inside the
source), truncates and writes the files of `Copied` in order (`CopyBegin`,
`CopyEnd`), and validates: permissions, manifest twice, and the imports of each
tool, where a module is looked up in the target first and then in the source
(`Found`), since the directory of a running script is on `sys.path`. It may raise
while copying or die anywhere, and be started again. Between runs an operator
checks releases out. Abstractions: a manifest is good or bad by its release
(`Complete`, `Named`), or unknown when truncated; `Compatible` says which
releases of tools and modules go together; `Module` stands for all files that are
not copied. Two runs at a time are not modelled.

## 3. What is checked

`tlc -workers 2 -config <run>.cfg <module>` in this directory. Each property of
a passing run has a mutant in `PROJECT.json`: a plausible slip in one modelled
definition that TLC must find with that property.

| Run | Instance | Shows |
|---|---|---|
| `store_safety` | 2 connections, 2 ids, 3 memories (one without text), 1 rollback, 1 event each | `TypeOK`, the inductive invariant `Inv`, `CandidatesMatchPort`, `OpenFindsTables`, `IndexedRowsHaveText`, `OpenReachesLatest`, `NothingLost`, refinement of the port, every step advances its call (`EveryStepAdvances`), every call ends (`CallsEnd`) |
| `store_converges` | 3 openers, no failures | fresh and older databases converge although versions go back on the way, but for legacy ones with a NULL text (`Converges`); a version set back is always being set right by somebody (`RegressUnderRepair`) |
| `service_safety` | 3 overlapping calls, 17 requests, captures over a stored memory of another session or of a call among them | `TypeOK`, the inductive invariant `Inv`, `EffectsFollowAllow`, `ChangesFollowAllow`, `CallerIsolation`, `RetrievalAudited`, `ContentKeptUnlessRecaptured`, `EveryStepAdvances` |
| `service_serial` | 3 calls one after the other, 14 requests; a Memory not captured yet (`draft`), captured twice, once as `superseded` | `LifecycleRespected`, `RetrieveExact` (the cap included), `LogAlignedUnlessFailed` |
| `service_liveness` | 2 overlapping calls, all 18 requests | every call ends (`CallsEnd`), `ImplementsAuditedMemory` |
| `audit_safety` | 2 calls of up to 2 events, 1 reader, times 0 and 1, cap 4 | `Inv` (types included), `LedgerCovers`, `EffectsShownWithDecision`, `MostRecentKept`, `AuditsGrow`, `SettledIsFinal` |
| `hooks_safety` | 2 threads, 4 connections | `Inv` (types included), `NoSilentSession`, `NotClosedUnderneath`; while one thread makes all the calls, `OneOpenStore`, `ReadyUntilNextLoad` |
| `install_safety` | 2 directories, 2 releases, 3 copied files | `TypeOK`, `Inv`, `InstalledFromHere`, `LoadsWhereDeployed` |

Four runs exhibit where a document or test says something the code does not do:

- `store_regress` — a second opener, having read version 0, applies migration 1
  after the first has reached version 2: `user_version` goes back to 1 (until
  its next migration, or for as long as it takes somebody to open the file again
  if it dies there). `OpenFindsTables`, `RegressUnderRepair` and `Converges` bound
  the damage: no table is lost, the opener that sets the marker back goes on to
  set it right, and every later open repairs it.
- `service_stale_validate` — two overlapping `validate` calls: the slower one
  writes `validated` over `superseded`, and the memory is retrieved again.
- `service_log_alignment` — the put commits, the append of its event fails: the
  memory or its state has no event.
- `install_loads` — into an empty target a success is reported, although the
  modules that the tools import are not copied: the validation found them next
  to `install.py`.

The modules state further such claims, which have no run of their own since a
single input or a single failure shows them, or, the first, a run does for another
reason. They are no runs of the manifest on purpose; TLC refutes each when it is the only
property (INVARIANT, where not said otherwise) of the configuration named here:

| Claim | Configuration | What the code does |
|---|---|---|
| `SupersededIsTerminal` as PROPERTY | `service_serial` | even without overlap: capturing a stored Memory again puts it back to the state the client's object carries |
| `DenialsAudited` | `service_safety` | a denial at the tool layer that cannot be recorded is raised without an event |
| `ResultsBounded` | `service_safety` with `Requests <- MCNegativeCap` | `max_results = -1` returns all results but the last |
| `DateBoundsAnswered` | `audit_safety` | a date bound raises as soon as there is an event to compare |
| `CapRespected` | `audit_safety` with `MaxLimit = 1` | a negative limit returns more rows than the cap |
| `DecisionsListed` | `audit_safety` | the denial of a request without project is never listed |
| `ReasonsReported` | `audit_safety` with `Plans <- MCDenials` | denials are listed without their reason |
| `SessionsLogged` | `hooks_safety` | a reload whose constructor raises leaves the closed store in the globals: session starts raise |
| `DocumentedInstallRuns` | `install_loads` | started where the documents put it, with the default target, the installer refuses to run |

(`README.md:142-143`, which says that the installer validates nothing, is older
than its validations.) A legacy row whose text is NULL makes the backfill of
migration 2 raise on every open; `Converges` says so exactly.

Bounds. Two connections suffice for every conflict over the lock, a stale
version and an index dropped under an open connection, since the store keeps no
state per pair of connections beyond the lock; three openers are used where a
third could undo what the first two settled. Two ids and two texts that share a
term show a replaced memory, whose old terms have to go, next to one that must
keep its own. The theorems do not depend on these bounds. Three calls allow a
capture, a validation of what it captured, a capture over it and a retrieval of all
of these to overlap, three at a time; two suffice for the lost update. One id of an
earlier session and the ids the calls draw give every way to a stored memory that a
client has; `draft` adds an id that is known but not stored. Each call runs once, so a behaviour ends when
all calls have (`CHECK_DEADLOCK FALSE`); a retry is another call with the same
request. `Permutations` symmetry is used in runs without liveness only, over connections or calls,
which the requests of those runs treat alike. In `audit_safety` two calls and two
times let a late row appear behind a newer one that an audit has seen; the limits
of its queries lie below, at and above a cap scaled down to 4, the most rows two
calls make. Two threads are enough for every conflict over the globals
of the hooks: each connection refuses all threads but one, and a third thread
could only repeat what the second does. Four connections are a first load,
two that overlap and one after a failure. `Installer` copies a
manifest and two tools, so that a run can stop before, between and after them;
each of two directories is source and target in turn, so that a source may itself
be the result of an interrupted run. The theorems about `ActivityAudit`,
`PluginHooks` and `Installer` hold for all values of these bounds.

Fairness. `FairSpec` is weak fairness of the next step of a call in progress,
one conjunct per connection or call, and nothing obliges anybody to call. The
code justifies it: calls are sequential, loops run over finite sets, and the only
wait is `BEGIN IMMEDIATE`, bounded by `busy_timeout`, so `BusyTimeout` is among
the fair steps; failures and crashes are not. `OpenSpec` adds that every
connection is opened and nothing fails.

## 4. What is proved

`tlapm SqliteStore_proofs.tla` and its siblings; all obligations are proved by
SMT, Zenon and LS4. Constants are arbitrary sets, under the named assumptions of
the modules, which TLC evaluates on every run.

**SqliteStore.** `TypeOK` and the properties are not inductive. `Inv` adds what
each label of a connection means: it holds the lock exactly inside a transaction
(`HoldsLock`); the open transaction differs from the committed database by the
statements executed so far (`StagedRows`, `StagedTerms`, `StagedSchema`,
`StagedEvents`), in particular what is in `memory_terms` and what is still to be
inserted make up the index of the rows; outside transactions `work = db`; the
committed index is exact and the version promises no missing table (`Indexed`,
`SchemaMatches`); and a connection past its constructor has its tables
(`TablesInUse`). The last two make stale versions harmless: a migration applied
late finds its tables, and migration 2 recomputes what is there. `InitInv`,
`InvStep` and `Invariance` show `Spec => []Inv`; each action is an instance of
one of five frame lemmas. From it follow `TypeCorrect`, `IndexAgreesWithPort`,
`TablesFound`, `ConstructorReachesLatest`, `NothingIsLost` and `Refinement`
(`Spec => Port!Spec`, by cases: the commit of a put is the port's put, an
exception or a crash its refusal, all else stutters).

`TextsIndexed` needs more than `Inv`: a text of None is noticed only after the
row has been written (`put`) or by the backfill (`_migration_2`), so `TextInv`
adds what the labels after either check know (`TextChecked`). With `SchemaMatches`
it gives `HeldBack`: no opener ever brings a database with such a row beyond
version 1. `RegressIsRepaired` is about `OpenSpec`: `RegressUnderRepair` is
inductive next to `Inv`, since only the commit of migration 1 sets a version back,
and the connection that makes it is then about to apply migration 2.
`CallsAdvance` (`Spec => EveryStepAdvances`) is what of `CallsEnd` is a safety
property: whatever the interleaving and whatever fails, each step of a call has
fewer labels before it or one term less to insert. The loops are finite because
the store is (`FiniteInv`): texts have finitely many terms and a file finitely
many rows (`TextAssumption`, `InitialAssumption`), while the ids there may be are
any set.

**CallerIdentity.** `ScopeSeparatesCallers`: two tool callers that may name one
scope have the same project and agent factor. `ConfiguredAgentsSeparated`: the
same for configured factors.

**NeuroCoreService.** `Inv` says what the label of a call means: which operation
it is at and that, past its authorization, the log holds its allow event for the
scope it acts on (`Labelled`); that what it holds is the Memory it captures or
the content of a version of what is stored (`Holding`); that the id a call draws is
in the store from its put on, and that the call was allowed then (`Stored`); that what
a retrieval has got is a version of what is stored and what it returns is in its scope
(`Retrieved`); every
event is of a call that was made (`LogOwned`). `EffectsFollowAllow` and
`ChangesFollowAllow` are conjuncts: neither is inductive alone, since the effect
comes steps after its permission and relies on the label in between. The proof
uses what only grows: the log, and with it the versions of an id (`Versions`, the
Memories that allowed captures offer under it; `VersionsGrow`), and that no id is
taken away. So a step of one call leaves the part of another alone (`OtherCall`,
`HoldingStays`, `ExplainedStays`, `StepFrame`), although the stored memory may have
been replaced meanwhile; what remains is one lemma per action for the call that steps. From `Invariance` follow `TypeCorrect`,
`AuditedAhead` and `EffectsAllowed` (nothing is stored or logged without its
allow event), `CallersIsolated` (with `ScopeSeparatesCallers`) and `ContentKept`
(a second version of an id comes from an allowed capture under it, so without one
every put writes the content that is there), for any number of interleaved calls that
may raise or die anywhere. `Refinement`
(`Spec => Abstract!Spec`) maps every step: since the log only grows, permissions
and offers are never taken away (`MayStep`, `OfferedStep`); a put is an instant of the abstract service by
`Labelled` and `Holding` (`PutIsInstant`), a retrieved event by `Retrieved`
(`RetrievedEventIsInstant`); all other steps are `Permit` or stutter
(`QuietIsPermit`).

*Retrievals.* `RetrievalsAudited` needs two more facts about a retrieval (`AuditInv`,
checked in `service_safety` before it was proved): it has got each candidate at
most once, so that its results name distinct memories (`Gathered`, used where
`Rank` orders them), and the events it has logged are as many as the loop counts
and name the first results in their order (`Audited`). Events of other calls lie in
between, so the proof counts the positions of a call's own events in the log
(`RetrievedBy`, `Nth`) and shows that the steps of others keep them
(`RetrievedSame`, `AuditedSame`). Two lemmas about the operators carry the rest:
`RankingListsOnce` (a ranking lists each hit once) and `CappedBeginning` (the cut
is a beginning of the ranking, and how long it is, for a negative cap as well);
`BestReturned` follows: what is cut off scores no higher than what is
returned. `CallsAdvance` is the safety half of the service's `CallsEnd`: a step
brings one call to a later label or its loop nearer to the end, and moves no other
call. The number of candidates is finite because the store is (`FiniteInv`;
`MemoriesAssumption` says that it starts with finitely many memories).

*Calls one after the other* (`SerialSpec`). `SerialInv` adds to `AuditInv` that one
call is under way at a time (`OneAtATime`) and what this buys (`UpToDate`): what a
validation has read is still stored when it decides and when it writes, and what a
retrieval has got and has still to get are together the candidates there are.
`SerialInvariance` shows it inductive, `LogAlignedUnlessFailed` included, which
needs it: the event that tells a state is that of the call that has just put it
(`EffectEventAligns`). From it follow `LogTellsStates`, `LifecycleKept`,
`RetrievalIsExact` (ranking the candidates is ranking the scope, as a memory that
shares no term with the query is no hit: `RankingsOfHits`), and `SupersededStays`:
of calls one after the other only a client's capture under the id leaves
`superseded`. That exception is real (the claim without it is refuted on
`service_serial`); the trace of `service_stale_validate` is the other way out, which
needs two overlapping validations and no capture at all.

**ActivityAudit.** `Inv` adds to the properties that what a call has recorded is
the beginning of its plan and what it waits with has no row (`Labelled`), that a
row is what its call set out to record and comes after all earlier ones of the
call (`Recorded`), and that a reader's last answer is a sorted list of matching
rows (`Answered`). `Recorded` is what makes causality visible: a row of an effect
implies the row of its decision, so a complete audit that shows the one shows the
other (`AuditsShowDecisions`). `LedgerAndTableAgree`, `MostRecentReturned`,
`AuditsOnlyGrow` and `SettledTimesAreFinal` follow, for any calls, plans, readers
and queries.

**PluginHooks.** `Inv` adds what is not None when it is used (`Found`) and, for a
thread that has made all the calls so far (`Alone`), what its call has open at
each label (`Tidy`); a thread that is alone after a step took that step and was
alone before (`AloneBefore`). From it follow
`SessionsFindAService`, `OneThreadOneStore`, `UseIsUndisturbed` and
`LoadedServiceIsReady`.

**Installer.** `Inv` says at each label of the script which files are copied
(`CopiedBefore`) and which tools import (`ImportedBefore`); it needs that target
and source differ, which the refusal at the start ensures. From it
`SuccessIsInstalled` and `SuccessLoads`: where the target has its own modules the
search found those and not the source's, so the host finds them as well.
`TypeCorrect` says in particular that the script's place never leaves its list.

Only model-checked: `CallsEnd` of both modules and `Converges`. They are liveness
properties, and the prover has no rule for weak fairness, which is about
`ENABLED`. Their safety halves are proved: `EveryStepAdvances` that no call can run
on for ever, `OpenReachesLatest`, `RegressUnderRepair` and `HeldBack` which version
openers leave behind. What the runs add is that a call in progress always has a
next step (nobody waits for ever) and that fair scheduling takes it. The claims
that runs refute and those in the table of section 3 have no theorem for all
behaviours, of course; `SupersededStays` is one of them restricted to calls that
do not overlap and to validations. What the recursive definitions of the community modules compute
cannot be proved here, so the models state counts and orders by sets, functions
and positions instead.

## 5. Not modelled, and the plan

Still planned, in this order:

1. `NeuroCoreService` over connections that fail to open, composed with
   `SqliteStore`, so that refused databases and denied calls meet; retries as one
   client's sequence of calls.
2. `PluginHooks` over `SqliteStore`'s connections instead of its own.

Left out for good: the configuration loader, `verify.py` and the pre-commit hook
(file I/O of a single process, without state), `register_plugin` and the
metadata, wording of messages, and the helpers `_derive_caller_context` and
`_check_*` of the tools, which nothing calls. Two installers at a time on one
target, and the host importing from a target that is being written, are not
modelled: nothing in the code is about them.
