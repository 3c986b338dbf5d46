---------------------------- MODULE PluginHooks ----------------------------
(***************************************************************************)
(* The plugin's globals (hooks.py) under the calls of the host's threads:  *)
(* on_plugin_load replaces the store and the service, on_plugin_activate   *)
(* verifies the store, and the session extension (extensions/__init__.py)  *)
(* appends its event through whatever service it finds.  A sqlite3         *)
(* connection serves only the thread that opened it.                       *)
(***************************************************************************)
EXTENDS Naturals, Sequences

CONSTANTS Thread,    \* threads of the host
          NoStore,   \* None
          MaxStores  \* bound on the stores that are ever opened

VARIABLES stores,     \* every SQLiteStore opened: who opened it, is it open
          store,      \* hooks._store, an index of stores
          service,    \* hooks._service, by the store it holds
          registered, \* is the extension in the host's cache?
          pc,         \* where each thread is
          activating, \* was its load begun by on_plugin_activate?
          mine,       \* the store each thread holds in a local variable
          last        \* how its last call ended

\* A sqlite3 connection; closing it.
Connection == [owner : Thread, open : BOOLEAN]
Closed(c) == [owner |-> c.owner, open |-> FALSE]

vars == <<stores, store, service, registered, pc, activating, mine, last>>

ASSUME ThreadAssumption == MaxStores \in Nat /\ NoStore \notin Nat

Init ==
    /\ stores = <<>> /\ store = NoStore /\ service = NoStore
    /\ registered = FALSE
    /\ pc = [t \in Thread |-> "idle"]
    /\ activating = [t \in Thread |-> FALSE]
    /\ mine = [t \in Thread |-> NoStore]
    /\ last = [t \in Thread |-> "none"]

-----------------------------------------------------------------------------
Goto(t, label) == pc' = [pc EXCEPT ![t] = label]

\* Call of thread t returns or raises.
End(t, how) ==
    /\ Goto(t, "idle")
    /\ last' = [last EXCEPT ![t] = how]

\* Mutant: connections opened with check_same_thread=False.
CloseStoreAnyThread(t) ==
    stores' = IF store # NoStore THEN [stores EXCEPT ![store] = Closed(@)] ELSE stores

\* _store.close(): of another thread's store it raises, which is swallowed.
CloseStore(t) ==
    stores' = IF store # NoStore /\ stores[store].owner = t
              THEN [stores EXCEPT ![store] = Closed(@)] ELSE stores

\* Mutant: the old store is left to the garbage collector.
BeginLoadUnclosed(t) ==
    /\ Goto(t, "config")
    /\ UNCHANGED <<stores, store, service, registered, mine, last>>

BeginLoad(t) ==
    /\ CloseStore(t)
    /\ Goto(t, "config")
    /\ UNCHANGED <<store, service, registered, mine, last>>

OnPluginLoad(t) ==
    /\ pc[t] = "idle"
    /\ activating' = [activating EXCEPT ![t] = FALSE]
    /\ BeginLoad(t)

\* _load_config or the constructor raises: the globals keep the closed store.
LoadRaises(t) ==
    /\ pc[t] = "config"
    /\ End(t, "raised")
    /\ UNCHANGED <<stores, store, service, registered, activating, mine>>

OpenStore(t) ==
    /\ pc[t] = "config"
    /\ Len(stores) < MaxStores
    /\ stores' = Append(stores, [owner |-> t, open |-> TRUE])
    /\ mine' = [mine EXCEPT ![t] = Len(stores) + 1]
    /\ Goto(t, "store")
    /\ UNCHANGED <<store, service, registered, activating, last>>

SetStore(t) ==
    /\ pc[t] = "store"
    /\ store' = mine[t]
    /\ Goto(t, "construct")
    /\ UNCHANGED <<stores, service, registered, activating, mine, last>>

\* Mutant: register_extension() comes before the service is assigned.
ConstructServiceRegistered(t) ==
    /\ pc[t] = "construct"
    /\ mine' = [mine EXCEPT ![t] = store]
    /\ registered' = TRUE
    /\ Goto(t, "service")
    /\ UNCHANGED <<stores, store, service, activating, last>>

\* NeuroCoreService(_store) reads the global again.
ConstructService(t) ==
    /\ pc[t] = "construct"
    /\ mine' = [mine EXCEPT ![t] = store]
    /\ Goto(t, "service")
    /\ UNCHANGED <<stores, store, service, registered, activating, last>>

\* Mutant: the service is built only the first time.
SetServiceOnce(t) ==
    /\ pc[t] = "service"
    /\ service' = IF service = NoStore THEN mine[t] ELSE service
    /\ Goto(t, "register")
    /\ UNCHANGED <<stores, store, registered, activating, mine, last>>

SetService(t) ==
    /\ pc[t] = "service"
    /\ service' = mine[t]
    /\ Goto(t, "register")
    /\ UNCHANGED <<stores, store, registered, activating, mine, last>>

RegisterExtension(t) ==
    /\ pc[t] = "register"
    /\ registered' = TRUE
    /\ IF activating[t] THEN Goto(t, "select") /\ UNCHANGED last ELSE End(t, "loaded")
    /\ UNCHANGED <<stores, store, service, activating, mine>>

RegisterRaises(t) ==
    /\ pc[t] = "register"
    /\ End(t, "raised")
    /\ UNCHANGED <<stores, store, service, registered, activating, mine>>

-----------------------------------------------------------------------------
\* on_plugin_activate loads only if it finds no store or service.
ActivateUnloaded(t) ==
    /\ pc[t] = "idle"
    /\ service = NoStore \/ store = NoStore
    /\ activating' = [activating EXCEPT ![t] = TRUE]
    /\ BeginLoad(t)

OnPluginActivate(t) ==
    /\ pc[t] = "idle"
    /\ service # NoStore /\ store # NoStore
    /\ Goto(t, "select")
    /\ UNCHANGED <<stores, store, service, registered, activating, mine, last>>

\* agent_init of a new session: execute of the registered extension.
Session(t) ==
    /\ pc[t] = "idle"
    /\ registered
    /\ IF service = NoStore THEN End(t, "silent") ELSE Goto(t, "append") /\ UNCHANGED last
    /\ mine' = [mine EXCEPT ![t] = service]
    /\ UNCHANGED <<stores, store, service, registered, activating>>

\* The store that thread t is about to use, and how sqlite3 answers.
InUse(t) == IF pc[t] = "append" THEN mine[t] ELSE store
Usable(t, i) == stores[i].owner = t /\ stores[i].open

SelectOne(t) ==
    /\ pc[t] = "select"
    /\ Usable(t, InUse(t))
    /\ Goto(t, "schema")
    /\ UNCHANGED <<stores, store, service, registered, activating, mine, last>>

SchemaVersion(t) ==
    /\ pc[t] = "schema"
    /\ Usable(t, InUse(t))
    /\ End(t, "active")
    /\ UNCHANGED <<stores, store, service, registered, activating, mine>>

AppendEvent(t) ==
    /\ pc[t] = "append"
    /\ Usable(t, InUse(t))
    /\ End(t, "logged")
    /\ UNCHANGED <<stores, store, service, registered, activating, mine>>

\* ProgrammingError: the wrong thread, or a closed database.
ActivationRefused(t) ==
    /\ pc[t] \in {"select", "schema"}
    /\ ~Usable(t, InUse(t))
    /\ End(t, "refused")
    /\ UNCHANGED <<stores, store, service, registered, activating, mine>>

SessionRefused(t) ==
    /\ pc[t] = "append"
    /\ ~Usable(t, InUse(t))
    /\ End(t, "unlogged")
    /\ UNCHANGED <<stores, store, service, registered, activating, mine>>

\* Any other database error.
StatementRaises(t) ==
    /\ pc[t] \in {"select", "schema", "append"}
    /\ Usable(t, InUse(t))
    /\ End(t, "raised")
    /\ UNCHANGED <<stores, store, service, registered, activating, mine>>

-----------------------------------------------------------------------------
Load(t) ==
    \/ OnPluginLoad(t) \/ LoadRaises(t) \/ OpenStore(t) \/ SetStore(t) \/ ConstructService(t)
    \/ SetService(t) \/ RegisterExtension(t) \/ RegisterRaises(t)

Use(t) ==
    \/ ActivateUnloaded(t) \/ OnPluginActivate(t) \/ Session(t) \/ SelectOne(t)
    \/ SchemaVersion(t) \/ AppendEvent(t) \/ ActivationRefused(t) \/ SessionRefused(t)
    \/ StatementRaises(t)

Next == \E t \in Thread : Load(t) \/ Use(t)

Spec == Init /\ [][Next]_vars

-----------------------------------------------------------------------------
Index == 1..Len(stores)

TypeOK ==
    /\ stores \in Seq(Connection)
    /\ store \in Index \cup {NoStore} /\ service \in Index \cup {NoStore}
    /\ registered \in BOOLEAN
    /\ pc \in [Thread -> {"idle", "config", "store", "construct", "service", "register",
                          "select", "schema", "append"}]
    /\ activating \in [Thread -> BOOLEAN]
    /\ mine \in [Thread -> Index \cup {NoStore}]
    /\ last \in [Thread -> {"none", "raised", "loaded", "silent", "active", "logged",
                            "refused", "unlogged"}]

\* No session goes unlogged in silence: by the time the host can start the
\* extension there is a service, whatever other loads are under way or have
\* failed (on_plugin_load: the service first, then register_extension).
NoSilentSession == \A t \in Thread : last[t] # "silent"

\* The store a session is about to append to is not closed underneath it:
\* on_plugin_load closes the global store while other threads use it, but
\* the connection refuses a thread that did not open it (hooks.py:86-90).
NotClosedUnderneath ==
    [][\A t \in Thread :
          pc[t] \in {"select", "schema", "append"} /\ Usable(t, InUse(t)) /\ InUse(t)' = InUse(t)
          => Usable(t, InUse(t))']_vars

\* No other thread has called yet, as with the one thread of the tests.
Alone(t) == \A s \in Thread \ {t} : pc[s] = "idle" /\ last[s] = "none"

\* As long as one thread makes all the calls, reloading any number of times,
\* with loads that fail at any point, leaks no connection: at most one is
\* open, between calls only that of the global store, which is the service's.
OneOpenStore ==
    \A t \in Thread : Alone(t) =>
        /\ \A i, j \in Index : stores[i].open /\ stores[j].open => i = j
        /\ pc[t] = "idle" =>
               store = service /\ \A i \in Index : stores[i].open => i = store

\* As long as one thread makes all the calls, a load that has returned leaves
\* "the initialized service, ready to accept tool calls" (hooks.py:83), and it
\* stays so through activations and sessions: none of them is refused before
\* another load has failed.
ReadyUntilNextLoad ==
    [][\A t \in Thread :
          Alone(t) /\ last[t] \in {"loaded", "active", "logged"}
          => last'[t] \notin {"refused", "unlogged"}]_vars

-----------------------------------------------------------------------------
\* The inductive invariant.
\* What is not None when it is used.
Found ==
    /\ registered => service # NoStore
    /\ service # NoStore => store # NoStore
    /\ \A t \in Thread :
          /\ pc[t] = "register" => service # NoStore
          /\ pc[t] \in {"construct", "service", "select", "schema"} => store # NoStore
          /\ pc[t] \in {"store", "service", "append"} => mine[t] # NoStore

OnlyOpen(i) == \A j \in Index : stores[j].open => j = i

\* What a thread that makes all the calls has open, wherever its call is.
Tidy(t) ==
    /\ \A j \in Index : stores[j].owner = t
    /\ pc[t] = "config" => \A j \in Index : ~stores[j].open
    /\ pc[t] = "store" => OnlyOpen(mine[t]) /\ stores[mine[t]].open
    /\ pc[t] # "store" => OnlyOpen(store)
    /\ pc[t] \in {"construct", "service", "register"} => stores[store].open
    /\ pc[t] = "service" => mine[t] = store
    /\ pc[t] = "append" => mine[t] = service
    /\ pc[t] \notin {"store", "construct", "service"} => store = service
    /\ pc[t] \in {"idle", "select", "schema", "append"}
       /\ last[t] \in {"loaded", "active", "logged"} => store # NoStore /\ stores[store].open

\* The globals and the stores they name agree at every step of hooks.py.
Inv ==
    /\ TypeOK /\ NoSilentSession /\ OneOpenStore
    /\ Found
    /\ \A t \in Thread : Alone(t) => Tidy(t)

-----------------------------------------------------------------------------
\* "The extension logs a session-initialized activity event through the Neuro
\* Core 2 service when an agent session starts" (extensions/__init__.py:3-5).
SessionsLogged == \A t \in Thread : last[t] # "unlogged"

=============================================================================
