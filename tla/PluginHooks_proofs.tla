------------------------- MODULE PluginHooks_proofs -------------------------
(***************************************************************************)
(* Proofs about PluginHooks, for any number of threads and stores: no      *)
(* session goes silently unlogged, no store is closed underneath a use,    *)
(* and while one thread makes all the calls no connection leaks and a      *)
(* loaded service stays ready.                                             *)
(***************************************************************************)
EXTENDS PluginHooks, TLAPS

(***************************************************************************)
(* Who opened a store, and what closing changes.                           *)
(***************************************************************************)
LEMMA Connections ==
    ASSUME NEW c \in Connection
    PROVE  /\ c.owner \in Thread /\ c.open \in BOOLEAN
           /\ Closed(c) \in Connection /\ Closed(c).owner = c.owner /\ ~Closed(c).open
BY DEF Connection, Closed

(***************************************************************************)
(* Every index of stores names a connection.                               *)
(***************************************************************************)
LEMMA Indexed == TypeOK => \A i \in Index : stores[i] \in Connection
BY DEF TypeOK, Index

(***************************************************************************)
(* If one thread makes all the calls, what its call has open is all there  *)
(* is.                                                                     *)
(***************************************************************************)
LEMMA TidyMeansOne ==
    TypeOK /\ (\A t \in Thread : Alone(t) => Tidy(t)) => OneOpenStore
<1> SUFFICES ASSUME NEW t \in Thread, Tidy(t)
             PROVE  /\ \A i, j \in Index : stores[i].open /\ stores[j].open => i = j
                    /\ pc[t] = "idle" =>
                           store = service /\ \A i \in Index : stores[i].open => i = store
    BY DEF OneOpenStore
<1>1. QED
  BY DEF Tidy, OnlyOpen

(***************************************************************************)
(* So it is after a step.                                                  *)
(***************************************************************************)
LEMMA TidyMeansOneNext ==
    TypeOK' /\ (\A t \in Thread : Alone(t)' => Tidy(t)') => OneOpenStore'
<1>1. (TypeOK /\ (\A t \in Thread : Alone(t) => Tidy(t)))' => OneOpenStore'
  BY TidyMeansOne, PTL
<1>2. QED
  BY <1>1

(***************************************************************************)
(* A thread that is alone after a step took it, and was alone before.      *)
(***************************************************************************)
LEMMA AloneBefore ==
    ASSUME NEW t \in Thread, NEW v \in Thread, Alone(v)',
           \A s \in Thread \ {t} : pc'[s] = pc[s] /\ last'[s] = last[s],
           pc'[t] # "idle" \/ last'[t] # "none"
    PROVE  v = t /\ Alone(t)
BY DEF Alone

(***************************************************************************)
(* The invariant holds at first.                                           *)
(***************************************************************************)
LEMMA InitInv == Init => Inv
<1> SUFFICES ASSUME Init PROVE Inv
  OBVIOUS
<1>0. Index = {}
  BY DEF Init, Index
<1>1. TypeOK
  <2>1. stores \in Seq(Connection)
    BY DEF Init
  <2>2. QED
    BY <2>1 DEF Init, TypeOK
<1>2. NoSilentSession
  BY DEF Init, NoSilentSession
<1>3. Found
  BY DEF Init, Found
<1>4. \A t \in Thread : Tidy(t)
  BY <1>0 DEF Init, Tidy, OnlyOpen
<1>5. QED
  BY <1>1, <1>2, <1>3, <1>4, TidyMeansOne DEF Inv

(***************************************************************************)
(* Closing changes at most the global store, and only for the thread that  *)
(* opened it.                                                              *)
(***************************************************************************)
ClosedAt(t, i) ==
    /\ stores'[i].owner = stores[i].owner
    /\ stores'[i].open => stores[i].open
    /\ i # store \/ stores[i].owner # t => stores'[i] = stores[i]
    /\ i = store /\ stores[i].owner = t => ~stores'[i].open

LEMMA CloseKeepsStores ==
    ASSUME TypeOK, NEW t \in Thread, CloseStore(t)
    PROVE  /\ stores' \in Seq(Connection) /\ Index' = Index
           /\ \A i \in Index : ClosedAt(t, i)
<1>1. CASE store # NoStore /\ stores[store].owner = t
  <2>1. store \in Index /\ stores' = [stores EXCEPT ![store] = Closed(@)]
    BY <1>1 DEF CloseStore, TypeOK
  <2>2. \A i \in Index : stores'[i] = IF i = store THEN Closed(stores[i])
                                                   ELSE stores[i]
    BY <2>1 DEF TypeOK, Index
  <2>3. Closed(stores[store]) \in Connection
    BY <2>1, Indexed, Connections
  <2>4. stores' \in Seq(Connection) /\ Len(stores') = Len(stores)
    BY <2>1, <2>3 DEF TypeOK, Index
  <2>5. Index' = Index
    BY <2>4 DEF Index
  <2>6. ASSUME NEW i \in Index PROVE ClosedAt(t, i)
    BY <1>1, <2>2, Indexed, Connections DEF ClosedAt
  <2>7. QED
    BY <2>4, <2>5, <2>6
<1>2. CASE ~(store # NoStore /\ stores[store].owner = t)
  <2>1. stores' = stores /\ Index' = Index
    BY <1>2 DEF CloseStore, Index
  <2>2. ASSUME NEW i \in Index PROVE ClosedAt(t, i)
    BY <1>2, <2>1, ThreadAssumption DEF ClosedAt, Index
  <2>3. QED
    BY <2>1, <2>2 DEF TypeOK
<1>3. QED
  BY <1>1, <1>2

(***************************************************************************)
(* The beginning of a load, which closes the store of its own thread.      *)
(***************************************************************************)
LEMMA BeginLoadStep ==
    ASSUME Inv, NEW t \in Thread, OnPluginLoad(t) \/ ActivateUnloaded(t)
    PROVE  Inv'
<1>1. /\ CloseStore(t) /\ pc[t] = "idle" /\ pc' = [pc EXCEPT ![t] = "config"]
      /\ UNCHANGED <<store, service, registered, mine, last>>
      /\ activating' \in [Thread -> BOOLEAN]
  BY DEF Inv, TypeOK, OnPluginLoad, ActivateUnloaded, BeginLoad, Goto
<1>2. TypeOK
  BY DEF Inv
<1>3. /\ stores' \in Seq(Connection) /\ Index' = Index
      /\ \A i \in Index : ClosedAt(t, i)
  BY <1>1, <1>2, CloseKeepsStores
<1>4. TypeOK'
  BY <1>1, <1>2, <1>3 DEF TypeOK
<1>5. NoSilentSession' /\ Found'
  BY <1>1, <1>2 DEF Inv, NoSilentSession, Found, TypeOK
<1>6. ASSUME NEW v \in Thread, Alone(v)' PROVE Tidy(v)'
  <2>1. pc'[t] = "config"
    BY <1>1, <1>2 DEF TypeOK
  <2>2. v = t /\ Alone(t)
    BY <1>1, <1>2, <1>6, <2>1, AloneBefore DEF TypeOK
  <2>3. Tidy(t)
    BY <2>2 DEF Inv
  <2>4. \A i \in Index : stores'[i].owner = t /\ ~stores'[i].open
    BY <1>1, <1>3, <2>3 DEF ClosedAt, Tidy, OnlyOpen
  <2>5. QED
    BY <1>1, <1>3, <2>1, <2>2, <2>3, <2>4 DEF Tidy, OnlyOpen
<1>7. QED
  BY <1>4, <1>5, <1>6, TidyMeansOneNext DEF Inv

(***************************************************************************)
(* A new store is open, and nothing else is if no other thread calls.      *)
(***************************************************************************)
LEMMA OpenStoreStep ==
    ASSUME Inv, NEW t \in Thread, OpenStore(t)
    PROVE  Inv'
<1> DEFINE c == [owner |-> t, open |-> TRUE]
<1>1. TypeOK /\ Index = 1..Len(stores) /\ Len(stores) \in Nat
  BY DEF Inv, TypeOK, Index
<1>2. c \in Connection
  BY DEF Connection
<1>3. /\ stores' \in Seq(Connection) /\ Len(stores') = Len(stores) + 1
      /\ \A i \in Index : stores'[i] = stores[i]
      /\ stores'[Len(stores) + 1] = c
  BY <1>1, <1>2 DEF OpenStore, TypeOK
<1>4. Index' = Index \cup {Len(stores) + 1} /\ Len(stores) + 1 \notin Index
  BY <1>1, <1>3 DEF Index
<1>5. /\ pc[t] = "config" /\ pc' = [pc EXCEPT ![t] = "store"]
      /\ mine' = [mine EXCEPT ![t] = Len(stores) + 1]
      /\ UNCHANGED <<store, service, registered, activating, last>>
  BY DEF OpenStore, Goto
<1>6. TypeOK'
  BY <1>1, <1>3, <1>4, <1>5 DEF TypeOK
<1>7. NoSilentSession' /\ Found'
  BY <1>1, <1>4, <1>5, ThreadAssumption DEF Inv, NoSilentSession, Found, TypeOK
<1>8. ASSUME NEW v \in Thread, Alone(v)' PROVE Tidy(v)'
  <2>1. pc'[t] = "store" /\ mine'[t] = Len(stores) + 1
    BY <1>1, <1>5 DEF TypeOK
  <2>2. v = t /\ Alone(t)
    BY <1>1, <1>5, <1>8, <2>1, AloneBefore DEF TypeOK
  <2>3. Tidy(t)
    BY <2>2 DEF Inv
  <2>4. \A i \in Index' : stores'[i].owner = t
    BY <1>3, <1>4, <2>3 DEF Tidy
  <2>5. \A i \in Index' : stores'[i].open => i = Len(stores) + 1
    BY <1>3, <1>4, <1>5, <2>3 DEF Tidy
  <2>6. stores'[Len(stores) + 1].open
    BY <1>3
  <2>7. QED
    BY <2>1, <2>2, <2>4, <2>5, <2>6 DEF Tidy, OnlyOpen
<1>9. QED
  BY <1>6, <1>7, <1>8, TidyMeansOneNext DEF Inv

(***************************************************************************)
(* The rest of a load leaves the stores as they are.                       *)
(***************************************************************************)
LEMMA LoadStep ==
    ASSUME Inv, NEW t \in Thread,
           \/ LoadRaises(t) \/ SetStore(t) \/ ConstructService(t) \/ SetService(t)
           \/ RegisterExtension(t) \/ RegisterRaises(t)
    PROVE  Inv'
<1>1. TypeOK /\ Found /\ NoSilentSession
  BY DEF Inv
<1>2. stores' = stores /\ Index' = Index
  BY DEF LoadRaises, SetStore, ConstructService, SetService, RegisterExtension, RegisterRaises,
         Index
<1>3. ASSUME NEW v \in Thread, Alone(v)' PROVE v = t /\ Alone(t)
  BY <1>1, <1>3, AloneBefore
  DEF LoadRaises, SetStore, ConstructService, SetService, RegisterExtension, RegisterRaises,
      End, Goto, TypeOK
<1>4. Alone(t) => Tidy(t)
  BY DEF Inv
<1>5. CASE LoadRaises(t)
  <2>1. TypeOK' /\ Found' /\ NoSilentSession'
    BY <1>1, <1>2, <1>5 DEF LoadRaises, End, Goto, TypeOK, Found, NoSilentSession
  <2>2. \A v \in Thread : Alone(v)' => Tidy(v)'
    BY <1>1, <1>2, <1>3, <1>4, <1>5 DEF LoadRaises, End, Goto, Tidy, OnlyOpen, TypeOK
  <2>3. QED
    BY <2>1, <2>2, TidyMeansOneNext DEF Inv
<1>6. CASE SetStore(t)
  <2>1. TypeOK' /\ Found' /\ NoSilentSession'
    BY <1>1, <1>2, <1>6 DEF SetStore, Goto, TypeOK, Found, NoSilentSession
  <2>2. \A v \in Thread : Alone(v)' => Tidy(v)'
    BY <1>1, <1>2, <1>3, <1>4, <1>6 DEF SetStore, Goto, Tidy, OnlyOpen, TypeOK, Found
  <2>3. QED
    BY <2>1, <2>2, TidyMeansOneNext DEF Inv
<1>7. CASE ConstructService(t)
  <2>1. TypeOK' /\ Found' /\ NoSilentSession'
    BY <1>1, <1>2, <1>7 DEF ConstructService, Goto, TypeOK, Found, NoSilentSession
  <2>2. \A v \in Thread : Alone(v)' => Tidy(v)'
    BY <1>1, <1>2, <1>3, <1>4, <1>7 DEF ConstructService, Goto, Tidy, OnlyOpen, TypeOK
  <2>3. QED
    BY <2>1, <2>2, TidyMeansOneNext DEF Inv
<1>8. CASE SetService(t)
  <2>1. TypeOK' /\ Found' /\ NoSilentSession'
    BY <1>1, <1>2, <1>8 DEF SetService, Goto, TypeOK, Found, NoSilentSession
  <2>2. \A v \in Thread : Alone(v)' => Tidy(v)'
    BY <1>1, <1>2, <1>3, <1>4, <1>8 DEF SetService, Goto, Tidy, OnlyOpen, TypeOK
  <2>3. QED
    BY <2>1, <2>2, TidyMeansOneNext DEF Inv
<1>9. CASE RegisterExtension(t)
  <2>1. TypeOK' /\ Found' /\ NoSilentSession'
    BY <1>1, <1>2, <1>9 DEF RegisterExtension, End, Goto, TypeOK, Found, NoSilentSession
  <2>2. \A v \in Thread : Alone(v)' => Tidy(v)'
    BY <1>1, <1>2, <1>3, <1>4, <1>9
    DEF RegisterExtension, End, Goto, Tidy, OnlyOpen, TypeOK, Found
  <2>3. QED
    BY <2>1, <2>2, TidyMeansOneNext DEF Inv
<1>10. CASE RegisterRaises(t)
  <2>1. TypeOK' /\ Found' /\ NoSilentSession'
    BY <1>1, <1>2, <1>10 DEF RegisterRaises, End, Goto, TypeOK, Found, NoSilentSession
  <2>2. \A v \in Thread : Alone(v)' => Tidy(v)'
    BY <1>1, <1>2, <1>3, <1>4, <1>10 DEF RegisterRaises, End, Goto, Tidy, OnlyOpen, TypeOK
  <2>3. QED
    BY <2>1, <2>2, TidyMeansOneNext DEF Inv
<1>11. QED
  BY <1>5, <1>6, <1>7, <1>8, <1>9, <1>10

(***************************************************************************)
(* Activations and sessions use the stores and leave them as they are.     *)
(***************************************************************************)
LEMMA UseStep ==
    ASSUME Inv, NEW t \in Thread,
           \/ OnPluginActivate(t) \/ Session(t) \/ SelectOne(t) \/ SchemaVersion(t)
           \/ AppendEvent(t) \/ ActivationRefused(t) \/ SessionRefused(t) \/ StatementRaises(t)
    PROVE  Inv'
<1>1. TypeOK /\ Found /\ NoSilentSession
  BY DEF Inv
<1>2. stores' = stores /\ store' = store /\ service' = service /\ Index' = Index
      /\ registered' = registered /\ activating' = activating
  BY DEF OnPluginActivate, Session, SelectOne, SchemaVersion, AppendEvent, ActivationRefused,
         SessionRefused, StatementRaises, Index
<1>3. ASSUME NEW v \in Thread, Alone(v)' PROVE v = t /\ Alone(t)
  BY <1>1, <1>3, AloneBefore
  DEF OnPluginActivate, Session, SelectOne, SchemaVersion, AppendEvent, ActivationRefused,
      SessionRefused, StatementRaises, End, Goto, TypeOK
<1>4. Alone(t) => Tidy(t)
  BY DEF Inv
<1>5. CASE OnPluginActivate(t)
  <2>1. TypeOK' /\ Found' /\ NoSilentSession'
    BY <1>1, <1>2, <1>5 DEF OnPluginActivate, Goto, TypeOK, Found, NoSilentSession
  <2>2. \A v \in Thread : Alone(v)' => Tidy(v)'
    BY <1>1, <1>2, <1>3, <1>4, <1>5 DEF OnPluginActivate, Goto, Tidy, OnlyOpen, TypeOK
  <2>3. QED
    BY <2>1, <2>2, TidyMeansOneNext DEF Inv
<1>6. CASE Session(t)
  <2>0. /\ service # NoStore /\ pc[t] = "idle" /\ pc' = [pc EXCEPT ![t] = "append"]
        /\ mine' = [mine EXCEPT ![t] = service] /\ last' = last
    BY <1>1, <1>6 DEF Session, Goto, Found
  <2>1. TypeOK' /\ Found' /\ NoSilentSession'
    BY <1>1, <1>2, <2>0 DEF TypeOK, Found, NoSilentSession
  <2>2. \A v \in Thread : Alone(v)' => Tidy(v)'
    BY <1>1, <1>2, <1>3, <1>4, <2>0 DEF Tidy, OnlyOpen, TypeOK
  <2>3. QED
    BY <2>1, <2>2, TidyMeansOneNext DEF Inv
<1>7. CASE SelectOne(t)
  <2>1. TypeOK' /\ Found' /\ NoSilentSession'
    BY <1>1, <1>2, <1>7 DEF SelectOne, Goto, TypeOK, Found, NoSilentSession
  <2>2. \A v \in Thread : Alone(v)' => Tidy(v)'
    BY <1>1, <1>2, <1>3, <1>4, <1>7 DEF SelectOne, Goto, Tidy, OnlyOpen, TypeOK
  <2>3. QED
    BY <2>1, <2>2, TidyMeansOneNext DEF Inv
<1>8. ASSUME NEW how \in {"active", "logged", "refused", "unlogged", "raised"}, End(t, how),
             pc[t] \in {"select", "schema", "append"}, mine' = mine,
             how \in {"active", "logged"} => Usable(t, InUse(t))
      PROVE  Inv'
  <2>1. TypeOK' /\ Found' /\ NoSilentSession'
    BY <1>1, <1>2, <1>8 DEF End, Goto, TypeOK, Found, NoSilentSession
  <2>2. InUse(t) # NoStore
    BY <1>1, <1>8 DEF InUse, Found
  <2>3. \A v \in Thread : Alone(v)' => Tidy(v)'
    BY <1>1, <1>2, <1>3, <1>4, <1>8, <2>2
    DEF End, Goto, Usable, InUse, Tidy, OnlyOpen, TypeOK
  <2>4. QED
    BY <2>1, <2>3, TidyMeansOneNext DEF Inv
<1>9. ASSUME SchemaVersion(t) \/ AppendEvent(t) \/ ActivationRefused(t) \/ SessionRefused(t)
             \/ StatementRaises(t)
      PROVE  Inv'
  BY <1>8, <1>9 DEF SchemaVersion, AppendEvent, ActivationRefused, SessionRefused,
                    StatementRaises
<1>10. QED
  BY <1>5, <1>6, <1>7, <1>9

(***************************************************************************)
(* Every step keeps the invariant.                                         *)
(***************************************************************************)
LEMMA NextInv == Inv /\ [Next]_vars => Inv'
<1> SUFFICES ASSUME Inv, [Next]_vars PROVE Inv'
  OBVIOUS
<1>1. ASSUME NEW t \in Thread, Load(t) PROVE Inv'
  BY <1>1, BeginLoadStep, OpenStoreStep, LoadStep DEF Load
<1>2. ASSUME NEW t \in Thread, Use(t) PROVE Inv'
  BY <1>2, BeginLoadStep, UseStep DEF Use
<1>3. CASE UNCHANGED vars
  BY <1>3 DEF vars, Inv, TypeOK, NoSilentSession, OneOpenStore, Alone, Found, Tidy, OnlyOpen,
              Index
<1>4. QED
  BY <1>1, <1>2, <1>3 DEF Next

(***************************************************************************)
(* The globals and the stores they name agree, for any number of threads.  *)
(***************************************************************************)
THEOREM Invariance == Spec => []Inv
BY InitInv, NextInv, PTL DEF Spec

(***************************************************************************)
(* register_extension comes after the service: no session is silent.       *)
(***************************************************************************)
THEOREM SessionsFindAService == Spec => []NoSilentSession
<1>1. Inv => NoSilentSession
  BY DEF Inv
<1>2. QED
  BY <1>1, Invariance, PTL

(***************************************************************************)
(* While one thread makes all the calls, reloading leaks no connection.    *)
(***************************************************************************)
THEOREM OneThreadOneStore == Spec => []OneOpenStore
<1>1. Inv => OneOpenStore
  BY DEF Inv
<1>2. QED
  BY <1>1, Invariance, PTL

(***************************************************************************)
(* A store is closed by the thread that opened it, and that thread is not  *)
(* using it when it begins a load.                                         *)
(***************************************************************************)
THEOREM UseIsUndisturbed == Spec => NotClosedUnderneath
<1> DEFINE Undisturbed(t) ==
        pc[t] \in {"select", "schema", "append"} /\ Usable(t, InUse(t)) /\ InUse(t)' = InUse(t)
        => Usable(t, InUse(t))'
<1>1. ASSUME Inv, [Next]_vars, NEW t \in Thread PROVE Undisturbed(t)
  <2> SUFFICES ASSUME pc[t] \in {"select", "schema", "append"}, Usable(t, InUse(t)),
                      InUse(t)' = InUse(t)
               PROVE  Usable(t, InUse(t))'
    OBVIOUS
  <2>1. InUse(t) \in Index
    BY <1>1 DEF Inv, TypeOK, Found, InUse
  <2>2. CASE stores' = stores
    BY <2>2 DEF Usable
  <2>3. ASSUME NEW v \in Thread, OpenStore(v) PROVE Usable(t, InUse(t))'
    BY <1>1, <2>1, <2>3 DEF Inv, TypeOK, Index, OpenStore, Usable
  <2>4. ASSUME NEW v \in Thread, OnPluginLoad(v) \/ ActivateUnloaded(v)
        PROVE  Usable(t, InUse(t))'
    <3>1. CloseStore(v) /\ pc[v] = "idle"
      BY <2>4 DEF OnPluginLoad, ActivateUnloaded, BeginLoad
    <3>2. v # t /\ stores[InUse(t)].owner # v
      BY <3>1 DEF Usable
    <3>3. stores'[InUse(t)] = stores[InUse(t)]
      BY <1>1, <2>1, <3>1, <3>2, CloseKeepsStores DEF Inv, ClosedAt
    <3>4. QED
      BY <3>3 DEF Usable
  <2>5. QED
    BY <1>1, <2>2, <2>3, <2>4
    DEF Next, Load, Use, vars, LoadRaises, SetStore, ConstructService, SetService,
        RegisterExtension, RegisterRaises, OnPluginActivate, Session, SelectOne, SchemaVersion,
        AppendEvent, ActivationRefused, SessionRefused, StatementRaises
<1>2. Inv /\ [Next]_vars => [\A t \in Thread : Undisturbed(t)]_vars
  BY <1>1
<1>3. QED
  BY <1>2, Invariance, PTL DEF Spec, NotClosedUnderneath

(***************************************************************************)
(* How a thread's last call ended changes only by its own steps.           *)
(***************************************************************************)
LEMMA OtherThreads ==
    ASSUME TypeOK, NEW t \in Thread, NEW v \in Thread, Load(v) \/ Use(v), last'[t] # last[t]
    PROVE  v = t
BY DEF Load, Use, End, Goto, TypeOK, OnPluginLoad, ActivateUnloaded, BeginLoad, LoadRaises,
       OpenStore, SetStore, ConstructService, SetService, RegisterExtension, RegisterRaises,
       OnPluginActivate, Session, SelectOne, SchemaVersion, AppendEvent, ActivationRefused,
       SessionRefused, StatementRaises

(***************************************************************************)
(* While one thread makes all the calls, a loaded service stays ready.     *)
(***************************************************************************)
THEOREM LoadedServiceIsReady == Spec => ReadyUntilNextLoad
<1> DEFINE Ready(t) ==
        Alone(t) /\ last[t] \in {"loaded", "active", "logged"}
        => last'[t] \notin {"refused", "unlogged"}
<1>1. ASSUME Inv, [Next]_vars, NEW t \in Thread PROVE Ready(t)
  <2> SUFFICES ASSUME Alone(t), last[t] \in {"loaded", "active", "logged"},
                      last'[t] \in {"refused", "unlogged"}
               PROVE  FALSE
    OBVIOUS
  <2>0. last \in [Thread -> {"none", "raised", "loaded", "silent", "active", "logged",
                             "refused", "unlogged"}]
    BY <1>1 DEF Inv, TypeOK
  <2>1. last'[t] # last[t]
    OBVIOUS
  <2>2. PICK v \in Thread : Load(v) \/ Use(v)
    BY <1>1, <2>1 DEF Next, vars
  <2>3. v = t
    BY <1>1, <2>1, <2>2, OtherThreads DEF Inv
  <2>4. ActivationRefused(t) \/ SessionRefused(t)
    BY <2>0, <2>1, <2>2, <2>3
    DEF Load, Use, End, OnPluginLoad, ActivateUnloaded, BeginLoad, LoadRaises, OpenStore,
        SetStore, ConstructService, SetService, RegisterExtension, RegisterRaises,
        OnPluginActivate, Session, SelectOne, SchemaVersion, AppendEvent, StatementRaises
  <2>5. pc[t] \in {"select", "schema", "append"} /\ ~Usable(t, InUse(t))
    BY <2>4 DEF ActivationRefused, SessionRefused
  <2>6. Tidy(t) /\ TypeOK /\ Found
    BY <1>1 DEF Inv
  <2>7. InUse(t) = store /\ store \in Index /\ stores[store].open
    BY <2>5, <2>6 DEF Tidy, InUse, TypeOK
  <2>8. QED
    BY <2>5, <2>6, <2>7 DEF Usable, Tidy
<1>2. Inv /\ [Next]_vars => [\A t \in Thread : Ready(t)]_vars
  BY <1>1
<1>3. QED
  BY <1>2, Invariance, PTL DEF Spec, ReadyUntilNextLoad

=============================================================================
