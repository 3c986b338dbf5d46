------------------------ MODULE NeuroCoreService_proofs ------------------------
(***************************************************************************)
(* Proofs about NeuroCoreService for any calls, requests, memories and     *)
(* scopes.  The inductive invariant is Inv.  A step of one call leaves the *)
(* part of another alone as long as log and store only grow (OtherCall);   *)
(* what is left is one case per action for the call that steps.            *)
(***************************************************************************)
EXTENDS NeuroCoreService, CallerIdentity_proofs, FiniteSetTheorems, SequenceTheorems, TLAPS

USE RequestsAssumption, MemoriesAssumption, TokensAssumption

Requesting == CaptureRequest \cup RetrieveRequest \cup ValidateRequest

(***************************************************************************)
(* A call that has been made has the arguments of its operation.           *)
(***************************************************************************)
LEMMA RequestShape ==
    ASSUME TypeOK, NEW c \in Call, request[c] # NoRequest
    PROVE  /\ request[c] \in Requests /\ request[c] \in Requesting
           /\ Op(c) \in {"capture", "retrieve", "validate"}
           /\ request[c].scope \in Requested
           /\ Op(c) = "capture" => /\ request[c].text \in Text /\ request[c].weight \in Nat
                                  /\ request[c].validation \in ValidationState
                                  /\ request[c].id \in MemoryId \cup {NewId}
                                  /\ Captured(c) \in Memory
           /\ Op(c) # "retrieve" => Target(c) \in MemoryId
           /\ Op(c) = "validate" => Target(c) = request[c].id
           /\ Op(c) = "retrieve" => request[c].query \in SUBSET Term /\ request[c].max \in Int
           /\ Op(c) = "validate" => request[c].id \in MemoryId /\ request[c].target \in ValidationState
<1>1. request[c] \in Requests
  BY DEF TypeOK
<1>2. request[c] \in Requesting
  BY <1>1 DEF Requesting
<1>3. /\ Op(c) \in {"capture", "retrieve", "validate"}
      /\ request[c].scope \in Requested
      /\ Op(c) = "capture" => request[c] \in CaptureRequest
      /\ Op(c) = "retrieve" => request[c] \in RetrieveRequest
      /\ Op(c) = "validate" => request[c] \in ValidateRequest
  BY <1>2 DEF Requesting, CaptureRequest, RetrieveRequest, ValidateRequest, Op
<1>4. CASE Op(c) = "capture"
  <2>1. /\ request[c].text \in Text /\ request[c].weight \in Nat
        /\ request[c].validation \in ValidationState
        /\ request[c].id \in MemoryId \cup {NewId}
    BY <1>3, <1>4 DEF CaptureRequest
  <2>2. Captured(c) \in Memory
    BY <1>3, <2>1 DEF Captured, Memory
  <2>3. Target(c) \in MemoryId
    BY <2>1 DEF Target, MemoryId
  <2>4. QED
    BY <1>1, <1>2, <1>3, <1>4, <2>1, <2>2, <2>3
<1>5. CASE Op(c) = "retrieve"
  BY <1>1, <1>2, <1>3, <1>5 DEF RetrieveRequest
<1>6. CASE Op(c) = "validate"
  <2>1. request[c].id \in MemoryId /\ request[c].target \in ValidationState
    BY <1>3, <1>6 DEF ValidateRequest
  <2>2. Target(c) = request[c].id
    BY <2>1 DEF Target
  <2>3. QED
    BY <1>1, <1>2, <1>3, <1>6, <2>1, <2>2
<1>7. QED
  BY <1>3, <1>4, <1>5, <1>6

(***************************************************************************)
(* The initial state satisfies the invariant.                              *)
(***************************************************************************)
THEOREM InitInv == Init => Inv
<1> SUFFICES ASSUME Init PROVE Inv
  OBVIOUS
<1>1. TypeOK
  BY DEF Init, TypeOK, MemoryId, PC, Ended
<1>2. LogOwned /\ EffectsFollowAllow
  BY DEF Init, LogOwned, EffectsFollowAllow
<1>3. ChangesFollowAllow
  <2>1. ASSUME NEW id \in MemoryId, memories[id] # NoMemory
        PROVE  memories[id] \in Versions[id] /\ SameContent(memories[id], memories[id])
    BY <2>1 DEF Init, Versions, SameContent
  <2>2. QED
    BY <2>1 DEF ChangesFollowAllow
<1>4. ASSUME NEW c \in Call PROVE Labelled(c) /\ Holding(c) /\ Stored(c)
  BY DEF Init, Labelled, Holding, Stored, Acting, Asks, MemoryId
<1>5. ASSUME NEW c \in Call PROVE Retrieved(c)
  BY FS_EmptySet DEF Init, Retrieved
<1>6. QED
  BY <1>1, <1>2, <1>3, <1>4, <1>5 DEF Inv

-----------------------------------------------------------------------------
(* What every step leaves as it is.                                        *)
LogGrows == /\ Len(log') >= Len(log)
            /\ \A j \in 1..Len(log) : log'[j] = log[j]
StoreKeeps == \A id \in MemoryId : memories[id] # NoMemory => memories'[id] # NoMemory
RequestsKept == \A d \in Call : request[d] # NoRequest => request'[d] = request[d]

(***************************************************************************)
(* A permission in the log stays there.                                    *)
(***************************************************************************)
LEMMA ClearedStable ==
    ASSUME TypeOK, TypeOK', LogGrows, NEW d \in Call, request'[d] = request[d],
           NEW scope, Cleared(d, scope)
    PROVE  Cleared(d, scope)'
<1>1. DOMAIN log = 1..Len(log) /\ DOMAIN log' = 1..Len(log') /\ Len(log) \in Nat /\ Len(log') \in Nat
  BY DEF TypeOK
<1>2. CASE Checked(d)
  <2>1. PICK j \in DOMAIN log : AllowAt(j, d, scope)
    BY <1>2 DEF Cleared
  <2>2. j \in DOMAIN log' /\ log'[j] = log[j]
    BY <1>1, <2>1 DEF LogGrows
  <2>3. QED
    BY <1>2, <2>1, <2>2 DEF Cleared, AllowAt, Checked
<1>3. CASE ~Checked(d)
  BY <1>3 DEF Cleared, Checked
<1>4. QED
  BY <1>2, <1>3

(***************************************************************************)
(* A permission in the log stays there, also for unchecked calls.          *)
(***************************************************************************)
LEMMA AuthorizedStable ==
    ASSUME TypeOK, TypeOK', LogGrows, NEW d \in Call, request'[d] = request[d],
           NEW scope, Authorized(d, scope)
    PROVE  Authorized(d, scope)'
<1>1. DOMAIN log = 1..Len(log) /\ DOMAIN log' = 1..Len(log') /\ Len(log) \in Nat /\ Len(log') \in Nat
  BY DEF TypeOK
<1>2. \A j \in DOMAIN log : j \in DOMAIN log' /\ log'[j] = log[j]
  BY <1>1 DEF LogGrows
<1>3. QED
  BY <1>2 DEF Authorized, AllowAt, Checked

(***************************************************************************)
(* What has been captured under an id, with permission, stays a version.   *)
(***************************************************************************)
LEMMA VersionsGrow ==
    ASSUME TypeOK, TypeOK', LogGrows, RequestsKept, NEW id \in MemoryId
    PROVE  Versions[id] \subseteq Versions'[id]
<1>1. ASSUME NEW c \in Captures(id) PROVE c \in Captures(id)' /\ Captured(c)' = Captured(c)
  <2>1. c \in Call /\ Asks(c, "capture") /\ Target(c) = id /\ Authorized(c, request[c].scope)
    BY DEF Captures
  <2>2. request'[c] = request[c]
    BY <2>1 DEF Asks, RequestsKept
  <2>3. PICK scope : scope = request[c].scope
    OBVIOUS
  <2>4. Authorized(c, scope)'
    BY <2>1, <2>2, <2>3, AuthorizedStable
  <2>5. Authorized(c, request[c].scope)'
    BY <2>2, <2>3, <2>4 DEF Authorized, AllowAt, Checked
  <2>6. QED
    BY <2>1, <2>2, <2>5 DEF Captures, Captured, Asks, Op, Target
<1>2. QED
  BY <1>1 DEF Versions

(***************************************************************************)
(* The call that does not step keeps its part of the invariant.            *)
(***************************************************************************)
LEMMA OtherCall ==
    ASSUME Inv, TypeOK', LogGrows, StoreKeeps, RequestsKept, NEW d \in Call,
           request'[d] = request[d], pc'[d] = pc[d], current'[d] = current[d],
           found'[d] = found[d], results'[d] = results[d],
           memories[d] = NoMemory => memories'[d] = NoMemory
    PROVE  (Labelled(d) /\ Holding(d) /\ Stored(d) /\ Retrieved(d))'
<1> USE DEF Op
<1>0. TypeOK /\ Labelled(d) /\ Holding(d) /\ Stored(d) /\ Retrieved(d)
  BY DEF Inv
<1>1. \A scope : Cleared(d, scope) => Cleared(d, scope)'
  BY <1>0, ClearedStable
<1>2. Labelled(d)'
  <2>1. ActingScope(d)' = ActingScope(d)
    BY DEF ActingScope
  <2>2. pc[d] \in Acting => Cleared(d, ActingScope(d))'
    BY <1>0, <1>1, <2>1 DEF Labelled
  <2>3. QED
    BY <1>0, <2>2 DEF Labelled
<1>3. Holding(d)'
  <2>1. ASSUME pc[d] \in {"authorize", "transition", "put", "effect_event", "done"}, Op(d) = "validate"
        PROVE  /\ current[d] # NoMemory
               /\ \E n \in Versions'[request[d].id] : SameContent(current[d], n)
               /\ memories'[request[d].id] # NoMemory
    <3>1. request[d] # NoRequest
      BY <1>0, <2>1 DEF Labelled
    <3>2. request[d].id \in MemoryId
      BY <1>0, <2>1, <3>1, RequestShape
    <3>3. Versions[request[d].id] \subseteq Versions'[request[d].id]
      BY <1>0, <3>2, VersionsGrow
    <3>4. QED
      BY <1>0, <2>1, <3>2, <3>3 DEF Holding, StoreKeeps, IsVersion
  <2>2. Prepared(d)' = Prepared(d)
    BY DEF Prepared, Captured
  <2>3. Asks(d, "capture")' => HasId(request[d])'
    BY <1>0 DEF Holding, HasId, Asks, StoreKeeps, MemoryId
  <2>4. QED
    BY <1>0, <2>1, <2>2, <2>3 DEF Holding, IsVersion, SameContent
<1>4. Stored(d)'
  BY <1>0, <1>1 DEF Stored, Asks
<1>5. Retrieved(d)'
  <2>1. ASSUME NEW h \in found[d]
        PROVE  /\ \E n \in Versions'[h.id] : SameContent(h.memory, n)
               /\ memories'[h.id] # NoMemory
    <3>1. h.id \in MemoryId
      BY <1>0 DEF TypeOK, Hit
    <3>2. IsVersion(h.memory, h.id) /\ memories[h.id] # NoMemory
      BY <1>0 DEF Retrieved
    <3>3. Versions[h.id] \subseteq Versions'[h.id]
      BY <1>0, <3>1, VersionsGrow
    <3>4. QED
      BY <3>1, <3>2, <3>3 DEF StoreKeeps, IsVersion
  <2>2. results[d] # <<>> => Asks(d, "retrieve")' /\ Cleared(d, request[d].scope)'
    BY <1>0, <1>1 DEF Retrieved, Asks
  <2>3. QED
    BY <1>0, <2>1, <2>2 DEF Retrieved, IsVersion, SameContent
<1>6. QED
  BY <1>2, <1>3, <1>4, <1>5

(***************************************************************************)
(* A step of c that leaves store, candidates and results alone.            *)
(***************************************************************************)
LEMMA OwnStill ==
    ASSUME Inv, TypeOK', LogGrows, RequestsKept, NEW c \in Call, request'[c] = request[c],
           UNCHANGED <<memories, found, results>>,
           pc[c] \in {"effect_event", "done", "raised", "crashed"} =>
               pc'[c] \in {"done", "raised", "crashed"}
    PROVE  Stored(c)' /\ Retrieved(c)'
<1>0. TypeOK /\ Stored(c) /\ Retrieved(c)
  BY DEF Inv
<1>1. \A scope : Cleared(c, scope) => Cleared(c, scope)'
  BY <1>0, ClearedStable
<1>2. Stored(c)'
  BY <1>0, <1>1 DEF Stored, Asks, Op
<1>3. Retrieved(c)'
  <2>1. ASSUME NEW h \in found[c] PROVE \E n \in Versions'[h.id] : SameContent(h.memory, n)
    <3>1. h.id \in MemoryId /\ IsVersion(h.memory, h.id)
      BY <1>0 DEF TypeOK, Hit, Retrieved
    <3>2. Versions[h.id] \subseteq Versions'[h.id]
      BY <1>0, <3>1, VersionsGrow
    <3>3. QED
      BY <3>1, <3>2 DEF IsVersion
  <2>2. QED
    BY <1>0, <1>1, <2>1 DEF Retrieved, Asks, Op, SameContent, IsVersion
<1>4. QED
  BY <1>2, <1>3

(***************************************************************************)
(* A step without an event keeps what the log shows.                       *)
(***************************************************************************)
LEMMA LogSame ==
    ASSUME Inv, UNCHANGED log, RequestsKept
    PROVE  LogGrows /\ LogOwned' /\ EffectsFollowAllow'
<1>0. TypeOK /\ LogOwned /\ EffectsFollowAllow
  BY DEF Inv
<1>1. \A i \in DOMAIN log : /\ log[i].call \in Call
                            /\ request'[log[i].call] = request[log[i].call]
  <2>1. ASSUME NEW i \in DOMAIN log PROVE log[i] \in Event
    BY <1>0 DEF TypeOK
  <2>2. \A i \in DOMAIN log : log[i].call \in Call
    BY <2>1 DEF Event
  <2>3. QED
    BY <1>0, <2>2 DEF LogOwned, RequestsKept
<1>2. LogGrows /\ LogOwned'
  BY <1>0, <1>1 DEF LogGrows, LogOwned, TypeOK
<1>3. EffectsFollowAllow'
  BY <1>0, <1>1 DEF EffectsFollowAllow, AllowAt, Checked
<1>4. QED
  BY <1>2, <1>3

(***************************************************************************)
(* An event is appended: an authorization, or an effect that is allowed    *)
(* (_event and _audit_authorization).                                      *)
(***************************************************************************)
LEMMA LogStep ==
    ASSUME Inv, NEW c \in Call, request[c] # NoRequest, request' = request,
           NEW kind \in {"authorization_decided", "captured", "retrieved", "validation_changed"},
           NEW scope \in Requested, NEW target \in MemoryId \cup {"authorization"},
           NEW outcome \in ValidationState \cup {"allow", "deny", "stored", "selected"},
           AppendEvent(c, kind, scope, target, outcome),
           kind # "authorization_decided" /\ Checked(c) => \E j \in DOMAIN log : AllowAt(j, c, scope)
    PROVE  /\ log' \in Seq(Event) /\ DOMAIN log' = 1..(Len(log) + 1)
           /\ log'[Len(log) + 1] = [call |-> c, kind |-> kind, scope |-> scope,
                                    target |-> target, outcome |-> outcome]
           /\ LogGrows /\ LogOwned' /\ EffectsFollowAllow'
<1> DEFINE e == [call |-> c, kind |-> kind, scope |-> scope, target |-> target, outcome |-> outcome]
<1>0. TypeOK /\ LogOwned /\ EffectsFollowAllow /\ log \in Seq(Event)
  BY DEF Inv, TypeOK
<1>1. e \in Event /\ log' = Append(log, e)
  BY DEF Event, AppendEvent
<1>2. /\ log' \in Seq(Event) /\ Len(log') = Len(log) + 1 /\ Len(log) \in Nat
      /\ DOMAIN log' = 1..(Len(log) + 1) /\ DOMAIN log = 1..Len(log)
      /\ log'[Len(log) + 1] = e
      /\ \A j \in 1..Len(log) : log'[j] = log[j]
  BY <1>0, <1>1
<1>3. LogGrows
  BY <1>2 DEF LogGrows
<1>4. LogOwned'
  BY <1>0, <1>2 DEF LogOwned
<1>5. ASSUME NEW i \in 1..(Len(log) + 1), log'[i].kind # "authorization_decided",
             request[log'[i].call].origin.kind # "none"
      PROVE  \E j \in 1..(i - 1) : /\ log'[j].call = log'[i].call
                                   /\ log'[j].kind = "authorization_decided"
                                   /\ log'[j].outcome = "allow"
                                   /\ log'[j].scope = log'[i].scope
  <2>1. CASE i = Len(log) + 1
    <3>0. log'[i] = e
      BY <1>2, <2>1
    <3>1. PICK j \in 1..Len(log) : AllowAt(j, c, scope)
      BY <1>2, <1>5, <3>0 DEF Checked
    <3>2. log'[j] = log[j] /\ j \in 1..(i - 1)
      BY <1>2, <2>1, <3>1
    <3>3. QED
      BY <3>0, <3>1, <3>2 DEF AllowAt
  <2>2. CASE i # Len(log) + 1
    <3>1. i \in 1..Len(log) /\ log'[i] = log[i]
      BY <1>2, <2>2
    <3>2. PICK j \in 1..(i - 1) : AllowAt(j, log[i].call, log[i].scope)
      BY <1>0, <1>2, <1>5, <3>1 DEF EffectsFollowAllow, Checked
    <3>3. log'[j] = log[j]
      BY <1>2, <3>1
    <3>4. QED
      BY <3>1, <3>2, <3>3 DEF AllowAt
  <2>3. QED
    BY <2>1, <2>2
<1>6. EffectsFollowAllow'
  BY <1>2, <1>5 DEF EffectsFollowAllow, AllowAt, Checked
<1>7. QED
  BY <1>2, <1>3, <1>4, <1>6

(***************************************************************************)
(* What a stored memory owes to the calls that captured and validated it.  *)
(***************************************************************************)
Explained(id) ==
    \E m \in Versions[id] :
        /\ SameContent(memories[id], m)
        /\ \/ memories[id].validation = m.validation
           \/ \E v \in Call : /\ Asks(v, "validate")
                              /\ request[v].id = id
                              /\ request[v].target = memories[id].validation
                              /\ Authorized(v, m.scope)

LEMMA ExplainedStays ==
    ASSUME Inv, TypeOK', LogGrows, RequestsKept, NEW id \in MemoryId,
           memories[id] # NoMemory, memories'[id] = memories[id]
    PROVE  Explained(id)'
<1>0. TypeOK /\ Explained(id) /\ Versions[id] \subseteq Versions'[id]
  BY VersionsGrow DEF Inv, ChangesFollowAllow, Explained
<1>1. PICK m \in Versions[id] :
         /\ SameContent(memories[id], m)
         /\ \/ memories[id].validation = m.validation
            \/ \E v \in Call : /\ Asks(v, "validate")
                               /\ request[v].id = id
                               /\ request[v].target = memories[id].validation
                               /\ Authorized(v, m.scope)
  BY <1>0 DEF Explained
<1>2. ASSUME NEW v \in Call, Asks(v, "validate"), Authorized(v, m.scope)
      PROVE  Asks(v, "validate")' /\ request'[v] = request[v] /\ Authorized(v, m.scope)'
  <2>1. request'[v] = request[v]
    BY <1>2 DEF Asks, RequestsKept
  <2>2. QED
    BY <1>0, <1>2, <2>1, AuthorizedStable DEF Asks, Op
<1>3. QED
  BY <1>0, <1>1, <1>2 DEF Explained, SameContent

(***************************************************************************)
(* A step that leaves the store alone keeps what its memories owe to calls.*)
(***************************************************************************)
LEMMA ChangesSame ==
    ASSUME Inv, TypeOK', LogGrows, RequestsKept, UNCHANGED memories
    PROVE  ChangesFollowAllow' /\ StoreKeeps
<1>1. ASSUME NEW id \in MemoryId, memories[id] # NoMemory PROVE Explained(id)'
  BY <1>1, ExplainedStays
<1>2. QED
  BY <1>1 DEF ChangesFollowAllow, Explained, StoreKeeps

(***************************************************************************)
(* A step of c is settled by what it does to c itself.                     *)
(***************************************************************************)
LEMMA StepFrame ==
    ASSUME Inv, TypeOK', NEW c \in Call, LogGrows, LogOwned', EffectsFollowAllow',
           StoreKeeps, RequestsKept, ChangesFollowAllow',
           \A d \in Call \ {c} : /\ request'[d] = request[d] /\ pc'[d] = pc[d]
                                 /\ current'[d] = current[d] /\ found'[d] = found[d]
                                 /\ results'[d] = results[d]
                                 /\ memories[d] = NoMemory => memories'[d] = NoMemory,
           (Labelled(c) /\ Holding(c) /\ Stored(c) /\ Retrieved(c))'
    PROVE  Inv'
<1>1. ASSUME NEW d \in Call \ {c} PROVE (Labelled(d) /\ Holding(d) /\ Stored(d) /\ Retrieved(d))'
  BY OtherCall
<1>2. QED
  BY <1>1 DEF Inv

(***************************************************************************)
(* A step of c that changes neither store, candidates nor results.         *)
(***************************************************************************)
LEMMA QuietStep ==
    ASSUME Inv, TypeOK', NEW c \in Call, LogGrows, LogOwned', EffectsFollowAllow',
           UNCHANGED <<memories, request, found, results>>,
           \A d \in Call \ {c} : pc'[d] = pc[d] /\ current'[d] = current[d],
           pc[c] \in {"effect_event", "done", "raised", "crashed"} =>
               pc'[c] \in {"done", "raised", "crashed"},
           Labelled(c)', Holding(c)'
    PROVE  Inv'
<1>1. RequestsKept
  BY DEF RequestsKept
<1>2. StoreKeeps /\ ChangesFollowAllow'
  BY <1>1, ChangesSame
<1>3. Stored(c)' /\ Retrieved(c)'
  BY <1>1, OwnStill
<1>4. QED
  BY <1>1, <1>2, <1>3, StepFrame

(***************************************************************************)
(* The ids and versions that c relies on are still there after a step that *)
(* leaves the store alone.                                                 *)
(***************************************************************************)
LEMMA HoldingStays ==
    ASSUME Inv, TypeOK', LogGrows, NEW c \in Call, UNCHANGED <<memories, request>>
    PROVE  /\ (Asks(c, "capture") => HasId(request[c]))'
           /\ Asks(c, "validate") =>
                  \A m : IsVersion(m, request[c].id) =>
                      \E n \in Versions'[request[c].id] : SameContent(m, n)
<1>0. TypeOK /\ Holding(c)
  BY DEF Inv
<1>1. (Asks(c, "capture") => HasId(request[c]))'
  BY <1>0 DEF Holding, HasId, Asks, Op
<1>2. ASSUME Asks(c, "validate")
      PROVE  Versions[request[c].id] \subseteq Versions'[request[c].id]
  <2>1. request[c].id \in MemoryId
    BY <1>0, <1>2, RequestShape DEF Asks
  <2>2. QED
    BY <1>0, <2>1, VersionsGrow DEF RequestsKept
<1>3. QED
  BY <1>1, <1>2 DEF IsVersion

(***************************************************************************)
(* A step that ends the call without success, with or without an event.    *)
(***************************************************************************)
LEMMA FailStep ==
    ASSUME Inv, NEW c \in Call, pc[c] # "ready",
           NEW label \in {"denied", "raised", "crashed"}, Goto(c, label),
           pc[c] \in {"effect_event", "done", "raised", "crashed"} => label # "denied",
           log' \in Seq(Event), LogGrows, LogOwned', EffectsFollowAllow',
           UNCHANGED <<memories, request, current, ids, found, results, logged>>
    PROVE  Inv'
<1>0. TypeOK /\ Labelled(c)
  BY DEF Inv
<1>1. TypeOK'
  BY <1>0 DEF TypeOK, Goto, PC, Ended
<1>2. pc'[c] = label /\ \A d \in Call \ {c} : pc'[d] = pc[d]
  BY <1>0 DEF TypeOK, Goto
<1>3. Labelled(c)' /\ Holding(c)'
  BY <1>0, <1>1, <1>2, HoldingStays DEF Labelled, Holding, Acting
<1>4. QED
  BY <1>1, <1>2, <1>3, QuietStep

-----------------------------------------------------------------------------
(***************************************************************************)
(* Failures: a denial that could not be recorded, an illegal transition, a *)
(* store that raises, a process that dies.                                 *)
(***************************************************************************)
LEMMA FailureSteps ==
    ASSUME Inv, NEW c \in Call,
           ToolDenialUnrecorded(c) \/ IllegalTransition(c) \/ StoreRaises(c) \/ Crash(c)
    PROVE  Inv'
<1>0. log \in Seq(Event) /\ UNCHANGED <<memories, log, request, current, ids, found, results, logged>>
  BY DEF Inv, TypeOK, ToolDenialUnrecorded, IllegalTransition, StoreRaises, Crash
<1>1. LogGrows /\ LogOwned' /\ EffectsFollowAllow'
  BY <1>0, LogSame DEF RequestsKept
<1>2. pc[c] \notin {"ready", "done", "raised", "crashed"}
  BY DEF ToolDenialUnrecorded, IllegalTransition, StoreRaises, UsesStore, Crash, Ended
<1>3. \E label \in {"denied", "raised", "crashed"} :
         Goto(c, label) /\ (pc[c] = "effect_event" => label # "denied")
  BY DEF ToolDenialUnrecorded, IllegalTransition, StoreRaises, Crash
<1>4. QED
  BY <1>0, <1>1, <1>2, <1>3, FailStep

(***************************************************************************)
(* A recorded denial, of the tool or of the service.                       *)
(***************************************************************************)
LEMMA DenialSteps ==
    ASSUME Inv, NEW c \in Call, ToolDenial(c) \/ Deny(c)
    PROVE  Inv'
<1>0. TypeOK /\ Labelled(c) /\ Holding(c)
  BY DEF Inv
<1>1. pc[c] \in {"tool_denial", "authorize"} /\ Goto(c, "denied")
      /\ UNCHANGED <<memories, request, current, ids, found, results, logged>>
  BY DEF ToolDenial, Deny
<1>2. request[c] # NoRequest
  BY <1>0, <1>1 DEF Labelled
<1>3. \E scope \in Requested, target \in MemoryId \cup {"authorization"} :
         AppendEvent(c, "authorization_decided", scope, target, "deny")
  <2>1. CASE ToolDenial(c)
    BY <1>0, <1>2, <2>1, RequestShape DEF ToolDenial
  <2>2. CASE Deny(c)
    <3>1. CheckedScope(c) \in Requested
      <4>1. Op(c) = "validate" => current[c] \in Memory
        BY <1>0, <2>2 DEF Deny, Holding, TypeOK
      <4>2. QED
        BY <1>0, <1>2, <4>1, RequestShape DEF CheckedScope, Memory
    <3>2. QED
      BY <1>0, <1>2, <2>2, <3>1, RequestShape DEF Deny, AuditAuthorization
  <2>3. QED
    BY <2>1, <2>2
<1>4. PICK scope \in Requested, target \in MemoryId \cup {"authorization"} :
         AppendEvent(c, "authorization_decided", scope, target, "deny")
  BY <1>3
<1>5. log' \in Seq(Event) /\ LogGrows /\ LogOwned' /\ EffectsFollowAllow'
  BY <1>1, <1>2, <1>4, LogStep
<1>6. QED
  BY <1>1, <1>5, FailStep

(***************************************************************************)
(* A call is made (execute(), or a call of the service).                   *)
(***************************************************************************)
LEMMA InvokeStep ==
    ASSUME Inv, NEW c \in Call, Invoke(c)
    PROVE  Inv'
<1>0. TypeOK /\ Labelled(c) /\ Holding(c) /\ Stored(c) /\ Retrieved(c)
  BY DEF Inv
<1>a. PICK r \in Requests : /\ \E label \in {"tool_denial", "open", ServiceEntry(r.op)} :
                                    Begin(c, r, label)
                             /\ HasId(r)
  <2>1. NewId \notin Call
    BY DEF MemoryId
  <2>2. CASE CaptureTool(c) \/ RetrieveTool(c) \/ ValidateTool(c)
    BY <2>1, <2>2 DEF CaptureTool, RetrieveTool, ValidateTool, IsNew, HasId
  <2>3. CASE ServiceCall(c)
    BY <2>3 DEF ServiceCall
  <2>4. QED
    BY <2>2, <2>3 DEF Invoke
<1>b. PICK label \in {"tool_denial", "open", ServiceEntry(r.op)} : Begin(c, r, label)
  BY <1>a
<1>1. request' = [request EXCEPT ![c] = r] /\ Goto(c, label)
  BY <1>b DEF Begin
<1>2. UNCHANGED <<memories, log, current, ids, found, results, logged>> /\ pc[c] = "ready"
  BY <1>b DEF Begin
<1>3. request[c] = NoRequest /\ memories[c] = NoMemory /\ results[c] = <<>>
  BY <1>0, <1>2 DEF Labelled, Stored, Retrieved, Asks
<1>4. /\ request'[c] = r /\ \A d \in Call \ {c} : request'[d] = request[d] /\ pc'[d] = pc[d]
      /\ r # NoRequest
      /\ pc'[c] \in {"tool_denial", "open", "get_current", "authorize"}
      /\ pc'[c] = "get_current" => r.op = "validate"
      /\ pc'[c] = "authorize" => r.op # "validate"
  BY <1>0, <1>1 DEF TypeOK, Goto, ServiceEntry
<1>5. TypeOK'
  BY <1>0, <1>1, <1>2 DEF TypeOK, Goto, ServiceEntry, PC
<1>6. RequestsKept
  BY <1>3, <1>4 DEF RequestsKept
<1>7. LogGrows /\ LogOwned' /\ EffectsFollowAllow'
  BY <1>2, <1>6, LogSame
<1>8. StoreKeeps /\ ChangesFollowAllow'
  BY <1>2, <1>5, <1>6, <1>7, ChangesSame
<1>9. Labelled(c)' /\ Holding(c)'
  BY <1>a, <1>2, <1>4 DEF Labelled, Holding, HasId, Acting, Op
<1>10. Stored(c)'
  BY <1>2, <1>3 DEF Stored
<1>11. Retrieved(c)'
  <2>1. ASSUME NEW h \in found[c]
        PROVE  (\E n \in Versions'[h.id] : SameContent(h.memory, n)) /\ memories[h.id] # NoMemory
    <3>1. h.id \in MemoryId /\ IsVersion(h.memory, h.id) /\ memories[h.id] # NoMemory
      BY <1>0 DEF TypeOK, Hit, Retrieved
    <3>2. Versions[h.id] \subseteq Versions'[h.id]
      BY <1>0, <1>5, <1>6, <1>7, <3>1, VersionsGrow
    <3>3. QED
      BY <3>1, <3>2 DEF IsVersion
  <2>2. QED
    BY <1>0, <1>2, <1>3, <2>1 DEF Retrieved, IsVersion, SameContent
<1>12. QED
  BY <1>2, <1>4, <1>5, <1>6, <1>7, <1>8, <1>9, <1>10, <1>11, StepFrame

(***************************************************************************)
(* The tool opens the store.                                               *)
(***************************************************************************)
LEMMA OpenStoreStep ==
    ASSUME Inv, NEW c \in Call, OpenStore(c)
    PROVE  Inv'
<1>0. TypeOK /\ Labelled(c) /\ Holding(c)
  BY DEF Inv
<1>1. UNCHANGED <<memories, log, request, current, ids, found, results, logged>> /\ pc[c] = "open"
  BY DEF OpenStore
<1>2. /\ \A d \in Call \ {c} : pc'[d] = pc[d]
      /\ pc'[c] = IF Op(c) = "validate" THEN "get_current" ELSE "authorize"
  BY <1>0 DEF TypeOK, OpenStore, Goto, ServiceEntry
<1>3. TypeOK'
  BY <1>0, <1>1 DEF TypeOK, OpenStore, Goto, ServiceEntry, PC
<1>4. LogGrows /\ LogOwned' /\ EffectsFollowAllow'
  BY <1>1, LogSame DEF RequestsKept
<1>5. Labelled(c)' /\ Holding(c)'
  BY <1>0, <1>1, <1>2, <1>3, <1>4, HoldingStays DEF Labelled, Holding, Acting, Op
<1>6. QED
  BY <1>1, <1>2, <1>3, <1>4, <1>5, QuietStep

(***************************************************************************)
(* The memory to validate is read.                                         *)
(***************************************************************************)
LEMMA GetCurrentStep ==
    ASSUME Inv, NEW c \in Call, GetCurrent(c)
    PROVE  Inv'
<1>0. TypeOK /\ Labelled(c) /\ Holding(c)
  BY DEF Inv
<1>1. UNCHANGED <<memories, log, request, ids, found, results, logged>> /\ pc[c] = "get_current"
  BY DEF GetCurrent
<1>2. request[c] # NoRequest /\ Op(c) = "validate" /\ request[c].id \in MemoryId
  BY <1>0, <1>1, RequestShape DEF Labelled
<1>3. /\ \A d \in Call \ {c} : pc'[d] = pc[d] /\ current'[d] = current[d]
      /\ current'[c] = memories[request[c].id]
      /\ pc'[c] = IF memories[request[c].id] = NoMemory THEN "raised" ELSE "authorize"
  BY <1>0 DEF TypeOK, GetCurrent, Goto
<1>4. TypeOK'
  BY <1>0, <1>1, <1>2 DEF TypeOK, GetCurrent, Goto, PC, Ended
<1>5. LogGrows /\ LogOwned' /\ EffectsFollowAllow'
  BY <1>1, LogSame DEF RequestsKept
<1>6. Labelled(c)'
  BY <1>0, <1>1, <1>2, <1>3 DEF Labelled, Acting, Op
<1>7. Holding(c)'
  <2>1. ASSUME memories[request[c].id] # NoMemory
        PROVE  IsVersion(memories[request[c].id], request[c].id)
    BY <1>2, <2>1 DEF Inv, ChangesFollowAllow, IsVersion
  <2>2. ASSUME memories[request[c].id] # NoMemory
        PROVE  \E n \in Versions'[request[c].id] : SameContent(memories[request[c].id], n)
    BY <1>1, <1>2, <1>4, <1>5, <2>1, <2>2, HoldingStays DEF Asks
  <2>3. (Asks(c, "capture") => HasId(request[c]))'
    BY <1>1, <1>4, <1>5, HoldingStays
  <2>4. QED
    BY <1>1, <1>2, <1>3, <2>2, <2>3 DEF Holding, Op, IsVersion, SameContent
<1>8. QED
  BY <1>1, <1>3, <1>4, <1>5, <1>6, <1>7, QuietStep

(***************************************************************************)
(* The authorization of a call, and what it prepares.                      *)
(***************************************************************************)
LEMMA ProceedStep ==
    ASSUME Inv, NEW c \in Call, Allow(c) \/ Unchecked(c)
    PROVE  Inv'
<1>0. TypeOK /\ Labelled(c) /\ Holding(c)
  BY DEF Inv
<1>1. /\ UNCHANGED <<memories, request, ids, found, results, logged>> /\ pc[c] = "authorize"
      /\ current' = [current EXCEPT ![c] = Prepared(c)] /\ Goto(c, Work[Op(c)])
  BY DEF Allow, Unchecked, Proceed
<1>2. request[c] # NoRequest
  BY <1>0, <1>1 DEF Labelled
<1>3. Op(c) \in {"capture", "retrieve", "validate"} /\ request[c].scope \in Requested
  BY <1>0, <1>2, RequestShape
<1>4. Op(c) = "validate" => current[c] \in Memory /\ current[c] # NoMemory
  BY <1>0, <1>1 DEF Holding, TypeOK
<1>5. Prepared(c) \in Memory \cup {NoMemory} /\ CheckedScope(c) \in Requested
      /\ (Op(c) = "validate" => Prepared(c) = current[c])
      /\ (Op(c) = "capture" => Prepared(c).scope = request[c].scope)
  <2>1. CASE Op(c) = "capture"
    BY <1>0, <1>2, <2>1, RequestShape DEF Prepared, Captured, CheckedScope
  <2>2. CASE Op(c) = "retrieve"
    BY <1>0, <1>3, <2>2 DEF Prepared, CheckedScope, TypeOK
  <2>3. CASE Op(c) = "validate"
    BY <1>0, <1>4, <2>3 DEF Prepared, CheckedScope, Memory
  <2>4. QED
    BY <1>3, <2>1, <2>2, <2>3
<1>6. /\ \A d \in Call \ {c} : pc'[d] = pc[d] /\ current'[d] = current[d]
      /\ pc'[c] = Work[Op(c)] /\ current'[c] = Prepared(c)
  BY <1>0, <1>1 DEF TypeOK, Goto
<1>7. /\ log' \in Seq(Event) /\ LogGrows /\ LogOwned' /\ EffectsFollowAllow'
      /\ Cleared(c, CheckedScope(c)) \/ (Checked(c) =>
            /\ ~Denied(request[c].origin, CheckedScope(c))
            /\ \E j \in DOMAIN log' : /\ log'[j].call = c
                                      /\ log'[j].kind = "authorization_decided"
                                      /\ log'[j].outcome = "allow"
                                      /\ log'[j].scope = CheckedScope(c))
  <2>1. CASE Allow(c)
    <3>1. \E target \in MemoryId \cup {"authorization"} :
             AppendEvent(c, "authorization_decided", CheckedScope(c), target, "allow")
      BY <1>0, <1>2, <2>1, RequestShape DEF Allow, AuditAuthorization
    <3>2. PICK target \in MemoryId \cup {"authorization"} :
             AppendEvent(c, "authorization_decided", CheckedScope(c), target, "allow")
      BY <3>1
    <3>3. /\ log' \in Seq(Event) /\ DOMAIN log' = 1..(Len(log) + 1)
          /\ log'[Len(log) + 1] = [call |-> c, kind |-> "authorization_decided",
                                   scope |-> CheckedScope(c), target |-> target,
                                   outcome |-> "allow"]
          /\ LogGrows /\ LogOwned' /\ EffectsFollowAllow'
      BY <1>1, <1>2, <1>5, <3>2, LogStep
    <3>4. Len(log) + 1 \in DOMAIN log'
      <4>1. Len(log) \in Nat
        BY <1>0 DEF TypeOK
      <4>2. QED
        BY <3>3, <4>1
    <3>5. ~Denied(request[c].origin, CheckedScope(c))
      BY <2>1 DEF Allow
    <3>6. QED
      BY <3>3, <3>4, <3>5
  <2>2. CASE Unchecked(c)
    BY <1>0, <1>1, <2>2, LogSame DEF Unchecked, RequestsKept, TypeOK
  <2>3. QED
    BY <2>1, <2>2
<1>8. TypeOK'
  BY <1>0, <1>1, <1>3, <1>5, <1>7 DEF TypeOK, Goto, Work, PC
<1>9. pc'[c] \in Acting => Cleared(c, ActingScope(c))'
  <2>1. ActingScope(c)' = CheckedScope(c)
    BY <1>1, <1>3, <1>5, <1>6 DEF ActingScope, CheckedScope, Op
  <2>2. CASE Checked(c)
    <3>1. pc[c] = "authorize" /\ Checked(c)' /\ request'[c] = request[c]
      BY <1>1, <2>2 DEF Checked
    <3>2. CASE Cleared(c, CheckedScope(c))
      <4>1. Cleared(c, CheckedScope(c)) => \E j \in DOMAIN log : AllowAt(j, c, CheckedScope(c))
        BY <2>2 DEF Cleared
      <4>2. PICK scope : scope = CheckedScope(c)
        OBVIOUS
      <4>3. Cleared(c, scope)'
        BY <1>0, <1>7, <1>8, <3>1, <3>2, <4>2, ClearedStable
      <4>4. QED
        BY <2>1, <4>2, <4>3 DEF Cleared, AllowAt, Checked
    <3>3. CASE ~Cleared(c, CheckedScope(c))
      BY <1>7, <2>1, <2>2, <3>1, <3>3 DEF Cleared, AllowAt, Checked
    <3>4. QED
      BY <3>2, <3>3
  <2>3. CASE ~Checked(c)
    BY <1>1, <2>3 DEF Cleared, Checked
  <2>4. QED
    BY <2>2, <2>3
<1>10. Labelled(c)'
  BY <1>1, <1>2, <1>3, <1>6, <1>9 DEF Labelled, Op, Work
<1>11. Holding(c)'
  <2>1. Op(c) = "capture" => Prepared(c)' = Prepared(c)
    BY <1>1 DEF Prepared, Captured, Op
  <2>2. (Asks(c, "capture") => HasId(request[c]))'
    BY <1>1, <1>7, <1>8, HoldingStays
  <2>3. ASSUME Op(c) = "validate"
        PROVE  \E n \in Versions'[request[c].id] : SameContent(current'[c], n)
    <3>1. Asks(c, "validate") /\ IsVersion(current[c], request[c].id)
      BY <1>0, <1>1, <1>2, <2>3 DEF Asks, Holding
    <3>2. current'[c] = current[c]
      BY <1>5, <1>6, <2>3
    <3>3. QED
      BY <1>1, <1>7, <1>8, <3>1, <3>2, HoldingStays
  <2>4. QED
    BY <1>0, <1>1, <1>3, <1>4, <1>5, <1>6, <2>1, <2>2, <2>3 DEF Holding, Op, Work, IsVersion, SameContent
<1>12. QED
  BY <1>1, <1>6, <1>7, <1>8, <1>10, <1>11, QuietStep

(***************************************************************************)
(* The state read is moved along the lifecycle.                            *)
(***************************************************************************)
LEMMA TransitionStep ==
    ASSUME Inv, NEW c \in Call, Transition(c)
    PROVE  Inv'
<1>0. TypeOK /\ Labelled(c) /\ Holding(c)
  BY DEF Inv
<1>1. /\ UNCHANGED <<memories, log, request, ids, found, results, logged>>
      /\ pc[c] = "transition" /\ Goto(c, "put")
      /\ current' = [current EXCEPT ![c].validation = request[c].target]
  BY DEF Transition
<1>2. request[c] # NoRequest /\ Op(c) = "validate" /\ request[c].target \in ValidationState
  BY <1>0, <1>1, RequestShape DEF Labelled
<1>3. current[c] \in Memory
  BY <1>0, <1>1, <1>2 DEF Holding, TypeOK
<1>4. /\ \A d \in Call \ {c} : pc'[d] = pc[d] /\ current'[d] = current[d]
      /\ pc'[c] = "put" /\ current'[c] = [current[c] EXCEPT !.validation = request[c].target]
  BY <1>0, <1>1 DEF TypeOK, Goto
<1>5. /\ current'[c] \in Memory /\ current'[c] # NoMemory
      /\ current'[c].validation = request[c].target
      /\ current'[c].text = current[c].text /\ current'[c].weight = current[c].weight
      /\ current'[c].scope = current[c].scope
  BY <1>2, <1>3, <1>4 DEF Memory
<1>6. TypeOK'
  <2>1. current' \in [Call -> Memory \cup {NoMemory}]
    BY <1>0, <1>1, <1>4, <1>5 DEF TypeOK
  <2>2. pc' \in [Call -> PC]
    BY <1>0, <1>1 DEF TypeOK, Goto, PC
  <2>3. QED
    BY <1>0, <1>1, <2>1, <2>2 DEF TypeOK
<1>7. LogGrows /\ LogOwned' /\ EffectsFollowAllow'
  BY <1>1, LogSame DEF RequestsKept
<1>8. Labelled(c)'
  <2>1. ActingScope(c)' = ActingScope(c) /\ Cleared(c, ActingScope(c))
    BY <1>0, <1>1, <1>2, <1>5 DEF ActingScope, Labelled, Acting, Op
  <2>2. Cleared(c, ActingScope(c))'
    BY <1>1, <2>1 DEF Cleared, AllowAt, Checked
  <2>3. QED
    BY <1>1, <1>2, <1>4, <2>2 DEF Labelled, Op
<1>9. Holding(c)'
  <2>1. \E n \in Versions'[request[c].id] : SameContent(current[c], n)
    <3>1. Asks(c, "validate") /\ IsVersion(current[c], request[c].id)
      BY <1>0, <1>1, <1>2 DEF Asks, Holding
    <3>2. QED
      BY <1>1, <1>6, <1>7, <3>1, HoldingStays
  <2>2. (Asks(c, "capture") => HasId(request[c]))'
    BY <1>1, <1>6, <1>7, HoldingStays
  <2>3. QED
    BY <1>0, <1>1, <1>2, <1>4, <1>5, <2>1, <2>2 DEF Holding, Op, IsVersion, SameContent
<1>10. QED
  BY <1>1, <1>4, <1>6, <1>7, <1>8, <1>9, QuietStep

(***************************************************************************)
(* The event of an effect (_event).                                        *)
(***************************************************************************)
LEMMA EffectEventStep ==
    ASSUME Inv, NEW c \in Call, EffectEvent(c)
    PROVE  Inv'
<1>0. TypeOK /\ Labelled(c) /\ Holding(c)
  BY DEF Inv
<1>1. /\ UNCHANGED <<memories, request, current, ids, found, results, logged>>
      /\ pc[c] = "effect_event" /\ Goto(c, "done")
  BY DEF EffectEvent
<1>2. request[c] # NoRequest /\ Op(c) \in {"capture", "validate"}
  BY <1>0, <1>1, RequestShape DEF Labelled
<1>3. current[c] \in Memory /\ current[c].scope \in Requested
  <2>1. Op(c) = "capture" => current[c] = Prepared(c) /\ Prepared(c) \in Memory
    BY <1>0, <1>1, <1>2, RequestShape DEF Holding, Prepared
  <2>2. Op(c) = "validate" => current[c] \in Memory
    BY <1>0, <1>1 DEF Holding, TypeOK
  <2>3. QED
    BY <1>2, <2>1, <2>2 DEF Memory
<1>4. Cleared(c, current[c].scope)
  BY <1>0, <1>1, <1>2 DEF Labelled, ActingScope, Acting
<1>5. \E kind \in {"captured", "validation_changed"}, target \in MemoryId,
         outcome \in ValidationState \cup {"stored"} :
         AppendEvent(c, kind, current[c].scope, target, outcome)
  BY <1>0, <1>2, RequestShape DEF EffectEvent
<1>6. PICK kind \in {"captured", "validation_changed"}, target \in MemoryId,
         outcome \in ValidationState \cup {"stored"} :
         AppendEvent(c, kind, current[c].scope, target, outcome)
  BY <1>5
<1>7. log' \in Seq(Event) /\ LogGrows /\ LogOwned' /\ EffectsFollowAllow'
  <2>1. Checked(c) => \E j \in DOMAIN log : AllowAt(j, c, current[c].scope)
    BY <1>4 DEF Cleared
  <2>2. /\ kind \in {"authorization_decided", "captured", "retrieved", "validation_changed"}
        /\ current[c].scope \in Requested /\ target \in MemoryId \cup {"authorization"}
        /\ outcome \in ValidationState \cup {"allow", "deny", "stored", "selected"}
        /\ request' = request
    BY <1>1, <1>3
  <2>3. PICK scope : scope = current[c].scope
    OBVIOUS
  <2>4. QED
    BY <1>2, <1>6, <2>1, <2>2, <2>3, LogStep
<1>8. TypeOK'
  BY <1>0, <1>1, <1>7 DEF TypeOK, Goto, PC, Ended
<1>9. \A d \in Call \ {c} : pc'[d] = pc[d]
  BY <1>0, <1>1 DEF TypeOK, Goto
<1>10. pc'[c] = "done"
  BY <1>0, <1>1 DEF TypeOK, Goto
<1>11. Labelled(c)'
  <2>1. PICK scope : scope = current[c].scope
    OBVIOUS
  <2>2. Cleared(c, scope)'
    BY <1>0, <1>1, <1>4, <1>7, <1>8, <2>1, ClearedStable
  <2>3. ActingScope(c)' = scope
    BY <1>1, <1>2, <2>1 DEF ActingScope, Op
  <2>4. Cleared(c, ActingScope(c))'
    BY <2>2, <2>3 DEF Cleared, AllowAt
  <2>5. QED
    BY <1>1, <1>2, <1>10, <2>4 DEF Labelled, Op
<1>12. Holding(c)'
  <2>1. CASE Op(c) = "capture"
    <3>1. current[c] = Prepared(c) /\ Prepared(c)' = Prepared(c)
      BY <1>0, <1>1, <2>1 DEF Holding, Prepared, Captured, Op
    <3>2. (Asks(c, "capture") => HasId(request[c]))'
      BY <1>1, <1>7, <1>8, HoldingStays
    <3>3. QED
      BY <1>1, <1>10, <2>1, <3>1, <3>2 DEF Holding, Op
  <2>2. CASE Op(c) = "validate"
    <3>1. Asks(c, "validate") /\ IsVersion(current[c], request[c].id)
      BY <1>0, <1>1, <1>2, <2>2 DEF Asks, Holding
    <3>2. \E n \in Versions'[request[c].id] : SameContent(current[c], n)
      BY <1>1, <1>7, <1>8, <3>1, HoldingStays
    <3>3. QED
      BY <1>0, <1>1, <1>10, <2>2, <3>2 DEF Holding, Asks, Op, IsVersion, SameContent
  <2>3. QED
    BY <1>2, <2>1, <2>2
<1>13. QED
  BY <1>1, <1>7, <1>8, <1>9, <1>10, <1>11, <1>12, QuietStep

(***************************************************************************)
(* The memory is put: a new one under the id drawn for it, a client's one  *)
(* over what that client has stored or found, or the copy with the new     *)
(* validation state.  Only the call that draws an id is the first there.   *)
(***************************************************************************)
LEMMA PutFacts ==
    ASSUME Inv, NEW c \in Call, Put(c)
    PROVE  /\ request[c] # NoRequest /\ Op(c) \in {"capture", "validate"}
           /\ Op(c) = "capture" => current[c] = Captured(c)
           /\ Op(c) = "validate" =>
                /\ Target(c) = request[c].id /\ IsVersion(current[c], Target(c))
                /\ current[c].validation = request[c].target
                /\ memories[Target(c)] # NoMemory
           /\ Target(c) = c => Asks(c, "capture") /\ request[c].id = NewId
           /\ Target(c) \in Call \ {c} => memories[Target(c)] # NoMemory
           /\ Target(c) \in MemoryId /\ current[c] \in Memory /\ current[c] # NoMemory
           /\ memories'[Target(c)] = current[c]
           /\ \A id \in MemoryId \ {Target(c)} : memories'[id] = memories[id]
           /\ StoreKeeps
<1>0. TypeOK /\ Labelled(c) /\ Holding(c) /\ Stored(c)
  BY DEF Inv
<1>1. /\ UNCHANGED <<log, request, current, ids, found, results, logged>>
      /\ pc[c] = "put" /\ Goto(c, "effect_event")
      /\ memories' = [memories EXCEPT ![Target(c)] = current[c]]
  BY DEF Put
<1>2. /\ request[c] # NoRequest /\ Op(c) \in {"capture", "validate"}
      /\ Target(c) \in MemoryId
  BY <1>0, <1>1, RequestShape DEF Labelled
<1>3. memories[c] = NoMemory
  BY <1>0, <1>1 DEF Stored
<1>4. ASSUME Op(c) = "capture"
      PROVE  /\ current[c] = Captured(c) /\ current[c] \in Memory
             /\ Target(c) = c => request[c].id = NewId
             /\ Target(c) \in Call \ {c} => memories[Target(c)] # NoMemory
  <2>1. current[c] = Captured(c) /\ current[c] \in Memory
    BY <1>0, <1>1, <1>2, <1>4, RequestShape DEF Holding, Prepared
  <2>2. HasId(request[c])
    BY <1>0, <1>2, <1>4 DEF Holding, Asks
  <2>3. QED
    BY <1>3, <1>4, <2>1, <2>2 DEF Target, HasId, Op
<1>5. ASSUME Op(c) = "validate"
      PROVE  /\ Target(c) = request[c].id /\ IsVersion(current[c], Target(c))
             /\ current[c].validation = request[c].target
             /\ memories[Target(c)] # NoMemory
             /\ current[c] \in Memory
  BY <1>0, <1>1, <1>2, <1>5, RequestShape DEF Holding, TypeOK
<1>6. current[c] \in Memory /\ current[c] # NoMemory
  BY <1>2, <1>4, <1>5
<1>7. /\ memories'[Target(c)] = current[c]
      /\ \A id \in MemoryId \ {Target(c)} : memories'[id] = memories[id]
  BY <1>0, <1>1, <1>2 DEF TypeOK
<1>8. StoreKeeps
  BY <1>6, <1>7 DEF StoreKeeps
<1>9. QED
  BY <1>2, <1>3, <1>4, <1>5, <1>6, <1>7, <1>8 DEF Asks

(***************************************************************************)
(* A put: store and log show the permission of what it changed.            *)
(***************************************************************************)
LEMMA PutStep ==
    ASSUME Inv, NEW c \in Call, Put(c)
    PROVE  Inv'
<1>0. TypeOK /\ Labelled(c) /\ Holding(c) /\ Stored(c) /\ Retrieved(c)
  BY DEF Inv
<1>1. /\ UNCHANGED <<log, request, current, ids, found, results, logged>>
      /\ pc[c] = "put" /\ Goto(c, "effect_event")
      /\ memories' = [memories EXCEPT ![Target(c)] = current[c]]
  BY DEF Put
<1>2. request[c] # NoRequest /\ Op(c) \in {"capture", "validate"}
  BY PutFacts
<1>3. /\ Op(c) = "capture" => current[c] = Captured(c)
      /\ Op(c) = "validate" =>
           /\ Target(c) = request[c].id /\ IsVersion(current[c], Target(c))
           /\ current[c].validation = request[c].target
           /\ memories[Target(c)] # NoMemory
  BY PutFacts
<1>4. /\ Target(c) = c => Asks(c, "capture") /\ request[c].id = NewId
      /\ Target(c) \in Call \ {c} => memories[Target(c)] # NoMemory
  BY PutFacts
<1>5. /\ Target(c) \in MemoryId /\ current[c] \in Memory /\ current[c] # NoMemory
      /\ memories'[Target(c)] = current[c]
      /\ \A id \in MemoryId \ {Target(c)} : memories'[id] = memories[id]
  BY PutFacts
<1>6. pc'[c] = "effect_event" /\ \A d \in Call \ {c} : pc'[d] = pc[d]
  BY <1>0, <1>1 DEF TypeOK, Goto
<1>7. TypeOK'
  BY <1>0, <1>1, <1>5 DEF TypeOK, Goto, PC
<1>8. RequestsKept /\ LogGrows /\ LogOwned' /\ EffectsFollowAllow'
  BY <1>1, LogSame DEF RequestsKept
<1>9. StoreKeeps
  BY PutFacts
<1>10. Cleared(c, current[c].scope)
  BY <1>0, <1>1, <1>2 DEF Labelled, ActingScope, Acting
<1>11. Authorized(c, current[c].scope)
  BY <1>10 DEF Authorized, Cleared
<1>12. \A id \in MemoryId : Versions[id] \subseteq Versions'[id]
  BY <1>0, <1>7, <1>8, VersionsGrow
<1>13. Explained(Target(c))'
  <2>1. PICK id \in MemoryId : id = Target(c)
    BY <1>5
  <2>2. \A scope : Authorized(c, scope) => Authorized(c, scope)'
    BY <1>1 DEF Authorized, AllowAt, Checked
  <2>3. CASE Op(c) = "capture"
    <3>1. Captured(c) \in Versions[id]
      BY <1>2, <1>3, <1>11, <2>1, <2>3 DEF Versions, Captures, Captured, Asks
    <3>2. SameContent(memories'[id], Captured(c)) /\ memories'[id].validation = Captured(c).validation
      BY <1>3, <1>5, <2>1, <2>3 DEF SameContent
    <3>3. QED
      BY <1>1, <1>12, <2>1, <3>1, <3>2 DEF Explained, SameContent, Target
  <2>4. CASE Op(c) = "validate"
    <3>1. PICK m \in Versions[id] : SameContent(current[c], m)
      BY <1>3, <2>1, <2>4 DEF IsVersion
    <3>2. SameContent(memories'[id], m) /\ Authorized(c, m.scope)
      BY <1>5, <1>11, <2>1, <3>1 DEF SameContent
    <3>3. Asks(c, "validate")' /\ request'[c].id = id /\ request'[c].target = memories'[id].validation
      BY <1>1, <1>2, <1>3, <1>5, <2>1, <2>4 DEF Asks, Op
    <3>4. Authorized(c, m.scope)'
      BY <2>2, <3>2
    <3>5. QED
      BY <1>1, <1>12, <2>1, <3>2, <3>3, <3>4 DEF Explained, SameContent, Target
  <2>5. QED
    BY <1>2, <2>3, <2>4
<1>14. ChangesFollowAllow'
  <2>1. ASSUME NEW id \in MemoryId, memories'[id] # NoMemory PROVE Explained(id)'
    <3>1. CASE id = Target(c)
      BY <1>1, <1>13, <3>1 DEF Target
    <3>2. CASE id # Target(c)
      BY <1>5, <1>7, <1>8, <2>1, <3>2, ExplainedStays
    <3>3. QED
      BY <3>1, <3>2
  <2>2. QED
    BY <2>1 DEF ChangesFollowAllow, Explained
<1>15. Labelled(c)'
  <2>1. ActingScope(c)' = current[c].scope
    BY <1>1, <1>2 DEF ActingScope, Op
  <2>2. Cleared(c, ActingScope(c))'
    BY <1>1, <1>10, <2>1 DEF Cleared, AllowAt, Checked
  <2>3. QED
    BY <1>1, <1>2, <1>5, <1>6, <2>2 DEF Labelled, Op
<1>16. Holding(c)'
  <2>1. (Asks(c, "capture") => HasId(request[c]))'
    BY <1>0, <1>1, <1>9 DEF Holding, HasId, Asks, Op, StoreKeeps, MemoryId
  <2>2. CASE Op(c) = "capture"
    BY <1>1, <1>3, <1>5, <1>6, <2>1, <2>2 DEF Holding, Prepared, Captured, Op
  <2>3. CASE Op(c) = "validate"
    <3>1. \E n \in Versions'[request[c].id] : SameContent(current[c], n)
      BY <1>3, <1>5, <1>12, <2>3 DEF IsVersion
    <3>2. QED
      BY <1>1, <1>2, <1>3, <1>5, <1>6, <2>3, <3>1 DEF Holding, Asks, Op, IsVersion, SameContent
  <2>4. QED
    BY <1>2, <2>2, <2>3
<1>17. Stored(c)'
  <2>1. CASE Target(c) = c
    <3>1. current[c].scope = request[c].scope
      BY <1>3, <1>4, <2>1 DEF Asks, Captured
    <3>2. Cleared(c, request[c].scope)'
      BY <1>1, <1>10, <3>1 DEF Cleared, AllowAt, Checked
    <3>3. QED
      BY <1>1, <1>4, <1>6, <2>1, <3>2 DEF Stored, Asks, Op
  <2>2. CASE Target(c) # c
    BY <1>0, <1>1, <1>5, <2>2 DEF Stored, MemoryId
  <2>3. QED
    BY <2>1, <2>2
<1>18. Retrieved(c)'
  <2>1. results[c] # <<>> => Asks(c, "retrieve")' /\ Cleared(c, request[c].scope)'
    BY <1>0, <1>1 DEF Retrieved, Asks, Op, Cleared, AllowAt, Checked
  <2>2. ASSUME NEW h \in found[c]
        PROVE  (\E n \in Versions'[h.id] : SameContent(h.memory, n)) /\ memories'[h.id] # NoMemory
    <3>1. h.id \in MemoryId /\ IsVersion(h.memory, h.id) /\ memories[h.id] # NoMemory
      BY <1>0 DEF TypeOK, Hit, Retrieved
    <3>2. QED
      BY <1>9, <1>12, <3>1 DEF IsVersion, StoreKeeps
  <2>3. QED
    BY <1>0, <1>1, <2>1, <2>2 DEF Retrieved, IsVersion, SameContent
<1>19. \A d \in Call \ {c} : memories[d] = NoMemory => memories'[d] = NoMemory
  BY <1>4, <1>5 DEF MemoryId
<1>20. QED
  BY <1>1, <1>6, <1>7, <1>8, <1>9, <1>14, <1>15, <1>16, <1>17, <1>18, <1>19, StepFrame

-----------------------------------------------------------------------------
(***************************************************************************)
(* A step of a retrieval with its permission: the label stays among those  *)
(* of a retrieval, scope and permission are as before.                     *)
(***************************************************************************)
LEMMA RetrievalLabelled ==
    ASSUME Inv, TypeOK', LogGrows, NEW c \in Call, UNCHANGED <<memories, request, current>>,
           pc[c] \in {"candidates", "gets", "retrieved_events"},
           pc'[c] \in {"gets", "retrieved_events", "done"}
    PROVE  Labelled(c)' /\ Holding(c)'
<1>0. TypeOK /\ Labelled(c) /\ Holding(c)
  BY DEF Inv
<1>1. Op(c) = "retrieve" /\ request[c] # NoRequest
  BY <1>0 DEF Labelled
<1>2. Cleared(c, request[c].scope)
  BY <1>0, <1>1 DEF Labelled, ActingScope, Acting
<1>3. PICK scope : scope = request[c].scope
  OBVIOUS
<1>4. Cleared(c, scope)'
  BY <1>0, <1>2, <1>3, ClearedStable
<1>5. ActingScope(c)' = scope
  BY <1>1, <1>3 DEF ActingScope, Op
<1>6. Cleared(c, ActingScope(c))'
  BY <1>4, <1>5 DEF Cleared, AllowAt
<1>7. (Asks(c, "capture") => HasId(request[c]))'
  BY HoldingStays
<1>8. QED
  BY <1>1, <1>6, <1>7 DEF Labelled, Holding, Op

(***************************************************************************)
(* The query for the candidates, and the return of a retrieval.            *)
(***************************************************************************)
LEMMA CandidatesAndReturnSteps ==
    ASSUME Inv, NEW c \in Call, Candidates(c) \/ ReturnResults(c)
    PROVE  Inv'
<1>0. TypeOK /\ Labelled(c) /\ Holding(c)
  BY DEF Inv
<1>1. /\ UNCHANGED <<memories, log, request, current, found, results, logged>>
      /\ pc[c] \in {"candidates", "retrieved_events"}
      /\ \A d \in Call \ {c} : pc'[d] = pc[d]
      /\ pc'[c] \in {"gets", "done"}
  BY <1>0 DEF TypeOK, Candidates, ReturnResults, Goto
<1>2. pc' \in [Call -> PC]
  BY <1>0 DEF TypeOK, Candidates, ReturnResults, Goto, PC, Ended
<1>3. ids' \in [Call -> SUBSET MemoryId]
  <2>1. CASE Candidates(c)
    <3>1. \E S \in SUBSET MemoryId : ids' = [ids EXCEPT ![c] = S]
      BY <2>1 DEF Candidates
    <3>2. QED
      BY <1>0, <3>1 DEF TypeOK
  <2>2. CASE ReturnResults(c)
    BY <1>0, <2>2 DEF TypeOK, ReturnResults
  <2>3. QED
    BY <2>1, <2>2
<1>4. TypeOK'
  BY <1>0, <1>1, <1>2, <1>3 DEF TypeOK
<1>5. LogGrows /\ LogOwned' /\ EffectsFollowAllow'
  BY <1>1, LogSame DEF RequestsKept
<1>6. Labelled(c)' /\ Holding(c)'
  BY <1>1, <1>4, <1>5, RetrievalLabelled
<1>7. QED
  BY <1>1, <1>4, <1>5, <1>6, QuietStep

(***************************************************************************)
(* A candidate is got from the store, or is no longer there.               *)
(***************************************************************************)
LEMMA GetCandidateStep ==
    ASSUME Inv, NEW c \in Call, GetCandidate(c)
    PROVE  Inv'
<1>0. TypeOK /\ Stored(c) /\ Retrieved(c)
  BY DEF Inv
<1>1. /\ UNCHANGED <<memories, log, pc, request, current, results, logged>>
      /\ pc[c] = "gets"
  BY DEF GetCandidate
<1>2. PICK id \in ids[c] :
         /\ ids' = [ids EXCEPT ![c] = @ \ {id}]
         /\ found' = [found EXCEPT ![c] =
                         @ \cup {[id |-> id, memory |-> m] : m \in {memories[id]} \ {NoMemory}}]
  BY DEF GetCandidate
<1>3. id \in MemoryId /\ found[c] \in SUBSET Hit /\ IsFiniteSet(found[c])
  BY <1>0, <1>2 DEF TypeOK, Retrieved
<1>4. \A d \in Call \ {c} : found'[d] = found[d]
  BY <1>0, <1>2 DEF TypeOK
<1>5. /\ found'[c] \in SUBSET Hit /\ IsFiniteSet(found'[c]) /\ found[c] \subseteq found'[c]
      /\ \A h \in found'[c] : IsVersion(h.memory, h.id) /\ memories[h.id] # NoMemory
  <2>0. found'[c] = found[c] \cup {[id |-> id, memory |-> m] : m \in {memories[id]} \ {NoMemory}}
    BY <1>0, <1>2 DEF TypeOK
  <2>1. CASE memories[id] = NoMemory
    <3>1. found'[c] = found[c]
      BY <2>0, <2>1
    <3>2. QED
      BY <1>0, <1>3, <3>1 DEF Retrieved
  <2>2. CASE memories[id] # NoMemory
    <3> DEFINE hit == [id |-> id, memory |-> memories[id]]
    <3>1. found'[c] = found[c] \cup {hit}
      BY <2>0, <2>2
    <3>2. hit \in Hit
      BY <1>0, <1>3, <2>2 DEF TypeOK, Hit
    <3>3. IsVersion(hit.memory, hit.id) /\ memories[hit.id] # NoMemory
      BY <1>3, <2>2 DEF Inv, ChangesFollowAllow, IsVersion
    <3> HIDE DEF hit
    <3>4. IsFiniteSet(found'[c])
      <4>1. IsFiniteSet(found[c] \cup {hit})
        BY <1>3, FS_AddElement
      <4>2. QED
        BY <3>1, <4>1
    <3>5. QED
      BY <1>0, <1>3, <3>1, <3>2, <3>3, <3>4 DEF Retrieved
  <2>3. QED
    BY <2>1, <2>2
<1>6. TypeOK'
  <2>1. found' \in [Call -> SUBSET Hit]
    BY <1>0, <1>2, <1>4, <1>5 DEF TypeOK
  <2>2. ids' \in [Call -> SUBSET MemoryId]
    BY <1>0, <1>2 DEF TypeOK
  <2>3. QED
    BY <1>0, <1>1, <2>1, <2>2 DEF TypeOK
<1>7. LogGrows /\ LogOwned' /\ EffectsFollowAllow' /\ RequestsKept
  BY <1>1, LogSame DEF RequestsKept
<1>8. StoreKeeps /\ ChangesFollowAllow'
  BY <1>1, <1>6, <1>7, ChangesSame
<1>9. Labelled(c)' /\ Holding(c)'
  BY <1>1, <1>6, <1>7, RetrievalLabelled
<1>10. Stored(c)'
  BY <1>0, <1>1 DEF Stored, Asks, Op, Cleared, AllowAt, Checked
<1>11. Retrieved(c)'
  <2>1. results[c] # <<>> => Asks(c, "retrieve")' /\ Cleared(c, request[c].scope)'
    BY <1>0, <1>1 DEF Retrieved, Asks, Op, Cleared, AllowAt, Checked
  <2>2. ASSUME NEW h \in found'[c] PROVE \E n \in Versions'[h.id] : SameContent(h.memory, n)
    <3>1. h.id \in MemoryId /\ IsVersion(h.memory, h.id)
      BY <1>5 DEF Hit
    <3>2. Versions[h.id] \subseteq Versions'[h.id]
      BY <1>0, <1>6, <1>7, <3>1, VersionsGrow
    <3>3. QED
      BY <3>1, <3>2 DEF IsVersion
  <2>3. QED
    BY <1>0, <1>1, <1>5, <2>1, <2>2 DEF Retrieved, IsVersion, SameContent
<1>12. QED
  BY <1>1, <1>4, <1>6, <1>7, <1>8, <1>9, <1>10, <1>11, StepFrame

(***************************************************************************)
(* The cap returns a prefix of the ranking (retrieve_with_meta).           *)
(***************************************************************************)
LEMMA CappedPrefix ==
    ASSUME NEW S, NEW r \in Seq(S), NEW max \in Int
    PROVE  Capped(r, max) \in Seq(S)
<1>1. CASE Len(r) <= max
  BY <1>1 DEF Capped
<1>2. CASE ~(Len(r) <= max)
  <2> DEFINE n == IF max >= 0 THEN max ELSE IF Len(r) + max >= 0 THEN Len(r) + max ELSE 0
  <2>1. n \in Int /\ n <= Len(r) /\ Len(r) \in Nat
    BY <1>2
  <2>2. Capped(r, max) = SubSeq(r, 1, n)
    BY <1>2 DEF Capped
  <2> HIDE DEF n
  <2>3. \A i \in 1..n : r[i] \in S
    BY <2>1
  <2>4. SubSeq(r, 1, n) \in Seq(S)
    BY <2>1, <2>3, SubSeqProperties
  <2>5. QED
    BY <2>2, <2>4
<1>3. QED
  BY <1>1, <1>2

(***************************************************************************)
(* The results are ranked and cut.                                         *)
(***************************************************************************)
LEMMA RankStep ==
    ASSUME Inv, NEW c \in Call, Rank(c)
    PROVE  Inv'
<1>0. TypeOK /\ Labelled(c) /\ Stored(c) /\ Retrieved(c)
  BY DEF Inv
<1>1. /\ UNCHANGED <<memories, log, request, current, ids, found, logged>>
      /\ pc[c] = "gets" /\ Goto(c, "retrieved_events")
  BY DEF Rank
<1>2. Op(c) = "retrieve" /\ request[c] # NoRequest /\ request[c].max \in Int
  BY <1>0, <1>1, RequestShape DEF Labelled
<1>3. PICK r \in Rankings(request[c].query, request[c].scope, found[c]) :
         results' = [results EXCEPT ![c] = Capped(r, request[c].max)]
  BY DEF Rank
<1> DEFINE hits == {f \in found[c] : Selected(request[c].query, request[c].scope, f.memory)}
<1>4. r \in Seq(hits)
  <2>1. Cardinality(hits) \in Nat
    <3>1. IsFiniteSet(hits)
      BY <1>0, FS_Subset DEF Retrieved
    <3>2. QED
      BY <3>1, FS_CardinalityType
  <2>2. r \in [1..Cardinality(hits) -> hits]
    BY <1>3 DEF Rankings
  <2> HIDE DEF hits
  <2>3. QED
    BY <2>1, <2>2
<1>5. Capped(r, request[c].max) \in Seq(hits)
  <2> HIDE DEF hits
  <2>1. QED
    BY <1>2, <1>4, CappedPrefix
<1>6. /\ results'[c] = Capped(r, request[c].max)
      /\ \A d \in Call \ {c} : results'[d] = results[d] /\ pc'[d] = pc[d]
      /\ pc'[c] = "retrieved_events"
  BY <1>0, <1>1, <1>3 DEF TypeOK, Goto
<1>7. \A i \in DOMAIN results'[c] : results'[c][i] \in hits
  <2> HIDE DEF hits
  <2>1. QED
    BY <1>5, <1>6
<1>8. \A h \in hits : h \in found[c] /\ h.memory.scope = request[c].scope
  BY DEF Selected
<1>9. Capped(r, request[c].max) \in Seq(Hit)
  <2>1. hits \subseteq Hit
    BY <1>0 DEF TypeOK
  <2> HIDE DEF hits
  <2>2. QED
    BY <1>5, <2>1
<1>10. TypeOK'
  <2>1. results' \in [Call -> Seq(Hit)]
    BY <1>0, <1>3, <1>9 DEF TypeOK
  <2>2. pc' \in [Call -> PC]
    BY <1>0, <1>1 DEF TypeOK, Goto, PC
  <2>3. QED
    BY <1>0, <1>1, <2>1, <2>2 DEF TypeOK
<1>11. LogGrows /\ LogOwned' /\ EffectsFollowAllow' /\ RequestsKept
  BY <1>1, LogSame DEF RequestsKept
<1>12. StoreKeeps /\ ChangesFollowAllow'
  BY <1>1, <1>10, <1>11, ChangesSame
<1>13. Labelled(c)' /\ Holding(c)'
  BY <1>1, <1>6, <1>10, <1>11, RetrievalLabelled
<1>14. Stored(c)'
  BY <1>0, <1>1, <1>2 DEF Stored, Asks, Op
<1>15. Retrieved(c)'
  <2>1. Cleared(c, request[c].scope)'
    BY <1>0, <1>1, <1>2 DEF Labelled, ActingScope, Acting, Cleared, AllowAt, Checked
  <2>2. Asks(c, "retrieve")'
    BY <1>1, <1>2 DEF Asks, Op
  <2> HIDE DEF hits
  <2>3. ASSUME NEW h \in found[c] PROVE \E n \in Versions'[h.id] : SameContent(h.memory, n)
    <3>1. h.id \in MemoryId /\ IsVersion(h.memory, h.id)
      BY <1>0 DEF TypeOK, Hit, Retrieved
    <3>2. Versions[h.id] \subseteq Versions'[h.id]
      BY <1>0, <1>10, <1>11, <3>1, VersionsGrow
    <3>3. QED
      BY <3>1, <3>2 DEF IsVersion
  <2>4. QED
    BY <1>0, <1>1, <1>7, <1>8, <2>1, <2>2, <2>3 DEF Retrieved, IsVersion, SameContent
<1>16. QED
  BY <1>1, <1>6, <1>10, <1>11, <1>12, <1>13, <1>14, <1>15, StepFrame

(***************************************************************************)
(* The event of one result.                                                *)
(***************************************************************************)
LEMMA RetrievedEventStep ==
    ASSUME Inv, NEW c \in Call, RetrievedEvent(c)
    PROVE  Inv'
<1>0. TypeOK /\ Labelled(c) /\ Retrieved(c)
  BY DEF Inv
<1>1. /\ UNCHANGED <<memories, pc, request, current, ids, found, results>>
      /\ pc[c] = "retrieved_events" /\ logged[c] < Len(results[c])
      /\ logged' = [logged EXCEPT ![c] = @ + 1]
  BY DEF RetrievedEvent
<1>2. request[c] # NoRequest /\ Op(c) = "retrieve" /\ request[c].scope \in Requested
  BY <1>0, <1>1, RequestShape DEF Labelled
<1>3. PICK hit \in Hit : /\ hit = results[c][logged[c] + 1]
                         /\ hit.memory.scope = request[c].scope
  <2>1. logged[c] + 1 \in DOMAIN results[c] /\ results[c] \in Seq(Hit)
    BY <1>0, <1>1 DEF TypeOK
  <2>2. QED
    BY <1>0, <2>1 DEF Retrieved
<1>4. AppendEvent(c, "retrieved", request[c].scope, hit.id, "selected") /\ hit.id \in MemoryId
  BY <1>3 DEF RetrievedEvent, Hit
<1>5. Checked(c) => \E j \in DOMAIN log : AllowAt(j, c, request[c].scope)
  BY <1>0, <1>1, <1>2 DEF Labelled, ActingScope, Acting, Cleared
<1>6. log' \in Seq(Event) /\ LogGrows /\ LogOwned' /\ EffectsFollowAllow'
  <2>1. PICK scope : scope = request[c].scope
    OBVIOUS
  <2>2. QED
    BY <1>1, <1>2, <1>4, <1>5, <2>1, LogStep
<1>7. TypeOK'
  BY <1>0, <1>1, <1>6 DEF TypeOK
<1>8. Labelled(c)' /\ Holding(c)'
  BY <1>1, <1>6, <1>7, RetrievalLabelled
<1>9. QED
  BY <1>1, <1>6, <1>7, <1>8, QuietStep

-----------------------------------------------------------------------------
(***************************************************************************)
(* Every step keeps the invariant.                                         *)
(***************************************************************************)
THEOREM InvStep == Inv /\ [Next]_vars => Inv'
<1> SUFFICES ASSUME Inv, [Next]_vars PROVE Inv'
  OBVIOUS
<1>1. ASSUME NEW c \in Call, Invoke(c) PROVE Inv'
  BY <1>1, InvokeStep
<1>2. ASSUME NEW c \in Call, Crash(c) PROVE Inv'
  BY <1>2, FailureSteps
<1>3. ASSUME NEW c \in Call, Step(c) PROVE Inv'
  <2>1. CASE ToolDenialUnrecorded(c) \/ IllegalTransition(c) \/ StoreRaises(c)
    BY <2>1, FailureSteps
  <2>2. CASE ToolDenial(c) \/ Deny(c)
    BY <2>2, DenialSteps
  <2>3. CASE OpenStore(c)
    BY <2>3, OpenStoreStep
  <2>4. CASE GetCurrent(c)
    BY <2>4, GetCurrentStep
  <2>5. CASE Allow(c) \/ Unchecked(c)
    BY <2>5, ProceedStep
  <2>6. CASE Transition(c)
    BY <2>6, TransitionStep
  <2>7. CASE Put(c)
    BY <2>7, PutStep
  <2>8. CASE EffectEvent(c)
    BY <2>8, EffectEventStep
  <2>9. CASE Candidates(c) \/ ReturnResults(c)
    BY <2>9, CandidatesAndReturnSteps
  <2>10. CASE GetCandidate(c)
    BY <2>10, GetCandidateStep
  <2>11. CASE Rank(c)
    BY <2>11, RankStep
  <2>12. CASE RetrievedEvent(c)
    BY <2>12, RetrievedEventStep
  <2>13. QED
    BY <1>3, <2>1, <2>2, <2>3, <2>4, <2>5, <2>6, <2>7, <2>8, <2>9, <2>10, <2>11, <2>12
       DEF Step, Progress
<1>4. CASE UNCHANGED vars
  <2>1. TypeOK'
    BY <1>4 DEF vars, TypeOK, Inv
  <2>2. LogGrows /\ LogOwned' /\ EffectsFollowAllow' /\ RequestsKept
    BY <1>4, LogSame DEF vars, RequestsKept
  <2>3. StoreKeeps /\ ChangesFollowAllow'
    BY <1>4, <2>1, <2>2, ChangesSame DEF vars
  <2>4. ASSUME NEW d \in Call PROVE (Labelled(d) /\ Holding(d) /\ Stored(d) /\ Retrieved(d))'
    BY <1>4, <2>1, <2>2, <2>3, OtherCall DEF vars
  <2>5. QED
    BY <2>1, <2>2, <2>3, <2>4 DEF Inv
<1>5. QED
  BY <1>1, <1>2, <1>3, <1>4 DEF Next

(***************************************************************************)
(* The inductive invariant holds of any number of interleaved calls.       *)
(***************************************************************************)
THEOREM Invariance == Spec => []Inv
  BY InitInv, InvStep, PTL DEF Spec

(***************************************************************************)
(* Type correctness.                                                       *)
(***************************************************************************)
THEOREM TypeCorrect == Spec => []TypeOK
<1>1. Inv => TypeOK
  BY DEF Inv
<1>2. QED
  BY <1>1, Invariance, PTL

(***************************************************************************)
(* Write-ahead audit: nothing is stored or changed without the allow event *)
(* of the call that did it, wherever calls fail or die.                    *)
(***************************************************************************)
THEOREM AuditedAhead == Spec => []ChangesFollowAllow
<1>1. Inv => ChangesFollowAllow
  BY DEF Inv
<1>2. QED
  BY <1>1, Invariance, PTL

(***************************************************************************)
(* The log side of it: no effect is logged before its allow event.         *)
(***************************************************************************)
THEOREM EffectsAllowed == Spec => []EffectsFollowAllow
<1>1. Inv => EffectsFollowAllow
  BY DEF Inv
<1>2. QED
  BY <1>1, Invariance, PTL

(***************************************************************************)
(* Two tool calls that may both act on a scope are of one caller.          *)
(***************************************************************************)
LEMMA ClearedSameCaller ==
    ASSUME Inv, NEW c \in Call, NEW d \in Call, ToolCall(c), ToolCall(d),
           NEW scope \in Requested, Cleared(c, scope), Cleared(d, scope)
    PROVE  SameCaller(c, d)
<1> DEFINE host(x) == [project |-> request[x].origin.project,
                       agent_name |-> request[x].origin.agent_name]
<1>1. ASSUME NEW x \in Call, ToolCall(x), Cleared(x, scope)
      PROVE  /\ host(x) \in Host
             /\ ToolIdentity(host(x)) = ToolIdentity(request[x].origin)
             /\ Binds(ToolIdentity(host(x)), scope)
  <2>1. request[x].origin \in Origin /\ request[x].origin.kind = "tool"
    <3>1. request[x] \in Requesting
      BY <1>1, RequestShape DEF Inv, ToolCall
    <3>2. QED
      BY <1>1, <3>1 DEF Requesting, CaptureRequest, RetrieveRequest, ValidateRequest, ToolCall
  <2>2. host(x) \in Host
    BY <2>1 DEF Origin, Host, Unnamed
  <2>3. ToolIdentity(host(x)) = ToolIdentity(request[x].origin)
    BY DEF ToolIdentity, DeriveCallerIdentity
  <2>4. ~Denied(request[x].origin, scope)
    BY <1>1, <2>1 DEF Cleared, Checked
  <2>5. Binds(ToolIdentity(request[x].origin), scope)
    BY <2>1, <2>4 DEF Denied
  <2>6. QED
    BY <2>2, <2>3, <2>5
<1>2. /\ host(c) \in Host /\ Binds(ToolIdentity(host(c)), scope)
      /\ host(d) \in Host /\ Binds(ToolIdentity(host(d)), scope)
      /\ ToolIdentity(host(c)) = ToolIdentity(request[c].origin)
      /\ ToolIdentity(host(d)) = ToolIdentity(request[d].origin)
  BY <1>1
<1> HIDE DEF host
<1>3. /\ ToolIdentity(host(c)).caller_project = ToolIdentity(host(d)).caller_project
      /\ ToolIdentity(host(c)).agent_factor = ToolIdentity(host(d)).agent_factor
  BY <1>2, ScopeSeparatesCallers
<1>4. QED
  BY <1>2, <1>3 DEF SameCaller

(***************************************************************************)
(* The invariant separates callers: what a tool call captured reaches no   *)
(* tool call of another identity.                                          *)
(***************************************************************************)
LEMMA InvIsolates == Inv => CallerIsolation
<1> SUFFICES ASSUME Inv, NEW c \in Call, NEW d \in Call, ToolCall(c), ToolCall(d), ~Recaptured(d)
             PROVE  /\ (\E i \in DOMAIN results[c] : results[c][i].id = d) => SameCaller(c, d)
                    /\ Op(c) = "validate" /\ request[c].id = d
                          /\ pc[c] \in {"effect_event", "done"} => SameCaller(c, d)
  BY DEF CallerIsolation
<1>0. TypeOK /\ Labelled(c) /\ Holding(c) /\ Stored(d) /\ Retrieved(c) /\ d \in MemoryId
  BY DEF Inv, MemoryId
<1>1. memories[d] # NoMemory =>
         Cleared(d, request[d].scope) /\ request[d].scope \in Requested
  BY <1>0, RequestShape DEF Stored, Asks
<1>2. \A n \in Versions[d] : n.scope = request[d].scope
  BY <1>0 DEF Versions, Captures, Captured, Recaptured, Target
<1>3. ASSUME NEW i \in DOMAIN results[c], results[c][i].id = d PROVE SameCaller(c, d)
  <2>1. /\ IsVersion(results[c][i].memory, d) /\ memories[d] # NoMemory
        /\ results[c][i].memory.scope = request[c].scope
        /\ Cleared(c, request[c].scope)
    BY <1>0, <1>3 DEF Retrieved
  <2>2. request[c].scope = request[d].scope
    BY <1>2, <2>1 DEF IsVersion, SameContent
  <2>3. QED
    BY <1>1, <2>1, <2>2, ClearedSameCaller
<1>4. ASSUME Op(c) = "validate", request[c].id = d, pc[c] \in {"effect_event", "done"}
      PROVE  SameCaller(c, d)
  <2>1. IsVersion(current[c], d) /\ memories[d] # NoMemory /\ Cleared(c, current[c].scope)
    BY <1>0, <1>4 DEF Holding, Labelled, ActingScope, Acting
  <2>2. current[c].scope = request[d].scope
    BY <1>2, <2>1 DEF IsVersion, SameContent
  <2>3. QED
    BY <1>1, <2>1, <2>2, ClearedSameCaller
<1>5. QED
  BY <1>3, <1>4

(***************************************************************************)
(* No tool call of another identity ever retrieves or validates what a     *)
(* tool call captured (layers 2 to 4 of the scope checks).                 *)
(***************************************************************************)
THEOREM CallersIsolated == Spec => []CallerIsolation
  BY InvIsolates, Invariance, PTL

-----------------------------------------------------------------------------
(***************************************************************************)
(* The events of the log after a step of call c.                           *)
(***************************************************************************)
LogStepOf(c) ==
    /\ \A i \in DOMAIN log : i \in DOMAIN log' /\ log'[i] = log[i]
    /\ \A i \in DOMAIN log' : i \in DOMAIN log \/ log'[i].call = c

LEMMA AppendIsLogStep ==
    ASSUME TypeOK, NEW c \in Call, NEW kind, NEW scope, NEW target, NEW outcome,
           AppendEvent(c, kind, scope, target, outcome)
    PROVE  /\ LogStepOf(c)
           /\ \A i \in DOMAIN log' :
                \/ i \in DOMAIN log
                \/ log'[i].kind = kind /\ log'[i].target = target
           /\ Len(log) + 1 \in DOMAIN log'
<1> DEFINE e == [call |-> c, kind |-> kind, scope |-> scope, target |-> target, outcome |-> outcome]
<1>1. log' = Append(log, e) /\ log \in Seq(Event)
  BY DEF AppendEvent, TypeOK
<1> HIDE DEF e
<1>2. /\ DOMAIN log = 1..Len(log) /\ DOMAIN log' = 1..(Len(log) + 1) /\ Len(log) \in Nat
      /\ \A i \in 1..Len(log) : log'[i] = log[i]
      /\ log'[Len(log) + 1] = e
  BY <1>1
<1>3. e.call = c /\ e.kind = kind /\ e.target = target
  BY DEF e
<1>4. \A i \in DOMAIN log' : i \in DOMAIN log \/ log'[i] = e
  BY <1>2
<1>5. \A i \in DOMAIN log : i \in DOMAIN log' /\ log'[i] = log[i]
  BY <1>2
<1>6. \A i \in DOMAIN log' : i \in DOMAIN log \/ log'[i].call = c
  BY <1>3, <1>4
<1>7. \A i \in DOMAIN log' : i \in DOMAIN log \/ (log'[i].kind = kind /\ log'[i].target = target)
  BY <1>3, <1>4
<1>8. Len(log) + 1 \in DOMAIN log'
  BY <1>2
<1>9. QED
  BY <1>5, <1>6, <1>7, <1>8 DEF LogStepOf

(***************************************************************************)
(* A step of c appends at most events of c, and makes at most its request. *)
(***************************************************************************)
LEMMA StepGrows ==
    ASSUME Inv, NEW c \in Call, Invoke(c) \/ Crash(c) \/ Step(c)
    PROVE  /\ RequestsKept /\ LogStepOf(c)
           /\ \A d \in Call \ {c} : request'[d] = request[d]
           /\ memories' = memories \/ Put(c)
           /\ \/ RetrievedEvent(c)
              \/ \A i \in DOMAIN log' : i \in DOMAIN log \/ log'[i].kind # "retrieved"
<1>0. TypeOK /\ Labelled(c)
  BY DEF Inv
<1>1. memories' = memories \/ Put(c)
  BY DEF Invoke, CaptureTool, RetrieveTool, ValidateTool, ServiceCall, Begin, Crash, Step,
         StoreRaises, Progress, ToolDenial, ToolDenialUnrecorded, OpenStore, GetCurrent, Allow,
         Unchecked, Proceed, Deny, Transition, IllegalTransition, EffectEvent, Candidates,
         GetCandidate, Rank, RetrievedEvent, ReturnResults
<1>2. RequestsKept /\ \A d \in Call \ {c} : request'[d] = request[d]
  <2>1. CASE Invoke(c)
    <3>1. PICK r \in Requests : request' = [request EXCEPT ![c] = r] /\ pc[c] = "ready"
      BY <2>1 DEF Invoke, CaptureTool, RetrieveTool, ValidateTool, ServiceCall, Begin
    <3>2. QED
      BY <1>0, <3>1 DEF Labelled, TypeOK, RequestsKept
  <2>2. CASE Crash(c) \/ Step(c)
    BY <2>2 DEF Crash, Step, StoreRaises, Progress, ToolDenial, ToolDenialUnrecorded, OpenStore,
                GetCurrent, Allow, Unchecked, Proceed, Deny, Transition, IllegalTransition, Put,
                EffectEvent, Candidates, GetCandidate, Rank, RetrievedEvent, ReturnResults,
                RequestsKept
  <2>3. QED
    BY <2>1, <2>2
<1>3. /\ LogStepOf(c)
      /\ \/ RetrievedEvent(c)
         \/ \A i \in DOMAIN log' : i \in DOMAIN log \/ log'[i].kind # "retrieved"
  <2>1. CASE log' = log
    BY <2>1 DEF LogStepOf
  <2>2. CASE ToolDenial(c)
    BY <1>0, <2>2, AppendIsLogStep DEF ToolDenial
  <2>3. CASE Allow(c) \/ Deny(c)
    BY <1>0, <2>3, AppendIsLogStep DEF Allow, Deny, AuditAuthorization
  <2>4. CASE EffectEvent(c)
    BY <1>0, <2>4, AppendIsLogStep DEF EffectEvent
  <2>5. CASE RetrievedEvent(c)
    BY <1>0, <2>5, AppendIsLogStep DEF RetrievedEvent
  <2>6. QED
    BY <2>1, <2>2, <2>3, <2>4, <2>5
    DEF Invoke, CaptureTool, RetrieveTool, ValidateTool, ServiceCall, Begin, Crash, Step,
        StoreRaises, Progress, ToolDenialUnrecorded, OpenStore, GetCurrent, Unchecked, Proceed,
        Transition, IllegalTransition, Put, Candidates, GetCandidate, Rank, ReturnResults
<1>4. QED
  BY <1>1, <1>2, <1>3

(***************************************************************************)
(* No step takes a memory away, or changes its text, weight or scope unless*)
(* a client may put a Memory of its own there: what any call holds is a    *)
(* version of it, and there is only one.                                   *)
(***************************************************************************)
LEMMA StepKeeps ==
    ASSUME Inv, Inv', NEW c \in Call, Invoke(c) \/ Crash(c) \/ Step(c),
           NEW id \in MemoryId, memories[id] # NoMemory
    PROVE  /\ memories'[id] # NoMemory
           /\ SameContent(memories[id], memories'[id]) \/ Recaptured(id)'
<1>1. RequestsKept /\ LogStepOf(c) /\ TypeOK /\ TypeOK'
  BY StepGrows DEF Inv
<1>2. LogGrows
  <2>1. DOMAIN log = 1..Len(log) /\ DOMAIN log' = 1..Len(log') /\ Len(log) \in Nat /\ Len(log') \in Nat
    BY <1>1 DEF TypeOK
  <2>2. \A j \in 1..Len(log) : j \in 1..Len(log') /\ log'[j] = log[j]
    BY <1>1, <2>1 DEF LogStepOf
  <2>3. QED
    BY <2>1, <2>2 DEF LogGrows
<1>3. memories'[id] # NoMemory
  BY StepGrows, PutFacts DEF StoreKeeps
<1>4. PICK m \in Versions[id] : SameContent(memories[id], m)
  BY DEF Inv, ChangesFollowAllow
<1>5. PICK n \in Versions'[id] : SameContent(memories'[id], n)
  BY <1>3 DEF Inv, ChangesFollowAllow, SameContent
<1>6. m \in Versions'[id]
  BY <1>1, <1>2, VersionsGrow
<1>7. m = n \/ Recaptured(id)'
  BY <1>5, <1>6 DEF Versions, Captures, Recaptured, Target, MemoryId
<1>8. QED
  BY <1>3, <1>4, <1>5, <1>7 DEF SameContent

(***************************************************************************)
(* Whatever calls interleave, what is stored under an id keeps its text,   *)
(* weight and scope as long as no client may capture a Memory under it:    *)
(* neither a new memory nor the copy a validation writes back changes them.*)
(***************************************************************************)
THEOREM ContentKept == Spec => ContentKeptUnlessRecaptured
<1>1. Inv /\ Inv' /\ [Next]_vars =>
        [\A id \in MemoryId : memories[id] # NoMemory =>
            /\ memories'[id] # NoMemory
            /\ SameContent(memories[id], memories'[id]) \/ Recaptured(id)']_vars
  BY StepKeeps DEF Next
<1>2. QED
  BY <1>1, Invariance, PTL DEF Spec, ContentKeptUnlessRecaptured

-----------------------------------------------------------------------------
(***************************************************************************)
(* What of the log the abstract view sees: permissions and shown memories. *)
(***************************************************************************)
LEMMA ViewMembers ==
    ASSUME NEW c \in Call
    PROVE  /\ \A s \in Requested : <<c, s>> \in May <=> request[c] # NoRequest /\ Authorized(c, s)
           /\ \A id \in MemoryId : <<c, id>> \in Shown <=>
                 \E i \in DOMAIN log :
                    log[i].call = c /\ log[i].kind = "retrieved" /\ log[i].target = id
BY DEF May, Shown

(***************************************************************************)
(* Permissions are never taken away, and a step gives them to its own call *)
(* only.                                                                   *)
(***************************************************************************)
LEMMA MayStep ==
    ASSUME NEW c \in Call, LogStepOf(c),
           \A d \in Call : request[d] # NoRequest => request'[d] = request[d],
           \A d \in Call \ {c} : request'[d] = request[d]
    PROVE  May \subseteq May' /\ May' \subseteq May \cup ({c} \X Requested)
<1>1. ASSUME NEW d \in Call, NEW s \in Requested, <<d, s>> \in May PROVE <<d, s>> \in May'
  <2>1. request[d] # NoRequest /\ Authorized(d, s)
    BY <1>1, ViewMembers
  <2>2. Authorized(d, s)'
    BY <2>1 DEF LogStepOf, Authorized, Checked, AllowAt
  <2>3. QED
    BY <2>1, <2>2 DEF May
<1>2. ASSUME NEW d \in Call \ {c}, NEW s \in Requested, <<d, s>> \in May' PROVE <<d, s>> \in May
  <2>1. request[d] # NoRequest /\ Authorized(d, s)'
    BY <1>2 DEF May
  <2>2. Authorized(d, s)
    BY <2>1 DEF LogStepOf, Authorized, Checked, AllowAt
  <2>3. QED
    BY <2>1, <2>2, ViewMembers
<1>3. May \subseteq Call \X Requested /\ May' \subseteq Call \X Requested
  BY DEF May
<1>4. QED
  BY <1>1, <1>2, <1>3

(***************************************************************************)
(* Without a retrieved event nothing is shown.                             *)
(***************************************************************************)
LEMMA ShownSame ==
    ASSUME NEW c \in Call, LogStepOf(c),
           \A i \in DOMAIN log' : i \in DOMAIN log \/ log'[i].kind # "retrieved"
    PROVE  Shown' = Shown
BY DEF Shown, LogStepOf

(***************************************************************************)
(* A capture is offered from the time it is allowed.                       *)
(***************************************************************************)
Entry(c, id) == [call |-> c, id |-> id, memory |-> Captured(c)]

LEMMA OfferedMembers ==
    \A o : o \in Offered <=> \E id \in MemoryId : \E c \in Captures(id) : o = Entry(c, id)
BY DEF Offered, Entry

LEMMA AbstractVersions ==
    ASSUME NEW id \in MemoryId
    PROVE  Abstract!Versions(id) = Versions[id]
<1>1. ASSUME NEW c \in Captures(id)
      PROVE  \E o \in Offered : o.id = id /\ o.memory = Captured(c)
  <2>1. Entry(c, id) \in Offered
    BY OfferedMembers
  <2>2. QED
    BY <2>1 DEF Entry
<1>2. ASSUME NEW o \in Offered, o.id = id
      PROVE  \E c \in Captures(id) : o.memory = Captured(c)
  <2>1. PICK d \in MemoryId : \E c \in Captures(d) : o = Entry(c, d)
    BY <1>2, OfferedMembers
  <2>2. QED
    BY <1>2, <2>1 DEF Entry
<1>3. {o.memory : o \in {p \in Offered : p.id = id}} = {Captured(c) : c \in Captures(id)}
  <2>1. ASSUME NEW m \in {o.memory : o \in {p \in Offered : p.id = id}}
        PROVE  m \in {Captured(c) : c \in Captures(id)}
    BY <1>2
  <2>2. ASSUME NEW m \in {Captured(c) : c \in Captures(id)}
        PROVE  m \in {o.memory : o \in {p \in Offered : p.id = id}}
    BY <1>1
  <2>3. QED
    BY <2>1, <2>2
<1>4. QED
  BY <1>3 DEF Abstract!Versions, Versions

LEMMA OfferedStep ==
    ASSUME TypeOK, TypeOK', NEW c \in Call, LogStepOf(c), RequestsKept,
           \A d \in Call \ {c} : request'[d] = request[d]
    PROVE  /\ Offered \subseteq Offered'
           /\ \A o \in Offered' \ Offered : o.call = c /\ <<c, o.memory.scope>> \in May'
<1>1. ASSUME NEW id \in MemoryId, NEW d \in Captures(id)
      PROVE  d \in Captures(id)' /\ Captured(d)' = Captured(d)
  <2>1. d \in Call /\ Asks(d, "capture") /\ Target(d) = id /\ Authorized(d, request[d].scope)
    BY DEF Captures
  <2>2. request'[d] = request[d]
    BY <2>1 DEF Asks, RequestsKept
  <2>3. Authorized(d, request[d].scope)'
    BY <2>1, <2>2 DEF LogStepOf, Authorized, Checked, AllowAt
  <2>4. QED
    BY <2>1, <2>2, <2>3 DEF Captures, Captured, Asks, Op, Target
<1>2. ASSUME NEW id \in MemoryId, NEW d \in Captures(id)', d # c
      PROVE  d \in Captures(id) /\ Captured(d)' = Captured(d)
  <2>1. d \in Call /\ Asks(d, "capture")' /\ Target(d)' = id /\ Authorized(d, request[d].scope)'
    BY DEF Captures
  <2>2. request'[d] = request[d]
    BY <1>2, <2>1
  <2>3. Authorized(d, request[d].scope)
    BY <1>2, <2>1, <2>2 DEF LogStepOf, Authorized, Checked, AllowAt
  <2>4. QED
    BY <2>1, <2>2, <2>3 DEF Captures, Captured, Asks, Op, Target
<1>3. ASSUME NEW o \in Offered PROVE o \in Offered'
  <2>1. PICK id \in MemoryId : \E d \in Captures(id) : o = Entry(d, id)
    BY OfferedMembers
  <2>2. PICK d \in Captures(id) : o = Entry(d, id)
    BY <2>1
  <2>3. QED
    BY <1>1, <2>2 DEF Offered, Entry
<1>4. ASSUME NEW o \in Offered' \ Offered PROVE o.call = c /\ <<c, o.memory.scope>> \in May'
  <2>1. PICK id \in MemoryId : \E d \in Captures(id)' :
                                  o = [call |-> d, id |-> id, memory |-> Captured(d)']
    BY <1>4 DEF Offered
  <2>2. PICK d \in Captures(id)' : o = [call |-> d, id |-> id, memory |-> Captured(d)']
    BY <2>1
  <2>3. d = c
    <3>1. ASSUME d # c PROVE FALSE
      <4>1. d \in Captures(id) /\ o = Entry(d, id)
        BY <1>2, <2>2, <3>1 DEF Entry
      <4>2. o \in Offered
        BY <4>1, OfferedMembers
      <4>3. QED
        BY <1>4, <4>2
    <3>2. QED
      BY <3>1
  <2>4. Asks(c, "capture")' /\ Authorized(c, request[c].scope)'
    BY <2>3 DEF Captures
  <2>5. request'[c] # NoRequest /\ request'[c].scope \in Requested
    <3>1. request'[c] # NoRequest /\ request'[c] \in Requests
      BY <2>4 DEF Asks, TypeOK
    <3>2. QED
      BY <3>1 DEF CaptureRequest, RetrieveRequest, ValidateRequest
  <2>6. <<c, request'[c].scope>> \in May'
    BY <2>4, <2>5 DEF May
  <2>7. o.call = c /\ o.memory.scope = request'[c].scope
    BY <2>2, <2>3 DEF Captured
  <2>8. QED
    BY <2>6, <2>7
<1>5. QED
  BY <1>3, <1>4

(***************************************************************************)
(* A step that leaves the store alone and shows nothing grants permissions *)
(* at most.                                                                *)
(***************************************************************************)
LEMMA QuietIsPermit ==
    ASSUME Inv, Inv', NEW c \in Call,
           Invoke(c) \/ Crash(c) \/ Step(c), ~Put(c), ~RetrievedEvent(c)
    PROVE  Abstract!Permit(c)
<1>1. /\ memories' = memories /\ RequestsKept /\ LogStepOf(c) /\ TypeOK /\ TypeOK'
      /\ \A d \in Call \ {c} : request'[d] = request[d]
      /\ \A i \in DOMAIN log' : i \in DOMAIN log \/ log'[i].kind # "retrieved"
  BY StepGrows DEF Inv
<1>2. /\ Offered \subseteq Offered'
      /\ \A o \in Offered' \ Offered : o.call = c /\ <<c, o.memory.scope>> \in May'
  BY <1>1, OfferedStep
<1>3. May \subseteq May' /\ May' \subseteq May \cup ({c} \X Requested)
  BY <1>1, MayStep DEF RequestsKept
<1>4. Shown' = Shown
  BY <1>1, ShownSame
<1>5. QED
  BY <1>1, <1>2, <1>3, <1>4 DEF Abstract!Permit

(***************************************************************************)
(* A put is a permitted Capture or Validate.                               *)
(***************************************************************************)
LEMMA PutIsInstant ==
    ASSUME Inv, NEW c \in Call, Put(c)
    PROVE  Abstract!Capture(c) \/ Abstract!Validate(c)
<1>0. TypeOK /\ Labelled(c)
  BY DEF Inv
<1>1. /\ UNCHANGED <<log, request, current>> /\ pc[c] = "put"
      /\ memories' = [memories EXCEPT ![Target(c)] = current[c]]
  BY DEF Put
<1>2. May' = May /\ Shown' = Shown /\ Offered' = Offered
  BY <1>1 DEF May, Shown, Offered, Captures, Captured, Asks, Op, Target, Authorized, Checked, AllowAt
<1>3. /\ request[c] # NoRequest /\ Op(c) \in {"capture", "validate"} /\ current[c] \in Memory
      /\ Target(c) \in MemoryId
  BY PutFacts
<1>4. PICK id \in MemoryId : id = Target(c)
  BY <1>3
<1>5. id \in Abstract!Id
  BY DEF MemoryId, Abstract!Id
<1>6. Authorized(c, current[c].scope) /\ <<c, current[c].scope>> \in May
  <2>1. Authorized(c, current[c].scope)
    BY <1>0, <1>1, <1>3 DEF Labelled, Acting, ActingScope, Cleared, Authorized
  <2>2. current[c].scope \in Requested
    BY <1>3 DEF Memory
  <2>3. QED
    BY <1>3, <2>1, <2>2, ViewMembers
<1>7. CASE Op(c) = "capture"
  <2>1. current[c] = Captured(c) /\ request[c].scope = current[c].scope
    BY <1>7, PutFacts DEF Captured
  <2>2. c \in Captures(id)
    BY <1>3, <1>4, <1>6, <1>7, <2>1 DEF Captures, Asks
  <2>3. PICK o \in Offered : o = Entry(c, id)
    BY <2>2, OfferedMembers
  <2>4. o.call = c /\ o.id = id /\ o.memory = current[c]
    BY <2>1, <2>3 DEF Entry
  <2>5. memories' = [memories EXCEPT ![o.id] = o.memory]
    BY <1>1, <1>4, <2>4
  <2>6. QED
    BY <1>2, <1>5, <1>6, <2>4, <2>5 DEF Abstract!Capture
<1>8. CASE Op(c) = "validate"
  <2>1. IsVersion(current[c], id) /\ memories[id] # NoMemory /\ current[c].validation \in ValidationState
    BY <1>3, <1>4, <1>8, PutFacts DEF Memory
  <2>2. PICK m \in Versions[id] : SameContent(current[c], m)
    BY <2>1 DEF IsVersion
  <2>3. m \in Memory
    <3>1. \A d \in Captures(id) : Captured(d) \in Memory
      BY <1>0, RequestShape DEF Captures, Asks
    <3>2. QED
      BY <3>1, <2>2 DEF Versions
  <2>4. current[c] = [m EXCEPT !.validation = current[c].validation]
    BY <1>3, <2>2, <2>3 DEF Memory, SameContent
  <2>5. memories' = [memories EXCEPT ![id] = [m EXCEPT !.validation = current[c].validation]]
    BY <1>1, <1>4, <2>4
  <2>6. <<c, m.scope>> \in May
    BY <1>6, <2>2 DEF SameContent
  <2>7. m \in Abstract!Versions(id)
    BY <2>2, AbstractVersions
  <2>8. QED
    BY <1>2, <1>5, <2>1, <2>5, <2>6, <2>7 DEF Abstract!Validate
<1>9. QED
  BY <1>3, <1>7, <1>8

(***************************************************************************)
(* The event of one result is a permitted Show.                            *)
(***************************************************************************)
LEMMA RetrievedEventIsInstant ==
    ASSUME Inv, NEW c \in Call, RetrievedEvent(c)
    PROVE  Abstract!Show(c)
<1>0. TypeOK /\ Labelled(c) /\ Retrieved(c)
  BY DEF Inv
<1>1. /\ UNCHANGED <<memories, request, results>>
      /\ pc[c] = "retrieved_events" /\ logged[c] < Len(results[c])
  BY DEF RetrievedEvent
<1>2. request[c] # NoRequest /\ Op(c) = "retrieve" /\ request[c].scope \in Requested
  BY <1>0, <1>1, RequestShape DEF Labelled
<1>3. PICK hit \in Hit : /\ hit = results[c][logged[c] + 1] /\ hit \in found[c]
                         /\ hit.memory.scope = request[c].scope
  <2>1. logged[c] + 1 \in DOMAIN results[c] /\ results[c] \in Seq(Hit)
    BY <1>0, <1>1 DEF TypeOK
  <2>2. QED
    BY <1>0, <2>1 DEF Retrieved
<1>4. /\ AppendEvent(c, "retrieved", request[c].scope, hit.id, "selected") /\ hit.id \in MemoryId
      /\ memories[hit.id] # NoMemory
      /\ \E m \in Abstract!Versions(hit.id) : m.scope = request[c].scope
  <2>1. hit.id \in MemoryId /\ IsVersion(hit.memory, hit.id) /\ memories[hit.id] # NoMemory
    BY <1>0, <1>3 DEF Hit, Retrieved
  <2>2. AppendEvent(c, "retrieved", request[c].scope, hit.id, "selected")
    BY <1>3 DEF RetrievedEvent
  <2>3. QED
    BY <1>3, <2>1, <2>2, AbstractVersions DEF IsVersion, SameContent
<1>5. <<c, request[c].scope>> \in May
  BY <1>0, <1>1, <1>2, ViewMembers DEF Labelled, Acting, ActingScope, Cleared, Authorized
<1>6. /\ \A i \in DOMAIN log : i \in DOMAIN log' /\ log'[i] = log[i]
      /\ log'[Len(log) + 1] = [call |-> c, kind |-> "retrieved", scope |-> request[c].scope,
                               target |-> hit.id, outcome |-> "selected"]
      /\ \A i \in DOMAIN log' : i \in DOMAIN log \/ i = Len(log) + 1
      /\ Len(log) + 1 \in DOMAIN log'
  BY <1>0, <1>4 DEF AppendEvent, TypeOK
<1>7. Shown' = Shown \cup {<<c, hit.id>>}
  <2>1. ASSUME NEW d \in Call, NEW id \in MemoryId
        PROVE  <<d, id>> \in Shown' <=> <<d, id>> \in Shown \/ (d = c /\ id = hit.id)
    BY <1>6 DEF Shown
  <2>2. Shown \subseteq Call \X MemoryId /\ Shown' \subseteq Call \X MemoryId
    BY DEF Shown
  <2>3. QED
    BY <1>4, <2>1, <2>2
<1>8. May' = May /\ Offered' = Offered
  <2>1. ASSUME NEW d \in Call, NEW s \in Requested PROVE <<d, s>> \in May' <=> <<d, s>> \in May
    BY <1>1, <1>6 DEF May, Authorized, Checked, AllowAt
  <2>2. May \subseteq Call \X Requested /\ May' \subseteq Call \X Requested
    BY DEF May
  <2>3. ASSUME NEW p \in Call \X Requested PROVE p \in May' <=> p \in May
    <3>1. PICK d \in Call, s \in Requested : p = <<d, s>>
      OBVIOUS
    <3>2. QED
      BY <2>1, <3>1
  <2>4. May \subseteq May'
    BY <2>2, <2>3
  <2>5. May' \subseteq May
    BY <2>2, <2>3
  <2>6. Offered' = Offered
    <3>1. ASSUME NEW d \in Call, NEW id \in MemoryId
          PROVE  d \in Captures(id)' <=> d \in Captures(id)
      BY <1>1, <1>6 DEF Captures, Asks, Op, Target, Authorized, Checked, AllowAt
    <3>2. \A id \in MemoryId : Captures(id)' = Captures(id)
      BY <3>1 DEF Captures
    <3>3. \A d \in Call : Captured(d)' = Captured(d)
      BY <1>1 DEF Captured
    <3>4. QED
      BY <3>2, <3>3 DEF Offered, Captures
  <2>7. QED
    BY <2>4, <2>5, <2>6
<1>9. hit.id \in Abstract!Id
  BY <1>4 DEF MemoryId, Abstract!Id
<1>10. QED
  BY <1>1, <1>4, <1>5, <1>7, <1>8, <1>9 DEF Abstract!Show

(***************************************************************************)
(* Refinement: the interleaved, failing and dying calls of the service     *)
(* implement AuditedMemory.                                                *)
(***************************************************************************)
THEOREM Refinement == Spec => ImplementsAuditedMemory
<1>1. Init => Abstract!Init
  <2> SUFFICES ASSUME Init PROVE Abstract!Init
    OBVIOUS
  <2>1. log = <<>> /\ \A c \in Call : request[c] = NoRequest
    BY DEF Init
  <2>2. DOMAIN log = {}
    BY <2>1
  <2>3. May = {} /\ Shown = {} /\ Offered = {}
    BY <2>1, <2>2 DEF May, Shown, Offered, Captures, Asks
  <2>4. QED
    BY <2>3 DEF Init, Abstract!Init, Abstract!Id, MemoryId
<1>2. Inv /\ Inv' /\ [Next]_vars => [Abstract!Next]_(Abstract!memoryVars)
  <2> SUFFICES ASSUME Inv, Inv', [Next]_vars PROVE [Abstract!Next]_(Abstract!memoryVars)
    OBVIOUS
  <2>1. ASSUME NEW c \in Call, Invoke(c) \/ Step(c) \/ Crash(c) PROVE Abstract!Next
    BY <2>1, QuietIsPermit, PutIsInstant, RetrievedEventIsInstant DEF Abstract!Next
  <2>2. CASE UNCHANGED vars
    BY <2>2 DEF vars, Abstract!memoryVars, May, Shown, Offered, Captures, Captured, Asks, Op,
                Target, Authorized, Checked, AllowAt
  <2>3. QED
    BY <2>1, <2>2 DEF Next
<1>3. QED
  BY <1>1, <1>2, Invariance, PTL DEF Spec, ImplementsAuditedMemory, Abstract!Spec

=============================================================================
