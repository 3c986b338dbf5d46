------------------------ MODULE NeuroCoreSerial_proofs ------------------------
(***************************************************************************)
(* Proofs about NeuroCoreService when calls do not overlap (SerialSpec):   *)
(* a memory leaves the lifecycle only by a client's put of its own Memory, *)
(* the log tells the states of all others, and a retrieval returns what a  *)
(* scan would rank.  All three fail of overlapping calls, because a call   *)
(* acts on what it read before; SerialInv says that what it read is still  *)
(* so.                                                                     *)
(***************************************************************************)
EXTENDS NeuroCoreRetrieval_proofs

USE RequestsAssumption, MemoriesAssumption, TokensAssumption

(***************************************************************************)
(* Calls one after the other are calls in some order: whatever is proved   *)
(* of Spec holds of SerialSpec.                                            *)
(***************************************************************************)
THEOREM SerialIsSpec == SerialSpec => Spec
<1>1. [SerialNext]_vars => [Next]_vars
  BY DEF SerialNext, Next
<1>2. QED
  BY <1>1, PTL DEF SerialSpec, Spec

(***************************************************************************)
(* In particular their retrievals are audited.                             *)
(***************************************************************************)
THEOREM SerialAudited == SerialSpec => []AuditInv
  BY SerialIsSpec, AuditInvariance, PTL

(***************************************************************************)
(* While one call is in progress all others have ended or not begun.       *)
(***************************************************************************)
LEMMA OneAtATimeStep ==
    ASSUME TypeOK, OneAtATime, NEW c \in Call, Alone(c), Moves(c)
    PROVE  OneAtATime'
<1>1. \A d \in Call \ {c} : pc'[d] = pc[d] /\ pc[d] \in Ended \cup {"ready"}
  BY StepIsLocal DEF Alone
<1>2. QED
  BY <1>1 DEF OneAtATime, Alone

(***************************************************************************)
(* Up to the put: the memory read is the memory stored, as nobody else     *)
(* puts in between.                                                        *)
(***************************************************************************)
LEMMA ValidateUpToDate ==
    ASSUME Inv, NEW c \in Call, UpToDate(c),
           \/ OpenStore(c) \/ GetCurrent(c) \/ Allow(c) \/ Unchecked(c)
           \/ Transition(c)
    PROVE  UpToDate(c)'
<1>0. TypeOK /\ Labelled(c) /\ Holding(c)
  BY DEF Inv
<1>1. UNCHANGED <<memories, request>> /\ request[c] # NoRequest
  BY <1>0 DEF OpenStore, GetCurrent, Allow, Unchecked, Proceed, Transition, Labelled
<1>2. Op(c) \in {"capture", "retrieve", "validate"}
  BY <1>0, <1>1, RequestShape
<1>3. CASE OpenStore(c)
  <2>1. pc'[c] = ServiceEntry(Op(c))
    BY <1>0, <1>3 DEF OpenStore, Goto, TypeOK
  <2>2. QED
    BY <1>1, <1>2, <2>1 DEF UpToDate, ServiceEntry, Op
<1>4. CASE GetCurrent(c)
  <2>1. current'[c] = memories[request[c].id] /\ pc'[c] \in {"raised", "authorize"}
    BY <1>0, <1>4 DEF GetCurrent, Goto, TypeOK
  <2>2. QED
    BY <1>1, <2>1 DEF UpToDate, Op
<1>5. CASE Allow(c) \/ Unchecked(c)
  <2>1. pc'[c] = Work[Op(c)] /\ current'[c] = Prepared(c) /\ pc[c] = "authorize"
    BY <1>0, <1>5 DEF Allow, Unchecked, Proceed, Goto, TypeOK
  <2>2. CASE Op(c) = "validate"
    BY <1>1, <2>1, <2>2 DEF UpToDate, Prepared, Op, Work
  <2>3. CASE Op(c) # "validate"
    BY <1>1, <1>2, <2>1, <2>3 DEF UpToDate, Op, Work
  <2>4. QED
    BY <2>2, <2>3
<1>6. CASE Transition(c)
  <2>1. /\ pc[c] = "transition" /\ pc'[c] = "put" /\ Op(c) = "validate"
        /\ CanTransition(current[c].validation, request[c].target)
        /\ current' = [current EXCEPT ![c].validation = request[c].target]
    BY <1>0, <1>6 DEF Transition, Goto, TypeOK, Labelled
  <2>2. current[c] \in Memory /\ current[c] = memories[request[c].id]
    BY <1>0, <2>1 DEF Holding, TypeOK, UpToDate
  <2>3. current'[c].validation = request[c].target
    BY <1>0, <2>1, <2>2 DEF TypeOK, Memory
  <2>4. SameContent(memories[request[c].id], current'[c])
    <3>1. request[c].target \in ValidationState
      BY <1>0, <1>1, <2>1, RequestShape
    <3>2. current'[c] = [current[c] EXCEPT !.validation = request[c].target]
      BY <1>0, <2>1 DEF TypeOK
    <3>3. current'[c] \in Memory
      BY <2>2, <3>1, <3>2 DEF Memory
    <3>4. QED
      BY <2>2, <3>2, <3>3 DEF SameContent, Memory
  <2>5. QED
    BY <1>1, <2>1, <2>2, <2>3, <2>4 DEF UpToDate, Op, SameContent
<1>7. QED
  BY <1>3, <1>4, <1>5, <1>6

(***************************************************************************)
(* What was put is stored until its event is written.                      *)
(***************************************************************************)
LEMMA PutUpToDate ==
    ASSUME Inv, NEW c \in Call, Put(c)
    PROVE  UpToDate(c)'
<1>1. memories'[Target(c)] = current[c] /\ Target(c) \in MemoryId
  BY PutFacts
<1>2. pc'[c] = "effect_event" /\ UNCHANGED <<current, request>>
  BY DEF Put, Goto, Inv, TypeOK
<1>3. QED
  BY <1>1, <1>2 DEF UpToDate, Target, Op

(***************************************************************************)
(* The candidates of the index are all got or still to get, and what was   *)
(* got is what is stored.                                                  *)
(***************************************************************************)
LEMMA GatherUpToDate ==
    ASSUME AuditInv, NEW c \in Call, UpToDate(c), Candidates(c) \/ GetCandidate(c)
    PROVE  UpToDate(c)'
<1>0. TypeOK /\ Gathered(c)
  BY DEF AuditInv, Inv
<1>1. UNCHANGED <<memories, request, current>> /\ pc'[c] = "gets"
  BY <1>0 DEF Candidates, GetCandidate, Goto, TypeOK
<1>2. \A id : IsCandidate(c, id)' <=> IsCandidate(c, id)
  BY <1>1 DEF IsCandidate, Matches
<1>3. CASE Candidates(c)
  <2>1. /\ ids'[c] = {id \in MemoryId : IsCandidate(c, id)}
        /\ found' = found /\ pc[c] = "candidates"
    BY <1>0, <1>3 DEF Candidates, TypeOK
  <2>2. found[c] = {}
    BY <1>0, <2>1 DEF Gathered, Ended
  <2>3. QED
    BY <1>1, <1>2, <2>1, <2>2 DEF UpToDate
<1>4. CASE GetCandidate(c)
  <2>1. PICK id \in ids[c] :
           /\ ids' = [ids EXCEPT ![c] = @ \ {id}]
           /\ found' = [found EXCEPT ![c] =
                           @ \cup {[id |-> id, memory |-> m] : m \in {memories[id]} \ {NoMemory}}]
    BY <1>4 DEF GetCandidate
  <2>2. /\ \A h \in found[c] : h.memory = memories[h.id]
        /\ {i \in MemoryId : IsCandidate(c, i)} = ids[c] \cup {h.id : h \in found[c]}
    BY <1>4 DEF UpToDate, GetCandidate
  <2>3. memories[id] # NoMemory
    BY <2>1, <2>2 DEF IsCandidate, Matches
  <2>4. /\ ids'[c] = ids[c] \ {id}
        /\ found'[c] = found[c] \cup {[id |-> id, memory |-> memories[id]]}
    BY <1>0, <2>1, <2>3 DEF TypeOK
  <2>5. \A h \in found'[c] : h.memory = memories[h.id]
    BY <2>2, <2>4
  <2>6. {h.id : h \in found'[c]} = {h.id : h \in found[c]} \cup {id}
    <3> DEFINE hit == [id |-> id, memory |-> memories[id]]
    <3>1. hit.id = id
      OBVIOUS
    <3>2. found'[c] = found[c] \cup {hit}
      BY <2>4
    <3> HIDE DEF hit
    <3>3. QED
      BY <3>1, <3>2
  <2>7. {i \in MemoryId : IsCandidate(c, i)} = ids'[c] \cup {h.id : h \in found'[c]}
    BY <2>1, <2>2, <2>4, <2>6
  <2>8. QED
    BY <1>1, <1>2, <2>5, <2>7 DEF UpToDate
<1>5. QED
  BY <1>3, <1>4

(***************************************************************************)
(* Each step of a call on its own keeps it up to date.                     *)
(***************************************************************************)
LEMMA UpToDateStep ==
    ASSUME AuditInv, NEW c \in Call, Alone(c), UpToDate(c), Moves(c)
    PROVE  \A d \in Call : UpToDate(d)'
<1>0. Inv /\ TypeOK /\ Labelled(c)
  BY DEF AuditInv, Inv
<1>1. ASSUME NEW d \in Call \ {c} PROVE UpToDate(d)'
  <2>1. pc'[d] \in Ended \cup {"ready"}
    BY <1>0, StepIsLocal DEF Alone
  <2>2. QED
    BY <2>1 DEF UpToDate, Ended
<1>2. UpToDate(c)'
  <2>0. pc'[c] \notin {"authorize", "transition", "put", "effect_event", "gets"} => UpToDate(c)'
    BY DEF UpToDate
  <2>1. CASE Invoke(c)
    <3>1. PICK r \in Requests, label \in {"tool_denial", "open", "get_current", "authorize"} :
             /\ Begin(c, r, label)
             /\ label = "authorize" => r.op # "validate"
      BY <2>1 DEF Invoke, CaptureTool, RetrieveTool, ValidateTool, ServiceCall, ServiceEntry
    <3>2. pc'[c] = label /\ request'[c] = r
      BY <1>0, <3>1 DEF Begin, Goto, TypeOK
    <3>3. QED
      BY <3>1, <3>2 DEF UpToDate, Op
  <2>2. CASE Crash(c) \/ StoreRaises(c) \/ ToolDenial(c) \/ ToolDenialUnrecorded(c) \/ Deny(c)
             \/ IllegalTransition(c) \/ EffectEvent(c) \/ ReturnResults(c) \/ Rank(c)
    <3>1. pc'[c] \in Ended \cup {"retrieved_events"}
      BY <1>0, <2>2 DEF Crash, StoreRaises, ToolDenial, ToolDenialUnrecorded, Deny,
         IllegalTransition, EffectEvent, ReturnResults, Rank, Goto, TypeOK, Ended
    <3>2. QED
      BY <2>0, <3>1 DEF Ended
  <2>3. CASE RetrievedEvent(c)
    BY <2>0, <2>3 DEF RetrievedEvent
  <2>4. CASE OpenStore(c) \/ GetCurrent(c) \/ Allow(c) \/ Unchecked(c) \/ Transition(c)
    BY <1>0, <2>4, ValidateUpToDate
  <2>5. CASE Put(c)
    BY <1>0, <2>5, PutUpToDate
  <2>6. CASE Candidates(c) \/ GetCandidate(c)
    BY <2>6, GatherUpToDate
  <2>7. QED
    BY <2>1, <2>2, <2>3, <2>4, <2>5, <2>6 DEF Moves, Step, Progress
<1>3. QED
  BY <1>1, <1>2

-----------------------------------------------------------------------------
(***************************************************************************)
(* A memory that is not put, and of which no event is appended, is told    *)
(* like before.                                                            *)
(***************************************************************************)
LEMMA AlignedSame ==
    ASSUME NEW c, LogStepOf(c), NEW id, memories'[id] = memories[id], Aligned(id),
           \A i \in DOMAIN log' : \/ i \in DOMAIN log
                                  \/ log'[i].kind \notin {"captured", "validation_changed"}
                                  \/ log'[i].target # id
    PROVE  Aligned(id)'
<1>1. EffectsOn(id)' = EffectsOn(id)
  BY DEF EffectsOn, LogStepOf
<1>2. \A i \in EffectsOn(id) : log'[i] = log[i]
  BY DEF EffectsOn, LogStepOf
<1>3. QED
  BY <1>1, <1>2 DEF Aligned, Told

(***************************************************************************)
(* The event of an effect is of the memory that was put.                   *)
(***************************************************************************)
LEMMA EffectEventLogs ==
    ASSUME TypeOK, NEW c \in Call, Labelled(c), EffectEvent(c)
    PROVE  /\ LogStepOf(c)
           /\ \A i \in DOMAIN log' : i \in DOMAIN log \/ log'[i].target = Target(c)
           /\ UNCHANGED memories
<1>1. Op(c) # "capture" => Target(c) = request[c].id
  BY RequestShape DEF EffectEvent, Labelled
<1>2. PICK t : t = Target(c)
  OBVIOUS
<1>3. \E kind, scope, outcome : AppendEvent(c, kind, scope, t, outcome)
  BY <1>1, <1>2 DEF EffectEvent
<1>4. LogStepOf(c) /\ \A i \in DOMAIN log' : i \in DOMAIN log \/ log'[i].target = t
  BY <1>3, AppendIsLogStep
<1>5. QED
  BY <1>2, <1>4 DEF EffectEvent

(***************************************************************************)
(* The event of an effect tells the state that the store has: nobody else  *)
(* put that memory in between, and what was captured is unreviewed.        *)
(***************************************************************************)
LEMMA EffectEventAligns ==
    ASSUME Inv, NEW c \in Call, UpToDate(c), EffectEvent(c), OnlyUnreviewed(Target(c))
    PROVE  Aligned(Target(c))'
<1>0. TypeOK /\ Labelled(c) /\ Holding(c)
  BY DEF Inv
<1>1. /\ UNCHANGED <<memories, request, current>> /\ pc[c] = "effect_event"
      /\ Op(c) \in {"capture", "validate"}
  BY <1>0, RequestShape DEF EffectEvent, Labelled
<1>2. memories[Target(c)] = current[c]
  BY <1>1 DEF UpToDate
<1>3. PICK t : t = Target(c)
  OBVIOUS
<1>4. PICK e : /\ log' = Append(log, e)
               /\ e.call = c /\ e.kind \in {"captured", "validation_changed"} /\ e.target = t
               /\ Told(e) = current[c].validation
  <2>1. CASE Op(c) = "capture"
    <3> DEFINE e == [call |-> c, kind |-> "captured", scope |-> current[c].scope,
                     target |-> Target(c), outcome |-> "stored"]
    <3>1. log' = Append(log, e)
      BY <2>1 DEF EffectEvent, AppendEvent
    <3>2. current[c].validation = "unreviewed"
      BY <1>0, <1>1, <2>1 DEF Holding, Prepared, Captured, OnlyUnreviewed, Labelled, Asks
    <3>3. e.call = c /\ e.kind = "captured" /\ e.target = t
      BY <1>3
    <3>4. Told(e) = "unreviewed"
      BY <3>3 DEF Told
    <3> HIDE DEF e
    <3>5. QED
      BY <3>1, <3>2, <3>3, <3>4
  <2>2. CASE Op(c) = "validate"
    <3> DEFINE e == [call |-> c, kind |-> "validation_changed", scope |-> current[c].scope,
                     target |-> request[c].id, outcome |-> request[c].target]
    <3>1. log' = Append(log, e)
      BY <2>2 DEF EffectEvent, AppendEvent
    <3>2. current[c].validation = request[c].target
      BY <1>0, <1>1, <2>2 DEF Holding
    <3>3. e.call = c /\ e.kind = "validation_changed" /\ e.target = t /\ e.outcome = request[c].target
      <4>1. Target(c) = request[c].id
        BY <1>0, <1>1, <2>2, RequestShape DEF Labelled
      <4>2. QED
        BY <1>3, <4>1
    <3>4. Told(e) = request[c].target
      BY <3>3 DEF Told
    <3> HIDE DEF e
    <3>5. QED
      BY <3>1, <3>2, <3>3, <3>4
  <2>3. QED
    BY <1>1, <2>1, <2>2
<1>5. /\ DOMAIN log = 1..Len(log) /\ Len(log) \in Nat /\ DOMAIN log' = 1..(Len(log) + 1)
      /\ \A i \in 1..Len(log) : log'[i] = log[i]
      /\ log'[Len(log) + 1] = e
  BY <1>0, <1>4 DEF TypeOK
<1>7. \E i \in {j \in DOMAIN log' : /\ log'[j].kind \in {"captured", "validation_changed"}
                                  /\ log'[j].target = t} :
         /\ \A j \in DOMAIN log' : j <= i
         /\ Told(log'[i]) = memories'[t].validation
  <2>1. Len(log) + 1 \in DOMAIN log' /\ \A j \in DOMAIN log' : j <= Len(log) + 1
    BY <1>5
  <2>2. memories'[t].validation = current[c].validation
    BY <1>1, <1>2, <1>3
  <2>3. QED
    BY <1>4, <1>5, <2>1, <2>2
<1>8. Aligned(t)'
  BY <1>7 DEF Aligned, EffectsOn, Told
<1>9. Aligned(Target(c))'
  BY <1>1, <1>3, <1>8 DEF Aligned, EffectsOn, Target, Op
<1>10. QED
  BY <1>9

(***************************************************************************)
(* Every other step appends no event of an effect, and a call that changes *)
(* a memory stays where it shows.                                          *)
(***************************************************************************)
LEMMA OtherStepAligns ==
    ASSUME Inv, NEW c \in Call, Moves(c), ~EffectEvent(c)
    PROVE  /\ LogStepOf(c)
           /\ \A i \in DOMAIN log' : \/ i \in DOMAIN log
                                     \/ log'[i].kind \notin {"captured", "validation_changed"}
           /\ Put(c) \/ UNCHANGED memories
           /\ pc[c] \in {"effect_event", "raised", "crashed"} =>
                  request' = request /\ pc'[c] \in {"raised", "crashed"}
<1>0. TypeOK
  BY DEF Inv
<1>1. CASE UNCHANGED log /\ (Put(c) \/ UNCHANGED memories)
  <2>1. LogStepOf(c)
    BY <1>1 DEF LogStepOf
  <2>2. pc[c] \in {"effect_event", "raised", "crashed"} =>
           StoreRaises(c) \/ Crash(c)
    BY DEF Moves, Step, Progress, Invoke, CaptureTool, RetrieveTool, ValidateTool, ServiceCall,
       Begin, ToolDenial, ToolDenialUnrecorded, OpenStore, GetCurrent, Allow, Unchecked, Deny,
       Transition, IllegalTransition, Put, Candidates, GetCandidate, Rank, RetrievedEvent,
       ReturnResults
  <2>3. StoreRaises(c) \/ Crash(c) => request' = request /\ pc'[c] \in {"raised", "crashed"}
    BY <1>0 DEF StoreRaises, Crash, Goto, TypeOK
  <2>4. QED
    BY <1>1, <2>1, <2>2, <2>3
<1>2. ASSUME NEW kind \in {"authorization_decided", "retrieved"}, NEW scope, NEW target, NEW outcome,
             AppendEvent(c, kind, scope, target, outcome), UNCHANGED memories,
             pc[c] \notin {"effect_event", "raised", "crashed"}
      PROVE  /\ LogStepOf(c)
             /\ \A i \in DOMAIN log' : \/ i \in DOMAIN log
                                       \/ log'[i].kind \notin {"captured", "validation_changed"}
             /\ UNCHANGED memories
  BY <1>0, <1>2, AppendIsLogStep
<1>3. CASE ToolDenial(c) \/ Deny(c) \/ Allow(c) \/ RetrievedEvent(c)
  <2>1. /\ UNCHANGED memories /\ pc[c] \notin {"effect_event", "raised", "crashed"}
        /\ \E kind, scope, target, outcome :
              /\ kind \in {"authorization_decided", "retrieved"}
              /\ AppendEvent(c, kind, scope, target, outcome)
    BY <1>3 DEF ToolDenial, Deny, Allow, Proceed, RetrievedEvent, AuditAuthorization
  <2>2. QED
    BY <1>2, <2>1
<1>4. CASE ~(ToolDenial(c) \/ Deny(c) \/ Allow(c) \/ RetrievedEvent(c))
  <2>1. UNCHANGED log /\ (Put(c) \/ UNCHANGED memories)
    BY <1>4 DEF Moves, Step, Progress, Invoke, CaptureTool, RetrieveTool, ValidateTool,
       ServiceCall, Begin, StoreRaises, Crash, ToolDenialUnrecorded, OpenStore, GetCurrent,
       Unchecked, Proceed, Transition, IllegalTransition, Put, Candidates, GetCandidate, Rank,
       ReturnResults
  <2>2. QED
    BY <1>1, <2>1
<1>5. QED
  BY <1>3, <1>4

(***************************************************************************)
(* The log goes on telling every state, but for memories a call on which   *)
(* is between put and event, raised or died.                               *)
(***************************************************************************)
LEMMA AlignmentStep ==
    ASSUME Inv, LogAlignedUnlessFailed, NEW c \in Call, UpToDate(c), Moves(c)
    PROVE  LogAlignedUnlessFailed'
<1> DEFINE Labels == {"effect_event", "raised", "crashed"}
<1> SUFFICES ASSUME NEW id \in MemoryId, OnlyUnreviewed(id)', ~ChangedIn(id, Labels)'
             PROVE  Aligned(id)'
  BY DEF LogAlignedUnlessFailed
<1>0. TypeOK /\ Labelled(c)
  BY DEF Inv
<1>1. \A d \in Call \ {c} : pc'[d] = pc[d] /\ request'[d] = request[d]
  BY <1>0, StepIsLocal
<1>a. OnlyUnreviewed(id)
  <2>1. RequestsKept
    BY StepGrows DEF Moves
  <2>2. QED
    BY <2>1 DEF OnlyUnreviewed, RequestsKept, Asks, Op, Target
<1>2. CASE EffectEvent(c)
  <2>1. /\ LogStepOf(c) /\ UNCHANGED memories
        /\ \A i \in DOMAIN log' : i \in DOMAIN log \/ log'[i].target = Target(c)
    BY <1>0, <1>2, EffectEventLogs
  <2>2. CASE id = Target(c)
    <3>1. Target(c)' = Target(c)
      BY <1>2 DEF EffectEvent, Target, Op
    <3>2. OnlyUnreviewed(Target(c))
      BY <1>a, <2>2 DEF OnlyUnreviewed
    <3>3. Aligned(Target(c))'
      BY <1>2, <3>2, EffectEventAligns
    <3>4. QED
      BY <2>2, <3>1, <3>3 DEF Aligned, EffectsOn, Told
  <2>3. CASE id # Target(c)
    <3>1. ~ChangedIn(id, Labels)
      BY <1>1, <2>3 DEF ChangedIn, Op, Target
    <3>2. Aligned(id)
      BY <1>a, <3>1 DEF LogAlignedUnlessFailed
    <3>3. QED
      BY <2>1, <2>3, <3>2, AlignedSame
  <2>4. QED
    BY <2>2, <2>3
<1>3. CASE ~EffectEvent(c)
  <2>1. /\ LogStepOf(c)
        /\ \A i \in DOMAIN log' : \/ i \in DOMAIN log
                                  \/ log'[i].kind \notin {"captured", "validation_changed"}
        /\ Put(c) \/ UNCHANGED memories
        /\ pc[c] \in {"effect_event", "raised", "crashed"} =>
               request' = request /\ pc'[c] \in {"raised", "crashed"}
    BY <1>3, OtherStepAligns
  <2>2. ~ChangedIn(id, Labels)
    BY <1>1, <2>1 DEF ChangedIn, Op, Target
  <2>3. Aligned(id)
    BY <1>a, <2>2 DEF LogAlignedUnlessFailed
  <2>4. memories'[id] = memories[id]
    <3>1. CASE UNCHANGED memories
      BY <3>1
    <3>2. CASE Put(c)
      <4>1. \A k \in MemoryId \ {Target(c)} : memories'[k] = memories[k]
        BY <3>2, PutFacts
      <4>2. pc'[c] = "effect_event" /\ request' = request /\ Op(c) # "retrieve"
        BY <1>0, <3>2 DEF Put, Goto, TypeOK, Labelled
      <4>3. id # Target(c)
        BY <4>2 DEF ChangedIn, Op, Target
      <4>4. QED
        BY <4>1, <4>3
    <3>3. QED
      BY <2>1, <3>1, <3>2
  <2>5. QED
    BY <2>1, <2>3, <2>4, AlignedSame
<1>4. QED
  BY <1>2, <1>3

-----------------------------------------------------------------------------
(***************************************************************************)
(* SerialInv is inductive.                                                 *)
(***************************************************************************)
LEMMA SerialInit == Init => SerialInv
<1> SUFFICES ASSUME Init PROVE SerialInv
  OBVIOUS
<1>1. AuditInv
  BY AuditInit
<1>2. OneAtATime /\ \A c \in Call : UpToDate(c)
  BY DEF Init, OneAtATime, UpToDate
<1>3. ASSUME NEW id \in MemoryId PROVE Aligned(id)
  BY DEF Init, Aligned, EffectsOn
<1>4. QED
  BY <1>1, <1>2, <1>3 DEF SerialInv, LogAlignedUnlessFailed

(* The invariant of calls one after the other survives stuttering.         *)
LEMMA SerialStutter == SerialInv /\ UNCHANGED vars => SerialInv'
<1> SUFFICES ASSUME SerialInv, UNCHANGED vars PROVE SerialInv'
  OBVIOUS
<1>1. AuditInv'
  BY AuditStep DEF SerialInv
<1>2. OneAtATime'
  BY DEF SerialInv, OneAtATime, Alone, vars
<1>3. LogAlignedUnlessFailed'
  BY DEF SerialInv, LogAlignedUnlessFailed, OnlyUnreviewed, ChangedIn, Aligned, EffectsOn, Told,
     Asks, Op, Target, vars
<1>4. ASSUME NEW d \in Call PROVE UpToDate(d)'
  BY DEF SerialInv, UpToDate, IsCandidate, Matches, Op, Target, vars
<1>5. QED
  BY <1>1, <1>2, <1>3, <1>4 DEF SerialInv

(***************************************************************************)
(* Every step of a call that runs alone keeps what it has read up to date  *)
(* and the log in line with the states.                                    *)
(***************************************************************************)
THEOREM SerialStep == SerialInv /\ [SerialNext]_vars => SerialInv'
<1> SUFFICES ASSUME SerialInv, [SerialNext]_vars PROVE SerialInv'
  OBVIOUS
<1>1. AuditInv /\ Inv /\ TypeOK
  BY DEF SerialInv, AuditInv, Inv
<1>2. ASSUME NEW c \in Call, Alone(c), Moves(c) PROVE SerialInv'
  <2>1. AuditInv'
    BY <1>1, <1>2, AuditStep DEF Next, Moves
  <2>2. OneAtATime'
    BY <1>1, <1>2, OneAtATimeStep DEF SerialInv
  <2>3. \A d \in Call : UpToDate(d)'
    BY <1>1, <1>2, UpToDateStep DEF SerialInv
  <2>4. LogAlignedUnlessFailed'
    BY <1>1, <1>2, AlignmentStep DEF SerialInv
  <2>5. QED
    BY <2>1, <2>2, <2>3, <2>4 DEF SerialInv
<1>3. QED
  BY <1>2, SerialStutter DEF SerialNext, Moves

(***************************************************************************)
(* While calls do not overlap, what a call has read is still so when it    *)
(* decides and when it writes (NeuroCoreService.retrieve, validate).       *)
(***************************************************************************)
THEOREM SerialInvariance == SerialSpec => []SerialInv
  BY SerialInit, SerialStep, PTL DEF SerialSpec

(***************************************************************************)
(* The log tells the validation state of every memory no failed call has   *)
(* touched.                                                                *)
(***************************************************************************)
THEOREM LogTellsStates == SerialSpec => []LogAlignedUnlessFailed
<1>1. SerialInv => LogAlignedUnlessFailed
  BY DEF SerialInv
<1>2. QED
  BY <1>1, SerialInvariance, PTL

(***************************************************************************)
(* A put of a call on its own moves its memory along the lifecycle, or is  *)
(* that of a client's Memory.                                              *)
(***************************************************************************)
MovesAlong ==
    \A id \in MemoryId : memories[id] # NoMemory /\ memories'[id] # memories[id] =>
        \/ /\ SameContent(memories[id], memories'[id])
           /\ CanTransition(memories[id].validation, memories'[id].validation)
        \/ \E c \in Call : Recaptures(c, id) /\ memories'[id] = Captured(c)

(* The put of a validation is along the lifecycle from the stored state.   *)
LEMMA StepMovesAlong == SerialInv /\ [SerialNext]_vars => MovesAlong
<1> SUFFICES ASSUME SerialInv, [SerialNext]_vars,
                    NEW id \in MemoryId, memories[id] # NoMemory, memories'[id] # memories[id]
             PROVE  \/ /\ SameContent(memories[id], memories'[id])
                       /\ CanTransition(memories[id].validation, memories'[id].validation)
                    \/ \E c \in Call : Recaptures(c, id) /\ memories'[id] = Captured(c)
  BY DEF MovesAlong
<1>1. Inv
  BY DEF SerialInv, AuditInv
<1>2. PICK c \in Call : Moves(c)
  BY DEF SerialNext, Moves, vars
<1>3. Put(c)
  BY <1>1, <1>2, OtherStepAligns, EffectEventLogs DEF Inv
<1>4. /\ request[c] # NoRequest /\ Op(c) \in {"capture", "validate"}
      /\ Op(c) = "capture" => current[c] = Captured(c)
      /\ Op(c) = "validate" => Target(c) = request[c].id
      /\ memories'[Target(c)] = current[c]
      /\ \A k \in MemoryId \ {Target(c)} : memories'[k] = memories[k]
  BY <1>1, <1>3, PutFacts
<1>5. id = Target(c)
  BY <1>4
<1>6. UpToDate(c) /\ pc[c] = "put" /\ pc'[c] = "effect_event"
  BY <1>1, <1>3 DEF SerialInv, Put, Goto, Inv, TypeOK
<1>7. CASE Op(c) = "capture"
  <2>1. memories[c] = NoMemory
    BY <1>1, <1>6 DEF Inv, Stored
  <2>2. request[c].id = id
    BY <1>5, <2>1 DEF Target
  <2>3. QED
    BY <1>4, <1>5, <1>6, <1>7, <2>2 DEF Recaptures, Asks
<1>8. CASE Op(c) = "validate"
  BY <1>4, <1>5, <1>6, <1>8 DEF UpToDate
<1>9. QED
  BY <1>4, <1>7, <1>8

(***************************************************************************)
(* Calls one after the other move memories only along the lifecycle, but   *)
(* for a client's Memory, which is stored as it is.                        *)
(***************************************************************************)
THEOREM LifecycleKept == SerialSpec => LifecycleRespected
<1>1. SerialInv /\ [SerialNext]_vars =>
        [\A id \in MemoryId : memories[id] # NoMemory /\ memories'[id] # memories[id] =>
            \/ /\ SameContent(memories[id], memories'[id])
               /\ CanTransition(memories[id].validation, memories'[id].validation)
            \/ \E c \in Call : Recaptures(c, id) /\ memories'[id] = Captured(c)]_vars
  BY StepMovesAlong DEF MovesAlong
<1>2. QED
  BY <1>1, SerialInvariance, PTL DEF SerialSpec, LifecycleRespected

(***************************************************************************)
(* What is left of "terminal superseded" (README.md:29-30) when calls do   *)
(* not overlap: only a client that puts its own Memory under the id takes  *)
(* a memory out of that state.                                             *)
(***************************************************************************)
SupersededUnlessRecaptured ==
    [][\A id \in MemoryId : memories[id] # NoMemory /\ memories[id].validation = "superseded" =>
          \/ memories'[id].validation = "superseded"
          \/ \E c \in Call : Recaptures(c, id)]_vars

(* The validations of calls one after the other never leave "superseded".  *)
THEOREM SupersededStays == SerialSpec => SupersededUnlessRecaptured
<1>1. SerialInv /\ [SerialNext]_vars =>
        [\A id \in MemoryId : memories[id] # NoMemory /\ memories[id].validation = "superseded" =>
            \/ memories'[id].validation = "superseded"
            \/ \E c \in Call : Recaptures(c, id)]_vars
  <2>1. \A target : ~CanTransition("superseded", target)
    BY DEF CanTransition, Allowed
  <2>2. QED
    BY <2>1, StepMovesAlong DEF MovesAlong
<1>2. QED
  BY <1>1, SerialInvariance, PTL DEF SerialSpec, SupersededUnlessRecaptured

(***************************************************************************)
(* Only the hits of what is ranked enter a ranking (the filters of         *)
(* retrieve()).                                                            *)
(***************************************************************************)
LEMMA RankingsOfHits ==
    ASSUME NEW query, NEW scope, NEW S, NEW T,
           {f \in S : Selected(query, scope, f.memory)} = {f \in T : Selected(query, scope, f.memory)}
    PROVE  Rankings(query, scope, S) = Rankings(query, scope, T)
<1> DEFINE Orders(hits) == {s \in [1..Cardinality(hits) -> hits] :
                               /\ \A f \in hits : \E i \in DOMAIN s : s[i] = f
                               /\ \A i, j \in DOMAIN s : i < j =>
                                     Score(query, s[i].memory) >= Score(query, s[j].memory)}
<1>1. Rankings(query, scope, S) = Orders({f \in S : Selected(query, scope, f.memory)})
  BY Zenon DEF Rankings
<1>2. Rankings(query, scope, T) = Orders({f \in T : Selected(query, scope, f.memory)})
  BY Zenon DEF Rankings
<1> HIDE DEF Orders
<1>3. QED
  BY <1>1, <1>2, Zenon

(***************************************************************************)
(* What was got of the candidates ranks as a scan of the scope does.       *)
(***************************************************************************)
LEMMA SameRankings ==
    ASSUME SerialInv, NEW c \in Call, Rank(c)
    PROVE  LET scan == {[id |-> id, memory |-> memories[id]] :
                           id \in {i \in MemoryId : Matches(i, request[c].scope)}}
           IN  Rankings(request[c].query, request[c].scope, found[c])
                   = Rankings(request[c].query, request[c].scope, scan)
<1> DEFINE query == request[c].query
           scope == request[c].scope
           scan == {[id |-> id, memory |-> memories[id]] :
                       id \in {i \in MemoryId : Matches(i, scope)}}
           Hits(S) == {f \in S : Selected(query, scope, f.memory)}
<1>0. TypeOK /\ UpToDate(c)
  BY DEF SerialInv, AuditInv, Inv
<1>1. pc[c] = "gets" /\ ids[c] = {}
  BY DEF Rank
<1>2. /\ \A h \in found[c] : h.memory = memories[h.id] /\ h \in Hit
      /\ {id \in MemoryId : IsCandidate(c, id)} = {h.id : h \in found[c]}
  BY <1>0, <1>1 DEF UpToDate, TypeOK
<1>3. ASSUME NEW f \in found[c] PROVE f \in scan
  <2>1. f = [id |-> f.id, memory |-> f.memory]
    BY <1>2 DEF Hit
  <2>2. f.id \in MemoryId /\ Matches(f.id, scope)
    BY <1>2 DEF IsCandidate
  <2>3. QED
    BY <1>2, <2>1, <2>2
<1>4. ASSUME NEW f \in scan, Selected(query, scope, f.memory) PROVE f \in found[c]
  <2>1. PICK id \in MemoryId : Matches(id, scope) /\ f = [id |-> id, memory |-> memories[id]]
    OBVIOUS
  <2>2. IsCandidate(c, id)
    BY <1>4, <2>1 DEF Selected, IsCandidate
  <2>3. PICK h \in found[c] : h.id = id
    BY <1>2, <2>2
  <2>4. h = f
    BY <1>2, <2>1, <2>3 DEF Hit
  <2>5. QED
    BY <2>3, <2>4
<1>5. Hits(found[c]) = Hits(scan)
  <2> HIDE DEF scan, query, scope
  <2>1. QED
    BY <1>3, <1>4
<1> HIDE DEF scan, query, scope
<1>6. Rankings(query, scope, found[c]) = Rankings(query, scope, scan)
  BY <1>5, RankingsOfHits
<1>7. QED
  BY <1>6 DEF scan, query, scope

(***************************************************************************)
(* A retrieval on its own returns, through the index and the single gets,  *)
(* the best of what a scan of its scope ranks, and no more than the cap.   *)
(***************************************************************************)
Exact(c) ==
    LET scan == {[id |-> id, memory |-> memories[id]] :
                    id \in {i \in MemoryId : Matches(i, request[c].scope)}}
    IN  /\ \E r \in Rankings(request[c].query, request[c].scope, scan) :
              results'[c] = Capped(r, request[c].max)
        /\ Len(results'[c]) <= request[c].max

(* The ranking of what the index let through is a ranking of the scope.    *)
LEMMA StepIsExact ==
    ASSUME SerialInv, [SerialNext]_vars, NEW c \in Call,
           pc[c] = "gets", pc'[c] = "retrieved_events", request[c].max >= 0
    PROVE  Exact(c)
<1>0. TypeOK /\ Labelled(c) /\ Retrieved(c)
  BY DEF SerialInv, AuditInv, Inv
<1>1. PICK d \in Call : Moves(d)
  BY DEF SerialNext, Moves, vars
<1>2. d = c
  BY <1>0, <1>1, StepIsLocal
<1>3. Rank(c)
  BY <1>0, <1>1, <1>2 DEF Moves, Step, Progress, Invoke, CaptureTool, RetrieveTool, ValidateTool,
     ServiceCall, Begin, ToolDenial, ToolDenialUnrecorded, OpenStore, GetCurrent, Allow, Unchecked,
     Deny, Transition, IllegalTransition, Put, EffectEvent, Candidates, GetCandidate,
     RetrievedEvent, ReturnResults, StoreRaises, Crash, Goto, TypeOK
<1>4. PICK r \in Rankings(request[c].query, request[c].scope, found[c]) :
         results'[c] = Capped(r, request[c].max)
  BY <1>0, <1>3 DEF Rank, TypeOK
<1>5. request[c].max \in Int
  BY <1>0, RequestShape DEF Labelled
<1>6. r \in Seq(found[c])
  BY <1>0, RankingListsOnce DEF Retrieved
<1>7. Len(results'[c]) <= request[c].max
  BY <1>4, <1>5, <1>6, CappedBeginning
<1>8. QED
  BY <1>3, <1>4, <1>7, SameRankings DEF Exact

(***************************************************************************)
(* A retrieval through the candidate index returns what ranking all of its *)
(* scope would have returned, cut at max_results.                          *)
(***************************************************************************)
THEOREM RetrievalIsExact == SerialSpec => RetrieveExact
<1>1. SerialInv /\ [SerialNext]_vars =>
        [\A c \in Call : pc[c] = "gets" /\ pc'[c] = "retrieved_events" /\ request[c].max >= 0 =>
            LET scan == {[id |-> id, memory |-> memories[id]] :
                            id \in {i \in MemoryId : Matches(i, request[c].scope)}}
            IN  /\ \E r \in Rankings(request[c].query, request[c].scope, scan) :
                      results'[c] = Capped(r, request[c].max)
                /\ Len(results'[c]) <= request[c].max]_vars
  BY StepIsExact DEF Exact
<1>2. QED
  BY <1>1, SerialInvariance, PTL DEF SerialSpec, RetrieveExact

=============================================================================
