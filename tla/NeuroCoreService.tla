--------------------------- MODULE NeuroCoreService ---------------------------
(***************************************************************************)
(* Calls of the capture, retrieve and validate tools (tools/*.py) and of   *)
(* the service behind them (neuro_core_2_service.py).  Every call opens    *)
(* its own store on the shared database and runs as a sequence of store    *)
(* operations, each atomic (module SqliteStore), any of which may raise;   *)
(* calls of several agents interleave between them, and a process may die. *)
(* A call runs once; a retry is another call with the same arguments.      *)
(* A capture stores a new memory or, service.capture(Memory(...)), a Memory *)
(* that the client has: with its id, over whatever is stored under it.     *)
(***************************************************************************)
EXTENDS CallerIdentity, NeuroCore2

CONSTANTS Call,            \* calls; a call also names the uuid of its memory
          Known,           \* ids that clients know from earlier sessions
          InitialMemories, \* the memories stored under them, or NoMemory
          NewId,           \* the capture is of a new memory, with a uuid of its own
          Text, Term,      \* texts and their terms
          Requests,        \* what the calls may ask for
          NoRequest,       \* the call has not been made
          NoMemory         \* the id is absent from the store

VARIABLES memories,  \* the store: MemoryId -> Memory, or NoMemory
          log,       \* activity_events in the order of their commits
          pc,        \* where each call is
          request,   \* what each call asks for
          current,   \* the memory a call is to put, or has read to validate
          ids,       \* candidates a retrieval has still to get
          found,     \* memories a retrieval has got
          results,   \* what a retrieval will return
          logged     \* of those, how many have their event

vars == <<memories, log, pc, request, current, ids, found, results, logged>>

MemoryId == Call \cup Known

Memory == [text : Text, weight : Nat, scope : Requested, validation : ValidationState]

\* How a call reaches the service.  "tool": a tool of an agent, which binds
\* the scope to the identity derived from the agent first.  The others call
\* the service: with a derived identity, with a caller_context naming project
\* and agent, or with no caller_context (no check, no authorization event).
Origin == [kind : {"tool", "identity", "context", "none"},
           project : Project \cup {NoProject}, agent_name : AgentName \cup Unnamed]

\* "id" and "validation" are those of the Memory a client passes.
CaptureRequest  == [op : {"capture"}, origin : Origin, scope : Requested, text : Text,
                    weight : Nat, validation : ValidationState, id : MemoryId \cup {NewId}]
RetrieveRequest == [op : {"retrieve"}, origin : Origin, scope : Requested,
                    query : SUBSET Term, max : Int]
\* "scope" of a validate call is what its project and agent arguments name.
ValidateRequest == [op : {"validate"}, origin : Origin, scope : Requested,
                    id : MemoryId, target : ValidationState]

ASSUME RequestsAssumption ==
    /\ Requests \subseteq CaptureRequest \cup RetrieveRequest \cup ValidateRequest
    /\ NoRequest \notin Requests
ASSUME MemoriesAssumption ==
    /\ InitialMemories \in [Known -> Memory \cup {NoMemory}]
    /\ NoMemory \notin Memory
    /\ NewId \notin MemoryId
    /\ Known \cap Call = {} /\ IsFiniteSet(Known)
ASSUME TokensAssumption == Tokens \in [Text -> SUBSET Term]

NoScope == [project |-> NoProject, agent |-> NoAgent]

Ended == {"done", "denied", "raised", "crashed"}
PC == Ended \cup {"ready", "tool_denial", "open", "get_current", "authorize", "transition",
                  "put", "effect_event", "candidates", "gets", "retrieved_events"}

Event == [call : Call, kind : {"authorization_decided", "captured", "retrieved",
                               "validation_changed"},
          scope : Requested, target : MemoryId \cup {"authorization"},
          outcome : ValidationState \cup {"allow", "deny", "stored", "selected"}]

-----------------------------------------------------------------------------
Op(c) == request[c].op
Checked(c) == request[c].origin.kind # "none"

\* The binding of tool and service (scope_binding_denial), and the plain
\* comparison for a caller_context without identity_source.
Denied(origin, scope) ==
    \/ origin.kind \in {"tool", "identity"} /\ ~Binds(ToolIdentity(origin), scope)
    \/ /\ origin.kind = "context"
       /\ \/ origin.project = NoProject
          \/ origin.project # scope.project
          \/ origin.agent_name # scope.agent

\* Mutant: validate is authorized on the caller's own scope.
CheckedScopeOwn(c) ==
    LET origin == request[c].origin
    IN  IF Op(c) = "validate" THEN [project |-> origin.project, agent |-> origin.agent_name]
        ELSE request[c].scope

\* The scope the service checks, and records in the authorization event.
CheckedScope(c) == IF Op(c) = "validate" THEN current[c].scope ELSE request[c].scope

\* Mutant: the default of memory_id is drawn once (uuid4() without a factory).
TargetDrawnOnce(c) == IF request[c].id = NewId THEN CHOOSE d \in Call : TRUE ELSE request[c].id

\* memory.memory_id: the uuid drawn for a new Memory, or the id it came with.
Target(c) == IF request[c].id = NewId THEN c ELSE request[c].id

ServiceEntry(op) == IF op = "validate" THEN "get_current" ELSE "authorize"

Work == [capture |-> "put", retrieve |-> "candidates", validate |-> "transition"]

Goto(c, label) == pc' = [pc EXCEPT ![c] = label]

\* ActivityEvent and SQLiteStore.append_event: kind, scope, target and outcome
\* are what the row keeps of an authorization event; its evidence is dropped.
AppendEvent(c, kind, scope, target, outcome) ==
    log' = Append(log, [call |-> c, kind |-> kind, scope |-> scope, target |-> target,
                        outcome |-> outcome])

AuditAuthorization(c, outcome) ==
    AppendEvent(c, "authorization_decided", CheckedScope(c),
                 IF Op(c) = "validate" THEN request[c].id ELSE "authorization", outcome)

Init ==
    /\ memories = [id \in MemoryId |-> IF id \in Known THEN InitialMemories[id] ELSE NoMemory]
    /\ log = <<>>
    /\ pc = [c \in Call |-> "ready"]
    /\ request = [c \in Call |-> NoRequest]
    /\ current = [c \in Call |-> NoMemory]
    /\ ids = [c \in Call |-> {}]
    /\ found = [c \in Call |-> {}]
    /\ results = [c \in Call |-> <<>>]
    /\ logged = [c \in Call |-> 0]

-----------------------------------------------------------------------------
\* A call begins with request r and goes to that label.
Begin(c, r, label) ==
    /\ pc[c] = "ready"
    /\ request' = [request EXCEPT ![c] = r]
    /\ Goto(c, label)
    /\ UNCHANGED <<memories, log, current, ids, found, results, logged>>

\* A Memory made for this call, as the tool and the keyword mode make one.
IsNew(r) == r.id = NewId /\ r.validation = "unreviewed"

\* execute() of the tools: identity, tool-layer binding, caller_context.
CaptureTool(c) ==
    \E r \in Requests :
        /\ r.origin.kind = "tool" /\ r.op = "capture" /\ IsNew(r)
        /\ Begin(c, r, IF Denied(r.origin, r.scope) THEN "tool_denial" ELSE "open")

RetrieveTool(c) ==
    \E r \in Requests :
        /\ r.origin.kind = "tool" /\ r.op = "retrieve"
        /\ Begin(c, r, IF Denied(r.origin, r.scope) THEN "tool_denial" ELSE "open")

\* The validate tool denies any caller-supplied scope argument.
ValidateTool(c) ==
    \E r \in Requests :
        /\ r.origin.kind = "tool" /\ r.op = "validate"
        /\ Begin(c, r, IF r.scope # NoScope THEN "tool_denial" ELSE "open")

\* A client has the uuid that a call drew from a memory that has been stored.
HasId(r) == r.op = "capture" /\ r.id \in Call => memories[r.id] # NoMemory

ServiceCall(c) ==
    \E r \in Requests :
        r.origin.kind # "tool" /\ HasId(r) /\ Begin(c, r, ServiceEntry(r.op))

\* _record_denial_event, then AuthorizationError.
ToolDenial(c) ==
    /\ pc[c] = "tool_denial"
    /\ AppendEvent(c, "authorization_decided", request[c].scope, "authorization", "deny")
    /\ Goto(c, "denied")
    /\ UNCHANGED <<memories, request, current, ids, found, results, logged>>

\* Whatever goes wrong while recording the denial is logged and swallowed.
ToolDenialUnrecorded(c) ==
    /\ pc[c] = "tool_denial"
    /\ Goto(c, "denied")
    /\ UNCHANGED <<memories, log, request, current, ids, found, results, logged>>

OpenStore(c) ==
    /\ pc[c] = "open"
    /\ Goto(c, ServiceEntry(Op(c)))
    /\ UNCHANGED <<memories, log, request, current, ids, found, results, logged>>

\* Mutant: validate without the memory-bound check of layer 4.
GetCurrentUnbound(c) ==
    /\ pc[c] = "get_current"
    /\ current' = [current EXCEPT ![c] = memories[request[c].id]]
    /\ Goto(c, IF memories[request[c].id] = NoMemory THEN "raised" ELSE "transition")
    /\ UNCHANGED <<memories, log, request, ids, found, results, logged>>

\* validate: current = store.get(memory_id), outside any transaction.
GetCurrent(c) ==
    /\ pc[c] = "get_current"
    /\ current' = [current EXCEPT ![c] = memories[request[c].id]]
    /\ Goto(c, IF memories[request[c].id] = NoMemory THEN "raised" ELSE "authorize")
    /\ UNCHANGED <<memories, log, request, ids, found, results, logged>>

\* The Memory a capture is called with, or makes.
Captured(c) == [text |-> request[c].text, weight |-> request[c].weight,
                scope |-> request[c].scope, validation |-> request[c].validation]

\* Mutant: the outcome of the event taken for the state of the memory.
PreparedStored(c) ==
    IF Op(c) = "capture" THEN [Captured(c) EXCEPT !.validation = "stored"] ELSE current[c]

\* The memory a call starts its work with: the one read, or the one to capture.
Prepared(c) == IF Op(c) = "capture" THEN Captured(c) ELSE current[c]

Proceed(c) ==
    /\ current' = [current EXCEPT ![c] = Prepared(c)]
    /\ Goto(c, Work[Op(c)])
    /\ UNCHANGED <<memories, request, ids, found, results, logged>>

\* Mutant: only denials are audited.
AllowUnrecorded(c) ==
    /\ pc[c] = "authorize"
    /\ Checked(c)
    /\ ~Denied(request[c].origin, CheckedScope(c))
    /\ Proceed(c)
    /\ UNCHANGED log

Allow(c) ==
    /\ pc[c] = "authorize"
    /\ Checked(c)
    /\ ~Denied(request[c].origin, CheckedScope(c))
    /\ AuditAuthorization(c, "allow")
    /\ Proceed(c)

\* No caller_context: neither check nor event.
Unchecked(c) ==
    /\ pc[c] = "authorize"
    /\ ~Checked(c)
    /\ Proceed(c)
    /\ UNCHANGED log

\* The service denies and returns an error dict.
Deny(c) ==
    /\ pc[c] = "authorize"
    /\ Denied(request[c].origin, CheckedScope(c))
    /\ AuditAuthorization(c, "deny")
    /\ Goto(c, "denied")
    /\ UNCHANGED <<memories, request, current, ids, found, results, logged>>

\* Mutant: the target state taken over without transition().
TransitionUnchecked(c) ==
    /\ pc[c] = "transition"
    /\ current' = [current EXCEPT ![c].validation = request[c].target]
    /\ Goto(c, "put")
    /\ UNCHANGED <<memories, log, request, ids, found, results, logged>>

\* Mutant: the updated memory takes the scope the caller named.
TransitionRescoped(c) ==
    /\ pc[c] = "transition"
    /\ CanTransition(current[c].validation, request[c].target)
    /\ current' = [current EXCEPT ![c].validation = request[c].target,
                                  ![c].scope = request[c].scope]
    /\ Goto(c, "put")
    /\ UNCHANGED <<memories, log, request, ids, found, results, logged>>

\* transition(current.validation, target), on the state read before.
Transition(c) ==
    /\ pc[c] = "transition"
    /\ CanTransition(current[c].validation, request[c].target)
    /\ current' = [current EXCEPT ![c].validation = request[c].target]
    /\ Goto(c, "put")
    /\ UNCHANGED <<memories, log, request, ids, found, results, logged>>

IllegalTransition(c) ==
    /\ pc[c] = "transition"
    /\ ~CanTransition(current[c].validation, request[c].target)
    /\ Goto(c, "raised")
    /\ UNCHANGED <<memories, log, request, current, ids, found, results, logged>>

\* Mutant: the call returns without its event.
PutUnlogged(c) ==
    /\ pc[c] = "put"
    /\ memories' = [memories EXCEPT ![Target(c)] = current[c]]
    /\ Goto(c, "done")
    /\ UNCHANGED <<log, request, current, ids, found, results, logged>>

\* store.put
Put(c) ==
    /\ pc[c] = "put"
    /\ memories' = [memories EXCEPT ![Target(c)] = current[c]]
    /\ Goto(c, "effect_event")
    /\ UNCHANGED <<log, request, current, ids, found, results, logged>>

\* _event("captured", ...) or _event("validation_changed", ...), and return.
EffectEvent(c) ==
    /\ pc[c] = "effect_event"
    /\ IF Op(c) = "capture"
       THEN AppendEvent(c, "captured", current[c].scope, Target(c), "stored")
       ELSE AppendEvent(c, "validation_changed", current[c].scope, request[c].id,
                         request[c].target)
    /\ Goto(c, "done")
    /\ UNCHANGED <<memories, request, current, ids, found, results, logged>>

\* A row the SQL of candidate_ids selects; "project = NULL" selects none.
Matches(id, scope) ==
    memories[id] # NoMemory /\ memories[id].scope = scope /\ scope.project # NoProject

IsCandidate(c, id) ==
    Matches(id, request[c].scope) /\ Overlap(request[c].query, memories[id]) # {}

\* Mutant: a candidate has to hold all terms of the query.
CandidatesAllTerms(c) ==
    /\ pc[c] = "candidates"
    /\ ids' = [ids EXCEPT ![c] =
                  {id \in MemoryId : /\ Matches(id, request[c].scope)
                                     /\ Overlap(request[c].query, memories[id]) = request[c].query}]
    /\ Goto(c, "gets")
    /\ UNCHANGED <<memories, log, request, current, found, results, logged>>

\* store.candidate_ids(terms, scope), one query.
Candidates(c) ==
    /\ pc[c] = "candidates"
    /\ ids' = [ids EXCEPT ![c] = {id \in MemoryId : IsCandidate(c, id)}]
    /\ Goto(c, "gets")
    /\ UNCHANGED <<memories, log, request, current, found, results, logged>>

\* Mutant: the loop over the candidates never moves on.
GetCandidateForever(c) ==
    /\ pc[c] = "gets"
    /\ \E id \in ids[c] :
          found' = [found EXCEPT ![c] =
                      @ \cup {[id |-> id, memory |-> m] : m \in {memories[id]} \ {NoMemory}}]
    /\ UNCHANGED <<memories, log, pc, request, current, ids, results, logged>>

\* store.get(mid), a query of its own for each candidate; None is dropped.
GetCandidate(c) ==
    /\ pc[c] = "gets"
    /\ \E id \in ids[c] :
          /\ ids' = [ids EXCEPT ![c] = @ \ {id}]
          /\ found' = [found EXCEPT ![c] =
                          @ \cup {[id |-> id, memory |-> m] : m \in {memories[id]} \ {NoMemory}}]
    /\ UNCHANGED <<memories, log, pc, request, current, results, logged>>

\* retrieve(query, scope, memories) and the cap.
Rank(c) ==
    /\ pc[c] = "gets"
    /\ ids[c] = {}
    /\ \E r \in Rankings(request[c].query, request[c].scope, found[c]) :
          results' = [results EXCEPT ![c] = Capped(r, request[c].max)]
    /\ Goto(c, "retrieved_events")
    /\ UNCHANGED <<memories, log, request, current, ids, found, logged>>

\* _event("retrieved", ...), one transaction per result.
RetrievedEvent(c) ==
    /\ pc[c] = "retrieved_events"
    /\ logged[c] < Len(results[c])
    /\ LET hit == results[c][logged[c] + 1]
       IN  AppendEvent(c, "retrieved", hit.memory.scope, hit.id, "selected")
    /\ logged' = [logged EXCEPT ![c] = @ + 1]
    /\ UNCHANGED <<memories, pc, request, current, ids, found, results>>

\* Mutant: only the first result is audited.
ReturnAfterFirst(c) ==
    /\ pc[c] = "retrieved_events"
    /\ logged[c] >= 1
    /\ Goto(c, "done")
    /\ UNCHANGED <<memories, log, request, current, ids, found, results, logged>>

ReturnResults(c) ==
    /\ pc[c] = "retrieved_events"
    /\ logged[c] >= Len(results[c])
    /\ Goto(c, "done")
    /\ UNCHANGED <<memories, log, request, current, ids, found, results, logged>>

\* The call is about to use the store.
UsesStore(c) ==
    \/ pc[c] \in {"open", "get_current", "put", "effect_event", "candidates"}
    \/ pc[c] = "authorize" /\ Checked(c)
    \/ pc[c] = "gets" /\ ids[c] # {}
    \/ pc[c] = "retrieved_events" /\ logged[c] < Len(results[c])

\* The store raises (locked for busy_timeout, I/O, migration refused).
StoreRaises(c) ==
    /\ UsesStore(c)
    /\ Goto(c, "raised")
    /\ UNCHANGED <<memories, log, request, current, ids, found, results, logged>>

\* The process of the call dies.
Crash(c) ==
    /\ pc[c] \notin Ended \cup {"ready"}
    /\ Goto(c, "crashed")
    /\ UNCHANGED <<memories, log, request, current, ids, found, results, logged>>

-----------------------------------------------------------------------------
Progress(c) ==
    \/ ToolDenial(c) \/ ToolDenialUnrecorded(c) \/ OpenStore(c) \/ GetCurrent(c)
    \/ Allow(c) \/ Unchecked(c) \/ Deny(c)
    \/ Transition(c) \/ IllegalTransition(c) \/ Put(c) \/ EffectEvent(c)
    \/ Candidates(c) \/ GetCandidate(c) \/ Rank(c) \/ RetrievedEvent(c) \/ ReturnResults(c)

Invoke(c) == CaptureTool(c) \/ RetrieveTool(c) \/ ValidateTool(c) \/ ServiceCall(c)

Step(c) == Progress(c) \/ StoreRaises(c)

Next == \E c \in Call : Invoke(c) \/ Step(c) \/ Crash(c)

Spec == Init /\ [][Next]_vars

\* A call that has started keeps executing: every operation of the store
\* ends (SqliteStore, CallsEnd), and no failure is relied on.
FairSpec == Spec /\ \A c \in Call : WF_vars(Progress(c))

\* One agent at a time: a call starts when no other is in progress.
Alone(c) == \A d \in Call \ {c} : pc[d] \in Ended \cup {"ready"}
SerialNext == \E c \in Call : Alone(c) /\ (Invoke(c) \/ Step(c) \/ Crash(c))
SerialSpec == Init /\ [][SerialNext]_vars

-----------------------------------------------------------------------------
Hit == [id : MemoryId, memory : Memory]

TypeOK ==
    /\ memories \in [MemoryId -> Memory \cup {NoMemory}]
    /\ log \in Seq(Event)
    /\ pc \in [Call -> PC]
    /\ request \in [Call -> Requests \cup {NoRequest}]
    /\ current \in [Call -> Memory \cup {NoMemory}]
    /\ ids \in [Call -> SUBSET MemoryId]
    /\ found \in [Call -> SUBSET Hit]
    /\ results \in [Call -> Seq(Hit)]
    /\ logged \in [Call -> Nat]

\* Event j of the log allows call c to act on that scope.
AllowAt(j, c, scope) ==
    /\ log[j].call = c
    /\ log[j].kind = "authorization_decided"
    /\ log[j].outcome = "allow"
    /\ log[j].scope = scope

\* Write-ahead audit, log side: before any captured, retrieved or
\* validation_changed event of a call that is checked, the log has the event
\* that allowed the same call on the same scope
\* (neuro_core_2_service.py, _audit_authorization before every effect).
EffectsFollowAllow ==
    \A i \in DOMAIN log :
        log[i].kind # "authorization_decided" /\ Checked(log[i].call) =>
            \E j \in 1..(i - 1) : AllowAt(j, log[i].call, log[i].scope)

\* The log shows that c, if checked, was allowed on that scope.
Authorized(c, scope) == Checked(c) => \E j \in DOMAIN log : AllowAt(j, c, scope)

\* Call c has been made and asks for that operation.
Asks(c, op) == request[c] # NoRequest /\ Op(c) = op

\* The captures under id that the log, if they are checked, shows as allowed.
Captures(id) ==
    {c \in Call : Asks(c, "capture") /\ Target(c) = id /\ Authorized(c, request[c].scope)}

\* The memories id has been given: by an earlier session and by those captures.
Versions ==
    [id \in MemoryId |->
        {Captured(c) : c \in Captures(id)}
            \cup (IF id \in Known THEN {InitialMemories[id]} \ {NoMemory} ELSE {})]

SameContent(m, n) == n # NoMemory /\ m.text = n.text /\ m.weight = n.weight /\ m.scope = n.scope

IsVersion(m, id) == \E n \in Versions[id] : SameContent(m, n)

\* Write-ahead audit, store side: text, weight and scope of every memory are
\* together those of one version, never of two, and its validation state is
\* either that version's or one that a validation of this memory asked for;
\* and whoever gave it either is allowed on its scope by an event in the log,
\* even if the process died, or the effect event was lost, right after the
\* put (put of the whole Memory at neuro_core_2_service.py:212, 226 and 474).
ChangesFollowAllow ==
    \A id \in MemoryId : memories[id] # NoMemory =>
        \E m \in Versions[id] :
            /\ SameContent(memories[id], m)
            /\ \/ memories[id].validation = m.validation
               \/ \E v \in Call : /\ Asks(v, "validate")
                                  /\ request[v].id = id
                                  /\ request[v].target = memories[id].validation
                                  /\ Authorized(v, m.scope)

\* A call of an agent's tool, and two such calls with one derived identity.
ToolCall(c) == request[c] # NoRequest /\ request[c].origin.kind = "tool"

SameCaller(c, d) ==
    LET one == ToolIdentity(request[c].origin)
        two == ToolIdentity(request[d].origin)
    IN  one.caller_project = two.caller_project /\ one.agent_factor = two.agent_factor

\* A client's capture under an id it knows has been allowed.
Recaptured(id) == \E c \in Captures(id) : request[c].id = id

\* What a tool call captured, no tool call of another identity retrieves or
\* validates, however the calls interleave (the bindings of layers 2 to 4);
\* unless a client of the service may put another Memory under its id.
CallerIsolation ==
    \A c, d \in Call : ToolCall(c) /\ ToolCall(d) /\ ~Recaptured(d) =>
        /\ (\E i \in DOMAIN results[c] : results[c][i].id = d) => SameCaller(c, d)
        /\ Op(c) = "validate" /\ request[c].id = d /\ pc[c] \in {"effect_event", "done"} =>
              SameCaller(c, d)

\* Where the log has the retrieved events of c, and the how-maniest i is.
RetrievedBy(c) == {i \in DOMAIN log : log[i].call = c /\ log[i].kind = "retrieved"}
Nth(c, i) == Cardinality({j \in RetrievedBy(c) : j <= i})

DistinctIds(c) == \A i, j \in DOMAIN results[c] : i # j => results[c][i].id # results[c][j].id

\* The events of a retrieval name exactly what it returns, in rank order and
\* each memory once; a retrieval that dies or raises before its end has
\* logged a prefix (retrieve_with_meta, one transaction per event).
RetrievalAudited ==
    \A c \in Call : Asks(c, "retrieve") =>
        /\ Cardinality(RetrievedBy(c)) <= Len(results[c])
        /\ pc[c] = "done" => Cardinality(RetrievedBy(c)) = Len(results[c])
        /\ \A i \in RetrievedBy(c) : log[i].target = results[c][Nth(c, i)].id
        /\ DistinctIds(c)

\* Whatever calls interleave, no step takes a memory away, and its text, weight
\* and scope stay as they are unless a client may put a Memory of its own
\* under the id: new memories and validations, which write back a copy read
\* before, never change them (Memory is frozen; put at 212 and 474).
ContentKeptUnlessRecaptured ==
    [][\A id \in MemoryId : memories[id] # NoMemory =>
          /\ memories'[id] # NoMemory
          /\ SameContent(memories[id], memories'[id]) \/ Recaptured(id)']_vars

\* The permissions a call has by the log, or without a caller_context; the
\* memories calls are permitted to capture; what the log has as shown.
May == {p \in Call \X Requested : request[p[1]] # NoRequest /\ Authorized(p[1], p[2])}
Shown ==
    {p \in Call \X MemoryId : \E i \in DOMAIN log :
        log[i].call = p[1] /\ log[i].kind = "retrieved" /\ log[i].target = p[2]}

Offered ==
    UNION {{[call |-> c, id |-> id, memory |-> Captured(c)] : c \in Captures(id)} : id \in MemoryId}

Abstract == INSTANCE AuditedMemory WITH
                Scope <- Requested, may <- May, offered <- Offered, shown <- Shown

\* Interleaved in any order, and cut short anywhere, the steps of the calls
\* amount to single permitted instants of AuditedMemory: a put or a retrieved
\* event is one, all the rest is granting permissions or nothing at all.
ImplementsAuditedMemory == Abstract!Spec

\* How far a call has still to go: by its label, and within a loop by what the
\* loop has left.
Stage == [done |-> 0, denied |-> 0, raised |-> 0, crashed |-> 0,
          tool_denial |-> 1, effect_event |-> 1, retrieved_events |-> 1, put |-> 2, gets |-> 2,
          transition |-> 3, candidates |-> 3, authorize |-> 4, get_current |-> 5, open |-> 6,
          ready |-> 7]

LoopLeft(c) == IF pc[c] = "gets" THEN Cardinality(ids[c]) ELSE Len(results[c]) - logged[c]

Advances(c) ==
    \/ Stage[pc'[c]] < Stage[pc[c]]
    \/ pc'[c] = pc[c] /\ LoopLeft(c)' \in 0..(LoopLeft(c) - 1)

\* No call runs on for ever, fairly scheduled or not: every step, of whatever
\* interleaving, brings one call nearer to its end and leaves the others where
\* they are (the loops over candidates and results, and no retry anywhere).
EveryStepAdvances ==
    [][\E c \in Call :
          /\ Advances(c)
          /\ \A d \in Call \ {c} : UNCHANGED <<pc[d], ids[d], results[d], logged[d]>>]_vars

\* A call that has started ends: it returns, is denied, raises or dies.
CallsEnd == \A c \in Call : pc[c] \notin Ended \cup {"ready"} ~> pc[c] \in Ended

-----------------------------------------------------------------------------
\* What the labels of a call mean: the inductive invariant.

\* The scope a call acts on once it is past its authorization.
ActingScope(c) == IF Op(c) = "retrieve" THEN request[c].scope ELSE current[c].scope

\* If c is checked at all, it may act on that scope and the log says so.
Cleared(c, scope) == Checked(c) => /\ ~Denied(request[c].origin, scope)
                                   /\ \E j \in DOMAIN log : AllowAt(j, c, scope)

Acting == {"transition", "put", "effect_event", "candidates", "gets", "retrieved_events", "done"}

Labelled(c) ==
    /\ pc[c] = "ready" <=> request[c] = NoRequest
    /\ pc[c] \in {"get_current", "transition"} => Op(c) = "validate"
    /\ pc[c] \in {"put", "effect_event"} => Op(c) # "retrieve"
    /\ pc[c] \in {"candidates", "gets", "retrieved_events"} => Op(c) = "retrieve"
    /\ pc[c] \in Acting => Cleared(c, ActingScope(c))

\* What a capture is to put, and what a validation has read and is to put: a
\* version, if not the one that is stored by now.
Holding(c) ==
    /\ Asks(c, "capture") => HasId(request[c])
    /\ pc[c] \in {"put", "effect_event", "done"} /\ Op(c) = "capture" => current[c] = Prepared(c)
    /\ pc[c] \in {"authorize", "transition", "put", "effect_event", "done"} /\ Op(c) = "validate" =>
          /\ current[c] # NoMemory
          /\ IsVersion(current[c], request[c].id)
          /\ memories[request[c].id] # NoMemory
    /\ pc[c] \in {"put", "effect_event"} /\ Op(c) = "validate" =>
          current[c].validation = request[c].target

\* The id a call draws is in the store from its put on.
Stored(c) ==
    memories[c] # NoMemory =>
        /\ Asks(c, "capture") /\ request[c].id = NewId
        /\ pc[c] \in {"effect_event", "done", "raised", "crashed"}
        /\ Cleared(c, request[c].scope)

\* What a retrieval has got is a version of what is stored, what it returns is
\* in its scope.
Retrieved(c) ==
    /\ IsFiniteSet(found[c])
    /\ \A h \in found[c] : IsVersion(h.memory, h.id) /\ memories[h.id] # NoMemory
    /\ results[c] # <<>> => Asks(c, "retrieve") /\ Cleared(c, request[c].scope)
    /\ \A i \in DOMAIN results[c] : /\ results[c][i] \in found[c]
                                    /\ results[c][i].memory.scope = request[c].scope

\* Every event is of a call that has been made.
LogOwned == \A i \in DOMAIN log : request[log[i].call] # NoRequest

\* The labels of every call tell what it holds and what it may do; log and
\* store show no effect without its permission (neuro_core_2_service.py).
Inv ==
    /\ TypeOK
    /\ LogOwned /\ EffectsFollowAllow /\ ChangesFollowAllow
    /\ \A c \in Call : Labelled(c) /\ Holding(c) /\ Stored(c) /\ Retrieved(c)

-----------------------------------------------------------------------------
\* When calls do not overlap.

\* The step is the put of a client's Memory under this id.
Recaptures(c, id) ==
    /\ pc[c] = "put" /\ pc'[c] = "effect_event"
    /\ Asks(c, "capture") /\ request[c].id = id

\* A stored memory changes in two ways only: a client puts its own Memory in
\* its place, which is then stored as it is, or a validation moves it along
\* the lifecycle and leaves its content alone.
LifecycleRespected ==
    [][\A id \in MemoryId : memories[id] # NoMemory /\ memories'[id] # memories[id] =>
          \/ /\ SameContent(memories[id], memories'[id])
             /\ CanTransition(memories[id].validation, memories'[id].validation)
          \/ \E c \in Call : Recaptures(c, id) /\ memories'[id] = Captured(c)]_vars

\* A retrieval through the index, the gets and the cap returns the best of
\* what a scan of the whole scope ranks (the list() branch of the same code),
\* and stops at the cap.
RetrieveExact ==
    [][\A c \in Call : pc[c] = "gets" /\ pc'[c] = "retrieved_events" /\ request[c].max >= 0 =>
          LET scan == {[id |-> id, memory |-> memories[id]] :
                          id \in {i \in MemoryId : Matches(i, request[c].scope)}}
          IN  /\ \E r \in Rankings(request[c].query, request[c].scope, scan) :
                    results'[c] = Capped(r, request[c].max)
              /\ Len(results'[c]) <= request[c].max]_vars

\* Where the log has the events that tell a validation state of id.
EffectsOn(id) ==
    {i \in DOMAIN log : log[i].kind \in {"captured", "validation_changed"} /\ log[i].target = id}

\* "captured", "stored" is all that the event of a capture says.
Told(e) == IF e.kind = "captured" THEN "unreviewed" ELSE e.outcome

\* Nobody captures a Memory under this id that carries another state.
OnlyUnreviewed(id) ==
    \A c \in Call : Asks(c, "capture") /\ Target(c) = id => request[c].validation = "unreviewed"

\* The last of them tells the state the store has; without any, the memory is
\* as an earlier session left it.
Aligned(id) ==
    memories[id] # NoMemory =>
        \/ /\ EffectsOn(id) = {}
           /\ id \in Known
           /\ memories[id] = InitialMemories[id]
        \/ \E i \in EffectsOn(id) : /\ \A j \in EffectsOn(id) : j <= i
                                    /\ Told(log[i]) = memories[id].validation

\* A call that changes id is among those.
ChangedIn(id, labels) ==
    \E c \in Call : pc[c] \in labels /\ Op(c) # "retrieve" /\ Target(c) = id

\* The log tells the validation state of every memory no call on which is
\* between its put and its event, raised or died, also after a client has put
\* the memory back to "unreviewed"; of a client's Memory in another state the
\* log does not tell that state.
LogAlignedUnlessFailed ==
    \A id \in MemoryId :
        OnlyUnreviewed(id) /\ ~ChangedIn(id, {"effect_event", "raised", "crashed"}) => Aligned(id)

-----------------------------------------------------------------------------
\* What these properties of retrievals and of calls one at a time rest on.

\* A retrieval gets each candidate once and keeps it, and has no results
\* before it has ranked.
Gathered(c) ==
    /\ found[c] # {} => pc[c] \in {"gets", "retrieved_events"} \cup Ended
    /\ results[c] # <<>> => pc[c] \in {"retrieved_events"} \cup Ended
    /\ \A h \in found[c] : h.id \notin ids[c]
    /\ \A h, k \in found[c] : h.id = k.id => h = k

\* The loop over the results has logged the first of them, one event each.
Audited(c) ==
    /\ Cardinality(RetrievedBy(c)) = logged[c]
    /\ logged[c] <= Len(results[c])
    /\ pc[c] = "done" /\ Asks(c, "retrieve") => logged[c] = Len(results[c])
    /\ \A i \in RetrievedBy(c) : log[i].target = results[c][Nth(c, i)].id
    /\ DistinctIds(c)

AuditInv == Inv /\ \A c \in Call : Gathered(c) /\ Audited(c)

OneAtATime == \A c \in Call : Alone(c) \/ pc[c] \in Ended \cup {"ready"}

\* What a call has read is still so when it decides and when it writes.
UpToDate(c) ==
    /\ pc[c] \in {"authorize", "transition"} /\ Op(c) = "validate" =>
          current[c] = memories[request[c].id]
    /\ pc[c] = "put" /\ Op(c) = "validate" =>
          /\ SameContent(memories[request[c].id], current[c])
          /\ CanTransition(memories[request[c].id].validation, current[c].validation)
    /\ pc[c] = "effect_event" => memories[Target(c)] = current[c]
    /\ pc[c] = "gets" =>
          /\ \A h \in found[c] : h.memory = memories[h.id]
          /\ {id \in MemoryId : IsCandidate(c, id)} = ids[c] \cup {h.id : h \in found[c]}

SerialInv ==
    AuditInv /\ OneAtATime /\ LogAlignedUnlessFailed /\ \A c \in Call : UpToDate(c)

-----------------------------------------------------------------------------
\* What documents and tests say of all calls.

\* "terminal `superseded`" (README.md:29-30, tests/test_lifecycle.py:15-17):
\* nothing leaves that state.
SupersededIsTerminal ==
    [][\A id \in MemoryId : memories[id] # NoMemory /\ memories[id].validation = "superseded" =>
          memories'[id].validation = "superseded"]_vars

\* Activity events "must be durable and aligned with memory storage"
\* (docs/decisions/0004-audit-durability-and-migration-policy.md:5): once no
\* call is between its put and its event, the log tells every state that its
\* events can tell.
LogAligned ==
    \A id \in MemoryId : OnlyUnreviewed(id) /\ ~ChangedIn(id, {"effect_event"}) => Aligned(id)

\* "`NeuroCore2Retrieve` returns at most `max_results` results"
\* (README.md:58-59).
ResultsBounded ==
    \A c \in Call : Asks(c, "retrieve") =>
        Len(results[c]) <= IF request[c].max > 0 THEN request[c].max ELSE 0

\* "every authorization decision (allow or deny) is appended to the activity
\* ledger" (neuro_core_2_service.py:8-10, 502-503).
DenialsAudited ==
    \A c \in Call : pc[c] = "denied" =>
        \E j \in DOMAIN log : /\ log[j].call = c
                              /\ log[j].kind = "authorization_decided"
                              /\ log[j].outcome = "deny"

=============================================================================
