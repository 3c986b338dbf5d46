---------------------------- MODULE AuditedMemory ----------------------------
(***************************************************************************)
(* What the service promises, without its steps: memories that calls       *)
(* store, show and revalidate, each in one instant and only in a scope the *)
(* call is permitted to act in by then.  A memory may be captured again    *)
(* under its id, over whatever is there; but text, weight and scope of     *)
(* what is stored or shown are together those of one version of it, and    *)
(* every use is on record.  Nothing is promised about the order of         *)
(* validation states and versions here, since overlapping calls keep none: *)
(* see LifecycleRespected and SupersededIsTerminal of NeuroCoreService.    *)
(***************************************************************************)
CONSTANTS Call,            \* calls; a call also names the memory it may create
          Known,           \* ids known from earlier sessions
          InitialMemories, \* the memories stored under them, or NoMemory
          Memory,          \* [text, weight, scope, validation]
          Scope,           \* scopes of memories
          ValidationState,
          NoMemory         \* the id is absent

VARIABLES memories, \* id -> Memory, or NoMemory
          may,      \* pairs of a call and a scope it may act in
          offered,  \* the memories that permitted calls capture, or have captured
          shown     \* pairs of a call and a memory recorded as shown to it

memoryVars == <<memories, may, offered, shown>>

Id == Call \cup Known

\* The memories that have a right to the id.
Versions(id) ==
    {o.memory : o \in {p \in offered : p.id = id}}
        \cup (IF id \in Known THEN {InitialMemories[id]} \ {NoMemory} ELSE {})

Init ==
    /\ memories = [id \in Id |-> IF id \in Known THEN InitialMemories[id] ELSE NoMemory]
    /\ may = {}
    /\ offered = {}
    /\ shown = {}

\* Call c is permitted to act in some more scopes, and to capture memories
\* there: by its allow event in the log or, without a caller_context, from the
\* beginning.
Permit(c) ==
    /\ may \subseteq may' /\ may' \subseteq may \cup ({c} \X Scope)
    /\ offered \subseteq offered'
    /\ \A o \in offered' \ offered : o.call = c /\ <<c, o.memory.scope>> \in may'
    /\ UNCHANGED <<memories, shown>>

Capture(c) ==
    /\ \E o \in offered : /\ o.call = c /\ o.id \in Id
                          /\ <<c, o.memory.scope>> \in may
                          /\ memories' = [memories EXCEPT ![o.id] = o.memory]
    /\ UNCHANGED <<may, offered, shown>>

\* The memory is on record as shown to call c before c returns it.
Show(c) ==
    /\ \E id \in Id : /\ memories[id] # NoMemory
                      /\ \E m \in Versions(id) : <<c, m.scope>> \in may
                      /\ shown' = shown \cup {<<c, id>>}
    /\ UNCHANGED <<memories, may, offered>>

\* The version call c has read, usually the stored one, gets a state.
Validate(c) ==
    /\ \E id \in Id, state \in ValidationState : \E m \in Versions(id) :
          /\ memories[id] # NoMemory /\ <<c, m.scope>> \in may
          /\ memories' = [memories EXCEPT ![id] = [m EXCEPT !.validation = state]]
    /\ UNCHANGED <<may, offered, shown>>

Next == \E c \in Call : Permit(c) \/ Capture(c) \/ Show(c) \/ Validate(c)

Spec == Init /\ [][Next]_memoryVars

=============================================================================
