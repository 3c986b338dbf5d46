------------------------- MODULE MCNeuroCoreService -------------------------
(***************************************************************************)
(* Small instances of NeuroCoreService for TLC: two agents of project pa,  *)
(* a nameless agent without a project, and what their calls ask for.       *)
(***************************************************************************)
EXTENDS NeuroCoreService, TLC

CONSTANTS pa, pd,        \* projects; pd is the configured default
          ann, bob,      \* agent names
          alpha, beta,   \* terms
          long, short,   \* texts: "alpha beta" and "beta"
          old,           \* a memory of an earlier session
          draft          \* the id of a Memory that is not stored

MCTokens == long :> {alpha, beta} @@ short :> {beta}

AnnScope  == [project |-> pa, agent |-> ann]
Shared    == [project |-> pd, agent |-> NoAgent]
Unscoped  == [project |-> NoProject, agent |-> NoAgent]

MCInitialMemories ==
    old :> [text |-> short, weight |-> 4, scope |-> AnnScope, validation |-> "unreviewed"]

\* ... and a Memory that a client has made and not captured yet.
MCWithDraft == MCInitialMemories @@ draft :> NoMemory

By(kind, p, a) == [kind |-> kind, project |-> p, agent_name |-> a]
AnnTool    == By("tool", pa, ann)
BobTool    == By("tool", pa, bob)
NobodyTool == By("tool", NoProject, BlankAgent)
NoContext  == By("none", NoProject, NoAgent)

Recapture(origin, scope, text, validation, id) ==
    [op |-> "capture", origin |-> origin, scope |-> scope, text |-> text, weight |-> 1,
     validation |-> validation, id |-> id]
Capture(origin, scope, text) == Recapture(origin, scope, text, "unreviewed", NewId)
Retrieve(origin, scope, query, max) ==
    [op |-> "retrieve", origin |-> origin, scope |-> scope, query |-> query, max |-> max]
Validate(origin, scope, id, target) ==
    [op |-> "validate", origin |-> origin, scope |-> scope, id |-> id, target |-> target]

\* Every kind of origin and operation, each bound and not bound.
MCAllRequests ==
    {Capture(AnnTool, AnnScope, long), Capture(NobodyTool, Shared, short),
     Recapture(By("identity", pa, bob), AnnScope, short, "unreviewed", old),
     Recapture(By("context", pa, ann), AnnScope, long, "validated", old),
     Retrieve(AnnTool, AnnScope, {alpha, beta}, 1), Retrieve(By("context", NoProject, ann), AnnScope, {beta}, 1),
     Retrieve(BobTool, AnnScope, {beta}, 1), Retrieve(NoContext, AnnScope, {beta}, -1),
     Validate(AnnTool, NoScope, old, "superseded"), Validate(BobTool, NoScope, old, "validated"),
     Validate(AnnTool, AnnScope, old, "validated"), Validate(NoContext, NoScope, old, "disputed")}
    \cup {Validate(agent, NoScope, id, "validated") : agent \in {AnnTool, NobodyTool}, id \in Call}
    \cup {Recapture(NoContext, Shared, short, "unreviewed", id) : id \in Call}

\* Of these, what three calls do to each other's memories.
MCOverlapping ==
    MCAllRequests \ ({Validate(NobodyTool, NoScope, id, "validated") : id \in Call}
                        \cup {Validate(AnnTool, AnnScope, old, "validated")})

\* Captures, retrievals of the scopes captured to, changes of every memory.
MCFewRequests ==
    {Capture(AnnTool, AnnScope, long), Capture(NobodyTool, Shared, short),
     Capture(NoContext, Unscoped, short),
     Recapture(NoContext, AnnScope, short, "unreviewed", old),
     Recapture(NoContext, AnnScope, long, "unreviewed", draft),
     Recapture(NoContext, Shared, long, "superseded", draft),
     Retrieve(AnnTool, AnnScope, {alpha, beta}, 1), Retrieve(NoContext, Unscoped, {beta}, 1),
     Validate(AnnTool, NoScope, old, "superseded"), Validate(NoContext, NoScope, old, "disputed")}
    \cup {Validate(AnnTool, NoScope, id, "validated") : id \in Call \cup {draft}}

\* Two agents' tools validate one memory.
MCValidations ==
    {Validate(AnnTool, NoScope, old, target) : target \in {"validated", "superseded"}}

\* Memories of one scope, and a negative cap.
MCNegativeCap ==
    {Capture(AnnTool, AnnScope, long), Retrieve(AnnTool, AnnScope, {beta}, -1)}

Symmetry == Permutations(Call)

=============================================================================
