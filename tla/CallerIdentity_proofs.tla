------------------------- MODULE CallerIdentity_proofs -------------------------
(***************************************************************************)
(* What the scope binding separates, for every set of projects and agents. *)
(***************************************************************************)
EXTENDS CallerIdentity, TLAPS

(***************************************************************************)
(* A scope separates the callers of the tools: whatever scope two callers  *)
(* may both name, they have the same project and the same agent factor     *)
(* (scope_binding_denial on the identities derive_caller_identity makes).  *)
(***************************************************************************)
THEOREM ScopeSeparatesCallers ==
    ASSUME NEW h1 \in Host, NEW h2 \in Host, NEW scope \in Requested,
           Binds(ToolIdentity(h1), scope), Binds(ToolIdentity(h2), scope)
    PROVE  /\ ToolIdentity(h1).caller_project = ToolIdentity(h2).caller_project
           /\ ToolIdentity(h1).agent_factor = ToolIdentity(h2).agent_factor
<1>1. ASSUME NEW h \in Host, Binds(ToolIdentity(h), scope)
      PROVE  /\ ToolIdentity(h).caller_project = scope.project
             /\ ToolIdentity(h).agent_factor = RequestedAgentFactor(scope.agent)
  BY <1>1, NamesAssumption
     DEF Binds, ToolIdentity, DeriveCallerIdentity, ResolveAgentFactor, RequestedAgentFactor,
         Host, Requested, Unnamed
<1>2. QED
  BY <1>1

(***************************************************************************)
(* With a configured set of agent factors, the scope of a configured agent *)
(* is bound by callers of that very name only; an agent outside the set    *)
(* reaches at most its own name and the scopes of the sentinel.            *)
(***************************************************************************)
THEOREM ConfiguredAgentsSeparated ==
    ASSUME NEW configured \in SUBSET AgentName, configured # AnyFactor,
           NEW h \in Host, NEW scope \in Requested, scope.agent \in configured,
           Binds(DeriveCallerIdentity(h, configured), scope)
    PROVE  h.agent_name = scope.agent
  BY NamesAssumption
     DEF Binds, DeriveCallerIdentity, ResolveAgentFactor, RequestedAgentFactor,
         Host, Requested, Unnamed

=============================================================================
