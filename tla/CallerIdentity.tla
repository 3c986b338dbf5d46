---------------------------- MODULE CallerIdentity ----------------------------
(***************************************************************************)
(* Who a tool call acts for and which scope it may name                    *)
(* (caller_identity.py, and NeuroCoreService's own scope checks).  The     *)
(* identity is derived from what the host assigned to the calling agent,   *)
(* never from the arguments; a requested scope can only match it.          *)
(***************************************************************************)
CONSTANTS Project,        \* project names
          AgentName,      \* agent names a host assigns
          NoProject,      \* no active project; also the project argument None
          NoAgent,        \* agent name None; also the agent argument None
          BlankAgent,     \* an agent argument that is empty or blank
          Sentinel,       \* 'agent:None' (AGENT_NONE_SENTINEL)
          DefaultProject, \* default_scope.project of the configuration
          AnyFactor       \* no configured_agent_factors restriction

ASSUME NamesAssumption ==
    /\ {NoAgent, BlankAgent, Sentinel} \cap AgentName = {}
    /\ Sentinel \notin {NoAgent, BlankAgent}
    /\ NoProject \notin Project
    /\ DefaultProject \in Project

\* What the host knows of the agent that calls a tool.
Host == [project : Project \cup {NoProject}, agent_name : AgentName \cup {NoAgent, BlankAgent}]

\* A scope as the arguments of a call name it.
Requested == [project : Project \cup {NoProject},
              agent   : AgentName \cup {NoAgent, BlankAgent, Sentinel}]

Unnamed == {NoAgent, BlankAgent}

ResolveAgentFactor(agent_name, configured) ==
    IF agent_name \in Unnamed \/ (configured # AnyFactor /\ agent_name \notin configured)
    THEN Sentinel ELSE agent_name

DeriveCallerIdentity(host, configured) ==
    [caller_project  |-> IF host.project = NoProject THEN DefaultProject ELSE host.project,
     identity_source |-> IF host.project = NoProject THEN "default-scope-fallback"
                                                     ELSE "active-project",
     agent_name      |-> host.agent_name,
     agent_factor    |-> ResolveAgentFactor(host.agent_name, configured)]

RequestedAgentFactor(agent) == IF agent \in Unnamed THEN Sentinel ELSE agent

\* Mutant: the project alone binds.
BindsProject(identity, scope) == identity.caller_project = scope.project

\* scope_binding_denial(identity, project, agent) is None.
Binds(identity, scope) ==
    /\ identity.caller_project = scope.project
    /\ \/ RequestedAgentFactor(scope.agent) = identity.agent_factor
       \/ identity.agent_name \notin Unnamed /\ scope.agent = identity.agent_name

\* The identity the tools derive: they configure no agent factors.
ToolIdentity(host) == DeriveCallerIdentity(host, AnyFactor)

=============================================================================
