---------------------------- MODULE MCActivityAudit ----------------------------
(***************************************************************************)
(* Small instances of ActivityAudit for TLC: the events of the calls of    *)
(* one agent, a denied call without a project, and a session, audited with *)
(* every filter and with limits below, at and above the cap.               *)
(***************************************************************************)
EXTENDS ActivityAudit, TLC

CONSTANTS ann, null,        \* a scope; one whose project is None
          m, authorization  \* a memory; what a decision on no memory names

Decision(scope, name, evidence) ==
    [kind |-> "authorization_decided", scope |-> scope, target |-> name,
     evidence |-> {"caller"} \cup evidence]
Effect(kind) == [kind |-> kind, scope |-> ann, target |-> m, evidence |-> {"source"}]

CapturePlan  == <<Decision(ann, authorization, {}), Effect("captured")>>
ValidatePlan == <<Decision(ann, m, {}), Effect("validation_changed")>>
DeniedPlan   == <<Decision(null, authorization, {"denial_reason"})>>
DeniedAnn    == <<Decision(ann, authorization, {"denial_reason"})>>
SessionPlan  == <<Effect("session_initialized")>>

MCPlans == {CapturePlan, ValidatePlan, DeniedPlan, SessionPlan}
MCDenials == {DeniedAnn, CapturePlan}

Ask(kind, name, dated, limit) ==
    [scope |-> ann, kind |-> kind, target |-> name, dated |-> dated, limit |-> limit]

MCQueries ==
    {Ask(Anything, Anything, FALSE, limit) : limit \in {1, MaxLimit, MaxLimit + 1, -1}}
    \cup {Ask("captured", Anything, FALSE, MaxLimit), Ask(Anything, m, FALSE, 2),
          Ask(Anything, Anything, TRUE, MaxLimit),
          [Ask(Anything, Anything, FALSE, MaxLimit) EXCEPT !.scope = null]}

Symmetry == Permutations(Writer)

=============================================================================
