------------------------------ MODULE ToolGate ------------------------------
(***************************************************************************)
(* What decides whether a tool may run: PolicyEngine                       *)
(* (src/src/core/policy/index.ts), EnvironmentManager                      *)
(* (src/src/core/environment/index.ts), WorkspacePolicyManager             *)
(* (src/src/core/workspace/policy.ts), the decision of                     *)
(* ControlledAutonomyEngine (src/src/core/autonomy/index.ts) and the gates *)
(* of SecureToolEcosystem.execute (src/src/core/tools/index.ts).  All of   *)
(* it is set up by bootstrap and only read afterwards; the modules that    *)
(* use it add the approvals, which change.                                 *)
(***************************************************************************)
CONSTANTS
    Tool,        \* tool ids
    SubAction,   \* canonical actions "<tool>:<action>"
    ToolOf,      \* the tool of each
    Workspace,
    Declared     \* the safety level in each tool's metadata, or NoRule

Level == {"SAFE", "APPROVAL_REQUIRED", "BLOCKED"}
NoRule == "NONE"

\* The canonical action of a call: the tool itself when its parameters name
\* no action.
Action == Tool \cup SubAction

ToolFor(a) == IF a \in Tool THEN a ELSE ToolOf[a]

ASSUME ToolGateAssumption ==
    /\ Tool \cap SubAction = {}
    /\ ToolOf \in [SubAction -> Tool]
    /\ Declared \in [Tool -> Level \cup {NoRule}]

Rules == [Action -> Level \cup {NoRule}]

\* What EnvironmentManager holds about an environment; boundTo has at most one
\* member, and no capabilities stand for any.
EnvironmentConfig ==
    [healthy: BOOLEAN, riskLevel: Level, boundTo: SUBSET Workspace,
     allowed: SUBSET Workspace, capabilities: SUBSET Tool]

\* Where a call happens: the workspace, what is registered for its environment
\* and its workspace (at most one member each), whether the tool is in the
\* registry, and the tools of the agent selected for it, if there is one.
Site == [workspace: Workspace,
         environment: SUBSET EnvironmentConfig,
         allowedTools: SUBSET SUBSET Tool,
         registered: SUBSET Tool,
         toolScopes: SUBSET SUBSET Tool]
-----------------------------------------------------------------------------
\* validateEnvironmentAccess.
EnvironmentValid(site, tool) ==
    \E env \in site.environment :
        /\ env.healthy
        /\ env.riskLevel # "BLOCKED"
        /\ env.boundTo = {} \/ site.workspace \in env.boundTo \cup env.allowed
        /\ env.capabilities = {} \/ tool \in env.capabilities

\* validateToolAccess; an empty list, like "*", allows every tool.
WorkspaceAllows(site, tool) ==
    \E tools \in site.allowedTools : tools = {} \/ tool \in tools

\* isToolAuthorized, for the scope made from the selected agent.
InScope(site, tool) == \E tools \in site.toolScopes : tool \in tools

\* Mutant: an unknown sub-action falls back on the rule of its tool.
ResolveFallingBack(rules, a, declared) ==
    IF rules[a] # NoRule THEN rules[a]
    ELSE IF rules[ToolFor(a)] # NoRule THEN rules[ToolFor(a)]
    ELSE declared

\* resolveSafetyLevel.
ResolveSafetyLevel(rules, a, declared) ==
    IF rules[a] # NoRule THEN rules[a]
    ELSE IF a \in SubAction THEN NoRule
    ELSE declared

\* evaluate: what is unknown is blocked.
Evaluate(rules, a) ==
    LET level == ResolveSafetyLevel(rules, a, Declared[ToolFor(a)])
    IN  IF level = NoRule THEN "BLOCKED" ELSE level

\* evaluateAutonomyDecision: it does not look at the declared level or the
\* workspace policy, and what is unknown is SAFE.
Decision(site, rules, a, approved) ==
    LET rule == ResolveSafetyLevel(rules, a, NoRule)
    IN  IF ~EnvironmentValid(site, ToolFor(a)) \/ ~InScope(site, ToolFor(a)) THEN "BLOCKED"
        ELSE IF rule = "BLOCKED" THEN "BLOCKED"
        ELSE IF rule = "APPROVAL_REQUIRED" /\ ~approved THEN "APPROVAL_REQUIRED"
        ELSE "SAFE"

\* The gates of execute before the policy is asked.
GatesOpen(site, a) ==
    /\ InScope(site, ToolFor(a))
    /\ ToolFor(a) \in site.registered
    /\ EnvironmentValid(site, ToolFor(a))
    /\ WorkspaceAllows(site, ToolFor(a))
=============================================================================
