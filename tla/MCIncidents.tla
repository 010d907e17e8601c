----------------------------- MODULE MCIncidents -----------------------------
(* A small instance of Incidents for TLC; the cfg file gives the sizes. *)
EXTENDS Incidents, TLC

CONSTANTS t, a, own, other

MCToolOf == a :> t
MCDeclared == t :> "SAFE"

Env(healthy, risk, bound, allowed, capabilities) ==
    [healthy |-> healthy, riskLevel |-> risk, boundTo |-> bound,
     allowed |-> allowed, capabilities |-> capabilities]

Good == [workspace |-> own, environment |-> {Env(TRUE, "SAFE", {other}, {own}, {t})},
         allowedTools |-> {{t}}, registered |-> {t}, toolScopes |-> {{t}}]

\* All in order; refused by the decision; refused by the gate alone.
MCSites ==
    {Good,
     [Good EXCEPT !.environment = {Env(TRUE, "SAFE", {other}, {}, {})}],
     [Good EXCEPT !.allowedTools = {}]}
=============================================================================
