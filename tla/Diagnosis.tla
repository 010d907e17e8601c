------------------------------ MODULE Diagnosis ------------------------------
(***************************************************************************)
(* BoundedHttpProbe and its two callers: the DiagnosticWorker              *)
(* (src/src/core/diagnostic/index.ts), which reads git, an HTTP origin and *)
(* the health of the service for an authorized user, and the YarTrader     *)
(* adapter (src/src/core/tools/yartrader.ts), which reads from or changes  *)
(* a remote service.  One call, against a network and a server that may do *)
(* anything: redirect without end, answer late, break off or stay silent.  *)
(* A timeout or an empty answer is reported as a failure although the      *)
(* server may have carried the request out.                                *)
(* Policy rules and allowlists do not change while the program runs.       *)
(***************************************************************************)
EXTENDS Naturals

CONSTANTS
    Origin,   \* HTTP origins
    Inner,    \* those whose hostname is private as it stands
    Covers,   \* per origin: those that its entry on an allowlist also covers
    Timeout   \* timeoutMs of the probe

ASSUME DiagnosisAssumption ==
    /\ Inner \subseteq Origin
    /\ Covers \in [Origin -> SUBSET Origin] /\ \A o \in Origin : o \in Covers[o]
    /\ Timeout \in Nat \ {0}

MaxRedirects == 5

Tool == {"git", "http", "health"}

VARIABLES
    kind,        \* who calls: the worker, or the adapter for a read or a change
    items,       \* the tools the worker's intent resolves to
    safe,        \* tools whose policy rule is SAFE
    listed,      \* origins of the allowlist
    anyOrigin,   \* "*" is on it
    pc,          \* where the caller is
    report,      \* the worker's item per tool
    result,      \* what the caller returned
    net,         \* where the probe is
    at,          \* the origin it visits
    redirects,   \* redirectCount
    left,        \* time left until the deadline
    code,        \* class of the response whose body is read
    probe,       \* what the probe returned
    ran,         \* history: tools the worker has begun
    carried,     \* history: redirect levels at which the request was carried out
    connections, \* history: requests sent
    elapsed,     \* history: time since the probe began
    audited      \* history: the completion is recorded

inputs == <<kind, items, safe, listed, anyOrigin>>
probeVars == <<net, at, redirects, left, code, probe, carried, connections, elapsed>>
vars == <<inputs, pc, report, result, probeVars, ran, audited>>
-----------------------------------------------------------------------------
TypeOK ==
    /\ kind \in {"worker", "read", "change"}
    /\ items \subseteq Tool /\ safe \subseteq Tool
    /\ listed \subseteq Origin /\ anyOrigin \in BOOLEAN
    /\ pc \in {"start", "denial", "git", "http", "probing", "health", "audit", "ended"}
    /\ report \in [Tool -> {"none", "OK", "FAIL", "UNAVAILABLE"}]
    /\ result \in {"none", "denied", "rejected", "failed", "success"}
    /\ net \in {"off", "dns", "sent", "body"}
    /\ redirects \in 0..(MaxRedirects - 1)
    /\ left \in 0..Timeout /\ elapsed \in 0..Timeout
    /\ code \in {"ok", "refused", "error"}
    /\ probe \in {"none", "denied", "timeout", "failed", "empty", "ok", "refused", "error"}
    /\ ran \subseteq Tool
    /\ carried \subseteq 0..(MaxRedirects - 1)
    /\ connections \in 0..MaxRedirects
    /\ audited \in BOOLEAN

Init ==
    /\ kind \in {"worker", "read", "change"}
    /\ items \in (IF kind = "worker" THEN {Tool, {"git"}} ELSE {Tool})
    /\ safe \in (IF kind = "worker" THEN SUBSET Tool ELSE {Tool})
    /\ listed \in SUBSET Origin /\ anyOrigin \in BOOLEAN
    /\ pc = "start"
    /\ report = [t \in Tool |-> "none"]
    /\ result = "none"
    /\ net = "off" /\ at \in {CHOOSE o \in Origin : TRUE}
    /\ redirects = 0 /\ left = Timeout /\ code = "ok" /\ probe = "none"
    /\ ran = {} /\ carried = {} /\ connections = 0 /\ elapsed = 0
    /\ audited = FALSE
-----------------------------------------------------------------------------
(* BoundedHttpProbe.request *)

\* The allowlist, which a redirect passes only by name.
Allowed(o) == anyOrigin \/ o \in listed

\* The probe returns.
Settle(outcome) ==
    /\ net' = "off" /\ probe' = outcome
    /\ UNCHANGED <<at, redirects, left, code, connections>>

\* The head of request: its depth, its deadline, the origin.
Visit(o, n) ==
    IF n < MaxRedirects /\ left > 0 /\ Allowed(o)
    THEN /\ net' = "dns" /\ at' = o /\ redirects' = n
         /\ UNCHANGED <<left, code, probe, connections>>
    ELSE Settle(IF n < MaxRedirects /\ left = 0 THEN "timeout" ELSE "denied")

\* isExplicitInternalAllowed compares hostnames: whatever the scheme, and, when
\* the entry names no port, whatever the port.
Exempt(o) == \E l \in listed : o \in Covers[l]

\* The lookup has no deadline of its own.  When it answers, a private hostname or
\* address must be exempt; any name may have a private address.  Meanwhile the
\* signal may have been aborted.  fetch looks the name up again, so that nothing
\* is said of the address it connects to.
Resolve ==
    /\ net = "dns"
    /\ \/ Settle("failed")
       \/ ~Exempt(at) /\ Settle("denied")
       \/ (at \in Inner => Exempt(at)) /\ left = 0 /\ Settle("timeout")
       \/ /\ (at \in Inner => Exempt(at)) /\ left > 0
          /\ net' = "sent"
          /\ connections' = connections + 1
          /\ UNCHANGED <<at, redirects, left, code, probe>>
    /\ UNCHANGED <<inputs, pc, report, result, carried, elapsed, ran, audited>>

\* The server does what it is asked for.
CarryOut ==
    /\ net = "sent"
    /\ carried' = carried \cup {redirects}
    /\ UNCHANGED <<inputs, pc, report, result, net, at, redirects, left, code, probe,
                   connections, elapsed, ran, audited>>

\* The head of a response: a 2xx is an answer to what was carried out.
Respond(c) ==
    /\ net = "sent"
    /\ c = "ok" => redirects \in carried
    /\ net' = "body" /\ code' = c
    /\ UNCHANGED <<inputs, pc, report, result, at, redirects, left, probe, carried,
                   connections, elapsed, ran, audited>>

\* Mutant: every redirect gets a deadline of its own.
RedirectFreshDeadline(o) ==
    /\ net = "sent"
    /\ IF o \in listed
       THEN IF redirects + 1 < MaxRedirects
            THEN /\ net' = "dns" /\ at' = o /\ redirects' = redirects + 1 /\ left' = Timeout
                 /\ UNCHANGED <<code, probe, connections>>
            ELSE Settle("denied")
       ELSE Settle("denied")
    /\ UNCHANGED <<inputs, pc, report, result, carried, elapsed, ran, audited>>

\* A redirect: its target must be listed by name, and is then requested in the
\* same way, with the same method and body, one level deeper.
Redirect(o) ==
    /\ net = "sent"
    /\ IF o \in listed THEN Visit(o, redirects + 1) ELSE Settle("denied")
    /\ UNCHANGED <<inputs, pc, report, result, carried, elapsed, ran, audited>>

\* A redirect without a Location, or a connection that breaks.
Break ==
    /\ \/ net = "sent" /\ Settle("denied")
       \/ net \in {"sent", "body"} /\ Settle("failed")
    /\ UNCHANGED <<inputs, pc, report, result, carried, elapsed, ran, audited>>

\* The body is read to its end or to maxResponseBytes; it may be empty.
BodyEnds ==
    /\ net = "body"
    /\ \E outcome \in {code} \cup (IF code = "ok" THEN {"empty"} ELSE {}) : Settle(outcome)
    /\ UNCHANGED <<inputs, pc, report, result, carried, elapsed, ran, audited>>

\* Mutant: the body is read without the signal.
AbortHeadOnly ==
    /\ net = "sent" /\ left = 0
    /\ Settle("timeout")
    /\ UNCHANGED <<inputs, pc, report, result, carried, elapsed, ran, audited>>

\* The timer aborts the signal of the request and of its body.
Abort ==
    /\ net \in {"sent", "body"} /\ left = 0
    /\ Settle("timeout")
    /\ UNCHANGED <<inputs, pc, report, result, carried, elapsed, ran, audited>>

Tick ==
    /\ pc = "probing" /\ net # "off" /\ left > 0
    /\ left' = left - 1 /\ elapsed' = elapsed + 1
    /\ UNCHANGED <<inputs, pc, report, result, net, at, redirects, code, probe, carried,
                   connections, ran, audited>>
-----------------------------------------------------------------------------
(* DiagnosticWorker.executeDiagnostics *)

Say(t, s) == report' = [report EXCEPT ![t] = s]

\* Stages 1 to 8: the session, the user, the membership, the workspace, its
\* root and the intent are in order and the rule of the git action is SAFE; or
\* the denial is recorded.
Authorize ==
    /\ kind = "worker" /\ pc = "start"
    /\ \/ pc' = "denial" /\ UNCHANGED ran
       \/ "git" \in safe /\ pc' = "git" /\ ran' = {"git"}
    /\ UNCHANGED <<inputs, report, result, probeVars, audited>>

\* auditDenial swallows the error of the audit.
Deny ==
    /\ pc = "denial"
    /\ pc' = "ended" /\ result' = "denied"
    /\ UNCHANGED <<inputs, report, probeVars, ran, audited>>

GitAnswers ==
    /\ pc = "git"
    /\ \E s \in {"OK", "FAIL"} : Say("git", s)
    /\ pc' = IF "http" \in items THEN "http" ELSE "audit"
    /\ UNCHANGED <<inputs, result, probeVars, ran, audited>>

\* Without a SAFE rule the item fails, without an origin there is none.
HttpSkipped ==
    /\ pc = "http"
    /\ \/ "http" \notin safe /\ Say("http", "FAIL")
       \/ "http" \in safe /\ listed = {} /\ ~anyOrigin /\ UNCHANGED report
    /\ pc' = "health"
    /\ UNCHANGED <<inputs, result, probeVars, ran, audited>>

\* A target for a workspace without a list: the first element of the list is
\* read before the try.
HttpThrows ==
    /\ pc = "http"
    /\ "http" \in safe /\ listed = {} /\ ~anyOrigin
    /\ pc' = "ended" /\ result' = "rejected"
    /\ UNCHANGED <<inputs, report, probeVars, ran, audited>>

\* The target of the call, or the first origin of the list.
HttpProbe(o) ==
    /\ pc = "http" /\ "http" \in safe
    /\ ran' = ran \cup {"http"}
    /\ pc' = "probing"
    /\ Visit(o, 0)
    /\ UNCHANGED <<inputs, report, result, carried, elapsed, audited>>

\* Any 2xx is good.
HttpAnswers ==
    /\ kind = "worker" /\ pc = "probing" /\ net = "off"
    /\ Say("http", IF probe \in {"ok", "empty"} THEN "OK" ELSE "FAIL")
    /\ pc' = "health"
    /\ UNCHANGED <<inputs, result, probeVars, ran, audited>>

\* There may be no provider, and it may throw.
Health ==
    /\ pc = "health"
    /\ \/ "health" \notin safe /\ Say("health", "FAIL") /\ UNCHANGED ran
       \/ "health" \in safe /\ Say("health", "UNAVAILABLE") /\ UNCHANGED ran
       \/ /\ "health" \in safe /\ \E s \in {"OK", "FAIL"} : Say("health", s)
          /\ ran' = ran \cup {"health"}
    /\ pc' = "audit"
    /\ UNCHANGED <<inputs, result, probeVars, audited>>

\* Mutant: the completion is recorded as well as it can be.
CompleteBestEffort ==
    /\ pc = "audit"
    /\ pc' = "ended"
    /\ \E recorded \in BOOLEAN : audited' = recorded /\ result' = "success"
    /\ UNCHANGED <<inputs, report, probeVars, ran>>

\* Stage 11: an audit that fails rejects the call, whose tools have run.
Complete ==
    /\ pc = "audit"
    /\ pc' = "ended"
    /\ \E recorded \in BOOLEAN :
          audited' = recorded /\ result' = IF recorded THEN "success" ELSE "rejected"
    /\ UNCHANGED <<inputs, report, probeVars, ran>>
-----------------------------------------------------------------------------
(* YarTraderTool.execute *)

\* A forbidden action, no secret, or a destination that is not listed; a target
\* or an entry that is no URL throws.
AdapterRefuses ==
    /\ kind # "worker" /\ pc = "start"
    /\ pc' = "ended" /\ result' \in {"failed", "rejected"}
    /\ UNCHANGED <<inputs, report, probeVars, ran, audited>>

\* The adapter compares hosts, and leaves it to the probe to compare schemes.
AdapterProbes(o) ==
    /\ kind # "worker" /\ pc = "start"
    /\ Allowed(o) \/ Exempt(o)
    /\ pc' = "probing"
    /\ Visit(o, 0)
    /\ UNCHANGED <<inputs, report, result, carried, elapsed, ran, audited>>

\* An empty answer is taken for a failure.
AdapterAnswers ==
    /\ kind # "worker" /\ pc = "probing" /\ net = "off"
    /\ pc' = "ended" /\ result' = IF probe = "ok" THEN "success" ELSE "failed"
    /\ UNCHANGED <<inputs, report, probeVars, ran, audited>>
-----------------------------------------------------------------------------
\* What the callers and the probe do without waiting for the network.
Proceed ==
    \/ Authorize \/ Deny \/ GitAnswers
    \/ HttpSkipped \/ HttpThrows \/ \E o \in Origin : HttpProbe(o)
    \/ HttpAnswers \/ Health \/ Complete
    \/ AdapterRefuses \/ (\E o \in Origin : AdapterProbes(o)) \/ AdapterAnswers
    \/ Abort

Network ==
    \/ Resolve \/ CarryOut
    \/ \E c \in {"ok", "refused", "error"} : Respond(c)
    \/ \E o \in Origin : Redirect(o)
    \/ Break \/ BodyEnds

Next == Proceed \/ Network \/ Tick

Spec == Init /\ [][Next]_vars

\* Git and the audit answer and time passes; the network owes nothing.
Fairness == WF_vars(Proceed) /\ WF_vars(Tick)

FairSpec == Spec /\ Fairness
-----------------------------------------------------------------------------
(* Properties. *)

\* Over any chain of redirects a request is sent only before the deadline of
\* the first one, at most five times, and to an origin that is on the list by
\* name, or, under "*", once to any other, whose hostname is then not private
\* unless the list has an entry for that hostname.  (To which address the name
\* leads when fetch looks it up is not in the hands of this code.)
SendsWithinBounds ==
    [][connections' # connections =>
          /\ elapsed < Timeout
          /\ connections' <= MaxRedirects
          /\ \/ at \in listed
             \/ anyOrigin /\ connections = 0 /\ (at \in Inner => Exempt(at))]_vars

\* A success is one: the remote service that answered has carried the request
\* out; a diagnosis that succeeds is on record, and one that is denied has
\* touched nothing.
AnswerIsTrue ==
    /\ result = "success" => IF kind = "worker" THEN audited ELSE redirects \in carried
    /\ result = "denied" => ran = {} /\ connections = 0

\* Whatever the server does, or does not, the call is answered; only a name
\* lookup that never answers can keep it.
CallEnds == []<>(pc = "ended" \/ net = "dns")
=============================================================================
