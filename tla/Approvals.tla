------------------------------ MODULE Approvals ------------------------------
(***************************************************************************)
(* ApprovalManager (src/src/core/policy/index.ts): single-use approval     *)
(* tokens, one sqlite row per fingerprint.  Several managers (processes)   *)
(* may open the same database file.  JavaScript runs a call without        *)
(* interruption inside its process, but grantApproval and denyApproval     *)
(* are a SELECT followed by an INSERT OR REPLACE with no transaction, so   *)
(* the statements of two processes interleave, and a process can stop      *)
(* between two of them.  Each action below is one SQL statement together   *)
(* with the code up to the next one.                                       *)
(***************************************************************************)
EXTENDS Naturals

CONSTANTS
    Manager,      \* processes holding an ApprovalManager on one database
    Fingerprint,  \* approval keys (hash of tool, action, params, scope)
    TTL,          \* the ttlMs values callers pass to requestApproval
    MaxClock,     \* bound on the clock
    MaxRequests   \* bound on the requests made per fingerprint

ASSUME ApprovalsAssumption ==
    /\ Fingerprint # {}
    /\ TTL \subseteq Nat
    /\ MaxClock \in Nat
    /\ MaxRequests \in Nat

VARIABLES
    clock,      \* Date.now(), shared by all processes of the host
    row,        \* the approvals table
    pc,         \* per manager: down | idle | expire | decide | rehydrate
    call,       \* the method whose SELECT is being acted on
    arg,        \* its fingerprint
    seen,       \* the row as that SELECT returned it
    todo,       \* rows the constructor still has to mark EXPIRED
    requested,  \* history: requests persisted per fingerprint
    granted,    \* history: grantApproval calls that returned true
    consumed,   \* history: consumeApproval calls that returned valid
    lost        \* history: grants written over a row that had changed since it was read

mgrVars == <<pc, call, arg, seen, todo>>
history == <<requested, granted, consumed, lost>>
vars == <<clock, row, mgrVars, history>>
-----------------------------------------------------------------------------
Status == {"PENDING", "APPROVED", "DENIED", "CONSUMED", "EXPIRED"}

\* A fingerprint with no row has status NONE; rows are never deleted.
Row == [status : Status \cup {"NONE"}, expires : Nat]
NoRow == [status |-> "NONE", expires |-> 0]

Lapsed(r) == clock > r.expires /\ r.status = "PENDING"

TypeOK ==
    /\ clock \in Nat
    /\ row \in [Fingerprint -> Row]
    /\ pc \in [Manager -> {"down", "idle", "expire", "decide", "rehydrate"}]
    /\ call \in [Manager -> {"grant", "deny", "get"}]
    /\ arg \in [Manager -> Fingerprint]
    /\ seen \in [Manager -> Row]
    /\ todo \in [Manager -> SUBSET Fingerprint]
    /\ requested \in [Fingerprint -> Nat]
    /\ granted \in [Fingerprint -> Nat]
    /\ consumed \in [Fingerprint -> Nat]
    /\ lost \in [Fingerprint -> Nat]

Init ==
    /\ clock = 0
    /\ row = [f \in Fingerprint |-> NoRow]
    /\ pc = [m \in Manager |-> "idle"]
    /\ call = [m \in Manager |-> "get"]
    /\ arg = [m \in Manager |-> CHOOSE f \in Fingerprint : TRUE]
    /\ seen = [m \in Manager |-> NoRow]
    /\ todo = [m \in Manager |-> {}]
    /\ requested = [f \in Fingerprint |-> 0]
    /\ granted = [f \in Fingerprint |-> 0]
    /\ consumed = [f \in Fingerprint |-> 0]
    /\ lost = [f \in Fingerprint |-> 0]
-----------------------------------------------------------------------------
SetRow(f, status, expires) ==
    row' = [row EXCEPT ![f] = [status |-> status, expires |-> expires]]

Goto(m, l) == pc' = [pc EXCEPT ![m] = l]

\* requestApproval: INSERT OR REPLACE whatever the row was.
RequestApproval(m, f, ttl) ==
    /\ pc[m] = "idle"
    /\ requested[f] < MaxRequests
    /\ SetRow(f, "PENDING", clock + ttl)
    /\ requested' = [requested EXCEPT ![f] = @ + 1]
    /\ UNCHANGED <<clock, mgrVars, granted, consumed, lost>>

\* fetchRecord's SELECT, on behalf of grantApproval, denyApproval, get or the
\* failure branch of consumeApproval (which is a get).  A missing row returns
\* at once, and a get of a row that has not lapsed changes nothing.
FetchRecord(m, f, method) ==
    /\ pc[m] = "idle"
    /\ row[f].status # "NONE"
    /\ method = "get" => Lapsed(row[f])
    /\ Goto(m, IF Lapsed(row[f]) THEN "expire" ELSE "decide")
    /\ call' = [call EXCEPT ![m] = method]
    /\ arg' = [arg EXCEPT ![m] = f]
    /\ seen' = [seen EXCEPT ![m] = row[f]]
    /\ UNCHANGED <<clock, row, todo, history>>

\* fetchRecord's UPDATE of a lapsed PENDING row: by fingerprint only.
ExpireFetched(m) ==
    /\ pc[m] = "expire"
    /\ SetRow(arg[m], "EXPIRED", row[arg[m]].expires)
    /\ Goto(m, IF call[m] = "get" THEN "idle" ELSE "decide")
    /\ seen' = [seen EXCEPT ![m].status = "EXPIRED"]
    /\ UNCHANGED <<clock, call, arg, todo, history>>

\* grantApproval, the answer came too late: the row becomes EXPIRED whatever
\* status was read.
GrantTooLate(m) ==
    /\ pc[m] = "decide" /\ call[m] = "grant"
    /\ clock > seen[m].expires
    /\ SetRow(arg[m], "EXPIRED", seen[m].expires)
    /\ Goto(m, "idle")
    /\ UNCHANGED <<clock, call, arg, seen, todo, history>>

\* grantApproval of something that is not PENDING returns false.
GrantRefused(m) ==
    /\ pc[m] = "decide" /\ call[m] = "grant"
    /\ clock <= seen[m].expires
    /\ seen[m].status # "PENDING"
    /\ Goto(m, "idle")
    /\ UNCHANGED <<clock, row, call, arg, seen, todo, history>>

\* The record that is written back is no longer the one in the table.
CountLost(m) ==
    lost' = [lost EXCEPT ![arg[m]] = IF row[arg[m]] = seen[m] THEN @ ELSE @ + 1]

\* Mutant of grantApproval: without the test of PENDING.
GrantAnyStatus(m) ==
    /\ pc[m] = "decide" /\ call[m] = "grant"
    /\ clock <= seen[m].expires
    /\ SetRow(arg[m], "APPROVED", seen[m].expires)
    /\ granted' = [granted EXCEPT ![arg[m]] = @ + 1]
    /\ CountLost(m)
    /\ Goto(m, "idle")
    /\ UNCHANGED <<clock, call, arg, seen, todo, requested, consumed>>

\* grantApproval writes back the record it read, with status APPROVED.
GrantApproval(m) ==
    /\ pc[m] = "decide" /\ call[m] = "grant"
    /\ clock <= seen[m].expires
    /\ seen[m].status = "PENDING"
    /\ SetRow(arg[m], "APPROVED", seen[m].expires)
    /\ granted' = [granted EXCEPT ![arg[m]] = @ + 1]
    /\ CountLost(m)
    /\ Goto(m, "idle")
    /\ UNCHANGED <<clock, call, arg, seen, todo, requested, consumed>>

\* denyApproval writes back the record it read, with status DENIED.
DenyApproval(m) ==
    /\ pc[m] = "decide" /\ call[m] = "deny"
    /\ SetRow(arg[m], "DENIED", seen[m].expires)
    /\ Goto(m, "idle")
    /\ UNCHANGED <<clock, call, arg, seen, todo, history>>

\* Mutants of consumeApproval: the row stays APPROVED; an expiry test that is
\* off by one.
ConsumeKeepsToken(m, f) ==
    /\ pc[m] = "idle"
    /\ row[f].status = "APPROVED"
    /\ row[f].expires > clock
    /\ consumed' = [consumed EXCEPT ![f] = @ + 1]
    /\ UNCHANGED <<clock, row, mgrVars, requested, granted, lost>>

ConsumeAtExpiry(m, f) ==
    /\ pc[m] = "idle"
    /\ row[f].status = "APPROVED"
    /\ row[f].expires >= clock
    /\ SetRow(f, "CONSUMED", row[f].expires)
    /\ consumed' = [consumed EXCEPT ![f] = @ + 1]
    /\ UNCHANGED <<clock, mgrVars, requested, granted, lost>>

\* consumeApproval: one conditional UPDATE.
ConsumeApproval(m, f) ==
    /\ pc[m] = "idle"
    /\ row[f].status = "APPROVED"
    /\ row[f].expires > clock
    /\ SetRow(f, "CONSUMED", row[f].expires)
    /\ consumed' = [consumed EXCEPT ![f] = @ + 1]
    /\ UNCHANGED <<clock, mgrVars, requested, granted, lost>>

\* close(), or the process stops between two statements.
Stop(m) ==
    /\ pc[m] # "down"
    /\ Goto(m, "down")
    /\ UNCHANGED <<clock, row, call, arg, seen, todo, history>>

\* The constructor: rehydrate reads the whole table, then marks the lapsed
\* rows one UPDATE at a time.
Rehydrate(m) ==
    /\ pc[m] = "down"
    /\ todo' = [todo EXCEPT ![m] = {f \in Fingerprint : Lapsed(row[f])}]
    /\ Goto(m, IF todo'[m] = {} THEN "idle" ELSE "rehydrate")
    /\ UNCHANGED <<clock, row, call, arg, seen, history>>

RehydrateRow(m, f) ==
    /\ pc[m] = "rehydrate"
    /\ f \in todo[m]
    /\ SetRow(f, "EXPIRED", row[f].expires)
    /\ todo' = [todo EXCEPT ![m] = @ \ {f}]
    /\ Goto(m, IF todo[m] = {f} THEN "idle" ELSE "rehydrate")
    /\ UNCHANGED <<clock, call, arg, seen, history>>

Tick ==
    /\ clock < MaxClock
    /\ clock' = clock + 1
    /\ UNCHANGED <<row, mgrVars, history>>

ManagerStep(m) ==
    \/ \E f \in Fingerprint, ttl \in TTL : RequestApproval(m, f, ttl)
    \/ \E f \in Fingerprint, method \in {"grant", "deny", "get"} : FetchRecord(m, f, method)
    \/ ExpireFetched(m)
    \/ GrantTooLate(m)
    \/ GrantRefused(m)
    \/ GrantApproval(m)
    \/ DenyApproval(m)
    \/ \E f \in Fingerprint : ConsumeApproval(m, f)
    \/ Stop(m)
    \/ Rehydrate(m)
    \/ \E f \in Fingerprint : RehydrateRow(m, f)

Next == Tick \/ \E m \in Manager : ManagerStep(m)

Spec == Init /\ [][Next]_vars
-----------------------------------------------------------------------------
(* What the managers promise together: SingleUseTokens.  A row is spendable
   while it is APPROVED and not yet at its expiry. *)

Spendable == {f \in Fingerprint : row[f].status = "APPROVED" /\ row[f].expires > clock}

Tokens == INSTANCE SingleUseTokens WITH
              Key <- Fingerprint, spendable <- Spendable,
              issued <- granted, spent <- consumed

\* However many managers share the database and wherever they stop, the table
\* behaves as single-use tokens: a consumption needs a token that is spendable
\* at that instant and uses it up, and only a grant makes one spendable.
ImplementsTokens == Tokens!Spec
-----------------------------------------------------------------------------
(* Properties. *)

\* Every successful consumption is paid for by a grant of its own, and a token
\* still spendable by one more, whatever the managers on the database do in
\* between: the tool gate of SecureToolEcosystem.execute never runs twice on
\* one answer of the owner.
EveryUseGranted == Tokens!NeverOverspent

\* One request is consumed at most once (the "single-use token" of
\* consumeApproval), but for the grants of one process that wrote back a record
\* which another process had changed, or spent, since it was read.
OneUsePerRequest ==
    \A f \in Fingerprint : consumed[f] <= requested[f] + lost[f]
=============================================================================
