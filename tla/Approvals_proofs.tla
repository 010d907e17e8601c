--------------------------- MODULE Approvals_proofs ---------------------------
(***************************************************************************)
(* Proofs about Approvals for any set of managers, fingerprints and TTLs.  *)
(***************************************************************************)
EXTENDS Approvals, TLAPS

USE ApprovalsAssumption

-----------------------------------------------------------------------------
(* Type correctness. *)

\* The table, the managers and the counters keep their types: no step of
\* ApprovalManager writes a status outside the five that fetchRecord accepts.
THEOREM TypeCorrect == Spec => []TypeOK
<1>1. Init => TypeOK
  BY DEF Init, TypeOK, Row, NoRow
<1>2. TypeOK /\ [Next]_vars => TypeOK'
  <2> SUFFICES ASSUME TypeOK, [Next]_vars
               PROVE  TypeOK'
    OBVIOUS
  <2> USE DEF TypeOK, Goto, mgrVars, history
  <2>1. ASSUME NEW m \in Manager, NEW f \in Fingerprint, NEW ttl \in TTL, RequestApproval(m, f, ttl)
        PROVE  TypeOK'
    BY <2>1 DEF RequestApproval, SetRow, Row, Status
  <2>2. ASSUME NEW m \in Manager, NEW f \in Fingerprint,
               NEW method \in {"grant", "deny", "get"}, FetchRecord(m, f, method)
        PROVE  TypeOK'
    BY <2>2 DEF FetchRecord, Row, Status
  <2>3. ASSUME NEW m \in Manager, ExpireFetched(m)
        PROVE  TypeOK'
    BY <2>3 DEF ExpireFetched, SetRow, Row, Status
  <2>4. ASSUME NEW m \in Manager, GrantTooLate(m)
        PROVE  TypeOK'
    BY <2>4 DEF GrantTooLate, SetRow, Row, Status
  <2>5. ASSUME NEW m \in Manager, GrantRefused(m)
        PROVE  TypeOK'
    BY <2>5 DEF GrantRefused, Row, Status
  <2>6. ASSUME NEW m \in Manager, GrantApproval(m)
        PROVE  TypeOK'
    BY <2>6 DEF GrantApproval, CountLost, SetRow, Row, Status
  <2>7. ASSUME NEW m \in Manager, DenyApproval(m)
        PROVE  TypeOK'
    BY <2>7 DEF DenyApproval, SetRow, Row, Status
  <2>8. ASSUME NEW m \in Manager, NEW f \in Fingerprint, ConsumeApproval(m, f)
        PROVE  TypeOK'
    BY <2>8 DEF ConsumeApproval, SetRow, Row, Status
  <2>9. ASSUME NEW m \in Manager, Stop(m)
        PROVE  TypeOK'
    BY <2>9 DEF Stop, Row, Status
  <2>10. ASSUME NEW m \in Manager, Rehydrate(m)
         PROVE  TypeOK'
    BY <2>10 DEF Rehydrate, Row, Status
  <2>11. ASSUME NEW m \in Manager, NEW f \in Fingerprint, RehydrateRow(m, f)
         PROVE  TypeOK'
    BY <2>11 DEF RehydrateRow, SetRow, Row, Status
  <2>12. CASE Tick
    BY <2>12 DEF Tick
  <2>13. CASE UNCHANGED vars
    BY <2>13 DEF vars
  <2>14. QED
    BY <2>1, <2>2, <2>3, <2>4, <2>5, <2>6, <2>7, <2>8, <2>9, <2>10, <2>11,
       <2>12, <2>13 DEF Next, ManagerStep
<1>3. QED
  BY <1>1, <1>2, PTL DEF Spec

-----------------------------------------------------------------------------
(* The managers implement single-use tokens. *)

LEMMA InitRefines == Init => Tokens!Init
  BY DEF Init, Tokens!Init, Spendable, NoRow

\* A step that marks the row of one fingerprint with a status that cannot be
\* spent only withdraws tokens.
LEMMA DeadRowWithdraws ==
  ASSUME TypeOK, NEW f \in Fingerprint, NEW status \in Status \ {"APPROVED"},
         NEW e \in Nat, SetRow(f, status, e),
         UNCHANGED <<clock, granted, consumed>>
  PROVE  Tokens!Withdraw
<1>1. ASSUME NEW g \in Fingerprint, row'[g].status = "APPROVED"
      PROVE  g # f /\ row'[g] = row[g]
  BY <1>1 DEF TypeOK, Row, Status, SetRow
<1>2. Spendable' \subseteq Spendable
  BY <1>1 DEF Spendable
<1>3. QED
  BY <1>2 DEF Tokens!Withdraw

\* Every step of the managers is a step of the abstract tokens or leaves them
\* alone.
LEMMA NextRefines == TypeOK /\ [Next]_vars => [Tokens!Next]_(Tokens!vars)
<1> SUFFICES ASSUME TypeOK, [Next]_vars
             PROVE  Tokens!Next \/ UNCHANGED Tokens!vars
  OBVIOUS
<1>a. \A m \in Manager : arg[m] \in Fingerprint /\ seen[m].expires \in Nat
  BY DEF TypeOK, Row
<1>b. \A f \in Fingerprint : row[f].expires \in Nat
  BY DEF TypeOK, Row
<1>1. ASSUME NEW m \in Manager, NEW f \in Fingerprint, NEW ttl \in TTL,
             RequestApproval(m, f, ttl)
      PROVE  Tokens!Withdraw
  <2>1. clock + ttl \in Nat
    BY DEF TypeOK
  <2>2. QED
    BY <1>1, <2>1, DeadRowWithdraws DEF RequestApproval, Status
<1>2. ASSUME NEW m \in Manager, NEW f \in Fingerprint,
             NEW method \in {"grant", "deny", "get"}, FetchRecord(m, f, method)
      PROVE  UNCHANGED Tokens!vars
  BY <1>2 DEF FetchRecord, history, Tokens!vars, Spendable
<1>3. ASSUME NEW m \in Manager, ExpireFetched(m)
      PROVE  Tokens!Withdraw
  BY <1>3, <1>a, <1>b, DeadRowWithdraws DEF ExpireFetched, history, Status
<1>4. ASSUME NEW m \in Manager, GrantTooLate(m)
      PROVE  Tokens!Withdraw
  BY <1>4, <1>a, DeadRowWithdraws DEF GrantTooLate, history, Status
<1>5. ASSUME NEW m \in Manager, GrantRefused(m)
      PROVE  UNCHANGED Tokens!vars
  BY <1>5 DEF GrantRefused, history, Tokens!vars, Spendable
<1>6. ASSUME NEW m \in Manager, GrantApproval(m)
      PROVE  Tokens!Issue(arg[m])
  <2>1. \A g \in Fingerprint : g # arg[m] => row'[g] = row[g]
    BY <1>6 DEF GrantApproval, TypeOK, SetRow
  <2>2. Spendable' \in {Spendable \cup {arg[m]}, Spendable \ {arg[m]}}
    <3>1. clock' = clock
      BY <1>6 DEF GrantApproval
    <3>2. CASE arg[m] \in Spendable'
      <4>1. Spendable' = Spendable \cup {arg[m]}
        BY <2>1, <3>1, <3>2, <1>a DEF Spendable
      <4>2. QED BY <4>1
    <3>3. CASE arg[m] \notin Spendable'
      <4>1. Spendable' = Spendable \ {arg[m]}
        BY <2>1, <3>1, <3>3, <1>a DEF Spendable
      <4>2. QED BY <4>1
    <3>4. QED BY <3>2, <3>3
  <2>3. QED
    BY <1>6, <2>2 DEF GrantApproval, Tokens!Issue
<1>7. ASSUME NEW m \in Manager, DenyApproval(m)
      PROVE  Tokens!Withdraw
  BY <1>7, <1>a, DeadRowWithdraws DEF DenyApproval, history, Status
<1>8. ASSUME NEW m \in Manager, NEW f \in Fingerprint, ConsumeApproval(m, f)
      PROVE  Tokens!Spend(f)
  <2>1. f \in Spendable
    BY <1>8 DEF ConsumeApproval, Spendable
  <2>2. \A g \in Fingerprint : g # f => row'[g] = row[g]
    BY <1>8 DEF ConsumeApproval, TypeOK, SetRow
  <2>3. row'[f].status = "CONSUMED" /\ clock' = clock
    BY <1>8 DEF ConsumeApproval, TypeOK, SetRow
  <2>4. Spendable' = Spendable \ {f}
    BY <2>2, <2>3 DEF Spendable
  <2>5. QED
    BY <1>8, <2>1, <2>4 DEF ConsumeApproval, Tokens!Spend
<1>9. ASSUME NEW m \in Manager, Stop(m)
      PROVE  UNCHANGED Tokens!vars
  BY <1>9 DEF Stop, history, Tokens!vars, Spendable
<1>10. ASSUME NEW m \in Manager, Rehydrate(m)
       PROVE  UNCHANGED Tokens!vars
  BY <1>10 DEF Rehydrate, history, Tokens!vars, Spendable
<1>11. ASSUME NEW m \in Manager, NEW f \in Fingerprint, RehydrateRow(m, f)
       PROVE  Tokens!Withdraw
  BY <1>11, <1>b, DeadRowWithdraws DEF RehydrateRow, history, Status
<1>12. CASE Tick
  <2>1. Spendable' \subseteq Spendable
    BY <1>12 DEF Tick, Spendable, TypeOK, Row
  <2>2. QED
    BY <1>12, <2>1 DEF Tick, history, Tokens!Withdraw, Tokens!Next
<1>13. CASE UNCHANGED vars
  BY <1>13 DEF vars, history, Tokens!vars, Spendable
<1>14. QED
  BY <1>1, <1>2, <1>3, <1>4, <1>5, <1>6, <1>7, <1>8, <1>9, <1>10, <1>11,
     <1>12, <1>13, <1>a DEF Next, ManagerStep, Tokens!Next

\* The approvals table, shared by any number of processes that interleave and
\* stop between their SQL statements, behaves as single-use tokens.
THEOREM Refinement == Spec => ImplementsTokens
  BY InitRefines, NextRefines, TypeCorrect, PTL DEF Spec, ImplementsTokens, Tokens!Spec

-----------------------------------------------------------------------------
(* Uses are paid for by grants. *)

\* The strengthening of EveryUseGranted that is inductive: while a row is
\* APPROVED, one grant of its fingerprint is still unspent.
Paid ==
    \A f \in Fingerprint :
        consumed[f] + (IF row[f].status = "APPROVED" THEN 1 ELSE 0) <= granted[f]

LEMMA PaidInductive == TypeOK /\ Paid /\ [Next]_vars => Paid'
<1> SUFFICES ASSUME TypeOK, Paid, [Next]_vars
             PROVE  Paid'
  OBVIOUS
<1> USE DEF TypeOK, Row, Status, Paid, SetRow, history
<1>1. ASSUME NEW m \in Manager, ManagerStep(m)
      PROVE  Paid'
  <2>1. ASSUME NEW f \in Fingerprint, NEW ttl \in TTL, RequestApproval(m, f, ttl)
        PROVE  Paid'
    BY <2>1 DEF RequestApproval
  <2>2. ASSUME NEW f \in Fingerprint, NEW method \in {"grant", "deny", "get"},
               FetchRecord(m, f, method)
        PROVE  Paid'
    BY <2>2 DEF FetchRecord
  <2>3. CASE ExpireFetched(m)
    BY <2>3 DEF ExpireFetched
  <2>4. CASE GrantTooLate(m)
    BY <2>4 DEF GrantTooLate
  <2>5. CASE GrantRefused(m)
    BY <2>5 DEF GrantRefused
  <2>6. CASE GrantApproval(m)
    BY <2>6 DEF GrantApproval
  <2>7. CASE DenyApproval(m)
    BY <2>7 DEF DenyApproval
  <2>8. ASSUME NEW f \in Fingerprint, ConsumeApproval(m, f)
        PROVE  Paid'
    BY <2>8 DEF ConsumeApproval
  <2>9. CASE Stop(m)
    BY <2>9 DEF Stop
  <2>10. CASE Rehydrate(m)
    BY <2>10 DEF Rehydrate
  <2>11. ASSUME NEW f \in Fingerprint, RehydrateRow(m, f)
         PROVE  Paid'
    BY <2>11 DEF RehydrateRow
  <2>12. QED
    BY <1>1, <2>1, <2>2, <2>3, <2>4, <2>5, <2>6, <2>7, <2>8, <2>9, <2>10, <2>11
       DEF ManagerStep
<1>2. CASE Tick
  BY <1>2 DEF Tick
<1>3. CASE UNCHANGED vars
  BY <1>3 DEF vars
<1>4. QED
  BY <1>1, <1>2, <1>3 DEF Next

\* However many managers share the table, no fingerprint is consumed more often
\* than it was granted, and a spendable one has a grant to spare.
THEOREM UsesAreGranted == Spec => []EveryUseGranted
<1>1. Init => Paid
  BY DEF Init, Paid, NoRow
<1>2. TypeOK /\ Paid => EveryUseGranted
  BY DEF TypeOK, Row, Paid, EveryUseGranted, Tokens!NeverOverspent, Spendable
<1>3. QED
  BY <1>1, <1>2, TypeCorrect, PaidInductive, PTL DEF Spec

-----------------------------------------------------------------------------
(* A request is used at most once, unless a grant overwrote a changed row. *)

\* While a row can still lead to a consumption, its request, or the stale grant
\* that brought it back, is unused.
RequestUnused ==
    \A f \in Fingerprint :
        consumed[f] + (IF row[f].status \in {"PENDING", "APPROVED"} THEN 1 ELSE 0)
            <= requested[f] + lost[f]

\* A grant of a record that is still the one in the table finds its request
\* unused, for it read the row as PENDING.
LEMMA GrantKeepsUnused ==
  ASSUME TypeOK, RequestUnused, NEW m \in Manager, GrantApproval(m)
  PROVE  RequestUnused'
<1> USE DEF TypeOK, Row, Status
<1>1. arg[m] \in Fingerprint /\ seen[m].status = "PENDING"
  BY DEF GrantApproval
<1>2. /\ consumed' = consumed /\ requested' = requested
      /\ \A f \in Fingerprint : f # arg[m] => row'[f] = row[f] /\ lost'[f] = lost[f]
      /\ lost'[arg[m]] = IF row[arg[m]] = seen[m] THEN lost[arg[m]] ELSE lost[arg[m]] + 1
  BY <1>1 DEF GrantApproval, SetRow, CountLost
<1>3. consumed[arg[m]] + 1 <= requested[arg[m]] + lost'[arg[m]]
  <2>1. CASE row[arg[m]] = seen[m]
    <3>1. consumed[arg[m]] + 1 <= requested[arg[m]] + lost[arg[m]]
      BY <1>1, <2>1 DEF RequestUnused
    <3>2. QED
      BY <1>2, <2>1, <3>1
  <2>2. CASE row[arg[m]] # seen[m]
    <3>1. consumed[arg[m]] <= requested[arg[m]] + lost[arg[m]]
      BY <1>1 DEF RequestUnused
    <3>2. consumed[arg[m]] \in Nat /\ requested[arg[m]] \in Nat /\ lost[arg[m]] \in Nat
      BY <1>1
    <3>3. QED
      BY <1>2, <2>2, <3>1, <3>2
  <2>3. QED
    BY <2>1, <2>2
<1>4. ASSUME NEW f \in Fingerprint
      PROVE  consumed[f] + (IF row'[f].status \in {"PENDING", "APPROVED"} THEN 1 ELSE 0)
                 <= requested[f] + lost'[f]
  <2>1. CASE f = arg[m]
    <3>1. consumed[f] \in Nat /\ requested[f] \in Nat /\ lost'[f] \in Nat
      BY <1>1, <1>2, <2>1
    <3>2. QED
      BY <1>3, <2>1, <3>1
  <2>2. CASE f # arg[m]
    BY <1>2, <2>2 DEF RequestUnused
  <2>3. QED
    BY <2>1, <2>2
<1>5. QED
  BY <1>2, <1>4 DEF RequestUnused

LEMMA UnusedInductive ==
  ASSUME TypeOK, RequestUnused, [Next]_vars
  PROVE  RequestUnused'
<1> USE DEF TypeOK, Row, Status, SetRow, Goto, history, mgrVars
<1>1. ASSUME NEW m \in Manager, ManagerStep(m)
      PROVE  RequestUnused'
  <2> USE DEF RequestUnused
  <2>1. ASSUME NEW f \in Fingerprint, NEW ttl \in TTL, RequestApproval(m, f, ttl)
        PROVE  RequestUnused'
    BY <2>1 DEF RequestApproval
  <2>2. ASSUME NEW f \in Fingerprint, NEW method \in {"grant", "deny", "get"},
               FetchRecord(m, f, method)
        PROVE  RequestUnused'
    BY <2>2 DEF FetchRecord
  <2>3. CASE ExpireFetched(m)
    BY <2>3 DEF ExpireFetched
  <2>4. CASE GrantTooLate(m)
    BY <2>4 DEF GrantTooLate
  <2>5. CASE GrantRefused(m)
    BY <2>5 DEF GrantRefused
  <2>6. CASE GrantApproval(m)
    BY <2>6, GrantKeepsUnused
  <2>7. CASE DenyApproval(m)
    BY <2>7 DEF DenyApproval
  <2>8. ASSUME NEW f \in Fingerprint, ConsumeApproval(m, f)
        PROVE  RequestUnused'
    BY <2>8 DEF ConsumeApproval
  <2>9. CASE Stop(m)
    BY <2>9 DEF Stop
  <2>10. CASE Rehydrate(m)
    BY <2>10 DEF Rehydrate
  <2>11. ASSUME NEW f \in Fingerprint, RehydrateRow(m, f)
        PROVE  RequestUnused'
    BY <2>11 DEF RehydrateRow
  <2>12. QED
    BY <1>1, <2>1, <2>2, <2>3, <2>4, <2>5, <2>6, <2>7, <2>8, <2>9, <2>10, <2>11
       DEF ManagerStep
<1>2. CASE Tick
  BY <1>2 DEF Tick, RequestUnused
<1>3. CASE UNCHANGED vars
  BY <1>3 DEF vars, RequestUnused
<1>4. QED
  BY <1>1, <1>2, <1>3 DEF Next

\* Whatever the managers on the database do, no fingerprint is consumed more
\* often than it was requested, but for the grants that overwrote a row somebody
\* had changed since they read it.
THEOREM OneUseAlways == Spec => []OneUsePerRequest
<1>1. Init => RequestUnused
  BY DEF Init, RequestUnused, NoRow
<1>2. TypeOK /\ RequestUnused => OneUsePerRequest
  BY DEF TypeOK, RequestUnused, OneUsePerRequest
<1>3. QED
  BY <1>1, <1>2, TypeCorrect, UnusedInductive, PTL DEF Spec

-----------------------------------------------------------------------------
(* One manager, as bootstrap builds it: nothing is overwritten. *)

\* With a single process nobody writes between the SELECT and the write of
\* grantApproval.
ReadIsCurrent ==
    \A m \in Manager : pc[m] \in {"expire", "decide"} => row[arg[m]] = seen[m]

\* No grant overwrites a row that has changed since it was read.
NothingLost == \A f \in Fingerprint : lost[f] = 0

LEMMA SingleManagerInductive ==
  ASSUME \A m, n \in Manager : m = n,
         TypeOK, ReadIsCurrent, NothingLost, [Next]_vars
  PROVE  ReadIsCurrent' /\ NothingLost'
<1> USE DEF TypeOK, Row, Status, SetRow, Goto, history, mgrVars
<1>1. ASSUME NEW m \in Manager, ManagerStep(m)
      PROVE  ReadIsCurrent' /\ NothingLost'
  <2>a. Manager = {m}
    OBVIOUS
  <2> USE <2>a DEF ReadIsCurrent, NothingLost, CountLost
  <2>1. ASSUME NEW f \in Fingerprint, NEW ttl \in TTL, RequestApproval(m, f, ttl)
        PROVE  ReadIsCurrent' /\ NothingLost'
    BY <2>1 DEF RequestApproval
  <2>2. ASSUME NEW f \in Fingerprint, NEW method \in {"grant", "deny", "get"},
               FetchRecord(m, f, method)
        PROVE  ReadIsCurrent' /\ NothingLost'
    BY <2>2 DEF FetchRecord
  <2>3. CASE ExpireFetched(m)
    BY <2>3 DEF ExpireFetched
  <2>4. CASE GrantTooLate(m)
    BY <2>4 DEF GrantTooLate
  <2>5. CASE GrantRefused(m)
    BY <2>5 DEF GrantRefused
  <2>6. CASE GrantApproval(m)
    BY <2>6 DEF GrantApproval
  <2>7. CASE DenyApproval(m)
    BY <2>7 DEF DenyApproval
  <2>8. ASSUME NEW f \in Fingerprint, ConsumeApproval(m, f)
        PROVE  ReadIsCurrent' /\ NothingLost'
    BY <2>8 DEF ConsumeApproval
  <2>9. CASE Stop(m)
    BY <2>9 DEF Stop
  <2>10. CASE Rehydrate(m)
    BY <2>10 DEF Rehydrate
  <2>11. ASSUME NEW f \in Fingerprint, RehydrateRow(m, f)
        PROVE  ReadIsCurrent' /\ NothingLost'
    BY <2>11 DEF RehydrateRow
  <2>12. QED
    BY <1>1, <2>1, <2>2, <2>3, <2>4, <2>5, <2>6, <2>7, <2>8, <2>9, <2>10, <2>11
       DEF ManagerStep
<1>2. CASE Tick
  BY <1>2 DEF Tick, ReadIsCurrent, NothingLost
<1>3. CASE UNCHANGED vars
  BY <1>3 DEF vars, ReadIsCurrent, NothingLost
<1>4. QED
  BY <1>1, <1>2, <1>3 DEF Next

\* With one manager on the database no grant is written over a changed row, so
\* that OneUseAlways says: a request is consumed at most once.
THEOREM SingleManagerOneUse ==
  ASSUME \A m, n \in Manager : m = n
  PROVE  Spec => [](\A f \in Fingerprint : consumed[f] <= requested[f])
<1>1. Init => ReadIsCurrent /\ NothingLost
  BY DEF Init, ReadIsCurrent, NothingLost
<1>2. TypeOK /\ ReadIsCurrent /\ NothingLost /\ [Next]_vars
      => ReadIsCurrent' /\ NothingLost'
  BY SingleManagerInductive
<1>3. TypeOK /\ NothingLost /\ OneUsePerRequest
      => \A f \in Fingerprint : consumed[f] <= requested[f]
  BY DEF TypeOK, NothingLost, OneUsePerRequest
<1>4. QED
  BY <1>1, <1>2, <1>3, TypeCorrect, OneUseAlways, PTL DEF Spec
=============================================================================
