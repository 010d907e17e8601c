--------------------------- MODULE SingleUseTokens ---------------------------
(***************************************************************************)
(* What ApprovalManager promises the tool gate, independently of tables,   *)
(* clocks and processes: the owner issues a token for a key, a token can   *)
(* be withdrawn at any time (denial, expiry, a new request), and spending  *)
(* uses it up.                                                             *)
(***************************************************************************)
EXTENDS Naturals

CONSTANT Key

VARIABLES
    spendable,  \* keys whose token can be spent now
    issued,     \* tokens issued per key
    spent       \* tokens spent per key

vars == <<spendable, issued, spent>>

TypeOK ==
    /\ spendable \subseteq Key
    /\ issued \in [Key -> Nat]
    /\ spent \in [Key -> Nat]

Init ==
    /\ spendable = {}
    /\ issued = [k \in Key |-> 0]
    /\ spent = [k \in Key |-> 0]

\* An issued token may already be worthless (granted in its last instant).
Issue(k) ==
    /\ issued' = [issued EXCEPT ![k] = @ + 1]
    /\ spendable' \in {spendable \cup {k}, spendable \ {k}}
    /\ UNCHANGED spent

Spend(k) ==
    /\ k \in spendable
    /\ spendable' = spendable \ {k}
    /\ spent' = [spent EXCEPT ![k] = @ + 1]
    /\ UNCHANGED issued

Withdraw ==
    /\ spendable' \subseteq spendable
    /\ UNCHANGED <<issued, spent>>

Next == Withdraw \/ \E k \in Key : Issue(k) \/ Spend(k)

Spec == Init /\ [][Next]_vars

\* No key is spent more often than it was issued, and while a token is
\* spendable one issue is still unspent.
NeverOverspent ==
    \A k \in Key : spent[k] + (IF k \in spendable THEN 1 ELSE 0) <= issued[k]
=============================================================================
