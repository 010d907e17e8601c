----------------------------- MODULE MCApprovals -----------------------------
(* Small instances of Approvals for TLC. *)
EXTENDS Approvals

\* A TTL of 1 lets a token lapse between the SELECT and the write of a grant;
\* a TTL of 0 puts the grant exactly on the expiry.
MCTTL == {0, 1}
=============================================================================
