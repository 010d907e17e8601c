------------------------------ MODULE ActionLog ------------------------------
(***************************************************************************)
(* What the checkpoints of ControlledAutonomyEngine promise about the      *)
(* actions of a run, independently of leases, engines and crashes: an      *)
(* action is on record before its tool runs, the tool runs at most once,   *)
(* and the record tells how it ended, or for good that nobody knows.       *)
(***************************************************************************)
EXTENDS Naturals

CONSTANT Action

VARIABLES
    log,   \* what is on record, per action
    runs   \* how often its tool has run

vars == <<log, runs>>

TypeOK ==
    /\ log \in [Action -> {"NONE", "DISPATCHED", "EXECUTED", "FAILED", "VERIFIED", "UNKNOWN"}]
    /\ runs \in [Action -> 0..1]

Init ==
    /\ log = [a \in Action |-> "NONE"]
    /\ runs = [a \in Action |-> 0]

Record(a, s) == log' = [log EXCEPT ![a] = s] /\ UNCHANGED runs

Dispatch(a) == log[a] = "NONE" /\ Record(a, "DISPATCHED")

Run(a) ==
    /\ log[a] = "DISPATCHED" /\ runs[a] = 0
    /\ runs' = [runs EXCEPT ![a] = 1]
    /\ UNCHANGED log

\* A refusal, a missing agent and a tool that reports failure all end FAILED.
Settle(a) ==
    /\ log[a] = "DISPATCHED"
    /\ \/ runs[a] = 1 /\ Record(a, "EXECUTED")
       \/ Record(a, "FAILED")

Verify(a) == log[a] = "EXECUTED" /\ \E s \in {"VERIFIED", "FAILED"} : Record(a, s)

Lose(a) == log[a] = "DISPATCHED" /\ Record(a, "UNKNOWN")

Next == \E a \in Action : Dispatch(a) \/ Run(a) \/ Settle(a) \/ Verify(a) \/ Lose(a)

Spec == Init /\ [][Next]_vars
=============================================================================
