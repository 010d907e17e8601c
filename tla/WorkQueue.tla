------------------------------ MODULE WorkQueue ------------------------------
(***************************************************************************)
(* What DurableScheduler promises the owner of a schedule about the work   *)
(* it queues, independently of due times, workers and crashes: work is     *)
(* done at least once.  An item is put in the queue once and never lost    *)
(* from it; it is started by who has taken it, a second time only after it *)
(* was taken back; it is reported done only if it was started.             *)
(***************************************************************************)
EXTENDS Naturals

CONSTANT Item

VARIABLES
    state,    \* of each item; NONE has never been put in the queue
    starts,   \* how often it was started
    returned  \* how often it was taken back from who had taken it

vars == <<state, starts, returned>>

Settled == {"EXECUTED", "FAILED", "SKIPPED"}

TypeOK ==
    /\ state \in [Item -> {"NONE", "PENDING", "CLAIMED"} \cup Settled]
    /\ starts \in [Item -> Nat]
    /\ returned \in [Item -> Nat]

Init ==
    /\ state = [i \in Item |-> "NONE"]
    /\ starts = [i \in Item |-> 0]
    /\ returned = [i \in Item |-> 0]

Put(i) ==
    /\ state[i] = "NONE"
    /\ state' = [state EXCEPT ![i] = "PENDING"]
    /\ UNCHANGED <<starts, returned>>

Take(i) ==
    /\ state[i] = "PENDING"
    /\ state' = [state EXCEPT ![i] = "CLAIMED"]
    /\ UNCHANGED <<starts, returned>>

Start(i) ==
    /\ state[i] = "CLAIMED" /\ starts[i] <= returned[i]
    /\ starts' = [starts EXCEPT ![i] = @ + 1]
    /\ UNCHANGED <<state, returned>>

\* The result of who was slow may come when the item has been taken back, taken
\* by another or settled already.
Finish(i, result) ==
    /\ starts[i] > 0
    /\ state' = [state EXCEPT ![i] = result]
    /\ UNCHANGED <<starts, returned>>

TakeBack(S) ==
    /\ \A i \in S : state[i] = "CLAIMED"
    /\ state' = [i \in Item |-> IF i \in S THEN "PENDING" ELSE state[i]]
    /\ returned' = [i \in Item |-> returned[i] + (IF i \in S THEN 1 ELSE 0)]
    /\ UNCHANGED starts

\* What was skipped may have been taken meanwhile.
Skip(S) ==
    /\ \A i \in S : state[i] # "NONE"
    /\ state' = [i \in Item |-> IF i \in S THEN "SKIPPED" ELSE state[i]]
    /\ UNCHANGED <<starts, returned>>

Next ==
    \/ \E i \in Item :
          \/ Put(i) \/ Take(i) \/ Start(i)
          \/ \E result \in {"EXECUTED", "FAILED"} : Finish(i, result)
    \/ \E S \in SUBSET Item : TakeBack(S) \/ Skip(S)

Spec == Init /\ [][Next]_vars

\* What is reported done has been started.
DoneWasStarted == \A i \in Item : state[i] \in {"EXECUTED", "FAILED"} => starts[i] > 0
=============================================================================
