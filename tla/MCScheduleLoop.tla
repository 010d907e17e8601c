---------------------------- MODULE MCScheduleLoop ----------------------------
(* Small instances of ScheduleLoop for TLC; the cfg files give the sizes. *)
EXTENDS ScheduleLoop, TLC

\* All guarded tasks ask for the same action.
MCKeyOf == [t \in Guarded |-> CHOOSE k \in Key : TRUE]
=============================================================================
