----------------------------- MODULE MCDiagnosis -----------------------------
(* A small instance of Diagnosis for TLC. *)
EXTENDS Diagnosis, TLC

CONSTANTS out, inner, port

\* Two origins of one private host; the entry of the first names no port.
MCCovers == out :> {out} @@ inner :> {inner, port} @@ port :> {port}
=============================================================================
