------------------------------ MODULE MCScreen ------------------------------
(***************************************************************************)
(* Two terminals: one process prints lines, the other draws at its cursor. *)
(***************************************************************************)
EXTENDS Screen

MCPageOf == [p \in Procs |-> IF p = "printer" THEN 0 ELSE 1]
MCFdType == [p \in Procs |-> IF p = "printer" THEN "TTY" ELSE "TTY_CURSOR"]

\* _vtflush takes a carriage return for a letter.
MCWrites == [p \in Procs |-> IF p = "printer" THEN Chars \ {"CR"} ELSE Chars]
=============================================================================
