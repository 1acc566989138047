----------------------------- MODULE MCSemaphore -----------------------------
(***************************************************************************)
(* The semaphore for TLC: its processes are interchangeable.               *)
(***************************************************************************)
EXTENDS Semaphore, TLC

AnyOrder == Permutations(Proc)
==============================================================================
