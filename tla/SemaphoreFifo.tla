--------------------------- MODULE SemaphoreFifo ---------------------------
(***************************************************************************)
(* What semaphore.h promises of a semaphore: a wake that finds nobody      *)
(* asleep is counted, and processes are woken in the order in which they   *)
(* fell asleep.  Processes that left the scheduler's list are passed over. *)
(***************************************************************************)
EXTENDS Naturals, Sequences

CONSTANT Proc

VARIABLES value, queue,
          status      \* the scheduler's: READY, BLOCKED, DEAD or GONE

fifoVars == <<value, queue, status>>

FifoInit ==
    /\ value = 0
    /\ queue = << >>
    /\ status = [p \in Proc |-> "READY"]

Pass(p) ==
    /\ status[p] = "READY" /\ value > 0
    /\ value' = value - 1
    /\ UNCHANGED <<queue, status>>

FallAsleep(p) ==
    /\ status[p] = "READY" /\ value = 0
    /\ queue' = Append(queue, p)
    /\ status' = [status EXCEPT ![p] = "BLOCKED"]
    /\ UNCHANGED value

\* The n-th in the queue is the first that is still on the list.
WakeUp(n) ==
    /\ \A m \in 1 .. n - 1 : status[queue[m]] = "GONE"
    /\ status[queue[n]] # "GONE"
    /\ status' = [status EXCEPT ![queue[n]] = "READY"]
    /\ queue' = SubSeq(queue, n + 1, Len(queue))
    /\ UNCHANGED value

CountWake ==
    /\ \A m \in 1 .. Len(queue) : status[queue[m]] = "GONE"
    /\ queue' = << >>
    /\ value' = value + 1
    /\ UNCHANGED status

Consume == value > 0 /\ value' = value - 1 /\ UNCHANGED <<queue, status>>

Die(p) ==
    /\ \/ status[p] \in {"READY", "BLOCKED"} /\ status' = [status EXCEPT ![p] = "DEAD"]
       \/ status[p] = "DEAD" /\ status' = [status EXCEPT ![p] = "GONE"]
    /\ UNCHANGED <<value, queue>>

FifoNext ==
    \/ \E p \in Proc : Pass(p) \/ FallAsleep(p) \/ Die(p)
    \/ \E n \in 1 .. Len(queue) : WakeUp(n)
    \/ CountWake
    \/ Consume

FifoSpec == FifoInit /\ [][FifoNext]_fifoVars
=============================================================================
