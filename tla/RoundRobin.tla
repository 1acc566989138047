----------------------------- MODULE RoundRobin -----------------------------
(***************************************************************************)
(* What schedSchedule decides, as a function of the list it walks.         *)
(*                                                                         *)
(* "order" is the circular list as a sequence: it starts behind the        *)
(* current process, which comes last.  "st" gives the statuses and "idle"  *)
(* the idle process.  MCSched checks that the scan of Sched.tla, one       *)
(* iteration at a time over nextSlot pointers, computes these; Process.tla *)
(* schedules with them.                                                    *)
(***************************************************************************)
EXTENDS Integers, Sequences, FiniteSets, SequencesExt

Before(S) == CHOOSE k \in S : \A m \in S : k <= m

IsDead(x, st, idle) == x # idle /\ st[x] = "DEAD"
Picks(x, st, idle) == x # idle /\ st[x] = "READY"

\* At the k-th iteration the loop compares k with the number of processes
\* left, those it has unlinked on its way no longer counted.
GivesUp(order, st, idle, k) ==
    /\ order[k] # idle
    /\ st[order[k]] \notin {"READY", "DEAD"}
    /\ k > Len(order) - Cardinality({j \in 1 .. k - 1 : IsDead(order[j], st, idle)})

Stops(order, st, idle) ==
    {k \in 1 .. Len(order) : Picks(order[k], st, idle) \/ GivesUp(order, st, idle, k)}

\* The iterations before the one that ends the loop (all, if the loop ends on
\* its way through the list for the second time).
Scanned(order, st, idle) ==
    IF Stops(order, st, idle) = {} THEN Len(order)
    ELSE Before(Stops(order, st, idle)) - 1

Winner(order, st, idle) ==
    LET n == Scanned(order, st, idle)
    IN  IF n < Len(order) /\ Picks(order[n + 1], st, idle)
        THEN order[n + 1] ELSE idle

\* The members of S that are in a sequence, in its order.
Only(q, S) ==
    LET kept[k \in 0 .. Len(q)] ==
            IF k = 0 THEN <<>>
            ELSE IF q[k] \in S THEN Append(kept[k - 1], q[k]) ELSE kept[k - 1]
    IN  kept[Len(q)]

Unlinked(order, st, idle) ==
    {order[k] : k \in {j \in 1 .. Scanned(order, st, idle) : IsDead(order[j], st, idle)}}

\* The dead processes unlinked, in the order of the list.
Reaped(order, st, idle) == Only(order, Unlinked(order, st, idle))

\* The list afterwards, again from behind the process that now runs.
NextOrder(order, st, idle) ==
    LET at == CHOOSE k \in 1 .. Len(order) : order[k] = Winner(order, st, idle)
        turned == [k \in 1 .. Len(order) |->
                      order[IF k + at <= Len(order) THEN k + at ELSE k + at - Len(order)]]
    IN  Only(turned, ToSet(order) \ Unlinked(order, st, idle))
=============================================================================
