------------------------------ MODULE MCSched ------------------------------
(***************************************************************************)
(* The scheduler of Sched.tla with a history variable: the list and the    *)
(* statuses at the entry of the scan in progress, so that what the scan    *)
(* did can be compared with RoundRobin when it ends.                       *)
(***************************************************************************)
EXTENDS Sched, RoundRobin

VARIABLE entry

\* The walk along nextSlot from behind slot s, as findSlot and schedTicks do it.
Walk(f, s, n) ==
    LET w[k \in 0 .. n] == IF k = 0 THEN s ELSE f[w[k - 1]]
    IN  [k \in 1 .. n |-> w[k]]

Order == Walk(nextSlot, currentSlot, processCant)

MCInit == Init /\ entry = <<>>

MCNext ==
    /\ Next
    /\ entry' = CASE pc # "scan" /\ pc' = "scan" -> [order |-> Order, st |-> status']
                  [] pc = "scan" /\ pc' = "scan" -> entry
                  [] OTHER -> <<>>

MCSpec == MCInit /\ [][MCNext]_<<vars, entry>> /\ Fairness

\* Outside the scan, the pointers spell the slots of the ring, each once and
\* the current one last.
WalkMeetsEverySlot ==
    pc # "scan" => /\ ToSet(Order) = Ring
                   /\ Last(Order) = currentSlot

\* The scan leaves the processor and the list to those RoundRobin says.
ScanIsRoundRobin ==
    [][pc = "scan" /\ pc' # "scan" =>
        /\ currentSlot' = Winner(entry.order, entry.st, IdleSlot)
        /\ Walk(nextSlot', currentSlot', processCant')
              = NextOrder(entry.order, entry.st, IdleSlot)
        /\ \A s \in Slot : status'[s] =
              CASE s = currentSlot' -> "RUNNING"
                [] s \in ToSet(Reaped(entry.order, entry.st, IdleSlot)) -> "FREE"
                [] OTHER -> entry.st[s]]_<<vars, entry>>
=============================================================================
