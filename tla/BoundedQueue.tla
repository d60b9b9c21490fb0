---------------------------- MODULE BoundedQueue ----------------------------
(***************************************************************************)
(* push_bounded (include/zoal_atc/transport/bounded_queue.hpp): append a   *)
(* value and discard from the front until the queue holds at most cap.     *)
(***************************************************************************)
EXTENDS Naturals, Sequences

\* How many queued values must go before one more fits.
Excess(queue, cap) == IF Len(queue) < cap THEN 0 ELSE Len(queue) - cap + 1

\* The queue after the push.  A cap of zero accepts nothing.
PushBounded(queue, value, cap) ==
    IF cap = 0 THEN queue
    ELSE Append(SubSeq(queue, Excess(queue, cap) + 1, Len(queue)), value)

\* What the push discarded, oldest first; its length is what the code returns.
Discarded(queue, value, cap) ==
    IF cap = 0 THEN <<value>> ELSE SubSeq(queue, 1, Excess(queue, cap))
=============================================================================
