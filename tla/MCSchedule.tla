----------------------------- MODULE MCSchedule -----------------------------
(* The schedule index on a small instance. *)
EXTENDS ScheduleIndex

CONSTANTS q1, q2

MCQueues == {q1, q2}
MCServed == {q1}

\* An ordinary job, an urgent one that has to wait, and one nobody serves.
MCRequests ==
    { [queue |-> q1, priority |-> 0, delay |-> 0],
      [queue |-> q1, priority |-> 1, delay |-> 1],
      [queue |-> q2, priority |-> 0, delay |-> 1] }

=============================================================================
