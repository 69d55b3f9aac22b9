----------------------------- MODULE MCThreaded -----------------------------
(* The scenarios of Threaded for TLC. *)
EXTENDS Threaded

\* Edges of two messages, and every three faults except those the runs below
\* are about.
Faults ==
  [capacity |-> 2, items |-> 3, ticks |-> 0, faults |-> 3,
   errors |-> {"pull", "item", "skip", "flush", "write", "sinkFlush", "sinkClose",
               "abort", "sourceClose", "dlqFlush", "dlqClose"},
   panics |-> {"pull", "item", "flush", "write", "sinkFlush", "sinkClose", "abort",
               "drop", "sourceClose", "dlqClose", "observer"}]

\* Hand-off edges, idle ticks, and threads the operating system refuses.  Five
\* items are more than three threads can hold.
HandOffs ==
  [capacity |-> 0, items |-> 5, ticks |-> 1, faults |-> 2,
   errors |-> {"spawn", "item", "tick", "write", "sourceClose"},
   panics |-> {"item", "write", "drop"}]

MCScenarios == {Faults, HandOffs}

OneItem(n, fail, panic) ==
  {[capacity |-> 1, items |-> 1, ticks |-> 0, faults |-> n,
    errors |-> fail, panics |-> panic]}

\* A stage of a segment fails, and flush panics in the abort that follows.
MCSelfAbort == OneItem(2, {"item"}, {"selfAbort"})

\* The observer panics on Event::Started.
MCStarted == OneItem(1, {}, {"started"})
=============================================================================
