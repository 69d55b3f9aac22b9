--------------------------- MODULE BoundedChannel ---------------------------
(***************************************************************************)
(* What the edge between two threads of a pipeline promises to the two     *)
(* loops that use it: a FIFO buffer of at most Limit messages whose sender *)
(* learns the outcome of each call, and whose hand-off variant (capacity   *)
(* 0) returns only when the message has been taken.  Edge.tla implements   *)
(* this specification with an unbounded queue, two counters, a flag, a     *)
(* lock and a condition variable.                                          *)
(***************************************************************************)
EXTENDS Naturals, Sequences

CONSTANTS Limit,    \* most messages in the buffer: max(capacity, 1)
          HandOff,  \* TRUE iff the capacity is 0
          Lag       \* how many taken messages the sender may not know about

VARIABLES buf,      \* messages put and not taken, oldest first
          put,      \* how many messages were put
          call,     \* the state of the sender's current call
          receiver  \* "up", "closing" (announced) or "gone"

cvars == <<buf, put, call, receiver>>

Pending == {"send", "try"}
Outcomes == {"ok", "full", "closed"}

Init == /\ buf = <<>>
        /\ put = 0
        /\ call = "none"
        /\ receiver = "up"

Begin(c) == /\ call = "none"
            /\ call' = c
            /\ UNCHANGED <<buf, put, receiver>>

(* A message enters the buffer only when there is room for it; a hand-off  *)
(* never buffers a message that nobody waits for.                          *)
Put == /\ call \in Pending
       /\ HandOff => call = "send"
       /\ receiver # "gone"
       /\ Len(buf) < Limit
       /\ buf' = Append(buf, put + 1)
       /\ put' = put + 1
       /\ call' = "ok"
       /\ UNCHANGED receiver

Refuse == /\ call = "try"
          /\ \/ HandOff
             \/ receiver # "up"
             \/ Len(buf) + Lag >= Limit
          /\ call' = "full"
          /\ UNCHANGED <<buf, put, receiver>>

Fail == /\ call \in Pending
        /\ receiver # "up"
        /\ call' = "closed"
        /\ UNCHANGED <<buf, put, receiver>>

(* A call returns once its outcome is known; a hand-off also waits until   *)
(* its message is taken or the receiver is leaving.                        *)
Return == /\ call \in Outcomes
          /\ (HandOff /\ call = "ok") => (buf = <<>> \/ receiver # "up")
          /\ call' = "none"
          /\ UNCHANGED <<buf, put, receiver>>

Leave == /\ call = "none"
         /\ call' = "gone"
         /\ UNCHANGED <<buf, put, receiver>>

Take == /\ receiver = "up"
        /\ buf # <<>>
        /\ buf' = Tail(buf)
        /\ UNCHANGED <<put, call, receiver>>

Close == /\ receiver = "up"
         /\ receiver' = "closing"
         /\ UNCHANGED <<buf, put, call>>

(* What is still buffered when the receiver goes is lost.                  *)
Drop == /\ receiver = "closing"
        /\ receiver' = "gone"
        /\ buf' = <<>>
        /\ UNCHANGED <<put, call>>

Next == \/ \E c \in Pending : Begin(c)
        \/ Put \/ Refuse \/ Fail \/ Return \/ Leave
        \/ Take \/ Close \/ Drop

Spec == Init /\ [][Next]_cvars
=============================================================================
