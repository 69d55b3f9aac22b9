-------------------------------- MODULE Edge --------------------------------
(***************************************************************************)
(* The bounded single-producer, single-consumer edge of src/edge.rs at the *)
(* granularity of its shared-memory accesses.  One thread owns the         *)
(* EdgeSender and runs send / try_send, one thread owns the EdgeReceiver   *)
(* and runs recv / recv_timeout and finally Drop.  Each action is one      *)
(* atomic load or store, one lock operation or one operation of the        *)
(* underlying mpsc channel, with the local work that follows it.           *)
(*                                                                         *)
(* The receiver's local `published` always equals the last value it stored *)
(* in gate.received, so one variable stands for both.  Counters are exact  *)
(* (the code's u64 wraps after 2^64 messages).                             *)
(***************************************************************************)
EXTENDS Naturals, Sequences

CONSTANTS Capacity,   \* capacity given to edge(); 0 is a hand-off
          MaxSends    \* bound on the messages sent, for model checking

ASSUME CapacityAssumption == Capacity \in Nat
ASSUME MaxSendsAssumption == MaxSends \in Nat

VARIABLES
  queue,      \* the unbounded mpsc channel: message numbers, oldest first
  received,   \* EdgeReceiver.received
  gReceived,  \* gate.received (and EdgeReceiver.published)
  waiting,    \* gate.waiting
  closed,     \* gate.closed
  lock,       \* gate.lock: "free", "sender" or "receiver"
  sent,       \* EdgeSender.sent
  seen,       \* EdgeSender.seen
  spc,        \* where the sender's thread is
  op,         \* "send" or "try": the sender's current call
  target,     \* wait_until's argument
  pushed,     \* the current call's message is in the channel
  res,        \* the current call's result: "none", "ok", "full" or "closed"
  late,       \* auxiliary: the receiver was gone when this call began
  rpc,        \* where the receiver's thread is
  rnext       \* where it continues after publishing and notifying

senderVars == <<sent, seen, spc, op, target, pushed, res, late>>
receiverVars == <<received, rpc, rnext>>
gateVars == <<gReceived, waiting, closed, lock>>
vars == <<queue, gateVars, senderVars, receiverVars>>

Max2(a, b) == IF a >= b THEN a ELSE b

Limit == Max2(Capacity, 1)
Batch == Max2(Capacity \div 16, 1)
(* Variant: waiting for no free slot at all. *)
NoRoom == 0
Room  == Max2(Limit \div 4, 1)

SenderPCs == {"idle", "tryClosed", "room", "spin", "lock", "announce",
              "recheck", "checkClosed", "asleep", "relock", "reached",
              "broken", "push", "return", "gone"}
ReceiverPCs == {"idle", "try", "publish", "notify", "notifyLock", "signal",
                "block", "dropRx", "gone"}

Init == /\ queue = <<>>
        /\ received = 0 /\ gReceived = 0
        /\ waiting = FALSE /\ closed = FALSE /\ lock = "free"
        /\ sent = 0 /\ seen = 0
        /\ spc = "idle" /\ op = "send" /\ target = 0
        /\ pushed = FALSE /\ res = "none" /\ late = FALSE
        /\ rpc = "idle" /\ rnext = "idle"

-----------------------------------------------------------------------------
(* The sender's thread.                                                    *)

SGoto(from, to) == spc = from /\ spc' = to

SReturn(from, r) == SGoto(from, "return") /\ res' = r

(* send() or try_send() is called.                                         *)
Call(o) ==
  /\ sent < MaxSends
  /\ SGoto("idle", IF o = "send" THEN "room" ELSE "tryClosed")
  /\ op' = o
  /\ pushed' = FALSE
  /\ res' = "none"
  /\ late' = (rpc = "gone")
  /\ UNCHANGED <<queue, gateVars, receiverVars, sent, seen, target>>

(* Variant: try_send without its look at gate.closed. *)
TryUnclosed ==
  /\ \/ Capacity = 0 /\ SReturn("tryClosed", "full")
     \/ Capacity # 0 /\ SGoto("tryClosed", "room") /\ UNCHANGED res
  /\ UNCHANGED <<queue, gateVars, receiverVars, sent, seen, op, target, pushed, late>>

(* try_send: fail if the receiver announced it is leaving, drop the        *)
(* message at once on a hand-off edge.                                     *)
TryClosed ==
  /\ \/ closed /\ SReturn("tryClosed", "closed")
     \/ ~closed /\ Capacity = 0 /\ SReturn("tryClosed", "full")
     \/ ~closed /\ Capacity # 0 /\ SGoto("tryClosed", "room") /\ UNCHANGED res
  /\ UNCHANGED <<queue, gateVars, receiverVars, sent, seen, op, target, pushed, late>>

(* has_room with the cached counter.                                       *)
RoomCached ==
  /\ sent - seen < Limit
  /\ SGoto("room", "push")
  /\ UNCHANGED <<queue, gateVars, receiverVars, sent, seen, op, target, pushed, res, late>>

(* has_room with the counter re-read; without room a send computes how far *)
(* the receiver must get, and a try_send drops its message.                *)
RoomReload ==
  /\ sent - seen >= Limit
  /\ seen' = gReceived
  /\ \/ /\ sent - gReceived < Limit
        /\ SGoto("room", "push")
        /\ UNCHANGED <<target, res>>
     \/ /\ sent - gReceived >= Limit
        /\ op = "send"
        /\ SGoto("room", "spin")
        /\ target' = (sent - Limit) + Room
        /\ UNCHANGED res
     \/ /\ sent - gReceived >= Limit
        /\ op = "try"
        /\ SReturn("room", "full")
        /\ UNCHANGED target
  /\ UNCHANGED <<queue, gateVars, receiverVars, sent, op, pushed, late>>

(* wait_until's bounded spin: it sees the target, sees the receiver gone,  *)
(* or gives up and takes the lock.                                         *)
Spin ==
  /\ \/ gReceived >= target /\ SGoto("spin", "reached")
     \/ closed /\ SGoto("spin", "broken")
     \/ SGoto("spin", "lock")
  /\ UNCHANGED <<queue, gateVars, receiverVars, sent, seen, op, target, pushed, res, late>>

(* Take gate.lock, the first time or on waking from the condition variable. *)
Lock ==
  /\ lock = "free"
  /\ lock' = "sender"
  /\ SGoto("lock", "announce") \/ SGoto("relock", "announce")
  /\ UNCHANGED <<queue, gReceived, waiting, closed, receiverVars,
                 sent, seen, op, target, pushed, res, late>>

Announce ==
  /\ SGoto("announce", "recheck")
  /\ waiting' = TRUE
  /\ UNCHANGED <<queue, gReceived, closed, lock, receiverVars,
                 sent, seen, op, target, pushed, res, late>>

(* Store FALSE in gate.waiting and release the lock.  The receiver looks   *)
(* at the lock only after it has seen the flag, so the two steps are one.  *)
Retract ==
  /\ waiting' = FALSE
  /\ lock' = "free"

(* Variant: no look at gate.received between announcing and sleeping. *)
RecheckBlind ==
  /\ SGoto("recheck", "checkClosed")
  /\ UNCHANGED <<queue, gateVars, receiverVars, sent, seen, op, target, pushed, res, late>>

Recheck ==
  /\ \/ /\ gReceived >= target
        /\ SGoto("recheck", "reached")
        /\ Retract
     \/ /\ gReceived < target
        /\ SGoto("recheck", "checkClosed")
        /\ UNCHANGED <<waiting, lock>>
  /\ UNCHANGED <<queue, gReceived, closed, receiverVars,
                 sent, seen, op, target, pushed, res, late>>

(* Last look at gate.closed; Condvar::wait releases the lock and sleeps in *)
(* one step.                                                               *)
CheckClosed ==
  /\ \/ /\ closed
        /\ SGoto("checkClosed", "broken")
        /\ Retract
     \/ /\ ~closed
        /\ SGoto("checkClosed", "asleep")
        /\ lock' = "free"
        /\ UNCHANGED waiting
  /\ UNCHANGED <<queue, gReceived, closed, receiverVars,
                 sent, seen, op, target, pushed, res, late>>

(* A condition variable may wake its waiter for no reason.                 *)
SpuriousWake ==
  /\ SGoto("asleep", "relock")
  /\ UNCHANGED <<queue, gateVars, receiverVars, sent, seen, op, target, pushed, res, late>>

(* wait_until returned: before the push, false fails the send; after it    *)
(* (hand-off) the result is ignored.                                       *)
Waited ==
  /\ \/ /\ ~pushed
        /\ SGoto("reached", "push")
        /\ UNCHANGED res
     \/ /\ ~pushed
        /\ SReturn("broken", "closed")
     \/ /\ pushed
        /\ SReturn("reached", "ok") \/ SReturn("broken", "ok")
  /\ UNCHANGED <<queue, gateVars, receiverVars, sent, seen, op, target, pushed, late>>

(* The mpsc send: it fails only once the receiver's half is dropped.       *)
PushFails ==
  /\ rpc = "gone"
  /\ SReturn("push", "closed")
  /\ UNCHANGED <<queue, gateVars, receiverVars, sent, seen, op, target, pushed, late>>

(* Variant: a hand-off that does not wait.                                 *)
PushNoWait ==
  /\ rpc # "gone"
  /\ queue' = Append(queue, sent + 1)
  /\ sent' = sent + 1
  /\ pushed' = TRUE
  /\ SReturn("push", "ok")
  /\ UNCHANGED <<gateVars, receiverVars, seen, op, target, late>>

Push ==
  /\ rpc # "gone"
  /\ queue' = Append(queue, sent + 1)
  /\ sent' = sent + 1
  /\ pushed' = TRUE
  /\ \/ /\ Capacity = 0
        /\ SGoto("push", "spin")
        /\ target' = sent + 1
        /\ UNCHANGED res
     \/ /\ Capacity # 0
        /\ SReturn("push", "ok")
        /\ UNCHANGED target
  /\ UNCHANGED <<gateVars, receiverVars, seen, op, late>>

SendReturn ==
  /\ SGoto("return", "idle")
  /\ UNCHANGED <<queue, gateVars, receiverVars, sent, seen, op, target, pushed, res, late>>

(* The sender's owner drops it (between calls).                            *)
DropSender ==
  /\ SGoto("idle", "gone")
  /\ UNCHANGED <<queue, gateVars, receiverVars, sent, seen, op, target, pushed, res, late>>

-----------------------------------------------------------------------------
(* The receiver's thread.                                                  *)

RGoto(from, to) == rpc = from /\ rpc' = to

Recv ==
  /\ RGoto("idle", "try")
  /\ rnext' = "idle"
  /\ UNCHANGED <<queue, gateVars, senderVars, received>>

(* The mpsc channel yields a message; took() publishes at a full batch.    *)
Took(from) ==
  /\ queue # <<>>
  /\ queue' = Tail(queue)
  /\ received' = received + 1
  /\ RGoto(from, IF received + 1 - gReceived >= Batch THEN "publish" ELSE "idle")
  /\ rnext' = "idle"
  /\ UNCHANGED <<gateVars, senderVars>>

(* try_recv: a message, the end of the edge, or nothing yet - and then     *)
(* everything taken is published before blocking.                          *)
TryRecv ==
  \/ Took("try")
  \/ /\ queue = <<>>
     /\ \/ /\ spc = "gone"
           /\ RGoto("try", "idle")
           /\ UNCHANGED rnext
        \/ /\ spc # "gone"
           /\ RGoto("try", IF gReceived # received THEN "publish" ELSE "block")
           /\ rnext' = "block"
     /\ UNCHANGED <<queue, gateVars, senderVars, received>>

(* Variant: a count stored one batch behind, which wraps at the start. *)
PublishBehind ==
  /\ RGoto("publish", "notify")
  /\ gReceived' = received - Batch - 1
  /\ UNCHANGED <<queue, waiting, closed, lock, senderVars, received, rnext>>

Publish ==
  /\ RGoto("publish", "notify")
  /\ gReceived' = received
  /\ UNCHANGED <<queue, waiting, closed, lock, senderVars, received, rnext>>

(* notify: only a sender that announced itself is signalled.               *)
Notify ==
  /\ \/ waiting /\ RGoto("notify", "notifyLock")
     \/ ~waiting /\ RGoto("notify", rnext)
  /\ UNCHANGED <<queue, gateVars, senderVars, received, rnext>>

NotifyLock ==
  /\ lock = "free"
  /\ lock' = "receiver"
  /\ RGoto("notifyLock", "signal")
  /\ UNCHANGED <<queue, gReceived, waiting, closed, senderVars, received, rnext>>

(* notify_one wakes the sender if it sleeps; the guard is then dropped.    *)
Signal ==
  /\ RGoto("signal", rnext)
  /\ lock' = "free"
  /\ spc' = IF spc = "asleep" THEN "relock" ELSE spc
  /\ UNCHANGED <<queue, gReceived, waiting, closed, received, rnext,
                 sent, seen, op, target, pushed, res, late>>

(* The blocking receive: a message, or the sender is gone, or (for         *)
(* recv_timeout) the time is up.                                           *)
Block == \/ Took("block")
         \/ /\ queue = <<>> /\ spc = "gone"
            /\ RGoto("block", "idle")
            /\ UNCHANGED <<queue, gateVars, senderVars, received, rnext>>

TimeOut ==
  /\ queue = <<>>
  /\ RGoto("block", "idle")
  /\ UNCHANGED <<queue, gateVars, senderVars, received, rnext>>

(* Variant: a Drop that does not wake the sender. *)
DropReceiverSilently ==
  /\ RGoto("idle", "dropRx")
  /\ closed' = TRUE
  /\ UNCHANGED <<queue, gReceived, waiting, lock, senderVars, received, rnext>>

(* Drop for EdgeReceiver: announce, wake the sender, and only then is the  *)
(* mpsc receiver dropped with what it still holds.                         *)
DropReceiver ==
  /\ RGoto("idle", "notify")
  /\ rnext' = "dropRx"
  /\ closed' = TRUE
  /\ UNCHANGED <<queue, gReceived, waiting, lock, senderVars, received>>

DropRx ==
  /\ RGoto("dropRx", "gone")
  /\ queue' = <<>>
  /\ UNCHANGED <<gateVars, senderVars, received, rnext>>

-----------------------------------------------------------------------------
(* Both ends are gone: nothing more happens on this edge.                  *)
Terminated == spc = "gone" /\ rpc = "gone" /\ UNCHANGED vars

SenderStep == \/ TryClosed \/ RoomCached \/ RoomReload \/ Spin \/ Lock
              \/ Announce \/ Recheck \/ CheckClosed \/ Waited
              \/ PushFails \/ Push \/ SendReturn

ReceiverStep == \/ TryRecv \/ Publish \/ Notify \/ NotifyLock \/ Signal
                \/ Block \/ DropRx

Next == \/ \E o \in {"send", "try"} : Call(o)
        \/ SenderStep \/ SpuriousWake \/ DropSender
        \/ Recv \/ ReceiverStep \/ TimeOut \/ DropReceiver
        \/ Terminated

Spec == Init /\ [][Next]_vars

(* Threads are scheduled, and the loop that owns the receiver either asks  *)
(* for the next message or drops the receiver.  The receiver gets the lock *)
(* in the end even if the sender wakes spuriously again and again: the     *)
(* sender releases it each time it goes back to sleep.  Nothing is assumed *)
(* about timeouts or spurious wake-ups, or about the sender calling again. *)
Fairness == /\ WF_vars(SenderStep)
            /\ WF_vars(ReceiverStep)
            /\ SF_vars(NotifyLock)
            /\ WF_vars(Recv \/ DropReceiver)

FairSpec == Spec /\ Fairness

-----------------------------------------------------------------------------
(* Every variable keeps its type.                                          *)
TypeOK ==
  /\ queue \in Seq(Nat)
  /\ received \in Nat /\ gReceived \in Nat
  /\ waiting \in BOOLEAN /\ closed \in BOOLEAN
  /\ lock \in {"free", "sender", "receiver"}
  /\ sent \in Nat /\ seen \in Nat /\ target \in Nat
  /\ spc \in SenderPCs
  /\ op \in {"send", "try"}
  /\ pushed \in BOOLEAN
  /\ res \in {"none", "ok", "full", "closed"}
  /\ late \in BOOLEAN
  /\ rpc \in ReceiverPCs
  /\ rnext \in {"idle", "block", "dropRx"}

(* The edge never holds more than max(capacity, 1) messages although the   *)
(* channel under it is unbounded and both counters are read and published  *)
(* late.                                                                   *)
Bound == Len(queue) <= Limit

(* A sleeping sender whose condition has come true is about to be woken:   *)
(* the receiver has published (or closed) and has not signalled yet.       *)
NoLostWakeup ==
  (spc = "asleep" /\ (gReceived >= target \/ closed))
    => rpc \in {"notify", "notifyLock", "signal"}

(* The two threads never sleep waiting for each other: a receiver blocked  *)
(* on an empty edge has published everything a sleeping sender waits for.  *)
NoMutualSleep == ~(spc = "asleep" /\ rpc = "block" /\ queue = <<>>)

(* A call that begins after the receiver is gone reports it: nothing is    *)
(* accepted, dropped as a full edge, or waited for.                        *)
ClosedIsLearned == (spc = "return" /\ late) => res = "closed"

(* Every call returns: a blocked sender is released by the messages the    *)
(* receiver takes or by the receiver leaving.                              *)
CallReturns == (spc \notin {"idle", "gone"}) ~> (spc = "idle")

(* The edge implements the bounded FIFO channel the pipeline is written    *)
(* against: order, bound, the meaning of each result, and the hand-off.    *)
CallState ==
  CASE spc = "idle" -> "none"
    [] spc = "gone" -> "gone"
    [] spc = "return" -> res
    [] OTHER -> IF pushed THEN "ok" ELSE op

ReceiverState ==
  CASE rpc = "gone" -> "gone"
    [] rpc # "gone" /\ closed -> "closing"
    [] OTHER -> "up"

Channel == INSTANCE BoundedChannel WITH
             HandOff <- Capacity = 0,
             Lag <- Batch,
             buf <- queue,
             put <- sent,
             call <- CallState,
             receiver <- ReceiverState

ImplementsChannel == Channel!Spec
=============================================================================
