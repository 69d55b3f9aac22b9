----------------------------- MODULE EdgeProofs -----------------------------
(***************************************************************************)
(* Safety of the edge for every capacity.  The inductive invariant IInv is *)
(* the type invariant with six named parts: the counters, the window the   *)
(* sender may fill, the lock and the flag, the pending wake-up, the        *)
(* receiver's leaving, and what each place of the sender's code knows.     *)
(***************************************************************************)
EXTENDS Edge, TLAPS

WaitPCs == {"spin", "lock", "announce", "recheck", "checkClosed", "asleep",
            "relock", "reached", "broken"}
NotifyPCs == {"notify", "notifyLock", "signal"}

(* The receiver never publishes more than it took, the sender never        *)
(* remembers more than was published, and the channel holds the rest.      *)
Counts == /\ gReceived <= received
          /\ received <= gReceived + Batch
          /\ (rpc # "publish" => received < gReceived + Batch)
          /\ seen <= gReceived
          /\ received <= sent
          /\ (rpc # "gone" => sent = received + Len(queue))
          /\ (rpc = "gone" => queue = <<>>)

(* The sender stays within Limit of the published count, and waits for     *)
(* what it needs to stay there.                                            *)
Window == /\ sent <= gReceived + Limit
          /\ (spc = "push" => sent < gReceived + Limit)
          /\ (spc \in WaitPCs =>
                IF pushed THEN target = sent
                ELSE sent >= Limit /\ target = (sent - Limit) + Room)
          /\ (spc = "reached" => gReceived >= target)
          /\ (spc = "broken" => closed)

(* Who holds the lock, and when the flag is certainly up.                  *)
Locking == /\ (spc \in {"announce", "recheck", "checkClosed"} <=> lock = "sender")
           /\ (rpc = "signal" <=> lock = "receiver")
           /\ (spc \in {"recheck", "checkClosed", "asleep", "relock"} => waiting)

(* A condition that comes true after the sender's last look finds the      *)
(* receiver on its way to signal.                                          *)
Wakeup == /\ NoLostWakeup
          /\ (spc = "checkClosed" /\ gReceived >= target => rpc \in {"notify", "notifyLock"})

(* Blocking follows publishing; closed is set exactly from Drop on.        *)
Leaving == /\ (rpc = "block" => gReceived = received)
           /\ (rpc \in NotifyPCs /\ rnext = "block" => gReceived = received)
           /\ (rpc \in {"idle", "try", "publish", "block"} => ~closed)
           /\ (rpc = "publish" => rnext # "dropRx")
           /\ (rpc \in NotifyPCs => (closed <=> rnext = "dropRx"))
           /\ (rpc \in {"dropRx", "gone"} => closed)

(* What the sender's place in the code says of its call.                   *)
Calls == /\ (spc \in {"tryClosed", "room", "push"} => ~pushed)
         /\ (spc \in WaitPCs => op = "send")
         /\ (spc = "tryClosed" => op = "try")
         /\ (spc = "return" => res # "none")
         /\ (Capacity = 0 /\ op = "try" => spc \in {"idle", "tryClosed", "return", "gone"})
         /\ (Capacity = 0 /\ spc = "return" /\ res = "ok" => queue = <<>> \/ closed)

(* What a call that began after the receiver left can still do.            *)
Late == /\ (late => rpc = "gone")
        /\ (late /\ spc \notin {"idle", "gone"} => ~pushed)
        /\ (late /\ op = "try" => spc \in {"idle", "tryClosed", "return", "gone"})
        /\ ClosedIsLearned

IInv == TypeOK /\ Counts /\ Window /\ Locking /\ Wakeup /\ Leaving /\ Calls /\ Late

-----------------------------------------------------------------------------
(* The three derived constants, for every capacity.                        *)
LEMMA ConstantFacts ==
  /\ Limit \in Nat /\ Limit >= 1
  /\ Batch \in Nat /\ Batch >= 1 /\ Batch <= Limit
  /\ Room \in Nat /\ Room >= 1 /\ Room <= Limit
BY CapacityAssumption DEF Limit, Batch, Room, Max2

(* Taking the oldest message off a non-empty channel.                      *)
LEMMA TailFacts ==
  ASSUME NEW q \in Seq(Nat), q # <<>>
  PROVE  /\ Tail(q) \in Seq(Nat)
         /\ Len(q) \in Nat /\ Len(q) >= 1
         /\ Len(Tail(q)) = Len(q) - 1
OBVIOUS

(* The edge() of edge.rs starts in the invariant.                          *)
LEMMA InitInv == Init => IInv
<1> SUFFICES ASSUME Init PROVE IInv
  OBVIOUS
<1> USE ConstantFacts DEF Init
<1>1. TypeOK
  <2>1. queue \in Seq(Nat)
    OBVIOUS
  <2> QED
    BY <2>1 DEF TypeOK, SenderPCs, ReceiverPCs
<1>2. Counts
  BY DEF Counts
<1>3. Window
  BY DEF Window, WaitPCs
<1>4. Locking
  BY DEF Locking
<1>5. Wakeup
  BY DEF Wakeup, NoLostWakeup
<1>6. Leaving
  BY DEF Leaving, NotifyPCs
<1>7. Calls
  BY DEF Calls, WaitPCs
<1>8. Late
  BY DEF Late, ClosedIsLearned
<1> QED
  BY <1>1, <1>2, <1>3, <1>4, <1>5, <1>6, <1>7, <1>8 DEF IInv

(* Every access of either thread keeps the invariant.                      *)
LEMMA StepInv == IInv /\ [Next]_vars => IInv'
<1> SUFFICES ASSUME IInv, [Next]_vars PROVE IInv'
  OBVIOUS
<1> USE ConstantFacts, CapacityAssumption
    DEF IInv, TypeOK, Counts, Window, Locking, Wakeup, NoLostWakeup, Leaving,
        Calls, Late, ClosedIsLearned, SenderPCs, ReceiverPCs, WaitPCs, NotifyPCs,
        SGoto, SReturn, RGoto, Retract, Took,
        senderVars, receiverVars, gateVars
<1>1. CASE \E o \in {"send", "try"} : Call(o)
  <2>1. TypeOK'
    BY <1>1 DEF Call
  <2>2. Counts'
    BY <1>1 DEF Call
  <2>3. Window'
    BY <1>1 DEF Call
  <2>4. Locking'
    BY <1>1 DEF Call
  <2>5. Wakeup'
    BY <1>1 DEF Call
  <2>6. Leaving'
    BY <1>1 DEF Call
  <2>7. Calls'
    BY <1>1 DEF Call
  <2>8. Late'
    BY <1>1 DEF Call
  <2> QED
    BY <2>1, <2>2, <2>3, <2>4, <2>5, <2>6, <2>7, <2>8
<1>2. CASE TryClosed
  BY <1>2 DEF TryClosed
<1>3. CASE RoomCached
  BY <1>3 DEF RoomCached
<1>4. CASE RoomReload
  BY <1>4 DEF RoomReload
<1>5. CASE Spin
  BY <1>5 DEF Spin
<1>6. CASE Lock
  BY <1>6 DEF Lock
<1>7. CASE Announce
  BY <1>7 DEF Announce
<1>8. CASE Recheck
  <2>1. TypeOK'
    BY <1>8 DEF Recheck
  <2>2. Counts'
    BY <1>8 DEF Recheck
  <2>3. Window'
    BY <1>8 DEF Recheck
  <2>4. Locking'
    BY <1>8 DEF Recheck
  <2>5. Wakeup'
    BY <1>8 DEF Recheck
  <2>6. Leaving'
    BY <1>8 DEF Recheck
  <2>7. Calls'
    BY <1>8 DEF Recheck
  <2>8. Late'
    BY <1>8 DEF Recheck
  <2> QED
    BY <2>1, <2>2, <2>3, <2>4, <2>5, <2>6, <2>7, <2>8
<1>9. CASE CheckClosed
  <2>1. TypeOK'
    BY <1>9 DEF CheckClosed
  <2>2. Counts'
    BY <1>9 DEF CheckClosed
  <2>3. Window'
    BY <1>9 DEF CheckClosed
  <2>4. Locking'
    BY <1>9 DEF CheckClosed
  <2>5. Wakeup'
    BY <1>9 DEF CheckClosed
  <2>6. Leaving'
    BY <1>9 DEF CheckClosed
  <2>7. Calls'
    BY <1>9 DEF CheckClosed
  <2>8. Late'
    BY <1>9 DEF CheckClosed
  <2> QED
    BY <2>1, <2>2, <2>3, <2>4, <2>5, <2>6, <2>7, <2>8
<1>10. CASE Waited
  BY <1>10 DEF Waited
<1>11. CASE PushFails
  BY <1>11 DEF PushFails
<1>12. CASE Push
  BY <1>12 DEF Push
<1>13. CASE SendReturn
  BY <1>13 DEF SendReturn
<1>14. CASE SpuriousWake
  BY <1>14 DEF SpuriousWake
<1>15. CASE DropSender
  BY <1>15 DEF DropSender
<1>16. CASE Recv
  BY <1>16 DEF Recv
<1>17. CASE TryRecv
  <2>1. CASE queue # <<>>
    <3>0. queue # <<>> /\ Took("try")
      BY <1>17, <2>1 DEF TryRecv
    <3> DEFINE rest == Tail(queue)
    <3>1. rest \in Seq(Nat) /\ Len(queue) >= 1 /\ Len(rest) = Len(queue) - 1
      BY <3>0, TailFacts
    <3>2. queue' = rest
      BY <3>0
    <3> HIDE DEF rest
    <3>3. TypeOK'
      BY <3>0, <3>1, <3>2
    <3>4. Counts'
      BY <3>0, <3>1, <3>2
    <3>5. Window'
      BY <3>0, <3>1, <3>2
    <3>6. Locking'
      BY <3>0, <3>1, <3>2
    <3>7. Wakeup'
      BY <3>0, <3>1, <3>2
    <3>8. Leaving'
      BY <3>0, <3>1, <3>2
    <3>9. Calls'
      BY <3>0, <3>1, <3>2
    <3>10. Late'
      BY <3>0, <3>1, <3>2
    <3> QED
      BY <3>3, <3>4, <3>5, <3>6, <3>7, <3>8, <3>9, <3>10
  <2>2. CASE queue = <<>>
    <3>1. TypeOK'
      BY <1>17, <2>2 DEF TryRecv
    <3>2. Counts'
      BY <1>17, <2>2 DEF TryRecv
    <3>3. Window'
      BY <1>17, <2>2 DEF TryRecv
    <3>4. Locking'
      BY <1>17, <2>2 DEF TryRecv
    <3>5. Wakeup'
      BY <1>17, <2>2 DEF TryRecv
    <3>6. Leaving'
      BY <1>17, <2>2 DEF TryRecv
    <3>7. Calls'
      BY <1>17, <2>2 DEF TryRecv
    <3>8. Late'
      BY <1>17, <2>2 DEF TryRecv
    <3> QED
      BY <3>1, <3>2, <3>3, <3>4, <3>5, <3>6, <3>7, <3>8
  <2> QED
    BY <2>1, <2>2
<1>18. CASE Publish
  BY <1>18 DEF Publish
<1>19. CASE Notify
  BY <1>19 DEF Notify
<1>20. CASE NotifyLock
  BY <1>20 DEF NotifyLock
<1>21. CASE Signal
  BY <1>21 DEF Signal
<1>22. CASE Block
  <2>1. CASE queue # <<>>
    <3>0. queue # <<>> /\ Took("block")
      BY <1>22, <2>1 DEF Block
    <3> DEFINE rest == Tail(queue)
    <3>1. rest \in Seq(Nat) /\ Len(queue) >= 1 /\ Len(rest) = Len(queue) - 1
      BY <3>0, TailFacts
    <3>2. queue' = rest
      BY <3>0
    <3> HIDE DEF rest
    <3>3. TypeOK'
      BY <3>0, <3>1, <3>2
    <3>4. Counts'
      BY <3>0, <3>1, <3>2
    <3>5. Window'
      BY <3>0, <3>1, <3>2
    <3>6. Locking'
      BY <3>0, <3>1, <3>2
    <3>7. Wakeup'
      BY <3>0, <3>1, <3>2
    <3>8. Leaving'
      BY <3>0, <3>1, <3>2
    <3>9. Calls'
      BY <3>0, <3>1, <3>2
    <3>10. Late'
      BY <3>0, <3>1, <3>2
    <3> QED
      BY <3>3, <3>4, <3>5, <3>6, <3>7, <3>8, <3>9, <3>10
  <2>2. CASE queue = <<>>
    <3>1. TypeOK'
      BY <1>22, <2>2 DEF Block
    <3>2. Counts'
      BY <1>22, <2>2 DEF Block
    <3>3. Window'
      BY <1>22, <2>2 DEF Block
    <3>4. Locking'
      BY <1>22, <2>2 DEF Block
    <3>5. Wakeup'
      BY <1>22, <2>2 DEF Block
    <3>6. Leaving'
      BY <1>22, <2>2 DEF Block
    <3>7. Calls'
      BY <1>22, <2>2 DEF Block
    <3>8. Late'
      BY <1>22, <2>2 DEF Block
    <3> QED
      BY <3>1, <3>2, <3>3, <3>4, <3>5, <3>6, <3>7, <3>8
  <2> QED
    BY <2>1, <2>2
<1>23. CASE DropRx
  BY <1>23 DEF DropRx
<1>24. CASE TimeOut
  BY <1>24 DEF TimeOut
<1>25. CASE DropReceiver
  BY <1>25 DEF DropReceiver
<1>26. CASE UNCHANGED vars
  BY <1>26 DEF vars
<1> QED
  BY <1>1, <1>2, <1>3, <1>4, <1>5, <1>6, <1>7, <1>8, <1>9, <1>10, <1>11, <1>12, <1>13, <1>14, <1>15, <1>16, <1>17, <1>18, <1>19, <1>20, <1>21, <1>22, <1>23, <1>24, <1>25, <1>26 DEF Next, SenderStep, ReceiverStep, Terminated

-----------------------------------------------------------------------------
(* IInv holds in every state of every behaviour, whatever the capacity.    *)
THEOREM EdgeInvariant == Spec => []IInv
<1> QED
  BY InitInv, StepInv, PTL DEF Spec

(* Every variable of the edge keeps its type.                              *)
THEOREM EdgeTypeOK == Spec => []TypeOK
<1>1. IInv => TypeOK
  BY DEF IInv
<1> QED
  BY <1>1, EdgeInvariant, PTL

(* The counters of edge.rs enforce the documented bound: the channel holds *)
(* at most max(capacity, 1) messages.                                      *)
THEOREM EdgeBound == Spec => []Bound
<1>1. IInv => Bound
  <2> SUFFICES ASSUME IInv PROVE Bound
    OBVIOUS
  <2>1. CASE rpc = "gone"
    BY <2>1, ConstantFacts DEF IInv, Counts, Bound
  <2>2. CASE rpc # "gone"
    BY <2>2, ConstantFacts DEF IInv, TypeOK, Counts, Window, Bound
  <2> QED
    BY <2>1, <2>2
<1> QED
  BY <1>1, EdgeInvariant, PTL

(* The flag, the lock and the re-check of wait_until lose no wake-up.      *)
THEOREM EdgeNoLostWakeup == Spec => []NoLostWakeup
<1>1. IInv => NoLostWakeup
  BY DEF IInv, Wakeup
<1> QED
  BY <1>1, EdgeInvariant, PTL

(* Sender and receiver never sleep waiting for each other.                 *)
THEOREM EdgeNoMutualSleep == Spec => []NoMutualSleep
<1>1. IInv => NoMutualSleep
  <2> SUFFICES ASSUME IInv, spc = "asleep", rpc = "block", queue = <<>>
               PROVE  FALSE
    BY DEF NoMutualSleep
  <2>1. gReceived = sent
    BY DEF IInv, TypeOK, Counts, Leaving
  <2>2. gReceived >= target
    BY <2>1, ConstantFacts DEF IInv, TypeOK, Window, WaitPCs
  <2> QED
    BY <2>2 DEF IInv, Wakeup, NoLostWakeup
<1> QED
  BY <1>1, EdgeInvariant, PTL

(* A call begun after the receiver is gone ends in Disconnected.           *)
THEOREM EdgeClosedIsLearned == Spec => []ClosedIsLearned
<1>1. IInv => ClosedIsLearned
  BY DEF IInv, Late
<1> QED
  BY <1>1, EdgeInvariant, PTL

-----------------------------------------------------------------------------
(* The refinement: each step of the edge is a step of the bounded channel  *)
(* or leaves what its users can see unchanged.                             *)
LEMMA ChannelInit == Init => Channel!Init
BY DEF Init, Channel!Init, CallState, ReceiverState

(* Every access of either thread is a channel step or invisible.           *)
LEMMA ChannelStep == IInv /\ [Next]_vars => [Channel!Next]_(Channel!cvars)
<1> SUFFICES ASSUME IInv, [Next]_vars
             PROVE  Channel!Next \/ UNCHANGED Channel!cvars
  OBVIOUS
<1> USE ConstantFacts, CapacityAssumption
    DEF IInv, TypeOK, Counts, Window, Locking, Leaving, Calls, SenderPCs, ReceiverPCs,
        WaitPCs, NotifyPCs, SGoto, SReturn, RGoto, Took,
        senderVars, receiverVars, gateVars, CallState, ReceiverState,
        Channel!cvars, Channel!Pending, Channel!Outcomes
<1>1. CASE \E o \in {"send", "try"} : Call(o)
  <2>1. \E o \in {"send", "try"} : Channel!Begin(o)
    BY <1>1 DEF Call, Channel!Begin
  <2> QED
    BY <2>1 DEF Channel!Next
<1>2. CASE TryClosed
  <2>1. Channel!Fail \/ Channel!Refuse \/ UNCHANGED Channel!cvars
    BY <1>2 DEF TryClosed, Channel!Fail, Channel!Refuse
  <2> QED
    BY <2>1 DEF Channel!Next
<1>3. CASE RoomCached
  <2>1. UNCHANGED Channel!cvars
    BY <1>3 DEF RoomCached
  <2> QED
    BY <2>1
<1>4. CASE RoomReload
  <2>1. CASE sent - gReceived < Limit \/ op = "send"
    <3>1. UNCHANGED <<queue, sent, rpc, closed, op, pushed>> /\ spc = "room" /\ ~pushed
      BY <1>4 DEF RoomReload
    <3>2. spc' \in {"push", "spin"}
      BY <1>4, <2>1, SMT DEF RoomReload
    <3>3. CallState = op /\ CallState' = op /\ UNCHANGED ReceiverState
      BY <3>1, <3>2
    <3>4. UNCHANGED Channel!cvars
      BY <3>1, <3>3
    <3> QED
      BY <3>4
  <2>2. CASE ~(sent - gReceived < Limit \/ op = "send")
    <3>1. CallState = "try" /\ CallState' = "full"
      BY <1>4, <2>2 DEF RoomReload
    <3>2. UNCHANGED <<queue, sent, ReceiverState>>
      BY <1>4 DEF RoomReload
    <3>3. closed \/ Len(queue) + Batch >= Limit
      BY <1>4, <2>2 DEF RoomReload
    <3>4. ReceiverState # "up" \/ Len(queue) + Batch >= Limit
      BY <3>3
    <3>5. Channel!Refuse
      BY <3>1, <3>2, <3>4, Zenon DEF Channel!Refuse
    <3> QED
      BY <3>5 DEF Channel!Next
  <2> QED
    BY <2>1, <2>2
<1>5. CASE Spin
  <2>1. UNCHANGED Channel!cvars
    BY <1>5 DEF Spin
  <2> QED
    BY <2>1
<1>6. CASE Lock
  <2>1. UNCHANGED Channel!cvars
    BY <1>6 DEF Lock
  <2> QED
    BY <2>1
<1>7. CASE Announce
  <2>1. UNCHANGED Channel!cvars
    BY <1>7 DEF Announce
  <2> QED
    BY <2>1
<1>8. CASE Recheck
  <2>1. UNCHANGED Channel!cvars
    BY <1>8 DEF Recheck
  <2> QED
    BY <2>1
<1>9. CASE CheckClosed
  <2>1. UNCHANGED Channel!cvars
    BY <1>9 DEF CheckClosed
  <2> QED
    BY <2>1
<1>10. CASE Waited
  <2>1. Channel!Fail \/ UNCHANGED Channel!cvars
    BY <1>10 DEF Waited, Channel!Fail
  <2> QED
    BY <2>1 DEF Channel!Next
<1>11. CASE PushFails
  <2>1. Channel!Fail
    BY <1>11 DEF PushFails, Channel!Fail
  <2> QED
    BY <2>1 DEF Channel!Next
<1>12. CASE Push
  <2>1. Len(queue) < Limit
    BY <1>12 DEF Push
  <2>2. CallState = op /\ op \in {"send", "try"} /\ (Capacity = 0 => op = "send")
    BY <1>12 DEF Push
  <2>3. queue' = Append(queue, sent + 1) /\ sent' = sent + 1 /\ CallState' = "ok"
    BY <1>12 DEF Push
  <2>4. ReceiverState # "gone" /\ UNCHANGED ReceiverState
    BY <1>12 DEF Push
  <2>5. Channel!Put
    BY <2>1, <2>2, <2>3, <2>4, Zenon DEF Channel!Put
  <2> QED
    BY <2>5 DEF Channel!Next
<1>13. CASE SendReturn
  <2>1. Channel!Return
    BY <1>13 DEF SendReturn, Channel!Return
  <2> QED
    BY <2>1 DEF Channel!Next
<1>14. CASE SpuriousWake
  <2>1. UNCHANGED Channel!cvars
    BY <1>14 DEF SpuriousWake
  <2> QED
    BY <2>1
<1>15. CASE DropSender
  <2>1. Channel!Leave
    BY <1>15 DEF DropSender, Channel!Leave
  <2> QED
    BY <2>1 DEF Channel!Next
<1>16. CASE Recv
  <2>1. UNCHANGED Channel!cvars
    BY <1>16 DEF Recv
  <2> QED
    BY <2>1
<1>17. CASE TryRecv
  <2>1. CASE queue # <<>>
    <3>1. Took("try")
      BY <1>17, <2>1 DEF TryRecv
    <3>2. Channel!Take
      BY <2>1, <3>1 DEF Channel!Take
    <3> QED
      BY <3>2 DEF Channel!Next
  <2>2. CASE queue = <<>>
    <3>1. UNCHANGED Channel!cvars
      BY <1>17, <2>2 DEF TryRecv
    <3> QED
      BY <3>1
  <2> QED
    BY <2>1, <2>2
<1>18. CASE Publish
  <2>1. UNCHANGED Channel!cvars
    BY <1>18 DEF Publish
  <2> QED
    BY <2>1
<1>19. CASE Notify
  <2>1. UNCHANGED Channel!cvars
    BY <1>19 DEF Notify
  <2> QED
    BY <2>1
<1>20. CASE NotifyLock
  <2>1. UNCHANGED Channel!cvars
    BY <1>20 DEF NotifyLock
  <2> QED
    BY <2>1
<1>21. CASE Signal
  <2>1. UNCHANGED Channel!cvars
    BY <1>21 DEF Signal
  <2> QED
    BY <2>1
<1>22. CASE Block
  <2>1. CASE queue # <<>>
    <3>1. Took("block")
      BY <1>22, <2>1 DEF Block
    <3>2. Channel!Take
      BY <2>1, <3>1 DEF Channel!Take
    <3> QED
      BY <3>2 DEF Channel!Next
  <2>2. CASE queue = <<>>
    <3>1. UNCHANGED Channel!cvars
      BY <1>22, <2>2 DEF Block
    <3> QED
      BY <3>1
  <2> QED
    BY <2>1, <2>2
<1>23. CASE DropRx
  <2>1. Channel!Drop
    BY <1>23 DEF DropRx, Channel!Drop
  <2> QED
    BY <2>1 DEF Channel!Next
<1>24. CASE TimeOut
  <2>1. UNCHANGED Channel!cvars
    BY <1>24 DEF TimeOut
  <2> QED
    BY <2>1
<1>25. CASE DropReceiver
  <2>1. Channel!Close
    BY <1>25 DEF DropReceiver, Channel!Close
  <2> QED
    BY <2>1 DEF Channel!Next
<1>26. CASE UNCHANGED vars
  BY <1>26 DEF vars
<1> QED
  BY <1>1, <1>2, <1>3, <1>4, <1>5, <1>6, <1>7, <1>8, <1>9, <1>10, <1>11, <1>12, <1>13, <1>14, <1>15, <1>16, <1>17, <1>18, <1>19, <1>20, <1>21, <1>22, <1>23, <1>24, <1>25, <1>26 DEF Next, SenderStep, ReceiverStep, Terminated

(* The edge implements the bounded FIFO channel its users rely on.         *)
THEOREM EdgeImplementsChannel == Spec => ImplementsChannel
<1> QED
  BY EdgeInvariant, ChannelInit, ChannelStep, PTL
     DEF Spec, ImplementsChannel, Channel!Spec
=============================================================================
