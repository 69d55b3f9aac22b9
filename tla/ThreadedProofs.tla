---------------------------- MODULE ThreadedProofs ----------------------------
(***************************************************************************)
(* Proofs about Threaded, for any number of workers, any scenario and any  *)
(* number of faults: types, the way of an error to the caller and the      *)
(* order of the teardown; then, from USE on, the items and the errors: the *)
(* invariants behind TypeOK, Lossless, InFlight and RootCause.             *)
(***************************************************************************)
EXTENDS Threaded, FiniteSetTheorems, SequenceTheorems, TLAPS

-----------------------------------------------------------------------------
(* Types, and what a thread's place tells of its other fields.             *)

ThreadPCs == {"new", "loop", "stage", "send", "handoff", "sink", "sinkClose", "offer",
              "closeRest", "wait", "closeSource", "drop", "end", "ended"}
Modes == {"run", "finish", "abort", "drop"}
ThreadStates == [pc : ThreadPCs, op : Ops, mode : Modes, err : ErrorSites \cup {None},
                 held : BOOLEAN, attempts : Nat]
Mains == {"start", "spawn", "spawnFailed", "dropRest", "unwindRunner", "join",
          "dlqFlush", "dlqClose", "decide", "ended"}

Types ==
  /\ scenario \in Scenarios
  /\ th \in [Threads -> ThreadStates]
  /\ edge \in [Segments -> [buf : Seq(Ops), rx : BOOLEAN, tx : BOOLEAN]]
  /\ \A e \in Segments : Len(edge[e].buf) <= Limit
  /\ first \in ErrorSites \cup {None} /\ local \in ErrorSites \cup {None}
  /\ main \in Mains /\ next \in Threads
  /\ result \in ErrorSites \cup {None, "ok", "cancelled", "panic"}
  /\ pulled \in 0..MaxItems /\ skipped \in Nat /\ written \in Seq(1..MaxItems)
  /\ calls \in Seq({Canonical[i] : i \in 1..5})
  /\ raised \subseteq ErrorSites /\ panics \subseteq Threads
  /\ ticks \in Nat /\ faults \in Nat

Flags ==
  /\ flushed \in BOOLEAN /\ closed \in BOOLEAN /\ srcClosed \in BOOLEAN
  /\ cancelled \in BOOLEAN /\ byCancel \in BOOLEAN

Shape(t, s) ==
  /\ s.pc \in {"send", "handoff"} => t < Workers
  /\ s.pc \in {"sink", "sinkClose"} => t = Workers
  /\ s.pc \in {"closeRest", "wait", "closeSource"} => t = 0 /\ s.mode # "run"
  /\ s.mode = "finish" => t = 0 /\ s.pc # "offer"
  /\ s.mode = "abort" /\ t > 0 /\ s.pc # "ended" => s.op.kind = "abort"
  /\ s.pc \in {"loop", "new"} => s.mode = "run"
  /\ s.pc = "stage" => s.mode \in {"run", "finish"} /\ ~Closing(s.op)
  /\ s.pc \in {"send", "handoff", "sink", "sinkClose"} /\ s.mode \in {"abort", "drop"}
       => s.op.kind = "abort"
  /\ s.pc = "sinkClose" => s.op.kind = "abort"
  /\ t = 0 /\ s.mode = "run" /\ s.pc \in {"stage", "send", "handoff"}
       => s.op.kind \in {"item", "tick"}
  /\ s.mode = "finish" /\ s.pc = "stage" => s.op.kind = "flush"
  /\ s.mode = "finish" /\ s.pc \in {"send", "handoff"}
       => s.op.kind \in {"flush", "close", "abort"}
  /\ s.pc = "offer" <=> s.err # None
  /\ s.held => s.pc = "sinkClose"
  /\ s.pc = "drop" => s.mode = "drop"
  /\ s.mode = "drop" => s.pc # "offer"
  /\ s.mode # "drop" => s.attempts = 0
  /\ s.attempts <= Attempts(t)

Shapes == \A t \in Threads : Shape(t, th[t])

\* Who was started yet, and who must have ended.
Late == {"dlqFlush", "dlqClose", "decide", "ended"}
Spawned ==
  /\ main \in {"start", "spawn"} => \A t \in Threads : t <= next => th[t].pc = "new"
  /\ main \in {"spawnFailed", "dropRest"} => \A t \in Threads : t < next => th[t].pc = "new"
  /\ main = "start" => next = Workers
  /\ main \in Late => \A t \in Threads : th[t].pc = "ended"

\* A thread that no longer runs its loop in order.
Broken(t) == th[t].mode \in {"abort", "drop"} \/ th[t].pc \in {"offer", "end", "ended"}

-----------------------------------------------------------------------------
(* Errors on their way to the caller.                                      *)

\* A panic outranks every error.
Unwinds == panics # {} \/ main = "unwindRunner"

\* Errors of E that the shared slot has yet to get.
Heading(E) ==
  \/ \E t \in Threads : th[t].pc = "offer" /\ th[t].err \in E
  \/ local \in E /\ th[0].mode # "drop" /\ th[0].pc \notin {"new", "end", "ended"}
  \/ main = "spawnFailed" /\ "spawn" \in E

\* E is ErrorSites, or Causes: if an error of E was raised, the caller gets one.
Reaches(E) ==
  raised \cap E # {} => Unwinds \/ first \in E \/ (first = None /\ Heading(E))

\* What run returns is decided at its end.
Decided ==
  /\ main = "ended" => result \in {"panic", Outcome}
  /\ main # "ended" => result = None

-----------------------------------------------------------------------------
(* One thread's step.                                                      *)

USE WorkersAssumption DEF Threads, Segments, None, At, Closing, Attempts

LEMMA OpsOf ==
  /\ \A k \in {"tick", "flush", "close", "abort"} : Op(k) \in Ops
  /\ \A n \in 1..MaxItems : Item(n) \in Ops
  /\ \A k : Op(k).kind = k /\ Op(k).item = 0
  /\ \A n : Item(n).kind = "item" /\ Item(n).item = n
  BY DEF Ops, Op, Item

LEMMA ErrorsOf ==
  ASSUME Types
  PROVE  Errors \subseteq ErrorSites /\ Panics \subseteq PanicSites /\ MaxItems \in Nat
         /\ MaxTicks \in Nat /\ MaxFaults \in Nat /\ Capacity \in Nat
  BY ScenariosAssumption DEF Types, Scenario, Errors, Panics, MaxItems, MaxTicks, MaxFaults, Capacity

\* Thread t alone moves, to a state of its type and shape.
Moves(t) ==
  /\ th' \in [Threads -> ThreadStates]
  /\ \A u \in Threads : u # t => th'[u] = th[u]
  /\ Shape(t, th'[t])

LEMMA Goes ==
  ASSUME Types, NEW t \in Threads, NEW s \in ThreadStates, Shape(t, s), Go(t, s)
  PROVE  Moves(t) /\ th'[t] = s
  BY DEF Types, Go, Moves

LEMMA OkShape ==
  ASSUME Types, Shapes, NEW t \in Threads,
         th[t].pc \in {"stage", "send", "handoff", "sink", "sinkClose"}, ~th[t].held
  PROVE  OkState(t) \in ThreadStates /\ Shape(t, OkState(t))
  <1>1. th[t] \in ThreadStates /\ Shape(t, th[t])
    BY DEF Types, Shapes
  <1>2. OkState(t) \in ThreadStates
   BY <1>1, OpsOf DEF ThreadStates, ThreadPCs, Modes, OkState, Outlet
  <1>3. Shape(t, OkState(t))
   BY <1>1, OpsOf DEF ThreadStates, Modes, OkState, Shape, Outlet
  <1> QED
    BY <1>2, <1>3

LEMMA AbortShape ==
  ASSUME Types, Shapes, NEW t \in Threads, th[t].mode # "drop", ~th[t].held
  PROVE  Abort(t) \in ThreadStates /\ Shape(t, Abort(t))
  <1>1. th[t] \in ThreadStates /\ Shape(t, th[t])
    BY DEF Types, Shapes
  <1>2. Abort(t) \in ThreadStates
   BY <1>1, OpsOf DEF ThreadStates, ThreadPCs, Modes, Abort, Outlet
  <1>3. Shape(t, Abort(t))
   BY <1>1, OpsOf DEF ThreadStates, Modes, Abort, Shape, Outlet
  <1> QED
    BY <1>2, <1>3

LEMMA GiveUpShape ==
  ASSUME Types, Shapes, NEW t \in Threads, ~th[t].held,
         th[t].pc \in {"stage", "send", "sink", "sinkClose", "loop", "offer"}
  PROVE  GiveUp(t) \in ThreadStates /\ Shape(t, GiveUp(t))
  <1>1. th[t] \in ThreadStates /\ Shape(t, th[t])
    BY DEF Types, Shapes
  <1>2. GiveUp(t) \in ThreadStates
   BY <1>1, OpsOf, AbortShape DEF ThreadStates, ThreadPCs, Modes, GiveUp, Outlet
  <1>3. Shape(t, GiveUp(t))
   BY <1>1, OpsOf, AbortShape DEF ThreadStates, Modes, GiveUp, Shape, Outlet
  <1> QED
    BY <1>2, <1>3

LEMMA PanicShape ==
  ASSUME Types, Shapes, NEW t \in Threads,
         th[t].pc \in {"stage", "sink", "sinkClose", "loop", "offer", "closeSource"}
  PROVE  PanicState(t) \in ThreadStates /\ Shape(t, PanicState(t))
  <1>1. th[t] \in ThreadStates /\ Shape(t, th[t])
    BY DEF Types, Shapes
  <1>2. PanicState(t) \in ThreadStates
   BY <1>1, OpsOf DEF ThreadStates, ThreadPCs, Modes, PanicState
  <1>3. Shape(t, PanicState(t))
   BY <1>1, OpsOf DEF ThreadStates, Modes, PanicState, Shape
  <1> QED
    BY <1>2, <1>3

LEMMA FailedMoves ==
  ASSUME Types, Shapes, NEW t \in Threads, NEW e \in ErrorSites, Failed(t, e),
         th[t].pc \in {"stage", "sink", "sinkClose"} \/ (t = 0 /\ th[t].pc = "loop")
  PROVE  Moves(t)
  <1>1. th[t] \in ThreadStates /\ Shape(t, th[t])
    BY DEF Types, Shapes
  <1>2. CASE th[t].mode \in {"run", "abort"}
    <2> DEFINE s == [th[t] EXCEPT !.pc = "offer", !.err = e, !.held = FALSE]
    <2>1. Go(t, s)
      BY <1>2 DEF Failed
    <2>2. s \in ThreadStates /\ Shape(t, s)
      BY <1>1, <1>2 DEF ThreadStates, ThreadPCs, Shape, ErrorSites
    <2> QED
      BY <2>1, <2>2, Goes
  <1>3. CASE th[t].mode = "finish"
    <2>1. Go(t, GiveUp(t))
      BY <1>3 DEF Failed
    <2>2. ~th[t].held /\ th[t].pc \in {"stage", "sink", "sinkClose", "loop"}
      BY <1>1, <1>3 DEF Shape
    <2> QED
      BY <2>1, <2>2, GiveUpShape, Goes
  <1>4. CASE th[t].mode = "drop"
    <2> DEFINE s == [th[t] EXCEPT !.pc = "end", !.held = FALSE]
    <2>1. Go(t, s)
      BY <1>4 DEF Failed
    <2>2. s \in ThreadStates /\ Shape(t, s)
      BY <1>1, <1>4 DEF ThreadStates, ThreadPCs, Shape
    <2> QED
      BY <2>1, <2>2, Goes
  <1> QED
    BY <1>1, <1>2, <1>3, <1>4 DEF ThreadStates, Modes

LEMMA PanickedMoves ==
  ASSUME Types, Shapes, NEW t \in Threads, NEW e, Panicked(t, e),
         th[t].pc \in {"stage", "sink", "sinkClose", "loop", "offer", "closeSource"}
  PROVE  Moves(t)
  BY PanicShape, Goes DEF Panicked

LEMMA FineMoves ==
  ASSUME Types, Shapes, NEW t \in Threads, NEW s \in ThreadStates, Shape(t, s), Fine(t, s)
  PROVE  Moves(t)
  BY Goes DEF Fine

\* Nobody else's program counter tells of more than its own fields.
LEMMA ShapeOf ==
  ASSUME Types, Shapes, NEW t \in Threads
  PROVE  th[t] \in ThreadStates /\ Shape(t, th[t])
  BY DEF Types, Shapes

LEMMA StageMoves ==
  ASSUME Types, Shapes, NEW t \in Threads, Stage(t)
  PROVE  Moves(t)
  <1> DEFINE k == th[t].op.kind
             site == IF t = 0 /\ k = "flush" THEN "sourceFlush" ELSE k
             s == [th[t] EXCEPT !.pc = Outlet(t)]
  <1>1. th[t].pc = "stage" /\ ~th[t].held
    BY ShapeOf DEF Stage, Shape
  <1>2. CASE Fine(t, s)
    <2>1. s \in ThreadStates /\ Shape(t, s)
      BY <1>1, ShapeOf DEF ThreadStates, ThreadPCs, Shape, Outlet
    <2> QED
      BY <1>2, <2>1, FineMoves
  <1>3. CASE Go(t, OkState(t))
    BY <1>1, <1>3, OkShape, Goes
  <1>4. CASE Failed(t, site) /\ Raise(site)
    <2>1. site \in ErrorSites
      BY <1>4, ErrorsOf DEF Raise, Bound
    <2> HIDE DEF site
    <2> QED
      BY <1>1, <1>4, <2>1, FailedMoves
  <1>5. CASE Panicked(t, k)
    BY <1>1, <1>5, PanickedMoves
  <1> QED
    BY <1>2, <1>3, <1>4, <1>5 DEF Stage

LEMMA SendMoves ==
  ASSUME Types, Shapes, NEW t \in Threads, Send(t)
  PROVE  Moves(t)
  <1>1. th[t].pc = "send" /\ ~th[t].held
    BY ShapeOf DEF Send, Shape
  <1>2. OkState(t) \in ThreadStates /\ Shape(t, OkState(t))
    BY <1>1, OkShape
  <1>3. GiveUp(t) \in ThreadStates /\ Shape(t, GiveUp(t))
    BY <1>1, GiveUpShape
  <1>4. Sent(t) \in ThreadStates /\ Shape(t, Sent(t))
    BY <1>1, <1>2, ShapeOf DEF Sent, ThreadStates, ThreadPCs, Shape
  <1>5. Go(t, OkState(t)) \/ Go(t, GiveUp(t)) \/ Go(t, Sent(t))
    BY DEF Send, Fine, Disconnected
  <1> QED
    BY <1>2, <1>3, <1>4, <1>5, Goes

LEMMA HandedOffMoves ==
  ASSUME Types, Shapes, NEW t \in Threads, HandedOff(t)
  PROVE  Moves(t)
  <1>1. th[t].pc = "handoff" /\ ~th[t].held
    BY ShapeOf DEF HandedOff, Shape
  <1> QED
    BY <1>1, OkShape, FineMoves DEF HandedOff

LEMMA OutcomeMoves ==
  ASSUME Types, Shapes, NEW t \in Threads, NEW e, SinkOutcome(t, e),
         th[t].pc \in {"stage", "sink"}
  PROVE  Moves(t)
  <1>1. ~th[t].held
    BY ShapeOf DEF Shape
  <1>2. CASE Failed(t, e) /\ Raise(e)
    BY <1>2, FailedMoves, ErrorsOf DEF Raise, Bound
  <1> QED
    BY <1>1, <1>2, OkShape, FineMoves, PanickedMoves DEF SinkOutcome

LEMMA SinkItemMoves ==
  ASSUME Types, Shapes, NEW t \in Threads, SinkItem(t)
  PROVE  Moves(t)
  <1>1. th[t].pc = "sink" /\ SinkOutcome(t, "write")
    BY DEF SinkItem, SinkOutcome
  <1> QED
    BY <1>1, OutcomeMoves

LEMMA SinkFlushMoves ==
  ASSUME Types, Shapes, NEW t \in Threads, SinkFlush(t)
  PROVE  Moves(t)
  BY OutcomeMoves DEF SinkFlush

LEMMA SinkCloseMoves ==
  ASSUME Types, Shapes, NEW t \in Threads, SinkClose(t)
  PROVE  Moves(t)
  BY OutcomeMoves DEF SinkClose

LEMMA AbortFlushMoves ==
  ASSUME Types, Shapes, NEW t \in Threads, t = Workers, AbortFlush(t)
  PROVE  Moves(t)
  <1> DEFINE s == [th[t] EXCEPT !.pc = "sinkClose"]
             h == [th[t] EXCEPT !.pc = "sinkClose", !.held = TRUE]
  <1>1. th[t].pc = "sink" /\ th[t].op.kind = "abort"
    BY DEF AbortFlush
  <1>2. s \in ThreadStates /\ Shape(t, s) /\ h \in ThreadStates /\ Shape(t, h)
    BY <1>1, ShapeOf DEF ThreadStates, ThreadPCs, Shape
  <1>3. Go(t, s) \/ Go(t, h) \/ Panicked(t, AbortSite(t))
    BY DEF AbortFlush, Fine
  <1> QED
    BY <1>1, <1>2, <1>3, Goes, PanickedMoves

LEMMA AbortCloseMoves ==
  ASSUME Types, Shapes, NEW t \in Threads, AbortClose(t)
  PROVE  Moves(t)
  <1>1. th[t].pc = "sinkClose" /\ "abort" \in ErrorSites
    BY DEF AbortClose, ErrorSites
  <1>2. \/ ~th[t].held /\ Fine(t, OkState(t))
        \/ Failed(t, "abort") \/ Panicked(t, AbortSite(t))
    BY DEF AbortClose
  <1> QED
    BY <1>1, <1>2, FailedMoves, OkShape, FineMoves, PanickedMoves

LEMMA EnterShape ==
  ASSUME Types, Shapes, NEW t \in Threads, NEW op \in Ops, th[t].pc = "loop",
         t = 0 => op.kind \in {"item", "tick"}
  PROVE  Enter(t, op) \in ThreadStates /\ Shape(t, Enter(t, op))
  <1>1. Enter(t, op) \in ThreadStates
    BY ShapeOf DEF ThreadStates, ThreadPCs, Enter, Outlet
  <1>2. Shape(t, Enter(t, op))
    BY ShapeOf DEF ThreadStates, Shape, Enter, Outlet
  <1> QED
    BY <1>1, <1>2

LEMMA FinishShape ==
  ASSUME Types, Shapes, th[0].pc = "loop", NEW op \in Ops, op.kind = "flush"
  PROVE  /\ [Enter(0, op) EXCEPT !.mode = "finish"] \in ThreadStates
         /\ Shape(0, [Enter(0, op) EXCEPT !.mode = "finish"])
  <1> DEFINE s == [Enter(0, op) EXCEPT !.mode = "finish"]
  <1>1. s \in ThreadStates
    <2>1. th[0] \in ThreadStates /\ "stage" \in ThreadPCs /\ "finish" \in Modes
      BY ShapeOf DEF ThreadPCs, Modes
    <2>2. s = [th[0] EXCEPT !.op = op, !.pc = "stage", !.mode = "finish"]
      BY DEF Enter
    <2> HIDE DEF s
    <2> QED
      BY <2>1, <2>2 DEF ThreadStates
  <1>2. Shape(0, s)
    BY ShapeOf DEF ThreadStates, Shape, Enter
  <1> QED
    BY <1>1, <1>2

LEMMA PumpMoves ==
  ASSUME Types, Shapes, Pump
  PROVE  Moves(0)
  <1> DEFINE f == [Enter(0, Op("flush")) EXCEPT !.mode = "finish"]
             i == Enter(0, Item(pulled + 1))
             k == Enter(0, Op("tick"))
  <1>1. th[0].pc = "loop" /\ 0 \in Threads /\ "pull" \in ErrorSites
    BY DEF Pump, ErrorSites
  <1>2. f \in ThreadStates /\ Shape(0, f) /\ k \in ThreadStates /\ Shape(0, k)
    BY <1>1, OpsOf, EnterShape, FinishShape
  <1>3. ASSUME pulled < MaxItems
        PROVE  i \in ThreadStates /\ Shape(0, i)
    <2>1. Item(pulled + 1) \in Ops
      BY <1>3, OpsOf, ErrorsOf DEF Types
    <2> QED
      BY <1>1, <2>1, OpsOf, EnterShape
  <1>4. \/ Fine(0, f) \/ Fine(0, k) \/ (pulled < MaxItems /\ Fine(0, i))
        \/ Failed(0, "pull") \/ Panicked(0, "pull")
    BY DEF Pump
  <1> HIDE DEF f, i, k
  <1> QED
    BY <1>1, <1>2, <1>3, <1>4, FineMoves, FailedMoves, PanickedMoves

LEMMA RecvMoves ==
  ASSUME Types, Shapes, NEW t \in Threads, Recv(t)
  PROVE  Moves(t)
  <1> DEFINE r == Enter(t, Head(edge[t].buf))
             k == Enter(t, Op("tick"))
  <1>1. th[t].pc = "loop" /\ t \in Segments /\ th[t].mode = "run" /\ ~th[t].held
    BY ShapeOf DEF Recv, Shape
  <1>2. k \in ThreadStates /\ Shape(t, k)
    BY <1>1, OpsOf, EnterShape
  <1>3. ASSUME edge[t].buf # <<>>
        PROVE  r \in ThreadStates /\ Shape(t, r)
    <2>1. Head(edge[t].buf) \in Ops
      BY <1>1, <1>3 DEF Types
    <2> QED
      BY <1>1, <2>1, EnterShape
  <1>4. \/ Go(t, k) \/ (edge[t].buf # <<>> /\ Go(t, r)) \/ Go(t, Abort(t))
    BY DEF Recv
  <1> HIDE DEF r, k
  <1> QED
    BY <1>1, <1>2, <1>3, <1>4, Goes, AbortShape

LEMMA OfferMoves ==
  ASSUME Types, Shapes, NEW t \in Threads, Offer(t)
  PROVE  Moves(t)
  <1>1. th[t].pc = "offer" /\ ~th[t].held
    BY ShapeOf DEF Offer, Shape
  <1> QED
    BY <1>1, GiveUpShape, FineMoves, PanickedMoves DEF Offer

LEMMA CloseRestMoves ==
  ASSUME Types, Shapes, CloseRest
  PROVE  Moves(0)
  <1> DEFINE s == [th[0] EXCEPT !.pc = "wait"]
  <1>1. th[0].pc = "closeRest" /\ 0 \in Threads
    BY DEF CloseRest
  <1>2. s \in ThreadStates /\ Shape(0, s)
    BY <1>1, ShapeOf DEF ThreadStates, ThreadPCs, Shape
  <1> QED
    BY <1>1, <1>2, Goes DEF CloseRest

LEMMA SegmentsDoneMoves ==
  ASSUME Types, Shapes, SegmentsDone
  PROVE  Moves(0)
  <1> DEFINE s == [th[0] EXCEPT !.pc = "closeSource"]
  <1>1. th[0].pc = "wait" /\ 0 \in Threads
    BY DEF SegmentsDone
  <1>2. s \in ThreadStates /\ Shape(0, s)
    BY <1>1, ShapeOf DEF ThreadStates, ThreadPCs, Shape
  <1> QED
    BY <1>1, <1>2, FineMoves DEF SegmentsDone

LEMMA CloseSourceMoves ==
  ASSUME Types, Shapes, CloseSource
  PROVE  Moves(0)
  <1>1. th[0].pc = "closeSource" /\ 0 \in Threads /\ "sourceClose" \in ErrorSites
    BY DEF CloseSource, ErrorSites
  <1>2. ASSUME NEW e \in ErrorSites \cup {None}
        PROVE  Closed(e) \in ThreadStates /\ Shape(0, Closed(e))
    <2>1. Closed(e) \in ThreadStates
      BY <1>1, ShapeOf DEF ThreadStates, ThreadPCs, Modes, Closed
    <2>2. Shape(0, Closed(e))
      BY <1>1, ShapeOf DEF ThreadStates, Shape, Closed
    <2> QED
      BY <2>1, <2>2
  <1>3. local \in ErrorSites \cup {None}
    BY DEF Types
  <1>4. \/ \E e \in ErrorSites \cup {None} : Go(0, Closed(e))
        \/ Panicked(0, "sourceClose")
    BY <1>1, <1>3 DEF CloseSource
  <1> QED
    BY <1>1, <1>2, <1>4, Goes, PanickedMoves

LEMMA DropMoves ==
  ASSUME Types, Shapes, NEW t \in Threads, Drop(t)
  PROVE  Moves(t)
  <1> DEFINE e == [th[t] EXCEPT !.pc = "end"]
             a == [th[t] EXCEPT !.attempts = @ + 1, !.op = Op("abort"),
                                !.pc = IF t = 0 /\ ~edge[1].tx THEN "closeSource"
                                                              ELSE Outlet(t)]
  <1>1. th[t].pc = "drop"
    BY DEF Drop
  <1>2. e \in ThreadStates /\ Shape(t, e)
    BY <1>1, ShapeOf DEF ThreadStates, ThreadPCs, Shape
  <1>3. ASSUME th[t].attempts # Attempts(t)
        PROVE  a \in ThreadStates /\ Shape(t, a)
    <2>1. a \in ThreadStates
      <3>1. Op("abort") \in Ops /\ th[t].attempts + 1 \in Nat /\ th[t] \in ThreadStates
        BY ShapeOf, OpsOf DEF ThreadStates
      <3> QED
        BY <3>1 DEF ThreadStates, ThreadPCs, Outlet
    <2>2. Shape(t, a)
      BY <1>1, <1>3, ShapeOf, OpsOf DEF ThreadStates, Shape, Outlet
    <2> QED
      BY <2>1, <2>2
  <1>4. Fine(t, e) \/ (th[t].attempts # Attempts(t) /\ Fine(t, a))
    BY DEF Drop
  <1> HIDE DEF e, a
  <1> QED
    BY <1>2, <1>3, <1>4, FineMoves

LEMMA EndMoves ==
  ASSUME Types, Shapes, NEW t \in Threads, End(t)
  PROVE  Moves(t)
  <1> DEFINE s == [th[t] EXCEPT !.pc = "ended", !.op = Op("tick"), !.attempts = 0]
  <1>1. th[t].pc = "end"
    BY DEF End
  <1>2. s \in ThreadStates /\ Shape(t, s)
    <2>1. s \in ThreadStates
      BY <1>1, ShapeOf, OpsOf DEF ThreadStates, ThreadPCs
    <2>2. Shape(t, s)
      BY <1>1, ShapeOf, OpsOf DEF ThreadStates, Shape
    <2> QED
      BY <2>1, <2>2
  <1>4. Go(t, s)
    BY DEF End
  <1> HIDE DEF s
  <1> QED
    BY <1>2, <1>4, Goes

LEMMA ThreadMoves ==
  ASSUME Types, Shapes, NEW t \in Threads, ThreadStep(t)
  PROVE  Moves(t)
  BY StageMoves, SendMoves, HandedOffMoves, SinkItemMoves, SinkFlushMoves, SinkCloseMoves,
     AbortFlushMoves, AbortCloseMoves, PumpMoves, RecvMoves, OfferMoves, CloseRestMoves,
     SegmentsDoneMoves, CloseSourceMoves, DropMoves, EndMoves
     DEF ThreadStep, SinkStep, SourceStep

\* What one thread's step may do to the edges.
EdgeStates == [buf : Seq(Ops), rx : BOOLEAN, tx : BOOLEAN]
EdgesTyped(ed) ==
  /\ ed \in [Segments -> EdgeStates]
  /\ \A e \in Segments : Len(ed[e].buf) <= Limit
Loses(t) == /\ t > 0 /\ th[t].mode = "run" /\ Broken(t)'
            /\ edge' = [edge EXCEPT ![t].rx = FALSE, ![t].buf = <<>>]
Appends(t) == /\ t < Workers /\ th[t].pc = "send" /\ edge[t + 1].rx
              /\ Len(edge[t + 1].buf) < Limit
              /\ edge' = [edge EXCEPT ![t + 1].buf = Append(@, th[t].op)]
              /\ Go(t, Sent(t))
Takes(t) == /\ t > 0 /\ th[t].pc = "loop" /\ edge[t].buf # <<>>
            /\ edge' = [edge EXCEPT ![t].buf = Tail(@)]
            /\ Go(t, Enter(t, Head(edge[t].buf)))

LEMMA LimitIs ==
  ASSUME Types
  PROVE  Limit \in Nat \ {0}
  BY ErrorsOf DEF Limit

LEMMA EdgeSteps ==
  ASSUME Types, Shapes, NEW t \in Threads, ThreadStep(t)
  PROVE  \/ UNCHANGED edge
         \/ Loses(t) \/ Appends(t) \/ Takes(t)
         \/ t = 0 /\ CloseRest
         \/ End(t)
  <1>0. ASSUME NEW s, Go(t, s), s.mode = "abort" \/ s.pc \in {"offer", "end"}, LoseRx(t)
        PROVE  UNCHANGED edge \/ Loses(t)
    <2>1. Broken(t)'
      BY <1>0 DEF Types, Go, Broken
    <2> QED
      BY <1>0, <2>1 DEF LoseRx, Loses
  <1>1. ASSUME NEW x, Failed(t, x)
        PROVE  UNCHANGED edge \/ Loses(t)
    <2>1. [th[t] EXCEPT !.pc = "offer", !.err = x, !.held = FALSE].pc = "offer"
      BY ShapeOf DEF ThreadStates
    <2> QED
      BY <1>0, <1>1, <2>1 DEF Failed, LoseRx
  <1>2. ASSUME NEW x, Panicked(t, x) \/ Fine(t, x)
        PROVE  UNCHANGED edge
    BY <1>2 DEF Panicked, Fine
  <1>3. ASSUME NEW x, SinkOutcome(t, x)
        PROVE  UNCHANGED edge \/ Loses(t)
    BY <1>1, <1>2, <1>3 DEF SinkOutcome
  <1>4. Stage(t) => UNCHANGED edge \/ Loses(t)
    BY <1>1, <1>2 DEF Stage
  <1>5. Send(t) => UNCHANGED edge \/ Loses(t) \/ Appends(t)
    <2>1. ASSUME Send(t), Disconnected(t)
          PROVE  UNCHANGED edge \/ Loses(t)
      <3>1. CASE th[t].mode = "run" /\ t > 0
        <4>1. GiveUp(t).mode = "abort" \/ GiveUp(t).pc = "end"
          BY <3>1, ShapeOf DEF GiveUp, Abort, ThreadStates
        <4> QED
          BY <1>0, <2>1, <4>1 DEF Disconnected
      <3> QED
        BY <2>1, <3>1 DEF Disconnected, LoseRx
    <2>2. Send(t) => t < Workers /\ th[t].pc = "send"
      BY ShapeOf DEF Send, Shape
    <2> QED
      BY <1>2, <2>1, <2>2 DEF Send, Appends
  <1>6. HandedOff(t) \/ Offer(t) \/ Drop(t) => UNCHANGED edge
    BY <1>2 DEF HandedOff, Offer, Drop
  <1>7. SinkItem(t) \/ SinkFlush(t) \/ SinkClose(t) => UNCHANGED edge \/ Loses(t)
    BY <1>1, <1>2, <1>3 DEF SinkItem, SinkFlush, SinkClose
  <1>8. AbortFlush(t) \/ AbortClose(t) => UNCHANGED edge \/ Loses(t)
    BY <1>1, <1>2 DEF AbortFlush, AbortClose
  <1>9. t = 0 /\ Pump => UNCHANGED edge \/ Loses(t)
    BY <1>1, <1>2 DEF Pump
  <1>10. t = 0 /\ (SegmentsDone \/ CloseSource) => UNCHANGED edge
    BY <1>2 DEF SegmentsDone, CloseSource
  <1>11. Recv(t) => UNCHANGED edge \/ Loses(t) \/ Takes(t)
    <2>1. Abort(t).mode = "abort"
      BY ShapeOf DEF Abort, ThreadStates
    <2> QED
      BY <1>0, <2>1 DEF Recv, Takes
  <1> QED
    BY <1>4, <1>5, <1>6, <1>7, <1>8, <1>9, <1>10, <1>11 DEF ThreadStep, SinkStep, SourceStep

LEMMA EdgeFields ==
  ASSUME NEW r \in EdgeStates, NEW b \in Seq(Ops)
  PROVE  /\ [r EXCEPT !.rx = FALSE, !.buf = b] \in EdgeStates
         /\ [r EXCEPT !.buf = b] \in EdgeStates /\ [r EXCEPT !.tx = FALSE] \in EdgeStates
         /\ [r EXCEPT !.rx = FALSE, !.buf = b].buf = b /\ [r EXCEPT !.buf = b].buf = b
         /\ [r EXCEPT !.tx = FALSE].buf = r.buf
  BY DEF EdgeStates

LEMMA EdgeReplaced ==
  ASSUME Types, NEW e \in Segments, NEW r \in EdgeStates, Len(r.buf) <= Limit
  PROVE  EdgesTyped([edge EXCEPT ![e] = r])
  BY DEF Types, EdgesTyped, EdgeStates

LEMMA EdgeTypes ==
  ASSUME Types, Shapes, NEW t \in Threads, ThreadStep(t)
  PROVE  EdgesTyped(edge')
  <1>1. EdgesTyped(edge) /\ Limit \in Nat \ {0} /\ th[t].op \in Ops
    BY LimitIs, ShapeOf DEF Types, EdgesTyped, EdgeStates, ThreadStates
  <1>2. CASE UNCHANGED edge
    BY <1>1, <1>2
  <1>3. CASE Loses(t)
    <2> DEFINE r == [edge[t] EXCEPT !.rx = FALSE, !.buf = <<>>]
    <2>1. t \in Segments /\ edge[t] \in EdgeStates
      BY <1>1, <1>3 DEF Loses, EdgesTyped
    <2>2. edge' = [edge EXCEPT ![t] = r]
      BY <1>1, <1>3, <2>1 DEF Loses, EdgesTyped
    <2>3. r \in EdgeStates /\ Len(r.buf) <= Limit
      <3>1. <<>> \in Seq(Ops) /\ Len(<<>>) = 0
        BY EmptySeq
      <3>2. r \in EdgeStates /\ r.buf = <<>>
        BY <2>1, <3>1, EdgeFields, Zenon
      <3> QED
        BY <1>1, <3>1, <3>2
    <2> QED
      BY <2>1, <2>2, <2>3, EdgeReplaced
  <1>4. CASE Appends(t)
    <2> DEFINE r == [edge[t + 1] EXCEPT !.buf = Append(@, th[t].op)]
    <2>1. t + 1 \in Segments
      BY <1>4 DEF Appends
    <2>2. edge' = [edge EXCEPT ![t + 1] = r]
      BY <1>4 DEF Appends
    <2>3. r \in EdgeStates /\ Len(r.buf) <= Limit
      <3>1. edge[t + 1] \in EdgeStates /\ edge[t + 1].buf \in Seq(Ops)
        BY <1>1, <2>1 DEF EdgesTyped, EdgeStates
      <3>2. /\ Append(edge[t + 1].buf, th[t].op) \in Seq(Ops)
            /\ Len(Append(edge[t + 1].buf, th[t].op)) <= Limit
        BY <1>1, <1>4, <3>1, AppendProperties DEF Appends
      <3> QED
        BY <3>1, <3>2, EdgeFields
    <2> QED
      BY <2>1, <2>2, <2>3, EdgeReplaced
  <1>5. CASE Takes(t)
    <2> DEFINE r == [edge[t] EXCEPT !.buf = Tail(@)]
    <2>1. t \in Segments
      BY <1>5 DEF Takes
    <2>2. edge' = [edge EXCEPT ![t] = r]
      BY <1>5 DEF Takes
    <2>3. r \in EdgeStates /\ Len(r.buf) <= Limit
      <3>1. edge[t] \in EdgeStates /\ edge[t].buf \in Seq(Ops) /\ Len(edge[t].buf) <= Limit
        BY <1>1, <2>1 DEF EdgesTyped, EdgeStates
      <3>2. Tail(edge[t].buf) \in Seq(Ops) /\ Len(Tail(edge[t].buf)) <= Limit
        BY <1>1, <1>5, <3>1, HeadTailProperties DEF Takes
      <3> QED
        BY <3>1, <3>2 DEF EdgeStates
    <2> QED
      BY <2>1, <2>2, <2>3, EdgeReplaced
  <1>6. CASE CloseRest
    <2> DEFINE r == [edge[1] EXCEPT !.tx = FALSE]
    <2>1. 1 \in Segments /\ edge[1] \in EdgeStates /\ edge[1].buf \in Seq(Ops)
      BY <1>1 DEF EdgesTyped, EdgeStates
    <2>2. edge' = [edge EXCEPT ![1] = r]
      BY <1>6 DEF CloseRest
    <2>3. r \in EdgeStates /\ Len(r.buf) <= Limit
      BY <1>1, <2>1, EdgeFields DEF EdgesTyped
    <2> QED
      BY <2>1, <2>2, <2>3, EdgeReplaced
  <1>7. CASE End(t)
    <2>1. edge' \in [Segments -> EdgeStates]
      BY <1>1, <1>7 DEF EdgesTyped, EdgeStates, End
    <2>2. \A e \in Segments : edge'[e].buf \in {edge[e].buf, <<>>}
      BY <1>7 DEF End
    <2>3. \A e \in Segments : Len(edge'[e].buf) <= Limit
      BY <1>1, <2>2, EmptySeq DEF EdgesTyped
    <2> QED
      BY <2>1, <2>3 DEF EdgesTyped
  <1> QED
    BY <1>2, <1>3, <1>4, <1>5, <1>6, <1>7, EdgeSteps

LEMMA OpItem ==
  ASSUME NEW op \in Ops
  PROVE  /\ op.kind \in {"item", "tick", "flush", "close", "abort"}
         /\ op.kind = "item" => op.item \in 1..MaxItems
         /\ op.kind # "item" => op.item = 0
  BY DEF Ops, Op, Item

\* What an outcome leaves behind, and the calls made.
OutcomeTyped ==
  /\ local' \in ErrorSites \cup {None}
  /\ raised' \subseteq ErrorSites /\ panics' \subseteq Threads /\ faults' \in Nat

LEMMA Outcomes ==
  ASSUME Types, Shapes, NEW t \in Threads, ThreadStep(t)
  PROVE  OutcomeTyped
  <1>1. ASSUME UNCHANGED <<local, raised, panics>>, UNCHANGED faults \/ faults' = faults + 1
        PROVE  OutcomeTyped
    BY <1>1 DEF OutcomeTyped, Types
  <1>2. ASSUME NEW s, Fine(t, s)
        PROVE  OutcomeTyped
    BY <1>1, <1>2 DEF Fine, Calm
  <1>3. ASSUME NEW e, Panicked(t, e)
        PROVE  OutcomeTyped
    BY <1>3 DEF Panicked, Bound, OutcomeTyped, Types
  <1>4. ASSUME NEW e \in ErrorSites, Failed(t, e), UNCHANGED faults \/ faults' = faults + 1
        PROVE  OutcomeTyped
    <2>1. panics' = panics /\ raised' \in {raised, raised \cup {e}} /\ local' \in {local, e}
      BY <1>4, ShapeOf DEF Failed, ThreadStates, Modes
    <2> QED
      BY <1>4, <2>1 DEF OutcomeTyped, Types
  <1>5. ASSUME NEW e, Failed(t, e) /\ Raise(e)
        PROVE  OutcomeTyped
    BY <1>4, <1>5, ErrorsOf DEF Raise, Bound
  <1>6. ASSUME NEW e, SinkOutcome(t, e)
        PROVE  OutcomeTyped
    BY <1>2, <1>3, <1>5, <1>6 DEF SinkOutcome
  <1>7. Stage(t) => OutcomeTyped
    BY <1>1, <1>2, <1>3, <1>5 DEF Stage, Raise, Bound
  <1>8. Send(t) => OutcomeTyped
    BY <1>1, <1>2 DEF Send, Disconnected, Calm
  <1>9. HandedOff(t) \/ Offer(t) \/ Drop(t) => OutcomeTyped
    BY <1>2, <1>3 DEF HandedOff, Offer, Drop
  <1>10. SinkItem(t) \/ SinkFlush(t) \/ SinkClose(t) => OutcomeTyped
    BY <1>2, <1>3, <1>5, <1>6 DEF SinkItem, SinkFlush, SinkClose
  <1>11. AbortFlush(t) => OutcomeTyped
    BY <1>1, <1>2, <1>3 DEF AbortFlush, Raise, Bound
  <1>12. AbortClose(t) => OutcomeTyped
    <2>1. "abort" \in ErrorSites
      BY DEF ErrorSites
    <2> QED
      BY <1>2, <1>3, <1>4, <1>5, <2>1 DEF AbortClose
  <1>13. t = 0 /\ Pump => OutcomeTyped
    BY <1>2, <1>3, <1>5 DEF Pump
  <1>14. Recv(t) \/ CloseRest \/ End(t) => OutcomeTyped
    BY <1>1 DEF Recv, CloseRest, End, Calm
  <1>15. SegmentsDone => OutcomeTyped
    BY <1>1 DEF SegmentsDone, Fine, Calm
  <1>16. t = 0 /\ CloseSource => OutcomeTyped
    <2>1. CASE UNCHANGED <<local, raised, panics, faults>>
      BY <1>1, <2>1
    <2>2. CASE Raise("sourceClose") /\ local' \in {local, "sourceClose"}
               /\ raised' \in {raised, raised \cup {"sourceClose"}} /\ UNCHANGED panics
      BY <2>2 DEF OutcomeTyped, Types, Raise, Bound, ErrorSites
    <2> QED
      BY <1>3, <2>1, <2>2 DEF CloseSource
  <1> QED
    BY <1>7, <1>8, <1>9, <1>10, <1>11, <1>12, <1>13, <1>14, <1>15, <1>16
       DEF ThreadStep, SinkStep, SourceStep

CallSet == {Canonical[i] : i \in 1..5}

LEMMA Callable ==
  \A c \in {"flush", "close", "sourceClose", "dlqFlush", "dlqClose"} : c \in CallSet
  BY DEF CallSet, Canonical

\* Which steps of a thread write which of the other variables, and what.
LEMMA ThreadWrites ==
  ASSUME NEW t \in Threads, ThreadStep(t)
  PROVE  /\ UNCHANGED <<scenario, main, next, result, cancelled>>
         /\ UNCHANGED first \/ (Offer(t) /\ first' = Keep(th[t].err))
         /\ UNCHANGED pulled \/ (t = 0 /\ Pump /\ pulled < MaxItems /\ pulled' = pulled + 1)
         /\ UNCHANGED skipped \/ (Stage(t) /\ skipped' = skipped + 1)
         /\ ticks' \in {ticks, ticks + 1}
         /\ \/ UNCHANGED written
            \/ /\ t = Workers /\ SinkItem(t) /\ th[t].op.kind = "item"
               /\ written' = Append(written, th[t].op.item)
         /\ \/ UNCHANGED <<calls, guards>>
            \/ t = Workers /\ (SinkFlush(t) \/ SinkClose(t) \/ AbortFlush(t) \/ AbortClose(t))
            \/ t = 0 /\ CloseSource
         /\ byCancel' \in {byCancel, TRUE}
  <1>1. UNCHANGED <<scenario, main, next, result, cancelled>>
    BY DEF ThreadStep, Stage, Offer, Drop, End, Send, HandedOff, SinkStep, SinkItem, SinkFlush,
       SinkClose, AbortFlush, AbortClose, Recv, SourceStep, Pump, CloseRest, SegmentsDone,
       CloseSource, caller
  <1>2. UNCHANGED first \/ (Offer(t) /\ first' = Keep(th[t].err))
    BY DEF ThreadStep, Stage, Offer, Drop, End, Send, HandedOff, SinkStep, SinkItem, SinkFlush,
       SinkClose, AbortFlush, AbortClose, Recv, SourceStep, Pump, CloseRest, SegmentsDone,
       CloseSource
  <1>3. UNCHANGED pulled \/ (t = 0 /\ Pump /\ pulled < MaxItems /\ pulled' = pulled + 1)
    BY DEF ThreadStep, Stage, Offer, Drop, End, Send, HandedOff, SinkStep, SinkItem, SinkFlush,
       SinkClose, AbortFlush, AbortClose, Recv, SourceStep, Pump, CloseRest, SegmentsDone,
       CloseSource, flow
  <1>4. UNCHANGED skipped \/ (Stage(t) /\ skipped' = skipped + 1)
    BY DEF ThreadStep, Stage, Offer, Drop, End, Send, HandedOff, SinkStep, SinkItem, SinkFlush,
       SinkClose, AbortFlush, AbortClose, Recv, SourceStep, Pump, CloseRest, SegmentsDone,
       CloseSource, flow
  <1>5. ticks' \in {ticks, ticks + 1}
    BY DEF ThreadStep, Stage, Offer, Drop, End, Send, HandedOff, SinkStep, SinkItem, SinkFlush,
       SinkClose, AbortFlush, AbortClose, Recv, SourceStep, Pump, CloseRest, SegmentsDone,
       CloseSource
  <1>6. \/ UNCHANGED written
        \/ /\ t = Workers /\ SinkItem(t) /\ th[t].op.kind = "item"
           /\ written' = Append(written, th[t].op.item)
    BY DEF ThreadStep, Stage, Offer, Drop, End, Send, HandedOff, SinkStep, SinkItem, SinkFlush,
       SinkClose, AbortFlush, AbortClose, Recv, SourceStep, Pump, CloseRest, SegmentsDone,
       CloseSource, flow
  <1>7. \/ UNCHANGED <<calls, guards>>
        \/ t = Workers /\ (SinkFlush(t) \/ SinkClose(t) \/ AbortFlush(t) \/ AbortClose(t))
        \/ t = 0 /\ CloseSource
    BY DEF ThreadStep, Stage, Offer, Drop, End, Send, HandedOff, SinkStep, SinkItem, SinkFlush,
       SinkClose, AbortFlush, AbortClose, Recv, SourceStep, Pump, CloseRest, SegmentsDone,
       CloseSource, guards
  <1>8. byCancel' \in {byCancel, TRUE}
    BY DEF ThreadStep, Stage, Offer, Drop, End, Send, HandedOff, SinkStep, SinkItem, SinkFlush,
       SinkClose, AbortFlush, AbortClose, Recv, SourceStep, Pump, CloseRest, SegmentsDone,
       CloseSource
  <1> QED
    BY <1>1, <1>2, <1>3, <1>4, <1>5, <1>6, <1>7, <1>8

LEMMA CallsTyped ==
  ASSUME Types, NEW t \in Threads, ThreadStep(t)
  PROVE  /\ calls' \in Seq(CallSet)
         /\ flushed' \in {flushed, TRUE} /\ closed' \in {closed, TRUE}
         /\ srcClosed' \in {srcClosed, TRUE}
  <1>1. calls \in Seq(CallSet)
    BY DEF Types, CallSet
  <1>2. \/ UNCHANGED calls
        \/ \E c \in {"flush", "close", "sourceClose"} : calls' = Append(calls, c)
    BY ThreadWrites DEF SinkFlush, SinkClose, AbortFlush, AbortClose, CloseSource
  <1>3. /\ flushed' \in {flushed, TRUE} /\ closed' \in {closed, TRUE}
        /\ srcClosed' \in {srcClosed, TRUE}
    BY ThreadWrites DEF SinkFlush, SinkClose, AbortFlush, AbortClose, CloseSource, guards
  <1> QED
    <2>1. calls' \in Seq(CallSet)
      BY <1>1, <1>2, Callable, AppendProperties
    <2> QED
      BY <1>3, <2>1, Zenon

LEMMA ThreadTypes ==
  ASSUME Types, Shapes, NEW t \in Threads, ThreadStep(t)
  PROVE  Types'
  <1>1. scenario' = scenario /\ UNCHANGED <<main, next, result, Ops, Limit, MaxItems>>
    BY ThreadWrites DEF Ops, Limit, MaxItems, Capacity
  <1>2. first' \in ErrorSites \cup {None}
    BY ThreadWrites, ShapeOf DEF Types, ThreadStates, Keep
  <1>3. pulled' \in 0..MaxItems /\ skipped' \in Nat /\ ticks' \in Nat
    <2>1. /\ pulled' = pulled \/ (pulled < MaxItems /\ pulled' = pulled + 1)
          /\ skipped' \in {skipped, skipped + 1} /\ ticks' \in {ticks, ticks + 1}
      BY ThreadWrites, Zenon
    <2>2. MaxItems \in Nat /\ pulled \in 0..MaxItems /\ skipped \in Nat /\ ticks \in Nat
      BY ErrorsOf DEF Types
    <2> QED
      BY <2>1, <2>2
  <1>4. written' \in Seq(1..MaxItems)
    <2>1. th[t].op.kind = "item" => th[t].op.item \in 1..MaxItems
      BY ShapeOf, OpItem DEF ThreadStates
    <2>2. \/ written' = written
          \/ /\ th[t].op.kind = "item"
             /\ written' = Append(written, th[t].op.item)
      BY ThreadWrites, Zenon
    <2> QED
      <3>1. written \in Seq(1..MaxItems)
        BY DEF Types
      <3>2. ASSUME NEW n \in 1..MaxItems
            PROVE  Append(written, n) \in Seq(1..MaxItems)
        BY <3>1, AppendProperties
      <3> QED
        BY <2>1, <2>2, <3>1, <3>2
  <1>5. th' \in [Threads -> ThreadStates] /\ EdgesTyped(edge') /\ UNCHANGED ThreadStates
    BY <1>1, ThreadMoves, EdgeTypes DEF Moves, ThreadStates
  <1> QED
    BY <1>1, <1>2, <1>3, <1>4, <1>5, Outcomes, CallsTyped
       DEF Types, OutcomeTyped, EdgesTyped, EdgeStates, CallSet

LEMMA ThreadFlags ==
  ASSUME Types, Flags, NEW t \in Threads, ThreadStep(t)
  PROVE  Flags'
  <1>1. /\ flushed' \in BOOLEAN /\ closed' \in BOOLEAN /\ srcClosed' \in BOOLEAN
    BY CallsTyped DEF Flags
  <1>2. cancelled' \in BOOLEAN /\ byCancel' \in BOOLEAN
    BY ThreadWrites DEF Flags
  <1> QED
    BY <1>1, <1>2, Zenon DEF Flags

LEMMA ThreadShapes ==
  ASSUME Types, Shapes, NEW t \in Threads, ThreadStep(t)
  PROVE  Shapes'
  BY ThreadMoves DEF Moves, Shapes, Shape

-----------------------------------------------------------------------------
(* The calling thread, and the first theorem.                              *)

Base == Types /\ Flags /\ Shapes /\ Spawned

LEMMA Alive ==
  ASSUME NEW t \in Threads, ThreadStep(t)
  PROVE  th[t].pc \notin {"new", "ended"}
  BY DEF ThreadStep, Stage, Offer, Drop, End, Send, HandedOff, SinkStep, SinkItem, SinkFlush,
       SinkClose, AbortFlush, AbortClose, Recv, SourceStep, Pump, CloseRest, SegmentsDone,
       CloseSource

LEMMA ThreadSpawned ==
  ASSUME Base, NEW t \in Threads, ThreadStep(t)
  PROVE  Spawned'
  BY Alive, ThreadMoves, ThreadWrites DEF Base, Spawned, Moves, Late

\* A thread the calling thread gives up, or starts.
LEMMA DroppedShape ==
  ASSUME Types, Shapes, NEW t \in Threads, th[t].pc = "new"
  PROVE  /\ [th[t] EXCEPT !.pc = "drop", !.mode = "drop"] \in ThreadStates
         /\ Shape(t, [th[t] EXCEPT !.pc = "drop", !.mode = "drop"])
         /\ [th[t] EXCEPT !.pc = "loop"] \in ThreadStates
         /\ Shape(t, [th[t] EXCEPT !.pc = "loop"])
  BY ShapeOf DEF ThreadStates, ThreadPCs, Modes, Shape

Drops(t) == Go(t, [th[t] EXCEPT !.pc = "drop", !.mode = "drop"])
Starts(t) == Go(t, [th[t] EXCEPT !.pc = "loop"])

\* Which thread the calling thread moves, and the calls it makes.
LEMMA CallerWrites ==
  ASSUME Base, CallerStep
  PROVE  /\ UNCHANGED <<scenario, edge, local, guards, cancelled, byCancel, flow, ticks, panics>>
         /\ \/ UNCHANGED th
            \/ \E n \in Threads : th[n].pc = "new" /\ (Starts(n) \/ Drops(n))
         /\ UNCHANGED calls \/ \E c \in {"dlqFlush", "dlqClose"} : calls' = Append(calls, c)
         /\ first' \in {first, Keep("spawn"), Keep("dlqFlush"), Keep("dlqClose")}
         /\ raised' \in {raised, raised \cup {"spawn"}, raised \cup {"dlqFlush"}, raised \cup {"dlqClose"}}
         /\ result' \in {result, "panic", Outcome}
         /\ UNCHANGED faults \/ faults' = faults + 1
         /\ UNCHANGED next \/ (next > 0 /\ next' = next - 1)
         /\ main' \in Mains
  <1> USE DEF CallerStep, Started, Spawn, SpawnFailed, DropRest, Join, DlqFlush, DlqClose, Decide, OtherVars, Raise, Bound, Calm, caller
  <1>0. next \in 0..Workers /\ 0 \in Threads
    BY DEF Base, Types
  <1>1. UNCHANGED <<scenario, edge, local, guards, cancelled, byCancel, flow, ticks, panics>>
    OBVIOUS
  <1>2. \/ UNCHANGED th
        \/ \E n \in Threads : th[n].pc = "new" /\ (Starts(n) \/ Drops(n))
    <2>1. Started => UNCHANGED th \/ (th[0].pc = "new" /\ Drops(0))
      BY <1>0 DEF Base, Spawned, Drops
    <2>2. Spawn => th[next].pc = "new" /\ (Starts(next) \/ Drops(next))
      BY <1>0 DEF Base, Spawned, Drops, Starts
    <2>3. DropRest => UNCHANGED th \/ (next > 0 /\ th[next - 1].pc = "new" /\ Drops(next - 1))
      BY <1>0 DEF Base, Spawned, Drops
    <2>4. next > 0 => next - 1 \in Threads
      BY <1>0
    <2> QED
      BY <1>0, <2>1, <2>2, <2>3, <2>4
  <1>3. UNCHANGED calls \/ \E c \in {"dlqFlush", "dlqClose"} : calls' = Append(calls, c)
    OBVIOUS
  <1>4. first' \in {first, Keep("spawn"), Keep("dlqFlush"), Keep("dlqClose")}
    OBVIOUS
  <1>5. raised' \in {raised, raised \cup {"spawn"}, raised \cup {"dlqFlush"}, raised \cup {"dlqClose"}}
    OBVIOUS
  <1>6. result' \in {result, "panic", Outcome}
    OBVIOUS
  <1>7. UNCHANGED faults \/ faults' = faults + 1
    OBVIOUS
  <1>8. UNCHANGED next \/ (next > 0 /\ next' = next - 1)
    BY <1>0
  <1>9. main' \in Mains
    BY DEF Mains, Base, Types
  <1> QED BY <1>1, <1>2, <1>3, <1>4, <1>5, <1>6, <1>7, <1>8, <1>9

LEMMA CallerMoves ==
  ASSUME Base, CallerStep
  PROVE  /\ th' \in [Threads -> ThreadStates]
         /\ \A t \in Threads :
              \/ th'[t] = th[t]
              \/ th[t].pc = "new" /\ Shape(t, th'[t]) /\ th'[t].pc \in {"loop", "drop"}
  <1>0. th \in [Threads -> ThreadStates]
    BY DEF Base, Types
  <1>1. CASE UNCHANGED th
    <2>1. th' \in [Threads -> ThreadStates] /\ \A t \in Threads : th'[t] = th[t]
      BY <1>0, <1>1
    <2> QED
      BY <2>1, Zenon
  <1>2. ASSUME NEW n \in Threads, th[n].pc = "new", Starts(n) \/ Drops(n)
        PROVE  Moves(n) /\ th'[n].pc \in {"loop", "drop"}
    <2>1. th[n] \in ThreadStates
      BY DEF Base, Types
    <2>2. ASSUME NEW s \in ThreadStates, Shape(n, s), Go(n, s), s.pc \in {"loop", "drop"}
          PROVE  Moves(n) /\ th'[n].pc \in {"loop", "drop"}
      BY <2>2, Goes DEF Base
    <2>3. Types /\ Shapes
      BY DEF Base
    <2>4. CASE Starts(n)
      <3> DEFINE s == [th[n] EXCEPT !.pc = "loop"]
      <3>1. s \in ThreadStates /\ Shape(n, s) /\ s.pc = "loop"
        BY <1>2, <2>1, <2>3, DroppedShape DEF ThreadStates
      <3>2. Go(n, s)
        BY <2>4 DEF Starts
      <3> QED
        BY <2>2, <3>1, <3>2
    <2>5. CASE Drops(n)
      <3> DEFINE s == [th[n] EXCEPT !.pc = "drop", !.mode = "drop"]
      <3>1. s \in ThreadStates /\ Shape(n, s) /\ s.pc = "drop"
        BY <1>2, <2>1, <2>3, DroppedShape DEF ThreadStates
      <3>2. Go(n, s)
        BY <2>5 DEF Drops
      <3> QED
        BY <2>2, <3>1, <3>2
    <2> QED
      BY <1>2, <2>4, <2>5
  <1>3. ASSUME NEW n \in Threads, th[n].pc = "new", Moves(n), th'[n].pc \in {"loop", "drop"}
        PROVE  \A t \in Threads :
                 \/ th'[t] = th[t]
                 \/ th[t].pc = "new" /\ Shape(t, th'[t]) /\ th'[t].pc \in {"loop", "drop"}
    BY <1>3 DEF Moves
  <1>4. UNCHANGED th \/ \E n \in Threads : th[n].pc = "new" /\ (Starts(n) \/ Drops(n))
    BY CallerWrites
  <1>5. CASE \E n \in Threads : th[n].pc = "new" /\ (Starts(n) \/ Drops(n))
    <2>1. PICK n \in Threads : th[n].pc = "new" /\ (Starts(n) \/ Drops(n))
      BY <1>5
    <2>2. Moves(n) /\ th'[n].pc \in {"loop", "drop"}
      BY <1>2, <2>1
    <2>3. th' \in [Threads -> ThreadStates]
      BY <2>2 DEF Moves
    <2> QED
      BY <1>3, <2>1, <2>2, <2>3, Zenon
  <1> QED
    BY <1>1, <1>4, <1>5

LEMMA CallerBase ==
  ASSUME Base, CallerStep
  PROVE  Types' /\ Flags' /\ Shapes'
  <1>1. UNCHANGED <<scenario, Ops, Limit, MaxItems, ThreadStates, edge, local, ticks, pulled, skipped, written, panics>>
    BY CallerWrites DEF Ops, Limit, MaxItems, Capacity, ThreadStates, flow
  <1>2. first' \in ErrorSites \cup {None} /\ raised' \subseteq ErrorSites
    BY CallerWrites DEF Base, Types, Keep, ErrorSites
  <1>3. result' \in ErrorSites \cup {None, "ok", "cancelled", "panic"}
    BY CallerWrites DEF Base, Types, Outcome
  <1>4. calls' \in Seq(CallSet)
    <2>1. calls \in Seq(CallSet)
      BY DEF Base, Types, CallSet
    <2> QED
      BY <2>1, CallerWrites, Callable, AppendProperties
  <1>5. next' \in Threads /\ faults' \in Nat /\ main' \in Mains
    BY CallerWrites DEF Base, Types
  <1>6. Types'
    BY <1>1, <1>2, <1>3, <1>4, <1>5, CallerMoves DEF Base, Types, CallSet
  <1>7. Flags'
    BY CallerWrites DEF Base, Flags, guards
  <1>8. Shapes'
    BY CallerMoves DEF Base, Shapes, Shape
  <1> QED
    BY <1>6, <1>7, <1>8

LEMMA CallerSpawned ==
  ASSUME Base, CallerStep
  PROVE  Spawned'
  <1>0. next \in 0..Workers /\ th \in [Threads -> ThreadStates] /\ Spawned
    BY DEF Base, Types
  <1>1. CASE Started
    BY <1>0, <1>1 DEF Started, Spawned, Go, Late
  <1>2. CASE Spawn
    <2>1. \A t \in Threads : t # next => th'[t] = th[t]
      BY <1>0, <1>2 DEF Spawn, Go
    <2> QED
      BY <1>0, <1>2, <2>1 DEF Spawn, Spawned, Late
  <1>3. CASE SpawnFailed
    BY <1>0, <1>3 DEF SpawnFailed, Spawned, Late
  <1>4. CASE DropRest
    BY <1>0, <1>4 DEF DropRest, Spawned, Go, Late, ThreadStates
  <1>5. CASE Join
    BY <1>0, <1>5 DEF Join, Spawned, Late
  <1>6. CASE DlqFlush \/ DlqClose \/ Decide
    BY <1>0, <1>6 DEF DlqFlush, DlqClose, Decide, Spawned, Late
  <1> QED
    BY <1>1, <1>2, <1>3, <1>4, <1>5, <1>6 DEF CallerStep

LEMMA BaseStep ==
  ASSUME Base, [Next]_vars
  PROVE  Base'
  <1>1. ASSUME NEW t \in Threads, ThreadStep(t)
        PROVE  Base'
    BY <1>1, ThreadTypes, ThreadFlags, ThreadShapes, ThreadSpawned DEF Base
  <1>2. CASE CallerStep
    BY <1>2, CallerBase, CallerSpawned DEF Base
  <1>3. CASE Cancel
    <2>1. Types' /\ Shapes' /\ Spawned'
      BY <1>3 DEF Cancel, Base, Types, Shapes, Shape, Spawned, guards, caller, flow, Ops, Limit, MaxItems, Capacity, ThreadStates
    <2>2. Flags'
      BY <1>3 DEF Cancel, Base, Flags, guards
    <2> QED
      BY <2>1, <2>2 DEF Base
  <1>4. CASE UNCHANGED vars
    <2>1. Types' /\ Shapes' /\ Spawned'
      BY <1>4 DEF vars, Base, Types, Shapes, Shape, Spawned, guards, caller, flow, Ops, Limit, MaxItems, Capacity, ThreadStates
    <2>2. Flags'
      BY <1>4 DEF vars, Base, Flags, guards
    <2> QED
      BY <2>1, <2>2 DEF Base
  <1> QED
    BY <1>1, <1>2, <1>3, <1>4 DEF Next, Returned

LEMMA BaseInit ==
  ASSUME Init
  PROVE  Base
  <1>1. Fresh \in ThreadStates /\ Fresh.pc = "new" /\ \A t \in Threads : Shape(t, Fresh)
    BY OpsOf DEF Fresh, ThreadStates, ThreadPCs, Modes, Shape
  <1>2. \A e \in Segments : edge[e].buf = <<>>
    BY DEF Init
  <1>3. <<>> \in Seq(Ops) /\ Len(<<>>) = 0 /\ <<>> \in Seq(1..MaxItems) /\ <<>> \in Seq(CallSet)
    BY EmptySeq
  <1>4. edge \in [Segments -> EdgeStates]
    BY <1>3 DEF Init, EdgeStates
  <1>5. scenario \in Scenario /\ Limit \in Nat /\ MaxItems \in Nat
    BY ScenariosAssumption DEF Init, Scenario, Limit, Capacity, MaxItems
  <1>6. Types
    BY <1>1, <1>2, <1>3, <1>4, <1>5 DEF Init, Types, EdgeStates, Mains, CallSet
  <1>7. Flags /\ Shapes /\ Spawned
    BY <1>1 DEF Init, Flags, Shapes, Spawned, Late
  <1> QED
    BY <1>6, <1>7 DEF Base

\* Every variable has its type, a thread's place fits its mode and its operation, no
\* thread runs before it was spawned, and all have ended when the results are joined.
THEOREM BaseInvariant == Spec => []Base
  BY BaseInit, BaseStep, PTL DEF Spec

-----------------------------------------------------------------------------
(* Errors reach the caller.                                                *)

LEMMA LateEnded ==
  ASSUME Base, main \in Late
  PROVE  \A t \in Threads : th[t].pc = "ended"
  BY DEF Base, Spawned

LEMMA ThreadNotLate ==
  ASSUME Base, NEW t \in Threads, ThreadStep(t)
  PROVE  main \notin Late
  BY LateEnded, Alive

\* The steps that raise an error, and the errors they raise.
RunErrors == {"pull", "item", "tick", "flush", "sourceFlush", "write", "sinkFlush",
              "sinkClose", "abort"}

Raises(t, e) ==
  /\ Failed(t, e)
  /\ e \in Errors \/ (e = "abort" /\ th[t].held)
  /\ e = "abort" => t = Workers /\ th[t].pc = "sinkClose" /\ th[t].op.kind = "abort"
  /\ th[t].mode = "finish" => e = "sourceFlush"
  /\ th[t].pc \in {"stage", "sink", "sinkClose", "loop"}

LEMMA ThreadRaises ==
  ASSUME Base, NEW t \in Threads, ThreadStep(t)
  PROVE  \/ UNCHANGED <<raised, local>>
         \/ \E e \in RunErrors : Raises(t, e)
         \/ /\ t = 0 /\ CloseSource
            /\ local' \in {local, IF local = None THEN "sourceClose" ELSE local}
            /\ raised' \in {raised, raised \cup {"sourceClose"}}
            /\ UNCHANGED panics
  <1> DEFINE Same == UNCHANGED <<raised, local>>
             Some == \E e \in RunErrors : Raises(t, e)
  <1>1. ASSUME NEW s, Fine(t, s) \/ Panicked(t, s)
        PROVE  Same
    BY <1>1 DEF Fine, Panicked, Calm
  <1>2. th[t] \in ThreadStates /\ Shape(t, th[t])
    BY ShapeOf DEF Base
  <1>3. Stage(t) => Same \/ Some
    <2> DEFINE k == th[t].op.kind
               site == IF t = 0 /\ k = "flush" THEN "sourceFlush" ELSE k
    <2>1. ASSUME Stage(t), Raise(site), Failed(t, site)
          PROVE  Raises(t, site) /\ site \in RunErrors
      <3>1. th[t].pc = "stage" /\ k \in {"item", "tick", "flush"} /\ site \in Errors
        BY <1>2, <2>1, OpItem DEF Stage, Shape, ThreadStates, Raise, Bound
      <3>2. site \in RunErrors /\ site # "abort" /\ (th[t].mode = "finish" => site = "sourceFlush")
        BY <1>2, <3>1 DEF Shape, RunErrors
      <3> HIDE DEF site
      <3> QED
        BY <2>1, <3>1, <3>2 DEF Raises
    <2>2. Stage(t) /\ ~(Raise(site) /\ Failed(t, site)) => Same
      BY <1>1 DEF Stage
    <2> QED
      BY <2>1, <2>2
  <1>4. ASSUME NEW e \in RunErrors \ {"abort"}, SinkOutcome(t, e), th[t].pc = "sink"
        PROVE  Same \/ Some
    <2>1. ASSUME Raise(e), Failed(t, e)
          PROVE  Raises(t, e)
      BY <1>2, <1>4, <2>1 DEF Raises, Shape, Raise, Bound
    <2> QED
      BY <1>1, <1>4, <2>1 DEF SinkOutcome
  <1>5. SinkItem(t) \/ SinkFlush(t) \/ SinkClose(t) => Same \/ Some
    <2>1. SinkItem(t) => SinkOutcome(t, "write") /\ th[t].pc = "sink"
      BY DEF SinkItem, SinkOutcome
    <2> QED
      BY <1>4, <2>1 DEF SinkFlush, SinkClose, RunErrors
  <1>6. AbortFlush(t) => Same
    BY <1>1 DEF AbortFlush
  <1>7. t = Workers /\ AbortClose(t) => Same \/ Some
    <2>1. ASSUME t = Workers, AbortClose(t), Failed(t, "abort"), th[t].held \/ Raise("abort")
          PROVE  Raises(t, "abort") /\ "abort" \in RunErrors
      BY <1>2, <2>1 DEF AbortClose, Raises, RunErrors, Shape, Raise, Bound
    <2>2. AbortClose(t) /\ ~(Failed(t, "abort") /\ (th[t].held \/ Raise("abort"))) => Same
      BY <1>1 DEF AbortClose
    <2> QED
      BY <2>1, <2>2
  <1>8. t = 0 /\ Pump => Same \/ Some
    <2>1. ASSUME t = 0, Pump, Raise("pull"), Failed(0, "pull")
          PROVE  Raises(t, "pull") /\ "pull" \in RunErrors
      BY <1>2, <2>1 DEF Pump, Raises, RunErrors, Shape, Raise, Bound
    <2>2. t = 0 /\ Pump /\ ~(Raise("pull") /\ Failed(0, "pull")) => Same
      BY <1>1 DEF Pump
    <2> QED
      BY <2>1, <2>2
  <1>9. Send(t) \/ HandedOff(t) \/ Offer(t) \/ Drop(t) \/ End(t) \/ Recv(t) => Same
    BY <1>1 DEF Send, Disconnected, HandedOff, Offer, Drop, End, Recv, Calm
  <1>10. CloseRest \/ SegmentsDone => Same
    BY <1>1 DEF CloseRest, SegmentsDone, Fine, Calm
  <1>11. t = 0 /\ CloseSource =>
           \/ Same
           \/ /\ local' \in {local, IF local = None THEN "sourceClose" ELSE local}
              /\ raised' \in {raised, raised \cup {"sourceClose"}}
              /\ UNCHANGED panics
    BY <1>1 DEF CloseSource
  <1> HIDE DEF Same, Some
  <1>12. \/ Same \/ Some
         \/ /\ t = 0 /\ CloseSource
            /\ local' \in {local, IF local = None THEN "sourceClose" ELSE local}
            /\ raised' \in {raised, raised \cup {"sourceClose"}}
            /\ UNCHANGED panics
    BY <1>3, <1>5, <1>6, <1>7, <1>8, <1>9, <1>10, <1>11 DEF ThreadStep, SinkStep, SourceStep
  <1> QED
    BY <1>12 DEF Same, Some

LEMMA ThreadPanics ==
  ASSUME Base, NEW t \in Threads, ThreadStep(t)
  PROVE  UNCHANGED panics \/ \E site \in PanicSites : Panicked(t, site)
  <1> DEFINE Same == UNCHANGED panics
             Some == \E site \in PanicSites : Panicked(t, site)
  <1>1. ASSUME NEW e, Fine(t, e) \/ Failed(t, e)
        PROVE  Same
    BY <1>1 DEF Fine, Failed, Calm
  <1>2. ASSUME NEW site \in PanicSites, Panicked(t, site)
        PROVE  Some
    BY <1>2
  <1> HIDE DEF Some
  <1>3. /\ {"item", "tick", "flush", "write", "sinkFlush", "sinkClose", "sourceClose", "pull", "observer"} \subseteq PanicSites
        /\ AbortSite(t) \in PanicSites
    BY DEF PanicSites, AbortSite
  <1>4. Stage(t) => Same \/ Some
    <2>1. ASSUME Panicked(t, th[t].op.kind)
          PROVE  Some
      BY <1>2, <2>1, ErrorsOf DEF Panicked, Bound, Base
    <2> QED
      BY <1>1, <2>1 DEF Stage
  <1>5. ASSUME NEW e \in PanicSites, SinkOutcome(t, e)
        PROVE  Same \/ Some
    BY <1>1, <1>2, <1>5 DEF SinkOutcome
  <1>6. SinkItem(t) \/ SinkFlush(t) \/ SinkClose(t) => Same \/ Some
    BY <1>1, <1>2, <1>3, <1>5 DEF SinkItem, SinkFlush, SinkClose
  <1>7. AbortFlush(t) \/ AbortClose(t) => Same \/ Some
    BY <1>1, <1>2, <1>3 DEF AbortFlush, AbortClose
  <1>8. t = 0 /\ (Pump \/ CloseSource) => Same \/ Some
    BY <1>1, <1>2, <1>3 DEF Pump, CloseSource
  <1>9. Offer(t) => Same \/ Some
    BY <1>1, <1>2, <1>3 DEF Offer
  <1>10. Send(t) \/ HandedOff(t) \/ Drop(t) \/ End(t) \/ Recv(t) \/ CloseRest \/ SegmentsDone => Same
    BY <1>1 DEF Send, Disconnected, HandedOff, Drop, End, Recv, CloseRest, SegmentsDone, Fine, Calm
  <1>11. Same \/ Some
    BY <1>4, <1>6, <1>7, <1>8, <1>9, <1>10 DEF ThreadStep, SinkStep, SourceStep
  <1> QED
    BY <1>11 DEF Some


\* What the source thread keeps for later stays with it until it offers it.
Keeping(s) == s.mode # "drop" /\ s.pc \notin {"new", "end", "ended"}

LEMMA LocalKept ==
  ASSUME Base, ThreadStep(0), ~Offer(0), Keeping(th[0]), local # None,
         \A site : ~Panicked(0, site)
  PROVE  \/ Keeping(th'[0])
         \/ CloseSource /\ th'[0] = Closed(local')
  <1>1. /\ th \in [Threads -> ThreadStates] /\ th[0] \in ThreadStates /\ Shape(0, th[0])
        /\ 0 \in Threads
    <2>1. 0 \in Threads /\ Types /\ Shapes
      BY DEF Base
    <2>2. th \in [Threads -> ThreadStates]
      BY <2>1 DEF Types
    <2> QED
      BY <2>1, <2>2, ShapeOf
  <1>2. Keeping(OkState(0))
    BY <1>1 DEF Keeping, ThreadStates, OkState, Outlet
  <1>3. th[0].mode # "abort" => Keeping(GiveUp(0))
    BY <1>1 DEF Keeping, ThreadStates, Modes, GiveUp, Abort, Outlet
  <1>4. ASSUME NEW s, Go(0, s), Keeping(s)
        PROVE  Keeping(th'[0])
    BY <1>1, <1>4 DEF Go
  <1>5. ASSUME NEW e, Failed(0, e)
        PROVE  Keeping(th'[0])
    <2>1. Keeping([th[0] EXCEPT !.pc = "offer", !.err = e, !.held = FALSE])
      BY <1>1 DEF Keeping, ThreadStates
    <2> QED
      BY <1>1, <1>3, <1>4, <1>5, <2>1 DEF Failed, Keeping, ThreadStates, Modes
  <1>6. Stage(0) => Keeping(th'[0])
    <2>1. Keeping([th[0] EXCEPT !.pc = Outlet(0)])
      BY <1>1 DEF Keeping, ThreadStates, Outlet
    <2> QED
      BY <1>2, <1>4, <1>5, <2>1 DEF Stage, Fine
  <1>7. Send(0) => Keeping(th'[0])
    <2>1. Keeping(Sent(0))
      BY <1>1, <1>2 DEF Keeping, ThreadStates, Sent
    <2>2. Send(0) /\ th[0].mode = "abort" => th[0].op.kind = "abort"
      BY <1>1 DEF Send, Shape
    <2> QED
      BY <1>2, <1>3, <1>4, <2>1, <2>2 DEF Send, Disconnected, Fine
  <1>8. HandedOff(0) => Keeping(th'[0])
    BY <1>2, <1>4 DEF HandedOff, Fine
  <1>9. Pump => Keeping(th'[0])
    <2>1. ASSUME NEW op
          PROVE  Keeping(Enter(0, op)) /\ Keeping([Enter(0, op) EXCEPT !.mode = "finish"])
      BY <1>1 DEF Keeping, ThreadStates, Enter, Outlet
    <2> QED
      BY <1>4, <1>5, <2>1 DEF Pump, Fine
  <1>10. CloseRest \/ SegmentsDone => Keeping(th'[0])
    <2>1. Keeping([th[0] EXCEPT !.pc = "wait"]) /\ Keeping([th[0] EXCEPT !.pc = "closeSource"])
      BY <1>1 DEF Keeping, ThreadStates
    <2> QED
      BY <1>4, <2>1 DEF CloseRest, SegmentsDone, Fine
  <1>11. CloseSource => th'[0] = Closed(local')
    BY <1>1 DEF CloseSource, Go
  <1>12. ~Drop(0) /\ ~End(0) /\ ~(0 = Workers)
    BY <1>1 DEF Drop, End, Keeping, Shape
  <1> QED
    BY <1>6, <1>7, <1>8, <1>9, <1>10, <1>11, <1>12 DEF ThreadStep, SourceStep

\* An error of E that was raised before a step of a thread, or in it, is on its way.
LEMMA ReachThread ==
  ASSUME Base, NEW t \in Threads, ThreadStep(t), NEW E \in SUBSET ErrorSites, Reaches(E),
         Offer(t) /\ first = None => th[t].err \in E \/ raised \cap E = {} \/ Unwinds,
         first \in E \cup {None} \/ Unwinds \/ raised' \cap E = {},
         local \in E \cup {None} \/ th[0].mode = "drop" \/ th[0].pc \in {"offer", "end", "ended"}
  PROVE  Reaches(E)'
  <1>1. /\ th \in [Threads -> ThreadStates] /\ th' \in [Threads -> ThreadStates]
        /\ \A u \in Threads : u # t => th'[u] = th[u]
        /\ th[t] \in ThreadStates /\ Shape(t, th[t]) /\ Shape(t, th'[t])
    BY ThreadMoves, ShapeOf DEF Base, Types, Moves
  <1>2. None \notin E /\ 0 \in Threads
    BY DEF ErrorSites
  <1>3. main' = main /\ (UNCHANGED first \/ (Offer(t) /\ first' = Keep(th[t].err)))
    BY ThreadWrites
  <1>4. Unwinds => Unwinds'
    BY <1>3, ThreadPanics DEF Unwinds, Panicked
  <1>5. CASE Unwinds' \/ raised' \cap E = {}
    BY <1>5 DEF Reaches
  <1>6. CASE first \in E
    BY <1>2, <1>3, <1>6 DEF Keep, Reaches
  <1>7. ASSUME first = None, ~Unwinds', raised' \cap E # {}
        PROVE  first' \in E \/ (first' = None /\ Heading(E)')
    <2>0. ~Unwinds /\ (raised \cap E # {} => Heading(E))
      BY <1>2, <1>4, <1>7 DEF Reaches
    <2>1. CASE Offer(t)
      <3>1. \/ Fine(t, GiveUp(t)) /\ first' = th[t].err
            \/ Panicked(t, "observer") /\ first # None
        BY <1>7, <2>1 DEF Offer, Keep
      <3>2. raised' = raised
        BY <1>7, <3>1 DEF Fine, Calm
      <3> QED
        BY <1>7, <2>0, <2>1, <3>1, <3>2
    <2> SUFFICES ASSUME ~Offer(t)
                 PROVE  Heading(E)'
      BY <1>3, <1>7, <2>1
    <2>2. th[t].pc # "offer"
      BY DEF ThreadStep, Stage, Drop, End, Send, HandedOff, SinkStep, SinkItem, SinkFlush,
         SinkClose, AbortFlush, AbortClose, Recv, SourceStep, Pump, CloseRest, SegmentsDone,
         CloseSource
    \* What heads for the slot without this thread.
    <2>3. ASSUME NEW u \in Threads, th[u].pc = "offer", th[u].err \in E
          PROVE  Heading(E)'
      BY <1>1, <2>2, <2>3 DEF Heading
    <2>4. main = "spawnFailed" /\ "spawn" \in E => Heading(E)'
      BY <1>3 DEF Heading
    <2>5. ASSUME local \in E, local' = local, Keeping(th[0]), ~CloseSource \/ t # 0
          PROVE  Heading(E)'
      <3>1. CASE t # 0
        BY <1>1, <1>2, <2>5, <3>1 DEF Heading, Keeping
      <3>2. CASE t = 0
        <4>1. ASSUME NEW site, Panicked(0, site)
              PROVE  FALSE
          BY <1>7, <2>5, <3>2, <4>1 DEF Panicked, Keeping, Unwinds
        <4>2. Keeping(th'[0])
          BY <1>2, <2>5, <3>2, <4>1, LocalKept
        <4> QED
          BY <2>5, <4>2 DEF Heading, Keeping
      <3> QED
        BY <3>1, <3>2
    <2>6. CASE UNCHANGED <<raised, local>> /\ (~CloseSource \/ t # 0)
      BY <1>7, <2>0, <2>3, <2>4, <2>5, <2>6 DEF Heading, Keeping
    <2>7. ASSUME NEW e \in RunErrors, Raises(t, e)
          PROVE  Heading(E)'
      <3>1. CASE th[t].mode \in {"run", "abort"}
        <4>1. /\ th'[t].pc = "offer" /\ th'[t].err = e /\ local' = local
              /\ raised' = raised \cup {e}
          <5> DEFINE s == [th[t] EXCEPT !.pc = "offer", !.err = e, !.held = FALSE]
          <5>1. Go(t, s) /\ raised' = raised \cup {e} /\ local' = local
            BY <2>7, <3>1 DEF Raises, Failed
          <5>2. s.pc = "offer" /\ s.err = e
            BY <1>1 DEF ThreadStates
          <5> HIDE DEF s
          <5> QED
            BY <1>1, <5>1, <5>2 DEF Go
        <4>2. CASE e \in E
          BY <4>1, <4>2 DEF Heading
        <4>3. CASE e \notin E
          <5>1. Heading(E)
            BY <1>7, <2>0, <4>1, <4>3
          <5>2. t # 0 \/ ~CloseSource
            BY <2>7 DEF Raises, CloseSource
          <5> QED
            BY <2>3, <2>4, <2>5, <4>1, <5>1, <5>2 DEF Heading, Keeping
        <4> QED
          BY <4>2, <4>3
      <3>2. CASE th[t].mode = "finish"
        <4>1. /\ t = 0 /\ local' = (IF local = None THEN e ELSE local)
              /\ raised' = raised \cup {e} /\ Keeping(th[0]) /\ ~CloseSource
          BY <1>1, <2>7, <3>2 DEF Raises, Failed, Shape, Keeping, CloseSource
        <4>2. Keeping(th'[0])
          <5>1. Go(0, GiveUp(0))
            BY <2>7, <3>2, <4>1 DEF Raises, Failed
          <5>2. Keeping(GiveUp(0))
            BY <1>1, <3>2, <4>1 DEF Keeping, ThreadStates, GiveUp, Outlet
          <5> QED
            BY <1>1, <4>1, <5>1, <5>2 DEF Go
        <4>3. local \in E \cup {None}
          BY <3>2, <2>2, <4>1 DEF Keeping
        <4>4. CASE local' \in E
          BY <4>2, <4>4 DEF Heading, Keeping
        <4>5. CASE local' \notin E
          <5>1. local = None /\ e \notin E /\ Heading(E)
            BY <1>7, <2>0, <4>1, <4>3, <4>5
          <5> QED
            BY <1>2, <2>3, <2>4, <5>1 DEF Heading
        <4> QED
          BY <4>4, <4>5
      <3>3. CASE th[t].mode = "drop"
        <4>1. UNCHANGED <<raised, local>> /\ (~CloseSource \/ t # 0)
          BY <2>7, <3>3 DEF Raises, Failed, CloseSource
        <4> QED
          BY <2>6, <4>1
      <3> QED
        BY <1>1, <3>1, <3>2, <3>3 DEF ThreadStates, Modes
    <2>8. ASSUME t = 0, CloseSource,
                 local' \in {local, IF local = None THEN "sourceClose" ELSE local},
                 raised' \in {raised, raised \cup {"sourceClose"}}
          PROVE  Heading(E)'
      <3>1. th[0].pc = "closeSource" /\ (local \in E \cup {None} \/ th[0].mode = "drop")
        BY <2>8 DEF CloseSource
      <3>2. CASE th[0].mode = "drop"
        <4>1. raised' = raised
          BY <2>8, <3>2 DEF CloseSource, Panicked
        <4> QED
          BY <1>7, <2>0, <2>3, <2>4, <3>2, <4>1 DEF Heading
      <3>3. CASE th[0].mode # "drop" /\ local' \in E
        <4>1. ~Panicked(0, "sourceClose")
          BY <1>7, <3>3 DEF Panicked, Unwinds
        <4>2. Go(0, Closed(local'))
          BY <2>8, <4>1 DEF CloseSource
        <4>3. Closed(local').pc = "offer" /\ Closed(local').err = local'
          BY <1>1, <1>2, <2>8, <3>3 DEF Closed, ThreadStates
        <4> QED
          BY <1>1, <1>2, <3>3, <4>2, <4>3 DEF Go, Heading
      <3>4. CASE th[0].mode # "drop" /\ local' \notin E
        <4>1. local \notin E
          BY <1>2, <2>8, <3>4
        <4>2. raised' \cap E = raised \cap E
          BY <2>8, <3>1, <3>4, <4>1 DEF CloseSource, Panicked
        <4> QED
          BY <1>7, <2>0, <2>3, <2>4, <4>1, <4>2 DEF Heading
      <3> QED
        BY <3>2, <3>3, <3>4
    <2> QED
      BY <2>6, <2>7, <2>8, ThreadRaises
  <1> QED
    BY <1>2, <1>5, <1>6, <1>7, <1>4 DEF Reaches

\* The same of a step of the calling thread.
LEMMA ReachCaller ==
  ASSUME Base, CallerStep, NEW E \in SUBSET ErrorSites, "spawn" \in E, Reaches(E),
         first \in E \cup {None} \/ Unwinds \/ raised' \cap E = {}
  PROVE  Reaches(E)'
  <1>1. /\ th \in [Threads -> ThreadStates] /\ th' \in [Threads -> ThreadStates]
        /\ \A t \in Threads : th'[t] = th[t] \/ th[t].pc = "new"
        /\ None \notin E /\ 0 \in Threads /\ next \in Threads
    BY CallerMoves DEF Base, Types, ErrorSites
  <1>2. UNCHANGED <<panics, local>>
    BY CallerWrites
  <1>3. ASSUME NEW u \in Threads, th[u].pc = "offer", th[u].err \in E
        PROVE  Heading(E)'
    BY <1>1, <1>3 DEF Heading
  <1>4. ASSUME local \in E, Keeping(th[0])
        PROVE  Heading(E)'
    BY <1>1, <1>2, <1>4 DEF Heading, Keeping
  <1>5. CASE raised' \cap E = {} \/ panics # {} \/ main' = "unwindRunner"
    BY <1>2, <1>5 DEF Reaches, Unwinds
  <1> SUFFICES ASSUME raised' \cap E # {}, ~Unwinds'
               PROVE  first' \in E \/ (first' = None /\ Heading(E)')
    BY <1>5 DEF Reaches, Unwinds
  <1>6. main # "unwindRunner"
    BY DEF CallerStep, Started, Spawn, SpawnFailed, DropRest, Join, DlqFlush, DlqClose, Decide
  <1>7. first \in E \cup {None} /\ (raised \cap E # {} /\ first = None => Heading(E))
    BY <1>1, <1>2, <1>6 DEF Reaches, Unwinds
  <1>8. CASE first \in E
    BY <1>1, <1>8, CallerWrites DEF Keep
  <1>9. CASE first = None /\ main \in {"dlqFlush", "dlqClose", "decide"}
    <2>1. ~Heading(E)
      BY <1>9, LateEnded DEF Heading, Late, Base
    <2> QED
      BY <1>7, <1>9, <2>1 DEF CallerStep, Started, Spawn, SpawnFailed, DropRest, Join, DlqFlush, DlqClose, Decide, Keep
  <1>10. CASE first = None /\ main = "spawnFailed"
    BY <1>10 DEF CallerStep, Started, Spawn, SpawnFailed, DropRest, Join, DlqFlush, DlqClose, Decide, Keep
  <1>11. CASE first = None /\ main \in {"start", "spawn", "dropRest", "join"}
    <2>1. first' = None
      BY <1>11 DEF CallerStep, Started, Spawn, SpawnFailed, DropRest, Join, DlqFlush, DlqClose, Decide
    <2>2. CASE raised' = raised
      BY <1>3, <1>4, <1>7, <1>11, <2>1, <2>2 DEF Heading, Keeping
    <2>3. raised' = raised \/ main' = "spawnFailed"
      BY <1>11 DEF CallerStep, Started, Spawn, SpawnFailed, DropRest, Join, DlqFlush, DlqClose, Decide, Calm
    <2> QED
      BY <2>1, <2>2, <2>3 DEF Heading
  <1>12. main \in {"start", "spawn", "dropRest", "join", "spawnFailed", "dlqFlush", "dlqClose", "decide"}
    BY DEF CallerStep, Started, Spawn, SpawnFailed, DropRest, Join, DlqFlush, DlqClose, Decide
  <1> QED
    BY <1>7, <1>8, <1>9, <1>10, <1>11, <1>12

LEMMA DecidedStep ==
  ASSUME Base, Decided, [Next]_vars
  PROVE  Decided'
  <1>1. ASSUME NEW t \in Threads, ThreadStep(t)
        PROVE  Decided'
    <2>1. main' = main /\ result' = result /\ main # "ended"
      BY <1>1, ThreadWrites, ThreadNotLate DEF Late
    <2> QED
      BY <2>1 DEF Decided
  <1>2. CASE CallerStep
    BY <1>2 DEF Decided, Outcome, CallerStep, Started, Spawn, SpawnFailed, DropRest, Join, DlqFlush, DlqClose, Decide, OtherVars
  <1>3. CASE Cancel \/ UNCHANGED vars
    BY <1>3 DEF Decided, Outcome, Cancel, vars, caller
  <1> QED
    BY <1>1, <1>2, <1>3 DEF Next, Returned

\* Every error is on its way, and what the run returns is decided by what there is.
AllReach == Reaches(ErrorSites)

\* No error is swallowed: what a thread raised lies in the shared slot, or was outranked
\* by a panic, or is still on its way; and run returns what the slot and the joins give.
THEOREM ErrorsInvariant == Spec => [](AllReach /\ Decided)
  <1>1. Init => AllReach /\ Decided
    BY DEF Init, AllReach, Reaches, Decided
  <1>2. ASSUME Base, AllReach, Decided, [Next]_vars
        PROVE  AllReach' /\ Decided'
    <2>0. Decided'
      BY <1>2, DecidedStep
    <2>1. ASSUME NEW t \in Threads, ThreadStep(t)
          PROVE  AllReach'
      <3>1. /\ first \in ErrorSites \cup {None} /\ local \in ErrorSites \cup {None}
            /\ Offer(t) => th[t].err \in ErrorSites
        <4>1. th[t] \in ThreadStates /\ Shape(t, th[t])
          BY <1>2, ShapeOf DEF Base
        <4>2. Offer(t) => th[t].pc = "offer"
          BY DEF Offer
        <4> QED
          BY <1>2, <4>1, <4>2 DEF Base, Types, Shape, ThreadStates
      <3> QED
        BY <1>2, <2>1, <3>1, ReachThread DEF AllReach
    <2>2. CASE CallerStep
      <3>1. first \in ErrorSites \cup {None} /\ "spawn" \in ErrorSites
        BY <1>2 DEF Base, Types, ErrorSites
      <3> QED
        BY <1>2, <2>0, <2>2, <3>1, ReachCaller DEF AllReach
    <2>3. CASE Cancel \/ UNCHANGED vars
      <3>1. UNCHANGED <<th, main, first, local, raised, panics>>
        BY <2>3 DEF Cancel, vars, caller
      <3> QED
        BY <1>2, <2>0, <3>1 DEF AllReach, Reaches, Unwinds, Heading
    <2> QED
      BY <1>2, <2>0, <2>1, <2>2, <2>3 DEF Next, Returned
  <1> QED
    BY <1>1, <1>2, BaseInvariant, PTL DEF Spec

\* A panic that a join sees is what run ends with, whatever else went wrong.
THEOREM ThreadedPanicWins == Spec => []PanicWins
  <1>1. Decided => PanicWins
    BY DEF Decided, PanicWins, Outcome
  <1> QED
    BY <1>1, ErrorsInvariant, PTL

\* A run that reports success or a cancellation swallowed no error and no panic.
Unsullied == result \in {"ok", "cancelled"} => raised = {} /\ panics = {} /\ main = "ended"

LEMMA NothingSwallowed == Base /\ AllReach /\ Decided => Unsullied
  <1> SUFFICES ASSUME Base, AllReach, Decided, result \in {"ok", "cancelled"}
               PROVE  raised = {} /\ panics = {} /\ main = "ended"
    BY DEF Unsullied
  <1>1. main = "ended" /\ result = Outcome
    BY DEF Decided
  <1>2. first = None /\ panics = {}
    BY <1>1 DEF Outcome, Base, Types, ErrorSites
  <1>3. ~Unwinds /\ ~Heading(ErrorSites) /\ None \notin ErrorSites
    BY <1>1, <1>2, LateEnded DEF Unwinds, Heading, Late, Base, ErrorSites
  <1>4. raised \subseteq ErrorSites
    BY DEF Base, Types
  <1> QED
    BY <1>1, <1>2, <1>3, <1>4 DEF AllReach, Reaches

-----------------------------------------------------------------------------
(* Modes and buffers, by the step.                                         *)

\* The modes of a thread's next states.
LEMMA StateModes ==
  ASSUME Base, NEW t \in Threads
  PROVE  /\ OkState(t).mode = th[t].mode
         /\ GiveUp(t).mode \in {th[t].mode, "abort"}
         /\ PanicState(t).mode \in {th[t].mode, "drop"}
         /\ Abort(t).mode = "abort"
  <1>1. th[t] \in ThreadStates
    BY DEF Base, Types
  <1> QED
    BY <1>1 DEF ThreadStates, OkState, GiveUp, PanicState, Abort

LEMMA GoneMode ==
  ASSUME Base, NEW t \in Threads, NEW s, Go(t, s)
  PROVE  th'[t] = s
  BY DEF Base, Types, Go

LEMMA ModesStay ==
  ASSUME Base, NEW t \in Threads, ThreadStep(t), th[t].pc # "loop"
  PROVE  th'[t].mode \in {th[t].mode, "abort", "drop"}
  <1> DEFINE Stays == th'[t].mode \in {th[t].mode, "abort", "drop"}
  <1>1. th[t] \in ThreadStates /\ Shape(t, th[t])
    BY ShapeOf DEF Base
  <1>2. ASSUME Go(t, OkState(t)) \/ Go(t, GiveUp(t)) \/ Go(t, PanicState(t))
        PROVE  Stays
    BY <1>2, GoneMode, StateModes
  <1>3. ASSUME NEW s, Go(t, s), s.mode = th[t].mode
        PROVE  Stays
    BY <1>3, GoneMode
  <1>4. ASSUME NEW e, Failed(t, e)
        PROVE  Stays
    <2>1. /\ [th[t] EXCEPT !.pc = "offer", !.err = e, !.held = FALSE].mode = th[t].mode
          /\ [th[t] EXCEPT !.pc = "end", !.held = FALSE].mode = th[t].mode
      BY <1>1 DEF ThreadStates
    <2> QED
      BY <1>1, <1>2, <1>3, <1>4, <2>1 DEF Failed, ThreadStates, Modes
  <1>5. ASSUME NEW e, Panicked(t, e) \/ SinkOutcome(t, e)
        PROVE  Stays
    BY <1>2, <1>4, <1>5 DEF SinkOutcome, Panicked, Fine
  <1>6. Stage(t) => Stays
    <2>1. [th[t] EXCEPT !.pc = Outlet(t)].mode = th[t].mode
      BY <1>1 DEF ThreadStates
    <2> QED
      BY <1>2, <1>3, <1>4, <1>5, <2>1 DEF Stage, Fine
  <1>7. Send(t) \/ HandedOff(t) => Stays
    <2>1. Sent(t).mode = th[t].mode
      BY <1>1, StateModes DEF ThreadStates, Sent
    <2> QED
      BY <1>2, <1>3, <2>1 DEF Send, HandedOff, Disconnected, Fine
  <1>8. SinkItem(t) \/ SinkFlush(t) \/ SinkClose(t) => Stays
    BY <1>2, <1>4, <1>5 DEF SinkItem, SinkFlush, SinkClose, Fine
  <1>9. AbortFlush(t) \/ AbortClose(t) => Stays
    <2>1. /\ [th[t] EXCEPT !.pc = "sinkClose"].mode = th[t].mode
          /\ [th[t] EXCEPT !.pc = "sinkClose", !.held = TRUE].mode = th[t].mode
      BY <1>1 DEF ThreadStates
    <2> QED
      BY <1>2, <1>3, <1>4, <1>5, <2>1 DEF AbortFlush, AbortClose, Fine
  <1>10. Offer(t) => Stays
    BY <1>2, <1>5 DEF Offer, Fine
  <1>11. t = 0 /\ (CloseRest \/ SegmentsDone \/ CloseSource) => Stays
    <2>1. t = 0 => /\ [th[0] EXCEPT !.pc = "wait"].mode = th[0].mode
                   /\ [th[0] EXCEPT !.pc = "closeSource"].mode = th[0].mode
                   /\ \A e : Closed(e).mode \in {th[0].mode, "abort"}
      BY <1>1 DEF ThreadStates, Closed
    <2>2. t = 0 /\ CloseRest => Stays
      BY <1>3, <2>1, GoneMode DEF CloseRest
    <2>3. t = 0 /\ SegmentsDone => Stays
      BY <1>3, <2>1, GoneMode DEF SegmentsDone, Fine
    <2>4. t = 0 /\ CloseSource => Stays
      <3>1. t = 0 /\ CloseSource => Go(0, Closed(local')) \/ Panicked(0, "sourceClose")
        BY DEF CloseSource
      <3>2. ASSUME t = 0, Go(0, Closed(local'))
            PROVE  Stays
        <4>1. th'[0] = Closed(local')
          BY <3>2, GoneMode
        <4>2. Closed(local').mode \in {th[0].mode, "abort"}
          BY <2>1, <3>2
        <4> QED
          BY <3>2, <4>1, <4>2, Zenon
      <3>3. t = 0 /\ Panicked(0, "sourceClose") => Stays
        BY <1>5
      <3> QED
        BY <3>1, <3>2, <3>3
    <2> QED
      BY <2>2, <2>3, <2>4
  <1>12. Drop(t) \/ End(t) => Stays
    <2>1. End(t) => th'[t] = [th[t] EXCEPT !.pc = "ended", !.op = Op("tick"), !.attempts = 0]
      BY GoneMode DEF End
    <2>2. Drop(t) => \/ th'[t] = [th[t] EXCEPT !.pc = "end"]
                     \/ \E p : th'[t] = [th[t] EXCEPT !.attempts = @ + 1, !.op = Op("abort"), !.pc = p]
      BY GoneMode DEF Drop, Fine
    <2>3. /\ [th[t] EXCEPT !.pc = "ended", !.op = Op("tick"), !.attempts = 0].mode = th[t].mode
          /\ [th[t] EXCEPT !.pc = "end"].mode = th[t].mode
          /\ \A p : [th[t] EXCEPT !.attempts = @ + 1, !.op = Op("abort"), !.pc = p].mode = th[t].mode
      BY <1>1 DEF ThreadStates
    <2> QED
      BY <2>1, <2>2, <2>3
  <1>13. ~Recv(t) /\ ~(t = 0 /\ Pump)
    BY DEF Recv, Pump
  <1> QED
    BY <1>6, <1>7, <1>8, <1>9, <1>10, <1>11, <1>12, <1>13 DEF ThreadStep, SinkStep, SourceStep

LEMMA BrokenStays ==
  ASSUME Base, NEW t \in Threads, ThreadStep(t), Broken(t)
  PROVE  Broken(t)'
  <1>1. th[t] \in ThreadStates /\ Shape(t, th[t]) /\ th'[t] \in ThreadStates
    BY ShapeOf, ThreadMoves DEF Base, Moves
  <1>2. CASE th[t].mode \in {"abort", "drop"}
    <2>1. th[t].pc # "loop"
      BY <1>1, <1>2 DEF Shape
    <2> QED
      BY <1>2, <2>1, ModesStay DEF Broken
  <1>3. CASE th[t].pc = "offer" /\ th[t].mode = "run"
    <2>1. Offer(t)
      BY <1>3 DEF ThreadStep, Stage, Drop, End, Send, HandedOff, SinkStep, SinkItem, SinkFlush,
         SinkClose, AbortFlush, AbortClose, Recv, SourceStep, Pump, CloseRest, SegmentsDone,
         CloseSource
    <2>2. th'[t] \in {GiveUp(t), PanicState(t)}
      BY <2>1, GoneMode DEF Offer, Fine, Panicked
    <2>3. GiveUp(t).mode = "abort" \/ GiveUp(t).pc = "end"
      BY <1>1, <1>3 DEF GiveUp, Abort, ThreadStates
    <2>4. PanicState(t).mode = "drop"
      BY <1>1, <1>3 DEF PanicState, ThreadStates
    <2> QED
      BY <2>2, <2>3, <2>4 DEF Broken
  <1>4. CASE th[t].pc \in {"end", "ended"}
    <2>1. End(t)
      BY <1>4 DEF ThreadStep, Stage, Drop, Offer, Send, HandedOff, SinkStep, SinkItem, SinkFlush,
         SinkClose, AbortFlush, AbortClose, Recv, SourceStep, Pump, CloseRest, SegmentsDone,
         CloseSource
    <2>2. th'[t].pc = "ended"
      BY <1>1, <2>1, GoneMode DEF End, ThreadStates
    <2> QED
      BY <2>2 DEF Broken
  <1> QED
    BY <1>1, <1>2, <1>3, <1>4 DEF Broken, Shape, ThreadStates, Modes

LEMMA BufSeq ==
  ASSUME Base, NEW e \in Segments
  PROVE  /\ edge[e].buf \in Seq(Ops) /\ Len(edge[e].buf) \in Nat /\ edge \in [Segments -> EdgeStates]
         /\ edge[e] \in EdgeStates
  BY DEF Base, Types, EdgeStates

\* What a step does to the buffer of an edge.
LEMMA BufSteps ==
  ASSUME Base, NEW t \in Threads, ThreadStep(t), NEW e \in Segments
  PROVE  \/ edge'[e].buf = edge[e].buf
         \/ t = e - 1 /\ Appends(t) /\ edge'[e].buf = Append(edge[e].buf, th[t].op)
         \/ t = e /\ Takes(t) /\ edge'[e].buf = Tail(edge[e].buf)
         \/ t = e /\ (Loses(t) \/ End(t)) /\ edge'[e].buf = <<>>
  <1>1. edge \in [Segments -> EdgeStates] /\ edge[e] \in EdgeStates
    BY BufSeq
  <1>2. CASE UNCHANGED edge
    BY <1>2
  <1>3. CASE Loses(t)
    BY <1>1, <1>3 DEF Loses, EdgeStates
  <1>4. CASE Appends(t)
    <2>1. t + 1 \in Segments /\ edge'[t + 1].buf = Append(edge[t + 1].buf, th[t].op)
      BY <1>1, <1>4 DEF Appends, EdgeStates
    <2>2. e # t + 1 => edge'[e].buf = edge[e].buf
      BY <1>1, <1>4 DEF Appends, EdgeStates
    <2> QED
      BY <1>4, <2>1, <2>2
  <1>5. CASE Takes(t)
    BY <1>1, <1>5 DEF Takes, EdgeStates
  <1>6. CASE CloseRest
    BY <1>1, <1>6 DEF CloseRest, EdgeStates
  <1>7. CASE End(t)
    BY <1>1, <1>7 DEF End, EdgeStates
  <1> QED
    BY <1>2, <1>3, <1>4, <1>5, <1>6, <1>7, EdgeSteps DEF Base

-----------------------------------------------------------------------------
(* A step of a thread fails, panics, or goes on plainly.                   *)

Plain(t) ==
  LET s == th[t]  s2 == th'[t] IN
  \/ s.pc = "stage" /\ s2 = [s EXCEPT !.pc = Outlet(t)]
  \/ s.pc \in {"stage", "send", "handoff", "sink", "sinkClose"} /\ ~s.held /\ s2 = OkState(t)
  \/ s.pc = "send" /\ s2 = [s EXCEPT !.pc = "handoff"] /\ Appends(t)
  \/ s.pc = "send" /\ s.op.kind # "abort" /\ ~edge[t + 1].rx /\ s2 = GiveUp(t)
  \/ s.pc = "offer" /\ s2 = GiveUp(t) /\ first' = Keep(s.err)
  \/ /\ s.pc = "sink" /\ s.op.kind = "abort" /\ t = Workers
     /\ \/ s2 = [s EXCEPT !.pc = "sinkClose"]
        \/ s2 = [s EXCEPT !.pc = "sinkClose", !.held = TRUE] /\ "abort" \in Errors
  \/ /\ s.pc = "loop"
     /\ \/ t = 0 /\ \E op : op.kind \in {"item", "tick"} /\ s2 = Enter(0, op)
        \/ t = 0 /\ s2 = [Enter(0, Op("flush")) EXCEPT !.mode = "finish"]
        \/ t > 0 /\ s2 = Enter(t, Op("tick"))
        \/ Takes(t) /\ s2 = Enter(t, Head(edge[t].buf))
        \/ t > 0 /\ s2 = Abort(t) /\ edge[t].buf = <<>> /\ ~edge[t].tx
  \/ t = 0 /\ s.pc = "closeRest" /\ s2 = [s EXCEPT !.pc = "wait"]
  \/ /\ t = 0 /\ s.pc = "wait" /\ s2 = [s EXCEPT !.pc = "closeSource"]
     /\ \A u \in Segments : At(u, "ended")
  \/ t = 0 /\ s.pc = "closeSource" /\ s2 = Closed(local')
  \/ s.pc = "drop" /\ s2 = [s EXCEPT !.pc = "end"]
  \/ /\ s.pc = "drop"
     /\ s2 = [s EXCEPT !.attempts = @ + 1, !.op = Op("abort"),
                       !.pc = IF t = 0 /\ ~edge[1].tx THEN "closeSource" ELSE Outlet(t)]
  \/ s.pc = "end" /\ s2 = [s EXCEPT !.pc = "ended", !.op = Op("tick"), !.attempts = 0]

LEMMA PlainStep ==
  ASSUME Base, NEW t \in Threads, ThreadStep(t)
  PROVE  \/ Plain(t) /\ UNCHANGED panics
         \/ \E e \in RunErrors : Raises(t, e)
         \/ \E site \in PanicSites : Panicked(t, site)
  <1> DEFINE s == th[t]
             Some == \/ \E e \in RunErrors : Raises(t, e)
                     \/ \E site \in PanicSites : Panicked(t, site)
             Fails == \E e \in RunErrors : Raises(t, e)
             Ok == Plain(t) /\ UNCHANGED panics
  <1>1. s \in ThreadStates /\ Shape(t, s)
    BY ShapeOf DEF Base
  <1>2. ASSUME NEW x, Go(t, x)
        PROVE  th'[t] = x
    BY <1>2, GoneMode
  <1>3. ASSUME NEW x, Fine(t, x)
        PROVE  th'[t] = x /\ UNCHANGED panics
    BY <1>2, <1>3 DEF Fine, Calm
  <1>4. /\ {"item", "tick", "flush", "write", "sinkFlush", "sinkClose", "sourceClose", "pull", "observer"} \subseteq PanicSites
        /\ AbortSite(t) \in PanicSites
    BY DEF PanicSites, AbortSite
  <1>5. ASSUME NEW e, Panicked(t, e), e \in PanicSites
        PROVE  Some
    BY <1>5
  <1>6. ASSUME NEW e, Failed(t, e), Raise(e), e \in RunErrors, e # "abort",
               s.mode = "finish" => e = "sourceFlush", s.pc \in {"stage", "sink", "loop"}
        PROVE  Some
    <2>1. e \in Errors
      BY <1>6 DEF Raise, Bound
    <2> QED
      BY <1>6, <2>1 DEF Raises
  <1> HIDE DEF Some
  <1>7. Stage(t) => Ok \/ Some
    <2> DEFINE k == th[t].op.kind
               site == IF t = 0 /\ k = "flush" THEN "sourceFlush" ELSE k
    <2>1. ASSUME Stage(t), Raise(site), Failed(t, site)
          PROVE  Some
      <3>1. th[t].pc = "stage" /\ k \in {"item", "tick", "flush"}
        BY <1>1, <2>1, OpItem DEF Stage, Shape, ThreadStates
      <3>2. site \in RunErrors /\ site # "abort" /\ (s.mode = "finish" => site = "sourceFlush")
        BY <1>1, <3>1 DEF Shape, RunErrors
      <3> HIDE DEF site, s
      <3> QED
        BY <1>6, <2>1, <3>1, <3>2 DEF s
    <2>2. ASSUME Stage(t), Panicked(t, k)
          PROVE  Some
      <3>1. k \in {"item", "tick", "flush"}
        BY <1>1, <2>2, OpItem DEF Stage, Shape, ThreadStates
      <3> QED
        BY <1>4, <1>5, <2>2, <3>1
    <2>3. ASSUME Stage(t), Fine(t, [th[t] EXCEPT !.pc = Outlet(t)])
          PROVE  Ok
      BY <1>3, <2>3 DEF Plain, Stage
    <2>4. ASSUME Stage(t), Go(t, OkState(t)), UNCHANGED panics
          PROVE  Ok
      <3>1. ~th[t].held
        BY <1>1, <2>4 DEF Shape, Stage
      <3> QED
        BY <1>2, <2>4, <3>1 DEF Plain, Stage
    <2> QED
      BY <2>1, <2>2, <2>3, <2>4 DEF Stage
  <1>8. ASSUME NEW e \in RunErrors \ {"abort"}, SinkOutcome(t, e), s.pc = "sink", e \in PanicSites
        PROVE  Ok \/ Some
    <2>1. s.mode # "finish" /\ ~s.held
      BY <1>1, <1>8 DEF Shape
    <2>2. Fine(t, OkState(t)) => Ok
      BY <1>3, <1>8, <2>1 DEF Plain
    <2> QED
      BY <1>5, <1>6, <1>8, <2>1, <2>2 DEF SinkOutcome
  <1>9. SinkItem(t) \/ SinkFlush(t) \/ SinkClose(t) => Ok \/ Some
    <2>1. SinkItem(t) => SinkOutcome(t, "write") /\ s.pc = "sink"
      BY DEF SinkItem, SinkOutcome
    <2> QED
      BY <1>4, <1>8, <2>1 DEF SinkFlush, SinkClose, RunErrors
  <1>10. t = Workers /\ AbortFlush(t) => Ok \/ Some
    <2>1. ASSUME t = Workers, AbortFlush(t), Fine(t, [th[t] EXCEPT !.pc = "sinkClose"])
          PROVE  Ok
      BY <1>3, <2>1 DEF Plain, AbortFlush
    <2>2. ASSUME t = Workers, AbortFlush(t), Raise("abort"), Go(t, [th[t] EXCEPT !.pc = "sinkClose", !.held = TRUE]), UNCHANGED panics
          PROVE  Ok
      BY <1>2, <2>2 DEF Plain, AbortFlush, Raise, Bound
    <2> QED
      BY <1>4, <1>5, <2>1, <2>2 DEF AbortFlush
  <1>11. t = Workers /\ AbortClose(t) => Ok \/ Some
    <2>1. ASSUME t = Workers, AbortClose(t), Failed(t, "abort"), th[t].held \/ Raise("abort")
          PROVE  Some
      BY <1>1, <2>1 DEF AbortClose, Raises, RunErrors, Shape, Raise, Bound, Some
    <2>2. ASSUME t = Workers, AbortClose(t), Fine(t, OkState(t)), ~th[t].held
          PROVE  Ok
      BY <1>3, <2>2 DEF Plain, AbortClose
    <2> QED
      BY <1>4, <1>5, <2>1, <2>2 DEF AbortClose
  <1>12. Send(t) => Ok
    <2>1. ASSUME Send(t)
          PROVE  th[t].pc = "send" /\ ~th[t].held /\ UNCHANGED panics /\ t < Workers
      BY <1>1, <2>1 DEF Send, Shape, Fine, Disconnected, Calm
    <2>2. ASSUME Send(t), Go(t, OkState(t))
          PROVE  Ok
      BY <1>2, <2>1, <2>2 DEF Plain
    <2>3. ASSUME Send(t), Disconnected(t), ~edge[t + 1].rx, th[t].op.kind # "abort"
          PROVE  Ok
      BY <1>2, <2>1, <2>3 DEF Plain, Disconnected
    <2>4. ASSUME Send(t), Appends(t)
          PROVE  Ok
      <3>1. th'[t] = Sent(t)
        BY <1>2, <2>4 DEF Appends
      <3> QED
        BY <2>1, <2>4, <3>1 DEF Plain, Sent
    <2>5. Send(t) => \/ Appends(t) \/ Go(t, OkState(t))
                     \/ Disconnected(t) /\ ~edge[t + 1].rx /\ th[t].op.kind # "abort"
      BY <2>1 DEF Send, Fine, Appends
    <2> QED
      BY <2>2, <2>3, <2>4, <2>5
  <1>13. HandedOff(t) => Ok
    <2>1. HandedOff(t) => ~th[t].held
      BY <1>1 DEF HandedOff, Shape
    <2> QED
      BY <1>3, <2>1 DEF HandedOff, Plain
  <1>14. t = 0 /\ Pump => Ok \/ Some
    <2>1. ASSUME t = 0, Pump
          PROVE  th[0].pc = "loop" /\ th[0].mode = "run"
      BY <1>1, <2>1 DEF Pump, Shape
    <2>2. ASSUME t = 0, Pump, Raise("pull"), Failed(0, "pull")
          PROVE  Some
      BY <1>6, <2>1, <2>2 DEF RunErrors
    <2>3. ASSUME t = 0, Pump, NEW op, op.kind \in {"item", "tick"}, Fine(0, Enter(0, op))
          PROVE  Ok
      BY <1>3, <2>1, <2>3 DEF Plain
    <2>4. ASSUME t = 0, Pump, Fine(0, [Enter(0, Op("flush")) EXCEPT !.mode = "finish"])
          PROVE  Ok
      BY <1>3, <2>1, <2>4 DEF Plain
    <2>5. Op("tick").kind = "tick" /\ Item(pulled + 1).kind = "item"
      BY OpsOf
    <2>6. t = 0 /\ Pump =>
            \/ Fine(0, Enter(0, Item(pulled + 1))) \/ Fine(0, Enter(0, Op("tick")))
            \/ Fine(0, [Enter(0, Op("flush")) EXCEPT !.mode = "finish"])
            \/ Raise("pull") /\ Failed(0, "pull")
            \/ Panicked(0, "pull")
      BY DEF Pump
    <2> QED
      BY <1>4, <1>5, <2>2, <2>3, <2>4, <2>5, <2>6
  <1>15. Recv(t) => Ok
    <2>1. Recv(t) => t > 0 /\ th[t].pc = "loop" /\ UNCHANGED panics
      BY DEF Recv, Calm
    <2>2. ASSUME Recv(t), Takes(t)
          PROVE  Ok
      BY <1>2, <2>1, <2>2 DEF Plain, Takes
    <2>3. ASSUME Recv(t), Go(t, Enter(t, Op("tick")))
          PROVE  Ok
      BY <1>2, <2>1, <2>3 DEF Plain
    <2>4. ASSUME Recv(t), Go(t, Abort(t)), edge[t].buf = <<>>, ~edge[t].tx
          PROVE  Ok
      BY <1>2, <2>1, <2>4 DEF Plain
    <2> QED
      BY <2>2, <2>3, <2>4 DEF Recv, Takes
  <1>16. Offer(t) => Ok \/ Some
    <2>1. ASSUME Offer(t), Fine(t, GiveUp(t)), first' = Keep(th[t].err)
          PROVE  Ok
      BY <1>3, <2>1 DEF Plain, Offer
    <2> QED
      BY <1>4, <1>5, <2>1 DEF Offer
  <1>17. t = 0 /\ (CloseRest \/ SegmentsDone) => Ok
    BY <1>2, <1>3 DEF CloseRest, SegmentsDone, Plain, Calm
  <1>18. t = 0 /\ CloseSource => Ok \/ Some
    <2>1. ASSUME t = 0, CloseSource, UNCHANGED panics, Go(0, Closed(local'))
          PROVE  Ok
      BY <1>2, <2>1 DEF CloseSource, Plain
    <2>2. CloseSource => \/ UNCHANGED panics /\ Go(0, Closed(local'))
                         \/ Panicked(0, "sourceClose")
      BY DEF CloseSource
    <2> QED
      BY <1>4, <1>5, <2>1, <2>2
  <1>19. Drop(t) \/ End(t) => Ok
    BY <1>2, <1>3 DEF Drop, End, Plain, Calm
  <1> HIDE DEF Ok
  <1>20. Ok \/ Some
    BY <1>7, <1>9, <1>10, <1>11, <1>12, <1>13, <1>14, <1>15, <1>16, <1>17, <1>18, <1>19
       DEF ThreadStep, SinkStep, SourceStep
  <1> QED
    BY <1>20 DEF Ok, Some

-----------------------------------------------------------------------------
(* The order of the teardown: the invariant behind TornDown.                *)

\* What the theorem about it excludes.
Mild == "selfAbort" \notin Panics /\ "dlqFlush" \notin Panics

FlushIn(e, n) == \E k \in 1..n : edge[e].buf[k].kind = "flush"
FlushAt(t) == th[t].op.kind = "flush" /\ th[t].pc \in {"stage", "send", "sink"}

\* Thread u or its edge has a flush, unless the thread broke.
FlushHere(u) == Broken(u) \/ FlushAt(u) \/ FlushIn(u, Len(edge[u].buf))

\* Below thread t a flush is on its way to the sink, unless a thread broke.
FlushBelow(t) == flushed \/ \E u \in Segments : t < u /\ FlushHere(u)

\* A close follows its flush.
CloseAt(t) == \/ th[t].op.kind = "close" /\ th[t].pc \in {"send", "handoff", "sink"}
              \/ th[t].op.kind = "flush" /\ th[t].pc = "handoff"

CloseFollows ==
  /\ \A t \in Threads : CloseAt(t) => FlushBelow(t)
  /\ \A e \in Segments : \A k \in 1..Len(edge[e].buf) :
       edge[e].buf[k].kind = "close"
         => FlushIn(e, k - 1) \/ Broken(e) \/ FlushAt(e) \/ FlushBelow(e)

One(b) == IF b THEN 1 ELSE 0

\* The sink's thread: what its state s tells of the two calls.
SinkDue(s, f, c) ==
  /\ s.pc = "sinkClose" => f
  /\ s.pc \in {"end", "ended"} => c
  /\ s.pc = "offer" /\ Closing(s.op) => c
  /\ s.mode = "drop" => s.attempts <= One(f) + One(c) + 1
  /\ s.pc = "drop" => s.attempts <= One(f) + One(c)

SinkSide == (closed => flushed) /\ SinkDue(th[Workers], flushed, closed)

\* The source's thread.
SourceDue(s, c) ==
  /\ s.pc \in {"end", "ended"} => c
  /\ s.pc = "offer" /\ s.mode = "abort" => c
  /\ s.mode = "drop" => s.attempts <= One(c) + 1
  /\ s.pc = "drop" => s.attempts <= One(c)

SourceSide ==
  /\ SourceDue(th[0], srcClosed)
  /\ srcClosed \/ th[0].pc = "closeSource" \/ (~edge[1].tx /\ th[0].pc # "wait")
       => \A t \in Segments : th[t].pc = "ended"

Made == One(flushed) + One(closed) + One(srcClosed)
          + One(main \in {"dlqClose", "decide", "ended"}) + One(main \in {"decide", "ended"})

Teardown == SourceSide /\ (Mild => SinkSide /\ calls = SubSeq(Canonical, 1, Made))

-----------------------------------------------------------------------------
(* The flush goes before the close, unless a thread broke.                 *)

LEMMA FlushInStays ==
  ASSUME Base, NEW t \in Threads, ThreadStep(t), NEW e \in Segments, NEW n \in 0..Len(edge[e].buf)
  PROVE  /\ t # e => Len(edge[e].buf) <= Len(edge'[e].buf) /\ (FlushIn(e, n) => FlushIn(e, n)')
         /\ t # e => \A k \in 1..Len(edge[e].buf) : edge'[e].buf[k] = edge[e].buf[k]
  <1>1. edge[e].buf \in Seq(Ops) /\ th[t].op \in Ops /\ Len(edge[e].buf) \in Nat
    BY BufSeq, ShapeOf DEF Base, ThreadStates
  <1>2. CASE edge'[e].buf = edge[e].buf
    BY <1>1, <1>2 DEF FlushIn
  <1>3. CASE edge'[e].buf = Append(edge[e].buf, th[t].op)
    BY <1>1, <1>3, AppendProperties DEF FlushIn
  <1> QED
    BY <1>2, <1>3, BufSteps

LEMMA FlushMoves ==
  ASSUME Base, NEW u \in Segments, ThreadStep(u), FlushAt(u)
  PROVE  \/ Broken(u)' \/ FlushAt(u)' \/ flushed'
         \/ Appends(u) /\ th[u].op.kind = "flush"
  <1>1. th[u] \in ThreadStates /\ Shape(u, th[u]) /\ u \in Threads
    BY ShapeOf DEF Base
  <1>2. ASSUME NEW s, Go(u, s), s.mode \in {"abort", "drop"} \/ s.pc \in {"offer", "end"}
        PROVE  Broken(u)' \/ FlushAt(u)'
    <2>1. Broken(u)'
      BY <1>1, <1>2, GoneMode DEF Broken
    <2> QED
      BY <2>1
  <1>3. ASSUME NEW e, Failed(u, e)
        PROVE  Broken(u)' \/ FlushAt(u)'
    <2>1. [th[u] EXCEPT !.pc = "offer", !.err = e, !.held = FALSE].pc = "offer"
          /\ [th[u] EXCEPT !.pc = "end", !.held = FALSE].pc = "end"
      BY <1>1 DEF ThreadStates
    <2> QED
      <3>1. th[u].mode \in {"run", "abort", "drop"}
        BY <1>1 DEF Shape, ThreadStates, Modes
      <3> QED
        BY <1>2, <1>3, <2>1, <3>1 DEF Failed
  <1>4. ASSUME NEW e, Panicked(u, e)
        PROVE  Broken(u)' \/ FlushAt(u)'
    <2>1. PanicState(u).mode = "drop" \/ PanicState(u).pc = "end"
      BY <1>1 DEF ThreadStates, PanicState
    <2> QED
      BY <1>2, <1>4, <2>1 DEF Panicked
  <1>5. CASE Stage(u)
    <2>1. ASSUME Go(u, [th[u] EXCEPT !.pc = Outlet(u)])
          PROVE  Broken(u)' \/ FlushAt(u)'
      <3>1. th'[u].pc = Outlet(u) /\ th'[u].op = th[u].op
        BY <1>1, <2>1, GoneMode DEF ThreadStates
      <3> QED
        BY <3>1 DEF FlushAt, Outlet
    <2> QED
      BY <1>3, <1>4, <1>5, <2>1 DEF Stage, Fine, FlushAt
  <1>6. CASE Send(u)
    <2>1. Disconnected(u) => Broken(u)' \/ FlushAt(u)'
      <3>1. GiveUp(u).mode = "abort" \/ ~FlushAt(u) \/ th[u].mode # "run"
        BY <1>1 DEF FlushAt, GiveUp, Abort, ThreadStates
      <3>2. Broken(u) => Broken(u)' \/ FlushAt(u)'
        BY BrokenStays
      <3> QED
        BY <1>1, <1>2, <3>1, <3>2 DEF Disconnected, Broken, ThreadStates, Modes, Shape
    <2>2. u < Workers
      BY <1>1, <1>6 DEF Send, Shape
    <2> QED
      BY <1>6, <2>1, <2>2 DEF Send, FlushAt, Appends
  <1>7. CASE SinkFlush(u)
    BY <1>7 DEF SinkFlush
  <1> QED
    BY <1>5, <1>6, <1>7 DEF FlushAt, ThreadStep, Offer, Drop, End, HandedOff, SinkStep, SinkItem, SinkClose, AbortFlush, AbortClose, Recv

LEMMA FlushHereStays ==
  ASSUME Base, NEW t \in Threads, ThreadStep(t), NEW u \in Segments, FlushHere(u)
  PROVE  FlushHere(u)' \/ flushed' \/ (u < Workers /\ FlushHere(u + 1)')
  <1>0. /\ th[t] \in ThreadStates /\ Shape(t, th[t]) /\ edge[u].buf \in Seq(Ops)
        /\ \A v \in Threads : v # t => th'[v] = th[v]
    BY ShapeOf, BufSeq, ThreadMoves DEF Base, Moves
  <1>1. CASE t # u
    <2>1. FlushIn(u, Len(edge[u].buf)) => FlushIn(u, Len(edge[u].buf))'
      BY <1>0, <1>1, FlushInStays DEF FlushIn
    <2> QED
      BY <1>0, <1>1, <2>1 DEF FlushHere, Broken, FlushAt
  <1>2. CASE t = u /\ Broken(u)
    BY <1>2, BrokenStays DEF FlushHere
  <1>3. CASE t = u /\ FlushAt(u)
    <2>1. ASSUME Appends(u), th[u].op.kind = "flush"
          PROVE  u < Workers /\ FlushHere(u + 1)'
      <3>1. u + 1 \in Segments
        BY <2>1 DEF Appends
      <3>2. edge'[u + 1].buf = Append(edge[u + 1].buf, th[u].op) /\ edge[u + 1].buf \in Seq(Ops)
        BY <2>1, <3>1, BufSeq DEF Appends, EdgeStates
      <3>3. FlushIn(u + 1, Len(edge[u + 1].buf))'
        BY <1>0, <1>3, <2>1, <3>2, AppendProperties DEF FlushIn, ThreadStates
      <3> QED
        BY <2>1, <3>3 DEF FlushHere, Appends
    <2> QED
      BY <1>3, <2>1, FlushMoves DEF FlushHere
  <1>4. CASE t = u /\ FlushIn(u, Len(edge[u].buf))
    <2>1. PICK k \in 1..Len(edge[u].buf) : edge[u].buf[k].kind = "flush"
      BY <1>4 DEF FlushIn
    <2>2. CASE edge'[u].buf = edge[u].buf
      BY <1>4, <2>2 DEF FlushHere, FlushIn
    <2>3. CASE Takes(t) /\ edge'[u].buf = Tail(edge[u].buf)
      <3>1. CASE k = 1
        <4>1. Go(u, Enter(u, edge[u].buf[1]))
          BY <1>0, <1>4, <2>3 DEF Takes
        <4>2. th'[u].pc = "stage" /\ th'[u].op.kind = "flush"
          BY <1>0, <1>4, <2>1, <3>1, <4>1, GoneMode DEF Enter, ThreadStates
        <4> QED
          BY <4>2 DEF FlushHere, FlushAt
      <3>2. CASE k > 1
        <4>1. k - 1 \in 1..Len(Tail(edge[u].buf)) /\ Tail(edge[u].buf)[k - 1] = edge[u].buf[k]
          BY <1>0, <2>1, <3>2, HeadTailProperties
        <4> QED
          BY <2>1, <2>3, <4>1 DEF FlushHere, FlushIn
      <3> QED
        BY <2>1, <3>1, <3>2
    <2>4. CASE Loses(t)
      BY <1>4, <2>4 DEF Loses, FlushHere
    <2>5. CASE End(t)
      <3>1. Broken(t)
        BY <2>5 DEF End, Broken
      <3> QED
        BY <1>4, <3>1, BrokenStays DEF FlushHere
    <2> QED
      BY <1>4, <2>2, <2>3, <2>4, <2>5, BufSteps
  <1> QED
    BY <1>1, <1>2, <1>3, <1>4 DEF FlushHere

LEMMA BelowStays ==
  ASSUME Base, NEW t \in Threads, ThreadStep(t), NEW v \in Threads, FlushBelow(v)
  PROVE  FlushBelow(v)'
  <1>1. flushed => flushed'
    BY CallsTyped DEF Base
  <1>2. ASSUME NEW u \in Segments, v < u, FlushHere(u)
        PROVE  FlushBelow(v)'
    <2>1. u < Workers => u + 1 \in Segments /\ v < u + 1
      BY <1>2
    <2> QED
      BY <1>2, <2>1, FlushHereStays DEF FlushBelow
  <1> QED
    BY <1>1, <1>2 DEF FlushBelow

\* How a thread comes to hold a close, or to wait with a flush.
LEMMA CloseEnters ==
  ASSUME Base, NEW t \in Threads, ThreadStep(t), CloseAt(t)'
  PROVE  CloseAt(t) \/ Appends(t) \/ Takes(t)
  <1>1. th[t] \in ThreadStates /\ Shape(t, th[t])
    BY ShapeOf DEF Base
  <1>2. ASSUME NEW s, Go(t, s), s.pc \notin {"send", "handoff", "sink"}
        PROVE  FALSE
    BY <1>2, GoneMode DEF CloseAt
  <1>3. ASSUME NEW s, Go(t, s), s.op = th[t].op, s.pc # "handoff", th[t].op.kind # "close"
        PROVE  FALSE
    BY <1>3, GoneMode DEF CloseAt
  <1>4. ASSUME NEW s, Go(t, s), s.op.kind \notin {"close", "flush"}
        PROVE  FALSE
    BY <1>4, GoneMode DEF CloseAt
  <1>5. ASSUME Go(t, GiveUp(t))
        PROVE  FALSE
    <2>1. GiveUp(t).op = Op("abort") \/ GiveUp(t).pc \notin {"send", "handoff", "sink"}
      BY <1>1 DEF GiveUp, Abort, ThreadStates
    <2> QED
      BY <1>2, <1>4, <1>5, <2>1, OpsOf
  <1>6. ASSUME Go(t, PanicState(t))
        PROVE  FALSE
    <2>1. PanicState(t).pc \notin {"send", "handoff", "sink"}
      BY <1>1 DEF PanicState, ThreadStates
    <2> QED
      BY <1>2, <1>6, <2>1
  <1>7. ASSUME Go(t, OkState(t)), th[t].mode # "finish" \/ th[t].op.kind # "flush"
        PROVE  FALSE
    <2>1. OkState(t).pc \notin {"send", "handoff", "sink"}
      BY <1>1, <1>7 DEF OkState, ThreadStates
    <2> QED
      BY <1>2, <1>7, <2>1
  <1>8. ASSUME NEW e, Failed(t, e)
        PROVE  FALSE
    <2>1. /\ [th[t] EXCEPT !.pc = "offer", !.err = e, !.held = FALSE].pc = "offer"
          /\ [th[t] EXCEPT !.pc = "end", !.held = FALSE].pc = "end"
      BY <1>1 DEF ThreadStates
    <2> QED
      BY <1>1, <1>2, <1>5, <1>8, <2>1 DEF Failed, ThreadStates, Modes
  <1>9. ASSUME NEW e, Panicked(t, e)
        PROVE  FALSE
    BY <1>6, <1>9 DEF Panicked
  <1>10. t > 0 => th[t].mode # "finish"
    BY <1>1 DEF Shape
  <1>11. ~Stage(t)
    <2>1. /\ [th[t] EXCEPT !.pc = Outlet(t)].op = th[t].op
          /\ [th[t] EXCEPT !.pc = Outlet(t)].pc # "handoff"
      BY <1>1 DEF ThreadStates, Outlet
    <2>2. Stage(t) => th[t].op.kind # "close"
      BY <1>1 DEF Stage, Shape
    <2> QED
      BY <1>3, <1>7, <1>8, <1>9, <2>1, <2>2 DEF Stage, Fine
  <1>12. CASE Send(t)
    <2>1. Fine(t, OkState(t)) => th[t].op.kind \notin {"tick", "abort"}
      BY <1>7 DEF Fine
    <2>2. t < Workers
      BY <1>1, <1>12 DEF Send, Shape
    <2> QED
      BY <1>5, <1>12, <2>1, <2>2 DEF Send, Disconnected, Appends
  <1>13. CASE HandedOff(t)
    BY <1>7, <1>13 DEF HandedOff, Fine, CloseAt
  <1>14. ~(t = Workers /\ SinkStep(t))
    <2>1. /\ [th[t] EXCEPT !.pc = "sinkClose"].pc = "sinkClose"
          /\ [th[t] EXCEPT !.pc = "sinkClose", !.held = TRUE].pc = "sinkClose"
      BY <1>1 DEF ThreadStates
    <2>2. t = Workers => ~Fine(t, OkState(t)) /\ \A e : ~SinkOutcome(t, e)
      BY <1>7, <1>8, <1>9, <1>10 DEF SinkOutcome, Fine
    <2>3. t = Workers => ~SinkItem(t) /\ ~SinkFlush(t) /\ ~SinkClose(t)
      BY <1>8, <1>9, <2>2 DEF SinkItem, SinkFlush, SinkClose
    <2>4. t = Workers => ~AbortFlush(t) /\ ~AbortClose(t)
      BY <1>2, <1>8, <1>9, <2>1, <2>2 DEF AbortFlush, AbortClose, Fine
    <2> QED
      BY <2>3, <2>4 DEF SinkStep
  <1>15. ~(Offer(t) \/ Drop(t) \/ End(t))
    <2>1. ~Offer(t)
      BY <1>5, <1>9 DEF Offer, Fine
    <2>2. ~End(t)
      <3>1. [th[t] EXCEPT !.pc = "ended", !.op = Op("tick"), !.attempts = 0].pc = "ended"
        BY <1>1 DEF ThreadStates
      <3> QED
        BY <1>2, <3>1 DEF End
    <2>3. ~Drop(t)
      <3> DEFINE a == [th[t] EXCEPT !.attempts = @ + 1, !.op = Op("abort"),
                                    !.pc = IF t = 0 /\ ~edge[1].tx THEN "closeSource"
                                                                  ELSE Outlet(t)]
      <3>1. [th[t] EXCEPT !.pc = "end"].pc = "end" /\ a.op = Op("abort")
        BY <1>1 DEF ThreadStates
      <3>2. Drop(t) => Go(t, [th[t] EXCEPT !.pc = "end"]) \/ Go(t, a)
        BY DEF Drop, Fine
      <3> HIDE DEF a
      <3> QED
        BY <1>2, <1>4, <3>1, <3>2, OpsOf
    <2> QED
      BY <2>1, <2>2, <2>3
  <1>16. CASE Recv(t)
    <2>1. Enter(t, Op("tick")).op = Op("tick") /\ Abort(t).op = Op("abort")
      BY <1>1 DEF Enter, Abort, ThreadStates
    <2> QED
      BY <1>4, <1>16, <2>1, OpsOf DEF Recv, Takes
  <1>17. ~(t = 0 /\ SourceStep)
    <2>1. ASSUME NEW op
          PROVE  /\ Enter(0, op).op = op
                 /\ t = 0 /\ op = Op("flush") => [Enter(0, op) EXCEPT !.mode = "finish"].pc = "stage"
      BY <1>1, OpsOf DEF Enter, ThreadStates
    <2>2. /\ [th[0] EXCEPT !.pc = "wait"].pc = "wait" \/ t # 0
          /\ [th[0] EXCEPT !.pc = "closeSource"].pc = "closeSource" \/ t # 0
          /\ \A e : Closed(e).pc \in {"offer", "end"} \/ t # 0
      BY <1>1 DEF ThreadStates, Closed
    <2>3. t = 0 => ~Pump
      <3>1. ASSUME t = 0, Pump
            PROVE  FALSE
        <4> DEFINE f == [Enter(0, Op("flush")) EXCEPT !.mode = "finish"]
        <4>1. f.pc = "stage"
          BY <2>1, <3>1
        <4>2. Enter(0, Op("tick")).op = Op("tick") /\ Enter(0, Item(pulled + 1)).op = Item(pulled + 1)
          BY <2>1
        <4>3. \/ Go(0, f) \/ Go(0, Enter(0, Op("tick"))) \/ Go(0, Enter(0, Item(pulled + 1)))
              \/ Failed(0, "pull") \/ Panicked(0, "pull")
          BY <3>1 DEF Pump, Fine
        <4> HIDE DEF f
        <4> QED
          BY <1>2, <1>4, <1>8, <1>9, <3>1, <4>1, <4>2, <4>3, OpsOf
      <3> QED
        BY <3>1
    <2>4. t = 0 => ~CloseRest /\ ~SegmentsDone /\ ~CloseSource
      BY <1>2, <1>9, <2>2 DEF CloseRest, SegmentsDone, CloseSource, Fine
    <2> QED
      BY <2>3, <2>4 DEF SourceStep
  <1> QED
    BY <1>11, <1>12, <1>13, <1>14, <1>15, <1>16, <1>17 DEF ThreadStep

LEMMA CloseThread ==
  ASSUME Base, CloseFollows, NEW t \in Threads, ThreadStep(t)
  PROVE  CloseFollows'
  <1>0. /\ th[t] \in ThreadStates /\ Shape(t, th[t]) /\ th[t].op \in Ops
        /\ \A v \in Threads : v # t => th'[v] = th[v]
    BY ShapeOf, ThreadMoves DEF Base, Moves, ThreadStates
  <1>1. ASSUME NEW v \in Threads, CloseAt(v)'
        PROVE  FlushBelow(v)'
    <2>1. CASE CloseAt(v)
      BY <2>1, BelowStays DEF CloseFollows
    <2>2. CASE ~CloseAt(v)
      <3>1. v = t
        BY <1>0, <1>1, <2>2 DEF CloseAt
      <3>2. CASE Appends(t)
        <4>1. t + 1 \in Segments /\ t < t + 1
          BY <3>2 DEF Appends
        <4>2. edge'[t + 1].buf = Append(edge[t + 1].buf, th[t].op) /\ edge[t + 1].buf \in Seq(Ops)
          BY <3>2, <4>1, BufSeq DEF Appends, EdgeStates
        <4>3. th[t].op.kind = "flush"
          <5>1. th'[t] = Sent(t) /\ th[t].pc = "send"
            BY <3>2, GoneMode DEF Appends
          <5>2. th[t].op.kind # "close"
            BY <2>2, <3>1, <5>1 DEF CloseAt
          <5>3. th[t].op.kind # "flush" => OkState(t).pc \notin {"send", "handoff", "sink"}
            BY <1>0 DEF OkState, ThreadStates
          <5>4. Sent(t).op.kind \notin {"close", "flush"} \/ Sent(t) = OkState(t) \/ th[t].op.kind = "flush"
            BY <1>0, <5>2 DEF Sent, ThreadStates
          <5> QED
            BY <1>1, <3>1, <5>1, <5>3, <5>4 DEF CloseAt
        <4>4. FlushIn(t + 1, Len(edge[t + 1].buf))'
          BY <1>0, <4>2, <4>3, AppendProperties DEF FlushIn
        <4> QED
          BY <3>1, <4>1, <4>4 DEF FlushBelow, FlushHere
      <3>3. CASE Takes(t)
        <4>1. t \in Segments /\ edge[t].buf \in Seq(Ops) /\ edge[t].buf # <<>> /\ th[t].pc = "loop"
          BY <3>3, BufSeq DEF Takes
        <4>2. th'[t] = Enter(t, edge[t].buf[1]) /\ edge[t].buf[1] \in Ops
          BY <3>3, <4>1, GoneMode DEF Takes
        <4>3. th'[t].op = edge[t].buf[1] /\ th'[t].pc # "handoff"
          BY <1>0, <4>2 DEF Enter, ThreadStates, Outlet
        <4>4. edge[t].buf[1].kind = "close" /\ ~FlushIn(t, 0) /\ ~Broken(t) /\ ~FlushAt(t)
          BY <1>0, <1>1, <3>1, <4>1, <4>3 DEF CloseAt, FlushIn, Broken, FlushAt, Shape
        <4>5. FlushBelow(t)
          BY <4>1, <4>4 DEF CloseFollows
        <4> QED
          BY <3>1, <4>5, BelowStays
      <3> QED
        BY <1>1, <2>2, <3>1, <3>2, <3>3, CloseEnters
    <2> QED
      BY <2>1, <2>2
  <1>2. ASSUME NEW e \in Segments, NEW k \in 1..Len(edge'[e].buf), edge'[e].buf[k].kind = "close"
        PROVE  FlushIn(e, k - 1)' \/ Broken(e)' \/ FlushAt(e)' \/ FlushBelow(e)'
    <2>0. e \in Threads /\ edge[e].buf \in Seq(Ops) /\ Len(edge[e].buf) \in Nat
      BY BufSeq
    <2>1. ASSUME Broken(e) \/ FlushAt(e) \/ FlushBelow(e), ~(t = e /\ FlushAt(e) /\ Appends(e))
          PROVE  Broken(e)' \/ FlushAt(e)' \/ FlushBelow(e)'
      <3>1. CASE FlushBelow(e)
        BY <2>0, <3>1, BelowStays
      <3>2. CASE t = e
        BY <2>0, <2>1, <3>1, <3>2, BrokenStays, FlushMoves DEF FlushBelow
      <3>3. CASE t # e
        BY <1>0, <2>0, <2>1, <3>1, <3>3 DEF Broken, FlushAt
      <3> QED
        BY <3>2, <3>3
    <2>2. ASSUME t = e, FlushAt(e), Appends(e)
          PROVE  FlushBelow(e)'
      <3>1. t + 1 \in Segments /\ e < t + 1 /\ th[t].op.kind = "flush"
        BY <2>2 DEF Appends, FlushAt
      <3>2. edge'[t + 1].buf = Append(edge[t + 1].buf, th[t].op) /\ edge[t + 1].buf \in Seq(Ops)
        BY <2>2, <3>1, BufSeq DEF Appends, EdgeStates
      <3>3. FlushIn(t + 1, Len(edge[t + 1].buf))'
        BY <1>0, <3>1, <3>2, AppendProperties DEF FlushIn
      <3> QED
        BY <2>2, <3>1, <3>3 DEF FlushBelow, FlushHere
    <2>3. Broken(e) \/ FlushAt(e) \/ FlushBelow(e) => Broken(e)' \/ FlushAt(e)' \/ FlushBelow(e)'
      BY <2>1, <2>2
    <2>4. CASE edge'[e].buf = edge[e].buf
      BY <1>2, <2>0, <2>3, <2>4 DEF CloseFollows, FlushIn
    <2>5. CASE t = e - 1 /\ Appends(t) /\ edge'[e].buf = Append(edge[e].buf, th[t].op)
      <3>1. CASE k <= Len(edge[e].buf)
        <4>1. edge[e].buf[k].kind = "close" /\ k \in 1..Len(edge[e].buf)
          BY <1>0, <1>2, <2>0, <2>5, <3>1, AppendProperties
        <4>2. FlushIn(e, k - 1) => FlushIn(e, k - 1)'
          BY <1>0, <2>0, <2>5, <3>1, AppendProperties DEF FlushIn
        <4> QED
          BY <2>3, <4>1, <4>2 DEF CloseFollows
      <3>2. CASE k = Len(edge[e].buf) + 1
        <4>1. th[t].op.kind = "close" /\ th[t].pc = "send"
          BY <1>0, <1>2, <2>0, <2>5, <3>2, AppendProperties DEF Appends
        <4>2. FlushBelow(t)
          BY <4>1 DEF CloseFollows, CloseAt
        <4>3. ASSUME FlushIn(e, Len(edge[e].buf))
              PROVE  FlushIn(e, k - 1)'
          BY <1>0, <2>0, <2>5, <3>2, <4>3, AppendProperties DEF FlushIn
        <4>4. FlushBelow(e) \/ FlushHere(e)
          BY <2>5, <4>2 DEF FlushBelow
        <4> QED
          BY <2>3, <4>3, <4>4 DEF FlushHere
      <3> QED
        BY <1>0, <1>2, <2>0, <2>5, <3>1, <3>2, AppendProperties
    <2>6. CASE t = e /\ Takes(t) /\ edge'[e].buf = Tail(edge[e].buf)
      <3>1. /\ edge[e].buf # <<>> /\ k + 1 \in 1..Len(edge[e].buf) /\ edge[e].buf[k + 1].kind = "close"
            /\ \A i \in 1..(Len(edge[e].buf) - 1) : edge'[e].buf[i] = edge[e].buf[i + 1]
        <4>1. edge[e].buf # <<>>
          BY <2>6 DEF Takes
        <4>2. /\ Len(Tail(edge[e].buf)) = Len(edge[e].buf) - 1
              /\ \A i \in 1..(Len(edge[e].buf) - 1) : Tail(edge[e].buf)[i] = edge[e].buf[i + 1]
          BY <2>0, <4>1, HeadTailProperties
        <4>3. k \in 1..(Len(edge[e].buf) - 1)
          BY <1>2, <2>6, <4>2
        <4> QED
          BY <1>2, <2>0, <2>6, <4>1, <4>2, <4>3
      <3>2. ASSUME FlushIn(e, k)
            PROVE  FlushIn(e, k - 1)' \/ FlushAt(e)'
        <4>1. PICK j \in 1..k : edge[e].buf[j].kind = "flush"
          BY <3>2 DEF FlushIn
        <4>2. CASE j = 1
          <5>1. th'[e] = Enter(e, edge[e].buf[1])
            BY <2>0, <2>6, GoneMode DEF Takes
          <5>2. th'[e].pc = "stage" /\ th'[e].op.kind = "flush"
            BY <1>0, <2>6, <4>1, <4>2, <5>1 DEF Enter, ThreadStates
          <5> QED
            BY <5>2 DEF FlushAt
        <4>3. CASE j > 1
          <5>1. j - 1 \in 1..(k - 1) /\ edge'[e].buf[j - 1] = edge[e].buf[j]
            <6>1. j - 1 \in 1..(k - 1) /\ j - 1 \in 1..(Len(edge[e].buf) - 1) /\ (j - 1) + 1 = j
              BY <2>0, <3>1, <4>1, <4>3
            <6> QED
              BY <3>1, <6>1
          <5> QED
            BY <4>1, <5>1 DEF FlushIn
        <4> QED
          BY <4>1, <4>2, <4>3
      <3>3. k + 1 - 1 = k
        BY <1>2, <2>0
      <3> QED
        BY <2>3, <3>1, <3>2, <3>3 DEF CloseFollows
    <2>7. CASE edge'[e].buf = <<>>
      BY <1>2, <2>7
    <2> QED
      BY <2>4, <2>5, <2>6, <2>7, BufSteps
  <1> QED
    BY <1>1, <1>2 DEF CloseFollows

LEMMA CloseFollowsStep ==
  ASSUME Base, CloseFollows, [Next]_vars
  PROVE  CloseFollows'
  <1>1. CASE CallerStep
    <2>1. /\ UNCHANGED <<edge, flushed>> /\ th' \in [Threads -> ThreadStates]
          /\ \A t \in Threads :
               th'[t] = th[t] \/ (th[t].pc = "new" /\ th'[t].pc \in {"loop", "drop"})
      BY <1>1, CallerMoves, CallerWrites DEF guards
    <2>2. \A t \in Threads : (Broken(t) => Broken(t)') /\ (FlushAt(t) => FlushAt(t)') /\ (CloseAt(t)' => CloseAt(t))
      <3>1. \A t \in Threads : th[t].pc = "new" => th[t].mode = "run"
        BY ShapeOf DEF Base, Shape
      <3> QED
        BY <2>1, <3>1 DEF Broken, FlushAt, CloseAt
    <2>3. \A e \in Segments : \A n : FlushIn(e, n)' <=> FlushIn(e, n)
      BY <2>1 DEF FlushIn
    <2>4. \A t \in Threads : FlushBelow(t) => FlushBelow(t)'
      BY <2>1, <2>2, <2>3 DEF FlushBelow, FlushHere
    <2> QED
      BY <2>1, <2>2, <2>3, <2>4 DEF CloseFollows
  <1>2. CASE Cancel \/ UNCHANGED vars
    <2>1. UNCHANGED <<th, edge, flushed>>
      BY <1>2 DEF Cancel, vars, guards
    <2> QED
      BY <2>1 DEF CloseFollows, CloseAt, FlushBelow, FlushHere, FlushIn, FlushAt, Broken
  <1> QED
    BY <1>1, <1>2, CloseThread DEF Next, Returned

-----------------------------------------------------------------------------
(* The teardown order.                                                     *)

LEMMA SinkStage ==
  ASSUME Base, Mild, SinkSide, Stage(Workers)
  PROVE  SinkDue(th'[Workers], flushed, closed)
  <1> DEFINE t == Workers
             s == th[Workers]
  <1>1. s \in ThreadStates /\ Shape(t, s) /\ s.pc = "stage" /\ ~Closing(s.op) /\ s.mode = "run" /\ s.attempts = 0 /\ t \in Threads
    BY ShapeOf DEF Base, Stage, Shape
  <1> HIDE DEF s
  <1>2. SinkDue([s EXCEPT !.pc = Outlet(t)], flushed, closed)
    BY <1>1 DEF SinkDue, ThreadStates, Outlet, One
  <1>3. SinkDue(OkState(t), flushed, closed)
    BY <1>1 DEF SinkDue, ThreadStates, OkState, s, One
  <1>4. \A e : SinkDue([s EXCEPT !.pc = "offer", !.err = e, !.held = FALSE], flushed, closed)
    BY <1>1 DEF SinkDue, ThreadStates, One
  <1>5. SinkDue(PanicState(t), flushed, closed)
    BY <1>1 DEF SinkDue, ThreadStates, PanicState, s, One
  <1>6. \/ th'[t] = [s EXCEPT !.pc = Outlet(t)] \/ th'[t] = OkState(t) \/ th'[t] = PanicState(t)
        \/ \E e : th'[t] = [s EXCEPT !.pc = "offer", !.err = e, !.held = FALSE]
    BY <1>1, GoneMode DEF Stage, Fine, Failed, Panicked, s
  <1> QED
    BY <1>2, <1>3, <1>4, <1>5, <1>6

\* The states that follow a call of the sink, f and c being the guards after it.
LEMMA SinkAfter ==
  ASSUME Base, NEW f \in BOOLEAN, NEW c \in BOOLEAN,
         th[Workers].pc \in {"sink", "sinkClose"}, Closing(th[Workers].op) => c,
         th[Workers].mode = "drop" => th[Workers].attempts <= One(f) + One(c) + 1
  PROVE  /\ SinkDue(OkState(Workers), f, c)
         /\ \A e : SinkDue([th[Workers] EXCEPT !.pc = "offer", !.err = e, !.held = FALSE], f, c)
         /\ SinkDue([th[Workers] EXCEPT !.pc = "end", !.held = FALSE], f, c) \/ th[Workers].mode # "drop"
         /\ \/ SinkDue(PanicState(Workers), f, c)
            \/ th[Workers].mode = "drop" /\ th[Workers].attempts > One(f) + One(c)
  <1> DEFINE t == Workers
  <1>0. t \in Threads /\ t > 0
    OBVIOUS
  <1>1. /\ th[t] \in ThreadStates /\ Shape(t, th[t]) /\ One(f) \in Nat /\ One(c) \in Nat
        /\ th[t].mode # "run" => c
    BY <1>0, ShapeOf DEF Base, Shape, ThreadStates, Modes, One
  <1>2. SinkDue(OkState(t), f, c)
    BY <1>1 DEF SinkDue, ThreadStates, OkState, Shape
  <1>3. \A e : SinkDue([th[t] EXCEPT !.pc = "offer", !.err = e, !.held = FALSE], f, c)
    BY <1>1 DEF SinkDue, ThreadStates
  <1>4. SinkDue([th[t] EXCEPT !.pc = "end", !.held = FALSE], f, c) \/ th[t].mode # "drop"
    BY <1>1 DEF SinkDue, ThreadStates
  <1>5. \/ SinkDue(PanicState(t), f, c)
        \/ th[t].mode = "drop" /\ th[t].attempts > One(f) + One(c)
    BY <1>1 DEF SinkDue, ThreadStates, PanicState, Shape
  <1> QED
    BY <1>2, <1>3, <1>4, <1>5

\* What an outcome of a sink call makes of the thread.
LEMMA SinkOutcomes ==
  ASSUME Base, NEW e, SinkOutcome(Workers, e) \/ Failed(Workers, e) \/ Panicked(Workers, e)
  PROVE  \/ th'[Workers] = OkState(Workers)
         \/ th'[Workers] = PanicState(Workers) /\ Panicked(Workers, e)
         \/ th'[Workers] = [th[Workers] EXCEPT !.pc = "offer", !.err = e, !.held = FALSE]
         \/ /\ th'[Workers] = [th[Workers] EXCEPT !.pc = "end", !.held = FALSE]
            /\ th[Workers].mode = "drop"
  <1>1. Workers \in Threads /\ th[Workers].mode \in {"run", "abort", "drop"}
    BY ShapeOf DEF Base, Shape, ThreadStates, Modes
  <1>2. ASSUME NEW s, Go(Workers, s)
        PROVE  th'[Workers] = s
    BY <1>1, <1>2, GoneMode
  <1> QED
    BY <1>1, <1>2 DEF SinkOutcome, Fine, Failed, Panicked

LEMMA SinkLands ==
  ASSUME Base, NEW f \in BOOLEAN, NEW c \in BOOLEAN, NEW e,
         SinkOutcome(Workers, e) \/ Failed(Workers, e) \/ Panicked(Workers, e),
         th[Workers].pc \in {"sink", "sinkClose"}, Closing(th[Workers].op) => c,
         th[Workers].mode = "drop" => th[Workers].attempts <= One(f) + One(c) + 1,
         th[Workers].mode = "drop" /\ Panicked(Workers, e)
           => th[Workers].attempts <= One(f) + One(c)
  PROVE  SinkDue(th'[Workers], f, c)
  <1>1. /\ SinkDue(OkState(Workers), f, c)
        /\ \A x : SinkDue([th[Workers] EXCEPT !.pc = "offer", !.err = x, !.held = FALSE], f, c)
        /\ SinkDue([th[Workers] EXCEPT !.pc = "end", !.held = FALSE], f, c) \/ th[Workers].mode # "drop"
        /\ \/ SinkDue(PanicState(Workers), f, c)
           \/ th[Workers].mode = "drop" /\ th[Workers].attempts > One(f) + One(c)
    BY SinkAfter
  <1>2. \/ th'[Workers] = OkState(Workers)
        \/ th'[Workers] = PanicState(Workers) /\ Panicked(Workers, e)
        \/ th'[Workers] = [th[Workers] EXCEPT !.pc = "offer", !.err = e, !.held = FALSE]
        \/ /\ th'[Workers] = [th[Workers] EXCEPT !.pc = "end", !.held = FALSE]
           /\ th[Workers].mode = "drop"
    BY SinkOutcomes
  <1>3. th[Workers].attempts \in Nat /\ One(f) + One(c) \in Nat
    BY ShapeOf DEF Base, ThreadStates, One
  <1>4. CASE th'[Workers] = PanicState(Workers) /\ Panicked(Workers, e)
    <2>1. ~(th[Workers].mode = "drop" /\ th[Workers].attempts > One(f) + One(c))
      BY <1>3, <1>4
    <2> QED
      BY <1>1, <1>4, <2>1
  <1> QED
    BY <1>1, <1>2, <1>4

LEMMA SinkPlace ==
  ASSUME Base
  PROVE  /\ Workers \in Threads /\ Workers \in Segments /\ th[Workers] \in ThreadStates
         /\ Shape(Workers, th[Workers]) /\ flushed \in BOOLEAN /\ closed \in BOOLEAN
  BY ShapeOf DEF Base, Flags

LEMMA SinkItemDue ==
  ASSUME Base, SinkSide, SinkItem(Workers)
  PROVE  SinkDue(th'[Workers], flushed, closed)
  <1>1. /\ th[Workers].pc = "sink" /\ ~Closing(th[Workers].op) /\ th[Workers].mode # "drop"
        /\ flushed \in BOOLEAN /\ closed \in BOOLEAN
    BY SinkPlace DEF Shape, SinkItem
  <1>2. SinkOutcome(Workers, "write")
    BY DEF SinkItem, SinkOutcome
  <1> QED
    BY <1>1, <1>2, SinkLands

LEMMA SinkFlushDue ==
  ASSUME Base, SinkSide, SinkFlush(Workers)
  PROVE  SinkDue(th'[Workers], flushed', closed')
  <1>1. /\ th[Workers].pc = "sink" /\ ~Closing(th[Workers].op) /\ th[Workers].mode # "drop"
        /\ closed \in BOOLEAN /\ TRUE \in BOOLEAN
    BY SinkPlace DEF Shape, SinkFlush
  <1>2. SinkOutcome(Workers, "sinkFlush") /\ flushed' = TRUE /\ closed' = closed
    BY DEF SinkFlush
  <1>3. SinkDue(th'[Workers], TRUE, closed)
    BY <1>1, <1>2, SinkLands
  <1> QED
    BY <1>2, <1>3, Zenon

LEMMA SinkCloseDue ==
  ASSUME Base, SinkSide, SinkClose(Workers)
  PROVE  SinkDue(th'[Workers], flushed', closed')
  <1>1. /\ th[Workers].pc = "sink" /\ th[Workers].mode # "drop"
        /\ flushed \in BOOLEAN /\ TRUE \in BOOLEAN
    BY SinkPlace DEF Shape, SinkClose
  <1>2. SinkOutcome(Workers, "sinkClose") /\ closed' = TRUE /\ flushed' = flushed
    BY DEF SinkClose
  <1>3. SinkDue(th'[Workers], flushed, TRUE)
    BY <1>1, <1>2, SinkLands
  <1> QED
    BY <1>2, <1>3, Zenon

LEMMA AbortFlushDue ==
  ASSUME Base, Mild, SinkSide, AbortFlush(Workers)
  PROVE  SinkDue(th'[Workers], flushed', closed')
  <1> DEFINE t == Workers
             s == [th[t] EXCEPT !.pc = "sinkClose"]
             h == [th[t] EXCEPT !.pc = "sinkClose", !.held = TRUE]
  <1>1. /\ th[t] \in ThreadStates /\ Shape(t, th[t]) /\ t \in Threads
        /\ th[t].pc = "sink" /\ th[t].op.kind = "abort"
        /\ flushed \in BOOLEAN /\ closed \in BOOLEAN /\ TRUE \in BOOLEAN
        /\ th[t].mode = "drop" => th[t].attempts <= One(flushed) + One(closed) + 1
    BY SinkPlace DEF AbortFlush, SinkSide, SinkDue
  <1>2. closed' = closed /\ flushed' = TRUE
    <2>1. flushed' = TRUE
      BY <1>1, Zenon DEF AbortFlush
    <2> QED
      BY <2>1 DEF AbortFlush
  <1>3. CASE th'[t] = s \/ th'[t] = h
    <2>1. th[t].mode = "drop" => th[t].attempts <= One(TRUE) + One(closed) + 1
      BY <1>1 DEF One, ThreadStates
    <2>2. SinkDue(th'[t], TRUE, closed)
      BY <1>1, <1>3, <2>1 DEF SinkDue, ThreadStates
    <2> QED
      BY <1>2, <2>2, Zenon
  <1>4. CASE ~flushed /\ Panicked(t, AbortSite(t))
    <2>1. th[t].mode # "abort"
      BY <1>4 DEF Panicked, Bound, AbortSite, Mild
    <2>2. CASE th[t].mode = "drop"
      <3>1. th[t].attempts <= One(TRUE) + One(closed)
        BY <1>1, <1>4, <2>2 DEF One, ThreadStates
      <3>2. PanicState(t) = [th[t] EXCEPT !.pc = "drop", !.mode = "drop", !.err = None, !.held = FALSE]
        BY <2>2 DEF PanicState
      <3>3. th'[t] = PanicState(t)
        BY <1>1, <1>4, GoneMode DEF Panicked
      <3>4. SinkDue(th'[t], TRUE, closed)
        BY <1>1, <3>1, <3>2, <3>3 DEF SinkDue, ThreadStates, One
      <3> QED
        BY <1>2, <3>4, Zenon
    <2>3. CASE th[t].mode = "run"
      <3>1. th[t].attempts = 0
        BY <1>1, <2>3 DEF Shape
      <3>2. PanicState(t) = [th[t] EXCEPT !.pc = "drop", !.mode = "drop", !.err = None, !.held = FALSE]
        BY <2>3 DEF PanicState
      <3>3. th'[t] = PanicState(t)
        BY <1>1, <1>4, GoneMode DEF Panicked
      <3>4. SinkDue(th'[t], TRUE, closed)
        BY <1>1, <3>1, <3>2, <3>3 DEF SinkDue, ThreadStates, One
      <3> QED
        BY <1>2, <3>4, Zenon
    <2> QED
      BY <1>1, <2>1, <2>2, <2>3 DEF ThreadStates, Modes, Shape
  <1>5. ASSUME NEW x, Go(t, x)
        PROVE  th'[t] = x
    BY <1>1, <1>5, GoneMode
  <1>6. \/ Go(t, s) \/ Go(t, h) \/ (~flushed /\ Panicked(t, AbortSite(t)))
    BY DEF AbortFlush, Fine
  <1> HIDE DEF s, h, t
  <1>7. th'[t] = s \/ th'[t] = h \/ (~flushed /\ Panicked(t, AbortSite(t)))
    BY <1>5, <1>6
  <1> QED
    BY <1>3, <1>4, <1>7 DEF t

LEMMA AbortCloseDue ==
  ASSUME Base, SinkSide, AbortClose(Workers)
  PROVE  SinkDue(th'[Workers], flushed', closed')
  <1>1. /\ th[Workers] \in ThreadStates /\ th[Workers].pc = "sinkClose"
        /\ flushed = TRUE /\ closed \in BOOLEAN /\ TRUE \in BOOLEAN
        /\ th[Workers].mode = "drop" => th[Workers].attempts <= One(flushed) + One(closed) + 1
    <2>1. th[Workers].pc = "sinkClose"
      BY DEF AbortClose
    <2> QED
      BY <2>1, SinkPlace DEF SinkSide, SinkDue
  <1>2. closed' = TRUE /\ flushed' = TRUE
    BY <1>1 DEF AbortClose
  <1>3. /\ th[Workers].mode = "drop" => th[Workers].attempts <= One(TRUE) + One(TRUE) + 1
        /\ th[Workers].mode = "drop" /\ ~closed => th[Workers].attempts <= One(TRUE) + One(TRUE)
    BY <1>1 DEF One, ThreadStates
  <1>4. CASE closed
    <2>1. Fine(Workers, OkState(Workers)) \/ Failed(Workers, "abort")
      BY <1>4 DEF AbortClose
    <2>2. /\ SinkDue(OkState(Workers), TRUE, TRUE)
          /\ \A x : SinkDue([th[Workers] EXCEPT !.pc = "offer", !.err = x, !.held = FALSE], TRUE, TRUE)
          /\ SinkDue([th[Workers] EXCEPT !.pc = "end", !.held = FALSE], TRUE, TRUE) \/ th[Workers].mode # "drop"
      BY <1>1, <1>3, SinkAfter
    <2>3. \/ th'[Workers] = OkState(Workers)
          \/ th'[Workers] = [th[Workers] EXCEPT !.pc = "offer", !.err = "abort", !.held = FALSE]
          \/ /\ th'[Workers] = [th[Workers] EXCEPT !.pc = "end", !.held = FALSE]
             /\ th[Workers].mode = "drop"
      <3>1. Workers \in Threads /\ th[Workers].mode # "finish" /\ th[Workers].mode \in Modes
        BY SinkPlace DEF Shape, ThreadStates
      <3>2. ASSUME NEW s, Go(Workers, s)
            PROVE  th'[Workers] = s
        BY <3>1, <3>2, GoneMode
      <3> QED
        BY <2>1, <3>1, <3>2 DEF Fine, Failed, Modes
    <2>4. SinkDue(th'[Workers], TRUE, TRUE)
      BY <2>2, <2>3
    <2> QED
      BY <1>2, <2>4, Zenon
  <1>5. CASE ~closed
    <2>1. PICK e : SinkOutcome(Workers, e) \/ Failed(Workers, e) \/ Panicked(Workers, e)
      BY DEF AbortClose, SinkOutcome
    <2>2. SinkDue(th'[Workers], TRUE, TRUE)
      BY <1>1, <1>3, <1>5, <2>1, SinkLands
    <2> QED
      BY <1>2, <2>2, Zenon
  <1> QED
    BY <1>4, <1>5

LEMMA SinkLoopDue ==
  ASSUME Base, SinkSide, Offer(Workers) \/ Drop(Workers) \/ End(Workers) \/ Recv(Workers)
  PROVE  SinkDue(th'[Workers], flushed, closed)
  <1> DEFINE t == Workers
             s == th[Workers]
  <1>1. /\ s \in ThreadStates /\ Shape(t, s) /\ t \in Threads /\ t > 0
        /\ flushed \in BOOLEAN /\ closed \in BOOLEAN /\ SinkDue(s, flushed, closed)
        /\ One(flushed) \in 0..1 /\ One(closed) \in 0..1 /\ s.attempts \in Nat
    BY SinkPlace DEF SinkSide, One, ThreadStates
  <1>2. CASE Offer(t)
    <2>1. s.pc = "offer" /\ s.attempts = 0 /\ s.mode \in {"run", "abort"} /\ (s.mode = "abort" => Closing(s.op))
      BY <1>1, <1>2 DEF Offer, Shape, ThreadStates, Modes
    <2>2. Closing(s.op) => closed
      BY <1>1, <2>1 DEF SinkDue
    <2>3. SinkDue(GiveUp(t), flushed, closed)
      BY <1>1, <2>1, <2>2 DEF SinkDue, GiveUp, Abort, ThreadStates, Outlet
    <2>4. SinkDue(PanicState(t), flushed, closed)
      BY <1>1, <2>1, <2>2 DEF SinkDue, PanicState, ThreadStates
    <2>5. th'[t] = GiveUp(t) \/ th'[t] = PanicState(t)
      BY <1>1, <1>2, GoneMode DEF Offer, Fine, Panicked
    <2> QED
      BY <2>3, <2>4, <2>5
  <1>3. CASE Drop(t)
    <2> DEFINE a == [s EXCEPT !.attempts = @ + 1, !.op = Op("abort"), !.pc = "sink"]
    <2>1. s.pc = "drop" /\ s.attempts <= One(flushed) + One(closed)
      BY <1>1, <1>3 DEF Drop, SinkDue
    <2>2. s.attempts # Attempts(t)
      BY <1>1, <2>1
    <2>3. Go(t, a)
      BY <1>1, <1>3, <2>2 DEF Drop, Fine, Outlet
    <2>4. SinkDue(a, flushed, closed)
      BY <1>1, <2>1 DEF SinkDue, ThreadStates
    <2>5. th'[t] = a
      BY <1>1, <2>3, GoneMode
    <2> QED
      BY <2>4, <2>5
  <1>4. CASE End(t)
    <2> DEFINE a == [s EXCEPT !.pc = "ended", !.op = Op("tick"), !.attempts = 0]
    <2>1. s.pc = "end" /\ Go(t, a)
      BY <1>4 DEF End
    <2>2. closed = TRUE
      BY <1>1, <2>1 DEF SinkDue
    <2>3. SinkDue(a, flushed, closed)
      <3>1. a.pc = "ended" /\ a.mode = s.mode /\ a.attempts = 0
        BY <1>1 DEF ThreadStates
      <3> HIDE DEF a
      <3> QED
        BY <1>1, <2>2, <3>1 DEF SinkDue, One
    <2>4. th'[t] = a
      BY <1>1, <2>1, GoneMode
    <2> QED
      BY <2>3, <2>4
  <1>5. CASE Recv(t)
    <2>1. s.pc = "loop" /\ s.mode = "run" /\ s.attempts = 0
      BY <1>1, <1>5 DEF Recv, Shape
    <2>2. \A op : SinkDue(Enter(t, op), flushed, closed)
      BY <1>1, <2>1 DEF SinkDue, Enter, ThreadStates, Outlet
    <2>3. SinkDue(Abort(t), flushed, closed)
      BY <1>1, <2>1 DEF SinkDue, Abort, ThreadStates, Outlet
    <2>4. th'[t] = Abort(t) \/ \E op : th'[t] = Enter(t, op)
      BY <1>1, <1>5, GoneMode DEF Recv
    <2> QED
      BY <2>2, <2>3, <2>4
  <1> QED
    BY <1>2, <1>3, <1>4, <1>5

LEMMA SinkSideThread ==
  ASSUME Base, CloseFollows, Mild, SinkSide, NEW t \in Threads, ThreadStep(t)
  PROVE  SinkSide'
  <1>1. CASE t # Workers
    <2>1. th'[Workers] = th[Workers]
      BY <1>1, ThreadMoves, SinkPlace DEF Base, Moves
    <2>2. flushed' = flushed /\ closed' = closed
      BY <1>1, ThreadWrites DEF CloseSource, guards
    <2> QED
      BY <2>1, <2>2 DEF SinkSide, SinkDue, One
  <1>2. CASE t = Workers
    <2>1. SinkDue(th'[Workers], flushed', closed')
      <3>1. CASE Stage(Workers) \/ Offer(Workers) \/ Drop(Workers) \/ End(Workers) \/ Recv(Workers) \/ SinkItem(Workers)
        <4>1. SinkDue(th'[Workers], flushed, closed)
          BY <3>1, SinkStage, SinkItemDue, SinkLoopDue
        <4>2. flushed' = flushed /\ closed' = closed
          BY <3>1 DEF Stage, Offer, Drop, End, Recv, SinkItem, guards
        <4> QED
          BY <4>1, <4>2, Zenon
      <3> QED
        BY <1>2, <3>1, SinkFlushDue, SinkCloseDue, AbortFlushDue, AbortCloseDue
           DEF ThreadStep, SinkStep
    <2>2. closed' => flushed'
      <3>1. (closed => flushed) /\ flushed' \in {flushed, TRUE}
        BY CallsTyped DEF SinkSide, Base
      <3>2. closed' = closed \/ SinkClose(t) \/ AbortClose(t)
        BY ThreadWrites DEF SinkFlush, AbortFlush, CloseSource, guards
      <3>3. SinkClose(t) => flushed
        <4>1. SinkClose(t) => CloseAt(Workers)
          BY <1>2 DEF SinkClose, CloseAt
        <4>2. FlushBelow(Workers) => flushed
          BY DEF FlushBelow
        <4> QED
          BY <4>1, <4>2, SinkPlace DEF CloseFollows
      <3>4. AbortClose(t) => flushed
        BY <1>2 DEF AbortClose, SinkSide, SinkDue
      <3> QED
        BY <3>1, <3>2, <3>3, <3>4, Zenon
    <2> QED
      BY <2>1, <2>2 DEF SinkSide, SinkDue, One
  <1> QED
    BY <1>1, <1>2

-----------------------------------------------------------------------------
(* The source's side.                                                      *)

LEMMA SourcePlace ==
  ASSUME Base
  PROVE  /\ 0 \in Threads /\ 1 \in Segments /\ th[0] \in ThreadStates
         /\ Shape(0, th[0]) /\ srcClosed \in BOOLEAN
  BY ShapeOf DEF Base, Flags

\* The states of the source's thread that none of its obligations touches.
LEMMA SourceAfter ==
  ASSUME Base, th[0].mode # "drop", th[0].pc # "offer"
  PROVE  /\ SourceDue(PanicState(0), srcClosed)
         /\ \A e : th[0].mode = "run" => SourceDue([th[0] EXCEPT !.pc = "offer", !.err = e, !.held = FALSE], srcClosed)
  <1>1. th[0] \in ThreadStates /\ Shape(0, th[0]) /\ th[0].attempts = 0
    BY SourcePlace DEF Shape
  <1>2. SourceDue(PanicState(0), srcClosed)
    BY <1>1 DEF SourceDue, PanicState, ThreadStates, One
  <1>3. \A e : th[0].mode = "run" => SourceDue([th[0] EXCEPT !.pc = "offer", !.err = e, !.held = FALSE], srcClosed)
    BY <1>1 DEF SourceDue, ThreadStates
  <1> QED
    BY <1>2, <1>3

\* Ok and GiveUp of the source's thread keep to what its mode allows.
LEMMA SourceGoesOn ==
  ASSUME Base, SourceDue(th[0], srcClosed), th[0].pc \in {"stage", "send", "handoff", "loop"}
  PROVE  /\ SourceDue(OkState(0), srcClosed)
         /\ th[0].mode \in {"run", "finish"} => SourceDue(GiveUp(0), srcClosed)
  <1>1. th[0] \in ThreadStates /\ Shape(0, th[0]) /\ th[0].attempts \in Nat
    BY SourcePlace DEF ThreadStates
  <1>2. SourceDue(OkState(0), srcClosed)
    BY <1>1 DEF SourceDue, OkState, ThreadStates, Outlet
  <1>3. th[0].mode \in {"run", "finish"} => SourceDue(GiveUp(0), srcClosed)
    BY <1>1 DEF SourceDue, GiveUp, Abort, ThreadStates, Outlet
  <1> QED
    BY <1>2, <1>3

LEMMA SourceFails ==
  ASSUME Base, SourceDue(th[0], srcClosed), th[0].pc \in {"stage", "loop"},
         NEW e, Failed(0, e) \/ Panicked(0, e)
  PROVE  SourceDue(th'[0], srcClosed)
  <1>1. /\ th[0] \in ThreadStates /\ Shape(0, th[0]) /\ th[0].mode \in {"run", "finish"}
        /\ 0 \in Threads
    BY SourcePlace DEF Shape
  <1>2. ASSUME NEW s, Go(0, s)
        PROVE  th'[0] = s
    BY <1>1, <1>2, GoneMode
  <1>3. \/ th'[0] = PanicState(0)
        \/ th[0].mode = "run" /\ th'[0] = [th[0] EXCEPT !.pc = "offer", !.err = e, !.held = FALSE]
        \/ th'[0] = GiveUp(0)
    BY <1>1, <1>2 DEF Failed, Panicked
  <1> QED
    BY <1>1, <1>3, SourceAfter, SourceGoesOn

LEMMA SourceChainDue ==
  ASSUME Base, SourceDue(th[0], srcClosed), Stage(0) \/ Send(0) \/ HandedOff(0) \/ Pump
  PROVE  SourceDue(th'[0], srcClosed)
  <1>1. th[0] \in ThreadStates /\ Shape(0, th[0]) /\ 0 \in Threads /\ srcClosed \in BOOLEAN
    BY SourcePlace
  <1>2. ASSUME NEW s, Go(0, s)
        PROVE  th'[0] = s
    BY <1>1, <1>2, GoneMode
  <1>3. CASE Stage(0)
    <2>1. th[0].pc = "stage" /\ th[0].attempts = 0 /\ th[0].mode \in {"run", "finish"}
      BY <1>1, <1>3 DEF Stage, Shape
    <2>2. SourceDue([th[0] EXCEPT !.pc = Outlet(0)], srcClosed)
      BY <1>1, <2>1 DEF SourceDue, ThreadStates, Outlet
    <2>3. \/ th'[0] = [th[0] EXCEPT !.pc = Outlet(0)] \/ th'[0] = OkState(0)
          \/ \E e : Failed(0, e) \/ Panicked(0, e)
      BY <1>2, <1>3 DEF Stage, Fine
    <2> QED
      BY <2>1, <2>2, <2>3, SourceGoesOn, SourceFails
  <1>4. CASE Send(0)
    <2>1. th[0].pc = "send"
      BY <1>4 DEF Send
    <2>2. SourceDue(Sent(0), srcClosed)
      <3>1. SourceDue([th[0] EXCEPT !.pc = "handoff"], srcClosed)
        BY <1>1, <2>1 DEF SourceDue, ThreadStates
      <3> QED
        BY <2>1, <3>1, SourceGoesOn DEF Sent
    <2>3. th[0].op.kind # "abort" => th[0].mode \in {"run", "finish"}
      BY <1>1, <2>1 DEF Shape, ThreadStates, Modes
    <2>4. \/ th'[0] = Sent(0) \/ th'[0] = OkState(0)
          \/ th'[0] = GiveUp(0) /\ th[0].op.kind # "abort"
      BY <1>2, <1>4 DEF Send, Fine, Disconnected
    <2> QED
      BY <2>1, <2>2, <2>3, <2>4, SourceGoesOn
  <1>5. CASE HandedOff(0)
    BY <1>2, <1>5, SourceGoesOn DEF HandedOff, Fine
  <1>6. CASE Pump
    <2>1. th[0].pc = "loop" /\ th[0].attempts = 0
      BY <1>1, <1>6 DEF Pump, Shape
    <2>2. ASSUME NEW op
          PROVE  SourceDue(Enter(0, op), srcClosed) /\ SourceDue([Enter(0, op) EXCEPT !.mode = "finish"], srcClosed)
      BY <1>1, <2>1 DEF SourceDue, Enter, ThreadStates, Outlet, One
    <2>3. \/ \E op : th'[0] = Enter(0, op) \/ th'[0] = [Enter(0, op) EXCEPT !.mode = "finish"]
          \/ \E e : Failed(0, e) \/ Panicked(0, e)
      BY <1>2, <1>6 DEF Pump, Fine
    <2> QED
      BY <2>1, <2>2, <2>3, SourceFails
  <1> QED
    BY <1>3, <1>4, <1>5, <1>6

LEMMA SourceEndDue ==
  ASSUME Base, SourceDue(th[0], srcClosed), Offer(0) \/ Drop(0) \/ End(0) \/ CloseRest \/ SegmentsDone
  PROVE  SourceDue(th'[0], srcClosed)
  <1> DEFINE s == th[0]
  <1>1. /\ s \in ThreadStates /\ Shape(0, s) /\ 0 \in Threads /\ srcClosed \in BOOLEAN
        /\ One(srcClosed) \in 0..1 /\ s.attempts \in Nat
    BY SourcePlace DEF One, ThreadStates
  <1>2. CASE Offer(0)
    <2>1. s.pc = "offer" /\ s.attempts = 0 /\ s.mode \in {"run", "abort"}
      BY <1>1, <1>2 DEF Offer, Shape, ThreadStates, Modes
    <2>2. s.mode = "abort" => srcClosed = TRUE
      BY <1>1, <2>1 DEF SourceDue
    <2>3. SourceDue(GiveUp(0), srcClosed)
      BY <1>1, <2>1, <2>2 DEF SourceDue, GiveUp, Abort, ThreadStates, Outlet
    <2>4. SourceDue(PanicState(0), srcClosed)
      BY <1>1, <2>1, <2>2 DEF SourceDue, PanicState, ThreadStates
    <2>5. th'[0] = GiveUp(0) \/ th'[0] = PanicState(0)
      BY <1>1, <1>2, GoneMode DEF Offer, Fine, Panicked
    <2> QED
      BY <2>3, <2>4, <2>5
  <1>3. CASE Drop(0)
    <2> DEFINE p == IF ~edge[1].tx THEN "closeSource" ELSE "send"
               a == [s EXCEPT !.attempts = @ + 1, !.op = Op("abort"), !.pc = p]
    <2>1. s.pc = "drop" /\ s.attempts <= One(srcClosed)
      BY <1>1, <1>3 DEF Drop, SourceDue
    <2>2. s.attempts # Attempts(0)
      BY <1>1, <2>1
    <2>3. Outlet(0) = "send"
      BY DEF Outlet
    <2>4. Go(0, a)
      BY <1>3, <2>2, <2>3 DEF Drop, Fine
    <2>5. p \in {"closeSource", "send"}
      OBVIOUS
    <2> HIDE DEF p
    <2>6. SourceDue(a, srcClosed)
      BY <1>1, <2>1, <2>5 DEF SourceDue, ThreadStates
    <2>7. th'[0] = a
      BY <1>1, <2>4, GoneMode
    <2> QED
      BY <2>6, <2>7
  <1>4. CASE End(0)
    <2> DEFINE a == [s EXCEPT !.pc = "ended", !.op = Op("tick"), !.attempts = 0]
    <2>1. s.pc = "end" /\ Go(0, a)
      BY <1>4 DEF End
    <2>2. srcClosed = TRUE
      BY <1>1, <2>1 DEF SourceDue
    <2>3. SourceDue(a, srcClosed)
      <3>1. a.pc = "ended" /\ a.attempts = 0
        BY <1>1 DEF ThreadStates
      <3> HIDE DEF a
      <3> QED
        BY <2>2, <3>1 DEF SourceDue, One
    <2>4. th'[0] = a
      BY <1>1, <2>1, GoneMode
    <2> QED
      BY <2>3, <2>4
  <1>5. CASE CloseRest \/ SegmentsDone
    <2>1. s.pc \in {"closeRest", "wait"}
      BY <1>5 DEF CloseRest, SegmentsDone
    <2>2. \A p \in {"wait", "closeSource"} : SourceDue([s EXCEPT !.pc = p], srcClosed)
      BY <1>1, <2>1 DEF SourceDue, ThreadStates
    <2>3. th'[0] = [s EXCEPT !.pc = "wait"] \/ th'[0] = [s EXCEPT !.pc = "closeSource"]
      BY <1>1, <1>5, GoneMode DEF CloseRest, SegmentsDone, Fine
    <2> QED
      BY <2>2, <2>3
  <1> QED
    BY <1>2, <1>3, <1>4, <1>5

LEMMA CloseSourceDue ==
  ASSUME Base, SourceDue(th[0], srcClosed), CloseSource
  PROVE  SourceDue(th'[0], srcClosed')
  <1>1. /\ th[0] \in ThreadStates /\ Shape(0, th[0]) /\ 0 \in Threads /\ srcClosed \in BOOLEAN
        /\ th[0].pc = "closeSource" /\ th[0].attempts \in Nat /\ srcClosed' = TRUE
    BY SourcePlace DEF CloseSource, ThreadStates
  <1>2. th[0].mode = "drop" => th[0].attempts <= One(srcClosed) + 1
    BY DEF SourceDue
  <1>3. \A e : SourceDue(Closed(e), TRUE)
    <2>1. th[0].mode = "drop" => th[0].attempts <= One(TRUE) + 1
      BY <1>1, <1>2 DEF One
    <2> QED
      BY <1>1, <2>1 DEF SourceDue, Closed, ThreadStates
  <1>4. CASE ~srcClosed /\ Panicked(0, "sourceClose")
    <2>1. th[0].mode = "drop" => th[0].attempts <= One(TRUE)
      BY <1>1, <1>2, <1>4 DEF One
    <2>2. th[0].mode # "drop" => th[0].attempts = 0
      BY <1>1 DEF Shape
    <2>3. PanicState(0) = [th[0] EXCEPT !.pc = "drop", !.mode = "drop", !.err = None, !.held = FALSE]
      BY <1>1 DEF PanicState
    <2>4. th'[0] = PanicState(0)
      BY <1>1, <1>4, GoneMode DEF Panicked
    <2>5. th[0].attempts <= 1
      BY <1>1, <2>1, <2>2 DEF One, ThreadStates, Modes
    <2>6. SourceDue(th'[0], TRUE)
      <3>1. th'[0].pc = "drop" /\ th'[0].attempts = th[0].attempts
        BY <1>1, <2>3, <2>4 DEF ThreadStates
      <3> QED
        BY <1>1, <2>5, <3>1 DEF SourceDue, One
    <2> QED
      BY <1>1, <2>6, Zenon
  <1>5. CASE \E e : Go(0, Closed(e))
    <2>1. PICK e : Go(0, Closed(e))
      BY <1>5
    <2>2. th'[0] = Closed(e)
      BY <1>1, <2>1, GoneMode
    <2>3. SourceDue(th'[0], TRUE)
      BY <1>3, <2>2
    <2> QED
      BY <1>1, <2>3, Zenon
  <1> QED
    BY <1>4, <1>5 DEF CloseSource

\* The source waits: once its end of the first edge is gone, or it closes or closed the
\* source, every segment has ended.
Waited == srcClosed \/ th[0].pc = "closeSource" \/ (~edge[1].tx /\ th[0].pc # "wait")

LEMMA TxStays ==
  ASSUME Base, NEW t \in Threads, Loses(t) \/ Takes(t) \/ Appends(t), NEW e \in Segments
  PROVE  edge'[e].tx = edge[e].tx
  <1>1. edge \in [Segments -> EdgeStates]
    BY SourcePlace, BufSeq
  <1>2. ASSUME NEW u \in Segments, NEW b,
               \/ edge' = [edge EXCEPT ![u].buf = b]
               \/ edge' = [edge EXCEPT ![u].rx = FALSE, ![u].buf = b]
        PROVE  edge'[e].tx = edge[e].tx
    <2>1. /\ [edge[e] EXCEPT !.buf = b].tx = edge[e].tx
          /\ [edge[e] EXCEPT !.rx = FALSE, !.buf = b].tx = edge[e].tx
      BY <1>1 DEF EdgeStates
    <2>2. edge'[e] \in {edge[e], [edge[e] EXCEPT !.buf = b], [edge[e] EXCEPT !.rx = FALSE, !.buf = b]}
      BY <1>1, <1>2
    <2> QED
      BY <2>1, <2>2, Zenon
  <1>3. t > 0 => t \in Segments
    OBVIOUS
  <1>4. t < Workers => t + 1 \in Segments
    OBVIOUS
  <1> QED
    BY <1>2, <1>3, <1>4 DEF Loses, Takes, Appends

LEMMA WaitsStep ==
  ASSUME Base, SourceSide, NEW t \in Threads, ThreadStep(t), Waited'
  PROVE  Waited \/ (th[0].pc = "wait" /\ t = 0 /\ \A u \in Segments : th[u].pc = "ended")
  <1>1. /\ th[0] \in ThreadStates /\ Shape(0, th[0]) /\ 0 \in Threads /\ 1 \in Segments
        /\ srcClosed \in BOOLEAN /\ edge \in [Segments -> EdgeStates]
    BY SourcePlace, BufSeq
  <1>2. ASSUME NEW s, Go(0, s)
        PROVE  th'[0] = s
    BY <1>1, <1>2, GoneMode
  <1>3. CASE t # 0
    <2>1. th'[0] = th[0] /\ srcClosed' = srcClosed
      <3>1. th'[0] = th[0]
        BY <1>1, <1>3, ThreadMoves DEF Base, Moves
      <3>2. srcClosed' = srcClosed
        BY <1>3, ThreadWrites DEF SinkFlush, SinkClose, AbortFlush, AbortClose, guards
      <3> QED
        BY <3>1, <3>2, Zenon
    <2>2. edge'[1].tx = edge[1].tx
      <3>1. CASE Loses(t) \/ Takes(t) \/ Appends(t)
        BY <1>1, <3>1, TxStays
      <3>3. CASE End(t)
        <4>1. t + 1 # 1
          BY <1>3
        <4>2. edge'[1].tx = (edge[1].tx /\ 1 # t + 1)
          BY <1>1, <3>3 DEF End
        <4>3. edge[1].tx \in BOOLEAN
          BY <1>1 DEF EdgeStates
        <4> QED
          BY <4>1, <4>2, <4>3
      <3> QED
        BY <1>1, <1>3, <3>1, <3>3, EdgeSteps DEF Base
    <2> QED
      BY <2>1, <2>2 DEF Waited
  <1>4. CASE t = 0 /\ CloseSource
    BY <1>4 DEF CloseSource, Waited
  <1>5. CASE t = 0 /\ SegmentsDone
    BY <1>5 DEF SegmentsDone
  <1>6. CASE t = 0 /\ CloseRest
    <2>1. th'[0].pc = "wait" /\ srcClosed' = srcClosed
      BY <1>1, <1>2, <1>6 DEF CloseRest, ThreadStates, guards
    <2> QED
      BY <2>1 DEF Waited
  <1>7. CASE t = 0 /\ End(0)
    <2>1. th[0].pc = "end"
      BY <1>7 DEF End
    <2>2. srcClosed
      BY <2>1 DEF SourceSide, SourceDue
    <2> QED
      BY <2>2 DEF Waited
  <1>8. CASE t = 0 /\ ~CloseSource /\ ~SegmentsDone /\ ~CloseRest /\ ~End(0)
    <2>1. srcClosed' = srcClosed /\ th[0].pc # "wait"
      <3>1. srcClosed' = srcClosed
        BY <1>8, ThreadWrites DEF SinkFlush, SinkClose, AbortFlush, AbortClose, guards
      <3>2. th[0].pc # "wait"
        BY <1>8 DEF ThreadStep, Stage, Drop, Offer, Send, HandedOff, SinkStep, SinkItem, SinkFlush,
         SinkClose, AbortFlush, AbortClose, Recv, SourceStep, Pump, CloseSource
      <3> QED
        BY <3>1, <3>2, Zenon
    <2>2. edge'[1].tx = edge[1].tx
      <3>1. CASE Loses(t) \/ Takes(t) \/ Appends(t)
        BY <1>1, <3>1, TxStays
      <3> QED
        BY <1>8, <3>1, EdgeSteps DEF Base
    <2>3. th'[0].pc = "closeSource" => ~edge[1].tx
      <3>1. CASE Drop(0)
        <4>1. /\ [th[0] EXCEPT !.pc = "end"].pc = "end"
              /\ [th[0] EXCEPT !.attempts = @ + 1, !.op = Op("abort"), !.pc = Outlet(0)].pc = "send"
          BY <1>1 DEF ThreadStates, Outlet
        <4> QED
          BY <1>2, <3>1, <4>1 DEF Drop, Fine
      <3>2. \/ /\ OkState(0).pc # "closeSource" /\ GiveUp(0).pc # "closeSource"
               /\ PanicState(0).pc # "closeSource"
            \/ th[0].pc = "closeSource"
        BY <1>1 DEF OkState, GiveUp, PanicState, Abort, ThreadStates, Outlet
      <3>3. ASSUME NEW e, Failed(0, e) \/ Panicked(0, e), th[0].pc # "closeSource"
            PROVE  th'[0].pc # "closeSource"
        <4>1. /\ [th[0] EXCEPT !.pc = "offer", !.err = e, !.held = FALSE].pc = "offer"
              /\ [th[0] EXCEPT !.pc = "end", !.held = FALSE].pc = "end"
          BY <1>1 DEF ThreadStates
        <4> QED
          BY <1>1, <1>2, <3>2, <3>3, <4>1 DEF Failed, Panicked, ThreadStates, Modes
      <3>4. CASE Stage(0)
        <4>1. [th[0] EXCEPT !.pc = Outlet(0)].pc = "send" /\ th[0].pc = "stage"
          BY <1>1, <3>4 DEF ThreadStates, Outlet, Stage
        <4> QED
          BY <1>2, <3>2, <3>3, <3>4, <4>1 DEF Stage, Fine
      <3>5. CASE Send(0) \/ HandedOff(0) \/ Offer(0)
        <4>1. th[0].pc \in {"send", "handoff", "offer"} /\ [th[0] EXCEPT !.pc = "handoff"].pc = "handoff"
          BY <1>1, <3>5 DEF ThreadStates, Send, HandedOff, Offer
        <4> QED
          BY <1>2, <3>2, <3>3, <3>5, <4>1 DEF Send, HandedOff, Offer, Fine, Disconnected, Sent
      <3>6. CASE Pump
        <4>1. th[0].pc = "loop"
          BY <3>6 DEF Pump
        <4>2. \A op : Enter(0, op).pc # "closeSource" /\ [Enter(0, op) EXCEPT !.mode = "finish"].pc # "closeSource"
          BY <1>1 DEF ThreadStates, Enter, Outlet
        <4> QED
          BY <1>2, <3>3, <3>6, <4>1, <4>2 DEF Pump, Fine
      <3> QED
        BY <1>8, <3>1, <3>4, <3>5, <3>6 DEF ThreadStep, SourceStep, SinkStep, Recv
    <2> QED
      BY <2>1, <2>2, <2>3 DEF Waited
  <1> QED
    BY <1>3, <1>4, <1>5, <1>6, <1>7, <1>8

LEMMA SourceSideThread ==
  ASSUME Base, SourceSide, NEW t \in Threads, ThreadStep(t)
  PROVE  SourceSide'
  <1>1. Waited' => \A u \in Segments : th'[u].pc = "ended"
    <2>1. ASSUME \A u \in Segments : th[u].pc = "ended"
          PROVE  \A u \in Segments : th'[u].pc = "ended"
      BY <2>1, Alive, ThreadMoves DEF Base, Moves
    <2>2. Waited => \A u \in Segments : th[u].pc = "ended"
      BY DEF SourceSide, Waited
    <2> QED
      BY <2>1, <2>2, WaitsStep
  <1>2. SourceDue(th'[0], srcClosed')
    <2>0. SourceDue(th[0], srcClosed)
      BY DEF SourceSide
    <2>1. CASE t # 0
      <3>1. th'[0] = th[0]
        BY <2>1, SourcePlace, ThreadMoves DEF Base, Moves
      <3>2. srcClosed' = srcClosed
        BY <2>1, ThreadWrites DEF SinkFlush, SinkClose, AbortFlush, AbortClose, guards
      <3> QED
        BY <2>0, <3>1, <3>2, Zenon
    <2>2. CASE t = 0 /\ CloseSource
      BY <2>0, <2>2, CloseSourceDue
    <2>3. CASE t = 0 /\ ~CloseSource
      <3>1. srcClosed' = srcClosed
        BY <2>3, ThreadWrites DEF SinkFlush, SinkClose, AbortFlush, AbortClose, guards
      <3>2. SourceDue(th'[0], srcClosed)
        BY <2>0, <2>3, SourceChainDue, SourceEndDue DEF ThreadStep, SourceStep
      <3> QED
        BY <3>1, <3>2, Zenon
    <2> QED
      BY <2>1, <2>2, <2>3
  <1> QED
    BY <1>1, <1>2 DEF SourceSide, Waited, SourceDue, One

-----------------------------------------------------------------------------
(* The calls, and the theorem.                                             *)

LEMMA Appended ==
  /\ SubSeq(Canonical, 1, 0) = <<>>
  /\ Append(SubSeq(Canonical, 1, 0), "flush") = SubSeq(Canonical, 1, 1)
  /\ Append(SubSeq(Canonical, 1, 1), "close") = SubSeq(Canonical, 1, 2)
  /\ Append(SubSeq(Canonical, 1, 2), "sourceClose") = SubSeq(Canonical, 1, 3)
  /\ Append(SubSeq(Canonical, 1, 3), "dlqFlush") = SubSeq(Canonical, 1, 4)
  /\ Append(SubSeq(Canonical, 1, 4), "dlqClose") = SubSeq(Canonical, 1, 5)
  BY DEF Canonical

LEMMA AllMade ==
  ASSUME NEW n \in 0..5
  PROVE  /\ Len(SubSeq(Canonical, 1, n)) = n
         /\ n = 5 => SubSeq(Canonical, 1, n) = Canonical
  <1>1. Canonical \in Seq(CallSet) /\ Len(Canonical) = 5
    BY Callable DEF Canonical
  <1>2. SubSeq(Canonical, 1, Len(Canonical)) = Canonical
    BY <1>1, SubSeqFull
  <1>3. \A i \in 1..n : Canonical[i] \in CallSet
    BY DEF CallSet
  <1>4. Len(SubSeq(Canonical, 1, n)) = n
    BY <1>3, SubSeqProperties
  <1> QED
    BY <1>1, <1>2, <1>4

\* The calls made, by the guards and the calling thread's place.
Finished == IF main = "dlqClose" THEN 1 ELSE IF main \in {"decide", "ended"} THEN 2 ELSE 0

LEMMA MadeIs ==
  Made = One(flushed) + One(closed) + One(srcClosed) + Finished
  BY DEF Made, One, Finished

\* What the parts of Teardown say of the guards.
LEMMA GuardsInOrder ==
  ASSUME Base, SourceSide, SinkSide
  PROVE  /\ closed => flushed
         /\ srcClosed \/ th[0].pc = "closeSource" => closed
         /\ main \in Late => srcClosed
  <1>1. SinkDue(th[Workers], flushed, closed) /\ SourceDue(th[0], srcClosed) /\ Workers \in Segments /\ 0 \in Threads
        /\ Workers \in Threads
    BY SourcePlace, SinkPlace DEF SinkSide, SourceSide
  <1>2. th[Workers].pc = "ended" => closed
    BY <1>1 DEF SinkDue
  <1>3. srcClosed \/ th[0].pc = "closeSource" => th[Workers].pc = "ended"
    BY <1>1 DEF SourceSide
  <1>4. main \in Late => th[0].pc = "ended"
    BY <1>1, LateEnded
  <1>5. th[0].pc = "ended" => srcClosed
    BY <1>1 DEF SourceDue
  <1> QED
    BY <1>2, <1>3, <1>4, <1>5, Zenon DEF SinkSide

\* The calls keep to the guards.
InOrder == calls = SubSeq(Canonical, 1, Made)

LEMMA CallsThread ==
  ASSUME Base, CloseFollows, SourceSide, SinkSide, InOrder, NEW t \in Threads, ThreadStep(t)
  PROVE  InOrder'
  <1>1. /\ main' = main /\ main \notin Late /\ Finished = 0 /\ Finished' = 0
    BY ThreadWrites, ThreadNotLate DEF Finished, Late
  <1>2. /\ flushed \in BOOLEAN /\ closed \in BOOLEAN /\ srcClosed \in BOOLEAN
        /\ closed => flushed
        /\ srcClosed \/ th[0].pc = "closeSource" => closed
    BY GuardsInOrder DEF Base, Flags
  <1>3. t = Workers => ~srcClosed
    BY Alive, SinkPlace DEF SourceSide
  <1>4. CASE UNCHANGED <<calls, guards>>
    <2>1. UNCHANGED <<calls, flushed, closed, srcClosed>>
      BY <1>4 DEF guards
    <2> QED
      BY <1>1, <2>1, MadeIs DEF InOrder, Made
  <1>5. ASSUME t = Workers, ~flushed, flushed' = TRUE, UNCHANGED <<closed, srcClosed>>, calls' = Append(calls, "flush")
        PROVE  InOrder'
    <2>1. Made = 0 /\ Made' = 1
      BY <1>1, <1>2, <1>3, <1>5 DEF Made, One, Late
    <2> QED
      BY <1>5, <2>1, Appended DEF InOrder
  <1>6. ASSUME t = Workers, flushed, ~closed, closed' = TRUE, UNCHANGED <<flushed, srcClosed>>, calls' = Append(calls, "close")
        PROVE  InOrder'
    <2>1. Made = 1 /\ Made' = 2
      BY <1>1, <1>2, <1>3, <1>6 DEF Made, One, Late
    <2> QED
      BY <1>6, <2>1, Appended DEF InOrder
  <1>7. CASE t = Workers /\ SinkFlush(t)
    BY <1>5, <1>7 DEF SinkFlush
  <1>8. CASE t = Workers /\ SinkClose(t)
    <2>1. CloseAt(Workers)
      BY <1>8 DEF SinkClose, CloseAt
    <2>2. flushed
      BY <2>1, SinkPlace DEF CloseFollows, FlushBelow
    <2> QED
      BY <1>6, <1>8, <2>2 DEF SinkClose
  <1>9. CASE t = Workers /\ AbortFlush(t)
    <2>1. UNCHANGED <<calls, guards>> \/ (~flushed /\ flushed' = TRUE /\ UNCHANGED <<closed, srcClosed>> /\ calls' = Append(calls, "flush"))
      BY <1>9 DEF AbortFlush, guards
    <2> QED
      BY <1>4, <1>5, <1>9, <2>1
  <1>10. CASE t = Workers /\ AbortClose(t)
    <2>1. flushed
      BY <1>10 DEF AbortClose, SinkSide, SinkDue
    <2>2. CASE closed
      <3>1. closed = TRUE
        BY <1>2, <2>2
      <3> QED
        BY <1>4, <1>10, <3>1 DEF AbortClose, guards
    <2>3. CASE ~closed
      BY <1>6, <1>10, <2>1, <2>3 DEF AbortClose
    <2> QED
      BY <2>2, <2>3
  <1>11. CASE t = 0 /\ CloseSource
    <2>1. closed /\ flushed /\ srcClosed' = TRUE /\ UNCHANGED <<flushed, closed>>
      BY <1>2, <1>11 DEF CloseSource
    <2>2. CASE srcClosed
      <3>1. srcClosed = TRUE
        BY <1>2, <2>2
      <3> QED
        BY <1>4, <1>11, <3>1 DEF CloseSource, guards
    <2>3. CASE ~srcClosed
      <3>1. Made = 2 /\ Made' = 3 /\ calls' = Append(calls, "sourceClose")
        BY <1>1, <1>11, <2>1, <2>3 DEF Made, One, Late, CloseSource
      <3> QED
        BY <3>1, Appended DEF InOrder
    <2> QED
      BY <2>2, <2>3
  <1> QED
    BY <1>4, <1>7, <1>8, <1>9, <1>10, <1>11, ThreadWrites

LEMMA CallsCaller ==
  ASSUME Base, SourceSide, SinkSide, InOrder, Mild, CallerStep
  PROVE  InOrder'
  <1>1. UNCHANGED <<flushed, closed, srcClosed>>
    BY CallerWrites DEF guards
  <1>2. CASE ~(DlqFlush \/ DlqClose \/ Decide)
    <2>1. /\ calls' = calls /\ main \notin {"dlqClose", "decide", "ended"}
          /\ main' \notin {"dlqClose", "decide", "ended"}
      BY <1>2 DEF CallerStep, Started, Spawn, SpawnFailed, DropRest, Join
    <2> QED
      BY <1>1, <2>1 DEF InOrder, Made, One
  <1>3. CASE DlqFlush \/ DlqClose \/ Decide
    <2>1. flushed /\ closed /\ srcClosed
      <3>1. main \in Late
        BY <1>3 DEF DlqFlush, DlqClose, Decide, Late
      <3> QED
        BY <3>1, GuardsInOrder, Zenon
    <2>2. CASE DlqFlush
      <3>1. main = "dlqFlush" /\ main' = "dlqClose" /\ calls' = Append(calls, "dlqFlush")
        BY <2>2 DEF DlqFlush, Mild, Bound
      <3>2. Made = 3 /\ Made' = 4
        BY <1>1, <2>1, <3>1 DEF Made, One
      <3> QED
        BY <3>1, <3>2, Appended DEF InOrder
    <2>3. CASE DlqClose
      <3>1. main = "dlqClose" /\ main' \in {"decide", "ended"} /\ calls' = Append(calls, "dlqClose")
        BY <2>3 DEF DlqClose
      <3>2. Made = 4 /\ Made' = 5
        BY <1>1, <2>1, <3>1 DEF Made, One
      <3> QED
        BY <3>1, <3>2, Appended DEF InOrder
    <2>4. CASE Decide
      <3>1. main = "decide" /\ main' = "ended" /\ calls' = calls
        BY <2>4 DEF Decide
      <3> QED
        BY <1>1, <3>1 DEF InOrder, Made, One
    <2> QED
      BY <1>3, <2>2, <2>3, <2>4
  <1> QED
    BY <1>2, <1>3

LEMMA SidesCaller ==
  ASSUME Base, CallerStep
  PROVE  /\ SourceSide => SourceSide'
         /\ SinkSide => SinkSide'
  <1>1. /\ UNCHANGED <<edge, flushed, closed, srcClosed>>
        /\ \A t \in Threads :
             \/ th'[t] = th[t]
             \/ th[t].pc = "new" /\ Shape(t, th'[t]) /\ th'[t].pc \in {"loop", "drop"}
    BY CallerMoves, CallerWrites DEF guards
  <1>2. ASSUME NEW t \in Threads, th[t].pc = "new"
        PROVE  th'[t].attempts = 0 /\ th[t].attempts = 0
    <2>1. th[t] \in ThreadStates /\ th[t].attempts = 0 /\ th \in [Threads -> ThreadStates]
      BY <1>2, ShapeOf DEF Base, Shape, Types
    <2>2. th' = th \/ \E n \in Threads : Starts(n) \/ Drops(n)
      BY CallerWrites
    <2>3. \A p : [th[t] EXCEPT !.pc = p].attempts = 0 /\ [th[t] EXCEPT !.pc = p, !.mode = "drop"].attempts = 0
      BY <2>1 DEF ThreadStates
    <2>4. th'[t] \in {th[t], [th[t] EXCEPT !.pc = "drop", !.mode = "drop"], [th[t] EXCEPT !.pc = "loop"]}
      BY <2>1, <2>2 DEF Starts, Drops, Go
    <2> QED
      BY <2>1, <2>3, <2>4
  <1>3. ASSUME SourceSide
        PROVE  SourceSide'
    <2>1. SourceDue(th[0], srcClosed) /\ 0 \in Threads
      BY <1>3 DEF SourceSide
    <2>2. SourceDue(th'[0], srcClosed)
      <3>1. CASE th'[0] = th[0]
        BY <2>1, <3>1
      <3>2. CASE th[0].pc = "new" /\ th'[0].pc \in {"loop", "drop"}
        BY <1>2, <2>1, <3>2 DEF SourceDue, One
      <3> QED
        BY <1>1, <2>1, <3>1, <3>2
    <2>3. Waited' => Waited
      BY <1>1, <2>1 DEF Waited
    <2>4. Waited => \A u \in Segments : th[u].pc = "ended"
      BY <1>3 DEF SourceSide, Waited
    <2>5. \A u \in Segments : th[u].pc = "ended" => th'[u].pc = "ended"
      BY <1>1
    <2>6. SourceDue(th'[0], srcClosed')
      BY <1>1, <2>2, Zenon
    <2> QED
      BY <2>3, <2>4, <2>5, <2>6 DEF SourceSide, Waited, SourceDue, One
  <1>4. ASSUME SinkSide
        PROVE  SinkSide'
    <2>1. SinkDue(th[Workers], flushed, closed) /\ Workers \in Threads /\ (closed => flushed)
      BY <1>4, SinkPlace DEF SinkSide
    <2>2. SinkDue(th'[Workers], flushed, closed)
      <3>1. CASE th'[Workers] = th[Workers]
        BY <2>1, <3>1
      <3>2. CASE th[Workers].pc = "new" /\ th'[Workers].pc \in {"loop", "drop"}
        BY <1>2, <2>1, <3>2 DEF SinkDue, One
      <3> QED
        BY <1>1, <2>1, <3>1, <3>2
    <2>3. SinkDue(th'[Workers], flushed', closed')
      BY <1>1, <2>2, Zenon
    <2>4. closed' => flushed'
      BY <1>1, <2>1, Zenon
    <2> QED
      BY <2>3, <2>4 DEF SinkSide, SinkDue, One
  <1> QED
    BY <1>3, <1>4

\* A close follows its flush through the edges, whoever is dropped tries often enough,
\* and the calls made so far are those whose guards are up, in the order of Canonical.
THEOREM TeardownInvariant == Spec => [](CloseFollows /\ Teardown)
  <1>1. ASSUME Init
        PROVE  CloseFollows /\ Teardown
    <2>1. \A t \in Threads : th[t] = Fresh
      BY <1>1 DEF Init
    <2>2. Fresh.pc = "new" /\ Fresh.op.kind = "tick" /\ Fresh.mode = "run" /\ Fresh.attempts = 0
      BY DEF Fresh, Op
    <2>3. /\ \A e \in Segments : edge[e].buf = <<>> /\ edge[e].tx = TRUE
          /\ flushed = FALSE /\ closed = FALSE /\ srcClosed = FALSE
      BY <1>1 DEF Init
    <2>4. 0 \in Threads /\ Workers \in Threads /\ 1 \in Segments
      OBVIOUS
    <2>5. SourceSide
      BY <2>1, <2>2, <2>3, <2>4 DEF SourceSide, SourceDue, One
    <2>6. SinkSide
      BY <2>1, <2>2, <2>3, <2>4 DEF SinkSide, SinkDue, One
    <2>7. CloseFollows
      BY <2>1, <2>2, <2>3, EmptySeq DEF CloseFollows, CloseAt
    <2>8. Made = 0 /\ calls = <<>>
      BY <1>1, <2>3 DEF Made, One, Init
    <2> QED
      BY <2>5, <2>6, <2>7, <2>8, Appended DEF Teardown
  <1>2. ASSUME Base, CloseFollows, Teardown, [Next]_vars
        PROVE  CloseFollows' /\ Teardown'
    <2>1. CloseFollows'
      BY <1>2, CloseFollowsStep
    <2>2. (Mild' => Mild) /\ (Teardown <=> SourceSide /\ (Mild => SinkSide /\ InOrder))
      BY <1>2, ThreadWrites, CallerWrites DEF Mild, Panics, Next, Cancel, Returned, vars, Teardown, InOrder
    <2>3. ASSUME NEW t \in Threads, ThreadStep(t)
          PROVE  Teardown'
      <3>1. SourceSide'
        BY <1>2, <2>2, <2>3, SourceSideThread
      <3>2. Mild => SinkSide' /\ InOrder'
        BY <1>2, <2>2, <2>3, SinkSideThread, CallsThread
      <3> QED
        BY <2>1, <2>2, <3>1, <3>2 DEF Teardown, InOrder
    <2>4. CASE CallerStep
      <3>1. SourceSide'
        BY <1>2, <2>2, <2>4, SidesCaller
      <3>2. Mild => SinkSide' /\ InOrder'
        BY <1>2, <2>2, <2>4, SidesCaller, CallsCaller
      <3> QED
        BY <2>1, <2>2, <3>1, <3>2 DEF Teardown, InOrder
    <2>5. CASE Cancel \/ UNCHANGED vars
      <3>1. UNCHANGED <<th, edge, flushed, closed, srcClosed, main, calls, scenario>>
        BY <2>5 DEF Cancel, vars, guards, caller
      <3>2. SourceSide'
        BY <1>2, <2>2, <3>1, Zenon DEF SourceSide
      <3>3. Mild => SinkSide'
        BY <1>2, <2>2, <3>1, Zenon DEF SinkSide
      <3>4. Mild => InOrder'
        BY <1>2, <2>2, <3>1 DEF InOrder, Made
      <3> QED
        BY <2>1, <2>2, <3>2, <3>3, <3>4 DEF Teardown, InOrder
    <2> QED
      BY <1>2, <2>1, <2>3, <2>4, <2>5 DEF Next, Returned
  <1> QED
    BY <1>1, <1>2, BaseInvariant, PTL DEF Spec

\* The sink is flushed and closed, the source closed and the dead-letter sink finished,
\* in this order and once each, however the threads interleave and whatever fails, as
\* long as neither a second panic ends a segment's own abort nor the dead-letter sink's
\* flush panics.
THEOREM ThreadedTornDown ==
  ASSUME \A s \in Scenarios : s.panics \cap {"selfAbort", "dlqFlush"} = {}
  PROVE  Spec => []TornDown
  <1>1. ASSUME Base, Decided, Teardown
        PROVE  TornDown
    <2>1. Mild
      BY <1>1 DEF Base, Types, Mild, Panics
    <2>2. calls = SubSeq(Canonical, 1, Made) /\ SourceSide /\ SinkSide
      BY <1>1, <2>1 DEF Teardown
    <2>3. Made \in 0..5
      BY DEF Made, One
    <2>4. main = "ended" => Made = 5
      <3>1. main = "ended" => flushed /\ closed /\ srcClosed
        BY <1>1, <2>2, GuardsInOrder, Zenon DEF Late
      <3> QED
        BY <3>1 DEF Made, One
    <2> QED
      BY <2>2, <2>3, <2>4, AllMade DEF TornDown
  <1> QED
    BY <1>1, BaseInvariant, ErrorsInvariant, TeardownInvariant, PTL

-----------------------------------------------------------------------------
USE WorkersAssumption DEF Threads, Segments, None, At, Closing, Attempts

-----------------------------------------------------------------------------
(* Where the errors come from.                                             *)

\* Every error that travels was raised, and the scenario allows it.
Known ==
  /\ raised \subseteq Errors
  /\ first \in raised \cup {None}
  /\ \A t \in Threads : /\ th[t].err \in raised \cup {None}
                        /\ th[t].held => "abort" \in Errors
  /\ local \in raised \cup {None} \/ th[0].mode = "drop"
  /\ main \in {"spawnFailed", "dropRest"} => "spawn" \in raised /\ th[next].mode = "drop"

-----------------------------------------------------------------------------
(* As long as nobody gave up, every thread hands its close on.             *)

\* No panic, no error in the shared slot, none of the errors that travel another way.
Quiet == /\ panics = {} /\ main # "unwindRunner" /\ first = None
         /\ raised \cap {"sourceFlush", "spawn"} = {}

Clean == raised = {} /\ panics = {} /\ main # "unwindRunner"

Shut(t) == \/ th[t].pc \in {"closeRest", "wait", "closeSource", "end", "ended"}
           \/ th[t].pc = "handoff" /\ th[t].op.kind = "close"
Took(t) == \/ th[t].pc \in {"end", "ended"}
           \/ th[t].pc \in {"send", "handoff", "sink"} /\ th[t].op.kind = "close"

\* The edge e, which its receiver still holds, and the threads at its ends.
CloseLast(b) == b # <<>> /\ b[Len(b)].kind = "close"
Handing(e) ==
  LET b == edge[e].buf IN
  /\ th[e - 1].mode \in {"run", "finish"} /\ th[e - 1].op.kind # "abort"
  /\ th[e].mode = "run" /\ th[e].pc \notin {"offer", "ended"} /\ th[e].op.kind # "abort"
  /\ \A k \in 1..Len(b) : /\ b[k].kind # "abort"
                          /\ b[k].kind = "close" => k = Len(b) /\ Shut(e - 1)
  /\ Took(e) => Shut(e - 1) /\ b = <<>>
  /\ Shut(e - 1) => Took(e) \/ CloseLast(b)
  /\ edge[e].tx \/ Shut(e - 1)

Gone(t) == th[t].pc \in {"offer", "end", "ended"} \/ th[t].mode = "abort"

Tidy ==
  /\ \A e \in Segments : edge[e].rx \/ edge[e].buf = <<>>
  /\ Quiet =>
       /\ \A e \in Segments : IF edge[e].rx THEN Handing(e) ELSE Gone(e)
       /\ \A t \in Threads : /\ th[t].mode # "drop"
                             /\ th[t].op.kind = "abort" => t < Workers /\ ~edge[t + 1].rx
       /\ th[0].pc = "closeSource" => th[1].pc = "ended"
  /\ Clean => \A e \in Segments : edge[e].rx \/ (th[e].pc = "ended" /\ Shut(e - 1))

-----------------------------------------------------------------------------
(* The first cause.                                                        *)

\* The scenarios in which an error of a teardown cannot overtake its cause.
NoOvertaking == "abort" \in Errors => Errors \cap {"sourceFlush", "spawn"} = {}

\* Errors met while everything is being closed, and after the threads have ended.
Trailing == {"sourceClose", "dlqFlush", "dlqClose"}

\* The source thread offers what it kept.
Leaving == th[0].mode = "abort" /\ th[0].pc = "offer"

\* Where an error other than a cause comes from.
Rooted ==
  /\ "skip" \notin raised
  /\ local \in {None, "sourceFlush"} \/ th[0].mode = "drop" \/ th[0].pc \in {"end", "ended"} \/ Leaving
  /\ Leaving \/ (th[0].pc = "closeSource" /\ th[0].mode # "drop") => \A t \in Segments : th[t].pc = "ended"
  /\ Leaving => th[0].err = local
  /\ \A t \in Threads : /\ th[t].err = "abort" => ~Quiet
                        /\ th[t].err \in Causes \cup {None, "abort"} \/ (t = 0 /\ Leaving)

\* A cause is neither replaced by what follows it nor lost.
Caused ==
  /\ first = "abort" => Unwinds
  /\ first \in Trailing => /\ \A t \in Segments : th[t].pc = "ended"
                           /\ th[0].pc \in {"end", "ended"}
                           /\ raised \cap Causes = {} \/ Unwinds
  /\ Reaches(Causes)

-----------------------------------------------------------------------------
(* The items.                                                              *)

Carries(t) == th[t].op.kind = "item" /\ th[t].pc \in {"stage", "send", "sink"}
Carried(t) == IF Carries(t) THEN {th[t].op.item} ELSE {}
Waiting(e) == {edge[e].buf[k].item : k \in 1..Len(edge[e].buf)} \ {0}
Done == {written[i] : i \in 1..Len(written)}

\* Whatever is further downstream is earlier.
Apart ==
  /\ \A t, u \in Threads : t < u => \A m \in Carried(t), n \in Carried(u) : n < m
  /\ \A e, f \in Segments : e < f => \A m \in Waiting(e), n \in Waiting(f) : n < m
  /\ \A t \in Threads, e \in Segments : \A m \in Carried(t), n \in Waiting(e) :
       IF t < e THEN n < m ELSE m < n
  /\ \A t \in Threads : \A m \in Carried(t) : m <= pulled /\ \A n \in Done : n < m
  /\ \A e \in Segments : \A m \in Waiting(e) : m <= pulled /\ \A n \in Done : n < m
  /\ \A n \in Done : n <= pulled

InOrderOn(b) == \A j, k \in 1..Len(b) : j < k /\ b[k].item # 0 => b[j].item < b[k].item

Ordered ==
  /\ \A i, j \in 1..Len(written) : i < j => written[i] < written[j]
  /\ \A e \in Segments : InOrderOn(edge[e].buf)
  /\ Apart

InTransit == {n \in 1..MaxItems : \/ \E t \in Threads : n \in Carried(t)
                                   \/ \E e \in Segments : n \in Waiting(e)}

Counted ==
  /\ Len(written) + skipped + Cardinality(InTransit) <= pulled
  /\ Clean => Len(written) + skipped + Cardinality(InTransit) = pulled

\* A message on an edge without a buffer is in the hands of its sender.
HandOffs ==
  Capacity = 0 =>
    \A e \in Segments : edge[e].buf # <<>> =>
      th[e - 1].pc = "handoff" /\ th[e - 1].op = edge[e].buf[1]

Faultless ==
  \/ raised # {} \/ panics # {} \/ main = "unwindRunner" \/ \E t \in Threads : th[t].held
  => faults > 0

-----------------------------------------------------------------------------
(* What a step of a thread does to the errors.                             *)

LEMMA DropStays ==
  ASSUME Base, NEW t \in Threads, ThreadStep(t), th[t].mode = "drop"
  PROVE  th'[t].mode = "drop"
  <1>1. th[t] \in ThreadStates /\ Shape(t, th[t]) /\ th[t].pc # "loop" /\ th[t].pc # "offer"
        /\ (th[t].pc = "send" => th[t].op.kind = "abort")
    BY ShapeOf DEF Base, Shape
  <1>2. CASE Plain(t)
    <2>1. OkState(t).mode = "drop"
      BY <1>1, StateModes
    <2> QED
      BY <1>1, <1>2, <2>1 DEF Plain, Closed, ThreadStates
  <1>3. ASSUME NEW e, Raises(t, e)
        PROVE  th'[t].mode = "drop"
    BY <1>1, <1>3, GoneMode DEF Raises, Failed, ThreadStates
  <1>4. ASSUME NEW e, Panicked(t, e)
        PROVE  th'[t].mode = "drop"
    BY <1>1, <1>4, GoneMode DEF Panicked, PanicState, ThreadStates
  <1> QED
    BY <1>2, <1>3, <1>4, PlainStep

\* What becomes of a thread's error and of the one it holds back.
LEMMA ErrMoves ==
  ASSUME Base, NEW t \in Threads, ThreadStep(t)
  PROVE  /\ \/ th'[t].err \in {th[t].err, None}
            \/ t = 0 /\ th[0].pc = "closeSource" /\ th[0].mode # "drop" /\ th'[0].err = local'
            \/ \E e \in RunErrors : Raises(t, e) /\ th'[t].err = e /\ raised' = raised \cup {e}
         /\ th'[t].held => th[t].held \/ "abort" \in Errors
  <1>1. th[t] \in ThreadStates /\ Shape(t, th[t]) /\ th[t].held \in BOOLEAN
    BY ShapeOf DEF Base, ThreadStates
  <1>2. /\ OkState(t).err = th[t].err /\ OkState(t).held = th[t].held
        /\ GiveUp(t).err \in {th[t].err, None} /\ GiveUp(t).held = th[t].held
        /\ Abort(t).err = None /\ Abort(t).held = th[t].held
        /\ PanicState(t).err = None /\ PanicState(t).held = FALSE
    BY <1>1 DEF OkState, GiveUp, Abort, PanicState, ThreadStates
  <1>3. CASE Plain(t)
    <2>1. \A op : Enter(t, op).err = th[t].err /\ Enter(t, op).held = th[t].held
      BY <1>1 DEF Enter, ThreadStates
    <2>2. t = 0 => /\ [Enter(0, Op("flush")) EXCEPT !.mode = "finish"].err = th[0].err
                   /\ [Enter(0, Op("flush")) EXCEPT !.mode = "finish"].held = th[0].held
      BY <1>1 DEF Enter, ThreadStates
    <2>3. t = 0 => /\ Closed(local').held = th[0].held
                   /\ \/ Closed(local').err = th[0].err
                      \/ Closed(local').err = local' /\ th[0].mode # "drop"
      BY <1>1 DEF Closed, ThreadStates
    <2>4. \/ th'[t].err = th[t].err /\ th'[t].held = th[t].held
          \/ th'[t].err = th[t].err /\ "abort" \in Errors
          \/ t = 0 /\ th[0].pc = "closeSource" /\ th'[0] = Closed(local')
          \/ th'[t] = Abort(t) \/ th'[t] = GiveUp(t)
      <3> DEFINE d == [th[t] EXCEPT !.attempts = @ + 1, !.op = Op("abort"),
                       !.pc = IF t = 0 /\ ~edge[1].tx THEN "closeSource" ELSE Outlet(t)]
                 n == [th[t] EXCEPT !.pc = "ended", !.op = Op("tick"), !.attempts = 0]
                 h == [th[t] EXCEPT !.pc = "sinkClose", !.held = TRUE]
      <3>1. /\ [th[t] EXCEPT !.pc = Outlet(t)].err = th[t].err /\ [th[t] EXCEPT !.pc = Outlet(t)].held = th[t].held
            /\ [th[t] EXCEPT !.pc = "handoff"].err = th[t].err /\ [th[t] EXCEPT !.pc = "handoff"].held = th[t].held
            /\ [th[t] EXCEPT !.pc = "sinkClose"].err = th[t].err /\ [th[t] EXCEPT !.pc = "sinkClose"].held = th[t].held
            /\ [th[t] EXCEPT !.pc = "wait"].err = th[t].err /\ [th[t] EXCEPT !.pc = "wait"].held = th[t].held
            /\ [th[t] EXCEPT !.pc = "closeSource"].err = th[t].err /\ [th[t] EXCEPT !.pc = "closeSource"].held = th[t].held
            /\ [th[t] EXCEPT !.pc = "end"].err = th[t].err /\ [th[t] EXCEPT !.pc = "end"].held = th[t].held
        BY <1>1 DEF ThreadStates
      <3>2. d.err = th[t].err /\ d.held = th[t].held /\ n.err = th[t].err /\ n.held = th[t].held
            /\ h.err = th[t].err
        BY <1>1 DEF ThreadStates
      <3>4. CASE th[t].pc \in {"stage", "send", "handoff", "offer", "sink", "sinkClose"}
        BY <1>2, <1>3, <3>1, <3>2, <3>4 DEF Plain
      <3>5. CASE th[t].pc = "loop"
        BY <1>3, <2>1, <2>2, <3>5 DEF Plain
      <3>6. CASE th[t].pc \in {"closeRest", "wait", "closeSource", "end"}
        BY <1>3, <3>1, <3>2, <3>6 DEF Plain
      <3>7. CASE th[t].pc = "drop"
        BY <1>3, <3>1, <3>2, <3>7 DEF Plain
      <3> QED
        BY <1>3, <3>4, <3>5, <3>6, <3>7 DEF Plain
    <2> QED
      BY <1>2, <2>3, <2>4
  <1>4. ASSUME NEW e \in RunErrors, Raises(t, e)
        PROVE  /\ \/ th'[t].err \in {th[t].err, None}
                  \/ th'[t].err = e /\ raised' = raised \cup {e}
               /\ th'[t].held => th[t].held
    <2>1. /\ [th[t] EXCEPT !.pc = "offer", !.err = e, !.held = FALSE].err = e
          /\ [th[t] EXCEPT !.pc = "offer", !.err = e, !.held = FALSE].held = FALSE
          /\ [th[t] EXCEPT !.pc = "end", !.held = FALSE].err = th[t].err
          /\ [th[t] EXCEPT !.pc = "end", !.held = FALSE].held = FALSE
      BY <1>1 DEF ThreadStates
    <2>2. ASSUME NEW s, Go(t, s)
          PROVE  th'[t] = s
      BY <2>2, GoneMode
    <2>3. \/ th'[t] = [th[t] EXCEPT !.pc = "offer", !.err = e, !.held = FALSE] /\ raised' = raised \cup {e}
          \/ th'[t] = GiveUp(t)
          \/ th'[t] = [th[t] EXCEPT !.pc = "end", !.held = FALSE]
      BY <1>1, <1>4, <2>2 DEF Raises, Failed, ThreadStates, Modes
    <2> QED
      BY <1>2, <2>1, <2>3
  <1>5. ASSUME NEW e, Panicked(t, e)
        PROVE  th'[t].err = None /\ th'[t].held = FALSE
    BY <1>2, <1>5, GoneMode DEF Panicked
  <1> QED
    BY <1>3, <1>4, <1>5, PlainStep

LEMMA KnownThread ==
  ASSUME Base, Known, NEW t \in Threads, ThreadStep(t)
  PROVE  Known'
  <1>1. /\ th[t] \in ThreadStates /\ Shape(t, th[t]) /\ 0 \in Threads
        /\ \A u \in Threads : u # t => th'[u] = th[u]
        /\ UNCHANGED <<scenario, main, next>> /\ Errors' = Errors
    <2>1. th[t] \in ThreadStates /\ Shape(t, th[t]) /\ Types /\ Shapes
      BY ShapeOf DEF Base
    <2>2. \A u \in Threads : u # t => th'[u] = th[u]
      BY <2>1, ThreadMoves DEF Moves
    <2>3. UNCHANGED <<scenario, main, next>>
      BY ThreadWrites
    <2> QED
      BY <2>1, <2>2, <2>3 DEF Errors
  <1>2. raised \subseteq raised' /\ raised' \subseteq Errors
    <2>1. ASSUME NEW e, Raises(t, e)
          PROVE  raised \subseteq raised' /\ raised' \subseteq Errors
      <3>1. e \in Errors
        BY <2>1 DEF Raises, Known
      <3>2. raised' \in {raised, raised \cup {e}}
        BY <1>1, <2>1 DEF Raises, Failed, ThreadStates, Modes
      <3> QED
        BY <3>1, <3>2 DEF Known
    <2>2. t = 0 /\ CloseSource => raised \subseteq raised' /\ raised' \subseteq Errors
      BY DEF CloseSource, Raise, Bound, Known, Panicked
    <2> QED
      BY <2>1, <2>2, ThreadRaises DEF Known
  <1>3. local' \in raised' \cup {None} \/ th'[0].mode = "drop"
    <2>1. CASE th[0].mode = "drop"
      BY <1>1, <2>1, DropStays
    <2>2. CASE th[0].mode # "drop"
      <3>1. local \in raised \cup {None}
        BY <2>2 DEF Known
      <3>2. ASSUME NEW e, Raises(t, e)
            PROVE  local' \in raised' \cup {None}
        <4>1. local' \in {local} \/ (local' \in {local, e} /\ raised' = raised \cup {e})
          BY <1>1, <3>2 DEF Raises, Failed, ThreadStates, Modes
        <4> QED
          BY <1>2, <3>1, <4>1
      <3>3. t = 0 /\ CloseSource => local' \in raised' \cup {None}
        BY <1>2, <2>2, <3>1 DEF CloseSource, Panicked
      <3> QED
        BY <1>2, <3>1, <3>2, <3>3, ThreadRaises
    <2> QED
      BY <2>1, <2>2
  <1>4. th'[t].err \in raised' \cup {None} /\ (th'[t].held => "abort" \in Errors)
    <2>1. th[t].err \in raised' \cup {None} /\ (th[t].held => "abort" \in Errors)
      BY <1>2 DEF Known
    <2>2. t = 0 /\ th[0].pc = "closeSource" /\ th[0].mode # "drop" /\ th'[0].err = local' => th'[0].err \in raised' \cup {None}
      <3>1. th[0].mode # "drop" => local \in raised \cup {None}
        BY DEF Known
      <3>2. ASSUME t = 0, th[0].pc = "closeSource", th[0].mode # "drop"
            PROVE  local' \in raised' \cup {None}
        <4>1. CloseSource
          BY <3>2 DEF ThreadStep, Stage, Drop, Offer, Send, HandedOff, SinkStep, SinkItem, SinkFlush,
             SinkClose, AbortFlush, AbortClose, Recv, SourceStep, Pump, End, CloseRest, SegmentsDone
        <4> QED
          BY <1>2, <3>1, <3>2, <4>1 DEF CloseSource, Panicked
      <3> QED
        BY <3>2
    <2> QED
      BY <2>1, <2>2, ErrMoves
  <1>5. first' \in raised' \cup {None}
    BY <1>2, ThreadWrites DEF Known, Keep
  <1>6. main' \in {"spawnFailed", "dropRest"} => "spawn" \in raised' /\ th'[next'].mode = "drop"
    <2>1. next \in Threads
      BY DEF Base, Types
    <2> QED
      BY <1>1, <1>2, <2>1, DropStays DEF Known
  <1>7. \A u \in Threads : th'[u].err \in raised' \cup {None} /\ (th'[u].held => "abort" \in Errors)
    BY <1>1, <1>2, <1>4 DEF Known
  <1> QED
    BY <1>1, <1>2, <1>3, <1>5, <1>6, <1>7 DEF Known

LEMMA KnownCaller ==
  ASSUME Base, Known, CallerStep
  PROVE  Known'
  <1>0. /\ th \in [Threads -> ThreadStates] /\ next \in Threads /\ 0 \in Threads
        /\ Errors' = Errors /\ local' = local
    BY CallerWrites DEF Base, Types, Errors
  <1>1. raised \subseteq raised' /\ raised' \subseteq Errors
    BY DEF CallerStep, Started, Spawn, SpawnFailed, DropRest, Join, DlqFlush, DlqClose, Decide,
       Raise, Bound, Calm, Known
  <1>2. first' \in raised' \cup {None}
    BY <1>1 DEF CallerStep, Started, Spawn, SpawnFailed, DropRest, Join, DlqFlush, DlqClose, Decide,
       Raise, Bound, Calm, Known, Keep
  <1>3. \A t \in Threads : th'[t].err = th[t].err /\ th'[t].held = th[t].held
                           /\ th'[t].mode \in {th[t].mode, "drop"}
    <2>1. th' = th \/ \E n \in Threads : Starts(n) \/ Drops(n)
      BY CallerWrites
    <2>2. ASSUME NEW t \in Threads
          PROVE  th'[t] \in {th[t], [th[t] EXCEPT !.pc = "drop", !.mode = "drop"], [th[t] EXCEPT !.pc = "loop"]}
      BY <1>0, <2>1 DEF Starts, Drops, Go
    <2>3. ASSUME NEW t \in Threads
          PROVE  /\ [th[t] EXCEPT !.pc = "loop"].err = th[t].err
                 /\ [th[t] EXCEPT !.pc = "drop", !.mode = "drop"].err = th[t].err
                 /\ [th[t] EXCEPT !.pc = "loop"].held = th[t].held
                 /\ [th[t] EXCEPT !.pc = "drop", !.mode = "drop"].held = th[t].held
                 /\ [th[t] EXCEPT !.pc = "loop"].mode = th[t].mode
                 /\ [th[t] EXCEPT !.pc = "drop", !.mode = "drop"].mode = "drop"
      BY <1>0 DEF ThreadStates
    <2>4. ASSUME NEW t \in Threads
          PROVE  th'[t].err = th[t].err /\ th'[t].held = th[t].held /\ th'[t].mode \in {th[t].mode, "drop"}
      <3>1. th'[t] = th[t] \/ th'[t] = [th[t] EXCEPT !.pc = "drop", !.mode = "drop"] \/ th'[t] = [th[t] EXCEPT !.pc = "loop"]
        BY <2>2
      <3>2. CASE th'[t] = [th[t] EXCEPT !.pc = "drop", !.mode = "drop"]
        BY <2>3, <3>2, Zenon
      <3>3. CASE th'[t] = [th[t] EXCEPT !.pc = "loop"]
        BY <2>3, <3>3, Zenon
      <3> QED
        BY <3>1, <3>2, <3>3
    <2> QED
      BY <2>4
  <1>4. main' \in {"spawnFailed", "dropRest"} => "spawn" \in raised' /\ th'[next'].mode = "drop"
    <2>1. next > 0 => next - 1 \in Threads
      BY <1>0
    <2>2. \A t \in Threads : [th[t] EXCEPT !.pc = "drop", !.mode = "drop"].mode = "drop"
      BY <1>0 DEF ThreadStates
    <2>3. Spawn /\ main' = "spawnFailed" => "spawn" \in raised' /\ next' = next /\ Drops(next)
      BY DEF Spawn, Drops
    <2>4. SpawnFailed /\ main' = "dropRest" => main = "spawnFailed" /\ UNCHANGED <<th, next>>
      BY DEF SpawnFailed
    <2>5. DropRest /\ main' = "dropRest" =>
            main = "dropRest" /\ next' \in Threads /\ Drops(next')
      <3>1. DropRest /\ main' = "dropRest" =>
              main = "dropRest" /\ next # 0 /\ next' = next - 1 /\ Drops(next - 1)
        BY DEF DropRest, Drops
      <3>2. next # 0 => next - 1 \in Threads
        BY <1>0, <2>1
      <3>3. next' = next - 1 /\ Drops(next - 1) => Drops(next')
        OBVIOUS
      <3> QED
        BY <3>1, <3>2, <3>3
    <2>6. \A n \in Threads : Drops(n) => th'[n].mode = "drop"
      BY <1>0, <2>2 DEF Drops, Go
    <2>7. main' \in {"spawnFailed", "dropRest"} => Spawn \/ SpawnFailed \/ DropRest
      BY DEF CallerStep, Started, Join, DlqFlush, DlqClose, Decide
    <2>8. /\ Spawn => main' # "dropRest"
          /\ SpawnFailed \/ DropRest => main' # "spawnFailed"
      BY DEF Spawn, SpawnFailed, DropRest
    <2> QED
      BY <1>0, <1>1, <2>3, <2>4, <2>5, <2>6, <2>7, <2>8 DEF Known
  <1> QED
    BY <1>0, <1>1, <1>2, <1>3, <1>4 DEF Known

-----------------------------------------------------------------------------
(* What a step does to the items.                                          *)

Keeps(t) == /\ Carried(t)' \subseteq Carried(t)
            /\ \A e \in Segments : edge'[e].buf \in {edge[e].buf, <<>>}
            /\ UNCHANGED flow
Skips(t) == /\ Carries(t) /\ Carried(t)' = {} /\ skipped' = skipped + 1
            /\ UNCHANGED <<edge, pulled, written>>
Pulls(t) == /\ t = 0 /\ Carried(t) = {} /\ Carried(t)' = {pulled + 1} /\ pulled' = pulled + 1
            /\ UNCHANGED <<edge, skipped, written>>
Sends(t) == Appends(t) /\ Carried(t)' = {} /\ UNCHANGED flow
Gets(t) == /\ Takes(t) /\ Carried(t) = {} /\ Carried(t)' = {Head(edge[t].buf).item} \ {0}
           /\ UNCHANGED flow
Writes(t) == /\ t = Workers /\ Carries(t) /\ Carried(t)' = {}
             /\ written' = Append(written, th[t].op.item)
             /\ UNCHANGED <<edge, pulled, skipped>>

LEMMA ItemNot0 ==
  ASSUME Base, NEW op \in Ops
  PROVE  op.item # 0 <=> op.kind = "item"
  BY ErrorsOf DEF Base, Ops, Op, Item

LEMMA OkCarriesNot ==
  ASSUME Base, NEW t \in Threads, th[t].pc \in {"stage", "send", "handoff", "sink", "sinkClose"}
  PROVE  OkState(t).pc \notin {"stage", "send", "sink"} \/ OkState(t).op.kind = "close"
  <1>1. th[t] \in ThreadStates /\ Shape(t, th[t])
    BY ShapeOf DEF Base
  <1> QED
    BY <1>1, OpsOf DEF OkState, ThreadStates, Shape, Outlet

LEMMA EmptyHanded ==
  ASSUME NEW t \in Threads, th'[t].pc \notin {"stage", "send", "sink"} \/ th'[t].op.kind # "item"
  PROVE  Carried(t)' = {}
  BY DEF Carried, Carries

LEMMA GiveUpEmpty ==
  ASSUME Base, NEW t \in Threads, th[t].pc \in {"stage", "send", "sink", "sinkClose", "loop", "offer"}
  PROVE  GiveUp(t).pc \notin {"stage", "send", "sink"} \/ GiveUp(t).op.kind = "abort"
  <1>1. th[t] \in ThreadStates /\ Shape(t, th[t])
    BY ShapeOf DEF Base
  <1> QED
    BY <1>1, OpsOf DEF GiveUp, Abort, ThreadStates, Shape, Outlet

LEMMA CarryStays ==
  ASSUME Base, NEW t \in Threads, ThreadStep(t), th[t].pc # "loop"
  PROVE  Carried(t)' \subseteq Carried(t)
  <1>1. th[t] \in ThreadStates /\ Shape(t, th[t])
    BY ShapeOf DEF Base
  <1>2. ASSUME Plain(t), ~(th[t].pc = "stage" /\ th'[t] = [th[t] EXCEPT !.pc = Outlet(t)])
        PROVE  Carried(t)' = {}
    <2>1. \/ th'[t] = OkState(t) /\ th[t].pc \in {"stage", "send", "handoff", "sink", "sinkClose"}
          \/ th'[t] = GiveUp(t) /\ th[t].pc \in {"send", "offer"}
          \/ th'[t].pc \notin {"stage", "send", "sink"}
          \/ th'[t].op.kind = "abort"
      <3>1. /\ [th[t] EXCEPT !.pc = "handoff"].pc = "handoff"
            /\ [th[t] EXCEPT !.pc = "sinkClose"].pc = "sinkClose"
            /\ [th[t] EXCEPT !.pc = "sinkClose", !.held = TRUE].pc = "sinkClose"
            /\ [th[t] EXCEPT !.pc = "wait"].pc = "wait"
            /\ [th[t] EXCEPT !.pc = "closeSource"].pc = "closeSource"
            /\ [th[t] EXCEPT !.pc = "end"].pc = "end"
            /\ [th[t] EXCEPT !.pc = "ended", !.op = Op("tick"), !.attempts = 0].pc = "ended"
        BY <1>1 DEF ThreadStates
      <3>2. [th[t] EXCEPT !.attempts = @ + 1, !.op = Op("abort"),
                       !.pc = IF t = 0 /\ ~edge[1].tx THEN "closeSource" ELSE Outlet(t)].op.kind = "abort"
        BY <1>1, OpsOf DEF ThreadStates
      <3>3. t = 0 => Closed(local').pc \in {"offer", "end"}
        BY <1>1 DEF Closed, ThreadStates
      <3> QED
        BY <1>1, <1>2, <3>1, <3>2, <3>3 DEF Plain
    <2> QED
      BY <2>1, OkCarriesNot, GiveUpEmpty, EmptyHanded
  <1>3. ASSUME th[t].pc = "stage", th'[t] = [th[t] EXCEPT !.pc = Outlet(t)]
        PROVE  Carried(t)' \subseteq Carried(t)
    BY <1>1, <1>3 DEF Carried, Carries, ThreadStates
  <1>4. ASSUME NEW e, Raises(t, e)
        PROVE  Carried(t)' = {}
    <2>1. /\ [th[t] EXCEPT !.pc = "offer", !.err = e, !.held = FALSE].pc = "offer"
          /\ [th[t] EXCEPT !.pc = "end", !.held = FALSE].pc = "end"
      BY <1>1 DEF ThreadStates
    <2>2. \/ th'[t] = [th[t] EXCEPT !.pc = "offer", !.err = e, !.held = FALSE]
          \/ th'[t] = GiveUp(t)
          \/ th'[t] = [th[t] EXCEPT !.pc = "end", !.held = FALSE]
      BY <1>1, <1>4, GoneMode DEF Raises, Failed, ThreadStates, Modes
    <2>3. th[t].pc \in {"stage", "sink", "sinkClose", "loop"}
      BY <1>4 DEF Raises
    <2> QED
      BY <2>1, <2>2, <2>3, GiveUpEmpty, EmptyHanded
  <1>5. ASSUME NEW e, Panicked(t, e)
        PROVE  Carried(t)' = {}
    <2>1. th'[t].pc \in {"drop", "end"}
      BY <1>1, <1>5, GoneMode DEF Panicked, PanicState, ThreadStates
    <2> QED
      BY <2>1, EmptyHanded
  <1> QED
    BY <1>2, <1>3, <1>4, <1>5, PlainStep

LEMMA BufOptions ==
  ASSUME Base, NEW t \in Threads, ThreadStep(t), ~Appends(t), ~Takes(t)
  PROVE  \A e \in Segments : edge'[e].buf \in {edge[e].buf, <<>>}
  BY BufSteps

LEMMA ItemSteps ==
  ASSUME Base, NEW t \in Threads, ThreadStep(t)
  PROVE  /\ \A u \in Threads : u # t => Carried(u)' = Carried(u)
         /\ Keeps(t) \/ Skips(t) \/ Pulls(t) \/ Sends(t) \/ Gets(t) \/ Writes(t)
  <1>1. /\ th[t] \in ThreadStates /\ Shape(t, th[t])
        /\ \A u \in Threads : u # t => th'[u] = th[u]
    BY ShapeOf, ThreadMoves DEF Base, Moves
  <1>2. \A u \in Threads : u # t => Carried(u)' = Carried(u)
    BY <1>1 DEF Carried, Carries
  <1>3. UNCHANGED edge \/ Loses(t) \/ Appends(t) \/ Takes(t) \/ (t = 0 /\ CloseRest) \/ End(t)
    BY EdgeSteps DEF Base
  <1>4. ASSUME th[t].pc # "loop"
        PROVE  Keeps(t) \/ Skips(t) \/ Sends(t) \/ Writes(t)
    <2>1. Carried(t)' \subseteq Carried(t) /\ UNCHANGED pulled /\ ~Takes(t)
      BY <1>4, CarryStays, ThreadWrites DEF Pump, Takes
    <2>2. CASE Stage(t) /\ skipped' = skipped + 1
      <3>1. skipped' # skipped
        BY <2>2 DEF Base, Types
      <3>2. Go(t, OkState(t)) /\ th[t].op.kind = "item" /\ th[t].pc = "stage" /\ UNCHANGED <<edge, written>>
        BY <2>2, <3>1 DEF Stage
      <3>3. Carried(t)' = {}
        BY <3>2, GoneMode, OkCarriesNot, EmptyHanded
      <3> QED
        BY <2>1, <2>2, <3>2, <3>3 DEF Skips, Carries
    <2>3. CASE t = Workers /\ SinkItem(t) /\ th[t].op.kind = "item" /\ written' = Append(written, th[t].op.item)
      <3>1. written' # written
        BY <1>1, <2>3 DEF Base, Types
      <3>2. Go(t, OkState(t)) /\ th[t].pc = "sink" /\ UNCHANGED <<edge, pulled, skipped>>
        BY <2>3, <3>1 DEF SinkItem, Fine
      <3>3. Carried(t)' = {}
        BY <3>2, GoneMode, OkCarriesNot, EmptyHanded
      <3> QED
        BY <2>3, <3>2, <3>3 DEF Writes, Carries
    <2>4. CASE Appends(t) /\ UNCHANGED flow
      <3>1. th'[t] = Sent(t)
        BY <2>4, GoneMode DEF Appends
      <3>2. Sent(t).pc \notin {"stage", "send", "sink"} \/ Sent(t).op.kind = "close"
        BY <1>1, <2>4, OkCarriesNot DEF Sent, ThreadStates, Appends
      <3>3. Carried(t)' = {}
        BY <3>1, <3>2, EmptyHanded
      <3> QED
        BY <2>4, <3>3 DEF Sends
    <2>5. CASE ~Appends(t) /\ UNCHANGED flow
      BY <2>1, <2>5, BufOptions DEF Keeps
    <2> QED
      BY <2>1, <2>2, <2>3, <2>4, <2>5, ThreadWrites DEF flow
  <1>5. ASSUME th[t].pc = "loop", t = 0
        PROVE  Keeps(t) \/ Pulls(t)
    <2>1. Pump /\ UNCHANGED edge /\ UNCHANGED <<skipped, written>> /\ Carried(t) = {}
      <3>1. Pump
        BY <1>5 DEF ThreadStep, Stage, Drop, Offer, Send, HandedOff, SinkStep, SinkItem, SinkFlush,
             SinkClose, AbortFlush, AbortClose, Recv, SourceStep, CloseSource, End, CloseRest, SegmentsDone
      <3>2. UNCHANGED edge
        <4>1. (\E s : Fine(0, s)) \/ Failed(0, "pull") \/ Panicked(0, "pull")
          BY <3>1 DEF Pump
        <4>2. LoseRx(0) => UNCHANGED edge
          BY DEF LoseRx
        <4> QED
          BY <4>1, <4>2 DEF Fine, Failed, Panicked
      <3> QED
        BY <1>5, <3>1, <3>2 DEF Pump, Carried, Carries
    <2>2. \/ Go(0, Enter(0, Item(pulled + 1))) /\ pulled' = pulled + 1
          \/ UNCHANGED pulled /\ \/ Go(0, Enter(0, Op("tick")))
                                 \/ Go(0, [Enter(0, Op("flush")) EXCEPT !.mode = "finish"])
                                 \/ Failed(0, "pull") \/ Panicked(0, "pull")
      BY <2>1 DEF Pump, Fine
    <2>3. CASE Go(0, Enter(0, Item(pulled + 1))) /\ pulled' = pulled + 1
      <3>1. th'[0] = Enter(0, Item(pulled + 1))
        BY <1>5, <2>3, GoneMode
      <3>2. th'[0].op = Item(pulled + 1) /\ th'[0].pc = "stage"
        BY <1>1, <1>5, <3>1, OpsOf DEF Enter, ThreadStates
      <3>3. Carried(t)' = {pulled + 1}
        BY <1>5, <3>2, OpsOf DEF Carried, Carries
      <3> QED
        BY <1>5, <2>1, <2>3, <3>3 DEF Pulls
    <2>4. ASSUME UNCHANGED pulled, th'[0].pc \notin {"stage", "send", "sink"} \/ th'[0].op.kind # "item"
          PROVE  Keeps(t)
      <3>1. Carried(t)' = {}
        BY <1>5, <2>4, EmptyHanded
      <3> QED
        BY <2>1, <2>4, <3>1 DEF Keeps, flow
    <2>5. CASE Go(0, Enter(0, Op("tick"))) /\ UNCHANGED pulled
      <3>1. Enter(0, Op("tick")).op.kind = "tick"
        BY <1>1, <1>5, OpsOf DEF Enter, ThreadStates
      <3> QED
        BY <1>5, <2>4, <2>5, <3>1, GoneMode
    <2>6. CASE Go(0, [Enter(0, Op("flush")) EXCEPT !.mode = "finish"]) /\ UNCHANGED pulled
      <3>1. [Enter(0, Op("flush")) EXCEPT !.mode = "finish"].op.kind = "flush"
        BY <1>1, <1>5, OpsOf DEF Enter, ThreadStates
      <3> QED
        BY <1>5, <2>4, <2>6, <3>1, GoneMode
    <2>7. CASE Failed(0, "pull") /\ UNCHANGED pulled
      <3>1. th[0].mode = "run"
        BY <1>1, <1>5 DEF Shape
      <3>2. Go(0, [th[0] EXCEPT !.pc = "offer", !.err = "pull", !.held = FALSE])
        BY <2>7, <3>1 DEF Failed
      <3>3. [th[0] EXCEPT !.pc = "offer", !.err = "pull", !.held = FALSE].pc = "offer"
        BY <1>1, <1>5 DEF ThreadStates
      <3> QED
        BY <1>5, <2>4, <2>7, <3>2, <3>3, GoneMode
    <2>8. CASE Panicked(0, "pull") /\ UNCHANGED pulled
      <3>1. PanicState(0).pc \in {"drop", "end"}
        BY <1>1, <1>5 DEF PanicState, ThreadStates
      <3> QED
        BY <1>5, <2>4, <2>8, <3>1, GoneMode DEF Panicked
    <2> QED
      BY <2>2, <2>3, <2>5, <2>6, <2>7, <2>8
  <1>6. ASSUME th[t].pc = "loop", t # 0
        PROVE  Keeps(t) \/ Gets(t)
    <2>1. Recv(t) /\ UNCHANGED flow /\ Carried(t) = {} /\ ~Appends(t)
      <3>1. Recv(t)
        BY <1>6 DEF ThreadStep, Stage, Drop, Offer, Send, HandedOff, SinkStep, SinkItem, SinkFlush,
             SinkClose, AbortFlush, AbortClose, SourceStep, CloseSource, End, CloseRest, SegmentsDone
      <3> QED
        BY <1>6, <3>1 DEF Recv, Carried, Carries, Appends
    <2>2. CASE Takes(t)
      <3>1. th'[t] = Enter(t, Head(edge[t].buf)) /\ Head(edge[t].buf) \in Ops
        BY <1>6, <2>2, GoneMode, BufSeq DEF Takes
      <3>2. th'[t].op = Head(edge[t].buf) /\ (th'[t].op.kind = "item" => th'[t].pc = "stage")
        BY <1>1, <3>1 DEF Enter, ThreadStates
      <3>3. Carried(t)' = {Head(edge[t].buf).item} \ {0}
        BY <3>1, <3>2, ItemNot0 DEF Carried, Carries
      <3> QED
        BY <2>1, <2>2, <3>3 DEF Gets
    <2>3. CASE ~Takes(t)
      <3>1. Go(t, Enter(t, Op("tick"))) \/ Go(t, Abort(t))
        BY <1>6, <2>1, <2>3 DEF Recv, Takes
      <3>2. Enter(t, Op("tick")).op.kind = "tick" /\ Abort(t).op.kind = "abort"
        BY <1>1, OpsOf DEF Enter, Abort, ThreadStates
      <3>3. Carried(t)' = {}
        BY <3>1, <3>2, GoneMode, EmptyHanded
      <3> QED
        BY <2>1, <2>3, <3>3, BufOptions DEF Keeps
    <2> QED
      BY <2>2, <2>3
  <1> QED
    BY <1>2, <1>4, <1>5, <1>6

-----------------------------------------------------------------------------
(* The order of the items.                                                 *)

\* Every item is older than those further upstream.
LEMMA Places ==
  ASSUME Base
  PROVE  /\ \A t \in Threads : Carried(t) \subseteq 1..MaxItems
         /\ \A e \in Segments : Waiting(e) \subseteq 1..MaxItems
         /\ Done \subseteq 1..MaxItems
         /\ pulled \in Nat /\ skipped \in Nat /\ Len(written) \in Nat /\ MaxItems \in Nat
         /\ \A t \in Threads : Carries(t) => th[t].op.item \in 1..MaxItems
  <1>1. MaxItems \in Nat
    BY ErrorsOf DEF Base
  <1>2. \A op \in Ops : op.item \in 0..MaxItems /\ (op.kind = "item" => op.item \in 1..MaxItems)
    BY <1>1 DEF Ops, Op, Item
  <1>3. \A t \in Threads : Carries(t) => th[t].op.item \in 1..MaxItems
    BY <1>2, ShapeOf DEF Base, Carries, ThreadStates
  <1>4. ASSUME NEW e \in Segments, NEW k \in 1..Len(edge[e].buf)
        PROVE  edge[e].buf[k].item \in 0..MaxItems
    BY <1>2, BufSeq
  <1>5. \A e \in Segments : Waiting(e) \subseteq 1..MaxItems
    BY <1>1, <1>4 DEF Waiting
  <1>6. Done \subseteq 1..MaxItems /\ Len(written) \in Nat
    <2>1. written \in Seq(1..MaxItems)
      BY DEF Base, Types
    <2>2. Len(written) \in Nat /\ \A i \in 1..Len(written) : written[i] \in 1..MaxItems
      BY <2>1, ElementOfSeq, LenProperties, Zenon
    <2> QED
      BY <2>2 DEF Done
  <1>7. pulled \in Nat /\ skipped \in Nat
    BY <1>1 DEF Base, Types
  <1> QED
    BY <1>1, <1>3, <1>5, <1>6, <1>7 DEF Carried

LEMMA AppendedItems ==
  ASSUME Base, NEW e \in Segments, NEW op \in Ops, edge'[e].buf = Append(edge[e].buf, op)
  PROVE  /\ Waiting(e)' = Waiting(e) \cup ({op.item} \ {0})
         /\ InOrderOn(edge[e].buf) /\ (op.item # 0 => \A k \in 1..Len(edge[e].buf) : edge[e].buf[k].item < op.item)
              => InOrderOn(edge'[e].buf)
  <1> DEFINE b == edge[e].buf
  <1>1. b \in Seq(Ops) /\ Len(b) \in Nat
    BY BufSeq
  <1>2. /\ Len(edge'[e].buf) = Len(b) + 1
        /\ \A k \in 1..Len(b) : edge'[e].buf[k] = b[k]
        /\ edge'[e].buf[Len(b) + 1] = op
    BY <1>1
  <1> HIDE DEF b
  <1>3. 1..Len(b) + 1 = 1..Len(b) \cup {Len(b) + 1}
    BY <1>1
  <1>4. Waiting(e)' = Waiting(e) \cup ({op.item} \ {0})
    BY <1>2, <1>3 DEF Waiting, b
  <1>5. InOrderOn(b) /\ (op.item # 0 => \A k \in 1..Len(b) : b[k].item < op.item)
          => InOrderOn(edge'[e].buf)
    BY <1>1, <1>2, <1>3 DEF InOrderOn
  <1> QED
    BY <1>4, <1>5 DEF b

LEMMA TailItems ==
  ASSUME Base, NEW e \in Segments, edge[e].buf # <<>>, edge'[e].buf = Tail(edge[e].buf)
  PROVE  /\ Waiting(e) = Waiting(e)' \cup ({Head(edge[e].buf).item} \ {0})
         /\ InOrderOn(edge[e].buf) => /\ InOrderOn(edge'[e].buf)
                                      /\ \A n \in Waiting(e)' : Head(edge[e].buf).item < n
  <1> DEFINE b == edge[e].buf
             c == edge'[e].buf
  <1>1. b \in Seq(Ops) /\ Len(b) \in Nat \ {0}
    BY BufSeq
  <1>2. /\ Len(c) = Len(b) - 1 /\ Len(c) \in Nat
        /\ \A k \in 1..Len(c) : c[k] = b[k + 1] /\ k + 1 \in 1..Len(b)
        /\ Head(b) = b[1] /\ 1 \in 1..Len(b)
    BY <1>1
  <1>3. \A k \in 1..Len(b) : k = 1 \/ (k - 1 \in 1..Len(c) /\ c[k - 1] = b[k])
    BY <1>1, <1>2
  <1> HIDE DEF b, c
  <1>4. Waiting(e) = Waiting(e)' \cup ({Head(b).item} \ {0})
    <2>1. Waiting(e) = {b[k].item : k \in 1..Len(b)} \ {0} /\ Waiting(e)' = {c[k].item : k \in 1..Len(c)} \ {0}
      BY DEF Waiting, b, c
    <2>2. \A n : (\E k \in 1..Len(b) : n = b[k].item) <=> n = Head(b).item \/ \E k \in 1..Len(c) : n = c[k].item
      <3>1. ASSUME NEW k \in 1..Len(b)
            PROVE  b[k].item = Head(b).item \/ \E j \in 1..Len(c) : b[k].item = c[j].item
        BY <1>2, <1>3
      <3>2. ASSUME NEW k \in 1..Len(c)
            PROVE  \E j \in 1..Len(b) : c[k].item = b[j].item
        BY <1>2
      <3>3. \E j \in 1..Len(b) : Head(b).item = b[j].item
        BY <1>2
      <3> QED
        BY <3>1, <3>2, <3>3
    <2>3. \A n : n \in Waiting(e) <=> n # 0 /\ \E k \in 1..Len(b) : n = b[k].item
      BY <2>1
    <2>4. \A n : n \in Waiting(e)' <=> n # 0 /\ \E k \in 1..Len(c) : n = c[k].item
      BY <2>1
    <2>5. \A n : n \in Waiting(e) <=> n \in Waiting(e)' \/ (n # 0 /\ n = Head(b).item)
      <3> DEFINE P(n) == \E k \in 1..Len(b) : n = b[k].item
                 Q(n) == \E k \in 1..Len(c) : n = c[k].item
                 h == Head(b).item
      <3>1. \A n : P(n) <=> n = h \/ Q(n)
        BY <2>2
      <3>2. \A n : n \in Waiting(e) <=> n # 0 /\ P(n)
        BY <2>3
      <3>3. \A n : n \in Waiting(e)' <=> n # 0 /\ Q(n)
        BY <2>4
      <3> HIDE DEF P, Q, h
      <3>4. \A n : n \in Waiting(e) <=> n \in Waiting(e)' \/ (n # 0 /\ n = h)
        BY <3>1, <3>2, <3>3
      <3> QED
        BY <3>4 DEF h
    <2> QED
      BY <2>5
  <1>5. InOrderOn(b) => InOrderOn(c)
    <2> SUFFICES ASSUME InOrderOn(b), NEW j \in 1..Len(c), NEW k \in 1..Len(c), j < k, c[k].item # 0
                 PROVE  c[j].item < c[k].item
      BY DEF InOrderOn
    <2>1. j + 1 < k + 1
      OBVIOUS
    <2> QED
      BY <1>2, <2>1 DEF InOrderOn
  <1>6. InOrderOn(b) => \A n \in Waiting(e)' : Head(b).item < n
    <2> SUFFICES ASSUME InOrderOn(b), NEW k \in 1..Len(c), c[k].item # 0
                 PROVE  Head(b).item < c[k].item
      BY DEF Waiting, c
    <2>1. 1 < k + 1
      OBVIOUS
    <2> QED
      BY <1>2, <2>1 DEF InOrderOn
  <1> QED
    BY <1>4, <1>5, <1>6 DEF b, c

LEMMA WrittenOrder ==
  ASSUME Base, Ordered, NEW m, \A n \in Done : n < m, written' = Append(written, m)
  PROVE  /\ \A i, j \in 1..Len(written') : i < j => written'[i] < written'[j]
         /\ Done' = Done \cup {m} /\ Len(written') = Len(written) + 1
  <1>1. written \in Seq(1..MaxItems) /\ Len(written) \in Nat
    BY Places DEF Base, Types
  <1>2. /\ Len(written') = Len(written) + 1 /\ written'[Len(written) + 1] = m
        /\ \A i \in 1..Len(written) : written'[i] = written[i]
    BY <1>1
  <1>3. 1..Len(written') = 1..Len(written) \cup {Len(written) + 1}
    BY <1>1, <1>2
  <1>4. Done' = Done \cup {m}
    BY <1>2, <1>3 DEF Done
  <1>5. \A i \in 1..Len(written) : written[i] < m
    BY DEF Done
  <1>6. \A i, j \in 1..Len(written') : i < j => written'[i] < written'[j]
    BY <1>1, <1>2, <1>3, <1>5 DEF Ordered
  <1> QED
    BY <1>2, <1>4, <1>6

LEMMA OrderedThread ==
  ASSUME Base, Ordered, NEW t \in Threads, ThreadStep(t)
  PROVE  Ordered'
  <1>1. \A u \in Threads : u # t => Carried(u)' = Carried(u)
    BY ItemSteps
  <1>2. \A u \in Threads : Carried(u) \subseteq Nat
    BY Places
  <1>3. \A e \in Segments : Waiting(e) \subseteq Nat
    BY Places
  <1>4. Done \subseteq Nat /\ pulled \in Nat
    BY Places
  <1>5. ASSUME UNCHANGED edge
        PROVE  \A e \in Segments : Waiting(e)' = Waiting(e) /\ InOrderOn(edge'[e].buf)
    BY <1>5 DEF Waiting, Ordered
  <1>6. UNCHANGED written => Done' = Done /\ \A i, j \in 1..Len(written') : i < j => written'[i] < written'[j]
    BY DEF Done, Ordered
  <1>7. CASE Keeps(t) \/ Skips(t)
    <2>1. Carried(t)' \subseteq Carried(t) /\ UNCHANGED <<pulled, written>>
      BY <1>7 DEF Keeps, Skips, flow
    <2>2. \A e \in Segments : edge'[e].buf = edge[e].buf \/ edge'[e].buf = <<>>
      BY <1>7 DEF Keeps, Skips
    <2>3. \A e \in Segments : Waiting(e)' \subseteq Waiting(e) /\ InOrderOn(edge'[e].buf)
      <3>1. Len(<<>>) = 0 /\ 1..0 = {}
        BY EmptySeq
      <3> QED
        BY <2>2, <3>1 DEF Waiting, Ordered, InOrderOn
    <2>4. Apart'
      BY <1>1, <1>6, <2>1, <2>3 DEF Ordered, Apart
    <2> QED
      BY <1>6, <2>1, <2>3, <2>4 DEF Ordered
  <1>8. CASE Pulls(t)
    <2>1. \A e \in Segments : Waiting(e)' = Waiting(e) /\ InOrderOn(edge'[e].buf)
      BY <1>5, <1>8 DEF Pulls
    <2>2. Done' = Done /\ pulled' = pulled + 1 /\ t = 0 /\ Carried(0)' = {pulled + 1}
      BY <1>6, <1>8 DEF Pulls
    <2>3. Apart'
      BY <1>1, <1>2, <1>3, <1>4, <2>1, <2>2, SMTT(30) DEF Ordered, Apart
    <2> QED
      BY <1>6, <1>8, <2>1, <2>3 DEF Ordered, Pulls
  <1>9. CASE Sends(t)
    <2>1. t + 1 \in Segments /\ Carried(t)' = {} /\ UNCHANGED <<pulled, written>> /\ th[t].op \in Ops
          /\ th[t].pc = "send"
      BY <1>9, ShapeOf DEF Sends, flow, Appends, Base, ThreadStates
    <2>2. Carried(t) = {th[t].op.item} \ {0}
      BY <2>1, ItemNot0 DEF Carried, Carries
    <2>3. edge'[t + 1].buf = Append(edge[t + 1].buf, th[t].op)
      BY <1>9, <2>1, BufSeq DEF Sends, Appends, EdgeStates
    <2>4. \A e \in Segments : e # t + 1 => edge'[e].buf = edge[e].buf
      BY <1>9, <2>1, BufSeq DEF Sends, Appends, EdgeStates
    <2>5. th[t].op.item # 0 => \A k \in 1..Len(edge[t + 1].buf) : edge[t + 1].buf[k].item < th[t].op.item
      <3> SUFFICES ASSUME th[t].op.item # 0, NEW k \in 1..Len(edge[t + 1].buf)
                   PROVE  edge[t + 1].buf[k].item < th[t].op.item
        OBVIOUS
      <3>1. th[t].op.item \in Carried(t) /\ th[t].op.item \in Nat
        BY <1>2, <2>2
      <3>2. CASE edge[t + 1].buf[k].item = 0
        BY <3>1, <3>2
      <3>3. CASE edge[t + 1].buf[k].item # 0
        <4>1. edge[t + 1].buf[k].item \in Waiting(t + 1)
          BY <2>1, <3>3 DEF Waiting
        <4> QED
          BY <2>1, <3>1, <4>1 DEF Ordered, Apart
      <3> QED
        BY <3>2, <3>3
    <2>6. Waiting(t + 1)' = Waiting(t + 1) \cup Carried(t) /\ InOrderOn(edge'[t + 1].buf)
      BY <2>1, <2>2, <2>3, <2>5, AppendedItems DEF Ordered
    <2>7. \A e \in Segments : e # t + 1 => Waiting(e)' = Waiting(e) /\ InOrderOn(edge'[e].buf)
      BY <2>4 DEF Waiting, Ordered
    <2>8. Apart'
      BY <1>1, <1>2, <1>3, <1>6, <2>1, <2>6, <2>7 DEF Ordered, Apart
    <2> QED
      BY <1>6, <2>1, <2>6, <2>7, <2>8 DEF Ordered
  <1>10. CASE Gets(t)
    <2>1. t \in Segments /\ Carried(t) = {} /\ UNCHANGED <<pulled, written>> /\ edge[t].buf # <<>>
      BY <1>10 DEF Gets, flow, Takes
    <2>2. edge'[t].buf = Tail(edge[t].buf)
      BY <1>10, <2>1, BufSeq DEF Gets, Takes, EdgeStates
    <2>3. \A e \in Segments : e # t => edge'[e].buf = edge[e].buf
      BY <1>10, <2>1, BufSeq DEF Gets, Takes, EdgeStates
    <2>4. Waiting(t) = Waiting(t)' \cup Carried(t)' /\ InOrderOn(edge'[t].buf)
          /\ \A m \in Carried(t)', n \in Waiting(t)' : m < n
      BY <1>10, <2>1, <2>2, TailItems DEF Ordered, Gets
    <2>5. \A e \in Segments : e # t => Waiting(e)' = Waiting(e) /\ InOrderOn(edge'[e].buf)
      BY <2>3 DEF Waiting, Ordered
    <2>6. Apart'
      BY <1>1, <1>2, <1>3, <1>6, <2>1, <2>4, <2>5 DEF Ordered, Apart
    <2> QED
      BY <1>6, <2>1, <2>4, <2>5, <2>6 DEF Ordered
  <1>11. CASE Writes(t)
    <2> DEFINE m == th[t].op.item
    <2>1. t = Workers /\ Carried(t) = {m} /\ Carried(t)' = {} /\ UNCHANGED pulled
      BY <1>11 DEF Writes, Carried
    <2>2. \A e \in Segments : Waiting(e)' = Waiting(e) /\ InOrderOn(edge'[e].buf)
      BY <1>5, <1>11 DEF Writes
    <2>3. Done' = Done \cup {m} /\ \A i, j \in 1..Len(written') : i < j => written'[i] < written'[j]
      <3> HIDE DEF m
      <3>1. m \in Carried(t) /\ Apart
        BY <2>1 DEF Ordered
      <3>2. \A n \in Done : n < m
        BY <3>1 DEF Apart
      <3> QED
        BY <1>11, <3>2, WrittenOrder DEF Writes, m
    <2> HIDE DEF m
    <2>4. Apart'
      BY <1>1, <1>2, <1>3, <1>4, <2>1, <2>2, <2>3 DEF Ordered, Apart
    <2> QED
      BY <2>2, <2>3, <2>4 DEF Ordered
  <1> QED
    BY <1>7, <1>8, <1>9, <1>10, <1>11, ItemSteps

-----------------------------------------------------------------------------
(* The number of items.                                                    *)

LEMMA TransitFinite ==
  ASSUME Base
  PROVE  IsFiniteSet(InTransit) /\ Cardinality(InTransit) \in Nat
  <1>1. InTransit \subseteq 1..MaxItems /\ MaxItems \in Nat
    BY Places DEF InTransit
  <1>2. IsFiniteSet(1..MaxItems)
    BY <1>1, FS_Interval
  <1> QED
    BY <1>1, <1>2, FS_Subset, FS_CardinalityType

TransitIs == \A n : n \in InTransit <=> \/ \E u \in Threads : n \in Carried(u)
                                         \/ \E e \in Segments : n \in Waiting(e)

LEMMA InTransitIs ==
  ASSUME Base
  PROVE  TransitIs
  BY Places DEF InTransit, TransitIs

\* Nothing is lost by a thread that keeps what it has.
Loseless == InTransit' = InTransit

LEMMA CountedThread ==
  ASSUME Base, Ordered, Counted, NEW t \in Threads, ThreadStep(t), Ordered', Base',
         Clean' => Clean /\ (Keeps(t) => Loseless)
  PROVE  Counted'
  <1>1. /\ IsFiniteSet(InTransit) /\ Cardinality(InTransit) \in Nat
        /\ IsFiniteSet(InTransit') /\ Cardinality(InTransit') \in Nat
        /\ Len(written) \in Nat /\ skipped \in Nat /\ pulled \in Nat
    <2>1. (IsFiniteSet(InTransit) /\ Cardinality(InTransit) \in Nat)'
      BY TransitFinite, PTL
    <2> QED
      BY <2>1, TransitFinite, Places
  <1>2. \A u \in Threads : u # t => Carried(u)' = Carried(u)
    BY ItemSteps
  <1>3. UNCHANGED edge => \A e \in Segments : Waiting(e)' = Waiting(e)
    BY DEF Waiting
  <1>4. \A n : n \in InTransit' <=> \/ \E u \in Threads : n \in Carried(u)'
                                    \/ \E e \in Segments : n \in Waiting(e)'
    <2>1. TransitIs'
      BY InTransitIs, PTL
    <2> QED
      BY <2>1 DEF TransitIs
  <1> USE InTransitIs DEF TransitIs
  <1>5. ASSUME InTransit' \subseteq InTransit
        PROVE  Cardinality(InTransit') <= Cardinality(InTransit)
    BY <1>1, <1>5, FS_Subset
  <1>6. CASE Keeps(t)
    <2>1. InTransit' \subseteq InTransit
      <3>1. \A e \in Segments : Waiting(e)' \subseteq Waiting(e)
        <4>1. Len(<<>>) = 0 /\ 1..0 = {}
          BY EmptySeq
        <4> QED
          BY <1>6, <4>1 DEF Keeps, Waiting
      <3> QED
        BY <1>2, <1>4, <1>6, <3>1 DEF Keeps
    <2> QED
      BY <1>1, <1>5, <1>6, <2>1 DEF Counted, Keeps, flow, Loseless
  <1>7. ASSUME NEW m \in Nat, Carries(t), m = th[t].op.item, Carried(t)' = {}, UNCHANGED edge
        PROVE  Cardinality(InTransit') = Cardinality(InTransit) - 1
    <2>1. Carried(t) = {m}
      BY <1>7 DEF Carried
    <2>2. \A u \in Threads : u # t => m \notin Carried(u)
      <3>1. m \in Carried(t) /\ Apart
        BY <2>1 DEF Ordered
      <3>2. \A u \in Threads : u # t => t < u \/ u < t
        OBVIOUS
      <3>3. \A u \in Threads : u # t => \A n \in Carried(u) : n < m \/ m < n
        BY <3>1, <3>2 DEF Apart
      <3> QED
        BY <1>7, <3>3
    <2>3. \A e \in Segments : m \notin Waiting(e)
      <3>1. \A e \in Segments : \A n \in Waiting(e) : IF t < e THEN n < m ELSE m < n
        BY <2>1 DEF Ordered, Apart
      <3> QED
        BY <3>1
    <2>4. InTransit' = InTransit \ {m} /\ m \in InTransit
      BY <1>2, <1>3, <1>4, <1>7, <2>1, <2>2, <2>3
    <2> QED
      BY <1>1, <2>4, FS_RemoveElement
  <1>8. Carries(t) => th[t].op.item \in Nat
    BY Places
  <1>9. CASE Skips(t)
    <2>1. Cardinality(InTransit') = Cardinality(InTransit) - 1
      BY <1>7, <1>8, <1>9 DEF Skips
    <2>2. Len(written') = Len(written) /\ UNCHANGED pulled /\ skipped' = skipped + 1
      BY <1>9 DEF Skips
    <2> QED
      BY <1>1, <2>1, <2>2 DEF Counted
  <1>10. CASE Writes(t)
    <2>1. Len(written') = Len(written) + 1
      BY <1>10 DEF Writes, Base, Types
    <2> QED
      BY <1>1, <1>7, <1>8, <1>10, <2>1 DEF Counted, Writes
  <1>11. CASE Pulls(t)
    <2>1. \A n \in InTransit : n <= pulled
      BY DEF Ordered, Apart
    <2>2. InTransit' = InTransit \cup {pulled + 1}
      BY <1>2, <1>3, <1>4, <1>11 DEF Pulls
    <2>3. pulled + 1 \notin InTransit
      BY <1>1, <2>1
    <2>4. Cardinality(InTransit') = Cardinality(InTransit) + 1
      BY <1>1, <2>2, <2>3, FS_AddElement
    <2> QED
      BY <1>1, <1>11, <2>4 DEF Counted, Pulls
  <1>12. ASSUME InTransit' = InTransit, UNCHANGED flow
         PROVE  Counted'
    BY <1>1, <1>12 DEF Counted, flow
  <1>13. CASE Sends(t)
    <2>1. t + 1 \in Segments /\ th[t].op \in Ops /\ th[t].pc = "send"
      BY <1>13, ShapeOf DEF Sends, Appends, Base, ThreadStates
    <2>2. Carried(t) = {th[t].op.item} \ {0}
      BY <2>1, ItemNot0 DEF Carried, Carries
    <2>3. edge'[t + 1].buf = Append(edge[t + 1].buf, th[t].op)
      BY <1>13, <2>1, BufSeq DEF Sends, Appends, EdgeStates
    <2>4. Waiting(t + 1)' = Waiting(t + 1) \cup Carried(t)
      BY <2>1, <2>2, <2>3, AppendedItems
    <2>5. \A e \in Segments : e # t + 1 => Waiting(e)' = Waiting(e)
      BY <1>13, <2>1, BufSeq DEF Sends, Appends, EdgeStates, Waiting
    <2>6. InTransit' = InTransit
      <3>1. Carried(t)' = {}
        BY <1>13 DEF Sends
      <3>2. ASSUME NEW n, NEW u \in Threads, n \in Carried(u)
            PROVE  n \in InTransit'
        BY <1>2, <1>4, <3>2, <2>1, <2>4, <2>5, <3>1
      <3>3. ASSUME NEW n, NEW e \in Segments, n \in Waiting(e)
            PROVE  n \in InTransit'
        BY <1>2, <1>4, <3>3, <2>1, <2>4, <2>5, <3>1
      <3>4. ASSUME NEW n, NEW u \in Threads, n \in Carried(u)'
            PROVE  n \in InTransit
        BY <1>2, <3>4, <2>1, <2>4, <2>5, <3>1
      <3>5. ASSUME NEW n, NEW e \in Segments, n \in Waiting(e)'
            PROVE  n \in InTransit
        BY <1>2, <3>5, <2>1, <2>4, <2>5, <3>1
      <3>6. \A n : n \in InTransit' <=> n \in InTransit
        BY <1>4, <3>2, <3>3, <3>4, <3>5, Zenon
      <3> QED
        BY <3>6 DEF InTransit
    <2> QED
      BY <1>12, <1>13, <2>6 DEF Sends
  <1>14. CASE Gets(t)
    <2>1. t \in Segments /\ edge[t].buf # <<>>
      BY <1>14 DEF Gets, Takes
    <2>2. edge'[t].buf = Tail(edge[t].buf)
      BY <1>14, <2>1, BufSeq DEF Gets, Takes, EdgeStates
    <2>3. Waiting(t) = Waiting(t)' \cup Carried(t)' /\ Carried(t) = {}
      BY <1>14, <2>1, <2>2, TailItems DEF Gets
    <2>4. \A e \in Segments : e # t => Waiting(e)' = Waiting(e)
      BY <1>14, <2>1, BufSeq DEF Gets, Takes, EdgeStates, Waiting
    <2>5. InTransit' = InTransit
      <3>2. ASSUME NEW n, NEW u \in Threads, n \in Carried(u)
            PROVE  n \in InTransit'
        BY <1>2, <1>4, <3>2, <2>1, <2>3, <2>4
      <3>3. ASSUME NEW n, NEW e \in Segments, n \in Waiting(e)
            PROVE  n \in InTransit'
        BY <1>2, <1>4, <3>3, <2>1, <2>3, <2>4
      <3>4. ASSUME NEW n, NEW u \in Threads, n \in Carried(u)'
            PROVE  n \in InTransit
        BY <1>2, <3>4, <2>1, <2>3, <2>4
      <3>5. ASSUME NEW n, NEW e \in Segments, n \in Waiting(e)'
            PROVE  n \in InTransit
        BY <1>2, <3>5, <2>1, <2>3, <2>4
      <3>6. \A n : n \in InTransit' <=> n \in InTransit
        BY <1>4, <3>2, <3>3, <3>4, <3>5, Zenon
      <3> QED
        BY <3>6 DEF InTransit
    <2> QED
      BY <1>12, <1>14, <2>5 DEF Gets
  <1> QED
    BY <1>6, <1>9, <1>10, <1>11, <1>13, <1>14, ItemSteps

-----------------------------------------------------------------------------
(* A step after which the run is still quiet.                              *)

Fails(t) == /\ th[t].mode = "run" /\ th[t].pc \in {"stage", "sink", "loop"}
            /\ th'[t].pc = "offer" /\ th'[t].mode = "run" /\ th'[t].op = th[t].op
            /\ LoseRx(t) /\ raised' # {}
StopsAt(t) == /\ t < Workers /\ th[t].pc = "send" /\ th[t].op.kind # "abort"
              /\ ~edge[t + 1].rx /\ th'[t] = GiveUp(t) /\ LoseRx(t)
Returns(t) ==
  /\ th'[t] = OkState(t) /\ UNCHANGED edge
  /\ \/ th[t].pc = "stage" /\ th[t].op.kind = "item" /\ skipped' = skipped + 1
     \/ th[t].pc = "send" /\ th[t].op.kind = "tick"
     \/ th[t].pc = "send" /\ th[t].op.kind = "abort"
     \/ th[t].pc = "handoff" /\ edge[t + 1].buf = <<>>
     \/ /\ th[t].pc = "sink" /\ t = Workers
        /\ th[t].op.kind = "item" => written' = Append(written, th[t].op.item)
Passes(t) == th[t].pc = "stage" /\ th'[t] = [th[t] EXCEPT !.pc = Outlet(t)] /\ UNCHANGED edge
Idles(t) == th[t].pc = "loop" /\ th'[t] = Enter(t, Op("tick")) /\ UNCHANGED edge
Draws == \/ th'[0] = Enter(0, Item(pulled + 1))
         \/ th'[0] = [Enter(0, Op("flush")) EXCEPT !.mode = "finish"]
QuietSource ==
  \/ th[0].pc = "loop" /\ Draws /\ UNCHANGED edge
  \/ CloseRest
  \/ SegmentsDone
  \/ CloseSource /\ th'[0] = Closed(local') /\ UNCHANGED edge

QuietMove(t) ==
  \/ Fails(t) \/ StopsAt(t) \/ Returns(t) \/ Passes(t) \/ Appends(t) \/ Idles(t)
  \/ Takes(t) \/ End(t) \/ (t = 0 /\ QuietSource)

LEMMA QuietBefore ==
  ASSUME Base, [Next]_vars, Quiet'
  PROVE  Quiet
  <1>1. ASSUME NEW t \in Threads, ThreadStep(t)
        PROVE  panics \subseteq panics' /\ raised \subseteq raised' /\ UNCHANGED main
               /\ (first # None => first' # None)
    <2>1. panics \subseteq panics'
      BY <1>1, ThreadPanics DEF Panicked
    <2>2. raised \subseteq raised'
      <3>1. ASSUME NEW e, Raises(t, e)
            PROVE  raised \subseteq raised'
        <4>1. th[t].mode \in Modes
          BY ShapeOf DEF Base, ThreadStates
        <4> QED
          BY <3>1, <4>1 DEF Raises, Failed, Modes
      <3> QED
        BY <1>1, <3>1, ThreadRaises
    <2> QED
      BY <1>1, <2>1, <2>2, ThreadWrites DEF Keep
  <1>2. CallerStep => /\ UNCHANGED panics /\ raised \subseteq raised'
                      /\ (first # None => first' # None)
    BY CallerWrites DEF Keep
  <1>3. CallerStep /\ main = "unwindRunner" => main' = "unwindRunner"
    BY DEF CallerStep, Started, Spawn, SpawnFailed, DropRest, Join, DlqFlush, DlqClose, Decide
  <1> QED
    BY <1>1, <1>2, <1>3 DEF Quiet, Next, Cancel, Returned, vars, caller

LEMMA QuietThread ==
  ASSUME Base, Tidy, Quiet, Quiet', NEW t \in Threads, ThreadStep(t)
  PROVE  QuietMove(t)
  <1>1. /\ th[t] \in ThreadStates /\ Shape(t, th[t])
        /\ th[t].mode # "drop" /\ (th[t].op.kind = "abort" => t < Workers /\ ~edge[t + 1].rx)
    BY ShapeOf DEF Base, Tidy
  <1>3. \A site : ~Panicked(t, site)
    BY <1>1 DEF Panicked, Quiet
  <1>4. ASSUME NEW e, Failed(t, e), e \in Errors, e # "abort",
               th[t].mode = "finish" => e = "sourceFlush",
               th[t].pc \in {"stage", "sink", "sinkClose", "loop"}
        PROVE  Fails(t)
    <2>1. Raises(t, e) /\ th[t].pc # "sinkClose"
      BY <1>1, <1>4 DEF Raises, Shape
    <2>2. Fails(t)
      <3>1. th[t].mode # "finish"
        BY <1>4 DEF Failed, Quiet
      <3>2. th[t].mode = "run"
        BY <1>1, <2>1, <3>1 DEF ThreadStates, Modes, Raises, Shape
      <3>3. th'[t] = [th[t] EXCEPT !.pc = "offer", !.err = e, !.held = FALSE] /\ raised' = raised \cup {e}
            /\ LoseRx(t)
        BY <1>4, <3>2, GoneMode DEF Failed
      <3> QED
        BY <1>1, <1>4, <2>1, <3>2, <3>3 DEF Fails, ThreadStates
    <2> QED
      BY <2>2
  <1>5. CASE Stage(t)
    <2>1. \/ Fine(t, [th[t] EXCEPT !.pc = Outlet(t)])
          \/ th[t].op.kind = "item" /\ Go(t, OkState(t)) /\ UNCHANGED edge /\ skipped' = skipped + 1
          \/ \E e : Raise(e) /\ Failed(t, e) /\ e # "abort" /\ (th[t].mode = "finish" => e = "sourceFlush")
      BY <1>1, <1>3, <1>5 DEF Stage, Shape
    <2> QED
      BY <1>4, <1>5, <2>1, GoneMode DEF Stage, Fine, Raise, Bound, Returns, Passes, QuietMove
  <1>6. CASE Offer(t)
    BY <1>1, <1>3, <1>6 DEF Offer, Keep, Quiet, Shape
  <1>7. CASE Drop(t)
    BY <1>1, <1>7 DEF Drop, Shape
  <1>8. CASE End(t)
    BY <1>8 DEF QuietMove
  <1>9. CASE t < Workers /\ Send(t)
    <2>1. \/ Appends(t)
          \/ th[t].op.kind \in {"tick", "abort"} /\ Fine(t, OkState(t))
          \/ ~edge[t + 1].rx /\ th[t].op.kind # "abort" /\ Disconnected(t)
      BY <1>9 DEF Send, Appends
    <2> QED
      BY <1>9, <2>1, GoneMode DEF Send, Fine, Disconnected, Returns, StopsAt, QuietMove
  <1>10. CASE t < Workers /\ HandedOff(t)
    BY <1>10, GoneMode DEF HandedOff, Fine, Returns, QuietMove
  <1>11. ASSUME t = Workers, SinkStep(t)
         PROVE  QuietMove(t)
    <2>1. th[t].op.kind # "abort" /\ th[t].pc = "sink"
      BY <1>1, <1>11 DEF Shape, SinkStep, SinkItem, SinkFlush, SinkClose, AbortFlush, AbortClose
    <2>2. \/ /\ Fine(t, OkState(t))
             /\ th[t].op.kind = "item" => written' = Append(written, th[t].op.item)
          \/ \E e : Raise(e) /\ Failed(t, e) /\ e # "abort"
      BY <1>3, <1>11, <2>1 DEF SinkStep, SinkItem, SinkFlush, SinkClose, AbortFlush, AbortClose, SinkOutcome
    <2>3. th[t].mode # "finish"
      BY <1>1, <1>11 DEF Shape
    <2> QED
      BY <1>4, <1>11, <2>1, <2>2, <2>3, GoneMode DEF Fine, Raise, Bound, Returns, QuietMove
  <1>12. CASE t > 0 /\ Recv(t)
    <2>1. th[t].pc = "loop" /\ th[t].mode = "run" /\ t \in Segments
      BY <1>1, <1>12 DEF Recv, Shape
    <2>2. edge[t].rx /\ Handing(t)
      BY <2>1 DEF Tidy, Gone
    <2>3. edge[t].buf # <<>> \/ edge[t].tx
      <3>1. edge[t].buf = <<>> => ~CloseLast(edge[t].buf)
        BY DEF CloseLast
      <3> QED
        BY <2>1, <2>2, <3>1 DEF Handing, Took
    <2>4. Takes(t) \/ (Go(t, Enter(t, Op("tick"))) /\ UNCHANGED edge)
      BY <1>12, <2>1, <2>3 DEF Recv, Takes
    <2> QED
      BY <2>1, <2>4, GoneMode DEF Idles, QuietMove
  <1>13. CASE t = 0 /\ SourceStep
    <2>1. CASE Pump
      <3>1. \/ Fine(0, Enter(0, Item(pulled + 1))) \/ Fine(0, Enter(0, Op("tick")))
            \/ Fine(0, [Enter(0, Op("flush")) EXCEPT !.mode = "finish"])
            \/ Raise("pull") /\ Failed(0, "pull")
        BY <1>3, <1>13, <2>1 DEF Pump
      <3>2. th[0].pc = "loop" /\ th[0].mode = "run"
        BY <1>1, <1>13, <2>1 DEF Pump, Shape
      <3>3. Raise("pull") /\ Failed(0, "pull") => Fails(t)
        BY <1>4, <1>13, <3>2 DEF Raise, Bound
      <3> QED
        BY <1>13, <3>1, <3>2, <3>3, GoneMode DEF Fine, Idles, Draws, QuietSource, QuietMove
    <2>2. CASE CloseSource
      <3>1. Go(0, Closed(local')) /\ UNCHANGED edge
        BY <1>3, <1>13, <2>2 DEF CloseSource
      <3> QED
        BY <1>13, <2>2, <3>1, GoneMode DEF QuietSource, QuietMove
    <2> QED
      BY <1>13, <2>1, <2>2 DEF SourceStep, QuietSource, QuietMove
  <1> QED
    BY <1>5, <1>6, <1>7, <1>8, <1>9, <1>10, <1>11, <1>12, <1>13 DEF ThreadStep

LEMMA RxOnlyFalls ==
  ASSUME Base, NEW t \in Threads, ThreadStep(t), NEW e \in Segments
  PROVE  /\ edge'[e].rx => edge[e].rx
         /\ e # t => edge'[e].rx = edge[e].rx
         /\ e # t + 1 => edge'[e].tx = edge[e].tx
  <1>1. edge \in [Segments -> EdgeStates] /\ edge[e] \in EdgeStates
    BY BufSeq
  <1>2. CASE UNCHANGED edge
    BY <1>2
  <1>3. CASE Loses(t)
    BY <1>1, <1>3 DEF Loses, EdgeStates
  <1>4. CASE Appends(t)
    BY <1>1, <1>4 DEF Appends, EdgeStates
  <1>5. CASE Takes(t)
    BY <1>1, <1>5 DEF Takes, EdgeStates
  <1>6. CASE t = 0 /\ CloseRest
    <2>1. /\ e # 1 => edge'[e] = edge[e]
          /\ e = 1 => edge'[e] = [edge[e] EXCEPT !.tx = FALSE]
      BY <1>1, <1>6 DEF CloseRest
    <2>2. [edge[e] EXCEPT !.tx = FALSE].rx = edge[e].rx
      BY <1>1 DEF EdgeStates
    <2>3. edge'[e].rx = edge[e].rx
      BY <2>1, <2>2, Zenon
    <2>4. e # t + 1 => edge'[e].tx = edge[e].tx
      BY <1>6, <2>1
    <2> QED
      BY <2>3, <2>4
  <1>7. CASE End(t)
    BY <1>1, <1>7 DEF End, EdgeStates
  <1> QED
    BY <1>2, <1>3, <1>4, <1>5, <1>6, <1>7, EdgeSteps DEF Base

-----------------------------------------------------------------------------
(* The two sides of an edge, in a quiet step.                              *)

\* The sender's side of an edge, when its buffer stays.
LEMMA SenderIdle ==
  ASSUME NEW e \in Segments, Handing(e), UNCHANGED th[e], edge'[e].buf = edge[e].buf,
         th'[e - 1].mode \in {"run", "finish"}, th'[e - 1].op.kind # "abort",
         Shut(e - 1)' <=> Shut(e - 1), edge'[e].tx \/ Shut(e - 1)'
  PROVE  Handing(e)'
  <1>1. Took(e)' <=> Took(e)
    BY DEF Took
  <1> QED
    BY <1>1 DEF Handing

LEMMA SenderAppends ==
  ASSUME Base, NEW t \in Threads, ThreadStep(t), Appends(t), t + 1 \in Segments, Handing(t + 1)
  PROVE  Handing(t + 1)'
  <1> DEFINE b == edge[t + 1].buf
             c == edge'[t + 1].buf
             op == th[t].op
  <1>1. /\ th[t] \in ThreadStates /\ Shape(t, th[t]) /\ th[t].pc = "send"
        /\ UNCHANGED th[t + 1]
    BY ShapeOf, ThreadMoves DEF Base, Moves, Appends
  <1>2. /\ b \in Seq(Ops) /\ Len(b) \in Nat /\ op \in Ops
        /\ c = Append(b, op) /\ edge'[t + 1].tx = edge[t + 1].tx
    BY <1>1, BufSeq DEF Appends, EdgeStates, ThreadStates
  <1>3. /\ Len(c) = Len(b) + 1 /\ c[Len(c)] = op /\ c # <<>>
        /\ \A k \in 1..Len(c) : (k \in 1..Len(b) /\ c[k] = b[k]) \/ k = Len(c)
    BY <1>2
  <1>4. ~Shut(t) /\ edge[t + 1].tx /\ ~Took(t + 1) /\ \A k \in 1..Len(b) : b[k].kind \notin {"abort", "close"}
    BY <1>1 DEF Shut, Handing
  <1>5. th'[t] = Sent(t)
    BY GoneMode DEF Appends
  <1>6. /\ Sent(t).mode = th[t].mode
        /\ op.kind = "close" => \/ Sent(t).pc \in {"closeRest", "end"}
                                \/ Sent(t).pc = "handoff" /\ Sent(t).op.kind = "close"
        /\ op.kind # "close" => /\ Sent(t).pc \notin {"closeRest", "wait", "closeSource", "end", "ended"}
                                /\ Sent(t).pc = "handoff" => Sent(t).op = op
        /\ Sent(t).op.kind \in {op.kind, "close"}
    <2>1. th[t].mode \in {"run", "finish"} /\ op.kind # "abort" /\ t + 1 - 1 = t
      BY DEF Handing
    <2>2. t = 0 /\ th[t].mode = "run" => op.kind \in {"item", "tick"}
      BY <1>1 DEF Shape
    <2>3. th[t].mode = "finish" => t = 0 /\ op.kind \in {"flush", "close"}
      BY <1>1, <2>1 DEF Shape
    <2>4. Outlet(t) = "send"
      BY DEF Outlet, Appends
    <2> QED
      BY <1>1, <2>1, <2>2, <2>3, <2>4, OpsOf DEF Sent, OkState, ThreadStates
  <1>7. Shut(t)' <=> op.kind = "close"
    BY <1>5, <1>6 DEF Shut
  <1>8. ~Took(t + 1)'
    BY <1>1, <1>4 DEF Took
  <1>9. op.kind = "close" => CloseLast(c)
    BY <1>3 DEF CloseLast
  <1>10. th'[t].mode \in {"run", "finish"} /\ th'[t].op.kind # "abort" /\ op.kind # "abort" /\ t + 1 - 1 = t
    BY <1>5, <1>6 DEF Handing
  <1> HIDE DEF b, c, op
  <1>11. \A k \in 1..Len(c) : c[k].kind # "abort" /\ (c[k].kind = "close" => k = Len(c) /\ op.kind = "close")
    BY <1>3, <1>4, <1>10
  <1>12. th'[t + 1].mode = "run" /\ th'[t + 1].pc \notin {"offer", "ended"} /\ th'[t + 1].op.kind # "abort"
    BY <1>1 DEF Handing
  <1> QED
    BY <1>2, <1>4, <1>7, <1>8, <1>9, <1>10, <1>11, <1>12 DEF Handing, c

LEMMA SenderKeeps ==
  ASSUME Base, Tidy, Quiet, NEW t \in Threads, ThreadStep(t), QuietMove(t),
         t + 1 \in Segments, edge[t + 1].rx
  PROVE  Handing(t + 1)'
  <1>1. /\ th[t] \in ThreadStates /\ Shape(t, th[t]) /\ th[t].mode \in {"run", "finish"}
        /\ th[t].op.kind # "abort" /\ Handing(t + 1) /\ t + 1 - 1 = t /\ t < Workers
    <2>1. Handing(t + 1) /\ t + 1 - 1 = t /\ t < Workers
      BY DEF Tidy
    <2> QED
      <3>1. th[t + 1 - 1].mode \in {"run", "finish"} /\ th[t + 1 - 1].op.kind # "abort"
        BY <2>1 DEF Handing
      <3>2. th[t] \in ThreadStates /\ Shape(t, th[t])
        BY ShapeOf DEF Base
      <3> QED
        BY <2>1, <3>1, <3>2
  <1>2. UNCHANGED th[t + 1]
    BY ThreadMoves DEF Base, Moves
  <1>3. edge[t + 1].tx \/ Shut(t)
    BY <1>1 DEF Handing
  <1>4. ASSUME th'[t].mode \in {"run", "finish"}, th'[t].op.kind # "abort", ~Appends(t),
               Shut(t)' <=> Shut(t), edge'[t + 1].tx \/ Shut(t)'
        PROVE  Handing(t + 1)'
    <2>1. edge'[t + 1].buf = edge[t + 1].buf
      BY <1>4, BufSteps
    <2> QED
      BY <1>1, <1>2, <1>4, <2>1, SenderIdle
  <1>5. UNCHANGED edge \/ LoseRx(t) => edge'[t + 1].tx = edge[t + 1].tx
    <2>1. edge \in [Segments -> EdgeStates]
      BY BufSeq
    <2>2. LoseRx(t) => edge'[t + 1] = edge[t + 1]
      BY <2>1 DEF LoseRx
    <2> QED
      BY <2>2
  <1>6. CASE Fails(t)
    <2>1. ~Shut(t) /\ ~Shut(t)'
      BY <1>6 DEF Fails, Shut
    <2>2. edge'[t + 1].tx = edge[t + 1].tx
      BY <1>5, <1>6 DEF Fails
    <2> QED
      BY <1>1, <1>3, <1>4, <1>6, <2>1, <2>2 DEF Fails, Appends
  <1>7. CASE StopsAt(t)
    BY <1>7 DEF StopsAt
  <1>8. CASE Returns(t)
    <2>1. th'[t].mode = th[t].mode /\ th'[t].op.kind \in {th[t].op.kind, "close"}
      BY <1>1, <1>8, OpsOf DEF Returns, OkState, ThreadStates
    <2>2. Shut(t)' <=> Shut(t)
      <3>1. CASE th[t].pc \in {"stage", "send"}
        BY <1>1, <1>8, <3>1 DEF Returns, OkState, ThreadStates, Shut, Shape
      <3>2. CASE th[t].pc = "handoff" /\ t = 0
        BY <1>1, <1>8, <3>2, OpsOf DEF Returns, OkState, ThreadStates, Shut, Shape, Outlet
      <3>3. CASE th[t].pc = "handoff" /\ t > 0
        BY <1>1, <1>8, <3>3 DEF Returns, OkState, ThreadStates, Shut, Shape
      <3> QED
        BY <1>1, <1>8, <3>1, <3>2, <3>3 DEF Returns
    <2>3. UNCHANGED edge /\ ~Appends(t)
      <3>1. Appends(t) => edge'[t + 1].buf = Append(edge[t + 1].buf, th[t].op)
        BY BufSeq DEF Appends, EdgeStates
      <3>2. Len(Append(edge[t + 1].buf, th[t].op)) # Len(edge[t + 1].buf)
        BY <1>1, BufSeq DEF ThreadStates
      <3> QED
        BY <1>8, <3>1, <3>2 DEF Returns
    <2> QED
      BY <1>1, <1>3, <1>4, <1>5, <2>1, <2>2, <2>3
  <1>9. CASE Passes(t)
    <2>1. th'[t].mode = th[t].mode /\ th'[t].op = th[t].op /\ ~Shut(t) /\ ~Shut(t)'
      BY <1>1, <1>9 DEF Passes, ThreadStates, Shut, Outlet
    <2> QED
      BY <1>1, <1>3, <1>4, <1>5, <1>9, <2>1 DEF Passes, Appends
  <1>10. CASE Appends(t)
    BY <1>1, <1>10, SenderAppends
  <1>11. ASSUME th[t].pc = "loop", th'[t].pc \in {"stage", "send"}, th'[t].mode \in {"run", "finish"},
                th'[t].op.kind # "abort", edge'[t + 1].tx = edge[t + 1].tx
         PROVE  Handing(t + 1)'
    BY <1>3, <1>4, <1>11 DEF Shut, Appends
  <1>12. CASE Idles(t)
    <2>1. Enter(t, Op("tick")).pc = "stage" /\ Enter(t, Op("tick")).mode = th[t].mode
          /\ Enter(t, Op("tick")).op.kind = "tick"
      BY <1>1, OpsOf DEF Enter, ThreadStates
    <2> QED
      BY <1>1, <1>5, <1>11, <1>12, <2>1 DEF Idles
  <1>13. CASE Takes(t)
    <2>1. t \in Segments /\ edge[t].buf # <<>> /\ th'[t] = Enter(t, Head(edge[t].buf)) /\ th[t].pc = "loop"
      BY <1>13, GoneMode DEF Takes
    <2>2. Head(edge[t].buf).kind # "abort" /\ Head(edge[t].buf) \in Ops
      <3>1. edge[t].rx /\ Handing(t)
        BY <2>1 DEF Tidy
      <3>2. Head(edge[t].buf) = edge[t].buf[1] /\ 1 \in 1..Len(edge[t].buf) /\ Head(edge[t].buf) \in Ops
        BY <2>1, BufSeq
      <3> QED
        BY <3>1, <3>2 DEF Handing
    <2>3. /\ th'[t].pc \in {"stage", "send"} /\ th'[t].mode = th[t].mode
          /\ th'[t].op.kind # "abort"
      BY <1>1, <2>1, <2>2 DEF Enter, ThreadStates, Outlet
    <2>4. edge'[t + 1].tx = edge[t + 1].tx
      BY <1>13, BufSeq DEF Takes, EdgeStates
    <2> QED
      BY <1>1, <1>11, <2>1, <2>3, <2>4
  <1>14. CASE End(t)
    <2>1. th'[t] = [th[t] EXCEPT !.pc = "ended", !.op = Op("tick"), !.attempts = 0] /\ th[t].pc = "end"
      BY <1>14, GoneMode DEF End
    <2>2. th'[t].pc = "ended" /\ th'[t].mode = th[t].mode /\ th'[t].op.kind = "tick"
      BY <1>1, <2>1, OpsOf DEF ThreadStates
    <2> QED
      BY <1>1, <1>4, <2>1, <2>2 DEF Shut, Appends
  <1>15. CASE t = 0 /\ QuietSource
    <2>1. CASE th[0].pc = "loop" /\ Draws /\ UNCHANGED edge
      <3>1. \A op : ~Closing(op) => /\ Enter(0, op).pc = "stage" /\ Enter(0, op).mode = th[0].mode
                                    /\ Enter(0, op).op = op
                                    /\ [Enter(0, op) EXCEPT !.mode = "finish"].pc = "stage"
                                    /\ [Enter(0, op) EXCEPT !.mode = "finish"].mode = "finish"
                                    /\ [Enter(0, op) EXCEPT !.mode = "finish"].op = op
        BY <1>1, <1>15 DEF Enter, ThreadStates
      <3>2. ~Closing(Item(pulled + 1)) /\ ~Closing(Op("flush"))
        BY OpsOf
      <3>3. th'[0].pc = "stage" /\ th'[0].mode \in {th[0].mode, "finish"} /\ th'[0].op.kind \in {"item", "flush"}
        <4>1. CASE th'[0] = Enter(0, Item(pulled + 1))
          BY <3>1, <3>2, <4>1, OpsOf
        <4>2. CASE th'[0] = [Enter(0, Op("flush")) EXCEPT !.mode = "finish"]
          BY <3>1, <3>2, <4>2, OpsOf
        <4> QED
          BY <2>1, <4>1, <4>2 DEF Draws
      <3> QED
        BY <1>1, <1>5, <1>11, <1>15, <2>1, <3>3
    <2>2. CASE CloseRest
      <3>1. th'[0] = [th[0] EXCEPT !.pc = "wait"] /\ th[0].pc = "closeRest"
        BY <1>15, <2>2, GoneMode DEF CloseRest
      <3> QED
        BY <1>1, <1>4, <1>15, <3>1 DEF ThreadStates, Shut, Appends
    <2>3. CASE SegmentsDone
      <3>1. th'[0] = [th[0] EXCEPT !.pc = "closeSource"] /\ th[0].pc = "wait"
        BY <1>15, <2>3, GoneMode DEF SegmentsDone, Fine
      <3> QED
        BY <1>1, <1>4, <1>15, <3>1 DEF ThreadStates, Shut, Appends
    <2>4. CASE CloseSource
      BY <1>1, <1>15, <2>4 DEF CloseSource, Tidy, Handing
    <2> QED
      BY <1>15, <2>1, <2>2, <2>3, <2>4 DEF QuietSource
  <1> QED
    BY <1>6, <1>7, <1>8, <1>9, <1>10, <1>12, <1>13, <1>14, <1>15 DEF QuietMove

\* The receiver's side of an edge, when its buffer stays.
LEMMA ReceiverIdle ==
  ASSUME NEW e \in Segments, Handing(e), UNCHANGED th[e - 1], edge'[e].buf = edge[e].buf,
         edge'[e].tx = edge[e].tx, th'[e].mode = "run", th'[e].pc \notin {"offer", "ended"},
         th'[e].op.kind # "abort", Took(e)' <=> Took(e)
  PROVE  Handing(e)'
  <1>1. Shut(e - 1)' <=> Shut(e - 1)
    BY DEF Shut
  <1> QED
    BY <1>1 DEF Handing

LEMMA ReceiverTakes ==
  ASSUME Base, NEW e \in Segments, ThreadStep(e), Takes(e), Handing(e)
  PROVE  Handing(e)'
  <1> DEFINE b == edge[e].buf
             c == edge'[e].buf
             op == Head(edge[e].buf)
  <1>1. /\ th[e] \in ThreadStates /\ Shape(e, th[e]) /\ th[e].pc = "loop" /\ e \in Threads
        /\ UNCHANGED th[e - 1]
    BY ShapeOf, ThreadMoves DEF Base, Moves, Takes
  <1>2. /\ b \in Seq(Ops) /\ Len(b) \in Nat \ {0} /\ op \in Ops /\ op = b[1]
        /\ c = Tail(b) /\ edge'[e].tx = edge[e].tx
    BY <1>1, BufSeq DEF Takes, EdgeStates
  <1>3. /\ Len(c) = Len(b) - 1 /\ Len(c) \in Nat /\ (Len(b) = 1 <=> c = <<>>)
        /\ \A k \in 1..Len(c) : k + 1 \in 1..Len(b) /\ c[k] = b[k + 1]
    <2>1. c \in Seq(Ops) /\ Len(c) = Len(b) - 1 /\ Len(c) \in Nat
      BY <1>2
    <2>2. \A k \in 1..Len(c) : k + 1 \in 1..Len(b) /\ c[k] = b[k + 1]
      BY <1>2
    <2>3. c = <<>> <=> Len(c) = 0
      BY <2>1, EmptySeq
    <2> QED
      BY <1>2, <2>1, <2>2, <2>3
  <1>0. Len(b) = Len(c) + 1 /\ Len(c) \in Nat
    BY <1>2, <1>3
  <1>4. ~Took(e) /\ 1 \in 1..Len(b)
    BY <1>1, <1>2 DEF Took
  <1>5. op.kind # "abort" /\ (op.kind = "close" => Len(b) = 1 /\ Shut(e - 1))
    BY <1>2, <1>4 DEF Handing
  <1>6. th'[e] = Enter(e, op)
    BY <1>1, GoneMode DEF Takes
  <1>7. /\ th'[e].mode = "run" /\ th'[e].op = op
        /\ th'[e].pc = IF op.kind = "close" THEN Outlet(e) ELSE "stage"
    BY <1>1, <1>5, <1>6 DEF Enter, ThreadStates, Handing
  <1>8. Took(e)' <=> op.kind = "close"
    BY <1>7 DEF Took, Outlet
  <1>9. Shut(e - 1)' <=> Shut(e - 1)
    BY <1>1 DEF Shut
  <1> HIDE DEF b, c, op
  <1>10. Shut(e - 1) /\ op.kind # "close" => CloseLast(c)
    <2> SUFFICES ASSUME Shut(e - 1), op.kind # "close"
                 PROVE  CloseLast(c)
      OBVIOUS
    <2>1. b[Len(b)].kind = "close"
      BY <1>4 DEF Handing, CloseLast, b
    <2>2. Len(b) # 1
      BY <1>2, <2>1
    <2>3. Len(c) \in 1..Len(c) /\ c[Len(c)] = b[Len(b)] /\ c # <<>>
      BY <1>2, <1>3, <2>2
    <2> QED
      BY <2>1, <2>3 DEF CloseLast
  <1>11. \A k \in 1..Len(c) : c[k].kind # "abort" /\ (c[k].kind = "close" => k = Len(c) /\ Shut(e - 1))
    <2> SUFFICES ASSUME NEW k \in 1..Len(c)
                 PROVE  c[k].kind # "abort" /\ (c[k].kind = "close" => k = Len(c) /\ Shut(e - 1))
      OBVIOUS
    <2>1. k + 1 \in 1..Len(b) /\ c[k] = b[k + 1]
      BY <1>3
    <2>2. b[k + 1].kind # "abort" /\ (b[k + 1].kind = "close" => k + 1 = Len(b) /\ Shut(e - 1))
      BY <2>1 DEF Handing, b
    <2>3. k + 1 = Len(b) => k = Len(c)
      BY <1>0
    <2>4. c[k].kind = b[k + 1].kind
      BY <2>1
    <2> QED
      BY <2>2, <2>3, <2>4
  <1>12. th'[e - 1].mode \in {"run", "finish"} /\ th'[e - 1].op.kind # "abort"
    BY <1>1 DEF Handing
  <1>13. edge'[e].tx \/ Shut(e - 1)'
    BY <1>2, <1>9 DEF Handing
  <1>14. th'[e].pc \notin {"offer", "ended"} /\ th'[e].op.kind # "abort"
    BY <1>5, <1>7 DEF Outlet
  <1>15. Took(e)' => Shut(e - 1)' /\ c = <<>>
    BY <1>3, <1>5, <1>8, <1>9
  <1> QED
    BY <1>7, <1>8, <1>9, <1>10, <1>11, <1>12, <1>13, <1>14, <1>15 DEF Handing, c

LEMMA ReceiverKeeps ==
  ASSUME Base, Tidy, Quiet, NEW e \in Segments, ThreadStep(e), QuietMove(e), edge[e].rx
  PROVE  IF edge'[e].rx THEN Handing(e)' ELSE Gone(e)'
  <1>1. /\ th[e] \in ThreadStates /\ Shape(e, th[e]) /\ Handing(e) /\ e \in Threads /\ e # 0
        /\ UNCHANGED th[e - 1] /\ edge \in [Segments -> EdgeStates] /\ edge[e] \in EdgeStates
    <2>1. Handing(e) /\ e \in Threads /\ e # 0
      BY DEF Tidy
    <2>2. UNCHANGED th[e - 1]
      BY ThreadMoves DEF Base, Moves
    <2> QED
      BY <2>1, <2>2, ShapeOf, BufSeq DEF Base
  <1>2. th[e].mode = "run" /\ th[e].op.kind # "abort" /\ th[e].pc \notin {"offer", "ended"}
    BY <1>1 DEF Handing
  <1>3. LoseRx(e) => ~edge'[e].rx
    BY <1>1, <1>2 DEF LoseRx, EdgeStates
  <1>4. edge'[e].tx = edge[e].tx
    BY <1>1, RxOnlyFalls
  <1>5. ASSUME UNCHANGED edge[e].buf, th'[e].mode = "run", th'[e].pc \notin {"offer", "ended"},
               th'[e].op.kind # "abort", Took(e)' <=> Took(e)
        PROVE  Handing(e)'
    BY <1>1, <1>4, <1>5, ReceiverIdle
  <1>6. ASSUME ~edge'[e].rx, th'[e].pc \in {"offer", "end", "ended"} \/ th'[e].mode = "abort"
        PROVE  IF edge'[e].rx THEN Handing(e)' ELSE Gone(e)'
    BY <1>6 DEF Gone
  <1>7. ASSUME Handing(e)', edge'[e].rx = edge[e].rx
        PROVE  IF edge'[e].rx THEN Handing(e)' ELSE Gone(e)'
    BY <1>7
  <1>8. CASE Fails(e)
    BY <1>3, <1>6, <1>8 DEF Fails
  <1>9. CASE StopsAt(e)
    <2>1. th'[e] = GiveUp(e) /\ LoseRx(e) /\ th[e].pc = "send"
      BY <1>9 DEF StopsAt
    <2>2. GiveUp(e).pc = "end" \/ GiveUp(e).mode = "abort"
      BY <1>1, <1>2 DEF GiveUp, Abort, ThreadStates
    <2> QED
      BY <1>3, <1>6, <2>1, <2>2
  <1>10. CASE Returns(e)
    <2>1. /\ th'[e].mode = "run" /\ th'[e].op = th[e].op
          /\ th'[e].pc = IF Closing(th[e].op) THEN "end" ELSE "loop"
      BY <1>1, <1>2, <1>10 DEF Returns, OkState, ThreadStates
    <2>2. Took(e)' <=> Took(e)
      BY <1>1, <1>2, <1>10, <2>1 DEF Returns, Took, Shape
    <2> QED
      BY <1>2, <1>5, <1>7, <1>10, <2>1, <2>2 DEF Returns
  <1>11. CASE Passes(e)
    <2>1. /\ th'[e].mode = "run" /\ th'[e].op = th[e].op /\ th'[e].pc \in {"send", "sink"}
      BY <1>1, <1>2, <1>11 DEF Passes, ThreadStates, Outlet
    <2>2. Took(e)' <=> Took(e)
      BY <1>1, <1>11, <2>1 DEF Passes, Took, Shape
    <2> QED
      BY <1>2, <1>5, <1>7, <1>11, <2>1, <2>2 DEF Passes
  <1>12. CASE Appends(e)
    <2>1. th'[e] = Sent(e) /\ th[e].pc = "send" /\ edge'[e] = edge[e]
      BY <1>1, <1>12, GoneMode DEF Appends
    <2>2. /\ th'[e].mode = "run" /\ th'[e].op = th[e].op
          /\ th'[e].pc \in {"handoff", IF Closing(th[e].op) THEN "end" ELSE "loop"}
      BY <1>1, <1>2, <2>1 DEF Sent, OkState, ThreadStates
    <2>3. Took(e)' <=> Took(e)
      BY <1>2, <2>1, <2>2 DEF Took
    <2> QED
      BY <1>2, <1>5, <1>7, <2>1, <2>2, <2>3
  <1>13. CASE Idles(e)
    <2>1. th'[e].mode = "run" /\ th'[e].op.kind = "tick" /\ th'[e].pc = "stage" /\ th[e].pc = "loop"
      BY <1>1, <1>2, <1>13, OpsOf DEF Idles, Enter, ThreadStates
    <2> QED
      BY <1>5, <1>7, <1>13, <2>1 DEF Idles, Took
  <1>14. CASE Takes(e)
    <2>1. edge'[e].rx = edge[e].rx
      BY <1>1, <1>14 DEF Takes, EdgeStates
    <2> QED
      BY <1>1, <1>7, <1>14, <2>1, ReceiverTakes
  <1>15. CASE End(e)
    <2>1. ~edge'[e].rx
      BY <1>15 DEF End
    <2>2. th'[e] = [th[e] EXCEPT !.pc = "ended", !.op = Op("tick"), !.attempts = 0]
      BY <1>1, <1>15, GoneMode DEF End
    <2>3. th'[e].pc = "ended"
      BY <1>1, <2>2 DEF ThreadStates
    <2> QED
      BY <1>6, <2>1, <2>3
  <1> QED
    BY <1>1, <1>8, <1>9, <1>10, <1>11, <1>12, <1>13, <1>14, <1>15 DEF QuietMove

-----------------------------------------------------------------------------
(* Tidy is kept.                                                           *)

\* A receiver that is gone stays gone.
LEMMA GoneStays ==
  ASSUME Base, Tidy, Quiet, NEW t \in Threads, ThreadStep(t), QuietMove(t),
         NEW e \in Segments, Gone(e)
  PROVE  Gone(e)'
  <1>1. CASE t # e
    BY <1>1, ThreadMoves DEF Base, Moves, Gone
  <1>2. CASE t = e
    <2>1. th[e] \in ThreadStates /\ Shape(e, th[e]) /\ e # 0 /\ th[e].mode # "drop"
      BY <1>2, ShapeOf DEF Base, Tidy
    <2>2. CASE End(e)
      <3>1. th'[e] = [th[e] EXCEPT !.pc = "ended", !.op = Op("tick"), !.attempts = 0]
        BY <1>2, <2>2, GoneMode DEF End
      <3> QED
        BY <2>1, <3>1 DEF Gone, ThreadStates
    <2>3. CASE ~End(e)
      <3>1. th[e].mode = "abort" /\ th[e].pc \notin {"loop", "stage"}
        BY <1>2, <2>1, <2>3 DEF QuietMove, Gone, Shape, Fails, StopsAt, Returns, Passes, Appends, Idles, Takes
      <3>2. \/ th'[e] = OkState(e) \/ th'[e] = GiveUp(e) \/ th'[e] = Sent(e)
        BY <1>2, <2>1, <2>3, <3>1, GoneMode DEF QuietMove, Fails, StopsAt, Returns, Passes, Appends, Idles, Takes
      <3>3. OkState(e).mode = "abort" /\ Sent(e).mode = "abort"
            /\ (GiveUp(e).mode = "abort")
        BY <2>1, <3>1 DEF OkState, Sent, GiveUp, Abort, ThreadStates
      <3> QED
        BY <3>2, <3>3 DEF Gone
    <2> QED
      BY <2>2, <2>3
  <1> QED
    BY <1>1, <1>2

\* Whoever aborts has nobody to send to.
LEMMA AbortsAlone ==
  ASSUME Base, Tidy, Quiet, NEW t \in Threads, ThreadStep(t), QuietMove(t)
  PROVE  /\ th'[t].mode # "drop"
         /\ th'[t].op.kind = "abort" => t < Workers /\ ~edge'[t + 1].rx
  <1>1. /\ th[t] \in ThreadStates /\ Shape(t, th[t]) /\ th[t].mode # "drop"
        /\ th[t].op.kind = "abort" => t < Workers /\ ~edge[t + 1].rx
    BY ShapeOf DEF Base, Tidy
  <1>2. t < Workers /\ ~edge[t + 1].rx => ~edge'[t + 1].rx
    BY RxOnlyFalls
  <1>3. ASSUME th'[t].mode # "drop", th'[t].op.kind \in {th[t].op.kind, "close", "tick", "item", "flush"}
        PROVE  /\ th'[t].mode # "drop"
               /\ th'[t].op.kind = "abort" => t < Workers /\ ~edge'[t + 1].rx
    BY <1>1, <1>2, <1>3
  <1>4. CASE Fails(t)
    BY <1>3, <1>4 DEF Fails
  <1>5. CASE StopsAt(t)
    <2>1. th'[t].mode # "drop"
      BY <1>1, <1>5, StateModes DEF StopsAt
    <2> QED
      BY <1>2, <1>5, <2>1 DEF StopsAt
  <1>6. CASE Returns(t) \/ Appends(t)
    <2>1. th'[t] = OkState(t) \/ th'[t] = Sent(t)
      BY <1>6, GoneMode DEF Returns, Appends
    <2>2. OkState(t).mode = th[t].mode /\ OkState(t).op.kind \in {th[t].op.kind, "close"}
      BY <1>1, OpsOf DEF OkState, ThreadStates
    <2>3. Sent(t).mode = th[t].mode /\ Sent(t).op.kind \in {th[t].op.kind, "close"}
      BY <1>1, <2>2 DEF Sent, ThreadStates
    <2> QED
      BY <1>1, <1>3, <2>1, <2>2, <2>3
  <1>7. CASE Passes(t)
    <2>1. th'[t].mode = th[t].mode /\ th'[t].op = th[t].op
      BY <1>1, <1>7 DEF Passes, ThreadStates
    <2> QED
      BY <1>1, <1>3, <2>1
  <1>8. CASE Idles(t)
    <2>1. th'[t].mode = th[t].mode /\ th'[t].op.kind = "tick"
      BY <1>1, <1>8, OpsOf DEF Idles, Enter, ThreadStates
    <2> QED
      BY <1>1, <1>3, <2>1
  <1>9. CASE Takes(t)
    <2>1. t \in Segments /\ edge[t].buf # <<>> /\ th'[t] = Enter(t, Head(edge[t].buf))
      BY <1>9, GoneMode DEF Takes
    <2>2. Head(edge[t].buf).kind # "abort"
      <3>1. edge[t].rx /\ Handing(t)
        BY <2>1 DEF Tidy
      <3>2. Head(edge[t].buf) = edge[t].buf[1] /\ 1 \in 1..Len(edge[t].buf)
        BY <2>1, BufSeq
      <3> QED
        BY <3>1, <3>2 DEF Handing
    <2>3. th'[t].mode = th[t].mode /\ th'[t].op = Head(edge[t].buf)
      BY <1>1, <2>1 DEF Enter, ThreadStates
    <2> QED
      BY <1>1, <2>2, <2>3
  <1>10. CASE End(t)
    <2>1. th'[t] = [th[t] EXCEPT !.pc = "ended", !.op = Op("tick"), !.attempts = 0]
      BY <1>10, GoneMode DEF End
    <2>2. th'[t].op.kind = "tick" /\ th'[t].mode = th[t].mode
      BY <1>1, <2>1, OpsOf DEF ThreadStates
    <2> QED
      BY <1>1, <1>3, <2>2
  <1>11. CASE t = 0 /\ QuietSource
    <2>1. CASE th[0].pc = "loop" /\ Draws
      <3>1. \A op : /\ Enter(0, op).mode = th[0].mode /\ Enter(0, op).op = op
                    /\ [Enter(0, op) EXCEPT !.mode = "finish"].mode = "finish"
                    /\ [Enter(0, op) EXCEPT !.mode = "finish"].op = op
        BY <1>1, <1>11 DEF Enter, ThreadStates
      <3>2. th'[0].mode # "drop" /\ th'[0].op.kind \in {"item", "flush"}
        <4>1. CASE th'[0] = Enter(0, Item(pulled + 1))
          BY <1>1, <1>11, <3>1, <4>1, OpsOf
        <4>2. CASE th'[0] = [Enter(0, Op("flush")) EXCEPT !.mode = "finish"]
          BY <3>1, <4>2, OpsOf
        <4> QED
          BY <2>1, <4>1, <4>2 DEF Draws
      <3> QED
        BY <1>3, <1>11, <3>2
    <2>2. CASE CloseRest \/ SegmentsDone
      <3>1. th'[0] \in {[th[0] EXCEPT !.pc = "wait"], [th[0] EXCEPT !.pc = "closeSource"]}
        BY <1>11, <2>2, GoneMode DEF CloseRest, SegmentsDone, Fine
      <3>2. th'[0].mode = th[0].mode /\ th'[0].op = th[0].op
        BY <1>1, <1>11, <3>1 DEF ThreadStates
      <3> QED
        BY <1>1, <1>3, <1>11, <3>2
    <2>3. CASE th'[0] = Closed(local')
      <3>1. Closed(local').mode \in {th[0].mode, "abort"} /\ Closed(local').op = th[0].op
        BY <1>1, <1>11 DEF Closed, ThreadStates
      <3> QED
        BY <1>1, <1>3, <1>11, <2>3, <3>1
    <2> QED
      BY <1>11, <2>1, <2>2, <2>3 DEF QuietSource
  <1> QED
    BY <1>4, <1>5, <1>6, <1>7, <1>8, <1>9, <1>10, <1>11 DEF QuietMove

LEMMA ShutStays ==
  ASSUME Base, Tidy, Quiet, Known, NEW t \in Threads, ThreadStep(t), QuietMove(t), raised' = {},
         Shut(t)
  PROVE  Shut(t)'
  <1>1. th[t] \in ThreadStates /\ Shape(t, th[t]) /\ th[t].mode # "drop"
    BY ShapeOf DEF Base, Tidy
  <1>2. CASE Returns(t)
    <2>1. th[t].pc = "handoff" /\ th[t].op.kind = "close" /\ th'[t] = OkState(t)
      BY <1>2 DEF Returns, Shut
    <2>2. t = 0 => th[t].mode = "finish"
      BY <1>1, <2>1 DEF Shape, ThreadStates, Modes
    <2>3. OkState(t).pc \in {"closeRest", "end"}
      BY <1>1, <2>1, <2>2 DEF OkState, ThreadStates
    <2> QED
      BY <2>1, <2>3 DEF Shut
  <1>3. CASE End(t)
    <2>1. th'[t] = [th[t] EXCEPT !.pc = "ended", !.op = Op("tick"), !.attempts = 0]
      BY <1>3, GoneMode DEF End
    <2> QED
      BY <1>1, <2>1 DEF ThreadStates, Shut
  <1>4. CASE t = 0 /\ (CloseRest \/ SegmentsDone)
    <2>1. th'[0] \in {[th[0] EXCEPT !.pc = "wait"], [th[0] EXCEPT !.pc = "closeSource"]}
      BY <1>4, GoneMode DEF CloseRest, SegmentsDone, Fine
    <2> QED
      BY <1>1, <1>4, <2>1 DEF ThreadStates, Shut
  <1>5. CASE t = 0 /\ CloseSource /\ th'[0] = Closed(local')
    <2>1. local' \in raised' \cup {None}
      <3>1. Known'
        BY KnownThread
      <3>2. th'[0].mode # "drop"
        BY <1>5, AbortsAlone
      <3> QED
        BY <3>1, <3>2 DEF Known
    <2>2. Closed(local').pc = "end"
      BY <1>1, <1>5, <2>1 DEF Closed, ThreadStates
    <2> QED
      BY <1>5, <2>2 DEF Shut
  <1> QED
    BY <1>2, <1>3, <1>4, <1>5 DEF QuietMove, Shut, Fails, StopsAt, Passes, Appends, Idles, Takes, QuietSource

\* In a clean run a receiver is dropped by a thread that has ended, after its sender.
LEMMA TidyClean ==
  ASSUME Base, Tidy, Quiet, Known, Clean, NEW t \in Threads, ThreadStep(t), QuietMove(t), raised' = {}
  PROVE  \A e \in Segments : edge'[e].rx \/ (th'[e].pc = "ended" /\ Shut(e - 1)')
  <1> SUFFICES ASSUME NEW e \in Segments, ~edge'[e].rx
               PROVE  th'[e].pc = "ended" /\ Shut(e - 1)'
    OBVIOUS
  <1>0. e \in Threads /\ e - 1 \in Threads /\ e # e - 1 /\ e # 0
    OBVIOUS
  <1>1. \A u \in Threads : u # t => th'[u] = th[u]
    BY ThreadMoves DEF Base, Moves
  <1>2. CASE ~edge[e].rx
    <2>1. th[e].pc = "ended" /\ Shut(e - 1) /\ t # e
      BY <1>2, Alive DEF Tidy
    <2>2. CASE t = e - 1
      BY <1>0, <1>1, <2>1, <2>2, ShutStays
    <2>3. CASE t # e - 1
      <3>1. th'[e - 1] = th[e - 1] /\ th'[e] = th[e]
        BY <1>0, <1>1, <2>1, <2>3
      <3> QED
        BY <2>1, <3>1 DEF Shut
    <2> QED
      BY <2>2, <2>3
  <1>3. CASE edge[e].rx
    <2>1. t = e /\ edge'[e].rx # edge[e].rx
      BY <1>3, RxOnlyFalls
    <2>2. End(e)
      <3>1. ~Fails(e)
        BY DEF Fails
      <3>2. ~StopsAt(e)
        <4>1. StopsAt(e) => e + 1 \in Segments /\ Shut(e)
          BY DEF StopsAt, Tidy
        <4> QED
          BY <4>1 DEF StopsAt, Shut
      <3>3. ~Appends(e) /\ ~Takes(e)
        BY <2>1, BufSeq DEF Appends, Takes, EdgeStates
      <3> QED
        BY <1>0, <2>1, <3>1, <3>2, <3>3 DEF QuietMove, Returns, Passes, Idles
    <2>3. th'[e] = [th[e] EXCEPT !.pc = "ended", !.op = Op("tick"), !.attempts = 0] /\ th[e].pc = "end"
      BY <1>0, <2>2, GoneMode DEF End
    <2>4. th'[e].pc = "ended"
      BY <1>0, <2>3, ShapeOf DEF ThreadStates, Base
    <2>5. Shut(e - 1)
      <3>1. Handing(e)
        BY <1>3 DEF Tidy
      <3> QED
        BY <2>3, <3>1 DEF Handing, Took
    <2>6. th'[e - 1] = th[e - 1]
      BY <1>0, <1>1, <2>1
    <2> QED
      BY <2>4, <2>5, <2>6 DEF Shut
  <1> QED
    BY <1>2, <1>3

LEMMA CleanQuiet ==
  ASSUME Known, Clean
  PROVE  Quiet
  BY DEF Known, Clean, Quiet

LEMMA CleanBefore ==
  ASSUME Base, [Next]_vars, Clean'
  PROVE  Clean
  <1>1. ASSUME NEW t \in Threads, ThreadStep(t)
        PROVE  panics \subseteq panics' /\ raised \subseteq raised' /\ UNCHANGED main
    <2>1. panics \subseteq panics'
      BY <1>1, ThreadPanics DEF Panicked
    <2>2. ASSUME NEW e, Raises(t, e)
          PROVE  raised \subseteq raised'
      <3>1. th[t].mode \in Modes
        BY ShapeOf DEF Base, ThreadStates
      <3> QED
        BY <2>2, <3>1 DEF Raises, Failed, Modes
    <2> QED
      BY <1>1, <2>1, <2>2, ThreadRaises, ThreadWrites
  <1>2. CallerStep => /\ UNCHANGED panics /\ raised \subseteq raised'
                      /\ (main = "unwindRunner" => main' = "unwindRunner")
    <2>1. CallerStep /\ main = "unwindRunner" => main' = "unwindRunner"
      BY DEF CallerStep, Started, Spawn, SpawnFailed, DropRest, Join, DlqFlush, DlqClose, Decide
    <2> QED
      BY <2>1, CallerWrites
  <1> QED
    BY <1>1, <1>2 DEF Clean, Next, Cancel, Returned, vars, caller

LEMMA TidyThread ==
  ASSUME Base, Known, Tidy, NEW t \in Threads, ThreadStep(t)
  PROVE  Tidy'
  <1>1. ASSUME NEW e \in Segments
        PROVE  edge'[e].rx \/ edge'[e].buf = <<>>
    <2>1. edge[e].rx \/ edge[e].buf = <<>>
      BY DEF Tidy
    <2>2. edge \in [Segments -> EdgeStates] /\ edge[e] \in EdgeStates
      BY BufSeq
    <2>3. CASE UNCHANGED edge
      BY <2>1, <2>3
    <2>4. CASE Loses(t) \/ End(t)
      <3>1. edge'[e].buf = edge[e].buf \/ edge'[e].buf = <<>>
        <4>1. Loses(t) => edge'[e].buf = edge[e].buf \/ edge'[e].buf = <<>>
          BY <2>2 DEF Loses, EdgeStates
        <4>2. End(t) => edge'[e].buf = edge[e].buf \/ edge'[e].buf = <<>>
          BY <2>2 DEF End, EdgeStates
        <4> QED
          BY <2>4, <4>1, <4>2
      <3>2. e # t => edge'[e].rx = edge[e].rx
        BY RxOnlyFalls
      <3>3. e = t => edge'[e].buf = <<>>
        BY <2>2, <2>4 DEF Loses, End, EdgeStates
      <3> QED
        BY <2>1, <3>1, <3>2, <3>3
    <2>5. CASE Appends(t)
      BY <2>1, <2>2, <2>5 DEF Appends, EdgeStates
    <2>6. CASE Takes(t)
      BY <2>1, <2>2, <2>6 DEF Takes, EdgeStates
    <2>7. CASE CloseRest
      BY <2>1, <2>2, <2>7 DEF CloseRest, EdgeStates
    <2> QED
      BY <2>3, <2>4, <2>5, <2>6, <2>7, EdgeSteps DEF Base
  <1>2. ASSUME Quiet'
        PROVE  /\ \A e \in Segments : IF edge'[e].rx THEN Handing(e)' ELSE Gone(e)'
               /\ \A u \in Threads : /\ th'[u].mode # "drop"
                                     /\ th'[u].op.kind = "abort" => u < Workers /\ ~edge'[u + 1].rx
               /\ th'[0].pc = "closeSource" => th'[1].pc = "ended"
    <2>1. Quiet /\ QuietMove(t) /\ \A u \in Threads : u # t => th'[u] = th[u]
      <3>1. Quiet
        BY <1>2, QuietBefore DEF Next
      <3> QED
        BY <1>2, <3>1, QuietThread, ThreadMoves DEF Base, Moves
    <2>2. ASSUME NEW e \in Segments
          PROVE  IF edge'[e].rx THEN Handing(e)' ELSE Gone(e)'
      <3>0. e \in Threads /\ e - 1 \in Threads /\ e # e - 1 /\ e # 0
        OBVIOUS
      <3>1. CASE ~edge[e].rx
        <4>1. Gone(e)
          BY <2>1, <3>1 DEF Tidy
        <4> QED
          BY <2>1, <3>1, <4>1, GoneStays, RxOnlyFalls
      <3>2. CASE edge[e].rx /\ t = e - 1
        <4>0. t + 1 = e /\ e # t
          BY <3>0, <3>2
        <4>1. t + 1 = e /\ edge'[e].rx = edge[e].rx
          BY <4>0, RxOnlyFalls, Zenon
        <4>2. Handing(t + 1)'
          BY <2>1, <3>2, <4>1, SenderKeeps
        <4> QED
          BY <3>2, <4>1, <4>2
      <3>3. CASE edge[e].rx /\ t = e
        BY <2>1, <3>3, ReceiverKeeps
      <3>4. CASE edge[e].rx /\ t # e /\ t # e - 1
        <4>1. th'[e] = th[e] /\ th'[e - 1] = th[e - 1] /\ Handing(e)
          BY <2>1, <3>0, <3>4 DEF Tidy
        <4>0. e # t + 1 /\ edge'[e].buf = edge[e].buf
          BY <3>0, <3>4, BufSteps
        <4>2. edge'[e].rx = edge[e].rx /\ edge'[e].tx = edge[e].tx /\ edge'[e].buf = edge[e].buf
          BY <3>4, <4>0, RxOnlyFalls, Zenon
        <4>3. (Shut(e - 1)' <=> Shut(e - 1)) /\ (Took(e)' <=> Took(e))
          BY <4>1 DEF Shut, Took
        <4>4. Handing(e)'
          BY <4>1, <4>2, <4>3 DEF Handing
        <4> QED
          BY <3>4, <4>2, <4>4
      <3> QED
        BY <3>1, <3>2, <3>3, <3>4
    <2>3. ASSUME NEW u \in Threads
          PROVE  /\ th'[u].mode # "drop"
                 /\ th'[u].op.kind = "abort" => u < Workers /\ ~edge'[u + 1].rx
      <3>1. CASE u = t
        BY <2>1, <3>1, AbortsAlone
      <3>2. CASE u # t
        BY <2>1, <3>2, RxOnlyFalls DEF Tidy
      <3> QED
        BY <3>1, <3>2
    <2>4. th'[0].pc = "closeSource" => th'[1].pc = "ended"
      <3>0. 0 \in Threads /\ 1 \in Threads /\ 1 \in Segments
        OBVIOUS
      <3>1. th[1].pc = "ended" => th'[1].pc = "ended"
        BY <2>1, <3>0, Alive
      <3>2. CASE t # 0
        BY <2>1, <3>0, <3>1, <3>2 DEF Tidy
      <3>3. CASE t = 0 /\ ~SegmentsDone
        <4>1. th[0] \in ThreadStates /\ Shape(0, th[0])
          BY <3>0, ShapeOf DEF Base
        <4>2. th'[0].pc # "closeSource"
          <5>1. CASE Fails(0)
            BY <5>1 DEF Fails
          <5>2. CASE StopsAt(0)
            BY <4>1, <5>2 DEF StopsAt, GiveUp, Abort, Outlet, ThreadStates
          <5>3. CASE Returns(0)
            BY <4>1, <5>3 DEF Returns, OkState, Outlet, ThreadStates
          <5>4. CASE Passes(0)
            BY <4>1, <5>4 DEF Passes, Outlet, ThreadStates
          <5>5. CASE Appends(0)
            BY <3>0, <4>1, <5>5, GoneMode DEF Appends, Sent, OkState, Outlet, ThreadStates
          <5>6. CASE Idles(0)
            BY <4>1, <5>6 DEF Idles, Enter, Outlet, ThreadStates
          <5>7. CASE End(0)
            BY <3>0, <4>1, <5>7, GoneMode DEF End, ThreadStates
          <5>8. CASE QuietSource
            <6>1. \A op : /\ Enter(0, op).pc # "closeSource"
                          /\ [Enter(0, op) EXCEPT !.mode = "finish"].pc # "closeSource"
              BY <4>1 DEF Enter, Outlet, ThreadStates
            <6>2. \A x : Closed(x).pc # "closeSource"
              BY <4>1 DEF Closed, ThreadStates
            <6>3. CloseRest => th'[0].pc # "closeSource"
              BY <3>0, <4>1, GoneMode DEF CloseRest, ThreadStates
            <6> QED
              BY <3>3, <5>8, <6>1, <6>2, <6>3 DEF QuietSource, Draws
          <5> QED
            BY <2>1, <3>3, <5>1, <5>2, <5>3, <5>4, <5>5, <5>6, <5>7, <5>8 DEF QuietMove, Takes
        <4> QED
          BY <4>2
      <3>4. CASE t = 0 /\ SegmentsDone
        BY <2>1, <3>0, <3>4 DEF SegmentsDone
      <3> QED
        BY <3>2, <3>3, <3>4
    <2> QED
      BY <2>2, <2>3, <2>4
  <1>3. ASSUME Clean'
        PROVE  \A e \in Segments : edge'[e].rx \/ (th'[e].pc = "ended" /\ Shut(e - 1)')
    <2>1. Clean /\ Quiet
      BY <1>3, CleanBefore, CleanQuiet DEF Next
    <2>2. Known' /\ Quiet'
      <3>1. Known'
        BY KnownThread
      <3> QED
        BY <1>3, <3>1, CleanQuiet, PTL
    <2> QED
      BY <1>3, <2>1, <2>2, QuietThread, TidyClean DEF Clean
  <1> QED
    BY <1>1, <1>2, <1>3 DEF Tidy

-----------------------------------------------------------------------------
(* The calling thread's steps.                                             *)

LEMMA QuietCaller ==
  ASSUME Base, Known, CallerStep, Quiet'
  PROVE  UNCHANGED th \/ \E n \in Threads : th[n].pc = "new" /\ Starts(n)
  <1>1. Started => UNCHANGED th
    BY DEF Started, Quiet
  <1>2. Spawn => th[next].pc = "new" /\ Starts(next) /\ next \in Threads
    <2>1. main = "spawn" => th[next].pc = "new" /\ next \in Threads
      BY DEF Base, Spawned, Types
    <2> QED
      BY <2>1 DEF Spawn, Starts, Quiet
  <1>3. ~DropRest
    BY CallerWrites DEF DropRest, Known, Quiet
  <1>4. SpawnFailed \/ Join \/ DlqFlush \/ DlqClose \/ Decide => UNCHANGED th
    BY DEF SpawnFailed, Join, DlqFlush, DlqClose, Decide
  <1> QED
    BY <1>1, <1>2, <1>3, <1>4 DEF CallerStep

\* A thread that starts changes nothing that Tidy speaks of.
LEMMA StartsTidy ==
  ASSUME Base, NEW n \in Threads, th[n].pc = "new", Starts(n)
  PROVE  /\ \A t \in Threads : /\ th'[t].mode = th[t].mode /\ th'[t].op = th[t].op
                               /\ th'[t].pc = th[t].pc \/ (th[t].pc = "new" /\ th'[t].pc = "loop")
  <1>1. th \in [Threads -> ThreadStates]
    BY DEF Base, Types
  <1>2. \A t \in Threads : t # n => th'[t] = th[t]
    BY <1>1 DEF Starts, Go
  <1>3. th'[n] = [th[n] EXCEPT !.pc = "loop"]
    BY <1>1 DEF Starts, Go
  <1>4. th'[n].mode = th[n].mode /\ th'[n].op = th[n].op /\ th'[n].pc = "loop"
    BY <1>1, <1>3 DEF ThreadStates
  <1> QED
    BY <1>2, <1>4

LEMMA TidyStill ==
  ASSUME Base, Tidy, UNCHANGED edge, Quiet' => Quiet, Clean' => Clean,
         Quiet' \/ Clean' => \A t \in Threads :
           /\ th'[t].mode = th[t].mode /\ th'[t].op = th[t].op
           /\ th'[t].pc = th[t].pc \/ (th[t].pc = "new" /\ th'[t].pc = "loop")
  PROVE  Tidy'
  <1>1. ASSUME Quiet' \/ Clean', NEW t \in Threads
        PROVE  /\ th'[t].mode = th[t].mode /\ th'[t].op = th[t].op
               /\ Shut(t)' <=> Shut(t)
               /\ Took(t)' <=> Took(t)
               /\ Gone(t)' <=> Gone(t)
               /\ th'[t].pc \in {"offer", "ended", "closeSource"} <=> th[t].pc \in {"offer", "ended", "closeSource"}
               /\ th'[t].pc # th[t].pc => th'[t].pc = "loop" /\ th[t].pc = "new"
    BY <1>1 DEF Shut, Took, Gone
  <1>2. ASSUME Quiet', NEW e \in Segments
        PROVE  IF edge'[e].rx THEN Handing(e)' ELSE Gone(e)'
    <2>1. e \in Threads /\ e - 1 \in Threads
      OBVIOUS
    <2>2. IF edge[e].rx THEN Handing(e) ELSE Gone(e)
      BY <1>2 DEF Tidy
    <2>3. CASE edge[e].rx
      <3>1. Handing(e) /\ edge' = edge
        BY <2>2, <2>3
      <3>2. /\ th'[e].mode = th[e].mode /\ th'[e].op = th[e].op
            /\ Took(e)' <=> Took(e)
            /\ th'[e].pc # th[e].pc => th'[e].pc = "loop"
        BY <1>1, <1>2, <2>1
      <3>3. /\ th'[e - 1].mode = th[e - 1].mode /\ th'[e - 1].op = th[e - 1].op
            /\ Shut(e - 1)' <=> Shut(e - 1)
        BY <1>1, <1>2, <2>1
      <3>4. Handing(e)'
        BY <3>1, <3>2, <3>3 DEF Handing
      <3> QED
        BY <2>3, <3>4
    <2>4. CASE ~edge[e].rx
      BY <1>1, <1>2, <2>1, <2>2, <2>4
    <2> QED
      BY <2>3, <2>4
  <1>3. ASSUME Quiet', NEW t \in Threads
        PROVE  /\ th'[t].mode # "drop"
               /\ th'[t].op.kind = "abort" => t < Workers /\ ~edge'[t + 1].rx
    BY <1>1, <1>3 DEF Tidy
  <1>4. ASSUME Quiet'
        PROVE  th'[0].pc = "closeSource" => th'[1].pc = "ended"
    <2>1. 0 \in Threads /\ 1 \in Threads
      OBVIOUS
    <2>2. th'[0].pc = "closeSource" => th[0].pc = "closeSource"
      BY <1>1, <1>4, <2>1
    <2>3. th[1].pc = "ended" => th'[1].pc = "ended"
      BY <1>1, <1>4, <2>1
    <2> QED
      BY <1>4, <2>2, <2>3 DEF Tidy
  <1>5. ASSUME Clean', NEW e \in Segments
        PROVE  edge'[e].rx \/ (th'[e].pc = "ended" /\ Shut(e - 1)')
    <2>1. e \in Threads /\ e - 1 \in Threads
      OBVIOUS
    <2>2. edge[e].rx \/ (th[e].pc = "ended" /\ Shut(e - 1))
      BY <1>5 DEF Tidy
    <2> QED
      BY <1>1, <1>5, <2>1, <2>2
  <1> QED
    BY <1>2, <1>3, <1>4, <1>5 DEF Tidy

LEMMA TidyCaller ==
  ASSUME Base, Known, Tidy, CallerStep
  PROVE  Tidy'
  <1>1. UNCHANGED edge
    BY CallerWrites
  <1>2. (Quiet' => Quiet) /\ (Clean' => Clean)
    BY QuietBefore, CleanBefore DEF Next
  <1>3. Clean' => Quiet'
    <2>1. Known'
      BY KnownCaller
    <2> QED
      BY <2>1, CleanQuiet, PTL
  <1>4. Quiet' => \A t \in Threads :
           /\ th'[t].mode = th[t].mode /\ th'[t].op = th[t].op
           /\ th'[t].pc = th[t].pc \/ (th[t].pc = "new" /\ th'[t].pc = "loop")
    BY QuietCaller, StartsTidy
  <1> QED
    BY <1>1, <1>2, <1>3, <1>4, TidyStill

LEMMA TidyStep ==
  ASSUME Base, Known, Tidy, [Next]_vars
  PROVE  Known' /\ Tidy'
  <1>1. CASE CallerStep
    BY <1>1, KnownCaller, TidyCaller
  <1>2. ASSUME NEW t \in Threads, ThreadStep(t)
        PROVE  Known' /\ Tidy'
    BY <1>2, KnownThread, TidyThread
  <1>3. CASE Cancel \/ UNCHANGED vars
    <2>1. UNCHANGED <<th, edge, first, local, main, next, raised, panics, scenario>>
      BY <1>3 DEF Cancel, vars, caller
    <2>2. Known'
      BY <2>1 DEF Known, Errors
    <2>3. (Quiet' => Quiet) /\ (Clean' => Clean)
      BY <1>3, QuietBefore, CleanBefore DEF Next
    <2> QED
      BY <2>1, <2>2, <2>3, TidyStill
  <1> QED
    BY <1>1, <1>2, <1>3 DEF Next, Returned

LEMMA TidyInit ==
  ASSUME Init
  PROVE  Known /\ Tidy
  <1>1. /\ \A t \in Threads : th[t] = Fresh
        /\ \A e \in Segments : edge[e] = [buf |-> <<>>, rx |-> TRUE, tx |-> TRUE]
        /\ raised = {} /\ first = None /\ local = None /\ main = "start" /\ panics = {}
    BY DEF Init
  <1>2. /\ \A t \in Threads : /\ th[t].pc = "new" /\ th[t].mode = "run" /\ th[t].op.kind = "tick"
                              /\ th[t].err = None /\ ~th[t].held
        /\ \A e \in Segments : edge[e].buf = <<>> /\ edge[e].rx /\ edge[e].tx
    BY <1>1, OpsOf DEF Fresh
  <1>3. Known
    BY <1>1, <1>2 DEF Known
  <1>4. \A e \in Segments : Handing(e)
    <2> SUFFICES ASSUME NEW e \in Segments
                 PROVE  Handing(e)
      OBVIOUS
    <2>1. e \in Threads /\ e - 1 \in Threads
      OBVIOUS
    <2>2. Len(<<>>) = 0 /\ 1..0 = {}
      BY EmptySeq
    <2> QED
      BY <1>2, <2>1, <2>2 DEF Handing, Shut, Took, CloseLast
  <1>5. Tidy
    BY <1>1, <1>2, <1>4 DEF Tidy
  <1> QED
    BY <1>3, <1>5

-----------------------------------------------------------------------------
(* Everything that was pulled is accounted for.                            *)

\* In a clean run a thread that does not skip or write keeps its items.
LEMMA NothingLost ==
  ASSUME Base, Known, Tidy, NEW t \in Threads, ThreadStep(t), Clean', Keeps(t)
  PROVE  Loseless
  <1>1. Clean /\ Quiet /\ Quiet' /\ raised' = {}
    <2>1. Known'
      BY KnownThread
    <2>2. Clean
      BY CleanBefore DEF Next
    <2>3. Quiet /\ Quiet'
      BY <2>1, <2>2, CleanQuiet, PTL
    <2>4. raised' = {}
      BY DEF Clean
    <2> QED
      BY <2>2, <2>3, <2>4
  <1>2. QuietMove(t)
    BY <1>1, QuietThread
  <1>3. /\ th[t] \in ThreadStates /\ Shape(t, th[t])
        /\ \A u \in Threads : u # t => Carried(u)' = Carried(u)
        /\ Carried(t)' \subseteq Carried(t) /\ UNCHANGED flow
    BY ShapeOf, ItemSteps DEF Base, Keeps
  <1>4. TransitIs /\ TransitIs'
    <2>1. Base'
      BY BaseStep DEF Next
    <2> QED
      BY <2>1, InTransitIs, PTL
  <1>5. ASSUME Carried(t)' = Carried(t), \A e \in Segments : Waiting(e)' = Waiting(e)
        PROVE  Loseless
    <2>1. \A n : n \in InTransit' <=> n \in InTransit
      <3>1. \A u \in Threads : Carried(u)' = Carried(u)
        BY <1>3, <1>5
      <3> QED
        BY <1>4, <1>5, <3>1 DEF TransitIs
    <2> QED
      BY <2>1 DEF Loseless, InTransit
  <1>6. UNCHANGED edge => \A e \in Segments : Waiting(e)' = Waiting(e)
    BY DEF Waiting
  <1>7. ASSUME ~Carries(t)
        PROVE  Carried(t)' = Carried(t)
    BY <1>3, <1>7 DEF Carried
  <1>8. CASE Fails(t)
    BY <1>1, <1>8 DEF Fails
  <1>9. CASE StopsAt(t)
    <2>1. t + 1 \in Segments /\ ~edge[t + 1].rx /\ t + 1 - 1 = t
      BY <1>9 DEF StopsAt
    <2>2. Shut(t)
      BY <1>1, <2>1 DEF Tidy
    <2> QED
      BY <1>9, <2>2 DEF StopsAt, Shut
  <1>10. CASE Returns(t)
    <2>1. UNCHANGED <<skipped, written>> /\ skipped \in Nat /\ written \in Seq(1..MaxItems)
      BY <1>3 DEF flow, Base, Types
    <2>2. skipped' # skipped + 1 /\ \A x : written' # Append(written, x)
      <3>1. \A x : Append(written, x) # written
        BY <2>1
      <3> QED
        BY <2>1, <3>1
    <2>3. ~Carries(t)
      BY <1>10, <2>2 DEF Returns, Carries
    <2> QED
      BY <1>5, <1>6, <1>7, <1>10, <2>3 DEF Returns
  <1>11. CASE Passes(t)
    <2>1. th'[t].op = th[t].op /\ th'[t].pc \in {"send", "sink"}
      BY <1>3, <1>11 DEF Passes, ThreadStates, Outlet
    <2>2. Carried(t)' = Carried(t)
      BY <1>11, <2>1 DEF Passes, Carried, Carries
    <2> QED
      BY <1>5, <1>6, <1>11, <2>2 DEF Passes
  <1>12. CASE Appends(t)
    <2>1. t + 1 \in Segments /\ edge'[t + 1].buf = Append(edge[t + 1].buf, th[t].op)
      BY <1>12, BufSeq DEF Appends, EdgeStates
    <2>2. Append(edge[t + 1].buf, th[t].op) \notin {edge[t + 1].buf, <<>>}
      <3> DEFINE b == edge[t + 1].buf
                 a == Append(edge[t + 1].buf, th[t].op)
      <3>1. b \in Seq(Ops) /\ Len(b) \in Nat /\ th[t].op \in Ops /\ Len(<<>>) = 0
        BY <1>3, <2>1, BufSeq, EmptySeq DEF ThreadStates
      <3>2. Len(a) = Len(b) + 1
        BY <3>1, AppendProperties
      <3> HIDE DEF a, b
      <3>3. a # b /\ a # <<>>
        BY <3>1, <3>2
      <3> QED
        BY <3>3 DEF a, b
    <2> QED
      BY <2>1, <2>2 DEF Keeps
  <1>13. CASE Idles(t)
    BY <1>5, <1>6, <1>7, <1>13 DEF Idles, Carries
  <1>14. CASE Takes(t)
    <2>1. t \in Segments /\ edge[t].buf # <<>> /\ th[t].pc = "loop"
          /\ th'[t] = Enter(t, Head(edge[t].buf)) /\ Head(edge[t].buf) \in Ops
      BY <1>14, GoneMode, BufSeq DEF Takes
    <2>2. th'[t].op = Head(edge[t].buf) /\ (th'[t].op.kind = "item" => th'[t].pc = "stage")
      BY <1>3, <2>1 DEF Enter, ThreadStates
    <2>3. Carried(t)' = {} /\ Carried(t) = {}
      BY <1>3, <2>1 DEF Carried, Carries
    <2>4. Head(edge[t].buf).item = 0
      BY <2>1, <2>2, <2>3, ItemNot0 DEF Carried, Carries
    <2>5. edge'[t].buf = Tail(edge[t].buf)
      BY <1>14, <2>1, BufSeq DEF Takes, EdgeStates
    <2>6. Waiting(t)' = Waiting(t)
      BY <2>1, <2>4, <2>5, TailItems
    <2>7. \A e \in Segments : e # t => Waiting(e)' = Waiting(e)
      BY <1>14, <2>1, BufSeq DEF Takes, EdgeStates, Waiting
    <2> QED
      BY <1>5, <2>3, <2>6, <2>7
  <1>15. CASE End(t)
    <2>1. ~Carries(t)
      BY <1>15 DEF End, Carries
    <2>2. t \in Segments => edge[t].buf = <<>>
      BY <1>1, <1>15 DEF Tidy, Handing, Took, End
    <2>3. \A e \in Segments : edge'[e].buf = edge[e].buf
      BY <1>15, <2>2 DEF End
    <2>4. \A e \in Segments : Waiting(e)' = Waiting(e)
      BY <2>3 DEF Waiting
    <2> QED
      BY <1>5, <1>7, <2>1, <2>4
  <1>16. CASE t = 0 /\ QuietSource
    <2>1. ~Carries(t)
      BY <1>16 DEF QuietSource, CloseRest, SegmentsDone, CloseSource, Carries
    <2>2. \A e \in Segments : edge'[e].buf = edge[e].buf
      <3>1. CloseRest => \A e \in Segments : edge'[e].buf = edge[e].buf
        BY BufSeq DEF CloseRest, EdgeStates
      <3>2. SegmentsDone => UNCHANGED edge
        BY DEF SegmentsDone, Fine
      <3> QED
        BY <1>16, <3>1, <3>2 DEF QuietSource
    <2>3. \A e \in Segments : Waiting(e)' = Waiting(e)
      BY <2>2 DEF Waiting
    <2> QED
      BY <1>5, <1>7, <2>1, <2>3
  <1> QED
    BY <1>2, <1>8, <1>9, <1>10, <1>11, <1>12, <1>13, <1>14, <1>15, <1>16 DEF QuietMove

LEMMA ItemsStill ==
  ASSUME Base, Ordered, Counted, UNCHANGED <<edge, flow, scenario>>, Clean' => Clean,
         \A t \in Threads : Carried(t)' = Carried(t)
  PROVE  Ordered' /\ Counted'
  <1>1. \A e \in Segments : Waiting(e)' = Waiting(e)
    BY DEF Waiting
  <1>2. Done' = Done /\ UNCHANGED pulled /\ UNCHANGED written /\ UNCHANGED skipped /\ UNCHANGED edge
    BY DEF Done, flow
  <1>3. Apart'
    BY <1>1, <1>2 DEF Ordered, Apart
  <1>4. Ordered'
    BY <1>2, <1>3 DEF Ordered
  <1>5. InTransit' = InTransit
    BY <1>1 DEF InTransit, MaxItems
  <1>6. Counted'
    BY <1>2, <1>5 DEF Counted
  <1> QED
    BY <1>4, <1>6

LEMMA ItemsStep ==
  ASSUME Base, Known, Tidy, Ordered, Counted, [Next]_vars
  PROVE  Ordered' /\ Counted'
  <1>1. ASSUME NEW t \in Threads, ThreadStep(t)
        PROVE  Ordered' /\ Counted'
    <2>1. Ordered'
      BY <1>1, OrderedThread
    <2>2. Base' /\ (Clean' => Clean)
      BY <1>1, BaseStep, CleanBefore DEF Next
    <2>3. Clean' => (Keeps(t) => Loseless)
      BY <1>1, NothingLost
    <2> QED
      BY <1>1, <2>1, <2>2, <2>3, CountedThread
  <1>2. CASE CallerStep
    <2>1. UNCHANGED <<edge, flow, scenario>>
      BY <1>2, CallerWrites
    <2>2. Clean' => Clean
      BY <1>2, CleanBefore DEF Next
    <2>3. ASSUME NEW t \in Threads
          PROVE  Carried(t)' = Carried(t)
      <3>1. th'[t] = th[t] \/ (th[t].pc = "new" /\ th'[t].pc \in {"loop", "drop"})
        BY <1>2, CallerMoves
      <3> QED
        BY <3>1 DEF Carried, Carries
    <2> QED
      BY <2>1, <2>2, <2>3, ItemsStill
  <1>3. CASE Cancel \/ UNCHANGED vars
    <2>1. UNCHANGED <<th, edge, flow, scenario>>
      BY <1>3 DEF Cancel, vars
    <2>2. Clean' => Clean
      BY <1>3, CleanBefore DEF Next
    <2> QED
      BY <2>1, <2>2, ItemsStill DEF Carried, Carries
  <1> QED
    BY <1>1, <1>2, <1>3 DEF Next, Returned

LEMMA ItemsInit ==
  ASSUME Init
  PROVE  Ordered /\ Counted
  <1>1. /\ \A t \in Threads : th[t].pc = "new"
        /\ \A e \in Segments : edge[e].buf = <<>>
        /\ written = <<>> /\ pulled = 0 /\ skipped = 0
    BY DEF Init, Fresh
  <1>2. Len(<<>>) = 0 /\ 1..0 = {}
    BY EmptySeq
  <1>3. /\ \A t \in Threads : Carried(t) = {}
        /\ \A e \in Segments : Waiting(e) = {}
        /\ Done = {}
    BY <1>1, <1>2 DEF Carried, Carries, Waiting, Done
  <1>4. Ordered
    BY <1>1, <1>2, <1>3 DEF Ordered, Apart, InOrderOn
  <1>5. InTransit = {}
    BY <1>3 DEF InTransit
  <1>6. Counted
    BY <1>1, <1>2, <1>5, FS_EmptySet DEF Counted
  <1> QED
    BY <1>4, <1>6

-----------------------------------------------------------------------------
(* The invariant, and the first theorems.                                  *)

\* Errors come from where the scenario allows them, every thread of a run without errors
\* hands its close on before it drops its receiver, and the items are in order and counted.
THEOREM ItemsInvariant == Spec => [](Known /\ Tidy /\ Ordered /\ Counted)
  <1>1. Init => Base /\ Known /\ Tidy /\ Ordered /\ Counted
    BY BaseInit, TidyInit, ItemsInit
  <1>2. Base /\ Known /\ Tidy /\ Ordered /\ Counted /\ [Next]_vars
          => (Base /\ Known /\ Tidy /\ Ordered /\ Counted)'
    BY BaseStep, TidyStep, ItemsStep
  <1> QED
    BY <1>1, <1>2, PTL DEF Spec

\* Every variable of a run keeps its type, for any number of workers and any scenario.
THEOREM ThreadedTypeOK == Spec => []TypeOK
  <1>1. ASSUME Base, Ordered, Counted
        PROVE  TypeOK
    <2>1. skipped \in 0..MaxItems
      <3>1. Cardinality(InTransit) \in Nat /\ Len(written) \in Nat /\ skipped \in Nat /\ pulled \in Nat /\ MaxItems \in Nat
        BY <1>1, TransitFinite, Places
      <3>2. pulled \in 0..MaxItems
        BY <1>1 DEF Base, Types
      <3> QED
        BY <1>1, <3>1, <3>2 DEF Counted
    <2>2. ASSUME NEW t \in Threads
          PROVE  /\ th[t].pc \in ThreadPCs /\ th[t].op \in Ops /\ th[t].mode \in Modes
                 /\ th[t].err \in ErrorSites \cup {None} /\ th[t].held \in BOOLEAN
                 /\ th[t].attempts \in 0..Attempts(t)
      <3>1. th[t] \in ThreadStates /\ Shape(t, th[t])
        BY <1>1, ShapeOf DEF Base
      <3>2. th[t].attempts \in 0..Attempts(t)
        BY <3>1 DEF ThreadStates, Shape
      <3> QED
        BY <3>1, <3>2 DEF ThreadStates
    <2>3. \A e \in Segments : /\ edge[e].buf \in Seq(Ops) /\ Len(edge[e].buf) <= Limit
                              /\ edge[e].rx \in BOOLEAN /\ edge[e].tx \in BOOLEAN
      BY <1>1, BufSeq DEF EdgeStates, Base, Types
    <2> QED
      BY <1>1, <2>1, <2>2, <2>3 DEF TypeOK, Base, Types, Flags, Mains, ThreadPCs, Modes
  <1> QED
    BY <1>1, BaseInvariant, ItemsInvariant, PTL

\* The items reach the sink in source order, none twice, whatever fails, and a run that
\* reports success or a cancellation lost no item and swallowed no error, however many
\* threads it has and whatever the capacity of its edges.
THEOREM ThreadedLossless == Spec => []Lossless
  <1>1. ASSUME Base, AllReach, Decided, Known, Tidy, Ordered, Counted
        PROVE  Lossless
    <2>1. \A i, j \in 1..Len(written) : i < j => written[i] < written[j]
      BY <1>1 DEF Ordered
    <2>2. ASSUME result \in {"ok", "cancelled"}
          PROVE  raised = {} /\ panics = {} /\ Len(written) + skipped = pulled
      <3>1. raised = {} /\ panics = {} /\ main = "ended"
        BY <1>1, <2>2, NothingSwallowed DEF Unsullied
      <3>2. Clean /\ Quiet /\ \A t \in Threads : th[t].pc = "ended"
        BY <1>1, <3>1, CleanQuiet, LateEnded DEF Clean, Late
      <3>3. \A e \in Segments : edge[e].buf = <<>>
        BY <1>1, <3>2 DEF Tidy, Handing
      <3>4. InTransit = {}
        <4>1. Len(<<>>) = 0 /\ 1..0 = {}
          BY EmptySeq
        <4> QED
          BY <3>2, <3>3, <4>1 DEF InTransit, Carried, Carries, Waiting
      <3>5. Len(written) + skipped + 0 = pulled
        BY <1>1, <3>2, <3>4, FS_EmptySet DEF Counted
      <3> QED
        BY <1>1, <3>1, <3>5, Places
    <2> QED
      BY <2>1, <2>2 DEF Lossless
  <1> QED
    BY <1>1, BaseInvariant, ErrorsInvariant, ItemsInvariant, PTL

-----------------------------------------------------------------------------
(* Nothing fails without a fault, and a hand-off waits for its receiver.   *)

LEMMA FaultsRise ==
  ASSUME Base, NEW t \in Threads, ThreadStep(t)
  PROVE  \/ faults' = faults + 1
         \/ /\ UNCHANGED <<faults, panics>>
            /\ UNCHANGED raised \/ th[t].held
            /\ th'[t].held => th[t].held
  <1> DEFINE Calmly == /\ UNCHANGED <<faults, panics>>
                       /\ UNCHANGED raised \/ th[t].held
                       /\ th'[t].held => th[t].held
             Good == faults' = faults + 1 \/ Calmly
  <1>1. th[t] \in ThreadStates /\ Shape(t, th[t])
    BY ShapeOf DEF Base
  <1>2. /\ OkState(t).held = th[t].held /\ GiveUp(t).held = th[t].held /\ Abort(t).held = th[t].held
        /\ Sent(t).held = th[t].held
        /\ \A op : Enter(t, op).held = th[t].held
    BY <1>1 DEF OkState, GiveUp, Abort, Sent, Enter, ThreadStates
  <1>3. /\ \A p : [th[t] EXCEPT !.pc = p].held = th[t].held
        /\ [th[t] EXCEPT !.pc = "ended", !.op = Op("tick"), !.attempts = 0].held = th[t].held
        /\ \A p : [th[t] EXCEPT !.attempts = @ + 1, !.op = Op("abort"), !.pc = p].held = th[t].held
    BY <1>1 DEF ThreadStates
  <1>4. t = 0 => /\ Closed(local).held = th[0].held
                 /\ [Enter(0, Op("flush")) EXCEPT !.mode = "finish"].held = th[0].held
    BY <1>1 DEF Closed, Enter, ThreadStates
  <1>5. ASSUME NEW s, Go(t, s), s.held = th[t].held, Calm
        PROVE  Good
    BY <1>5, GoneMode DEF Calm
  <1>6. ASSUME NEW s, Fine(t, s), s.held = th[t].held
        PROVE  Good
    BY <1>5, <1>6 DEF Fine
  <1>7. ASSUME NEW S, NEW e, Bound(S, e)
        PROVE  Good
    BY <1>7 DEF Bound
  <1>8. ASSUME NEW e, Raise(e) \/ Panicked(t, e)
        PROVE  Good
    BY <1>7, <1>8 DEF Raise, Panicked
  <1>9. ASSUME NEW e, SinkOutcome(t, e)
        PROVE  Good
    BY <1>2, <1>6, <1>8, <1>9 DEF SinkOutcome
  <1> HIDE DEF Good
  <1>10. Stage(t) => Good
    BY <1>2, <1>3, <1>6, <1>8 DEF Stage
  <1>11. Send(t) => Good
    BY <1>2, <1>5, <1>6 DEF Send, Disconnected
  <1>12. HandedOff(t) \/ Offer(t) \/ Drop(t) => Good
    BY <1>2, <1>3, <1>6, <1>8 DEF HandedOff, Offer, Drop
  <1>13. SinkItem(t) \/ SinkFlush(t) \/ SinkClose(t) => Good
    BY <1>2, <1>6, <1>8, <1>9 DEF SinkItem, SinkFlush, SinkClose
  <1>14. AbortFlush(t) => Good
    BY <1>3, <1>6, <1>8 DEF AbortFlush
  <1>15. AbortClose(t) => Good
    <2>1. ASSUME th[t].held, Failed(t, "abort"), UNCHANGED faults
          PROVE  Good
      BY <2>1 DEF Failed, Good
    <2> QED
      BY <1>2, <1>6, <1>8, <2>1 DEF AbortClose
  <1>16. t = 0 /\ Pump => Good
    BY <1>2, <1>4, <1>6, <1>8 DEF Pump
  <1>17. Recv(t) => Good
    BY <1>2, <1>5 DEF Recv
  <1>18. t = 0 /\ (CloseRest \/ SegmentsDone) => Good
    BY <1>3, <1>5, <1>6 DEF CloseRest, SegmentsDone
  <1>19. t = 0 /\ CloseSource => Good
    <2>1. ASSUME t = 0, Go(0, Closed(local)), UNCHANGED <<local, raised, panics, faults>>
          PROVE  Good
      BY <1>4, <1>5, <2>1 DEF Calm
    <2> QED
      BY <1>8, <2>1 DEF CloseSource
  <1>20. End(t) => Good
    BY <1>3, <1>5 DEF End
  <1>21. Good
    BY <1>10, <1>11, <1>12, <1>13, <1>14, <1>15, <1>16, <1>17, <1>18, <1>19, <1>20
       DEF ThreadStep, SinkStep, SourceStep
  <1> QED
    BY <1>21 DEF Good

LEMMA FaultlessStep ==
  ASSUME Base, Faultless, [Next]_vars
  PROVE  Faultless'
  <1>1. ASSUME NEW t \in Threads, ThreadStep(t)
        PROVE  Faultless'
    <2>1. faults \in Nat /\ main' = main
      BY <1>1, ThreadWrites DEF Base, Types
    <2>2. \A u \in Threads : u # t => th'[u] = th[u]
      BY <1>1, ThreadMoves DEF Base, Moves
    <2> QED
      BY <1>1, <2>1, <2>2, FaultsRise DEF Faultless
  <1>2. CASE CallerStep
    <2>1. faults \in Nat
      BY DEF Base, Types
    <2>2. \A t \in Threads : th'[t].held => th[t].held
      <3>1. ASSUME NEW t \in Threads
            PROVE  th'[t] = th[t] \/ th'[t].pc \in {"loop", "drop"}
        BY <1>2, CallerMoves
      <3>2. \A t \in Threads : Shape(t, th'[t])
        BY <1>2, BaseStep DEF Next, Base, Shapes
      <3> QED
        BY <3>1, <3>2 DEF Shape
    <2>3. \/ faults' = faults + 1
          \/ UNCHANGED <<faults, raised, panics>> /\ (main' = "unwindRunner" => main = "unwindRunner")
      BY <1>2 DEF CallerStep, Started, Spawn, SpawnFailed, DropRest, Join, DlqFlush, DlqClose, Decide,
         Raise, Bound, Calm
    <2> QED
      BY <2>1, <2>2, <2>3 DEF Faultless
  <1>3. CASE Cancel \/ UNCHANGED vars
    <2>1. UNCHANGED <<th, main, raised, panics, faults>>
      BY <1>3 DEF Cancel, vars, caller
    <2> QED
      BY <2>1 DEF Faultless
  <1> QED
    BY <1>1, <1>2, <1>3 DEF Next, Returned

LEMMA HandOffsStep ==
  ASSUME Base, HandOffs, [Next]_vars
  PROVE  HandOffs'
  <1>1. ASSUME NEW t \in Threads, ThreadStep(t)
        PROVE  HandOffs'
    <2>1. Capacity' = Capacity
      BY <1>1, ThreadWrites DEF Capacity
    <2> SUFFICES ASSUME Capacity = 0, NEW e \in Segments, edge'[e].buf # <<>>
                 PROVE  th'[e - 1].pc = "handoff" /\ th'[e - 1].op = edge'[e].buf[1]
      BY <2>1 DEF HandOffs
    <2>2. /\ Limit = 1 /\ Len(edge[e].buf) <= 1 /\ edge[e].buf \in Seq(Ops) /\ e - 1 \in Threads
      BY BufSeq DEF Limit, Base, Types
    <2>3. \A u \in Threads : u # t => th'[u] = th[u]
      BY <1>1, ThreadMoves DEF Base, Moves
    <2>4. CASE edge'[e].buf = edge[e].buf
      <3>1. th[e - 1].pc = "handoff" /\ th[e - 1].op = edge[e].buf[1]
        BY <2>4 DEF HandOffs
      <3>2. t # e - 1
        <4>1. ASSUME t = e - 1
              PROVE  FALSE
          <5>1. HandedOff(t)
            BY <1>1, <3>1, <4>1 DEF ThreadStep, Stage, Drop, Offer, Send, End, SinkStep, SinkItem, SinkFlush,
               SinkClose, AbortFlush, AbortClose, Recv, SourceStep, Pump, CloseRest, SegmentsDone, CloseSource
          <5>2. t + 1 = e
            BY <4>1
          <5>3. edge[e].buf = <<>>
            BY <5>1, <5>2 DEF HandedOff
          <5> QED
            BY <2>4, <5>3
        <4> QED
          BY <4>1
      <3> QED
        BY <2>2, <2>3, <2>4, <3>1, <3>2
    <2>5. CASE t = e - 1 /\ Appends(t) /\ edge'[e].buf = Append(edge[e].buf, th[t].op)
      <3>1. t + 1 = e
        BY <2>5
      <3>2. Len(edge[e].buf) < 1
        BY <2>2, <2>5, <3>1 DEF Appends
      <3>3. edge[e].buf = <<>>
        BY <2>2, <3>2, EmptySeq
      <3>4. edge'[e].buf[1] = th[t].op
        BY <2>5, <3>3
      <3>5. th'[t] = [th[t] EXCEPT !.pc = "handoff"] /\ th[t] \in ThreadStates
        BY <2>5, GoneMode, ShapeOf DEF Appends, Sent, Base
      <3> QED
        BY <2>5, <3>4, <3>5 DEF ThreadStates
    <2>6. CASE Takes(e) /\ edge'[e].buf = Tail(edge[e].buf)
      <3> DEFINE b == edge[e].buf
      <3>1. b \in Seq(Ops) /\ b # <<>> /\ Len(b) <= 1
        BY <2>2, <2>6 DEF Takes
      <3> HIDE DEF b
      <3>2. Tail(b) = <<>>
        <4>1. Len(b) \in Nat /\ Len(b) # 0
          BY <3>1, EmptySeq, LenProperties
        <4>2. Len(Tail(b)) = Len(b) - 1 /\ Tail(b) \in Seq(Ops)
          BY <3>1, HeadTailProperties, Zenon
        <4>3. Len(Tail(b)) = 0
          BY <3>1, <4>1, <4>2
        <4> QED
          BY <4>2, <4>3, EmptySeq, Zenon
      <3> QED
        BY <2>6, <3>2 DEF b
    <2> QED
      BY <1>1, <2>4, <2>5, <2>6, BufSteps
  <1>2. CASE CallerStep
    <2>1. UNCHANGED edge /\ Capacity' = Capacity
      BY <1>2, CallerWrites DEF Capacity
    <2>2. \A t \in Threads : th'[t] = th[t] \/ th[t].pc = "new"
      BY <1>2, CallerMoves
    <2> SUFFICES ASSUME Capacity = 0, NEW e \in Segments, edge[e].buf # <<>>
                 PROVE  th'[e - 1].pc = "handoff" /\ th'[e - 1].op = edge[e].buf[1]
      BY <2>1 DEF HandOffs
    <2>3. th[e - 1].pc = "handoff" /\ th[e - 1].op = edge[e].buf[1] /\ e - 1 \in Threads
      BY DEF HandOffs
    <2> QED
      BY <2>2, <2>3
  <1>3. CASE Cancel \/ UNCHANGED vars
    <2>1. UNCHANGED <<th, edge, scenario>>
      BY <1>3 DEF Cancel, vars
    <2> QED
      BY <2>1 DEF HandOffs, Capacity
  <1> QED
    BY <1>1, <1>2, <1>3 DEF Next, Returned

\* The items in transit are in the threads' hands and in the slots of the edges.
LEMMA Room ==
  ASSUME Base, HandOffs
  PROVE  Cardinality(InTransit) <= Workers * Capacity + Workers + 1
  <1> DEFINE Slots == Segments \X (1..Capacity)
             Held == {n \in InTransit : \E t \in Threads : n = th[t].op.item}
             Kept == {n \in InTransit : \E s \in Slots : n = edge[s[1]].buf[s[2]].item}
             W == Cardinality(Threads)
             S == Cardinality(Slots)
  <1>1. Capacity \in Nat /\ IsFiniteSet(InTransit)
    <2>1. Capacity \in Nat
      BY ErrorsOf DEF Base
    <2> QED
      BY <2>1, TransitFinite
  <1>2. IsFiniteSet(Threads) /\ W = Workers + 1
    BY FS_Interval
  <1>3. IsFiniteSet(Slots) /\ S = Workers * Capacity
    <2>1. IsFiniteSet(Segments) /\ Cardinality(Segments) = Workers
      BY FS_Interval
    <2>2. IsFiniteSet(1..Capacity) /\ Cardinality(1..Capacity) = Capacity
      BY <1>1, FS_Interval
    <2>3. IsFiniteSet(Slots) /\ S = Cardinality(Segments) * Cardinality(1..Capacity)
      BY <2>1, <2>2, FS_Product
    <2> HIDE DEF Slots, S
    <2> QED
      BY <2>1, <2>2, <2>3
  <1>4. InTransit \subseteq Held \cup Kept
    <2> SUFFICES ASSUME NEW n \in InTransit
                 PROVE  n \in Held \/ n \in Kept
      OBVIOUS
    <2>1. ASSUME NEW t \in Threads, n \in Carried(t)
          PROVE  n \in Held
      BY <2>1 DEF Carried
    <2>2. ASSUME NEW e \in Segments, n \in Waiting(e)
          PROVE  n \in Held \/ n \in Kept
      <3>1. PICK k \in 1..Len(edge[e].buf) : n = edge[e].buf[k].item
        BY <2>2 DEF Waiting
      <3>2. edge[e].buf \in Seq(Ops) /\ Len(edge[e].buf) \in Nat /\ Len(edge[e].buf) <= Limit
        BY BufSeq DEF Base, Types
      <3>3. CASE Capacity = 0
        <4>1. k = 1 /\ edge[e].buf # <<>>
          BY <3>1, <3>2, <3>3, EmptySeq DEF Limit
        <4>2. th[e - 1].op = edge[e].buf[1] /\ e - 1 \in Threads
          BY <3>3, <4>1 DEF HandOffs
        <4> QED
          BY <3>1, <4>1, <4>2
      <3>4. CASE Capacity > 0
        <4>1. k \in 1..Capacity
          BY <1>1, <3>1, <3>2, <3>4 DEF Limit
        <4>2. <<e, k>> \in Slots /\ n = edge[<<e, k>>[1]].buf[<<e, k>>[2]].item
          BY <3>1, <4>1
        <4> QED
          BY <4>2
      <3> QED
        BY <1>1, <3>3, <3>4
    <2> QED
      BY <2>1, <2>2 DEF InTransit
  <1> HIDE DEF Slots, W, S
  <1>5. IsFiniteSet(Held) /\ Cardinality(Held) <= W
    <2> DEFINE D == {t \in Threads : th[t].op.item \in InTransit}
               f == [t \in D |-> th[t].op.item]
    <2>1. IsFiniteSet(D) /\ Cardinality(D) <= W
      BY <1>2, FS_Subset DEF W
    <2>2. f \in Surjection(D, Held)
      BY DEF Surjection
    <2>3. IsFiniteSet(Held) /\ Cardinality(Held) <= Cardinality(D)
      <3> HIDE DEF D, f, Held
      <3> QED
        BY <2>1, <2>2, FS_Surjection
    <2>4. Cardinality(Held) \in Nat /\ Cardinality(D) \in Nat /\ W \in Nat
      BY <1>2, <2>1, <2>3, FS_CardinalityType DEF W
    <2> HIDE DEF D, f, Held, Kept
    <2> QED
      BY <2>1, <2>3, <2>4
  <1>6. IsFiniteSet(Kept) /\ Cardinality(Kept) <= S
    <2> DEFINE D == {s \in Slots : edge[s[1]].buf[s[2]].item \in InTransit}
               f == [s \in D |-> edge[s[1]].buf[s[2]].item]
    <2>1. IsFiniteSet(D) /\ Cardinality(D) <= S
      BY <1>3, FS_Subset DEF S
    <2>2. f \in Surjection(D, Kept)
      BY DEF Surjection
    <2>3. IsFiniteSet(Kept) /\ Cardinality(Kept) <= Cardinality(D)
      <3> HIDE DEF D, f, Kept
      <3> QED
        BY <2>1, <2>2, FS_Surjection
    <2>4. Cardinality(Kept) \in Nat /\ Cardinality(D) \in Nat /\ S \in Nat
      BY <1>3, <2>1, <2>3, FS_CardinalityType DEF S
    <2> HIDE DEF D, f, Held, Kept
    <2> QED
      BY <2>1, <2>3, <2>4
  <1> HIDE DEF Held, Kept
  <1>7. /\ IsFiniteSet(Held \cup Kept)
        /\ Cardinality(Held \cup Kept) = Cardinality(Held) + Cardinality(Kept) - Cardinality(Held \cap Kept)
    BY <1>5, <1>6, FS_Union
  <1>8. Cardinality(InTransit) <= Cardinality(Held \cup Kept)
    BY <1>4, <1>7, FS_Subset
  <1>9. IsFiniteSet(Held \cap Kept)
    <2>1. Held \cap Kept \in SUBSET Held
      OBVIOUS
    <2> QED
      BY <1>5, <2>1, FS_Subset
  <1>10. /\ Cardinality(Held) \in Nat /\ Cardinality(Kept) \in Nat /\ Cardinality(Held \cap Kept) \in Nat
         /\ Cardinality(InTransit) \in Nat /\ W \in Nat /\ S \in Nat /\ Cardinality(Held \cup Kept) \in Nat
    BY <1>1, <1>2, <1>3, <1>5, <1>6, <1>7, <1>9, FS_CardinalityType DEF W, S
  <1>11. Cardinality(InTransit) <= W + S
    BY <1>5, <1>6, <1>7, <1>8, <1>10
  <1>12. W + S = Workers * Capacity + Workers + 1
    <2>1. Workers \in Nat /\ Workers * Capacity \in Nat
      BY <1>3, <1>10
    <2> QED
      BY <1>2, <1>3, <2>1
  <1> QED
    BY <1>11, <1>12

\* Backpressure: until something fails, a slow sink slows the source down, and between the
\* two there is at most what the edges hold and one item in each thread.
THEOREM ThreadedInFlight == Spec => []InFlight
  <1>1. Init => HandOffs /\ Faultless
    <2>1. Init => /\ \A t \in Threads : ~th[t].held
                  /\ \A e \in Segments : edge[e].buf = <<>>
                  /\ raised = {} /\ panics = {} /\ main = "start"
      BY DEF Init, Fresh
    <2> QED
      BY <2>1 DEF HandOffs, Faultless
  <1>2. Base /\ HandOffs /\ Faultless /\ [Next]_vars => (HandOffs /\ Faultless)'
    BY HandOffsStep, FaultlessStep
  <1>3. ASSUME Base, Counted, HandOffs, Faultless
        PROVE  InFlight
    <2> SUFFICES ASSUME faults = 0
                 PROVE  pulled - (Len(written) + skipped) <= Workers * Capacity + Workers + 1
      BY DEF InFlight
    <2>1. Clean
      BY <1>3 DEF Faultless, Clean
    <2>2. Len(written) + skipped + Cardinality(InTransit) = pulled
      BY <1>3, <2>1 DEF Counted
    <2>3. /\ Len(written) \in Nat /\ skipped \in Nat /\ pulled \in Nat /\ Cardinality(InTransit) \in Nat
      BY <1>3, TransitFinite, Places
    <2>4. pulled - (Len(written) + skipped) = Cardinality(InTransit)
      BY <2>2, <2>3
    <2> QED
      BY <1>3, <2>4, Room
  <1> QED
    BY <1>1, <1>2, <1>3, BaseInvariant, ItemsInvariant, PTL DEF Spec

-----------------------------------------------------------------------------
(* The caller gets a cause.                                                *)

\* The source thread offers what it kept only after it closed its source, and it closes
\* that, unless it was dropped, only after the segments have ended.
LEMMA ClosesLast ==
  ASSUME Base, ThreadStep(0)
  PROVE  IF th[0].pc = "closeSource"
         THEN CloseSource /\ th'[0] \in {Closed(local'), PanicState(0)}
         ELSE /\ ~Leaving'
              /\ th'[0].pc = "closeSource" /\ th'[0].mode # "drop" => \A t \in Segments : th[t].pc = "ended"
  <1>1. 0 \in Threads /\ th[0] \in ThreadStates /\ Shape(0, th[0])
    BY ShapeOf DEF Base
  <1>2. CASE th[0].pc = "closeSource"
    <2>1. CloseSource
      BY <1>2 DEF ThreadStep, Stage, Drop, Offer, Send, HandedOff, SinkStep, SinkItem, SinkFlush,
         SinkClose, AbortFlush, AbortClose, Recv, SourceStep, Pump, End, CloseRest, SegmentsDone
    <2>2. \A s : Go(0, s) => th'[0] = s
      BY <1>1, GoneMode
    <2>3. th'[0] \in {Closed(local'), PanicState(0)}
      BY <2>1, <2>2 DEF CloseSource, Panicked
    <2> QED
      BY <1>2, <2>1, <2>3
  <1>3. CASE th[0].pc # "closeSource"
    <2>1. CASE Plain(0)
      <3>1. /\ OkState(0).pc \notin {"offer", "closeSource"} /\ Abort(0).pc \notin {"offer", "closeSource"}
            /\ GiveUp(0).pc \notin {"offer", "closeSource"}
            /\ \A op : Enter(0, op).pc \notin {"offer", "closeSource"}
            /\ [Enter(0, Op("flush")) EXCEPT !.mode = "finish"].pc \notin {"offer", "closeSource"}
        BY <1>1 DEF OkState, Abort, GiveUp, Enter, Outlet, ThreadStates, Shape
      <3>2. /\ \A p : [th[0] EXCEPT !.pc = p].pc = p /\ [th[0] EXCEPT !.pc = p].mode = th[0].mode
            /\ [th[0] EXCEPT !.pc = "sinkClose", !.held = TRUE].pc = "sinkClose"
            /\ [th[0] EXCEPT !.pc = "ended", !.op = Op("tick"), !.attempts = 0].pc = "ended"
            /\ \A p : [th[0] EXCEPT !.attempts = @ + 1, !.op = Op("abort"), !.pc = p].pc = p
            /\ \A p : [th[0] EXCEPT !.attempts = @ + 1, !.op = Op("abort"), !.pc = p].mode = th[0].mode
        BY <1>1 DEF ThreadStates
      <3>3. th[0].pc = "drop" => th[0].mode = "drop"
        BY <1>1 DEF Shape
      <3>4. \/ th'[0].pc \notin {"offer", "closeSource"}
            \/ th'[0].pc = "closeSource" /\ (th'[0].mode = "drop" \/ \A u \in Segments : At(u, "ended"))
        <4>1. CASE th[0].pc \in {"stage", "send", "handoff", "offer", "sink", "sinkClose"}
          BY <2>1, <3>1, <3>2, <4>1 DEF Plain, Outlet
        <4>2. CASE th[0].pc = "loop"
          BY <2>1, <3>1, <4>2 DEF Plain
        <4>3. CASE th[0].pc = "drop"
          <5> DEFINE q == IF ~edge[1].tx THEN "closeSource" ELSE Outlet(0)
                     d == [th[0] EXCEPT !.attempts = @ + 1, !.op = Op("abort"), !.pc = q]
          <5>1. th'[0] = [th[0] EXCEPT !.pc = "end"] \/ th'[0] = d
            BY <2>1, <4>3 DEF Plain
          <5>2. [th[0] EXCEPT !.pc = "end"].pc = "end"
            BY <3>2
          <5>3. d.mode = "drop" /\ d.pc = q /\ q # "offer"
            BY <1>1, <3>3, <4>3 DEF ThreadStates, Outlet
          <5> HIDE DEF d, q
          <5>4. CASE th'[0] = d
            BY <5>3, <5>4
          <5>5. CASE th'[0] = [th[0] EXCEPT !.pc = "end"]
            BY <5>2, <5>5
          <5> QED
            BY <5>1, <5>4, <5>5
        <4>4. CASE th[0].pc \in {"closeRest", "wait", "end"}
          BY <2>1, <3>2, <4>4 DEF Plain
        <4> QED
          BY <1>3, <2>1, <4>1, <4>2, <4>3, <4>4 DEF Plain
      <3> QED
        BY <1>3, <3>4 DEF Leaving
    <2>2. ASSUME NEW e \in RunErrors, Raises(0, e)
          PROVE  /\ ~Leaving'
                 /\ th'[0].pc = "closeSource" => FALSE
      <3>1. th[0].mode \in {"run", "finish"} /\ (th[0].mode = "finish" => th[0].op.kind = "flush")
        BY <1>1, <2>2 DEF Raises, Shape
      <3>2. \/ th'[0] = [th[0] EXCEPT !.pc = "offer", !.err = e, !.held = FALSE] /\ th[0].mode = "run"
            \/ th'[0] = GiveUp(0) /\ th[0].mode = "finish"
        BY <1>1, <2>2, <3>1, GoneMode DEF Raises, Failed
      <3>3. th[0].mode = "finish" => GiveUp(0).pc = "send"
        BY <1>1, <3>1 DEF GiveUp, Outlet, ThreadStates
      <3> QED
        BY <1>1, <3>2, <3>3 DEF Leaving, ThreadStates
    <2>3. ASSUME NEW site, Panicked(0, site)
          PROVE  th'[0].pc \in {"drop", "end"}
      BY <1>1, <2>3, GoneMode DEF Panicked, PanicState, ThreadStates
    <2> QED
      BY <1>1, <1>3, <2>1, <2>2, <2>3, PlainStep DEF Leaving
  <1> QED
    BY <1>2, <1>3

LEMMA RootedThread ==
  ASSUME Base, Known, Tidy, Rooted, NEW t \in Threads, ThreadStep(t)
  PROVE  Rooted'
  <1>1. /\ th[t] \in ThreadStates /\ Shape(t, th[t]) /\ th'[t] \in ThreadStates /\ Shape(t, th'[t])
        /\ \A u \in Threads : u # t => th'[u] = th[u]
        /\ th[t].pc \notin {"new", "ended"} /\ 0 \in Threads
    BY ShapeOf, ThreadMoves, Alive DEF Base, Moves
  <1>2. Quiet' => Quiet
    BY QuietBefore DEF Next
  <1>3. ASSUME NEW e \in RunErrors, Raises(t, e)
        PROVE  /\ raised' \in {raised, raised \cup {e}}
               /\ local' = local \/ (t = 0 /\ local' \in {local, "sourceFlush"})
               /\ e = "abort" => ~Quiet /\ t # 0
    <2>1. raised' \in {raised, raised \cup {e}}
      BY <1>1, <1>3 DEF Raises, Failed, ThreadStates, Modes
    <2>2. local' = local \/ (t = 0 /\ local' \in {local, "sourceFlush"})
      BY <1>1, <1>3 DEF Raises, Failed, ThreadStates, Modes, Shape
    <2>3. e = "abort" => ~Quiet /\ t # 0
      BY <1>3 DEF Raises, Tidy
    <2> QED
      BY <2>1, <2>2, <2>3
  <1>4. "skip" \notin raised'
    <2>1. "skip" \notin RunErrors
      BY DEF RunErrors
    <2> QED
      BY <1>3, <2>1, ThreadRaises DEF Rooted
  <1>5. \A u \in Threads : th[u].pc = "ended" => th'[u].pc = "ended"
    BY <1>1
  <1>6. \A u \in Threads : u # t =>
          /\ th'[u].err = "abort" => ~Quiet'
          /\ th'[u].err \in Causes \cup {None, "abort"} \/ (u = 0 /\ Leaving')
    BY <1>1, <1>2 DEF Rooted, Leaving
  <1>7. \A e \in RunErrors : e \in Causes \cup {"abort"}
    BY DEF RunErrors, Causes
  <1>8. CASE t # 0
    <2>1. local' = local /\ th'[0] = th[0]
      BY <1>1, <1>3, <1>8, ThreadRaises
    <2>2. /\ th'[t].err = "abort" => ~Quiet'
          /\ th'[t].err \in Causes \cup {None, "abort"}
      <3>1. /\ th[t].err = "abort" => ~Quiet
            /\ th[t].err \in Causes \cup {None, "abort"}
        BY <1>8 DEF Rooted
      <3>2. None # "abort"
        OBVIOUS
      <3> QED
        BY <1>2, <1>3, <1>7, <1>8, <3>1, <3>2, ErrMoves
    <2>3. Leaving' <=> Leaving
      BY <2>1 DEF Leaving
    <2>4. local' \in {None, "sourceFlush"} \/ th'[0].mode = "drop" \/ th'[0].pc \in {"end", "ended"} \/ Leaving'
      BY <2>1, <2>3 DEF Rooted
    <2>5. Leaving' \/ (th'[0].pc = "closeSource" /\ th'[0].mode # "drop") => \A u \in Segments : th'[u].pc = "ended"
      BY <1>5, <2>1, <2>3 DEF Rooted
    <2>6. Leaving' => th'[0].err = local'
      BY <2>1, <2>3 DEF Rooted
    <2>7. \A u \in Threads : /\ th'[u].err = "abort" => ~Quiet'
                             /\ th'[u].err \in Causes \cup {None, "abort"} \/ (u = 0 /\ Leaving')
      BY <1>6, <2>2
    <2> QED
      BY <1>4, <2>4, <2>5, <2>6, <2>7 DEF Rooted
  <1>9. CASE t = 0
    <2>1. ThreadStep(0) /\ th[0] \in ThreadStates /\ Shape(0, th[0]) /\ Shape(0, th'[0]) /\ th'[0] \in ThreadStates
      BY <1>1, <1>9
    <2>2. \/ th[0].pc = "closeSource" /\ th'[0] = Closed(local')
          \/ th'[0] = PanicState(0) /\ th[0].pc = "closeSource"
          \/ /\ th[0].pc # "closeSource" /\ ~Leaving'
             /\ th'[0].pc = "closeSource" /\ th'[0].mode # "drop" => \A u \in Segments : th[u].pc = "ended"
      BY <2>1, ClosesLast
    <2>3. th'[0] = PanicState(0) => th'[0].pc = "end" \/ (th'[0].mode = "drop" /\ th'[0].pc = "drop")
      <3>1. \/ PanicState(0) = [th[0] EXCEPT !.pc = "end", !.err = None, !.held = FALSE]
            \/ PanicState(0) = [th[0] EXCEPT !.pc = "drop", !.mode = "drop", !.err = None, !.held = FALSE]
        BY DEF PanicState
      <3> QED
        BY <2>1, <3>1 DEF ThreadStates
    <2>4. th'[0] = Closed(local') => \/ th'[0].pc = "end"
                                    \/ /\ th'[0].pc = "offer" /\ th'[0].mode = "abort" /\ th'[0].err = local'
                                       /\ th[0].mode # "drop"
      <3>1. \/ /\ Closed(local') = [th[0] EXCEPT !.pc = "offer", !.err = local', !.mode = "abort"]
               /\ th[0].mode # "drop"
            \/ Closed(local') = [th[0] EXCEPT !.pc = "end"]
        BY DEF Closed
      <3> QED
        BY <2>1, <3>1 DEF ThreadStates
    <2>6. CASE th[0].pc = "closeSource"
      <3>1. \/ th'[0].pc = "end"
            \/ th'[0].mode = "drop" /\ th'[0].pc = "drop"
            \/ Leaving' /\ th'[0].err = local' /\ th[0].mode # "drop"
        <4>1. th'[0] = Closed(local') \/ th'[0] = PanicState(0)
          BY <2>2, <2>6
        <4> QED
          <5>1. CASE th'[0].pc = "offer" /\ th'[0].mode = "abort" /\ th'[0].err = local' /\ th[0].mode # "drop"
            BY <5>1 DEF Leaving
          <5>2. CASE th'[0].pc = "end"
            BY <5>2
          <5>3. CASE th'[0].mode = "drop" /\ th'[0].pc = "drop"
            BY <5>3
          <5> QED
            BY <2>3, <2>4, <4>1, <5>1, <5>2, <5>3
      <3>2. Leaving' => th[0].mode # "drop" /\ th'[0].err = local'
        BY <3>1 DEF Leaving
      <3>3. Leaving' => \A u \in Segments : th'[u].pc = "ended"
        BY <1>5, <2>6, <3>2 DEF Rooted
      <3>4. Leaving' => local' \in {None, "sourceFlush", "sourceClose"}
        <4>1. th[0].mode # "drop" => local \in {None, "sourceFlush"}
          BY <2>6 DEF Rooted, Leaving
        <4>2. local' \in {local, "sourceClose"}
          <5>1. CloseSource
            BY <2>1, <2>6, ClosesLast
          <5> QED
            BY <5>1 DEF CloseSource, Panicked
        <4> QED
          BY <3>2, <4>1, <4>2
      <3>5. Leaving' \/ th'[0].err = None
        BY <2>1, <3>1 DEF Shape
      <3>6. /\ th'[0].err = "abort" => ~Quiet'
            /\ th'[0].err \in Causes \cup {None, "abort"} \/ Leaving'
        BY <3>2, <3>4, <3>5
      <3>7. local' \in {None, "sourceFlush"} \/ th'[0].mode = "drop" \/ th'[0].pc \in {"end", "ended"} \/ Leaving'
        BY <3>1
      <3>8. Leaving' \/ (th'[0].pc = "closeSource" /\ th'[0].mode # "drop") => \A u \in Segments : th'[u].pc = "ended"
        BY <3>1, <3>3
      <3>9. \A u \in Threads : /\ th'[u].err = "abort" => ~Quiet'
                               /\ th'[u].err \in Causes \cup {None, "abort"} \/ (u = 0 /\ Leaving')
        BY <1>6, <1>9, <3>6
      <3> QED
        BY <1>4, <3>2, <3>7, <3>8, <3>9 DEF Rooted
    <2>7. CASE th[0].pc # "closeSource"
      <3>1. /\ ~Leaving'
            /\ th'[0].pc = "closeSource" /\ th'[0].mode # "drop" => \A u \in Segments : th'[u].pc = "ended"
        BY <1>5, <2>2, <2>7
      <3>2. th[0].mode = "drop" => th'[0].mode = "drop"
        BY <1>9, DropStays
      <3>3. th[0].pc = "end" => th'[0].pc = "ended"
        <4>1. th[0].pc = "end" => End(0)
          BY <2>1 DEF ThreadStep, Stage, Drop, Offer, Send, HandedOff, SinkStep, SinkItem, SinkFlush,
             SinkClose, AbortFlush, AbortClose, Recv, SourceStep, Pump, CloseRest, SegmentsDone, CloseSource
        <4>2. End(0) => th'[0] = [th[0] EXCEPT !.pc = "ended", !.op = Op("tick"), !.attempts = 0]
          BY <1>1, GoneMode DEF End
        <4> QED
          BY <2>1, <4>1, <4>2 DEF ThreadStates
      <3>4. Leaving => th'[0].pc = "end"
        <4>1. Leaving => Offer(0)
          BY <2>1 DEF Leaving, ThreadStep, Stage, Drop, End, Send, HandedOff, SinkStep, SinkItem, SinkFlush,
             SinkClose, AbortFlush, AbortClose, Recv, SourceStep, Pump, CloseRest, SegmentsDone, CloseSource
        <4>2. Offer(0) => th'[0] \in {GiveUp(0), PanicState(0)}
          BY <1>1, GoneMode DEF Offer, Fine, Panicked
        <4>3. Leaving => GiveUp(0).pc = "end" /\ PanicState(0).pc = "end"
          BY <2>1 DEF Leaving, GiveUp, PanicState, ThreadStates
        <4> QED
          BY <4>1, <4>2, <4>3
      <3>5. local' = local \/ local' = "sourceFlush"
        <4>1. ~CloseSource
          BY <2>7 DEF CloseSource
        <4> QED
          BY <1>3, <4>1, ThreadRaises
      <3>6. local' \in {None, "sourceFlush"} \/ th'[0].mode = "drop" \/ th'[0].pc \in {"end", "ended"} \/ Leaving'
        BY <1>1, <1>9, <3>2, <3>3, <3>4, <3>5 DEF Rooted
      <3>7. Leaving => th'[0].err = None
        BY <2>1, <3>4 DEF Shape
      <3>8. /\ th'[0].err = "abort" => ~Quiet'
            /\ th'[0].err \in Causes \cup {None, "abort"}
        <4>1. /\ th[0].err = "abort" => ~Quiet
              /\ th[0].err \in Causes \cup {None, "abort"} \/ Leaving
          BY <1>1 DEF Rooted
        <4>2. \/ th'[0].err \in {th[0].err, None}
              \/ \E e \in RunErrors : Raises(t, e) /\ th'[0].err = e
          BY <1>9, <2>7, ErrMoves
        <4>3. CASE th'[0].err = None
          BY <4>3
        <4>4. CASE \E e \in RunErrors : Raises(t, e) /\ th'[0].err = e
          BY <1>2, <1>3, <1>7, <1>9, <4>4
        <4>5. CASE th'[0].err = th[0].err /\ th'[0].err # None
          BY <1>2, <3>7, <4>1, <4>5
        <4> QED
          BY <4>2, <4>3, <4>4, <4>5
      <3>9. \A u \in Threads : /\ th'[u].err = "abort" => ~Quiet'
                               /\ th'[u].err \in Causes \cup {None, "abort"} \/ (u = 0 /\ Leaving')
        BY <1>6, <1>9, <3>8
      <3>10. Leaving' \/ (th'[0].pc = "closeSource" /\ th'[0].mode # "drop") => \A u \in Segments : th'[u].pc = "ended"
        BY <3>1
      <3> QED
        BY <1>4, <3>1, <3>6, <3>9, <3>10 DEF Rooted
    <2> QED
      BY <2>6, <2>7
  <1> QED
    BY <1>8, <1>9

LEMMA RootedStill ==
  ASSUME Rooted, UNCHANGED local, Quiet' => Quiet, "skip" \notin raised',
         \A t \in Threads : th'[t] = th[t] \/ (/\ th[t].pc = "new" /\ th'[t].pc \in {"loop", "drop"}
                                               /\ th'[t].err = None /\ th[t].mode = "run"
                                               /\ th'[t].mode \in {"run", "drop"})
  PROVE  Rooted'
  <1>1. 0 \in Threads /\ Segments \subseteq Threads
    OBVIOUS
  <1>2. Leaving' <=> Leaving
    BY <1>1 DEF Leaving
  <1>3. Leaving' => th'[0] = th[0]
    BY <1>1 DEF Leaving
  <1>4. Leaving' => th'[0].err = local'
    BY <1>2, <1>3 DEF Rooted
  <1>5. local' \in {None, "sourceFlush"} \/ th'[0].mode = "drop" \/ th'[0].pc \in {"end", "ended"} \/ Leaving'
    BY <1>1, <1>2 DEF Rooted, Leaving
  <1>6. Leaving' \/ (th'[0].pc = "closeSource" /\ th'[0].mode # "drop") => \A t \in Segments : th'[t].pc = "ended"
    BY <1>1, <1>2 DEF Rooted
  <1>7. ASSUME NEW t \in Threads
        PROVE  /\ th'[t].err = "abort" => ~Quiet'
               /\ th'[t].err \in Causes \cup {None, "abort"} \/ (t = 0 /\ Leaving')
    BY <1>2 DEF Rooted
  <1> QED
    BY <1>4, <1>5, <1>6, <1>7 DEF Rooted

LEMMA RootedStep ==
  ASSUME Base, Known, Tidy, Rooted, [Next]_vars
  PROVE  Rooted'
  <1>1. ASSUME NEW t \in Threads, ThreadStep(t)
        PROVE  Rooted'
    BY <1>1, RootedThread
  <1>2. CASE CallerStep
    <2>1. UNCHANGED local /\ "skip" \notin raised'
      BY <1>2, CallerWrites DEF Rooted
    <2>2. Quiet' => Quiet
      BY <1>2, QuietBefore DEF Next
    <2>3. Base'
      BY <1>2, BaseStep DEF Next
    <2>4. ASSUME NEW t \in Threads, th'[t] # th[t]
          PROVE  /\ th[t].pc = "new" /\ th'[t].pc \in {"loop", "drop"}
                 /\ th'[t].err = None /\ th[t].mode = "run"
                 /\ th'[t].mode \in {"run", "drop"}
      <3>1. th[t].pc = "new" /\ Shape(t, th'[t]) /\ th'[t].pc \in {"loop", "drop"}
        BY <1>2, <2>4, CallerMoves
      <3>2. Shape(t, th[t])
        BY ShapeOf DEF Base
      <3> QED
        BY <3>1, <3>2 DEF Shape
    <2> QED
      BY <2>1, <2>2, <2>4, RootedStill
  <1>3. CASE Cancel \/ UNCHANGED vars
    <2>1. UNCHANGED <<th, local, raised>>
      BY <1>3 DEF Cancel, vars
    <2>2. Quiet' => Quiet
      BY <1>3, QuietBefore DEF Next
    <2>3. "skip" \notin raised'
      BY <2>1 DEF Rooted
    <2> QED
      BY <2>1, <2>2, <2>3, RootedStill
  <1> QED
    BY <1>1, <1>2, <1>3 DEF Next, Returned

\* The error of an abort follows something that the caller hears of first.
LEMMA AbortUnwinds ==
  ASSUME Known, Rooted, NoOvertaking, first = None, NEW t \in Threads, th[t].err = "abort"
  PROVE  Unwinds
  <1>1. "abort" \in raised /\ raised \subseteq Errors /\ ~Quiet
    BY DEF Known, Rooted
  <1>2. raised \cap {"sourceFlush", "spawn"} = {}
    BY <1>1 DEF NoOvertaking
  <1> QED
    BY <1>1, <1>2 DEF Quiet, Unwinds

LEMMA FirstOffered ==
  ASSUME Base, Known, Rooted, Caused, NoOvertaking, NEW t \in Threads, Offer(t), ThreadStep(t), first = None
  PROVE  /\ th[t].err \in Causes \/ raised \cap Causes = {} \/ Unwinds
         /\ th[t].err = "abort" => Unwinds
         /\ th[t].err \in Causes \cup {"abort"} \/ (t = 0 /\ Leaving)
  <1>1. th[t].pc = "offer" /\ Shape(t, th[t]) /\ th[t].err # None
    <2>1. th[t].pc = "offer" /\ Shape(t, th[t])
      BY ShapeOf DEF Offer, Base
    <2> QED
      BY <2>1 DEF Shape
  <1>2. th[t].err \in Causes \cup {"abort"} \/ (t = 0 /\ Leaving)
    BY <1>1 DEF Rooted
  <1>3. th[t].err = "abort" => Unwinds
    BY AbortUnwinds
  <1>4. ASSUME t = 0, Leaving, th[0].err \notin Causes, raised \cap Causes # {}, ~Unwinds
        PROVE  FALSE
    <2>1. Heading(Causes)
      BY <1>4 DEF Caused, Reaches, Causes
    <2>2. th[0].err = local /\ \A u \in Segments : th[u].pc = "ended"
      BY <1>4 DEF Rooted
    <2>3. \A u \in Threads : th[u].pc = "offer" => u = 0
      BY <2>2
    <2>4. main = "spawnFailed"
      BY <1>4, <2>1, <2>2, <2>3 DEF Heading
    <2>5. next \in Threads /\ th[next].mode = "drop" /\ \A u \in Threads : u < next => th[u].pc = "new"
      BY <2>4 DEF Known, Base, Types, Spawned
    <2>6. next = 0
      BY <1>4, <2>5 DEF Leaving
    <2> QED
      BY <1>4, <2>5, <2>6 DEF Leaving
  <1> QED
    BY <1>2, <1>3, <1>4

\* The kinds of error that the shared slot may hold.
LEMMA FirstKinds ==
  ASSUME Base, Known, Rooted
  PROVE  first \in Causes \cup Trailing \cup {None, "abort"}
  <1>1. raised \subseteq ErrorSites \ {"skip"}
    BY DEF Base, Types, Rooted
  <1>2. ErrorSites \ {"skip"} \subseteq Causes \cup Trailing \cup {"abort"}
    BY DEF ErrorSites, Causes, Trailing
  <1> QED
    BY <1>1, <1>2 DEF Known

LEMMA CausedThread ==
  ASSUME Base, Known, Rooted, Caused, NoOvertaking, NEW t \in Threads, ThreadStep(t)
  PROVE  Caused'
  <1>1. /\ th[t] \in ThreadStates /\ Shape(t, th[t]) /\ \A u \in Threads : u # t => th'[u] = th[u]
        /\ th[t].pc \notin {"new", "ended"} /\ 0 \in Threads
    BY ShapeOf, ThreadMoves, Alive DEF Base, Moves
  <1>2. Unwinds => Unwinds'
    BY ThreadWrites, ThreadPanics DEF Unwinds, Panicked
  <1>3. UNCHANGED first \/ (Offer(t) /\ first = None /\ first' = th[t].err)
    BY ThreadWrites DEF Keep
  <1>4. ASSUME first \in Trailing
        PROVE  /\ raised' = raised
               /\ \A u \in Segments : th'[u].pc = "ended"
               /\ th'[0].pc = "ended"
    <2>1. t = 0 /\ th[0].pc = "end" /\ \A u \in Segments : th'[u].pc = "ended"
      BY <1>1, <1>4 DEF Caused
    <2>2. End(0)
      BY <2>1 DEF ThreadStep, Stage, Drop, Offer, Send, HandedOff, SinkStep, SinkItem, SinkFlush,
         SinkClose, AbortFlush, AbortClose, Recv, SourceStep, Pump, CloseRest, SegmentsDone, CloseSource
    <2>3. th'[0] = [th[0] EXCEPT !.pc = "ended", !.op = Op("tick"), !.attempts = 0] /\ th[0] \in ThreadStates
      BY <1>1, <2>1, <2>2, GoneMode DEF End
    <2> QED
      BY <2>1, <2>2, <2>3 DEF End, Calm, ThreadStates
  <1>5. first \in Causes \cup {None} \/ Unwinds \/ raised' \cap Causes = {}
    <2>1. first = "abort" => Unwinds
      BY DEF Caused
    <2>2. first \in Trailing => raised' \cap Causes = {} \/ Unwinds
      BY <1>4 DEF Caused
    <2> QED
      BY <2>1, <2>2, FirstKinds
  <1>6. Reaches(Causes)'
    <2>1. Causes \in SUBSET ErrorSites
      BY DEF Causes, ErrorSites
    <2>2. Reaches(Causes)
      BY DEF Caused
    <2>3. local \in Causes \cup {None} \/ th[0].mode = "drop" \/ th[0].pc \in {"offer", "end", "ended"}
      BY DEF Rooted, Leaving, Causes
    <2>4. Offer(t) /\ first = None => th[t].err \in Causes \/ raised \cap Causes = {} \/ Unwinds
      BY FirstOffered
    <2> QED
      BY <1>5, <2>1, <2>2, <2>3, <2>4, ReachThread
  <1>7. first' = "abort" => Unwinds'
    <2>1. first = "abort" => Unwinds
      BY DEF Caused
    <2> QED
      BY <1>2, <1>3, <2>1, FirstOffered
  <1>8. ASSUME first' \in Trailing
        PROVE  /\ \A u \in Segments : th'[u].pc = "ended"
               /\ th'[0].pc \in {"end", "ended"}
               /\ raised' \cap Causes = {} \/ Unwinds'
    <2>1. CASE first \in Trailing
      <3>1. raised \cap Causes = {} \/ Unwinds
        BY <2>1 DEF Caused
      <3> QED
        BY <1>2, <1>4, <2>1, <3>1
    <2>2. CASE first \notin Trailing
      <3>1. Offer(t) /\ first = None /\ first' = th[t].err
        BY <1>3, <1>8, <2>2
      <3>2. th[t].err \notin Causes \cup {"abort"}
        BY <1>8, <3>1 DEF Trailing, Causes
      <3>3. t = 0 /\ Leaving /\ (raised \cap Causes = {} \/ Unwinds)
        BY <3>1, <3>2, FirstOffered
      <3>4. \A u \in Segments : th'[u].pc = "ended"
        BY <1>1, <3>3 DEF Rooted
      <3>5. first' # first
        BY <1>8, <2>2
      <3>6. Fine(0, GiveUp(0))
        BY <3>1, <3>3, <3>5 DEF Offer
      <3>7. GiveUp(0).pc = "end"
        BY <1>1, <3>3 DEF Leaving, GiveUp, ThreadStates
      <3>8. th'[0] = GiveUp(0) /\ raised' = raised
        BY <1>1, <3>6, GoneMode DEF Fine, Calm
      <3> QED
        BY <1>2, <3>3, <3>4, <3>7, <3>8
    <2> QED
      BY <2>1, <2>2
  <1> QED
    BY <1>6, <1>7, <1>8 DEF Caused

LEMMA CausedCaller ==
  ASSUME Base, Known, Rooted, Caused, CallerStep
  PROVE  Caused'
  <1>1. /\ \A t \in Threads : th'[t] = th[t] \/ th[t].pc = "new"
        /\ 0 \in Threads /\ UNCHANGED panics /\ main # "unwindRunner"
    <2>1. main # "unwindRunner"
      BY DEF CallerStep, Started, Spawn, SpawnFailed, DropRest, Join, DlqFlush, DlqClose, Decide
    <2> QED
      BY <2>1, CallerMoves, CallerWrites
  <1>2. Unwinds => Unwinds'
    BY <1>1 DEF Unwinds
  <1>3. \/ UNCHANGED first
        \/ first = None /\ first' = "spawn"
        \/ first = None /\ first' \in {"dlqFlush", "dlqClose"} /\ main \in {"dlqFlush", "dlqClose"}
    BY DEF CallerStep, Started, Spawn, SpawnFailed, DropRest, Join, DlqFlush, DlqClose, Decide, Keep
  <1>4. \/ raised' \cap Causes = raised \cap Causes
        \/ main = "spawn"
    <2>1. raised' \in {raised, raised \cup {"dlqFlush"}, raised \cup {"dlqClose"}} \/ main = "spawn"
      BY DEF CallerStep, Started, Spawn, SpawnFailed, DropRest, Join, DlqFlush, DlqClose, Decide
    <2>2. "dlqFlush" \notin Causes /\ "dlqClose" \notin Causes
      BY DEF Causes
    <2> QED
      BY <2>1, <2>2
  <1>5. main = "spawn" => th[0].pc = "new"
    BY <1>1 DEF Base, Spawned, Types
  <1>6. ASSUME first \in Trailing
        PROVE  /\ \A t \in Segments : th'[t].pc = "ended"
               /\ th'[0].pc \in {"end", "ended"}
               /\ raised' \cap Causes = {} \/ Unwinds
    BY <1>1, <1>4, <1>5, <1>6 DEF Caused
  <1>7. Reaches(Causes)'
    <2>1. Causes \in SUBSET ErrorSites /\ "spawn" \in Causes
      BY DEF Causes, ErrorSites
    <2>2. first = "abort" => Unwinds
      BY DEF Caused
    <2>3. first \in Causes \cup {None} \/ Unwinds \/ raised' \cap Causes = {}
      BY <1>6, <2>2, FirstKinds
    <2>4. Reaches(Causes)
      BY DEF Caused
    <2> QED
      BY <2>1, <2>3, <2>4, ReachCaller
  <1>8. first' = "abort" => Unwinds'
    <2>1. first = "abort" => Unwinds
      BY DEF Caused
    <2> QED
      BY <1>2, <1>3, <2>1
  <1>9. ASSUME first' \in Trailing
        PROVE  /\ \A t \in Segments : th'[t].pc = "ended"
               /\ th'[0].pc \in {"end", "ended"}
               /\ raised' \cap Causes = {} \/ Unwinds'
    <2>1. CASE first \in Trailing
      BY <1>2, <1>6, <2>1
    <2>2. CASE first = None /\ main \in {"dlqFlush", "dlqClose"}
      <3>1. \A t \in Threads : th[t].pc = "ended"
        BY <2>2, LateEnded DEF Late
      <3>2. ~Heading(Causes)
        BY <1>1, <2>2, <3>1 DEF Heading
      <3>3. raised \cap Causes = {} \/ Unwinds
        BY <2>2, <3>2 DEF Caused, Reaches, Causes
      <3> QED
        BY <1>1, <1>2, <1>4, <2>2, <3>1, <3>3
    <2>3. "spawn" \notin Trailing
      BY DEF Trailing
    <2> QED
      BY <1>3, <1>9, <2>1, <2>2, <2>3
  <1> QED
    BY <1>7, <1>8, <1>9 DEF Caused

LEMMA CausedStep ==
  ASSUME Base, Known, Rooted, NoOvertaking => Caused, [Next]_vars
  PROVE  (NoOvertaking => Caused)'
  <1>1. NoOvertaking' <=> NoOvertaking
    <2>1. ASSUME NEW t \in Threads, ThreadStep(t)
          PROVE  UNCHANGED scenario
      BY <2>1, ThreadWrites
    <2>2. UNCHANGED scenario
      BY <2>1, CallerWrites DEF Next, Cancel, Returned, vars
    <2> QED
      BY <2>2 DEF NoOvertaking, Errors
  <1> SUFFICES ASSUME NoOvertaking, Caused
               PROVE  Caused'
    BY <1>1
  <1>2. CASE CallerStep
    BY <1>2, CausedCaller
  <1>3. ASSUME NEW t \in Threads, ThreadStep(t)
        PROVE  Caused'
    BY <1>3, CausedThread
  <1>4. CASE Cancel \/ UNCHANGED vars
    <2>1. UNCHANGED <<th, main, first, local, raised, panics>>
      BY <1>4 DEF Cancel, vars, caller
    <2> QED
      BY <2>1 DEF Caused, Reaches, Unwinds, Heading
  <1> QED
    BY <1>2, <1>3, <1>4 DEF Next, Returned

LEMMA RootedInit ==
  ASSUME Init
  PROVE  Rooted /\ Caused
  <1>1. /\ \A t \in Threads : th[t].pc = "new" /\ th[t].mode = "run" /\ th[t].err = None
        /\ raised = {} /\ local = None /\ first = None /\ 0 \in Threads
    BY DEF Init, Fresh
  <1>2. ~Leaving /\ None # "abort" /\ None \notin Trailing
    BY <1>1 DEF Leaving, Trailing
  <1>3. Rooted
    BY <1>1, <1>2 DEF Rooted
  <1>4. Caused
    BY <1>1, <1>2 DEF Caused, Reaches
  <1> QED
    BY <1>3, <1>4

\* The first error in time wins: the caller gets a cause, or a panic, and not an error met
\* while tearing down, as long as no scenario lets the sink fail in an abort and the error
\* of the source's flush or of a spawn, which are offered late, be overtaken by it.
THEOREM ThreadedRootCause ==
  ASSUME \A s \in Scenarios : "abort" \in s.errors => s.errors \cap {"sourceFlush", "spawn"} = {}
  PROVE  Spec => []RootCause
  <1>1. Init => Rooted /\ (NoOvertaking => Caused)
    BY RootedInit
  <1>2. Base /\ Known /\ Tidy /\ Rooted /\ (NoOvertaking => Caused) /\ [Next]_vars
          => (Rooted /\ (NoOvertaking => Caused))'
    BY RootedStep, CausedStep
  <1>3. ASSUME Base, Decided, Rooted, NoOvertaking => Caused
        PROVE  RootCause
    <2> SUFFICES ASSUME main = "ended", raised \cap Causes # {}
                 PROVE  result \in Causes \cup {"panic"}
      BY DEF RootCause
    <2>1. Caused
      BY <1>3 DEF Base, Types, NoOvertaking, Errors
    <2>2. result \in {"panic", Outcome}
      BY <1>3 DEF Decided
    <2>3. \A t \in Threads : th[t].pc = "ended"
      BY <1>3, LateEnded DEF Late
    <2>4. ~Heading(Causes) /\ None \notin Causes
      BY <2>3 DEF Heading, Causes
    <2>5. panics # {} \/ first \in Causes
      BY <2>1, <2>4 DEF Caused, Reaches, Unwinds
    <2> QED
      BY <2>2, <2>4, <2>5 DEF Outcome
  <1> QED
    BY <1>1, <1>2, <1>3, BaseInvariant, ErrorsInvariant, ItemsInvariant, PTL DEF Spec

===============================================================================
