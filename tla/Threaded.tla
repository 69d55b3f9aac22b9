------------------------------ MODULE Threaded ------------------------------
(***************************************************************************)
(* One run under the ThreadedDriver.  Thread 0 owns the source (Runner and *)
(* source_loop), threads 1..Workers each own the chain behind one `buffer` *)
(* edge (ChannelSegment), thread Workers owns the sink, and the calling    *)
(* thread spawns them, joins them and decides the result.  Edge e leads    *)
(* from thread e-1 to thread e and is used here as BoundedChannel          *)
(* describes it; Edge.tla shows that src/edge.rs implements that.          *)
(*                                                                         *)
(* A thread's chain is one stage and its outlet (the sender of the next    *)
(* edge, or the sink).  Each call into user code may fail or panic where   *)
(* the scenario's errors and panics allow it, MaxFaults times in a run.  A *)
(* thread the driver could not spawn is torn down by the calling thread:   *)
(* its steps are then the calling thread's, which waits for them.          *)
(***************************************************************************)
EXTENDS Naturals, Sequences, FiniteSets

CONSTANTS Workers,    \* number of buffer edges, and of segments
          Scenarios   \* what one run may be like: see Scenario

ASSUME WorkersAssumption == Workers \in Nat \ {0}

Threads == 0..Workers
Segments == 1..Workers
None == "none"

ErrorSites == {"pull", "item", "skip", "tick", "flush", "sourceFlush", "write",
               "sinkFlush", "sinkClose", "abort", "sourceClose", "dlqFlush",
               "dlqClose", "spawn"}
PanicSites == {"pull", "item", "tick", "flush", "write", "sinkFlush", "sinkClose",
               "abort", "selfAbort", "drop", "sourceClose", "dlqFlush", "dlqClose",
               "started", "observer"}

\* The capacity of the edges (0 is a hand-off), the bounds of a run, and the call
\* sites that may fail, and panic.
Scenario == [capacity : Nat, items : Nat, ticks : Nat, faults : Nat,
             errors : SUBSET ErrorSites, panics : SUBSET PanicSites]

ASSUME ScenariosAssumption == Scenarios \subseteq Scenario

VARIABLES
  scenario,  \* the one this run is, chosen once
  th,        \* per thread: pc, op, mode, err (to be offered), held, attempts
  edge,      \* per edge: buf, rx and tx (the two ends still exist)
  first,     \* SharedFirst
  local,     \* source_loop's FirstError
  flushed, closed, srcClosed,   \* the once-only guards of sink_fn and Runner
  cancelled, byCancel,          \* the cancel flag, and whether the pump saw it
  main,      \* where the calling thread is
  next,      \* the thread it spawns or drops next
  result,    \* what run returned
  pulled, skipped, written,     \* items pulled, skipped by policy, and in the sink
  calls,     \* history: lifecycle calls in order
  raised,    \* history: errors raised outside a Drop
  panics,    \* threads whose panic a join will see
  ticks, faults

guards == <<flushed, closed, srcClosed>>
flow == <<pulled, skipped, written>>
caller == <<main, next, result>>
vars == <<scenario, th, edge, first, local, guards, cancelled, byCancel, caller, flow, calls,
          raised, panics, ticks, faults>>

Capacity == scenario.capacity
MaxItems == scenario.items
MaxTicks == scenario.ticks
MaxFaults == scenario.faults
Errors == scenario.errors
Panics == scenario.panics

Canonical == <<"flush", "close", "sourceClose", "dlqFlush", "dlqClose">>
Limit == IF Capacity = 0 THEN 1 ELSE Capacity

Op(k) == [kind |-> k, item |-> 0]
Item(n) == [kind |-> "item", item |-> n]
Closing(op) == op.kind \in {"close", "abort"}

Fresh == [pc |-> "new", op |-> Op("tick"), mode |-> "run", err |-> None,
          held |-> FALSE, attempts |-> 0]

Init ==
  /\ scenario \in Scenarios
  /\ th = [t \in Threads |-> Fresh]
  /\ edge = [e \in Segments |-> [buf |-> <<>>, rx |-> TRUE, tx |-> TRUE]]
  /\ first = None /\ local = None
  /\ flushed = FALSE /\ closed = FALSE /\ srcClosed = FALSE
  /\ cancelled = FALSE /\ byCancel = FALSE
  /\ main = "start" /\ next = Workers /\ result = None
  /\ pulled = 0 /\ skipped = 0 /\ written = <<>>
  /\ calls = <<>> /\ raised = {} /\ panics = {}
  /\ ticks = 0 /\ faults = 0

-----------------------------------------------------------------------------
(* What a thread does when the operation it gave to its chain returns.     *)

At(t, p) == th[t].pc = p
Go(t, s) == th' = [th EXCEPT ![t] = s]
Outlet(t) == IF t = Workers THEN "sink" ELSE "send"

(* ChannelSegment::abort, and the abort of source_loop.                    *)
Abort(t) == [th[t] EXCEPT !.mode = "abort", !.op = Op("abort"), !.pc = Outlet(t),
                          !.err = None]

(* Ok: the runner goes on pulling, closes after a flush, or closes the     *)
(* rest; a segment goes on receiving, or ends after a close or an abort.   *)
OkState(t) ==
  LET s == th[t] IN
  IF t = 0
  THEN CASE s.mode = "run" -> [s EXCEPT !.pc = "loop"]
         [] s.mode = "finish" /\ s.op.kind = "flush" ->
              [s EXCEPT !.op = Op("close"), !.pc = Outlet(t)]
         [] OTHER -> [s EXCEPT !.pc = "closeRest"]
  ELSE [s EXCEPT !.pc = IF s.mode = "run" /\ ~Closing(s.op) THEN "loop" ELSE "end"]

(* Err: after its error (if any) was offered, a thread gives up.           *)
GiveUp(t) ==
  LET s == th[t] IN
  CASE s.mode = "run" /\ (t = 0 \/ ~Closing(s.op)) -> Abort(t)
    [] s.mode = "finish" /\ s.op.kind = "flush" ->
         [s EXCEPT !.op = Op("abort"), !.pc = Outlet(t)]
    [] s.mode = "finish" /\ s.op.kind # "flush" -> [s EXCEPT !.pc = "closeRest"]
    [] OTHER -> [s EXCEPT !.pc = "end", !.err = None]

(* A panic: a thread that has not torn its side down yet (it is `live`)    *)
(* does so in Drop.                                                        *)
PanicState(t) ==
  LET s == th[t] IN
  IF s.mode = "abort" /\ (t > 0 \/ s.pc = "offer")
  THEN [s EXCEPT !.pc = "end", !.err = None, !.held = FALSE]
  ELSE [s EXCEPT !.pc = "drop", !.mode = "drop", !.err = None, !.held = FALSE]

Bound(S, site) == site \in S /\ faults < MaxFaults /\ faults' = faults + 1
Raise(site) == Bound(Errors, site)
Calm == UNCHANGED <<raised, panics, faults>>

(* A segment that fails in its loop drops its receiver first, so that a    *)
(* blocked upstream sender wakes up and stops; what is buffered is lost.   *)
LoseRx(t) ==
  IF t > 0 /\ th[t].mode = "run"
  THEN edge' = [edge EXCEPT ![t].rx = FALSE, ![t].buf = <<>>]
  ELSE UNCHANGED edge

Disconnected(t) == Go(t, GiveUp(t)) /\ LoseRx(t) /\ Calm /\ UNCHANGED local

(* Halt::Failed: in a segment's loop and its own abort the error goes to   *)
(* the shared slot, in Runner::finish to the local one, in Drop nowhere.   *)
Failed(t, e) ==
  /\ LoseRx(t)
  /\ UNCHANGED panics
  /\ CASE th[t].mode \in {"run", "abort"} ->
            /\ Go(t, [th[t] EXCEPT !.pc = "offer", !.err = e, !.held = FALSE])
            /\ raised' = raised \cup {e}
            /\ UNCHANGED local
       [] th[t].mode = "finish" ->
            /\ Go(t, GiveUp(t))
            /\ local' = IF local = None THEN e ELSE local
            /\ raised' = raised \cup {e}
       [] th[t].mode = "drop" ->
            /\ Go(t, [th[t] EXCEPT !.pc = "end", !.held = FALSE])
            /\ UNCHANGED <<local, raised>>

Panicked(t, site) ==
  /\ Bound(Panics, site)
  /\ Go(t, PanicState(t))
  /\ panics' = IF th[t].mode = "drop" THEN panics ELSE panics \cup {t}
  /\ UNCHANGED <<edge, local, raised>>

Fine(t, s) == Go(t, s) /\ Calm /\ UNCHANGED <<edge, local>>

-----------------------------------------------------------------------------
(* The chain: the thread's stage, then the next edge or the sink.          *)

(* Process, Tick and Flush reach the stage.  Its error is handled by its   *)
(* policy: skip the item, or fail the run.                                 *)
Stage(t) ==
  /\ At(t, "stage")
  /\ LET k == th[t].op.kind
         site == IF t = 0 /\ k = "flush" THEN "sourceFlush" ELSE k
     IN \/ Fine(t, [th[t] EXCEPT !.pc = Outlet(t)]) /\ UNCHANGED skipped
        \/ /\ k = "item" /\ Raise("skip") /\ Go(t, OkState(t))
           /\ skipped' = skipped + 1
           /\ UNCHANGED <<edge, local, raised, panics>>
        \/ Raise(site) /\ Failed(t, site) /\ UNCHANGED skipped
        \/ Panicked(t, k) /\ UNCHANGED skipped
  /\ UNCHANGED <<first, guards, cancelled, byCancel, caller, pulled, written, calls, ticks>>

(* Variants: nothing waits for room; there is always room; a hand-off does *)
(* not wait until its message is taken.                                    *)
SendBestEffort(t) ==
  /\ At(t, "send")
  /\ \/ /\ edge[t + 1].rx /\ Len(edge[t + 1].buf) < Limit
        /\ edge' = [edge EXCEPT ![t + 1].buf = Append(@, th[t].op)]
        /\ Go(t, OkState(t)) /\ Calm /\ UNCHANGED local
     \/ /\ edge[t + 1].rx => Len(edge[t + 1].buf) >= Limit
        /\ Fine(t, OkState(t))
  /\ UNCHANGED <<first, guards, cancelled, byCancel, caller, flow, calls, ticks>>

SendUnbounded(t) ==
  /\ At(t, "send")
  /\ \/ /\ edge[t + 1].rx
        /\ edge' = [edge EXCEPT ![t + 1].buf = Append(@, th[t].op)]
        /\ Go(t, OkState(t)) /\ Calm /\ UNCHANGED local
     \/ ~edge[t + 1].rx /\ Fine(t, OkState(t))
  /\ UNCHANGED <<first, guards, cancelled, byCancel, caller, flow, calls, ticks>>

NoHandOff(t) == OkState(t)
Sent(t) == IF Capacity = 0 THEN [th[t] EXCEPT !.pc = "handoff"] ELSE OkState(t)

(* send(): items, flushes, closes and aborts wait for room, a tick is      *)
(* dropped when the edge may be full; a closed edge is an error except to  *)
(* an abort.                                                               *)
Send(t) ==
  LET op == th[t].op  e == edge[t + 1] IN
  /\ At(t, "send")
  /\ \/ /\ e.rx /\ Len(e.buf) < Limit /\ (op.kind = "tick" => Capacity > 0)
        /\ edge' = [edge EXCEPT ![t + 1].buf = Append(@, op)]
        /\ Go(t, Sent(t))
        /\ Calm /\ UNCHANGED local
     \/ /\ op.kind = "tick" /\ e.rx /\ (Capacity = 0 \/ Len(e.buf) + 1 >= Limit)
        /\ Fine(t, OkState(t))
     \/ ~e.rx /\ op.kind # "abort" /\ Disconnected(t)
     \/ ~e.rx /\ op.kind = "abort" /\ Fine(t, OkState(t))
  /\ UNCHANGED <<first, guards, cancelled, byCancel, caller, flow, calls, ticks>>

HandedOff(t) ==
  /\ At(t, "handoff")
  /\ edge[t + 1].buf = <<>>
  /\ Fine(t, OkState(t))
  /\ UNCHANGED <<first, guards, cancelled, byCancel, caller, flow, calls, ticks>>

(* Where a sink call made by an Abort comes from.                          *)
AbortSite(t) == CASE th[t].mode = "run" -> "abort"
                  [] th[t].mode = "abort" -> "selfAbort"
                  [] OTHER -> "drop"

SinkOutcome(t, site) ==
  \/ Fine(t, OkState(t))
  \/ Raise(site) /\ Failed(t, site)
  \/ Panicked(t, site)

(* sink_fn: write, or flush and close at most once each.                   *)
SinkItem(t) ==
  /\ At(t, "sink") /\ th[t].op.kind \in {"item", "tick"}
  /\ \/ th[t].op.kind = "tick" /\ Fine(t, OkState(t)) /\ UNCHANGED written
     \/ /\ th[t].op.kind = "item" /\ Fine(t, OkState(t))
        /\ written' = Append(written, th[t].op.item)
     \/ /\ th[t].op.kind = "item"
        /\ (Raise("write") /\ Failed(t, "write")) \/ Panicked(t, "write")
        /\ UNCHANGED written
  /\ UNCHANGED <<first, guards, cancelled, byCancel, caller, pulled, skipped, calls, ticks>>

SinkFlush(t) ==
  /\ At(t, "sink") /\ th[t].op.kind = "flush" /\ ~flushed
  /\ flushed' = TRUE /\ calls' = Append(calls, "flush")
  /\ SinkOutcome(t, "sinkFlush")
  /\ UNCHANGED <<first, closed, srcClosed, cancelled, byCancel, caller, flow, ticks>>

SinkClose(t) ==
  /\ At(t, "sink") /\ th[t].op.kind = "close" /\ ~closed
  /\ closed' = TRUE /\ calls' = Append(calls, "close")
  /\ SinkOutcome(t, "sinkClose")
  /\ UNCHANGED <<first, flushed, srcClosed, cancelled, byCancel, caller, flow, ticks>>

(* Abort at the sink: both calls, unless tried before; the first error is  *)
(* kept, and the observer hears of the second.                             *)
AbortFlush(t) ==
  /\ At(t, "sink") /\ th[t].op.kind = "abort"
  /\ \/ /\ flushed /\ Fine(t, [th[t] EXCEPT !.pc = "sinkClose"])
        /\ UNCHANGED <<flushed, calls>>
     \/ /\ ~flushed /\ flushed' = TRUE /\ calls' = Append(calls, "flush")
        /\ \/ Fine(t, [th[t] EXCEPT !.pc = "sinkClose"])
           \/ /\ Raise("abort")
              /\ Go(t, [th[t] EXCEPT !.pc = "sinkClose", !.held = TRUE])
              /\ UNCHANGED <<edge, local, raised, panics>>
           \/ Panicked(t, AbortSite(t))
  /\ UNCHANGED <<first, closed, srcClosed, cancelled, byCancel, caller, flow, ticks>>

AbortClose(t) ==
  /\ At(t, "sinkClose")
  /\ closed' = TRUE
  /\ calls' = IF closed THEN calls ELSE Append(calls, "close")
  /\ \/ ~th[t].held /\ Fine(t, OkState(t))
     \/ th[t].held /\ Failed(t, "abort") /\ UNCHANGED faults
     \/ ~closed /\ Raise("abort") /\ Failed(t, "abort")
     \/ ~closed /\ Panicked(t, AbortSite(t))
  /\ UNCHANGED <<first, flushed, srcClosed, cancelled, byCancel, caller, flow, ticks>>

-----------------------------------------------------------------------------
(* The threads' loops.                                                     *)

Enter(t, op) == [th[t] EXCEPT !.op = op,
                              !.pc = IF Closing(op) THEN Outlet(t) ELSE "stage"]

(* Runner::pump on the source thread: look at the cancel flag, pull.       *)
Pump ==
  /\ At(0, "loop")
  /\ LET finish == [Enter(0, Op("flush")) EXCEPT !.mode = "finish"] IN
     \/ /\ cancelled /\ byCancel' = TRUE
        /\ Fine(0, finish) /\ UNCHANGED <<pulled, ticks>>
     \/ /\ ~cancelled /\ UNCHANGED byCancel
        /\ \/ /\ pulled < MaxItems /\ pulled' = pulled + 1
              /\ Fine(0, Enter(0, Item(pulled + 1))) /\ UNCHANGED ticks
           \/ /\ ticks < MaxTicks /\ ticks' = ticks + 1
              /\ Fine(0, Enter(0, Op("tick"))) /\ UNCHANGED pulled
           \/ Fine(0, finish) /\ UNCHANGED <<pulled, ticks>>
           \/ Raise("pull") /\ Failed(0, "pull") /\ UNCHANGED <<pulled, ticks>>
           \/ Panicked(0, "pull") /\ UNCHANGED <<pulled, ticks>>
  /\ UNCHANGED <<first, guards, cancelled, caller, skipped, written, calls>>

(* ChannelSegment::run: the next operation, an idle tick, or - when the    *)
(* upstream thread went without closing the edge - an abort of its own.    *)
Recv(t) ==
  /\ t > 0 /\ At(t, "loop")
  /\ \/ /\ edge[t].buf # <<>>
        /\ edge' = [edge EXCEPT ![t].buf = Tail(@)]
        /\ Go(t, Enter(t, Head(edge[t].buf)))
        /\ UNCHANGED ticks
     \/ /\ edge[t].buf = <<>> /\ edge[t].tx /\ ticks < MaxTicks
        /\ ticks' = ticks + 1
        /\ Go(t, Enter(t, Op("tick")))
        /\ UNCHANGED edge
     \/ /\ edge[t].buf = <<>> /\ ~edge[t].tx
        /\ LoseRx(t)
        /\ Go(t, Abort(t))
        /\ UNCHANGED ticks
  /\ Calm
  /\ UNCHANGED <<first, local, guards, cancelled, byCancel, caller, flow, calls>>

(* Variant: the last error offered wins.                                   *)
KeepLast(e) == e
Keep(e) == IF first = None THEN e ELSE first

(* SharedFirst::offer; the observer hears of an error that comes later,    *)
(* and may panic.  Then the thread gives up, or ends.                      *)
Offer(t) ==
  /\ At(t, "offer")
  /\ \/ /\ first' = Keep(th[t].err)
        /\ Fine(t, GiveUp(t))
     \/ first # None /\ Panicked(t, "observer") /\ UNCHANGED first
  /\ UNCHANGED <<guards, cancelled, byCancel, caller, flow, calls, ticks>>

(* Variant: the source does not wait for the segments.                     *)
CloseRestAtOnce ==
  /\ At(0, "closeRest")
  /\ edge' = [edge EXCEPT ![1].tx = FALSE]
  /\ Go(0, [th[0] EXCEPT !.pc = "closeSource"])
  /\ Calm
  /\ UNCHANGED <<first, local, guards, cancelled, byCancel, caller, flow, calls, ticks>>

(* Runner::close_rest: drop the chain, wait for every segment to end.      *)
CloseRest ==
  /\ At(0, "closeRest")
  /\ edge' = [edge EXCEPT ![1].tx = FALSE]
  /\ Go(0, [th[0] EXCEPT !.pc = "wait"])
  /\ Calm
  /\ UNCHANGED <<first, local, guards, cancelled, byCancel, caller, flow, calls, ticks>>

SegmentsDone ==
  /\ At(0, "wait")
  /\ \A t \in Segments : At(t, "ended")
  /\ Fine(0, [th[0] EXCEPT !.pc = "closeSource"])
  /\ UNCHANGED <<first, guards, cancelled, byCancel, caller, flow, calls, ticks>>

(* Source::close, and then source_loop offers what it kept.                *)
Closed(e) == IF e # None /\ th[0].mode # "drop"
             THEN [th[0] EXCEPT !.pc = "offer", !.err = e, !.mode = "abort"]
             ELSE [th[0] EXCEPT !.pc = "end"]

CloseSource ==
  /\ At(0, "closeSource")
  /\ srcClosed' = TRUE
  /\ calls' = IF srcClosed THEN calls ELSE Append(calls, "sourceClose")
  /\ \/ Go(0, Closed(local)) /\ UNCHANGED <<local, raised, panics, faults>>
     \/ /\ ~srcClosed /\ Raise("sourceClose")
        /\ local' = IF local = None THEN "sourceClose" ELSE local
        /\ raised' = IF th[0].mode = "drop" THEN raised ELSE raised \cup {"sourceClose"}
        /\ Go(0, Closed(local')) /\ UNCHANGED panics
     \/ /\ ~srcClosed /\ Panicked(0, "sourceClose")
  /\ UNCHANGED <<edge, first, flushed, closed, cancelled, byCancel, caller, flow, ticks>>

Attempts(t) == IF t = 0 THEN 6 ELSE 3

(* Drop for Runner and ChannelSegment: abort again and again, containing   *)
(* further panics.                                                         *)
Drop(t) ==
  /\ At(t, "drop")
  /\ Fine(t, IF th[t].attempts = Attempts(t)
             THEN [th[t] EXCEPT !.pc = "end"]
             ELSE [th[t] EXCEPT !.attempts = @ + 1, !.op = Op("abort"),
                                !.pc = IF t = 0 /\ ~edge[1].tx THEN "closeSource"
                                                              ELSE Outlet(t)])
  /\ UNCHANGED <<first, guards, cancelled, byCancel, caller, flow, calls, ticks>>

(* Variant: a thread that ends but keeps its receiver.                     *)
EndKeepsReceiver(t) ==
  /\ At(t, "end")
  /\ Go(t, [th[t] EXCEPT !.pc = "ended", !.op = Op("tick"), !.attempts = 0])
  /\ edge' = [e \in Segments |-> [edge[e] EXCEPT !.tx = @ /\ e # t + 1]]
  /\ Calm
  /\ UNCHANGED <<first, local, guards, cancelled, byCancel, caller, flow, calls, ticks>>

(* The thread's fields are dropped: its receiver, its chain with the next  *)
(* sender, and its end of the done channel.                                *)
End(t) ==
  /\ At(t, "end")
  /\ Go(t, [th[t] EXCEPT !.pc = "ended", !.op = Op("tick"), !.attempts = 0])
  /\ edge' = [e \in Segments |->
               [buf |-> IF e = t THEN <<>> ELSE edge[e].buf,
                rx |-> edge[e].rx /\ e # t,
                tx |-> edge[e].tx /\ e # t + 1]]
  /\ Calm
  /\ UNCHANGED <<first, local, guards, cancelled, byCancel, caller, flow, calls, ticks>>

-----------------------------------------------------------------------------
(* The calling thread.                                                     *)

OtherVars == <<edge, local, guards, cancelled, byCancel, flow, ticks>>

(* Event::Started, before any thread exists.  A panic unwinds through run: *)
(* the runner was declared last and is dropped first.  The segments would  *)
(* be dropped after it, but its Drop waits for them: see Terminates.       *)
Started ==
  /\ main = "start"
  /\ \/ main' = "spawn" /\ UNCHANGED <<th, faults>>
     \/ /\ Bound(Panics, "started")
        /\ main' = "unwindRunner"
        /\ Go(0, [th[0] EXCEPT !.pc = "drop", !.mode = "drop"])
  /\ UNCHANGED <<next, result, first, calls, raised, panics, OtherVars>>

(* spawn_segments, sink first, and then the source thread.  A thread that  *)
(* cannot be spawned is dropped on the spot.                               *)
Spawn ==
  /\ main = "spawn"
  /\ \/ /\ Go(next, [th[next] EXCEPT !.pc = "loop"])
        /\ IF next = 0 THEN main' = "join" /\ UNCHANGED next
                       ELSE next' = next - 1 /\ UNCHANGED main
        /\ Calm
     \/ /\ Raise("spawn")
        /\ Go(next, [th[next] EXCEPT !.pc = "drop", !.mode = "drop"])
        /\ main' = "spawnFailed"
        /\ raised' = raised \cup {"spawn"}
        /\ UNCHANGED <<next, panics>>
  /\ UNCHANGED <<result, first, calls, OtherVars>>

SpawnFailed ==
  /\ main = "spawnFailed" /\ At(next, "ended")
  /\ first' = Keep("spawn")
  /\ main' = IF next = 0 THEN "join" ELSE "dropRest"
  /\ UNCHANGED <<th, next, result, calls, raised, panics, faults, OtherVars>>

(* The segments not yet spawned, and the runner last, are dropped in turn. *)
DropRest ==
  /\ main = "dropRest" /\ At(next, "ended")
  /\ IF next = 0
     THEN main' = "join" /\ UNCHANGED <<th, next>>
     ELSE /\ next' = next - 1
          /\ Go(next - 1, [th[next - 1] EXCEPT !.pc = "drop", !.mode = "drop"])
          /\ UNCHANGED main
  /\ UNCHANGED <<result, first, calls, raised, panics, faults, OtherVars>>

Join ==
  /\ main = "join"
  /\ \A t \in Threads : At(t, "ended")
  /\ main' = "dlqFlush"
  /\ UNCHANGED <<th, next, result, first, calls, raised, panics, faults, OtherVars>>

(* Dlq::finish on the calling thread: both calls, the first error offered. *)
(* A panic of either ends run with it.                                     *)
DlqFlush ==
  /\ main = "dlqFlush"
  /\ calls' = Append(calls, "dlqFlush")
  /\ \/ main' = "dlqClose" /\ UNCHANGED <<result, first, raised, faults>>
     \/ /\ Raise("dlqFlush") /\ raised' = raised \cup {"dlqFlush"}
        /\ main' = "dlqClose" /\ first' = Keep("dlqFlush") /\ UNCHANGED result
     \/ /\ Bound(Panics, "dlqFlush")
        /\ main' = "ended" /\ result' = "panic" /\ UNCHANGED <<first, raised>>
  /\ UNCHANGED <<th, next, panics, OtherVars>>

DlqClose ==
  /\ main = "dlqClose"
  /\ calls' = Append(calls, "dlqClose")
  /\ \/ main' = "decide" /\ UNCHANGED <<result, first, raised, faults>>
     \/ /\ Raise("dlqClose") /\ raised' = raised \cup {"dlqClose"}
        /\ main' = "decide" /\ first' = Keep("dlqClose") /\ UNCHANGED result
     \/ /\ Bound(Panics, "dlqClose")
        /\ main' = "ended" /\ result' = "panic" /\ UNCHANGED <<first, raised>>
  /\ UNCHANGED <<th, next, panics, OtherVars>>

(* Variant: an error outranks a panic.                                     *)
ErrorBeforePanic ==
  CASE first # None -> first
    [] first = None /\ panics # {} -> "panic"
    [] first = None /\ panics = {} /\ byCancel -> "cancelled"
    [] OTHER -> "ok"

(* A panic is resumed; otherwise the first error, Cancelled, or Ok.        *)
Outcome ==
  CASE panics # {} -> "panic"
    [] panics = {} /\ first # None -> first
    [] panics = {} /\ first = None /\ byCancel -> "cancelled"
    [] OTHER -> "ok"

Decide ==
  /\ main = "decide"
  /\ main' = "ended"
  /\ result' = Outcome
  /\ UNCHANGED <<th, next, first, calls, raised, panics, faults, OtherVars>>

Cancel ==
  /\ ~cancelled /\ main # "ended"
  /\ cancelled' = TRUE
  /\ UNCHANGED <<scenario, th, edge, first, local, guards, byCancel, caller, flow, calls,
                 raised, panics, ticks, faults>>

(* run has returned.                                                       *)
Returned == main = "ended" /\ UNCHANGED vars

-----------------------------------------------------------------------------
SinkStep(t) == \/ SinkItem(t) \/ SinkFlush(t) \/ SinkClose(t)
               \/ AbortFlush(t) \/ AbortClose(t)

SourceStep == Pump \/ CloseRest \/ SegmentsDone \/ CloseSource

ThreadStep(t) ==
  /\ \/ Stage(t) \/ Offer(t) \/ Drop(t) \/ End(t)
     \/ t < Workers /\ (Send(t) \/ HandedOff(t))
     \/ t = Workers /\ SinkStep(t)
     \/ t > 0 /\ Recv(t)
     \/ t = 0 /\ SourceStep
  /\ UNCHANGED scenario

CallerStep ==
  /\ \/ Started \/ Spawn \/ SpawnFailed \/ DropRest
     \/ Join \/ DlqFlush \/ DlqClose \/ Decide
  /\ UNCHANGED scenario

Next == (\E t \in Threads : ThreadStep(t)) \/ CallerStep \/ Cancel \/ Returned

Spec == Init /\ [][Next]_vars

(* Threads are scheduled, and user code and the source return.             *)
Fairness == (\A t \in Threads : WF_vars(ThreadStep(t))) /\ WF_vars(CallerStep)

FairSpec == Spec /\ Fairness

-----------------------------------------------------------------------------
Ops == {Op(k) : k \in {"tick", "flush", "close", "abort"}}
         \cup {Item(n) : n \in 1..MaxItems}

(* Every variable keeps its type.                                          *)
TypeOK ==
  /\ scenario \in Scenarios
  /\ \A t \in Threads :
       /\ th[t].pc \in {"new", "loop", "stage", "send", "handoff", "sink", "sinkClose",
                        "offer", "closeRest", "wait", "closeSource", "drop", "end", "ended"}
       /\ th[t].op \in Ops
       /\ th[t].mode \in {"run", "finish", "abort", "drop"}
       /\ th[t].err \in ErrorSites \cup {None}
       /\ th[t].held \in BOOLEAN
       /\ th[t].attempts \in 0..Attempts(t)
  /\ \A e \in Segments :
       /\ edge[e].buf \in Seq(Ops) /\ Len(edge[e].buf) <= Limit
       /\ edge[e].rx \in BOOLEAN /\ edge[e].tx \in BOOLEAN
  /\ first \in ErrorSites \cup {None} /\ local \in ErrorSites \cup {None}
  /\ flushed \in BOOLEAN /\ closed \in BOOLEAN /\ srcClosed \in BOOLEAN
  /\ cancelled \in BOOLEAN /\ byCancel \in BOOLEAN
  /\ main \in {"start", "spawn", "spawnFailed", "dropRest", "unwindRunner", "join",
               "dlqFlush", "dlqClose", "decide", "ended"}
  /\ next \in Threads
  /\ result \in ErrorSites \cup {None, "ok", "cancelled", "panic"}
  /\ pulled \in 0..MaxItems /\ skipped \in 0..MaxItems /\ written \in Seq(1..MaxItems)
  /\ calls \in Seq({Canonical[i] : i \in 1..5})
  /\ raised \subseteq ErrorSites /\ panics \subseteq Threads
  /\ ticks \in Nat /\ faults \in Nat

(* The sink is flushed, then closed, then the source closed, then the      *)
(* dead-letter sink finished, each at most once, although four threads are *)
(* involved; and by the time run returns, all of it has happened.          *)
TornDown ==
  /\ calls = SubSeq(Canonical, 1, Len(calls))
  /\ main = "ended" => calls = Canonical

(* The items reach the sink in source order, none twice, whatever fails;   *)
(* and a run that reports success or a cancellation has lost no item and   *)
(* swallowed no error.                                                     *)
Lossless ==
  /\ \A i, j \in 1..Len(written) : i < j => written[i] < written[j]
  /\ result \in {"ok", "cancelled"}
       => (raised = {} /\ panics = {} /\ Len(written) + skipped = pulled)

\* Errors that start a failure, as opposed to those met while tearing down.
Causes == {"pull", "item", "tick", "flush", "sourceFlush", "write", "sinkFlush",
           "sinkClose", "spawn"}

(* "The first error in time wins": the caller never gets an error raised   *)
(* by the teardown while the error that caused the teardown is reported as *)
(* a consequence.                                                          *)
RootCause ==
  (main = "ended" /\ raised \cap Causes # {}) => result \in Causes \cup {"panic"}

(* A panic of a worker is never turned into an error or a success.         *)
PanicWins == (main = "ended" /\ panics # {}) => result = "panic"

(* A slow sink slows the source: between the source and the sink there is  *)
(* at most what the edges hold and one item in each thread.                *)
InFlight ==
  faults = 0 => pulled - (Len(written) + skipped) <= Workers * Capacity + Workers + 1

(* Whatever fails wherever, run returns.                                   *)
Terminates == <>(main = "ended")
=============================================================================
