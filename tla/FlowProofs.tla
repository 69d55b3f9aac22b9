----------------------------- MODULE FlowProofs -----------------------------
(***************************************************************************)
(* Proofs about Flow, for every chain of stages, every retry policy and    *)
(* any number of items, idle answers and failures: nothing happens to the  *)
(* items once something failed, a pull that switches sources grants the    *)
(* idle interval once, the agenda keeps the shape of the calls under way,  *)
(* both halves of the tee see the same calls and the same end, the tally   *)
(* and the dead letters agree with what happened, the chain is what the    *)
(* builder's calls describe, and no item is lost, doubled or overtaken.    *)
(***************************************************************************)
EXTENDS Flow, SequenceTheorems, FiniteSetTheorems, WellFoundedInduction, TLAPS

-----------------------------------------------------------------------------
(* The inductive invariant. *)

Counted == tally \in Tally /\ written \in Nat

\* The logs are sequences, of whatever entries.
Logged == \E S : sinks \in [1..2 -> Seq(S)]

\* The calls of an abort: it goes down the chain and carries no item.
AbortTasks ==
    [op : {"abort", "return"}, at : Nat, item : {<<>>}, attempt : {0, 1}, left : {0}]

\* Where a failure leaves the run: aborting, or with nothing under way.
Halted ==
    /\ first_error # NoFailure => phase \in {"abort", "rest", "ended"}
    /\ phase \in {"built", "abort", "rest", "ended"} => written = 0
    /\ phase \in {"built", "switch", "rest", "ended"} => agenda = <<>>
    /\ phase = "abort" => agenda \in Seq(AbortTasks)

FlowInv == phase \in Phases /\ Counted /\ Logged /\ Halted

-----------------------------------------------------------------------------
(* Lemmas about the operators that several actions use. *)

\* A call of Runner that aborts has only tasks of an abort.
LEMMA CallAborts == Call("abort", <<>>) \in Seq(AbortTasks)
  <1> DEFINE first == [Task("abort", 1) EXCEPT !.item = <<>>, !.attempt = 1]
             last == Task("return", 0)
  <1>1. first \in AbortTasks /\ last \in AbortTasks
    BY DEF Task, AbortTasks
  <1> HIDE DEF first, last
  <1>2. <<first, last>> \in Seq(AbortTasks)
    BY <1>1
  <1> QED
    BY <1>2 DEF Call, first, last

\* Whatever a halt interrupts, it leaves an abort or nothing under way.
LEMMA HaltHalts ==
  ASSUME phase \in Phases \ {"rest", "ended"}, NEW error, Halt(error)
  PROVE  phase' \in Phases /\ written' = 0 /\ Halted'
  <1>1. CASE phase \in {"pump", "switch", "flush"}
    BY <1>1, CallAborts DEF Halt, Halted, Phases
  <1>2. CASE phase \notin {"pump", "switch", "flush"}
    BY <1>2 DEF Halt, Halted, Phases
  <1> QED
    BY <1>1, <1>2

\* A flush or a close of the tee adds no write to a log.
LEMMA TeeWritesNothing ==
  ASSUME NEW S, NEW logs \in [1..2 -> Seq(S)],
         NEW call \in {"flush", "close"}, NEW failing
  PROVE  /\ \E R : Tee(logs, call, failing) \in [1..2 -> Seq(R)]
         /\ \A h \in 1..2 :
              {k \in DOMAIN Tee(logs, call, failing)[h] :
                  Tee(logs, call, failing)[h][k].call = "write"}
                = {k \in DOMAIN logs[h] : logs[h][k].call = "write"}
  <1> DEFINE R == S \cup {Entry(call, <<>>)}
             both == Tee(logs, call, failing)
  <1>1. Entry(call, <<>>) \in R /\ \A h \in 1..2 : logs[h] \in Seq(R)
    BY SeqMonotonic
  <1> HIDE DEF R
  <1>2. \A h \in 1..2 : both[h] = Append(logs[h], Entry(call, <<>>))
    BY DEF Tee
  <1>3. both \in [1..2 -> Seq(R)]
    BY <1>1, AppendProperties DEF Tee
  <1>4. ASSUME NEW h \in 1..2
        PROVE  {k \in DOMAIN both[h] : both[h][k].call = "write"}
                 = {k \in DOMAIN logs[h] : logs[h][k].call = "write"}
    <2>1. both[h] = Append(logs[h], Entry(call, <<>>)) /\ logs[h] \in Seq(R)
      BY <1>1, <1>2
    <2> HIDE DEF both
    <2>2. /\ Len(both[h]) = Len(logs[h]) + 1
          /\ \A k \in 1..Len(logs[h]) : both[h][k] = logs[h][k]
          /\ both[h][Len(logs[h]) + 1] = Entry(call, <<>>)
      BY <1>1, <2>1, AppendProperties
    <2>3. DOMAIN both[h] = 1..(Len(logs[h]) + 1) /\ DOMAIN logs[h] = 1..Len(logs[h])
      BY <1>1, <1>3, <2>2, LenProperties
    <2>4. Entry(call, <<>>).call # "write"
      BY DEF Entry
    <2>5. Len(logs[h]) \in Nat
      BY <1>1, LenProperties
    <2> QED
      BY <2>2, <2>3, <2>4, <2>5
  <1> QED
    BY <1>3, <1>4

-----------------------------------------------------------------------------
(* Where the run is when something is under way. *)

Busy == phase \in {"pump", "flush", "close"}

LEMMA UnderWay ==
  ASSUME FlowInv, agenda # <<>>
  PROVE  /\ Busy \/ phase = "abort"
         /\ Busy => first_error = NoFailure
         /\ phase = "abort" => Top \in AbortTasks /\ Under \in Seq(AbortTasks)
  <1>1. phase \in {"pump", "flush", "close", "abort"}
    BY DEF FlowInv, Halted, Phases
  <1>2. phase = "abort" => Top \in AbortTasks /\ Under \in Seq(AbortTasks)
    BY HeadTailProperties DEF FlowInv, Halted, Top, Under
  <1> QED
    BY <1>1, <1>2 DEF FlowInv, Halted, Busy

\* Only an abort is under way once something failed.
LEMMA AtWork ==
  ASSUME FlowInv, agenda # <<>>, Top.op \notin {"abort", "return"}
  PROVE  Busy /\ first_error = NoFailure
  BY UnderWay DEF AbortTasks

LEMMA GoesOn ==
  ASSUME FlowInv, Busy, NEW more, Goes(more)
  PROVE  Halted' /\ phase' \in Phases /\ written' \in Nat
  BY DEF FlowInv, Busy, Goes, Halted, Phases, Counted

LEMMA StageFailed ==
  ASSUME FlowInv, Busy, NEW at, NEW item, NEW attempts, Fails(at, item, attempts)
  PROVE  Halted' /\ phase' \in Phases /\ Counted'
  <1>1. tally' \in Tally
    <2> DEFINE one == [tally EXCEPT !.errors = @ + 1]
               two == [tally EXCEPT !.errors = @ + 1, !.dead_lettered = @ + 1]
    <2>1. tally.errors + 1 \in Nat /\ tally.dead_lettered + 1 \in Nat /\ tally \in Tally
      BY DEF FlowInv, Counted, Tally
    <2>2. one \in Tally
      BY <2>1 DEF Tally
    <2>3. two = [one EXCEPT !.dead_lettered = tally.dead_lettered + 1]
      BY <2>1 DEF Tally
    <2>4. two \in Tally
      BY <2>1, <2>2, <2>3 DEF Tally
    <2>5. tally' = one \/ Route(at, item, attempts)
      BY DEF Fails
    <2>6. Route(at, item, attempts) => tally' = one \/ tally' = two
      BY DEF Route
    <2> QED
      BY <2>2, <2>4, <2>5, <2>6
  <1>2. Goes(<<>>) \/ \E error : Halt(error)
    BY DEF Fails, Route
  <1>3. CASE Goes(<<>>)
    BY <1>1, <1>3, GoesOn DEF Counted
  <1>4. ASSUME NEW error, Halt(error)
        PROVE  Halted' /\ phase' \in Phases /\ written' = 0
    BY <1>4, HaltHalts DEF Busy, Phases
  <1> QED
    BY <1>1, <1>2, <1>3, <1>4 DEF Counted

-----------------------------------------------------------------------------
(* Each step keeps the invariant, and leaves the items alone after a        *)
(* failure.                                                                 *)

Quiet ==
  first_error # NoFailure =>
     UNCHANGED <<tally, failures, dlq, WritesAt(1), WritesAt(2)>>

LEMMA SameLogs ==
  ASSUME Logged, UNCHANGED sinks
  PROVE  Logged' /\ UNCHANGED <<WritesAt(1), WritesAt(2)>>
  BY DEF Logged, WritesAt

LEMMA StageStep ==
  ASSUME FlowInv, Stages
  PROVE  FlowInv' /\ Quiet
  <1>1. agenda # <<>> /\ UNCHANGED sinks
    BY DEF Stages, MapItem, TryItem, StageItem, StageFails, GroupItem, Signal, StageSignal,
           GroupTick, GroupFlush, RetryItem, Backoff, StageIs, Outside
  <1>2. Logged' /\ UNCHANGED <<WritesAt(1), WritesAt(2)>>
    BY <1>1, SameLogs DEF FlowInv
  <1>3. CASE MapItem \/ StageItem \/ GroupItem \/ StageSignal \/ GroupTick \/ GroupFlush
    <2>1. Busy /\ first_error = NoFailure
      BY <1>1, <1>3, AtWork
      DEF MapItem, StageItem, GroupItem, StageSignal, GroupTick, GroupFlush, StageIs
    <2>2. UNCHANGED tally /\ \E more : Goes(more)
      BY <1>3 DEF MapItem, StageItem, GroupItem, StageSignal, GroupTick, GroupFlush
    <2> QED
      BY <1>2, <2>1, <2>2, GoesOn DEF FlowInv, Counted, Quiet
  <1>4. CASE TryItem \/ StageFails \/ RetryItem \/ Backoff
    <2>1. Busy /\ first_error = NoFailure
      BY <1>1, <1>4, AtWork DEF TryItem, StageFails, RetryItem, Backoff, StageIs
    <2>2. \/ \E more : Goes(more) /\ UNCHANGED tally
          \/ \E more : Goes(more) /\ tally' = [tally EXCEPT !.retries = @ + 1]
          \/ \E at, item, attempts : Fails(at, item, attempts)
      BY <1>4 DEF TryItem, StageFails, RetryItem, Backoff
    <2>3. CASE \E more : Goes(more) /\ UNCHANGED tally
      BY <2>1, <2>3, GoesOn, <1>2 DEF FlowInv, Counted, Quiet
    <2>4. CASE \E more : Goes(more) /\ tally' = [tally EXCEPT !.retries = @ + 1]
      BY <2>1, <2>4, GoesOn, <1>2 DEF FlowInv, Counted, Tally, Quiet
    <2>5. CASE \E at, item, attempts : Fails(at, item, attempts)
      BY <2>1, <2>5, StageFailed, <1>2 DEF FlowInv, Quiet
    <2> QED
      BY <2>2, <2>3, <2>4, <2>5
  <1>5. CASE Signal
    <2>1. UNCHANGED <<tally, failures, dlq>> /\ Goes(<<Task(Top.op, Top.at + 1)>>)
      BY <1>5 DEF Signal
    <2>2. Quiet
      BY <1>2, <2>1 DEF Quiet
    <2>3. CASE Busy
      BY <1>2, <2>1, <2>2, <2>3, GoesOn DEF FlowInv, Counted
    <2>4. CASE phase = "abort"
      <3>1. Top \in AbortTasks /\ Under \in Seq(AbortTasks)
        BY <1>1, <2>4, UnderWay
      <3>2. Top.op = "abort"
        BY <1>5, <3>1 DEF Signal, StageIs, AbortTasks
      <3>3. Task(Top.op, Top.at + 1) \in AbortTasks
        BY <3>1, <3>2 DEF Task, AbortTasks
      <3>4. <<Task(Top.op, Top.at + 1)>> \in Seq(AbortTasks)
        BY <3>3
      <3>5. agenda' \in Seq(AbortTasks)
        BY <2>1, <3>1, <3>4, ConcatProperties DEF Goes
      <3> QED
        BY <1>2, <2>1, <2>2, <2>4, <3>5 DEF Goes, FlowInv, Halted, Counted
    <2> QED
      BY <1>1, <2>3, <2>4, UnderWay
  <1> QED
    BY <1>3, <1>4, <1>5 DEF Stages

LEMMA SinkItemStep ==
  ASSUME FlowInv, SinkItem
  PROVE  FlowInv' /\ Quiet
  <1>1. Busy /\ first_error = NoFailure
    BY AtWork DEF SinkItem, AtEnd
  <1>2. Logged'
    <2>1. PICK S : sinks \in [1..2 -> Seq(S)]
      BY DEF FlowInv, Logged
    <2> DEFINE entry == Entry("write", Top.item)
               R == S \cup {entry}
    <2>2. entry \in R /\ \A h \in 1..2 : sinks[h] \in Seq(R)
      BY <2>1, SeqMonotonic
    <2>3. PICK n \in 0..2 :
            sinks' = [h \in 1..2 |-> IF h <= n THEN Append(sinks[h], entry) ELSE sinks[h]]
      BY DEF SinkItem
    <2> HIDE DEF entry, R
    <2>4. \A h \in 1..2 : Append(sinks[h], entry) \in Seq(R)
      BY <2>2, AppendProperties
    <2>5. sinks' \in [1..2 -> Seq(R)]
      BY <2>2, <2>3, <2>4
    <2> QED
      BY <2>5 DEF Logged
  <1>3. UNCHANGED tally
    BY DEF SinkItem
  <1>4. CASE written' = written + 1 /\ UNCHANGED <<phase, first_error>>
    BY <1>1, <1>2, <1>3, <1>4 DEF FlowInv, Counted, Halted, Busy, Quiet
  <1>5. CASE SinkFailed
    BY <1>1, <1>2, <1>3, <1>5, HaltHalts DEF SinkFailed, FlowInv, Counted, Busy, Phases, Quiet
  <1> QED
    BY <1>4, <1>5 DEF SinkItem

LEMMA SinkTickStep ==
  ASSUME FlowInv, SinkTick
  PROVE  FlowInv' /\ Quiet
  <1>1. Busy /\ first_error = NoFailure
    BY AtWork DEF SinkTick, AtEnd
  <1>2. UNCHANGED <<sinks, tally>> /\ Goes(<<>>)
    BY DEF SinkTick, Outside
  <1> QED
    BY <1>1, <1>2, SameLogs, GoesOn DEF FlowInv, Counted, Quiet

LEMMA SinkEndLogs ==
  ASSUME FlowInv, SinkEnd
  PROVE  Logged' /\ UNCHANGED <<WritesAt(1), WritesAt(2)>>
  <1>1. PICK S : sinks \in [1..2 -> Seq(S)]
    BY DEF FlowInv, Logged
  <1> DEFINE at(logs, h) == {k \in DOMAIN logs[h] : logs[h][k].call = "write"}
  <1>2. PICK flushed, f :
          /\ flushed = sinks \/ flushed = Tee(sinks, "flush", f["flush"])
          /\ sinks' = flushed \/ sinks' = Tee(flushed, "close", f["close"])
    BY Zenon DEF SinkEnd
  <1>3. /\ \E R : flushed \in [1..2 -> Seq(R)]
        /\ \A h \in 1..2 : at(flushed, h) = at(sinks, h)
    BY <1>1, <1>2, TeeWritesNothing
  <1>4. PICK R : flushed \in [1..2 -> Seq(R)]
    BY <1>3
  <1>5. /\ \E Q : sinks' \in [1..2 -> Seq(Q)]
        /\ \A h \in 1..2 : at(sinks', h) = at(flushed, h)
    BY <1>2, <1>4, TeeWritesNothing
  <1> QED
    BY <1>3, <1>5 DEF Logged, WritesAt

LEMMA SinkEndStep ==
  ASSUME FlowInv, SinkEnd
  PROVE  FlowInv' /\ Quiet
  <1>1. agenda # <<>> /\ Top.op \in {"flush", "close", "abort"}
    BY DEF SinkEnd, AtEnd
  <1>2. UNCHANGED <<tally, failures, dlq>>
    BY DEF SinkEnd
  <1>3. Logged' /\ UNCHANGED <<WritesAt(1), WritesAt(2)>>
    BY SinkEndLogs
  <1>4. Quiet
    BY <1>2, <1>3 DEF Quiet
  <1>5. CASE SinkFailed
    <2>1. phase \in Phases \ {"rest", "ended"}
      BY <1>1, UnderWay DEF Busy, Phases
    <2> QED
      BY <1>2, <1>3, <1>4, <1>5, <2>1, HaltHalts DEF SinkFailed, FlowInv, Counted
  <1>6. CASE Goes(<<>>)
    <2>1. CASE Busy
      BY <1>2, <1>3, <1>4, <1>6, <2>1, GoesOn DEF FlowInv, Counted
    <2>2. CASE phase = "abort"
      <3>1. Under \in Seq(AbortTasks)
        BY <1>1, <2>2, UnderWay
      <3>2. agenda' \in Seq(AbortTasks)
        BY <1>6, <3>1, ConcatEmptySeq DEF Goes
      <3> QED
        BY <1>2, <1>3, <1>4, <1>6, <2>2, <3>2 DEF Goes, FlowInv, Halted, Counted
    <2> QED
      BY <1>1, <2>1, <2>2, UnderWay
  <1> QED
    BY <1>5, <1>6 DEF SinkEnd

\* The steps of the source are taken while nothing failed.
LEMMA SourceStep ==
  ASSUME FlowInv, PullFirst \/ Retire \/ PullSecond
  PROVE  FlowInv' /\ Quiet
  <1>1. phase \in {"pump", "switch"} /\ first_error = NoFailure
    BY DEF PullFirst, Retire, PullSecond, Ready, FlowInv, Halted
  <1>2. Logged' /\ UNCHANGED written
    BY SameLogs DEF PullFirst, Retire, PullSecond, Inside, FlowInv
  <1>3. \/ SourceFailed
        \/ /\ phase' \in {"pump", "flush"} \/ (phase' = "switch" /\ agenda' = <<>>)
           /\ UNCHANGED first_error
           /\ tally' = tally \/ tally' = [tally EXCEPT !.items_in = @ + 1]
    BY DEF PullFirst, Retire, PullSecond, GotItem, GotIdle, Pulls, Ready
  <1>4. CASE SourceFailed
    BY <1>1, <1>2, <1>4, HaltHalts DEF SourceFailed, FlowInv, Counted, Phases, Quiet
  <1>5. CASE ~SourceFailed
    BY <1>1, <1>2, <1>3, <1>5 DEF FlowInv, Counted, Tally, Halted, Phases, Quiet
  <1> QED
    BY <1>4, <1>5

LEMMA RunnerStep ==
  ASSUME FlowInv, Start \/ SeeCancel \/ Return \/ CloseRest \/ Cancel
  PROVE  FlowInv' /\ Quiet
  <1>1. UNCHANGED sinks
    BY DEF Start, SeeCancel, Return, CloseRest, Cancel, Inside, Outside
  <1>2. Logged' /\ UNCHANGED <<WritesAt(1), WritesAt(2)>>
    BY <1>1, SameLogs DEF FlowInv
  <1>3. CASE Start
    BY <1>2, <1>3 DEF Start, FlowInv, Counted, Halted, Phases, Quiet
  <1>4. CASE SeeCancel
    BY <1>2, <1>4 DEF SeeCancel, Inside, FlowInv, Counted, Halted, Phases, Quiet
  <1>5. CASE Return
    <2>1. agenda # <<>> /\ (Busy \/ phase = "abort")
      BY <1>5, UnderWay DEF Return
    <2>2. written' = 0 /\ UNCHANGED <<failures, dlq, first_error>>
      BY <1>5 DEF Return
    <2>3. tally' \in Tally /\ (written = 0 => tally' = tally)
      BY <1>5 DEF Return, FlowInv, Counted, Tally
    <2>4. /\ phase = "pump" => phase' = "pump"
          /\ phase = "flush" => phase' = "close"
          /\ phase \in {"close", "abort"} => phase' = "rest" /\ agenda' = <<>>
      BY <1>5 DEF Return
    <2> QED
      BY <1>2, <2>1, <2>2, <2>3, <2>4, UnderWay
      DEF Busy, FlowInv, Counted, Halted, Phases, Quiet
  <1>6. CASE CloseRest
    BY <1>2, <1>6 DEF CloseRest, Inside, FlowInv, Counted, Halted, Phases, Quiet
  <1>7. CASE Cancel
    BY <1>2, <1>7 DEF Cancel, FlowInv, Counted, Halted, Quiet
  <1> QED
    BY <1>3, <1>4, <1>5, <1>6, <1>7

LEMMA FlowStep == FlowInv /\ [Next]_vars => FlowInv' /\ Quiet
  <1> SUFFICES ASSUME FlowInv, [Next]_vars
               PROVE  FlowInv' /\ Quiet
    OBVIOUS
  <1>1. CASE UNCHANGED flowVars
    <2>1. Logged' /\ UNCHANGED <<WritesAt(1), WritesAt(2)>>
      BY <1>1, SameLogs DEF FlowInv, flowVars
    <2> QED
      BY <1>1, <2>1 DEF flowVars, FlowInv, Counted, Halted, Quiet
  <1>2. CASE Run
    BY <1>2, StageStep, SinkItemStep, SinkTickStep, SinkEndStep, SourceStep, RunnerStep
    DEF Run
  <1>3. CASE Start \/ Cancel
    BY <1>3, RunnerStep
  <1> QED
    BY <1>1, <1>2, <1>3 DEF Next, vars

LEMMA FlowInit == Init => FlowInv
  <1> SUFFICES ASSUME Init
               PROVE  FlowInv
    OBVIOUS
  <1>1. /\ <<>> \in Seq({}) /\ sinks = <<<<>>, <<>>>>
    BY DEF Init
  <1>2. sinks = [h \in 1..2 |-> <<>>]
    BY <1>1
  <1>3. Logged
    BY <1>1, <1>2 DEF Logged
  <1> QED
    BY <1>3 DEF Init, FlowInv, Counted, Tally, Halted, Phases

-----------------------------------------------------------------------------
(* The theorems. *)

\* What is under way, and the phase the run is in, agree in every state: after
\* a failure nothing but the calls of one abort (Runner::finish and abort).
THEOREM FlowInvariant == Spec => []FlowInv
  <1>1. FlowInv /\ [Next]_vars => FlowInv'
    BY FlowStep
  <1> QED
    BY FlowInit, <1>1, PTL DEF Spec

\* Once something failed no item is pulled, given up, written to a sink or to
\* the dead letters, and no count moves, for every chain of stages: Err(Halt)
\* ends every call under way (StageEmit::emit, drive), and the abort that
\* follows reaches no item.
THEOREM FlowNothingAfterHalt == Spec => NothingAfterHalt
  <1>1. FlowInv /\ [Next]_vars => [Quiet]_vars
    BY FlowStep
  <1> QED
    BY <1>1, FlowInvariant, PTL DEF Spec, NothingAfterHalt, Quiet

-----------------------------------------------------------------------------
(* The switch of sources. *)

\* What a pull has waited for: at a switch no more than the switch itself, and
\* in all no more than the interval or the switch, whichever is longer.
Waits ==
    /\ waited.switch \in Nat /\ waited.all \in Nat /\ waited.switch <= waited.all
    /\ waited.all <= Interval \/ waited.all <= waited.switch

LEMMA WaitsInTime == Waits => SwitchInTime
  <1> SUFFICES ASSUME Waits
               PROVE  waited.all <= Max({Interval, waited.switch})
    BY DEF SwitchInTime
  <1>1. Interval \in Nat /\ waited.switch \in Nat /\ waited.all \in Nat
    BY FlowAssumption DEF Waits
  <1>2. PICK m \in {Interval, waited.switch} : \A y \in {Interval, waited.switch} : m >= y
    BY <1>1
  <1>3. \A y \in {Interval, waited.switch} : Max({Interval, waited.switch}) >= y
    BY <1>2 DEF Max
  <1>4. Max({Interval, waited.switch}) \in {Interval, waited.switch}
    BY <1>2 DEF Max
  <1> QED
    BY <1>1, <1>3, <1>4 DEF Waits

LEMMA WaitsStep == Waits /\ [Next]_vars => Waits'
  <1> SUFFICES ASSUME Waits, [Next]_vars
               PROVE  Waits'
    OBVIOUS
  <1> USE FlowAssumption
  <1>1. NoWait \in [switch : Nat, all : Nat] /\ NoWait.all = 0
    BY DEF NoWait
  <1>2. CASE UNCHANGED waited
    BY <1>2 DEF Waits
  <1>3. CASE PullFirst
    BY <1>3 DEF PullFirst, NoWait, Waits
  <1>4. CASE Retire
    <2>1. PICK n \in Nat : waited' = [switch |-> n, all |-> n]
      <3>1. PICK waiting \in (IF idle_tick THEN 0..Interval ELSE {0}), closing \in 0..MaxClosing :
              waited' = [switch |-> waiting + closing, all |-> waiting + closing]
        BY <1>4, Zenon DEF Retire
      <3>2. waiting \in Nat /\ closing \in Nat
        OBVIOUS
      <3> QED
        BY <3>1, <3>2
    <2> QED
      BY <2>1 DEF Waits
  <1>5. CASE PullSecond
    <2> DEFINE before == IF phase = "switch" THEN waited.switch ELSE 0
    <2>1. waited' = NoWait \/ waited' = [switch |-> before, all |-> before + Remaining]
      BY <1>5 DEF PullSecond
    <2>2. before \in Nat /\ Remaining \in Nat
      BY DEF Remaining, Waits
    <2>3. before + Remaining <= Interval \/ before + Remaining <= before
      BY <2>2 DEF Remaining, Waits
    <2> HIDE DEF before
    <2> QED
      BY <1>1, <2>1, <2>2, <2>3 DEF Waits, NoWait
  <1>6. Stages \/ SinkItem \/ SinkTick \/ SinkEnd => UNCHANGED waited
    BY DEF Stages, MapItem, TryItem, StageItem, StageFails, GroupItem, Signal, StageSignal,
           GroupTick, GroupFlush, RetryItem, Backoff, SinkItem, SinkTick, SinkEnd, Outside
  <1>7. SeeCancel \/ Return \/ CloseRest \/ Start \/ Cancel => UNCHANGED waited
    BY DEF SeeCancel, Return, CloseRest, Start, Cancel, Outside
  <1>8. UNCHANGED flowVars => UNCHANGED waited
    BY DEF flowVars
  <1> QED
    BY <1>2, <1>3, <1>4, <1>5, <1>6, <1>7, <1>8 DEF Next, Run, vars

\* For every interval, and however long the first source takes to close: an
\* idle answer of ChainSource::pull_timeout comes within the interval, or with
\* the end of a switch that took longer, because the second source is given
\* what the first has left.
THEOREM FlowSwitchInTime == Spec => []SwitchInTime
  <1>1. Init => Waits
    BY FlowAssumption DEF Init, Waits
  <1>2. Waits /\ [Next]_vars => Waits'
    BY WaitsStep
  <1> QED
    BY <1>1, <1>2, WaitsInTime, PTL DEF Spec

-----------------------------------------------------------------------------
(* Types, and the shape of what is under way.                               *)

Ids == Names \cup Transforms \cup {None}
Links == [kind : Transforms, id : Ids, policy : ErrorPolicies, retry : Retries \cup {None}]

\* No policy without an attempt gets past the builder.
MaxAttempts(at) == RetryPolicy[chain[at].retry].max_attempts
Built ==
    /\ chain \in Seq(Links)
    /\ error_policy \in ErrorPolicies /\ pending_stage_id \in Names \cup {None}
    /\ \A at \in 1..Len(chain) : chain[at].kind = "try_map_retry" =>
          /\ chain[at].retry \in Retries
          /\ config_error = NoError => MaxAttempts(at) > 0
    /\ made \in {"building", "pipeline", "refused", "started"}
    /\ made = "started" <=> phase # "built"
    /\ first_error.from = "config" <=> made = "started" /\ config_error # NoError
    /\ first_error.from = "config" => phase = "ended"

ItemOps == {"process", "fail", "backoff"}
Pulled == 1..tally.items_in
Tasks(L) == [op : ItemOps \cup {"tick", "flush", "close", "abort", "return"},
             at : 0..AtSink, item : Seq(Pulled), attempt : Nat, left : L]

IsAt(task, kind) == task.at \in 1..Len(chain) /\ chain[task.at].kind = kind
Sound(task) ==
    /\ task.at = 0 => task.op = "return"
    /\ task.op = "fail" => IsAt(task, "stage")
    /\ task.op = "backoff" => /\ IsAt(task, "try_map_retry")
                              /\ task.attempt < MaxAttempts(task.at)
    /\ task.op \in {"process", "backoff"} => task.attempt > 0
    /\ task.attempt > 1 => /\ IsAt(task, "try_map_retry")
                           /\ task.attempt <= MaxAttempts(task.at)

\* Items are above the signal that brought them, which is above the return.
Signals(p) == IF p = "pump" THEN ItemOps \cup {"tick"} ELSE {p}
Stack(a, n, p) ==
    /\ \A k \in 1..n : a[k].op = "return" <=> k = n
    /\ \A k \in 1..n : k < n - 1 => a[k].op \in ItemOps
    /\ n > 1 => a[n - 1].op \in Signals(p)
    /\ p \in {"close", "abort"} => n <= 2
    /\ \A k \in 2..n : a[k].attempt <= 1 /\ a[k].op # "backoff"
    /\ p \in {"flush", "close", "abort"} => n > 0
Stacked == Stack(agenda, Len(agenda), phase)

Held ==
    /\ phase = "built" => held = <<>>
    /\ phase # "built" => held \in [1..Len(chain) -> Seq(Pulled)]

AgendaOK ==
    /\ Stacked
    /\ \E L : agenda \in Seq(Tasks(L))
    /\ \A k \in 1..Len(agenda) : Sound(agenda[k])

Flags ==
    /\ sink_done \in [{"flush", "close"} -> BOOLEAN]
    /\ first_error.from \in {None, "config", "source", "stage", "sink"}
    /\ cancelled \in BOOLEAN /\ faults \in 0..MaxFaults
    /\ tries.calls \in Nat /\ tries.items \in 0..tries.calls

Typed == Built /\ Held /\ AgendaOK /\ Flags

-----------------------------------------------------------------------------
(* The teardown of the sink and the sources. *)

Ends ==
    /\ sink_done.close => sink_done.flush
    /\ phase \in {"built", "pump", "switch"} => ~sink_done.flush
    /\ phase = "flush" => ~sink_done.close /\ (sink_done.flush <=> Len(agenda) = 1)
    /\ phase = "close" => sink_done.flush /\ (sink_done.close <=> Len(agenda) = 1)
    /\ phase = "abort" => (Len(agenda) = 1 => sink_done.close)
    /\ phase \in {"rest", "ended"} => sink_done.close \/ first_error.from = "config"

SourceEnds ==
    /\ source \in [first : BOOLEAN, closed : (0..1) \X (0..1), idle : 0..MaxTicks]
    /\ source.closed[1] = IF source.first THEN 0 ELSE 1
    /\ source.closed[2] = IF phase = "ended" /\ first_error.from # "config" THEN 1 ELSE 0
    /\ phase = "ended" /\ first_error.from # "config" => ~source.first

-----------------------------------------------------------------------------
(* A retry under way, which has been counted. *)

Owed == IF agenda # <<>> /\ Top.op \in ItemOps /\ (Top.op = "backoff" \/ Top.attempt > 1)
        THEN 1 ELSE 0

-----------------------------------------------------------------------------
(* Calls, and what replaces the head of the agenda. *)

LEMMA TaskIs ==
  ASSUME NEW op, NEW at, NEW item
  PROVE  /\ Task(op, at) = [op |-> op, at |-> at, item |-> <<>>, attempt |-> 0, left |-> 0]
         /\ Process(at, item) = [op |-> "process", at |-> at, item |-> item, attempt |-> 1, left |-> 0]
         /\ Call(op, item) = <<[op |-> op, at |-> 1, item |-> item, attempt |-> 1, left |-> 0],
                               [op |-> "return", at |-> 0, item |-> <<>>, attempt |-> 0, left |-> 0]>>
  <1>1. \A o, k : Task(o, k) = [op |-> o, at |-> k, item |-> <<>>, attempt |-> 0, left |-> 0]
    BY DEF Task
  <1>2. \A o, k : [Task(o, k) EXCEPT !.item = item, !.attempt = 1]
          = [op |-> o, at |-> k, item |-> item, attempt |-> 1, left |-> 0]
    <2> TAKE o, k
    <2> DEFINE r == [op |-> o, at |-> k, item |-> <<>>, attempt |-> 0, left |-> 0]
    <2> DEFINE q == [op |-> o, at |-> k, item |-> item, attempt |-> 0, left |-> 0]
    <2>1. [r EXCEPT !.item = item] = q
      OBVIOUS
    <2>2. [q EXCEPT !.attempt = 1] = [op |-> o, at |-> k, item |-> item, attempt |-> 1, left |-> 0]
      OBVIOUS
    <2>3. Task(o, k) = r
      BY <1>1
    <2> HIDE DEF r, q
    <2> QED
      BY <2>1, <2>2, <2>3
  <1> QED
    BY <1>1, <1>2 DEF Process, Call

LEMMA HeadIs ==
  ASSUME NEW T, NEW a \in Seq(T), a # <<>>
  PROVE  Head(a) = a[1] /\ Len(a) \in Nat \ {0}
  BY HeadTailProperties, EmptySeq, LenProperties

\* An agenda that a call of Runner starts, in its phase p.
Starts(p, op) ==
    \/ p = "pump" /\ op \in {"process", "tick"}
    \/ p \in {"flush", "close", "abort"} /\ op = p

LEMMA CallTyped ==
  ASSUME Built, NEW p, NEW op, NEW n \in Nat, NEW item \in Seq(1..n),
         Starts(p, op), phase' = p, agenda' = Call(op, item), chain' = chain, tally'.items_in = n
  PROVE  AgendaOK' /\ Len(agenda') = 2 /\ Owed' = 0
  <1> DEFINE a == [op |-> op, at |-> 1, item |-> item, attempt |-> 1, left |-> 0]
             b == [op |-> "return", at |-> 0, item |-> <<>>, attempt |-> 0, left |-> 0]
  <1>1. agenda' = <<a, b>>
    BY TaskIs
  <1>2. Len(chain) \in Nat
    BY DEF Built
  <1>3. a \in Tasks({0})' /\ b \in Tasks({0})'
    BY <1>2 DEF Tasks, ItemOps, AtSink, Pulled, Starts
  <1>4. /\ a.op = op /\ a.at = 1 /\ a.attempt = 1
        /\ b.op = "return" /\ b.at = 0 /\ b.attempt = 0
    OBVIOUS
  <1> HIDE DEF a, b
  <1>5. agenda' \in Seq(Tasks({0})')
    BY <1>1, <1>3
  <1>6. Len(agenda') = 2 /\ agenda'[1] = a /\ agenda'[2] = b
    BY <1>1
  <1>7. Stacked'
    BY <1>4, <1>6 DEF Stacked, Stack, Signals, ItemOps, Starts
  <1>8. \A k \in 1..2 : Sound(agenda[k])'
    BY <1>4, <1>6 DEF Sound, Starts
  <1>9. Owed' = 0
    BY <1>4, <1>5, <1>6, HeadIs DEF Owed, Top, ItemOps, Starts
  <1> QED
    BY <1>5, <1>6, <1>7, <1>8, <1>9 DEF AgendaOK

\* The head of the agenda.
LEMMA TopIs ==
  ASSUME NEW T, agenda \in Seq(T), agenda # <<>>
  PROVE  /\ Top = agenda[1] /\ Top \in T
         /\ Len(agenda) \in Nat \ {0} /\ Under \in Seq(T) /\ Len(Under) = Len(agenda) - 1
         /\ \A k \in 1..(Len(agenda) - 1) : Under[k] = agenda[k + 1]
  BY HeadTailProperties, EmptySeq, LenProperties, ElementOfSeq DEF Top, Under

LEMMA Replaced ==
  ASSUME NEW T, agenda \in Seq(T), agenda # <<>>, NEW more \in Seq(T), agenda' = more \o Under
  PROVE  /\ agenda' \in Seq(T) /\ Len(agenda) \in Nat /\ Len(more) \in Nat
         /\ Len(agenda') = Len(more) + Len(agenda) - 1
         /\ \A k \in 1..Len(more) : agenda'[k] = more[k]
         /\ \A k \in (Len(more) + 1)..Len(agenda') : agenda'[k] = agenda[k - Len(more) + 1]
  <1>1. /\ Len(agenda) \in Nat \ {0} /\ Under \in Seq(T) /\ Len(Under) = Len(agenda) - 1
        /\ \A k \in 1..(Len(agenda) - 1) : Under[k] = agenda[k + 1]
    BY TopIs
  <1>2. Len(more) \in Nat
    BY LenProperties
  <1>3. /\ agenda' \in Seq(T) /\ Len(agenda') = Len(more) + Len(Under)
        /\ \A i \in 1..(Len(more) + Len(Under)) :
             agenda'[i] = IF i <= Len(more) THEN more[i] ELSE Under[i - Len(more)]
    BY <1>1, ConcatProperties
  <1>4. ASSUME NEW k \in (Len(more) + 1)..Len(agenda')
        PROVE  agenda'[k] = agenda[k - Len(more) + 1]
    <2>1. /\ k - Len(more) \in 1..(Len(agenda) - 1) /\ ~(k <= Len(more))
          /\ k \in 1..(Len(more) + Len(Under))
      BY <1>1, <1>2, <1>3, <1>4
    <2>2. agenda'[k] = Under[k - Len(more)]
      BY <1>3, <2>1
    <2>3. Under[k - Len(more)] = agenda[k - Len(more) + 1]
      BY <1>1, <2>1
    <2> QED
      BY <2>2, <2>3
  <1>5. \A k \in 1..Len(more) : agenda'[k] = more[k]
    BY <1>1, <1>2, <1>3
  <1> QED
    BY <1>1, <1>2, <1>3, <1>4, <1>5

\* What a step may leave to do for items.
Work(more) ==
    \A k \in 1..Len(more) :
       /\ more[k].op \in ItemOps /\ Sound(more[k])
       /\ k > 1 => more[k].attempt <= 1 /\ more[k].op # "backoff"

\* None of it is a second try, or a wait for one.
Calm(more) ==
    \A k \in 1..Len(more) : more[k].attempt <= 1 /\ more[k].op # "backoff"

\* A stack whose head was replaced by m tasks.
Spliced(new, old, more, m, n) ==
    /\ \A k \in 1..m : new[k] = more[k]
    /\ \A k \in (m + 1)..(m + n - 1) : new[k] = old[k - m + 1]

\* The head was an item's, and what replaces it is.
LEMMA ItemsStack ==
  ASSUME NEW old, NEW new, NEW more, NEW n \in Nat, NEW m \in Nat, NEW p \in Phases,
         Stack(old, n, p), n > 0, old[1].op \in ItemOps, Spliced(new, old, more, m, n),
         \A k \in 1..m : more[k].op \in ItemOps
                          /\ (k > 1 => more[k].attempt <= 1 /\ more[k].op # "backoff")
  PROVE  /\ Stack(new, m + n - 1, p) /\ n > 1
         /\ n = 2 => p = "pump"
         /\ p \notin {"close", "abort"}
  <1>1. n > 1
    <2>1. old[1].op # "return"
      BY DEF ItemOps
    <2> QED
      BY <2>1 DEF Stack
  <1>2. n = 2 => p = "pump"
    <2>1. n = 2 => old[1].op \in Signals(p)
      BY <1>1 DEF Stack
    <2> QED
      BY <2>1 DEF Signals, ItemOps, Phases
  <1>3. ASSUME NEW k \in 1..(m + n - 1)
        PROVE  \/ k <= m /\ new[k] = more[k]
               \/ k > m /\ k - m + 1 \in 2..n /\ new[k] = old[k - m + 1]
    BY DEF Spliced
  <1>4. \A k \in 1..(m + n - 1) : new[k].op = "return" <=> k = m + n - 1
    <2> SUFFICES ASSUME NEW k \in 1..(m + n - 1)
                 PROVE  new[k].op = "return" <=> k = m + n - 1
      OBVIOUS
    <2>1. CASE k <= m /\ new[k] = more[k]
      BY <1>1, <2>1 DEF ItemOps
    <2>2. CASE k > m /\ k - m + 1 \in 2..n /\ new[k] = old[k - m + 1]
      BY <2>2 DEF Stack
    <2> QED
      BY <1>3, <2>1, <2>2
  <1>5. \A k \in 1..(m + n - 1) : k < m + n - 1 - 1 => new[k].op \in ItemOps
    <2> SUFFICES ASSUME NEW k \in 1..(m + n - 1), k < m + n - 1 - 1
                 PROVE  new[k].op \in ItemOps
      OBVIOUS
    <2>1. CASE k > m /\ k - m + 1 \in 2..n /\ new[k] = old[k - m + 1]
      BY <2>1 DEF Stack
    <2> QED
      BY <1>3, <2>1
  <1>6. m + n - 1 > 1 => new[m + n - 1 - 1].op \in Signals(p)
    <2>1. CASE n > 2
      <3>1. new[m + n - 1 - 1] = old[n - 1]
        BY <2>1 DEF Spliced
      <3> QED
        BY <2>1, <3>1 DEF Stack
    <2>2. CASE n = 2 /\ m > 0
      <3>1. new[m + n - 1 - 1] = more[m]
        BY <2>2 DEF Spliced
      <3> QED
        BY <1>2, <2>2, <3>1 DEF Signals
    <2> QED
      BY <1>1, <2>1, <2>2
  <1>7. p \notin {"close", "abort"}
    BY <1>1, <1>2 DEF Stack
  <1>8. \A k \in 2..(m + n - 1) : new[k].attempt <= 1 /\ new[k].op # "backoff"
    <2> SUFFICES ASSUME NEW k \in 2..(m + n - 1)
                 PROVE  new[k].attempt <= 1 /\ new[k].op # "backoff"
      OBVIOUS
    <2>1. CASE k > m /\ k - m + 1 \in 2..n /\ new[k] = old[k - m + 1]
      BY <2>1 DEF Stack
    <2> QED
      BY <1>3, <2>1
  <1> QED
    BY <1>1, <1>2, <1>4, <1>5, <1>6, <1>7, <1>8 DEF Stack

\* The head was a signal `op`, and it is passed on behind the items that it sets free,
\* or ends.
Passing(more, m, op) ==
    /\ \A k \in 1..m : /\ k < m => more[k].op \in ItemOps
                       /\ more[k].attempt <= 1 /\ more[k].op # "backoff"
    /\ m > 0 => more[m].op = op
    /\ m > 1 => op \in {"tick", "flush"}

LEMMA SignalStack ==
  ASSUME NEW old, NEW new, NEW more, NEW n \in Nat, NEW m \in Nat, NEW p \in Phases,
         Stack(old, n, p), n > 0, old[1].op \notin ItemOps \cup {"return"},
         Spliced(new, old, more, m, n), Passing(more, m, old[1].op)
  PROVE  Stack(new, m + n - 1, p) /\ n = 2
  <1>1. n = 2 /\ old[1].op \in Signals(p) /\ old[2].op = "return"
    <2>1. n # 1 /\ ~(n > 2)
      BY DEF Stack
    <2> QED
      BY <2>1 DEF Stack
  <1>2. /\ new[m + 1] = old[2] /\ m + n - 1 = m + 1
        /\ \A k \in 1..m : new[k] = more[k]
    BY <1>1 DEF Spliced
  <1>3. \A k \in 1..m : new[k].op # "return"
    BY <1>2 DEF ItemOps, Passing
  <1>4. p \in {"close", "abort"} => m <= 1
    BY <1>1 DEF Signals, Passing
  <1>5. old[2].attempt <= 1
    BY <1>1 DEF Stack
  <1>6. \A k \in 1..(m + 1) : new[k].op = "return" <=> k = m + 1
    BY <1>1, <1>2, <1>3
  <1>7. \A k \in 1..(m + 1) : k < m + 1 - 1 => new[k].op \in ItemOps
    BY <1>2 DEF Passing
  <1>8. m + 1 > 1 => new[m + 1 - 1].op \in Signals(p)
    BY <1>1, <1>2 DEF Passing
  <1>9. \A k \in 2..(m + 1) : new[k].attempt <= 1 /\ new[k].op # "backoff"
    <2>1. \A k \in 2..m : new[k].attempt <= 1 /\ new[k].op # "backoff"
      <3> TAKE k \in 2..m
      <3>1. k \in 1..m /\ new[k] = more[k]
        BY <1>2
      <3> QED
        BY <3>1 DEF Passing
    <2> QED
      BY <1>1, <1>2, <1>5, <2>1
  <1>10. Stack(new, m + 1, p)
    BY <1>4, <1>6, <1>7, <1>8, <1>9 DEF Stack
  <1> QED
    BY <1>1, <1>2, <1>10

LEMMA Widen ==
  ASSUME NEW L, NEW M, NEW more \in Seq(Tasks(M)), agenda \in Seq(Tasks(L))
  PROVE  agenda \in Seq(Tasks(L \cup M)) /\ more \in Seq(Tasks(L \cup M))
  <1>1. Tasks(L) \subseteq Tasks(L \cup M) /\ Tasks(M) \subseteq Tasks(L \cup M)
    BY DEF Tasks
  <1> QED
    BY <1>1, SeqMonotonic

\* What holds of the new agenda whatever the step.
LEMMA GoesTo ==
  ASSUME AgendaOK, agenda # <<>>,
         NEW M, NEW more \in Seq(Tasks(M)), \A k \in 1..Len(more) : Sound(more[k]),
         agenda' = more \o Under, chain' = chain, tally'.items_in = tally.items_in
  PROVE  /\ (\E L : agenda \in Seq(Tasks(L)))'
         /\ \A k \in 1..Len(agenda') : Sound(agenda[k])'
         /\ Top = agenda[1]
         /\ Len(agenda) \in Nat \ {0} /\ Len(more) \in Nat
         /\ Len(agenda') = Len(more) + Len(agenda) - 1
         /\ Spliced(agenda', agenda, more, Len(more), Len(agenda))
  <1>1. PICK L : agenda \in Seq(Tasks(L))
    BY DEF AgendaOK
  <1> DEFINE T == Tasks(L \cup M)
  <1>2. agenda \in Seq(T) /\ more \in Seq(T)
    BY <1>1, Widen
  <1>3. T' = T
    BY DEF Tasks, AtSink, Pulled
  <1> HIDE DEF T
  <1>4. /\ agenda' \in Seq(T) /\ Len(agenda) \in Nat /\ Len(more) \in Nat
        /\ Len(agenda') = Len(more) + Len(agenda) - 1
        /\ \A k \in 1..Len(more) : agenda'[k] = more[k]
        /\ \A k \in (Len(more) + 1)..Len(agenda') : agenda'[k] = agenda[k - Len(more) + 1]
    BY <1>2, Replaced
  <1>5. Top = agenda[1] /\ Len(agenda) \in Nat \ {0}
    BY <1>2, TopIs
  <1>6. Spliced(agenda', agenda, more, Len(more), Len(agenda))
    BY <1>4 DEF Spliced
  <1>7. ASSUME NEW k \in 1..Len(agenda')
        PROVE  Sound(agenda[k])'
    <2>1. Sound(agenda'[k])
      <3>1. CASE k <= Len(more)
        BY <1>4, <3>1
      <3>2. CASE k > Len(more)
        <4>1. k - Len(more) + 1 \in 1..Len(agenda) /\ k \in (Len(more) + 1)..Len(agenda')
          BY <1>4, <1>5, <3>2
        <4>2. agenda'[k] = agenda[k - Len(more) + 1]
          BY <1>4, <4>1
        <4> QED
          BY <4>1, <4>2 DEF AgendaOK
      <3> QED
        BY <1>4, <3>1, <3>2
    <2> QED
      BY <2>1 DEF Sound, IsAt, MaxAttempts
  <1>8. (\E L1 : agenda \in Seq(Tasks(L1)))'
    BY <1>3, <1>4 DEF T
  <1> QED
    BY <1>4, <1>5, <1>6, <1>7, <1>8

\* A second try is owed only at the head.
LEMMA OwedAfter ==
  ASSUME NEW m \in Nat, NEW n \in Nat \ {0}, NEW more, NEW p, Stack(agenda, n, p),
         Spliced(agenda', agenda, more, m, n), Len(agenda') = m + n - 1,
         (\E L : agenda \in Seq(Tasks(L)))',
         m > 0 => more[1].attempt <= 1 /\ more[1].op # "backoff"
  PROVE  Owed' = 0
  <1>1. CASE agenda' = <<>>
    BY <1>1 DEF Owed
  <1>2. CASE agenda' # <<>>
    <2>1. Head(agenda') = agenda'[1] /\ Len(agenda') > 0
      BY <1>2, HeadIs
    <2>2. agenda'[1].attempt <= 1 /\ agenda'[1].op # "backoff"
      <3>1. CASE m > 0
        BY <3>1 DEF Spliced
      <3>2. CASE m = 0
        <4>1. n > 1
          BY <2>1, <3>2
        <4>2. agenda'[1] = agenda[2]
          BY <3>2, <4>1 DEF Spliced
        <4> QED
          BY <4>1, <4>2 DEF Stack
      <3> QED
        BY <3>1, <3>2
    <2>3. agenda'[1].attempt \in Nat
      <3>1. PICK L : agenda' \in Seq(Tasks(L)')
        OBVIOUS
      <3>2. agenda'[1] \in Tasks(L)'
        BY <1>2, <2>1, <3>1, ElementOfSeq
      <3> QED
        BY <3>2 DEF Tasks
    <2> QED
      BY <2>1, <2>2, <2>3 DEF Owed, Top
  <1> QED
    BY <1>1, <1>2

LEMMA ItemsGo ==
  ASSUME AgendaOK, phase \in Phases, agenda # <<>>, Top.op \in ItemOps,
         NEW M, NEW more \in Seq(Tasks(M)), Work(more),
         agenda' = more \o Under, phase' = phase, chain' = chain,
         tally'.items_in = tally.items_in
  PROVE  /\ AgendaOK' /\ Len(agenda') > 0 /\ (Len(agenda') = 1 => phase = "pump")
         /\ Len(agenda) > 1 /\ phase \notin {"close", "abort"}
         /\ Calm(more) => Owed' = 0
  <1> DEFINE n == Len(agenda)
             m == Len(more)
  <1>1. \A k \in 1..m : Sound(more[k])
    BY DEF Work
  <1>2. /\ (\E L : agenda \in Seq(Tasks(L)))'
        /\ \A k \in 1..Len(agenda') : Sound(agenda[k])'
        /\ agenda[1].op \in ItemOps
        /\ n \in Nat \ {0} /\ m \in Nat
        /\ Len(agenda') = m + n - 1
        /\ Spliced(agenda', agenda, more, m, n)
    BY <1>1, GoesTo
  <1>3. Stack(agenda, n, phase)
    BY DEF AgendaOK, Stacked
  <1>4. \A k \in 1..m : more[k].op \in ItemOps
                          /\ (k > 1 => more[k].attempt <= 1 /\ more[k].op # "backoff")
    BY DEF Work
  <1> HIDE DEF n, m
  <1>0. n \in Nat /\ n > 0 /\ m \in Nat /\ Spliced(agenda', agenda, more, m, n)
    BY <1>2
  <1>5. /\ Stack(agenda', m + n - 1, phase) /\ n > 1 /\ (n = 2 => phase = "pump")
        /\ phase \notin {"close", "abort"}
    BY <1>0, <1>2, <1>3, <1>4, ItemsStack, Zenon
  <1>6. Stacked'
    BY <1>2, <1>5 DEF Stacked
  <1>7. m + n - 1 > 0 /\ (m + n - 1 = 1 => phase = "pump")
    BY <1>2, <1>5
  <1>8. Calm(more) => Owed' = 0
    <2> SUFFICES ASSUME Calm(more)
                 PROVE  Owed' = 0
      OBVIOUS
    <2>1. m > 0 => more[1].attempt <= 1 /\ more[1].op # "backoff"
      BY <1>2 DEF Calm, m
    <2> QED
      BY <1>2, <1>3, <2>1, OwedAfter
  <1> QED
    BY <1>2, <1>5, <1>6, <1>7, <1>8 DEF AgendaOK, n

LEMMA SignalGoes ==
  ASSUME AgendaOK, phase \in Phases, agenda # <<>>, Top.op \in {"tick", "flush", "close", "abort"},
         NEW M, NEW more \in Seq(Tasks(M)), \A k \in 1..Len(more) : Sound(more[k]),
         Passing(more, Len(more), Top.op),
         agenda' = more \o Under, phase' = phase, chain' = chain,
         tally'.items_in = tally.items_in
  PROVE  AgendaOK' /\ Len(agenda) = 2 /\ Len(agenda') = Len(more) + 1 /\ Owed' = 0
  <1> DEFINE n == Len(agenda)
             m == Len(more)
  <1>2. /\ (\E L : agenda \in Seq(Tasks(L)))'
        /\ \A k \in 1..Len(agenda') : Sound(agenda[k])'
        /\ Top = agenda[1]
        /\ n \in Nat \ {0} /\ m \in Nat
        /\ Len(agenda') = m + n - 1
        /\ Spliced(agenda', agenda, more, m, n)
    BY GoesTo
  <1>3. Stack(agenda, n, phase)
    BY DEF AgendaOK, Stacked
  <1>4. Passing(more, m, agenda[1].op)
    BY <1>2
  <1>9. agenda[1].op \notin ItemOps \cup {"return"}
    BY <1>2 DEF ItemOps
  <1> HIDE DEF n, m
  <1>0. n \in Nat /\ n > 0 /\ m \in Nat /\ Spliced(agenda', agenda, more, m, n)
    BY <1>2
  <1>5. Stack(agenda', m + n - 1, phase) /\ n = 2
    BY <1>0, <1>3, <1>4, <1>9, SignalStack, Zenon
  <1>6. Stacked'
    BY <1>2, <1>5 DEF Stacked
  <1>7. m + n - 1 = m + 1
    BY <1>2, <1>5
  <1>8. m > 0 => more[1].attempt <= 1 /\ more[1].op # "backoff"
    BY <1>2, <1>4 DEF Passing
  <1>10. Owed' = 0
    BY <1>2, <1>3, <1>8, OwedAfter
  <1> QED
    BY <1>2, <1>5, <1>6, <1>7, <1>10 DEF AgendaOK, n, m

-----------------------------------------------------------------------------
(* What the stages leave to do. *)

LEMMA TaskTyped ==
  ASSUME Typed, NEW at \in 1..Len(chain)
  PROVE  /\ at + 1 \in 1..AtSink
         /\ \A op \in {"tick", "flush", "close", "abort"} :
               /\ Task(op, at + 1) \in Tasks({0}) /\ Sound(Task(op, at + 1))
               /\ Task(op, at + 1).op = op /\ Task(op, at + 1).attempt = 0
         /\ /\ Task("fail", at) \in Tasks({0})
            /\ chain[at].kind = "stage" => Sound(Task("fail", at))
            /\ Task("fail", at).op = "fail" /\ Task("fail", at).attempt = 0
  <1>1. Len(chain) \in Nat
    BY DEF Typed, Built
  <1>2. \A op, k : Task(op, k) = [op |-> op, at |-> k, item |-> <<>>, attempt |-> 0, left |-> 0]
    BY TaskIs
  <1>3. at + 1 \in 1..AtSink /\ at \in 0..AtSink /\ at + 1 # 0 /\ at # 0 /\ <<>> \in Seq(Pulled)
    BY <1>1 DEF AtSink
  <1>4. ASSUME NEW op \in {"tick", "flush", "close", "abort"}
        PROVE  /\ Task(op, at + 1) \in Tasks({0}) /\ Sound(Task(op, at + 1))
               /\ Task(op, at + 1).op = op /\ Task(op, at + 1).attempt = 0
    <2> DEFINE task == Task(op, at + 1)
    <2>1. /\ task = [op |-> op, at |-> at + 1, item |-> <<>>, attempt |-> 0, left |-> 0]
          /\ at + 1 \in 0..AtSink
      BY <1>1, <1>2, <1>3 DEF AtSink
    <2> HIDE DEF task
    <2>2. task.op = op /\ task.at = at + 1 /\ task.attempt = 0
      BY <2>1
    <2>3. task \in Tasks({0})
      BY <1>3, <2>1 DEF Tasks
    <2>4. Sound(task)
      BY <1>3, <2>2 DEF Sound
    <2> QED
      BY <2>2, <2>3, <2>4 DEF task
  <1>5. /\ Task("fail", at) \in Tasks({0})
        /\ chain[at].kind = "stage" => Sound(Task("fail", at))
        /\ Task("fail", at).op = "fail" /\ Task("fail", at).attempt = 0
    <2> DEFINE task == Task("fail", at)
    <2>1. task = [op |-> "fail", at |-> at, item |-> <<>>, attempt |-> 0, left |-> 0]
      BY <1>2
    <2> HIDE DEF task
    <2>2. task.op = "fail" /\ task.at = at /\ task.attempt = 0
      BY <2>1
    <2>3. task \in Tasks({0})
      BY <1>3, <2>1 DEF Tasks, ItemOps
    <2>4. chain[at].kind = "stage" => Sound(task)
      BY <1>3, <2>2 DEF Sound, IsAt
    <2> QED
      BY <2>2, <2>3, <2>4 DEF task
  <1> QED
    BY <1>3, <1>4, <1>5

LEMMA PassesTyped ==
  ASSUME Typed, NEW n \in Nat, NEW at \in 1..AtSink, NEW item \in Seq(Pulled)
  PROVE  /\ Passes(n, at, item) \in Seq(Tasks({0})) /\ Len(Passes(n, at, item)) = n
         /\ \A k \in 1..n : LET task == Passes(n, at, item)[k] IN
               Sound(task) /\ task.op = "process" /\ task.attempt = 1
  <1>1. Len(chain) \in Nat
    BY DEF Typed, Built
  <1>2. Process(at, item) = [op |-> "process", at |-> at, item |-> item, attempt |-> 1, left |-> 0]
    BY TaskIs
  <1>3. /\ Process(at, item) \in Tasks({0}) /\ Sound(Process(at, item))
        /\ Process(at, item).op = "process" /\ Process(at, item).attempt = 1
    BY <1>1, <1>2 DEF Tasks, Sound, ItemOps, AtSink
  <1> HIDE DEF Process
  <1>4. Passes(n, at, item) \in [1..n -> Tasks({0})]
    BY <1>3 DEF Passes
  <1>5. Passes(n, at, item) \in Seq(Tasks({0})) /\ Len(Passes(n, at, item)) = n
    BY <1>4, IsASeq, LenProperties
  <1>6. \A k \in 1..n : Passes(n, at, item)[k] = Process(at, item)
    BY DEF Passes
  <1> QED
    BY <1>3, <1>5, <1>6

LEMMA HeadTyped ==
  ASSUME Typed, agenda # <<>>
  PROVE  /\ Sound(Top) /\ Top = agenda[1] /\ Len(agenda) \in Nat \ {0}
         /\ \E L : Top \in Tasks(L)
         /\ Top.item \in Seq(Pulled) /\ Top.at \in 0..AtSink /\ Top.attempt \in Nat
  <1>1. PICK L : agenda \in Seq(Tasks(L))
    BY DEF Typed, AgendaOK
  <1>2. Top = agenda[1] /\ Top \in Tasks(L) /\ Len(agenda) \in Nat \ {0}
    BY <1>1, TopIs
  <1>3. Sound(Top)
    BY <1>2 DEF Typed, AgendaOK
  <1>4. Top.item \in Seq(Pulled) /\ Top.at \in 0..AtSink /\ Top.attempt \in Nat
    BY <1>2 DEF Tasks
  <1> QED
    BY <1>2, <1>3, <1>4

\* Only items pass.
LEMMA PassesWork ==
  ASSUME Typed, NEW n \in Nat, NEW at \in 1..AtSink, NEW item \in Seq(Pulled)
  PROVE  Work(Passes(n, at, item)) /\ Calm(Passes(n, at, item))
  BY PassesTyped DEF Work, Calm, ItemOps

LEMMA EmptyWork == <<>> \in Seq(Tasks({0})) /\ Work(<<>>) /\ Calm(<<>>)
  BY DEF Work, Calm

\* Items, and a signal behind them or a failure.
LEMMA ThenTask ==
  ASSUME NEW items \in Seq(Tasks({0})), Work(items), Calm(items),
         NEW task \in Tasks({0}), Sound(task), task.attempt = 0
  PROVE  LET more == items \o <<task>> IN
         /\ more \in Seq(Tasks({0})) /\ Len(more) > 0
         /\ Append(items, task) = more
         /\ \A k \in 1..Len(more) : Sound(more[k])
         /\ task.op = "fail" => Work(more) /\ Calm(more)
         /\ task.op \in {"tick", "flush"} => Passing(more, Len(more), task.op)
  <1> DEFINE more == items \o <<task>>
             n == Len(items)
  <1>1. n \in Nat
    BY LenProperties
  <1>2. <<task>> \in Seq(Tasks({0})) /\ Len(<<task>>) = 1 /\ <<task>>[1] = task
    OBVIOUS
  <1>3. more \in Seq(Tasks({0})) /\ Len(more) = n + 1
    BY <1>1, <1>2, ConcatProperties
  <1>4. /\ \A k \in 1..n : more[k] = items[k]
        /\ more[n + 1] = task
    BY <1>1, <1>2, ConcatProperties
  <1>5. Append(items, task) = more
    BY AppendIsConcat
  <1>6. \A k \in 1..n : /\ items[k].op \in ItemOps /\ Sound(items[k])
                        /\ items[k].attempt <= 1 /\ items[k].op # "backoff"
    BY DEF Work, Calm
  <1> HIDE DEF more, n
  <1>7. \A k \in 1..(n + 1) : k \in 1..n \/ k = n + 1
    BY <1>1
  <1>8. \A k \in 1..n : /\ more[k].op \in ItemOps /\ Sound(more[k])
                        /\ more[k].attempt <= 1 /\ more[k].op # "backoff"
    BY <1>4, <1>6
  <1>9. \A k \in 1..(n + 1) : Sound(more[k])
    BY <1>4, <1>7, <1>8
  <1>10. task.op = "fail" => Work(more) /\ Calm(more)
    <2> SUFFICES ASSUME task.op = "fail", NEW k \in 1..(n + 1)
                 PROVE  more[k].op \in ItemOps /\ more[k].attempt <= 1 /\ more[k].op # "backoff"
      BY <1>3, <1>9 DEF Work, Calm
    <2>1. CASE k \in 1..n
      BY <1>8, <2>1
    <2>2. CASE k = n + 1
      BY <1>4, <2>2 DEF ItemOps
    <2> QED
      BY <1>7, <2>1, <2>2
  <1>11. task.op \in {"tick", "flush"} => Passing(more, n + 1, task.op)
    <2> SUFFICES ASSUME task.op \in {"tick", "flush"}, NEW k \in 1..(n + 1)
                 PROVE  /\ k < n + 1 => more[k].op \in ItemOps
                        /\ more[k].attempt <= 1 /\ more[k].op # "backoff"
      BY <1>4 DEF Passing
    <2>1. CASE k \in 1..n
      BY <1>8, <2>1
    <2>2. CASE k = n + 1
      BY <1>4, <2>2
    <2> QED
      BY <1>7, <2>1, <2>2
  <1>12. n + 1 > 0
    BY <1>1
  <1> QED
    BY <1>3, <1>5, <1>9, <1>10, <1>11, <1>12 DEF more

-----------------------------------------------------------------------------
(* The steps of the stages, as they look from the agenda: items replace an   *)
(* item, a signal is passed on, or a stage fails.                            *)

ItemStep ==
    /\ Top.op \in ItemOps
    /\ \E M : \E more \in Seq(Tasks(M)) : Work(more) /\ Calm(more) /\ Goes(more)
    /\ UNCHANGED <<tally, dlq, faults, failures>>

SignalStep ==
    /\ Top.op \in {"tick", "flush", "close", "abort"}
    /\ \E M : \E more \in Seq(Tasks(M)) :
          /\ \A k \in 1..Len(more) : Sound(more[k])
          /\ Passing(more, Len(more), Top.op)
          /\ Len(more) > 0
          /\ Goes(more)
    /\ UNCHANGED <<tally, dlq, faults, failures, tries>>

FailStep ==
    /\ Top.op \in ItemOps
    /\ \E at \in 1..Len(chain), item \in Seq(Pulled), attempts \in Nat : Fails(at, item, attempts)

\* A wait for another try, or that try.
RetryStep ==
    /\ Top.op \in ItemOps
    /\ \E M : \E task \in Tasks(M) :
          /\ task.op \in ItemOps /\ Sound(task)
          /\ task.op = "backoff" \/ task.attempt > 1
          /\ Goes(<<task>>)
    /\ UNCHANGED <<dlq, faults, failures>>

HeldBy(at) == held' = held \/ \E kept \in Seq(Pulled) : held' = [held EXCEPT ![at] = kept]

LEMMA AtStage ==
  ASSUME Typed, FlowInv, NEW op, NEW kinds, StageIs(op, kinds)
  PROVE  /\ agenda # <<>> /\ phase # "built" /\ Top.op = op
         /\ Top.at \in 1..Len(chain) /\ Top.at + 1 \in 1..AtSink /\ Top.item \in Seq(Pulled)
         /\ held[Top.at] \in Seq(Pulled)
         /\ "try_map_retry" \notin kinds => Owed = 0
  <1>1. /\ agenda # <<>> /\ Top.op = op /\ Top.at \in 1..Len(chain)
        /\ chain[Top.at].kind \in kinds
    BY DEF StageIs
  <1>2. phase # "built"
    BY <1>1 DEF FlowInv, Halted
  <1>3. Sound(Top) /\ Top.item \in Seq(Pulled) /\ Top.attempt \in Nat
    BY <1>1, HeadTyped
  <1>4. held[Top.at] \in Seq(Pulled)
    BY <1>1, <1>2 DEF Typed, Held
  <1>5. "try_map_retry" \notin kinds => Owed = 0
    BY <1>1, <1>3 DEF Sound, IsAt, Owed
  <1>6. Top.at + 1 \in 1..AtSink
    BY <1>1, TaskTyped
  <1> QED
    BY <1>1, <1>2, <1>3, <1>4, <1>5, <1>6

LEMMA MapItemForm ==
  ASSUME Typed, FlowInv, MapItem
  PROVE  ItemStep /\ Owed = 0 /\ held' = held /\ tries' = tries
  <1>1. /\ Top.op = "process" /\ Top.at + 1 \in 1..AtSink /\ Top.item \in Seq(Pulled) /\ Owed = 0
    BY AtStage DEF MapItem
  <1>2. PICK n \in Outputs(Top.item) : Goes(Passes(n, Top.at + 1, Top.item))
    BY DEF MapItem
  <1>3. n \in Nat
    BY FlowAssumption DEF Outputs
  <1>4. /\ Passes(n, Top.at + 1, Top.item) \in Seq(Tasks({0}))
        /\ Work(Passes(n, Top.at + 1, Top.item)) /\ Calm(Passes(n, Top.at + 1, Top.item))
    BY <1>1, <1>3, PassesTyped, PassesWork
  <1> QED
    BY <1>1, <1>2, <1>4 DEF ItemStep, ItemOps, MapItem

LEMMA TryItemForm ==
  ASSUME Typed, FlowInv, TryItem
  PROVE  (ItemStep \/ FailStep) /\ Owed = 0 /\ held' = held /\ tries' = tries
  <1>1. /\ Top.op = "process" /\ Top.at + 1 \in 1..AtSink /\ Top.item \in Seq(Pulled) /\ Owed = 0
        /\ Top.at \in 1..Len(chain)
    BY AtStage DEF TryItem
  <1>2. /\ Passes(1, Top.at + 1, Top.item) \in Seq(Tasks({0}))
        /\ Work(Passes(1, Top.at + 1, Top.item)) /\ Calm(Passes(1, Top.at + 1, Top.item))
    BY <1>1, PassesTyped, PassesWork
  <1>3. held' = held /\ tries' = tries
    BY DEF TryItem
  <1>4. CASE Goes(Passes(1, Top.at + 1, Top.item)) /\ UNCHANGED <<tally, dlq, faults, failures>>
    BY <1>1, <1>2, <1>3, <1>4 DEF ItemStep, ItemOps
  <1>5. CASE Fails(Top.at, Top.item, 1)
    BY <1>1, <1>3, <1>5 DEF FailStep, ItemOps
  <1> QED
    BY <1>1, <1>3, <1>4, <1>5 DEF TryItem

LEMMA StageItemForm ==
  ASSUME Typed, FlowInv, StageItem
  PROVE  ItemStep /\ Owed = 0 /\ held' = held /\ tries' = tries
  <1>1. /\ Top.op = "process" /\ Top.at + 1 \in 1..AtSink /\ Top.item \in Seq(Pulled) /\ Owed = 0
        /\ Top.at \in 1..Len(chain)
    BY AtStage DEF StageItem
  <1>2. chain[Top.at].kind = "stage"
    BY DEF StageItem, StageIs
  <1>3. PICK n \in 0..1, fails \in {<<>>, <<Task("fail", Top.at)>>} :
          Goes(Passes(n, Top.at + 1, Top.item) \o fails)
    BY DEF StageItem
  <1> DEFINE passes == Passes(n, Top.at + 1, Top.item)
  <1>4. passes \in Seq(Tasks({0})) /\ Work(passes) /\ Calm(passes) /\ passes \o <<>> = passes
    BY <1>1, PassesTyped, PassesWork, ConcatEmptySeq
  <1>5. /\ Task("fail", Top.at) \in Tasks({0}) /\ Sound(Task("fail", Top.at))
        /\ Task("fail", Top.at).attempt = 0 /\ Task("fail", Top.at).op = "fail"
    BY <1>1, <1>2, TaskTyped
  <1>6. /\ passes \o <<Task("fail", Top.at)>> \in Seq(Tasks({0}))
        /\ Work(passes \o <<Task("fail", Top.at)>>) /\ Calm(passes \o <<Task("fail", Top.at)>>)
    <2> DEFINE fail == Task("fail", Top.at)
    <2>1. n \in Nat /\ fail \in Tasks({0}) /\ Sound(fail) /\ fail.attempt = 0 /\ fail.op = "fail"
      BY <1>5
    <2> HIDE DEF fail
    <2>2. passes \o <<fail>> \in Seq(Tasks({0})) /\ Work(passes \o <<fail>>) /\ Calm(passes \o <<fail>>)
      BY <1>4, <2>1, ThenTask
    <2> QED
      BY <2>2 DEF fail
  <1>7. UNCHANGED <<held, tally, dlq, faults, failures, tries>>
    BY DEF StageItem
  <1>8. \E more \in Seq(Tasks({0})) : Work(more) /\ Calm(more) /\ Goes(more)
    <2> HIDE DEF passes
    <2>1. CASE fails = <<>>
      BY <1>3, <1>4, <2>1 DEF passes
    <2>2. CASE fails = <<Task("fail", Top.at)>>
      BY <1>3, <1>6, <2>2 DEF passes
    <2> QED
      BY <2>1, <2>2
  <1> QED
    BY <1>1, <1>7, <1>8 DEF ItemStep, ItemOps

LEMMA StageFailsForm ==
  ASSUME Typed, FlowInv, StageFails
  PROVE  FailStep /\ Owed = 0 /\ held' = held /\ tries' = tries
  <1>1. Top.op = "fail" /\ Top.at \in 1..Len(chain) /\ Owed = 0
    BY AtStage DEF StageFails
  <1>2. <<>> \in Seq(Pulled) /\ Fails(Top.at, <<>>, 1) /\ held' = held /\ tries' = tries
    BY DEF StageFails
  <1> QED
    BY <1>1, <1>2 DEF FailStep, ItemOps

LEMMA GroupItemForm ==
  ASSUME Typed, FlowInv, GroupItem
  PROVE  ItemStep /\ Owed = 0 /\ tries' = tries /\ HeldBy(Top.at) /\ Top.at \in 1..Len(chain)
  <1>1. /\ Top.op = "process" /\ Top.at + 1 \in 1..AtSink /\ Top.item \in Seq(Pulled) /\ Owed = 0
        /\ Top.at \in 1..Len(chain) /\ held[Top.at] \in Seq(Pulled)
    BY AtStage DEF GroupItem
  <1>2. held[Top.at] \o Top.item \in Seq(Pulled) /\ <<>> \in Seq(Pulled)
    BY <1>1, ConcatProperties
  <1>3. \A item \in Seq(Pulled) :
          /\ Passes(1, Top.at + 1, item) \in Seq(Tasks({0}))
          /\ Work(Passes(1, Top.at + 1, item)) /\ Calm(Passes(1, Top.at + 1, item))
    BY <1>1, PassesTyped, PassesWork
  <1>4. UNCHANGED <<tally, dlq, faults, failures, tries>>
    BY DEF GroupItem
  <1>5. /\ \E kept \in Seq(Pulled) : held' = [held EXCEPT ![Top.at] = kept]
        /\ \E more \in Seq(Tasks({0})) : Work(more) /\ Calm(more) /\ Goes(more)
    <2> DEFINE with == held[Top.at] \o Top.item
    <2>1. CASE held' = [held EXCEPT ![Top.at] = with] /\ Goes(<<>>)
      BY <1>2, <2>1, EmptyWork
    <2>2. CASE held' = [held EXCEPT ![Top.at] = <<>>] /\ Goes(Passes(1, Top.at + 1, with))
      BY <1>2, <1>3, <2>2
    <2>3. CASE held' = [held EXCEPT ![Top.at] = Top.item]
               /\ Goes(Passes(1, Top.at + 1, held[Top.at]))
      BY <1>1, <1>3, <2>3
    <2> QED
      BY <2>1, <2>2, <2>3 DEF GroupItem
  <1> QED
    BY <1>1, <1>4, <1>5 DEF ItemStep, ItemOps, HeldBy

LEMMA OneTask ==
  ASSUME Typed, NEW op \in {"tick", "flush", "close", "abort"}, NEW at \in 1..Len(chain)
  PROVE  LET more == <<Task(op, at + 1)>> IN
         /\ more \in Seq(Tasks({0})) /\ Len(more) > 0
         /\ \A k \in 1..Len(more) : Sound(more[k])
         /\ Passing(more, Len(more), op)
  <1> DEFINE task == Task(op, at + 1)
  <1>1. task \in Tasks({0}) /\ Sound(task) /\ task.op = op /\ task.attempt = 0
    BY TaskTyped
  <1> HIDE DEF task
  <1>2. <<task>> \in Seq(Tasks({0})) /\ Len(<<task>>) = 1 /\ <<task>>[1] = task
    BY <1>1
  <1> QED
    BY <1>1, <1>2 DEF Passing, task

LEMMA SignalForm ==
  ASSUME Typed, FlowInv, Signal
  PROVE  SignalStep /\ Owed = 0 /\ held' = held
  <1>1. PICK op \in {"tick", "flush", "close", "abort"} : StageIs(op, Transforms)
    BY DEF Signal, StageIs
  <1>2. /\ agenda # <<>> /\ Top.op = op /\ Top.at \in 1..Len(chain)
    BY <1>1 DEF StageIs
  <1>3. Owed = 0
    BY <1>2, HeadTyped DEF Owed, Sound, ItemOps
  <1> QED
    BY <1>2, <1>3, OneTask DEF Signal, SignalStep

LEMMA StageSignalForm ==
  ASSUME Typed, FlowInv, StageSignal
  PROVE  SignalStep /\ Owed = 0 /\ held' = held
  <1>1. PICK op \in {"tick", "flush"} : StageIs(op, {"stage"})
    BY DEF StageSignal
  <1>2. /\ agenda # <<>> /\ Top.op = op /\ Top.at \in 1..Len(chain)
        /\ chain[Top.at].kind = "stage"
    BY <1>1 DEF StageIs
  <1>3. Owed = 0
    BY <1>2 DEF Owed, ItemOps
  <1> DEFINE fail == Task("fail", Top.at)
             next == Task(Top.op, Top.at + 1)
  <1>4. PICK fails \in {<<>>, <<fail>>} : Goes(fails \o <<next>>)
    BY DEF StageSignal
  <1>5. /\ fail \in Tasks({0}) /\ Sound(fail) /\ fail.op = "fail" /\ fail.attempt = 0
        /\ next \in Tasks({0}) /\ Sound(next) /\ next.op = op /\ next.attempt = 0
    BY <1>2, TaskTyped
  <1> HIDE DEF fail, next
  <1>6. fails \in Seq(Tasks({0})) /\ Work(fails) /\ Calm(fails)
    <2>1. CASE fails = <<>>
      BY <2>1, EmptyWork
    <2>2. CASE fails = <<fail>>
      BY <1>5, <2>2 DEF Work, Calm, ItemOps
    <2> QED
      BY <2>1, <2>2
  <1>7. \E more \in Seq(Tasks({0})) :
          /\ \A k \in 1..Len(more) : Sound(more[k])
          /\ Passing(more, Len(more), Top.op)
          /\ Len(more) > 0
          /\ Goes(more)
    BY <1>2, <1>4, <1>5, <1>6, ThenTask
  <1> QED
    BY <1>2, <1>3, <1>7 DEF StageSignal, SignalStep

LEMMA GroupSignalForm ==
  ASSUME Typed, FlowInv, GroupTick \/ GroupFlush
  PROVE  SignalStep /\ Owed = 0 /\ HeldBy(Top.at) /\ Top.at \in 1..Len(chain)
  <1>1. PICK op \in {"tick", "flush"} : StageIs(op, {"group"})
    BY DEF GroupTick, GroupFlush
  <1>2. /\ agenda # <<>> /\ Top.op = op /\ Top.at \in 1..Len(chain)
        /\ Top.at + 1 \in 1..AtSink /\ held[Top.at] \in Seq(Pulled)
    BY <1>1, AtStage
  <1>3. Owed = 0
    BY <1>2 DEF Owed, ItemOps
  <1> DEFINE next == Task(Top.op, Top.at + 1)
  <1>4. next \in Tasks({0}) /\ Sound(next) /\ next.op = op /\ next.attempt = 0
    BY <1>2, TaskTyped
  <1>5. PICK items \in Seq(Tasks({0})) :
          /\ Work(items) /\ Calm(items)
          /\ (Goes(<<next>>) /\ items = <<>>) \/ Goes(Append(items, next))
    <2>1. \A n \in Nat : /\ Passes(n, Top.at + 1, held[Top.at]) \in Seq(Tasks({0}))
                         /\ Work(Passes(n, Top.at + 1, held[Top.at]))
                         /\ Calm(Passes(n, Top.at + 1, held[Top.at]))
      BY <1>2, PassesTyped, PassesWork
    <2>2. \/ Goes(<<next>>)
          \/ \E n \in Nat : Goes(Append(Passes(n, Top.at + 1, held[Top.at]), next))
      <3>1. CASE GroupTick
        <4>1. Top.op = "tick"
          BY <3>1 DEF GroupTick, StageIs
        <4> QED
          BY <3>1, <4>1 DEF GroupTick
      <3>2. CASE GroupFlush
        <4>1. Top.op = "flush" /\ Goes(EmitThenFlush(Top.at))
          BY <3>2 DEF GroupFlush, StageIs
        <4> QED
          BY <4>1 DEF EmitThenFlush
      <3> QED
        BY <3>1, <3>2
    <2> HIDE DEF next
    <2> QED
      BY <2>1, <2>2, EmptyWork
  <1> HIDE DEF next
  <1>6. \E more \in Seq(Tasks({0})) :
          /\ \A k \in 1..Len(more) : Sound(more[k])
          /\ Passing(more, Len(more), Top.op)
          /\ Len(more) > 0
          /\ Goes(more)
    <2>1. <<>> \o <<next>> = <<next>>
      BY <1>4, ConcatEmptySeq
    <2> QED
      BY <1>2, <1>4, <1>5, <2>1, ThenTask
  <1>7. UNCHANGED <<tally, dlq, faults, failures, tries>>
    BY DEF GroupTick, GroupFlush
  <1>8. \E kept \in Seq(Pulled) : held' = held \/ held' = [held EXCEPT ![Top.at] = kept]
    <2>1. <<>> \in Seq(Pulled)
      OBVIOUS
    <2> QED
      BY <2>1 DEF GroupTick, GroupFlush
  <1> QED
    BY <1>2, <1>3, <1>6, <1>7, <1>8 DEF SignalStep, HeldBy

\* What try_map_retry does next with an item.
LEMMA NextTry ==
  ASSUME Typed, FlowInv, agenda # <<>>, Top.at \in 1..Len(chain), Top.op \in ItemOps,
         chain[Top.at].kind = "try_map_retry",
         NEW op \in {"process", "backoff"}, NEW attempt \in Nat \ {0}, NEW left,
         op = "process" => attempt <= MaxAttempts(Top.at),
         op = "backoff" => attempt < MaxAttempts(Top.at),
         op = "backoff" \/ attempt > 1,
         Goes(<<[Top EXCEPT !.op = op, !.attempt = attempt, !.left = left]>>),
         UNCHANGED <<dlq, faults, failures>>
  PROVE  RetryStep
  <1> DEFINE task == [Top EXCEPT !.op = op, !.attempt = attempt, !.left = left]
  <1>1. /\ Top.item \in Seq(Pulled) /\ Top.at # 0 /\ Top.at \in 0..AtSink
        /\ \E L : Top \in Tasks(L)
    BY HeadTyped
  <1>2. MaxAttempts(Top.at) \in Nat
    <2>1. chain[Top.at].retry \in Retries
      BY DEF Typed, Built
    <2> QED
      BY <2>1, BuilderAssumption DEF MaxAttempts, RetryPolicies
  <1>3. task = [op |-> op, at |-> Top.at, item |-> Top.item, attempt |-> attempt, left |-> left]
    <2>1. PICK L : Top \in Tasks(L)
      BY <1>1
    <2>2. Top = [op |-> Top.op, at |-> Top.at, item |-> Top.item, attempt |-> Top.attempt,
                 left |-> Top.left]
      BY <2>1 DEF Tasks
    <2> DEFINE t1 == [Top EXCEPT !.op = op]
               t2 == [t1 EXCEPT !.attempt = attempt]
    <2>5. task = [t2 EXCEPT !.left = left]
      OBVIOUS
    <2>3. t1 = [op |-> op, at |-> Top.at, item |-> Top.item, attempt |-> Top.attempt,
                left |-> Top.left]
      BY <2>2
    <2> HIDE DEF t1
    <2>4. t2 = [op |-> op, at |-> Top.at, item |-> Top.item, attempt |-> attempt,
                left |-> Top.left]
      BY <2>3
    <2> HIDE DEF task, t1, t2
    <2> QED
      BY <2>4, <2>5
  <1>4. Goes(<<task>>)
    OBVIOUS
  <1> HIDE DEF task
  <1>5. task \in Tasks({left})
    BY <1>1, <1>3 DEF Tasks, ItemOps
  <1>6. task.op = op /\ task.at = Top.at /\ task.attempt = attempt
    BY <1>3
  <1>7. Sound(task) /\ task.op \in ItemOps
    BY <1>1, <1>2, <1>6 DEF Sound, IsAt, ItemOps
  <1> QED
    BY <1>4, <1>5, <1>6, <1>7 DEF RetryStep

LEMMA RetryItemForm ==
  ASSUME Typed, FlowInv, RetryItem
  PROVE  /\ agenda # <<>> /\ Tried /\ held' = held
         /\ Top.attempt \in Nat \ {0} /\ Owed = (IF Top.attempt > 1 THEN 1 ELSE 0)
         /\ \/ ItemStep
            \/ RetryStep /\ tally' = [tally EXCEPT !.retries = @ + 1]
            \/ FailStep
  <1>1. /\ Top.op = "process" /\ Top.at + 1 \in 1..AtSink /\ Top.item \in Seq(Pulled)
        /\ Top.at \in 1..Len(chain) /\ agenda # <<>>
    BY AtStage DEF RetryItem
  <1>2. chain[Top.at].kind = "try_map_retry"
    BY DEF RetryItem, StageIs
  <1>3. Top.attempt \in Nat \ {0} /\ (\E L : Top \in Tasks(L)) /\ Sound(Top)
    BY <1>1, HeadTyped DEF Sound
  <1>4. Owed = (IF Top.attempt > 1 THEN 1 ELSE 0)
    BY <1>1, <1>3 DEF Owed, ItemOps
  <1>5. Tried /\ held' = held
    BY DEF RetryItem
  <1>6. CASE Goes(Passes(1, Top.at + 1, Top.item)) /\ UNCHANGED <<tally, dlq, faults, failures>>
    <2>1. /\ Passes(1, Top.at + 1, Top.item) \in Seq(Tasks({0}))
          /\ Work(Passes(1, Top.at + 1, Top.item)) /\ Calm(Passes(1, Top.at + 1, Top.item))
      BY <1>1, PassesTyped, PassesWork
    <2> QED
      BY <1>1, <1>3, <1>4, <1>5, <1>6, <2>1 DEF ItemStep, ItemOps
  <1>7. CASE /\ Top.attempt < MaxAttempts(Top.at)
             /\ tally' = [tally EXCEPT !.retries = @ + 1]
             /\ \E delay : Goes(<<[Top EXCEPT !.op = "backoff", !.left = delay]>>)
             /\ UNCHANGED <<dlq, faults, failures>>
    <2>1. PICK delay : Goes(<<[Top EXCEPT !.op = "backoff", !.left = delay]>>)
      BY <1>7
    <2>2. [Top EXCEPT !.op = "backoff", !.left = delay]
            = [Top EXCEPT !.op = "backoff", !.attempt = Top.attempt, !.left = delay]
      BY <1>3 DEF Tasks
    <2>3. RetryStep
      <3> DEFINE task == [Top EXCEPT !.op = "backoff", !.attempt = Top.attempt, !.left = delay]
      <3>1. Goes(<<task>>) /\ Top.op \in ItemOps
        BY <1>1, <2>1, <2>2 DEF ItemOps
      <3> QED
        BY <1>1, <1>2, <1>3, <1>7, <3>1, NextTry
    <2> QED
      BY <1>1, <1>3, <1>4, <1>5, <1>7, <2>3
  <1>8. CASE Fails(Top.at, Top.item, Top.attempt)
    BY <1>1, <1>3, <1>4, <1>5, <1>8 DEF FailStep, ItemOps
  <1> QED
    BY <1>6, <1>7, <1>8 DEF RetryItem, MaxAttempts

LEMMA BackoffForm ==
  ASSUME Typed, FlowInv, Backoff
  PROVE  /\ agenda # <<>> /\ held' = held /\ tries' = tries /\ Owed = 1
         /\ \/ cancelled /\ FailStep
            \/ RetryStep /\ tally' = tally
  <1>1. /\ Top.op = "backoff" /\ Top.at + 1 \in 1..AtSink /\ Top.item \in Seq(Pulled)
        /\ Top.at \in 1..Len(chain) /\ agenda # <<>>
    BY AtStage DEF Backoff
  <1>2. chain[Top.at].kind = "try_map_retry" /\ held' = held /\ tries' = tries
    BY DEF Backoff, StageIs
  <1>3. /\ Top.attempt \in Nat \ {0} /\ (\E L : Top \in Tasks(L))
        /\ Top.attempt < MaxAttempts(Top.at) /\ Top.op \in ItemOps
    BY <1>1, HeadTyped DEF Sound, ItemOps
  <1>4. Owed = 1
    BY <1>1 DEF Owed, ItemOps
  <1>5. CASE cancelled /\ Fails(Top.at, Top.item, Top.attempt)
    BY <1>1, <1>2, <1>3, <1>4, <1>5 DEF FailStep
  <1>6. CASE Goes(<<[Top EXCEPT !.left = Slept(@)]>>) /\ UNCHANGED <<tally, dlq, faults, failures>>
    <2> DEFINE left == Slept(Top.left)
    <2>1. [Top EXCEPT !.left = Slept(@)]
            = [Top EXCEPT !.op = "backoff", !.attempt = Top.attempt, !.left = left]
      <3>1. Top = [Top EXCEPT !.op = "backoff"]
        BY <1>1, <1>3 DEF Tasks
      <3>2. Top = [Top EXCEPT !.op = "backoff", !.attempt = Top.attempt]
        BY <1>1, <1>3, <3>1 DEF Tasks
      <3> HIDE DEF left
      <3>3. [Top EXCEPT !.left = left]
              = [Top EXCEPT !.op = "backoff", !.attempt = Top.attempt, !.left = left]
        BY <1>1, <1>3, <3>2 DEF Tasks
      <3> QED
        BY <3>3 DEF left
    <2>2. RetryStep
      <3> HIDE DEF left
      <3> DEFINE task == [Top EXCEPT !.op = "backoff", !.attempt = Top.attempt, !.left = left]
      <3>1. Goes(<<task>>)
        BY <1>6, <2>1
      <3> QED
        BY <1>1, <1>2, <1>3, <1>6, <3>1, NextTry
    <2> QED
      BY <1>1, <1>2, <1>4, <1>6, <2>2
  <1>7. CASE /\ Goes(<<[Top EXCEPT !.op = "process", !.attempt = @ + 1]>>)
             /\ UNCHANGED <<tally, dlq, faults, failures>>
    <2> DEFINE next == Top.attempt + 1
    <2>1. next \in Nat \ {0} /\ next > 1 /\ next <= MaxAttempts(Top.at)
      <3>1. MaxAttempts(Top.at) \in Nat
        <4>1. chain[Top.at].retry \in Retries
          BY <1>1, <1>2 DEF Typed, Built
        <4> QED
          BY <4>1, BuilderAssumption DEF MaxAttempts, RetryPolicies
      <3> QED
        BY <1>3, <3>1
    <2>2. [Top EXCEPT !.op = "process", !.attempt = @ + 1]
            = [Top EXCEPT !.op = "process", !.attempt = next, !.left = Top.left]
      BY <1>3 DEF Tasks
    <2> HIDE DEF next
    <2>3. RetryStep
      <3> DEFINE task == [Top EXCEPT !.op = "process", !.attempt = next, !.left = Top.left]
      <3>1. Goes(<<task>>)
        BY <1>7, <2>2
      <3> QED
        BY <1>1, <1>2, <1>3, <1>7, <2>1, <3>1, NextTry
    <2> QED
      BY <1>1, <1>2, <1>4, <1>7, <2>3
  <1> QED
    BY <1>5, <1>6, <1>7 DEF Backoff

-----------------------------------------------------------------------------
(* Each step keeps the types and the teardown's order.                      *)

Typing == FlowInv /\ Typed /\ Ends /\ SourceEnds

LEMMA BuiltStays ==
  ASSUME Built, UNCHANGED <<chain, error_policy, pending_stage_id, config_error, made>>,
         phase # "built", phase' # "built", phase = "ended" => phase' = "ended",
         first_error' = first_error \/ \E e : e.from # "config" /\ first_error' = Offer(e)
  PROVE  Built'
  <1>1. first_error'.from = "config" <=> first_error.from = "config"
    BY DEF Built, Offer, NoFailure, Error, None
  <1>2. /\ first_error'.from = "config" <=> made' = "started" /\ config_error' # NoError
        /\ first_error'.from = "config" => phase' = "ended"
    BY <1>1 DEF Built
  <1>3. /\ chain' \in Seq(Links)
        /\ error_policy' \in ErrorPolicies /\ pending_stage_id' \in Names \cup {None}
        /\ \A at \in 1..Len(chain') : chain'[at].kind = "try_map_retry" =>
              /\ chain'[at].retry \in Retries
              /\ config_error' = NoError => MaxAttempts(at)' > 0
        /\ made' \in {"building", "pipeline", "refused", "started"}
        /\ made' = "started" <=> phase' # "built"
    BY DEF Built, MaxAttempts
  <1> QED
    BY <1>2, <1>3 DEF Built

LEMMA HeldStays ==
  ASSUME Typed, phase # "built", phase' # "built", chain' = chain,
         tally'.items_in = tally.items_in,
         held' = held \/ (Top.at \in 1..Len(chain) /\ HeldBy(Top.at))
  PROVE  Held'
  <1>1. held \in [1..Len(chain) -> Seq(Pulled)]
    BY DEF Typed, Held
  <1>2. Pulled' = Pulled
    BY DEF Pulled
  <1>3. held' \in [1..Len(chain) -> Seq(Pulled)]
    BY <1>1 DEF HeldBy
  <1> QED
    BY <1>2, <1>3 DEF Held

LEMMA HaltTyped ==
  ASSUME Typed, FlowInv, phase \in {"pump", "switch", "flush", "close", "abort"},
         NEW error, error.from \in {"source", "stage", "sink"}, Halt(error),
         UNCHANGED builderVars, tally'.items_in = tally.items_in
  PROVE  /\ AgendaOK' /\ Built' /\ Owed' = 0
         /\ first_error'.from \in {None, "config", "source", "stage", "sink"}
         /\ phase' = (IF phase \in {"pump", "switch", "flush"} THEN "abort" ELSE "rest")
         /\ phase' = "abort" => Len(agenda') = 2
  <1>1. first_error' = Offer(error)
    BY DEF Halt
  <1>2. first_error'.from \in {None, "config", "source", "stage", "sink"}
    BY <1>1 DEF Offer, Typed, Flags
  <1>3. phase' = (IF phase \in {"pump", "switch", "flush"} THEN "abort" ELSE "rest")
    BY DEF Halt
  <1>4. UNCHANGED <<chain, error_policy, pending_stage_id, config_error, made>>
    BY DEF builderVars
  <1>5. Built'
    BY <1>1, <1>3, <1>4, BuiltStays DEF Typed
  <1>6. CASE phase' = "abort"
    <2>1. agenda' = Call("abort", <<>>)
      BY <1>3, <1>6 DEF Halt
    <2>2. tally'.items_in \in Nat /\ <<>> \in Seq(1..tally'.items_in)
      BY DEF FlowInv, Counted, Tally
    <2>3. AgendaOK' /\ Len(agenda') = 2 /\ Owed' = 0
      BY <1>4, <1>6, <2>1, <2>2, CallTyped DEF Typed, Starts
    <2> QED
      BY <1>2, <1>3, <1>5, <2>3
  <1>7. CASE phase' = "rest"
    <2>1. agenda' = <<>> /\ Len(<<>>) = 0
      BY <1>3, <1>7 DEF Halt
    <2>2. Stacked'
      BY <1>7, <2>1 DEF Stacked, Stack
    <2>3. (\E L : agenda \in Seq(Tasks(L)))'
      BY <2>1
    <2>4. (\A k \in 1..Len(agenda) : Sound(agenda[k]))'
      BY <2>1
    <2>5. Owed' = 0
      BY <2>1 DEF Owed
    <2> QED
      BY <1>2, <1>3, <1>5, <1>7, <2>2, <2>3, <2>4, <2>5 DEF AgendaOK
  <1> QED
    BY <1>3, <1>6, <1>7

\* The parts that a step of a stage can disturb.
LEMMA AtItem ==
  ASSUME Typing, agenda # <<>>, Top.op \in ItemOps
  PROVE  /\ phase \in {"pump", "flush"} /\ first_error = NoFailure
         /\ Len(agenda) > 1 /\ ~sink_done.flush /\ ~sink_done.close
  <1>1. Busy /\ first_error = NoFailure
    BY AtWork DEF Typing, ItemOps
  <1>2. Top = agenda[1] /\ Len(agenda) \in Nat \ {0}
    BY HeadTyped DEF Typing
  <1>3. Len(agenda) > 1
    BY <1>2 DEF Typing, Typed, AgendaOK, Stacked, Stack, ItemOps
  <1>4. phase # "close"
    BY <1>2, <1>3 DEF Typing, Typed, AgendaOK, Stacked, Stack, Signals, ItemOps
  <1>5. phase \in {"pump", "flush"}
    BY <1>1, <1>4 DEF Busy
  <1>6. ~sink_done.flush
    <2>1. Len(agenda) # 1
      BY <1>3
    <2>2. phase = "flush" => (sink_done.flush <=> Len(agenda) = 1)
      BY Zenon DEF Typing, Ends
    <2>3. phase = "pump" => ~sink_done.flush
      BY Zenon DEF Typing, Ends
    <2> QED
      BY <1>5, <2>1, <2>2, <2>3, Zenon
  <1>7. ~sink_done.close
    BY <1>6, Zenon DEF Typing, Ends
  <1> QED
    BY <1>1, <1>3, <1>5, <1>6, <1>7

LEMMA FailsTyped ==
  ASSUME Typing, agenda # <<>>, FailStep, UNCHANGED builderVars
  PROVE  /\ AgendaOK' /\ Built' /\ Owed' = 0
         /\ first_error'.from \in {None, "config", "source", "stage", "sink"}
         /\ \/ phase' = phase /\ Len(agenda') > 0 /\ (Len(agenda') = 1 => phase = "pump")
            \/ phase' = "abort" /\ Len(agenda') = 2
         /\ faults' \in 0..MaxFaults /\ tally'.items_in = tally.items_in
  <1>1. PICK at \in 1..Len(chain), item \in Seq(Pulled), attempts \in Nat : Fails(at, item, attempts)
    BY DEF FailStep
  <1>2. Top.op \in ItemOps
    BY DEF FailStep
  <1>3. phase \in {"pump", "flush"}
    BY <1>2, AtItem
  <1>4. tally'.items_in = tally.items_in
    BY <1>1 DEF Fails, Route, Typing, FlowInv, Counted, Tally
  <1>5. faults' \in 0..MaxFaults
    BY <1>1, FlowAssumption DEF Fails, Route, Fault, Typing, Typed, Flags
  <1>6. UNCHANGED <<chain, error_policy, pending_stage_id, config_error, made>>
    BY DEF builderVars
  <1>7. CASE Goes(<<>>)
    <2>1. agenda' = <<>> \o Under /\ phase' = phase /\ first_error' = first_error
      BY <1>7 DEF Goes
    <2>2. /\ AgendaOK' /\ Len(agenda') > 0 /\ (Len(agenda') = 1 => phase = "pump")
          /\ Owed' = 0
      BY <1>2, <1>3, <1>4, <1>6, <2>1, EmptyWork, ItemsGo DEF Typing, Typed, Phases
    <2>3. Built'
      BY <1>3, <1>6, <2>1, BuiltStays DEF Typing, Typed
    <2> QED
      BY <1>4, <1>5, <2>1, <2>2, <2>3 DEF Typing, Typed, Flags
  <1>8. CASE \E from \in {"stage", "sink"} : \E id : Halt(Error(from, id))
    <2>0. PICK from \in {"stage", "sink"} : \E id : Halt(Error(from, id))
      BY <1>8
    <2>1. PICK id : Halt(Error(from, id))
      BY <2>0
    <2>2. Error(from, id).from \in {"source", "stage", "sink"}
      BY DEF Error
    <2> QED
      BY <1>3, <1>4, <1>5, <2>1, <2>2, HaltTyped DEF Typing
  <1> QED
    BY <1>1, <1>7, <1>8 DEF Fails, Route

LEMMA RetryGoes ==
  ASSUME Typing, agenda # <<>>, RetryStep, UNCHANGED chain, tally'.items_in = tally.items_in
  PROVE  /\ AgendaOK' /\ Len(agenda') > 0 /\ (Len(agenda') = 1 => phase = "pump")
         /\ Owed' = 1
  <1>0. PICK M : \E task \in Tasks(M) :
          /\ task.op \in ItemOps /\ Sound(task)
          /\ task.op = "backoff" \/ task.attempt > 1
          /\ Goes(<<task>>)
    BY DEF RetryStep
  <1>1. PICK task \in Tasks(M) :
          /\ task.op \in ItemOps /\ Sound(task)
          /\ task.op = "backoff" \/ task.attempt > 1
          /\ Goes(<<task>>)
    BY <1>0
  <1>2. PICK L : agenda \in Seq(Tasks(L))
    BY DEF Typing, Typed, AgendaOK
  <1>3. <<task>> \in Seq(Tasks(M)) /\ Len(<<task>>) = 1 /\ <<task>>[1] = task
    OBVIOUS
  <1>4. agenda' = <<task>> \o Under /\ phase' = phase
    BY <1>1 DEF Goes
  <1>5. Work(<<task>>)
    BY <1>1, <1>3 DEF Work
  <1>6. AgendaOK' /\ Len(agenda') > 0 /\ (Len(agenda') = 1 => phase = "pump")
    BY <1>3, <1>4, <1>5, ItemsGo DEF Typing, Typed, FlowInv, RetryStep
  <1>7. /\ agenda \in Seq(Tasks(L \cup M)) /\ <<task>> \in Seq(Tasks(L \cup M))
    BY <1>2, <1>3, Widen
  <1> DEFINE T == Tasks(L \cup M)
             more == <<task>>
  <1>8. agenda' \in Seq(T) /\ agenda'[1] = task
    <2>1. agenda \in Seq(T) /\ more \in Seq(T) /\ agenda' = more \o Under
          /\ Len(more) = 1 /\ more[1] = task
      BY <1>3, <1>4, <1>7
    <2> HIDE DEF T, more
    <2>2. agenda' \in Seq(T) /\ \A k \in 1..Len(more) : agenda'[k] = more[k]
      BY <2>1, Replaced
    <2>3. 1 \in 1..Len(more) /\ more[1] = task
      BY <2>1
    <2> HIDE <2>1
    <2> QED
      BY <2>2, <2>3
  <1> HIDE DEF T
  <1>9. agenda' # <<>>
    BY <1>6
  <1>10. Head(agenda') = task
    BY <1>8, <1>9, HeadIs
  <1> QED
    BY <1>1, <1>6, <1>9, <1>10 DEF Owed, Top

LEMMA StageForms ==
  ASSUME Typing, Stages
  PROVE  /\ agenda # <<>> /\ UNCHANGED Outside
         /\ held' = held \/ (Top.at \in 1..Len(chain) /\ HeldBy(Top.at))
         /\ \/ ItemStep /\ Owed = 0 /\ tries' = tries
            \/ SignalStep /\ Owed = 0
            \/ FailStep /\ Owed = 0 /\ tries' = tries
            \/ /\ Tried /\ Top.attempt \in Nat \ {0}
               /\ Owed = (IF Top.attempt > 1 THEN 1 ELSE 0)
               /\ \/ ItemStep
                  \/ RetryStep /\ tally' = [tally EXCEPT !.retries = @ + 1]
                  \/ FailStep
            \/ /\ Owed = 1 /\ tries' = tries
               /\ \/ cancelled /\ FailStep
                  \/ RetryStep /\ tally' = tally
  <1>1. agenda # <<>> /\ UNCHANGED Outside
    BY DEF Stages, MapItem, TryItem, StageItem, StageFails, GroupItem, Signal, StageSignal,
           GroupTick, GroupFlush, RetryItem, Backoff, StageIs
  <1>2. CASE MapItem
    BY <1>1, <1>2, MapItemForm DEF Typing
  <1>3. CASE TryItem
    BY <1>1, <1>3, TryItemForm DEF Typing
  <1>4. CASE StageItem
    BY <1>1, <1>4, StageItemForm DEF Typing
  <1>5. CASE StageFails
    BY <1>1, <1>5, StageFailsForm DEF Typing
  <1>6. CASE GroupItem
    BY <1>1, <1>6, GroupItemForm DEF Typing
  <1>7. CASE Signal
    BY <1>1, <1>7, SignalForm DEF Typing
  <1>8. CASE StageSignal
    BY <1>1, <1>8, StageSignalForm DEF Typing
  <1>9. CASE GroupTick \/ GroupFlush
    BY <1>1, <1>9, GroupSignalForm DEF Typing
  <1>10. CASE RetryItem
    BY <1>1, <1>10, RetryItemForm DEF Typing
  <1>11. CASE Backoff
    BY <1>1, <1>11, BackoffForm DEF Typing
  <1> QED
    BY <1>2, <1>3, <1>4, <1>5, <1>6, <1>7, <1>8, <1>9, <1>10, <1>11 DEF Stages

\* A step that goes on keeps what Runner does.
LEMMA GoesTyped ==
  ASSUME Typing, agenda # <<>>, UNCHANGED <<builderVars, source, sink_done, cancelled>>,
         UNCHANGED <<phase, first_error, faults>>, AgendaOK', tally'.items_in = tally.items_in,
         \/ Top.op \in ItemOps /\ Len(agenda') > 0 /\ (Len(agenda') = 1 => phase = "pump")
         \/ Len(agenda) = 2 /\ Len(agenda') # 1
         \/ phase = "pump",
         held' = held \/ (Top.at \in 1..Len(chain) /\ HeldBy(Top.at)),
         tries'.calls \in Nat, tries'.items \in 0..tries'.calls
  PROVE  Typed' /\ Ends' /\ SourceEnds'
  <1>1. phase \notin {"built", "rest", "ended"} /\ phase' = phase /\ first_error' = first_error
    BY DEF Typing, FlowInv, Halted
  <1>2. UNCHANGED <<chain, error_policy, pending_stage_id, config_error, made, source, sink_done,
                    cancelled, faults>>
    BY DEF builderVars
  <1>3. Built'
    BY <1>1, <1>2, BuiltStays DEF Typing, Typed
  <1>4. Held'
    BY <1>1, <1>2, HeldStays DEF Typing
  <1>5. Flags'
    BY <1>1, <1>2 DEF Typing, Typed, Flags
  <1>6. SourceEnds'
    BY <1>1, <1>2 DEF Typing, SourceEnds
  <1>7. Ends'
    <2>1. CASE Top.op \in ItemOps /\ Len(agenda') > 0 /\ (Len(agenda') = 1 => phase = "pump")
      <3>1. phase \in {"pump", "flush"} /\ ~sink_done.flush /\ ~sink_done.close
        BY <2>1, AtItem
      <3> QED
        BY <1>1, <1>2, <2>1, <3>1 DEF Ends
    <2>2. CASE Len(agenda) = 2 /\ Len(agenda') # 1
      <3>1. Len(agenda) # 1 /\ Len(agenda') # 1
        BY <2>2
      <3> QED
        BY <1>1, <1>2, <3>1, Zenon DEF Typing, Ends
    <2>3. CASE phase = "pump"
      BY <1>1, <1>2, <2>3 DEF Typing, Ends
    <2> QED
      BY <2>1, <2>2, <2>3
  <1> QED
    BY <1>3, <1>4, <1>5, <1>6, <1>7 DEF Typed

LEMMA StageTyped ==
  ASSUME Typing, Stages
  PROVE  Typed' /\ Ends' /\ SourceEnds'
  <1>1. /\ agenda # <<>> /\ UNCHANGED Outside
        /\ held' = held \/ (Top.at \in 1..Len(chain) /\ HeldBy(Top.at))
    BY StageForms
  <1>2. tries'.calls \in Nat /\ tries'.items \in 0..tries'.calls
    <2>1. tries.calls \in Nat /\ tries.items \in 0..tries.calls
      BY DEF Typing, Typed, Flags
    <2>2. tries' = tries \/ Tried
      BY StageForms DEF SignalStep
    <2> QED
      BY <2>1, <2>2 DEF Tried
  <1>3. UNCHANGED <<chain, builderVars, source, sink_done, cancelled>>
    BY <1>1 DEF Outside, builderVars
  <1>4. CASE ItemStep
    <2>0. PICK M : \E more \in Seq(Tasks(M)) : Work(more) /\ Calm(more) /\ Goes(more)
      BY <1>4 DEF ItemStep
    <2>1. PICK more \in Seq(Tasks(M)) : Work(more) /\ Calm(more) /\ Goes(more)
      BY <2>0
    <2>2. UNCHANGED <<tally, faults>> /\ Top.op \in ItemOps
      BY <1>4 DEF ItemStep
    <2>3. /\ AgendaOK' /\ Len(agenda') > 0 /\ (Len(agenda') = 1 => phase = "pump")
      BY <1>1, <1>3, <2>1, <2>2, ItemsGo DEF Typing, Typed, FlowInv, Goes
    <2> QED
      BY <1>1, <1>2, <1>3, <2>1, <2>2, <2>3, GoesTyped DEF Goes
  <1>5. CASE SignalStep
    <2>0. PICK M : \E more \in Seq(Tasks(M)) :
            /\ \A k \in 1..Len(more) : Sound(more[k])
            /\ Passing(more, Len(more), Top.op)
            /\ Len(more) > 0
            /\ Goes(more)
      BY <1>5 DEF SignalStep
    <2>1. PICK more \in Seq(Tasks(M)) :
            /\ \A k \in 1..Len(more) : Sound(more[k])
            /\ Passing(more, Len(more), Top.op)
            /\ Len(more) > 0
            /\ Goes(more)
      BY <2>0
    <2>2. UNCHANGED <<tally, faults>> /\ Top.op \in {"tick", "flush", "close", "abort"}
      BY <1>5 DEF SignalStep
    <2>3. AgendaOK' /\ Len(agenda) = 2 /\ Len(agenda') = Len(more) + 1
      BY <1>1, <1>3, <2>1, <2>2, SignalGoes DEF Typing, Typed, FlowInv, Goes
    <2>4. Len(agenda') # 1
      <3>1. Len(more) \in Nat
        BY LenProperties
      <3> QED
        BY <2>1, <2>3, <3>1
    <2> QED
      BY <1>1, <1>2, <1>3, <2>1, <2>2, <2>3, <2>4, GoesTyped DEF Goes
  <1>6. CASE RetryStep /\ (tally' = tally \/ tally' = [tally EXCEPT !.retries = @ + 1])
    <2>1. tally'.items_in = tally.items_in
      BY <1>6 DEF Typing, FlowInv, Counted, Tally
    <2>2. /\ AgendaOK' /\ Len(agenda') > 0 /\ (Len(agenda') = 1 => phase = "pump")
      BY <1>1, <1>3, <1>6, <2>1, RetryGoes
    <2>3. Top.op \in ItemOps /\ UNCHANGED faults /\ \E more : Goes(more)
      BY <1>6 DEF RetryStep
    <2> QED
      BY <1>1, <1>2, <1>3, <2>1, <2>2, <2>3, GoesTyped DEF Goes
  <1>7. CASE FailStep
    <2>1. /\ AgendaOK' /\ Built'
          /\ first_error'.from \in {None, "config", "source", "stage", "sink"}
          /\ \/ phase' = phase /\ Len(agenda') > 0 /\ (Len(agenda') = 1 => phase = "pump")
             \/ phase' = "abort" /\ Len(agenda') = 2
          /\ faults' \in 0..MaxFaults /\ tally'.items_in = tally.items_in
      BY <1>1, <1>3, <1>7, FailsTyped
    <2>2. /\ phase \in {"pump", "flush"} /\ ~sink_done.flush /\ ~sink_done.close
      BY <1>1, <1>7, AtItem DEF FailStep
    <2>3. phase # "built" /\ phase' \notin {"built", "close", "rest", "ended"} /\ phase # "ended"
      BY <2>1, <2>2
    <2>4. Held'
      BY <1>1, <1>3, <2>1, <2>3, HeldStays DEF Typing
    <2>5. Flags'
      BY <1>2, <1>3, <2>1 DEF Typing, Typed, Flags
    <2>6. SourceEnds'
      BY <1>3, <2>3 DEF Typing, SourceEnds
    <2>7. Ends'
      <3>1. \/ phase' \in {"pump", "flush", "abort"} /\ Len(agenda') # 1
            \/ phase' = "pump"
        <4>1. CASE phase' = phase /\ (Len(agenda') = 1 => phase = "pump")
          BY <2>2, <4>1
        <4>2. CASE phase' = "abort" /\ Len(agenda') = 2
          BY <4>2
        <4> QED
          BY <2>1, <4>1, <4>2, Zenon
      <3>2. ~sink_done'.flush /\ ~sink_done'.close
        BY <1>3, <2>2
      <3> QED
        BY <3>1, <3>2 DEF Ends
    <2> QED
      BY <2>1, <2>4, <2>5, <2>6, <2>7 DEF Typed
  <1> QED
    BY <1>4, <1>5, <1>6, <1>7, StageForms

-----------------------------------------------------------------------------
(* The sink's steps. *)

LEMMA UnderTyped ==
  ASSUME Typing, agenda # <<>>, NEW L, agenda \in Seq(Tasks(L))
  PROVE  <<>> \o Under = Under
  BY TopIs, ConcatEmptySeq

LEMMA SinkItemTyped ==
  ASSUME Typing, SinkItem
  PROVE  Typed' /\ Ends' /\ SourceEnds' /\ Owed' = 0
  <1>1. agenda # <<>> /\ Top.op \in ItemOps
    BY DEF SinkItem, AtEnd, ItemOps
  <1>2. /\ phase \in {"pump", "flush"} /\ ~sink_done.flush /\ ~sink_done.close
    BY <1>1, AtItem
  <1>3. UNCHANGED <<builderVars, chain, held, tally, source, sink_done, cancelled, tries>>
    BY DEF SinkItem, builderVars
  <1>4. CASE agenda' = Under /\ UNCHANGED <<phase, first_error, faults>>
    <2>1. agenda' = <<>> \o Under
      BY <1>1, <1>4, UnderTyped DEF Typing, Typed, AgendaOK
    <2>2. /\ AgendaOK' /\ Len(agenda') > 0 /\ (Len(agenda') = 1 => phase = "pump")
          /\ Owed' = 0
      BY <1>1, <1>3, <1>4, <2>1, EmptyWork, ItemsGo DEF Typing, Typed, FlowInv
    <2>3. tries'.calls \in Nat /\ tries'.items \in 0..tries'.calls
      BY <1>3 DEF Typing, Typed, Flags
    <2> QED
      BY <1>1, <1>3, <1>4, <2>2, <2>3, GoesTyped
  <1>5. CASE Fault /\ SinkFailed
    <2>1. Halt(Error("sink", None)) /\ Error("sink", None).from = "sink"
      BY <1>5 DEF SinkFailed, Error
    <2>2. /\ AgendaOK' /\ Built' /\ Owed' = 0
          /\ first_error'.from \in {None, "config", "source", "stage", "sink"}
          /\ phase' = "abort" /\ Len(agenda') = 2
      BY <1>2, <1>3, <2>1, HaltTyped DEF Typing
    <2>3. Held'
      BY <1>2, <1>3, <2>2, HeldStays DEF Typing
    <2>4. Flags'
      BY <1>3, <1>5, <2>2, FlowAssumption DEF Fault, Typing, Typed, Flags
    <2>5. SourceEnds' /\ Ends'
      BY <1>2, <1>3, <2>2 DEF Typing, SourceEnds, Ends
    <2> QED
      BY <2>2, <2>3, <2>4, <2>5 DEF Typed
  <1> QED
    BY <1>4, <1>5 DEF SinkItem

\* Where a signal reaches the sink.
LEMMA AtSignal ==
  ASSUME Typing, agenda # <<>>, Top.op \in {"tick", "flush", "close", "abort"},
         UNCHANGED chain, tally'.items_in = tally.items_in, phase' = phase,
         agenda' = <<>> \o Under
  PROVE  /\ AgendaOK' /\ Len(agenda) = 2 /\ Len(agenda') = 1 /\ Owed' = 0
  <1>1. <<>> \in Seq(Tasks({0})) /\ Len(<<>>) = 0
    OBVIOUS
  <1>2. Passing(<<>>, Len(<<>>), Top.op) /\ \A k \in 1..Len(<<>>) : Sound(<<>>[k])
    BY <1>1 DEF Passing
  <1>3. AgendaOK' /\ Len(agenda) = 2 /\ Len(agenda') = Len(<<>>) + 1 /\ Owed' = 0
    BY <1>1, <1>2, SignalGoes DEF Typing, Typed, FlowInv
  <1> QED
    BY <1>1, <1>3

LEMMA SignalPhase ==
  ASSUME Typing, agenda # <<>>, Top.op \in {"tick", "flush", "close", "abort"}
  PROVE  /\ Len(agenda) = 2
         /\ phase = (IF Top.op = "tick" THEN "pump" ELSE Top.op)
  <1>1. Top = agenda[1] /\ Len(agenda) \in Nat \ {0}
    BY HeadTyped DEF Typing
  <1>2. Stack(agenda, Len(agenda), phase)
    BY DEF Typing, Typed, AgendaOK, Stacked
  <1> DEFINE n == Len(agenda)
  <1> HIDE DEF n
  <1>3. n \in Nat \ {0} /\ Stack(agenda, n, phase)
    BY <1>1, <1>2 DEF n
  <1>4. n = 2
    <2>1. agenda[1].op \notin ItemOps \cup {"return"}
      BY <1>1 DEF ItemOps
    <2>2. n # 1 /\ ~(n > 2)
      BY <1>3, <2>1 DEF Stack
    <2> QED
      BY <1>3, <2>2
  <1>5. Top.op \in Signals(phase)
    BY <1>1, <1>3, <1>4 DEF Stack
  <1>6. phase = (IF Top.op = "tick" THEN "pump" ELSE Top.op)
    BY <1>5 DEF Signals, ItemOps, Typing, FlowInv, Phases
  <1> QED
    BY <1>4, <1>6 DEF n

LEMMA SinkTickTyped ==
  ASSUME Typing, SinkTick
  PROVE  Typed' /\ Ends' /\ SourceEnds' /\ Owed' = 0
  <1>1. agenda # <<>> /\ Top.op = "tick"
    BY DEF SinkTick, AtEnd
  <1>2. phase = "pump"
    BY <1>1, SignalPhase
  <1>3. UNCHANGED <<builderVars, chain, held, tally, source, sink_done, cancelled, tries, faults>>
    BY DEF SinkTick, Outside, builderVars
  <1>4. agenda' = <<>> \o Under /\ UNCHANGED <<phase, first_error>>
    BY DEF SinkTick, Goes
  <1>5. AgendaOK' /\ Owed' = 0
    BY <1>1, <1>3, <1>4, AtSignal
  <1>6. tries'.calls \in Nat /\ tries'.items \in 0..tries'.calls
    BY <1>3 DEF Typing, Typed, Flags
  <1> QED
    BY <1>1, <1>2, <1>3, <1>4, <1>5, <1>6, GoesTyped

\* What sink_fn has done after it.
LEMMA SinkEndDone ==
  ASSUME Typing, SinkEnd
  PROVE  /\ agenda # <<>> /\ Top.op \in {"flush", "close", "abort"} /\ Top.op = phase
         /\ sink_done' \in [{"flush", "close"} -> BOOLEAN]
         /\ sink_done'.flush
         /\ sink_done'.close <=> phase \in {"close", "abort"}
  <1>1. agenda # <<>> /\ Top.op \in {"flush", "close", "abort"}
    BY DEF SinkEnd, AtEnd
  <1>2. Top.op = phase /\ Len(agenda) = 2
    BY <1>1, SignalPhase
  <1> DEFINE due == {call \in {"flush", "close"} : Top.op \in {call, "abort"} /\ ~sink_done[call]}
  <1>3. sink_done' = [call \in {"flush", "close"} |-> sink_done[call] \/ call \in due]
    BY DEF SinkEnd
  <1>4. sink_done \in [{"flush", "close"} -> BOOLEAN]
    BY DEF Typing, Typed, Flags
  <1>5. /\ phase = "flush" => ~sink_done.close
        /\ phase = "close" => sink_done.flush
    BY <1>2, Zenon DEF Typing, Ends
  <1>6. sink_done' \in [{"flush", "close"} -> BOOLEAN]
    BY <1>3, <1>4
  <1>7. sink_done'["flush"]
    BY <1>1, <1>2, <1>3, <1>4, <1>5
  <1>8. sink_done'["close"] <=> phase \in {"close", "abort"}
    BY <1>1, <1>2, <1>3, <1>4, <1>5
  <1> QED
    BY <1>1, <1>2, <1>6, <1>7, <1>8

LEMMA SinkEndTyped ==
  ASSUME Typing, SinkEnd
  PROVE  Typed' /\ Ends' /\ SourceEnds' /\ Owed' = 0
  <1>1. /\ agenda # <<>> /\ Top.op \in {"flush", "close", "abort"} /\ Top.op = phase
        /\ sink_done' \in [{"flush", "close"} -> BOOLEAN]
        /\ sink_done'.flush
        /\ sink_done'.close <=> phase \in {"close", "abort"}
    BY SinkEndDone
  <1>2. UNCHANGED <<builderVars, chain, error_policy, pending_stage_id, config_error, made,
                    held, tally, source, cancelled, tries>>
    BY DEF SinkEnd, builderVars
  <1>3. CASE Goes(<<>>) /\ UNCHANGED faults
    <2>1. agenda' = <<>> \o Under /\ UNCHANGED <<phase, first_error>>
      BY <1>3 DEF Goes
    <2>2. AgendaOK' /\ Len(agenda') = 1 /\ Owed' = 0
      BY <1>1, <1>2, <2>1, AtSignal
    <2>3. Built'
      BY <1>1, <1>2, <2>1, BuiltStays DEF Typing, Typed
    <2>4. Held'
      BY <1>1, <1>2, <2>1, HeldStays DEF Typing
    <2>5. Flags'
      BY <1>1, <1>2, <1>3, <2>1 DEF Typing, Typed, Flags
    <2>6. SourceEnds'
      BY <1>1, <1>2, <2>1 DEF Typing, SourceEnds
    <2>7. Ends'
      <3>1. phase' = phase
        BY <2>1
      <3> QED
        BY <1>1, <2>2, <3>1 DEF Ends
    <2> QED
      BY <2>2, <2>3, <2>4, <2>5, <2>6, <2>7 DEF Typed
  <1>4. CASE Fault /\ SinkFailed
    <2>1. Halt(Error("sink", None)) /\ Error("sink", None).from = "sink"
      BY <1>4 DEF SinkFailed, Error
    <2>2. /\ AgendaOK' /\ Built' /\ Owed' = 0
          /\ first_error'.from \in {None, "config", "source", "stage", "sink"}
          /\ phase' = (IF phase \in {"pump", "switch", "flush"} THEN "abort" ELSE "rest")
          /\ phase' = "abort" => Len(agenda') = 2
      BY <1>1, <1>2, <2>1, HaltTyped DEF Typing
    <2>3. phase' = (IF phase = "flush" THEN "abort" ELSE "rest")
      BY <1>1, <2>2
    <2>4. Held'
      BY <1>1, <1>2, <2>3, HeldStays DEF Typing
    <2>5. Flags'
      BY <1>1, <1>2, <1>4, <2>2, FlowAssumption DEF Fault, Typing, Typed, Flags
    <2>6. SourceEnds'
      BY <1>1, <1>2, <2>3 DEF Typing, SourceEnds
    <2>7. Ends'
      <3>1. CASE phase = "flush"
        <4>1. phase' = "abort" /\ Len(agenda') # 1
          BY <2>2, <2>3, <3>1
        <4> QED
          BY <1>1, <4>1 DEF Ends
      <3>2. CASE phase # "flush"
        <4>1. phase' = "rest" /\ sink_done'.close
          BY <1>1, <2>3, <3>2
        <4> QED
          BY <1>1, <4>1 DEF Ends
      <3> QED
        BY <3>1, <3>2
    <2> QED
      BY <2>2, <2>4, <2>5, <2>6, <2>7 DEF Typed
  <1> QED
    BY <1>3, <1>4 DEF SinkEnd

-----------------------------------------------------------------------------
(* The steps of the source and of Runner. *)

LEMMA Idle ==
  ASSUME agenda' = <<>>, phase' \notin {"flush", "close", "abort"}
  PROVE  AgendaOK' /\ Owed' = 0
  <1>1. Len(agenda') = 0 /\ agenda' = <<>>
    OBVIOUS
  <1>2. Stacked'
    BY <1>1 DEF Stacked, Stack
  <1>3. (\E L : agenda \in Seq(Tasks(L)))'
    BY <1>1
  <1>4. (\A k \in 1..Len(agenda) : Sound(agenda[k]))'
    BY <1>1
  <1>5. Owed' = 0
    BY <1>1 DEF Owed
  <1> QED
    BY <1>2, <1>3, <1>4, <1>5 DEF AgendaOK

LEMMA HeldGrows ==
  ASSUME Typing, phase # "built", phase' # "built", UNCHANGED <<chain, held>>,
         tally'.items_in \in {tally.items_in, tally.items_in + 1}
  PROVE  Held'
  <1>1. held \in [1..Len(chain) -> Seq(Pulled)]
    BY DEF Typing, Typed, Held
  <1>2. tally.items_in \in Nat
    BY DEF Typing, FlowInv, Counted, Tally
  <1>3. Pulled \subseteq Pulled'
    BY <1>2 DEF Pulled
  <1>4. Seq(Pulled) \subseteq Seq(Pulled')
    BY <1>3, SeqMonotonic
  <1>5. held' \in [1..Len(chain) -> Seq(Pulled')]
    BY <1>1, <1>4
  <1> QED
    BY <1>5 DEF Held

LEMMA SourceTyped ==
  ASSUME Typing, PullFirst \/ Retire \/ PullSecond
  PROVE  Typed' /\ Ends' /\ SourceEnds' /\ Owed' = 0
  <1>1. /\ phase \in {"pump", "switch"} /\ ~sink_done.flush /\ ~sink_done.close
        /\ source.closed[2] = 0
        /\ source \in [first : BOOLEAN, closed : (0..1) \X (0..1), idle : 0..MaxTicks]
        /\ source.closed[1] = IF source.first THEN 0 ELSE 1
    <2>1. phase \in {"pump", "switch"}
      BY DEF PullFirst, Retire, PullSecond, Ready
    <2>2. ~sink_done.flush
      BY <2>1, Zenon DEF Typing, Ends
    <2>3. ~sink_done.close
      BY <2>2, Zenon DEF Typing, Ends
    <2> QED
      BY <2>1, <2>2, <2>3 DEF Typing, SourceEnds
  <1>2. UNCHANGED <<builderVars, chain, error_policy, pending_stage_id, config_error, made,
                    held, sink_done, cancelled, tries>>
    BY DEF PullFirst, Retire, PullSecond, Inside, builderVars
  <1>3. tally.items_in \in Nat /\ tally \in Tally
    BY DEF Typing, FlowInv, Counted, Tally
  <1>4. source' \in [first : BOOLEAN, closed : (0..1) \X (0..1), idle : 0..MaxTicks]
        /\ source'.closed[1] = (IF source'.first THEN 0 ELSE 1) /\ source'.closed[2] = 0
    <2>1. CASE UNCHANGED source
      BY <1>1, <2>1
    <2>2. CASE GotIdle
      BY <1>1, <2>2, FlowAssumption DEF GotIdle
    <2>3. CASE Retire
      <3>1. PICK c \in (0..1) \X (0..1) : c = source.closed /\ c[1] = 0 /\ c[2] = 0
        BY <1>1, <2>3 DEF Retire
      <3> DEFINE c1 == [c EXCEPT ![1] = c[1] + 1]
      <3>2. c1 \in (0..1) \X (0..1) /\ c1[1] = 1 /\ c1[2] = 0
        BY <3>1
      <3>3. source' = [[source EXCEPT !.first = FALSE] EXCEPT !.closed = c1]
        BY <1>1, <2>3, <3>1 DEF Retire
      <3> HIDE DEF c1
      <3> QED
        BY <1>1, <3>2, <3>3
    <2> QED
      BY <2>1, <2>2, <2>3 DEF PullFirst, PullSecond, GotItem, SourceFailed
  <1>5. \/ /\ \/ GotItem
              \/ GotIdle /\ UNCHANGED tally
              \/ phase' = "flush" /\ agenda' = Call("flush", <<>>) /\ UNCHANGED tally
              \/ phase' = "switch" /\ agenda' = <<>> /\ UNCHANGED tally
           /\ UNCHANGED <<first_error, faults>>
        \/ SourceFailed /\ UNCHANGED tally
    <2>1. GotItem => UNCHANGED <<first_error, faults>>
      BY DEF GotItem, Pulls
    <2>2. GotIdle => UNCHANGED <<first_error, tally, faults>>
      BY DEF GotIdle, Pulls
    <2>3. SourceFailed => UNCHANGED tally
      BY DEF SourceFailed
    <2>4. Retire => \/ /\ phase' = "switch" /\ agenda' = agenda
                       /\ UNCHANGED <<tally, first_error, faults>>
                    \/ SourceFailed
      BY DEF Retire
    <2>5. PullFirst => GotItem \/ GotIdle \/ SourceFailed
      BY DEF PullFirst
    <2>6. PullSecond => \/ GotItem \/ GotIdle \/ SourceFailed
                       \/ /\ phase' = "flush" /\ agenda' = Call("flush", <<>>)
                          /\ UNCHANGED <<tally, first_error, faults>>
      BY DEF PullSecond
    <2>7. Retire => agenda = <<>>
      BY DEF Retire, Ready
    <2>8. CASE PullFirst
      BY <2>1, <2>2, <2>3, <2>5, <2>8
    <2>9. CASE Retire
      BY <2>3, <2>4, <2>7, <2>9
    <2>10. CASE PullSecond
      BY <2>1, <2>2, <2>3, <2>6, <2>10
    <2> QED
      BY <2>8, <2>9, <2>10
  <1>6. CASE UNCHANGED <<first_error, faults>> /\ ~SourceFailed
    <2>0. \E n \in {tally.items_in, tally.items_in + 1}, op \in {"process", "tick"} :
          \E item \in Seq(1..n) :
            /\ tally'.items_in = n
            /\ \/ phase' = "pump" /\ agenda' = Call(op, item)
               \/ phase' = "flush" /\ agenda' = Call("flush", <<>>)
               \/ phase' = "switch" /\ agenda' = <<>>
      <3>1. CASE GotItem
        <4> DEFINE n == tally.items_in + 1
        <4>1. tally'.items_in = n /\ phase' = "pump" /\ agenda' = Call("process", <<n>>)
          BY <1>3, <3>1 DEF GotItem, Pulls, Tally
        <4>2. n \in 1..n
          BY <1>3
        <4> HIDE DEF n
        <4>3. <<n>> \in Seq(1..n)
          BY <4>2
        <4> QED
          BY <4>1, <4>3 DEF n
      <3>2. CASE ~GotItem
        <4>1. <<>> \in Seq(1..tally.items_in) /\ tally'.items_in = tally.items_in
          BY <1>5, <1>6, <3>2
        <4> QED
          BY <1>5, <1>6, <3>2, <4>1 DEF GotIdle, Pulls
      <3> QED
        BY <3>1, <3>2
    <2>9. PICK n \in {tally.items_in, tally.items_in + 1}, op \in {"process", "tick"} :
          \E item \in Seq(1..n) :
            /\ tally'.items_in = n
            /\ \/ phase' = "pump" /\ agenda' = Call(op, item)
               \/ phase' = "flush" /\ agenda' = Call("flush", <<>>)
               \/ phase' = "switch" /\ agenda' = <<>>
      BY <2>0
    <2>1. PICK item \in Seq(1..n) :
            /\ tally'.items_in = n
            /\ \/ phase' = "pump" /\ agenda' = Call(op, item)
               \/ phase' = "flush" /\ agenda' = Call("flush", <<>>)
               \/ phase' = "switch" /\ agenda' = <<>>
      BY <2>9
    <2>2. n \in Nat /\ <<>> \in Seq(1..n)
      BY <1>3
    <2>3. AgendaOK' /\ Owed' = 0 /\ phase' \in {"pump", "flush", "switch"}
          /\ (phase' = "flush" => Len(agenda') = 2)
      <3>1. CASE phase' = "pump" /\ agenda' = Call(op, item)
        <4>1. Built /\ chain' = chain /\ n \in Nat /\ tally'.items_in = n /\ item \in Seq(1..n)
          BY <1>2, <2>1, <2>2 DEF Typing, Typed
        <4>2. AgendaOK' /\ Owed' = 0
          BY <3>1, <4>1, CallTyped DEF Starts
        <4> QED
          BY <3>1, <4>2
      <3>2. CASE phase' = "flush" /\ agenda' = Call("flush", <<>>)
        BY <1>2, <2>1, <2>2, <3>2, CallTyped DEF Typing, Typed, Starts
      <3>3. CASE phase' = "switch" /\ agenda' = <<>>
        BY <3>3, Idle
      <3> QED
        BY <2>1, <3>1, <3>2, <3>3
    <2>4. Built'
      BY <1>1, <1>2, <1>6, <2>3, BuiltStays DEF Typing, Typed
    <2>5. Held'
      BY <1>1, <1>2, <2>1, <2>3, HeldGrows
    <2>6. Flags'
      BY <1>2, <1>6 DEF Typing, Typed, Flags
    <2>7. SourceEnds'
      BY <1>4, <2>3 DEF SourceEnds
    <2>8. Ends'
      <3>1. phase' = "flush" => Len(agenda') # 1
        BY <2>3
      <3> QED
        BY <1>1, <1>2, <2>3, <3>1 DEF Ends
    <2> QED
      BY <2>3, <2>4, <2>5, <2>6, <2>7, <2>8 DEF Typed
  <1>7. CASE SourceFailed
    <2>1. Halt(Error("source", None)) /\ Error("source", None).from = "source" /\ Fault
      BY <1>7 DEF SourceFailed, Error
    <2>2. UNCHANGED tally
      BY <1>7 DEF SourceFailed
    <2>3. /\ AgendaOK' /\ Built' /\ Owed' = 0
          /\ first_error'.from \in {None, "config", "source", "stage", "sink"}
          /\ phase' = "abort" /\ Len(agenda') = 2
      BY <1>1, <1>2, <2>1, <2>2, HaltTyped DEF Typing
    <2>4. Held'
      BY <1>1, <1>2, <2>2, <2>3, HeldGrows
    <2>5. Flags'
      BY <1>2, <2>1, <2>3, FlowAssumption DEF Fault, Typing, Typed, Flags
    <2>6. SourceEnds'
      BY <1>4, <2>3 DEF SourceEnds
    <2>7. Ends'
      <3>1. Len(agenda') # 1
        BY <2>3
      <3> QED
        BY <1>1, <1>2, <2>3, <3>1 DEF Ends
    <2> QED
      BY <2>3, <2>4, <2>5, <2>6, <2>7 DEF Typed
  <1> QED
    BY <1>5, <1>6, <1>7

LEMMA ReturnTyped ==
  ASSUME Typing, Return
  PROVE  Typed' /\ Ends' /\ SourceEnds' /\ Owed' = 0
  <1>1. agenda # <<>> /\ Top.op = "return"
    BY DEF Return
  <1>2. Len(agenda) = 1 /\ phase \in {"pump", "flush", "close", "abort"}
    <2>1. Top = agenda[1] /\ Len(agenda) \in Nat \ {0}
      BY <1>1, HeadTyped DEF Typing
    <2>2. Len(agenda) = 1
      <3> DEFINE n == Len(agenda)
      <3>1. Stack(agenda, n, phase)
        BY DEF Typing, Typed, AgendaOK, Stacked
      <3>2. n \in Nat \ {0}
        BY <2>1
      <3> HIDE DEF n
      <3>3. agenda[1].op = "return" <=> 1 = n
        BY <3>1, <3>2 DEF Stack
      <3> QED
        BY <1>1, <2>1, <3>3 DEF n
    <2>3. phase \in {"pump", "flush", "close", "abort"}
      BY <1>1, UnderWay DEF Typing, Busy
    <2> QED
      BY <2>2, <2>3
  <1>3. UNCHANGED <<builderVars, chain, error_policy, pending_stage_id, config_error, made,
                    held, source, sink_done, cancelled, tries, first_error, faults>>
    BY DEF Return, Outside, builderVars
  <1>4. tally'.items_in = tally.items_in
    BY DEF Return, Typing, FlowInv, Counted, Tally
  <1>5. /\ phase = "pump" => phase' = "pump" /\ agenda' = <<>>
        /\ phase = "flush" => phase' = "close" /\ agenda' = Call("close", <<>>)
        /\ phase \in {"close", "abort"} => phase' = "rest" /\ agenda' = <<>>
    BY DEF Return
  <1>6. AgendaOK' /\ Owed' = 0 /\ (phase' = "close" => Len(agenda') = 2)
    <2>1. tally.items_in \in Nat /\ <<>> \in Seq(1..tally.items_in)
      BY DEF Typing, FlowInv, Counted, Tally
    <2>2. CASE phase = "flush"
      BY <1>3, <1>4, <1>5, <2>1, <2>2, CallTyped DEF Typing, Typed, Starts
    <2>3. CASE phase # "flush"
      BY <1>2, <1>5, <2>3, Idle
    <2> QED
      BY <2>2, <2>3
  <1>7. Built'
    BY <1>2, <1>3, <1>5, BuiltStays DEF Typing, Typed
  <1>8. Held'
    BY <1>2, <1>3, <1>4, <1>5, HeldGrows
  <1>9. Flags'
    BY <1>3 DEF Typing, Typed, Flags
  <1>10. SourceEnds'
    BY <1>2, <1>3, <1>5 DEF Typing, SourceEnds
  <1>11. Ends'
    <2>1. CASE phase = "pump"
      BY <1>3, <1>5, <2>1 DEF Typing, Ends
    <2>2. CASE phase = "flush"
      <3>1. sink_done.flush /\ ~sink_done.close
        BY <1>2, <2>2, Zenon DEF Typing, Ends
      <3>2. phase' = "close" /\ Len(agenda') # 1
        BY <1>5, <1>6, <2>2
      <3> QED
        BY <1>3, <3>1, <3>2 DEF Ends
    <2>3. CASE phase \in {"close", "abort"}
      <3>1. sink_done.close /\ sink_done.flush
        BY <1>2, <2>3, Zenon DEF Typing, Ends
      <3> QED
        BY <1>3, <1>5, <2>3, <3>1 DEF Ends
    <2> QED
      BY <1>2, <2>1, <2>2, <2>3
  <1> QED
    BY <1>6, <1>7, <1>8, <1>9, <1>10, <1>11 DEF Typed

LEMMA RestTyped ==
  ASSUME Typing, Start \/ SeeCancel \/ CloseRest \/ Cancel
  PROVE  Typed' /\ Ends' /\ SourceEnds' /\ (Owed' = 0 \/ Owed' = Owed)
  <1>1. CASE Start
    <2>1. phase = "built" /\ made' = "started" /\ phase' \in {"pump", "ended"} /\ agenda' = <<>>
      BY <1>1 DEF Start, Typing, FlowInv, Halted
    <2>2. UNCHANGED <<chain, config_error, tally, source, sink_done, cancelled, faults, tries>>
      BY <1>1 DEF Start
    <2>3. AgendaOK' /\ Owed' = 0
      BY <2>1, Idle
    <2>4. first_error.from # "config"
      BY <2>1 DEF Typing, Typed, Built
    <2>5. /\ config_error = NoError => phase' = "pump" /\ first_error' = first_error
          /\ config_error # NoError => /\ phase' = "ended"
                                       /\ first_error' = Error("config", config_error.stage)
      BY <1>1 DEF Start
    <2>6. Error("config", config_error.stage).from = "config"
      BY DEF Error
    <2>7. Built'
      <3>1. error_policy' = "FailFast" /\ pending_stage_id' = None
        BY <1>1 DEF Start
      <3>2. /\ chain' \in Seq(Links)
            /\ error_policy' \in ErrorPolicies /\ pending_stage_id' \in Names \cup {None}
            /\ \A at \in 1..Len(chain') : chain'[at].kind = "try_map_retry" =>
                  /\ chain'[at].retry \in Retries
                  /\ config_error' = NoError => MaxAttempts(at)' > 0
        BY <2>2, <3>1 DEF Typing, Typed, Built, MaxAttempts, ErrorPolicies
      <3>3. made' = "started" /\ phase' # "built"
        BY <2>1
      <3>4. /\ first_error'.from = "config" <=> config_error' # NoError
            /\ first_error'.from = "config" => phase' = "ended"
        BY <2>2, <2>4, <2>5, <2>6
      <3> QED
        BY <3>2, <3>3, <3>4 DEF Built
    <2>8. Held'
      <3>1. held' = [at \in DOMAIN chain |-> <<>>] /\ DOMAIN chain = 1..Len(chain)
        BY <1>1, LenProperties DEF Start, Typing, Typed, Built
      <3>2. <<>> \in Seq(Pulled')
        OBVIOUS
      <3>3. held' \in [1..Len(chain) -> Seq(Pulled')]
        BY <3>1, <3>2
      <3> QED
        BY <2>1, <2>2, <3>3 DEF Held
    <2>9. Flags'
      BY <2>2, <2>5, <2>6 DEF Typing, Typed, Flags
    <2>10. SourceEnds'
      <3>1. phase' = "ended" => first_error'.from = "config"
        BY <2>1, <2>5, <2>6
      <3> QED
        BY <2>1, <2>2, <3>1 DEF Typing, SourceEnds
    <2>11. Ends'
      <3>1. phase' = "ended" => first_error'.from = "config"
        BY <2>1, <2>5, <2>6
      <3>2. ~sink_done'.flush /\ (sink_done'.close => sink_done'.flush)
        <4>1. ~sink_done.flush /\ (sink_done.close => sink_done.flush)
          BY <2>1, Zenon DEF Typing, Ends
        <4> QED
          BY <2>2, <4>1
      <3> QED
        BY <2>1, <3>1, <3>2 DEF Ends
    <2> QED
      BY <2>3, <2>7, <2>8, <2>9, <2>10, <2>11 DEF Typed
  <1>2. CASE SeeCancel
    <2>1. phase = "pump" /\ phase' = "flush" /\ agenda' = Call("flush", <<>>)
      BY <1>2 DEF SeeCancel
    <2>2. UNCHANGED <<builderVars, chain, error_policy, pending_stage_id, config_error, made,
                      held, tally, source, sink_done, cancelled, tries, first_error, faults>>
      BY <1>2 DEF SeeCancel, Inside, builderVars
    <2>3. tally.items_in \in Nat /\ <<>> \in Seq(1..tally.items_in)
      BY DEF Typing, FlowInv, Counted, Tally
    <2>4. AgendaOK' /\ Len(agenda') = 2 /\ Owed' = 0
      BY <2>1, <2>2, <2>3, CallTyped DEF Typing, Typed, Starts
    <2>5. Built'
      BY <2>1, <2>2, BuiltStays DEF Typing, Typed
    <2>6. Held'
      BY <2>1, <2>2, HeldGrows
    <2>7. Flags'
      BY <2>2 DEF Typing, Typed, Flags
    <2>8. SourceEnds'
      BY <2>1, <2>2 DEF Typing, SourceEnds
    <2>9. Ends'
      <3>1. ~sink_done.flush
        BY <2>1, Zenon DEF Typing, Ends
      <3>2. ~sink_done.close
        BY <3>1, Zenon DEF Typing, Ends
      <3>3. Len(agenda') # 1
        BY <2>4
      <3> QED
        BY <2>1, <2>2, <3>1, <3>2, <3>3 DEF Ends
    <2> QED
      BY <2>4, <2>5, <2>6, <2>7, <2>8, <2>9 DEF Typed
  <1>3. CASE CloseRest
    <2>1. phase = "rest" /\ phase' = "ended" /\ source' = CloseOpen /\ agenda' = <<>>
      BY <1>3 DEF CloseRest, Typing, FlowInv, Halted
    <2>2. UNCHANGED <<builderVars, chain, error_policy, pending_stage_id, config_error, made,
                      held, tally, sink_done, cancelled, tries>>
      BY <1>3 DEF CloseRest, Inside, builderVars
    <2>3. AgendaOK' /\ Owed' = 0
      BY <2>1, Idle
    <2>4. \/ first_error' = first_error
          \/ \E e : e.from \in {"source", "sink"} /\ first_error' = Offer(e)
      BY <1>3 DEF CloseRest, Error
    <2>5. first_error'.from \in {None, "config", "source", "stage", "sink"}
      BY <2>4 DEF Offer, Typing, Typed, Flags
    <2>6. Built'
      <3>1. first_error' = first_error \/ \E e : e.from # "config" /\ first_error' = Offer(e)
        BY <2>4
      <3> QED
        BY <2>1, <2>2, <3>1, BuiltStays DEF Typing, Typed
    <2>7. Held'
      BY <2>1, <2>2, HeldGrows
    <2>8. Flags'
      BY <1>3, <2>2, <2>5, FlowAssumption DEF CloseRest, Fault, Typing, Typed, Flags
    <2>9. sink_done.close /\ sink_done.flush
      <3>1. first_error.from # "config"
        BY <2>1 DEF Typing, Typed, Built
      <3> QED
        BY <2>1, <3>1, Zenon DEF Typing, Ends
    <2>10. Ends'
      BY <2>1, <2>2, <2>9 DEF Ends
    <2>11. SourceEnds'
      <3> DEFINE c == source.closed
                 one == IF source.first THEN c[1] + 1 ELSE c[1]
                 two == c[2] + 1
      <3>1. /\ source \in [first : BOOLEAN, closed : (0..1) \X (0..1), idle : 0..MaxTicks]
            /\ c[1] = (IF source.first THEN 0 ELSE 1) /\ c[2] = 0
        BY <2>1 DEF Typing, SourceEnds
      <3>2. one = 1 /\ two = 1
        BY <3>1
      <3>3. CloseOpen = [[source EXCEPT !.first = FALSE] EXCEPT !.closed = <<one, two>>]
        <4>1. source = [first |-> source.first, closed |-> c, idle |-> source.idle]
          BY <3>1
        <4> QED
          BY <3>1, <4>1 DEF CloseOpen
      <3>6. source' = [first |-> FALSE, closed |-> <<1, 1>>, idle |-> source.idle]
        BY <2>1, <3>1, <3>2, <3>3
      <3> HIDE DEF one, two
      <3>7. source.idle \in 0..MaxTicks /\ <<1, 1>> \in (0..1) \X (0..1)
        BY <3>1
      <3> HIDE <3>1, <3>2, <3>3
      <3>4. /\ source' \in [first : BOOLEAN, closed : (0..1) \X (0..1), idle : 0..MaxTicks]
            /\ ~source'.first /\ source'.closed = <<1, 1>>
        BY <3>6, <3>7
      <3>5. first_error'.from # "config"
        <4>1. first_error.from # "config"
          BY <2>1 DEF Typing, Typed, Built
        <4> QED
          BY <2>4, <4>1 DEF Offer
      <3> QED
        BY <2>1, <3>4, <3>5 DEF SourceEnds
    <2> QED
      BY <2>3, <2>6, <2>7, <2>8, <2>10, <2>11 DEF Typed
  <1>4. CASE Cancel
    <2>1. UNCHANGED <<builderVars, phase, agenda, held, tally, source, sink_done, first_error,
                      faults, tries>> /\ cancelled' = TRUE
      BY <1>4 DEF Cancel
    <2>2. Stacked' /\ Pulled' = Pulled /\ AtSink' = AtSink /\ Owed' = Owed
      BY <2>1 DEF Typing, Typed, AgendaOK, Stacked, Pulled, AtSink, Owed, Top, builderVars
    <2>3. AgendaOK'
      <3>1. PICK L : agenda \in Seq(Tasks(L))
        BY DEF Typing, Typed, AgendaOK
      <3>2. (\E L1 : agenda \in Seq(Tasks(L1)))'
        BY <2>1, <2>2, <3>1 DEF Tasks
      <3>3. (\A k \in 1..Len(agenda) : Sound(agenda[k]))'
        BY <2>1 DEF Typing, Typed, AgendaOK, Sound, IsAt, MaxAttempts, builderVars
      <3> QED
        BY <2>2, <3>2, <3>3 DEF AgendaOK
    <2>4. Built' /\ Held' /\ Flags' /\ Ends' /\ SourceEnds'
      BY <2>1, <2>2 DEF Typing, Typed, Built, Held, Flags, Ends, SourceEnds, builderVars, MaxAttempts
    <2> QED
      BY <2>2, <2>3, <2>4 DEF Typed
  <1> QED
    BY <1>1, <1>2, <1>3, <1>4

-----------------------------------------------------------------------------
(* The builder's steps, before anything runs. *)

\* The first error stays, and a bad setting leaves one.
LEMMA Recorded ==
  ASSUME NEW bad \in BOOLEAN, NEW error, error # NoError
  PROVE  /\ config_error # NoError => Record(bad, error) = config_error
         /\ Record(bad, error) = NoError <=> config_error = NoError /\ ~bad
  BY DEF Record

LEMMA NamedError ==
  ASSUME NEW id, NEW kind, kind # None
  PROVE  ConfigError(id, kind) # NoError
  <1>1. ConfigError(id, kind).kind = kind /\ NoError.kind = None
    BY DEF ConfigError, NoError
  <1> QED
    BY <1>1

\* A stage is added, or none is.
LEMMA Added ==
  ASSUME Built, phase = "built", UNCHANGED <<phase, first_error>>,
         error_policy' \in ErrorPolicies, pending_stage_id' \in Names \cup {None},
         made' \in {"building", "pipeline", "refused"},
         config_error' = NoError => config_error = NoError,
         \/ chain' = chain
         \/ \E link \in Links :
               /\ chain' = Append(chain, link)
               /\ link.kind = "try_map_retry" =>
                     /\ link.retry \in Retries
                     /\ config_error' = NoError => RetryPolicy[link.retry].max_attempts > 0
  PROVE  Built'
  <1>1. /\ made' = "started" <=> phase' # "built"
        /\ first_error'.from = "config" <=> made' = "started" /\ config_error' # NoError
        /\ first_error'.from = "config" => phase' = "ended"
    BY DEF Built
  <1>2. /\ chain' \in Seq(Links)
        /\ \A at \in 1..Len(chain') : chain'[at].kind = "try_map_retry" =>
              /\ chain'[at].retry \in Retries
              /\ config_error' = NoError => RetryPolicy[chain'[at].retry].max_attempts > 0
    <2>1. CASE chain' = chain
      BY <2>1 DEF Built, MaxAttempts
    <2>2. ASSUME NEW link \in Links, chain' = Append(chain, link),
                 link.kind = "try_map_retry" =>
                     /\ link.retry \in Retries
                     /\ config_error' = NoError => RetryPolicy[link.retry].max_attempts > 0
          PROVE  /\ chain' \in Seq(Links)
                 /\ \A at \in 1..Len(chain') : chain'[at].kind = "try_map_retry" =>
                       /\ chain'[at].retry \in Retries
                       /\ config_error' = NoError =>
                             RetryPolicy[chain'[at].retry].max_attempts > 0
      <3>1. chain \in Seq(Links)
        BY DEF Built
      <3>2. /\ chain' \in Seq(Links) /\ Len(chain') = Len(chain) + 1 /\ Len(chain) \in Nat
            /\ \A at \in 1..Len(chain) : chain'[at] = chain[at]
            /\ chain'[Len(chain) + 1] = link
        BY <2>2, <3>1, AppendProperties, LenProperties
      <3>3. ASSUME NEW at \in 1..Len(chain'), chain'[at].kind = "try_map_retry"
            PROVE  /\ chain'[at].retry \in Retries
                   /\ config_error' = NoError => RetryPolicy[chain'[at].retry].max_attempts > 0
        <4>1. CASE at = Len(chain) + 1
          BY <2>2, <3>2, <3>3, <4>1
        <4>2. CASE at # Len(chain) + 1
          <5>1. at \in 1..Len(chain) /\ chain'[at] = chain[at]
            BY <3>2, <4>2
          <5> QED
            BY <3>3, <5>1 DEF Built, MaxAttempts
        <4> QED
          BY <4>1, <4>2
      <3> QED
        BY <3>2, <3>3
    <2> QED
      BY <2>1, <2>2
  <1>3. \A at \in 1..Len(chain') : chain'[at].kind = "try_map_retry" =>
              /\ chain'[at].retry \in Retries
              /\ config_error' = NoError => MaxAttempts(at)' > 0
    BY <1>2 DEF MaxAttempts
  <1>4. made' \in {"building", "pipeline", "refused", "started"}
    OBVIOUS
  <1> QED
    BY <1>1, <1>2, <1>3, <1>4 DEF Built

LEMMA BuilderTyped ==
  ASSUME Typing, BuilderNext, UNCHANGED flowVars
  PROVE  Typed' /\ Ends' /\ SourceEnds' /\ Owed' = 0
  <1>1. UNCHANGED <<phase, agenda, held, tally, source, sink_done, first_error, cancelled,
                    faults, tries>>
    BY DEF flowVars
  <1>2. made = "building"
    BY DEF BuilderNext, StageId, OnError, DeadLetter, IdleTick, Map, TryMap, TryMapRetry, Group,
           Buffer, Sink, Method
  <1>3. phase = "built" /\ agenda = <<>> /\ held = <<>>
    BY <1>2 DEF Typing, Typed, Built, Held, FlowInv, Halted
  <1>4. AgendaOK' /\ Owed' = 0
    BY <1>1, <1>3, Idle
  <1>5. Held' /\ Flags' /\ SourceEnds'
    BY <1>1, <1>3 DEF Typing, Typed, Held, Flags, SourceEnds
  <1>6. Ends'
    BY <1>1 DEF Typing, Ends
  <1>7. Built'
    <2>0. Built /\ error_policy \in ErrorPolicies /\ pending_stage_id \in Names \cup {None}
          /\ phase' = phase /\ first_error' = first_error
      BY <1>1 DEF Typing, Typed, Built
    <2>1. CASE \E n \in Names : StageId(n)
      BY <1>2, <1>3, <2>0, <2>1, Added DEF StageId
    <2>2. CASE \E policy \in ErrorPolicies : OnError(policy)
      BY <1>2, <1>3, <2>0, <2>2, Added DEF OnError
    <2>3. CASE DeadLetter
      BY <1>2, <1>3, <2>0, <2>3, Added DEF DeadLetter
    <2>4. CASE \E interval \in {"zero", "some"} : IdleTick(interval)
      <3>1. ConfigError("idle_tick", "ZeroDuration") # NoError
        BY NamedError DEF None
      <3>2. config_error' = NoError => config_error = NoError
        BY <2>4, <3>1, Recorded DEF IdleTick
      <3> QED
        BY <1>2, <1>3, <2>0, <2>4, <3>2, Added DEF IdleTick
    <2>5. ASSUME NEW kind \in Transforms, NEW id \in Ids, NEW retry \in Retries \cup {None},
                 Link(kind, id, retry),
                 config_error' = NoError => config_error = NoError,
                 kind = "try_map_retry" =>
                    /\ retry \in Retries
                    /\ config_error' = NoError => RetryPolicy[retry].max_attempts > 0
          PROVE  Built'
      <3> DEFINE link == [kind |-> kind, id |-> id, policy |-> error_policy, retry |-> retry]
      <3>1. link \in Links /\ link.kind = kind /\ link.retry = retry
        BY <2>0 DEF Links
      <3>2. /\ chain' = Append(chain, link) /\ pending_stage_id' = None
            /\ UNCHANGED <<error_policy, made>>
        BY <2>5 DEF Link
      <3> HIDE DEF link
      <3> QED
        BY <1>2, <1>3, <2>0, <2>5, <3>1, <3>2, Added
    <2>6. \A kind \in Transforms : TakeStageId(kind) \in Ids
      BY <2>0 DEF TakeStageId, Ids
    <2>7. CASE Map
      BY <2>5, <2>7 DEF Map, Ids, Transforms
    <2>8. CASE \E kind \in Fallible \ {"try_map_retry"} : TryMap(kind)
      BY <2>5, <2>6, <2>8 DEF TryMap, Fallible, Transforms
    <2>9. CASE \E retry \in Retries : TryMapRetry(retry)
      <3>1. PICK retry \in Retries : TryMapRetry(retry)
        BY <2>9
      <3> DEFINE id == TakeStageId("try_map_retry")
                 refused == RetryPolicy[retry].max_attempts = 0
      <3>2. id \in Ids /\ "try_map_retry" \in Transforms
        BY <2>6 DEF Transforms
      <3>3. RetryPolicy[retry].max_attempts \in Nat
        BY BuilderAssumption DEF RetryPolicies
      <3>4. /\ Link("try_map_retry", id, retry)
            /\ config_error' = Record(refused, ConfigError(id, "ZeroLimit"))
        BY <3>1 DEF TryMapRetry
      <3>5. ConfigError(id, "ZeroLimit") # NoError
        BY NamedError DEF None
      <3>6. config_error' = NoError => config_error = NoError /\ ~refused
        BY <3>4, <3>5, Recorded
      <3>7. config_error' = NoError => RetryPolicy[retry].max_attempts > 0
        BY <3>3, <3>6
      <3> HIDE DEF id, refused
      <3> QED
        BY <2>5, <3>2, <3>4, <3>6, <3>7
    <2>10. CASE \E policy \in {"good", "bad"} : Group(policy)
      <3>1. ConfigError(TakeStageId("group"), "BadPolicy") # NoError
        BY NamedError DEF None
      <3>2. config_error' = NoError => config_error = NoError
        BY <2>10, <3>1, Recorded DEF Group
      <3>3. TakeStageId("group") \in Ids /\ "group" \in Transforms
        BY <2>6 DEF Transforms
      <3> QED
        BY <2>5, <2>10, <3>2, <3>3 DEF Group
    <2>11. CASE \E capacity \in {"small", "large"} : Buffer(capacity)
      <3>1. ConfigError(TakeStageId("buffer"), "LimitTooLarge") # NoError
        BY NamedError DEF None
      <3>2. config_error' = NoError => config_error = NoError
        BY <2>11, <3>1, Recorded DEF Buffer
      <3> QED
        BY <1>2, <1>3, <2>0, <2>11, <3>2, Added DEF Buffer
    <2>12. CASE \E ends \in {"sink", "try_sink"} : Sink(ends)
      <3>1. ConfigError(dead_letter_user, "DeadLetterSinkMissing") # NoError
        BY NamedError DEF None
      <3>2. config_error' = NoError => config_error = NoError
        BY <2>12, <3>1, Recorded DEF Sink
      <3> QED
        BY <1>2, <1>3, <2>0, <2>12, <3>2, Added DEF Sink
    <2> QED
      BY <2>1, <2>2, <2>3, <2>4, <2>7, <2>8, <2>9, <2>10, <2>11, <2>12 DEF BuilderNext
  <1> QED
    BY <1>4, <1>5, <1>6, <1>7 DEF Typed

-----------------------------------------------------------------------------
(* Types. *)

LEMMA SameTyped ==
  ASSUME Typing, UNCHANGED vars
  PROVE  Typed' /\ Ends' /\ SourceEnds' /\ Owed' = Owed
  BY DEF vars, builderVars, flowVars, Typing, Typed, Built, MaxAttempts, Held, Pulled, AgendaOK,
         Stacked, Tasks, AtSink, Sound, IsAt, Flags, Ends, SourceEnds, Owed, Top

LEMMA TypingStep == Typing /\ [Next]_vars => Typing'
  <1> SUFFICES ASSUME Typing, [Next]_vars
               PROVE  Typing'
    OBVIOUS
  <1>1. FlowInv'
    BY FlowStep DEF Typing
  <1>2. Typed' /\ Ends' /\ SourceEnds'
    BY StageTyped, SinkItemTyped, SinkTickTyped, SinkEndTyped, SourceTyped, ReturnTyped,
       RestTyped, BuilderTyped, SameTyped DEF Next, Run
  <1> QED
    BY <1>1, <1>2 DEF Typing

LEMMA TypingInit == Init => Typing
  <1> SUFFICES ASSUME Init
               PROVE  Typing
    OBVIOUS
  <1>1. FlowInv
    BY FlowInit
  <1>2. NoFailure.from = None
    BY DEF NoFailure, Error
  <1>3. Built
    <2>1. <<>> \in Seq(Links) /\ Len(<<>>) = 0
      OBVIOUS
    <2> QED
      BY <1>2, <2>1 DEF Init, BuilderInit, Built, ErrorPolicies, None
  <1>4. AgendaOK
    <2>1. agenda = <<>> /\ Len(<<>>) = 0 /\ phase = "built"
      BY DEF Init
    <2>2. \E L : agenda \in Seq(Tasks(L))
      BY <2>1
    <2> QED
      BY <2>1, <2>2 DEF AgendaOK, Stacked, Stack
  <1>5. Held /\ Flags
    <2>1. sink_done \in [{"flush", "close"} -> BOOLEAN]
      BY DEF Init
    <2>2. first_error.from = None
      BY <1>2 DEF Init
    <2>3. tries.calls = 0 /\ tries.items = 0 /\ faults = 0 /\ cancelled = FALSE
      BY DEF Init
    <2>4. Held
      BY DEF Init, Held
    <2>5. cancelled \in BOOLEAN
      BY Zenon DEF Init
    <2>6. faults \in 0..MaxFaults /\ tries.calls \in Nat /\ tries.items \in 0..tries.calls
      BY <2>3, FlowAssumption
    <2>7. first_error.from \in {None, "config", "source", "stage", "sink"}
      BY <2>2
    <2> QED
      BY <2>1, <2>4, <2>5, <2>6, <2>7 DEF Flags
  <1>6. Ends
    BY DEF Init, Ends
  <1>7. SourceEnds
    <2>1. source.closed = <<0, 0>> /\ source.first /\ phase = "built"
      BY DEF Init
    <2>2. source \in [first : BOOLEAN, closed : (0..1) \X (0..1), idle : 0..MaxTicks]
      BY FlowAssumption DEF Init
    <2> QED
      BY <2>1, <2>2 DEF SourceEnds
  <1> QED
    BY <1>1, <1>3, <1>4, <1>5, <1>6, <1>7 DEF Typing, Typed

\* In every state each call under way is one that a closure of pipeline.rs or
\* Runner made, at a stage of the chain or at the sink, no item has been tried
\* more often than its policy's max_attempts, whatever the chain, its policies
\* and the failures, and neither source is closed twice (ChainSource::close
\* after retire_first).
THEOREM FlowTypeOK == Spec => []TypeOK
  <1>1. Typing /\ Waits => TypeOK
    <2> SUFFICES ASSUME Typing, Waits
                 PROVE  TypeOK
      OBVIOUS
    <2>1. tally \in Tally /\ written \in Nat /\ phase \in Phases
      BY DEF Typing, FlowInv, Counted
    <2>2. ASSUME NEW k \in DOMAIN agenda
          PROVE  /\ agenda[k].op \in {"process", "fail", "backoff", "tick", "flush", "close",
                                      "abort", "return"}
                 /\ agenda[k].at \in 0..AtSink
                 /\ agenda[k].at \in DOMAIN chain /\ chain[agenda[k].at].kind = "try_map_retry" =>
                       agenda[k].attempt \in 0..RetryPolicy[chain[agenda[k].at].retry].max_attempts
      <3>1. PICK L : agenda \in Seq(Tasks(L))
        BY DEF Typing, Typed, AgendaOK
      <3>2. k \in 1..Len(agenda)
        BY <2>2, <3>1, LenProperties
      <3>3. agenda[k] \in Tasks(L) /\ Sound(agenda[k])
        BY <3>1, <3>2, ElementOfSeq DEF Typing, Typed, AgendaOK
      <3>4. agenda[k].op \in ItemOps \cup {"tick", "flush", "close", "abort", "return"}
            /\ agenda[k].at \in 0..AtSink /\ agenda[k].attempt \in Nat
        BY <3>3 DEF Tasks
      <3>5. config_error = NoError
        <4>1. phase \notin {"built", "ended"}
          BY <2>2 DEF Typing, FlowInv, Halted
        <4> QED
          BY <4>1 DEF Typing, Typed, Built
      <3>6. ASSUME agenda[k].at \in DOMAIN chain, chain[agenda[k].at].kind = "try_map_retry"
            PROVE  agenda[k].attempt \in 0..MaxAttempts(agenda[k].at)
        <4>1. agenda[k].at \in 1..Len(chain)
          BY <3>6, LenProperties DEF Typing, Typed, Built
        <4>2. chain[agenda[k].at].retry \in Retries /\ MaxAttempts(agenda[k].at) > 0
          BY <3>5, <3>6, <4>1 DEF Typing, Typed, Built
        <4>3. MaxAttempts(agenda[k].at) \in Nat
          BY <4>2, BuilderAssumption DEF MaxAttempts, RetryPolicies
        <4>4. agenda[k].attempt > 1 => agenda[k].attempt <= MaxAttempts(agenda[k].at)
          BY <3>3 DEF Sound
        <4> QED
          BY <3>4, <4>2, <4>3, <4>4
      <3> QED
        BY <3>4, <3>6 DEF ItemOps, MaxAttempts
    <2>3. \A at \in DOMAIN held : at \in DOMAIN chain /\ held[at] \in Seq(1..tally.items_in)
      <3>1. CASE phase = "built"
        BY <3>1 DEF Typing, Typed, Held
      <3>2. CASE phase # "built"
        <4>1. DOMAIN chain = 1..Len(chain)
          BY LenProperties DEF Typing, Typed, Built
        <4> QED
          BY <3>2, <4>1 DEF Typing, Typed, Held, Pulled
      <3> QED
        BY <3>1, <3>2
    <2>4. source \in [first : BOOLEAN, closed : (0..1) \X (0..1), idle : 0..MaxTicks]
      BY DEF Typing, SourceEnds
    <2>5. waited.switch \in 0..waited.all
      BY DEF Waits
    <2>6. /\ sink_done \in [{"flush", "close"} -> BOOLEAN]
          /\ first_error.from \in {None, "config", "source", "stage", "sink"}
          /\ cancelled \in BOOLEAN /\ faults \in 0..MaxFaults
          /\ tries.items \in 0..tries.calls
      BY DEF Typing, Typed, Flags
    <2> QED
      BY <2>1, <2>2, <2>3, <2>4, <2>5, <2>6 DEF TypeOK
  <1>2. Init => Waits
    BY FlowAssumption DEF Init, Waits
  <1> QED
    BY <1>1, <1>2, TypingInit, TypingStep, WaitsStep, PTL DEF Spec

-----------------------------------------------------------------------------
(* The two halves of the tee. *)

LEMMA DueOf ==
  ASSUME NEW done \in [{"flush", "close"} -> BOOLEAN], done.close => done.flush
  PROVE  Cardinality({call \in {"flush", "close"} : done[call]})
           = IF done.close THEN 2 ELSE IF done.flush THEN 1 ELSE 0
  <1> DEFINE calls == {call \in {"flush", "close"} : done[call]}
  <1>1. CASE done.close
    <2>1. calls = {"flush"} \cup {"close"} /\ "close" \notin {"flush"}
      BY <1>1
    <2>2. IsFiniteSet({"flush"}) /\ Cardinality({"flush"}) = 1
      BY FS_Singleton
    <2>3. Cardinality({"flush"} \cup {"close"}) = 2
      BY <2>1, <2>2, FS_AddElement
    <2> QED
      BY <1>1, <2>1, <2>3
  <1>2. CASE ~done.close /\ done.flush
    <2>1. calls = {"flush"}
      BY <1>2
    <2> QED
      BY <1>2, <2>1, FS_Singleton
  <1>3. CASE ~done.close /\ ~done.flush
    <2>1. calls = {}
      BY <1>3
    <2> QED
      BY <1>3, <2>1, FS_EmptySet
  <1> QED
    BY <1>1, <1>2, <1>3

LEMMA DueIs ==
  ASSUME sink_done \in [{"flush", "close"} -> BOOLEAN], sink_done.close => sink_done.flush
  PROVE  Due = IF sink_done.close THEN 2 ELSE IF sink_done.flush THEN 1 ELSE 0
  BY DueOf DEF Due

\* Two logs agree, where the last d entries are those of the teardown and the
\* first log may be longer by one of the gaps.
Alike(logs, d, gaps) ==
    /\ Len(logs[1]) - Len(logs[2]) \in gaps
    /\ d <= Len(logs[2])
    /\ \A k \in 1..(Len(logs[2]) - d) : logs[1][k] = logs[2][k]
    /\ \A h \in 1..2 : \A k \in 1..(Len(logs[h]) - d) : logs[h][k].call = "write"
    /\ \A h \in 1..2 : \A j \in 1..d : logs[h][Len(logs[h]) - d + j] = Closing[j]

Gaps == IF first_error = Error("sink", None) THEN {0, 1} ELSE {0}
Halves == Alike(sinks, Due, Gaps)

LEMMA TeeAlike ==
  ASSUME NEW S, NEW logs \in [1..2 -> Seq(S)], NEW d \in {0, 1}, NEW gaps \in SUBSET {0, 1},
         Alike(logs, d, gaps), NEW call, Entry(call, <<>>) = Closing[d + 1], NEW failing
  PROVE  /\ Alike(Tee(logs, call, failing), d + 1, gaps)
         /\ \E R : Tee(logs, call, failing) \in [1..2 -> Seq(R)]
  <1> DEFINE R == S \cup {Entry(call, <<>>)}
             both == Tee(logs, call, failing)
             e == Entry(call, <<>>)
  <1>1. e \in R /\ \A h \in 1..2 : logs[h] \in Seq(R)
    BY SeqMonotonic
  <1> HIDE DEF R
  <1>2. \A h \in 1..2 : both[h] = Append(logs[h], e)
    BY DEF Tee
  <1>3. both \in [1..2 -> Seq(R)]
    BY <1>1, AppendProperties DEF Tee
  <1> HIDE DEF both, e
  <1>4. \A h \in 1..2 : /\ Len(logs[h]) \in Nat /\ Len(both[h]) = Len(logs[h]) + 1
                        /\ \A k \in 1..Len(logs[h]) : both[h][k] = logs[h][k]
                        /\ both[h][Len(logs[h]) + 1] = e
    <2> TAKE h \in 1..2
    <2>1. logs[h] \in Seq(R) /\ both[h] = Append(logs[h], e)
      BY <1>1, <1>2
    <2> QED
      BY <1>1, <2>1, AppendProperties, LenProperties
  <1>5. e = Closing[d + 1]
    BY DEF e
  <1>6. Len(both[1]) - Len(both[2]) \in gaps /\ d + 1 <= Len(both[2])
    <2>1. /\ Len(logs[1]) \in Nat /\ Len(both[1]) = Len(logs[1]) + 1
          /\ Len(logs[2]) \in Nat /\ Len(both[2]) = Len(logs[2]) + 1
      BY <1>4
    <2>2. Len(logs[1]) - Len(logs[2]) \in gaps /\ d <= Len(logs[2])
      BY DEF Alike
    <2>3. Len(both[1]) - Len(both[2]) = Len(logs[1]) - Len(logs[2])
      BY <2>1
    <2> QED
      BY <2>1, <2>2, <2>3
  <1>7. \A k \in 1..(Len(both[2]) - (d + 1)) : both[1][k] = both[2][k]
    <2> SUFFICES ASSUME NEW k \in 1..(Len(both[2]) - (d + 1))
                 PROVE  both[1][k] = both[2][k]
      OBVIOUS
    <2>1. k \in 1..(Len(logs[2]) - d) /\ Len(logs[2]) <= Len(logs[1])
      BY <1>4 DEF Alike
    <2>2. k \in 1..Len(logs[1]) /\ k \in 1..Len(logs[2])
      BY <1>4, <2>1
    <2> QED
      BY <1>4, <2>1, <2>2 DEF Alike
  <1>8. \A h \in 1..2 : \A k \in 1..(Len(both[h]) - (d + 1)) : both[h][k].call = "write"
    <2> SUFFICES ASSUME NEW h \in 1..2, NEW k \in 1..(Len(both[h]) - (d + 1))
                 PROVE  both[h][k].call = "write"
      OBVIOUS
    <2>1. k \in 1..(Len(logs[h]) - d) /\ k \in 1..Len(logs[h])
      BY <1>4
    <2>2. both[h][k] = logs[h][k]
      BY <1>4, <2>1
    <2>3. logs[h][k].call = "write"
      BY <2>1 DEF Alike
    <2> QED
      BY <2>2, <2>3
  <1>9. \A h \in 1..2 : \A j \in 1..(d + 1) : both[h][Len(both[h]) - (d + 1) + j] = Closing[j]
    <2> SUFFICES ASSUME NEW h \in 1..2, NEW j \in 1..(d + 1)
                 PROVE  both[h][Len(both[h]) - (d + 1) + j] = Closing[j]
      OBVIOUS
    <2>0. Len(both[h]) - (d + 1) + j = Len(logs[h]) - d + j
      <3>1. Len(logs[h]) \in Nat /\ Len(both[h]) = Len(logs[h]) + 1
        BY <1>4
      <3>2. d \in Nat /\ j \in Nat
        OBVIOUS
      <3> QED
        BY ONLY <3>1, <3>2
    <2>1. CASE j = d + 1
      BY <1>4, <1>5, <2>0, <2>1
    <2>2. CASE j # d + 1
      <3>1. j \in 1..d /\ d <= Len(logs[h])
        BY <1>4, <2>2 DEF Alike
      <3>2. Len(logs[h]) - d + j \in 1..Len(logs[h])
        BY <1>4, <3>1
      <3> QED
        BY <1>4, <2>0, <3>1, <3>2 DEF Alike
    <2> QED
      BY <2>1, <2>2
  <1>10. Alike(both, d + 1, gaps)
    BY <1>6, <1>7, <1>8, <1>9 DEF Alike
  <1> QED
    BY <1>3, <1>10 DEF both

\* An item that both halves took, or only the first, or neither.
Wrote(new, logs, n, item) ==
    new = [h \in 1..2 |-> IF h <= n THEN Append(logs[h], Entry("write", item)) ELSE logs[h]]

LEMMA WriteAlike ==
  ASSUME NEW S, NEW logs \in [1..2 -> Seq(S)], NEW n \in 0..2, NEW item, NEW new,
         Wrote(new, logs, n, item), Alike(logs, 0, {0})
  PROVE  Alike(new, 0, IF n = 1 THEN {0, 1} ELSE {0})
  <1> DEFINE e == Entry("write", item)
             R == S \cup {e}
  <1>1. e \in R /\ \A h \in 1..2 : logs[h] \in Seq(R)
    BY SeqMonotonic
  <1>0. n = 0 \/ n = 1 \/ n = 2
    OBVIOUS
  <1>2. e.call = "write"
    BY DEF Entry
  <1> HIDE DEF e, R
  <1>3. \A h \in 1..2 : /\ h <= n => new[h] = Append(logs[h], e)
                        /\ ~(h <= n) => new[h] = logs[h]
    BY DEF e, Wrote
  <1>4. \A h \in 1..2 :
          /\ Len(logs[h]) \in Nat
          /\ Len(Append(logs[h], e)) = Len(logs[h]) + 1
          /\ \A k \in 1..Len(logs[h]) : Append(logs[h], e)[k] = logs[h][k]
          /\ Append(logs[h], e)[Len(logs[h]) + 1] = e
    <2> TAKE h \in 1..2
    <2>1. logs[h] \in Seq(R)
      BY <1>1
    <2> QED
      BY <1>1, <2>1, AppendProperties, LenProperties
  <1>5. Len(logs[1]) = Len(logs[2]) /\ \A k \in 1..Len(logs[2]) : logs[1][k] = logs[2][k]
    <2>1. Len(logs[1]) - Len(logs[2]) = 0 /\ Len(logs[1]) \in Nat /\ Len(logs[2]) \in Nat
      BY <1>4 DEF Alike
    <2>2. \A k \in 1..(Len(logs[2]) - 0) : logs[1][k] = logs[2][k]
      BY DEF Alike
    <2> QED
      BY <2>1, <2>2
  <1>6. \A h \in 1..2 : \A k \in 1..Len(logs[h]) : logs[h][k].call = "write"
    <2> TAKE h \in 1..2
    <2>1. \A k \in 1..(Len(logs[h]) - 0) : logs[h][k].call = "write"
      BY DEF Alike
    <2> QED
      BY <1>4, <2>1
  <1>7. \A h \in 1..2 : \A k \in 1..Len(new[h]) : new[h][k].call = "write"
    <2> TAKE h \in 1..2
    <2>1. CASE h <= n
      <3>1. new[h] = Append(logs[h], e) /\ Len(new[h]) = Len(logs[h]) + 1
        BY <1>3, <1>4, <2>1
      <3> TAKE k \in 1..Len(new[h])
      <3>2. CASE k = Len(logs[h]) + 1
        BY <1>2, <1>4, <3>1, <3>2
      <3>3. CASE k # Len(logs[h]) + 1
        <4>1. k \in 1..Len(logs[h])
          BY <1>4, <3>1, <3>3
        <4> QED
          BY <1>4, <1>6, <3>1, <4>1
      <3> QED
        BY <3>2, <3>3
    <2>2. CASE ~(h <= n)
      BY <1>3, <1>6, <2>2
    <2> QED
      BY <2>1, <2>2
  <1>8. \A k \in 1..Len(new[2]) : new[1][k] = new[2][k]
    <2>1. CASE n = 2
      <3>1. /\ new[1] = Append(logs[1], e) /\ new[2] = Append(logs[2], e)
            /\ Len(new[2]) = Len(logs[2]) + 1
        BY <1>3, <1>4, <2>1
      <3> TAKE k \in 1..Len(new[2])
      <3>2. CASE k = Len(logs[2]) + 1
        BY <1>4, <1>5, <3>1, <3>2
      <3>3. CASE k # Len(logs[2]) + 1
        <4>1. k \in 1..Len(logs[2])
          BY <1>4, <3>1, <3>3
        <4> QED
          BY <1>4, <1>5, <3>1, <4>1
      <3> QED
        BY <3>2, <3>3
    <2>2. CASE n = 1
      BY <1>3, <1>4, <1>5, <2>2
    <2>3. CASE n = 0
      BY <1>3, <1>5, <2>3
    <2> QED
      BY <1>0, <2>1, <2>2, <2>3
  <1>9. /\ Len(new[1]) \in Nat /\ Len(new[2]) \in Nat
        /\ Len(new[1]) - Len(new[2]) \in (IF n = 1 THEN {0, 1} ELSE {0})
    <2>1. CASE n = 2
      BY <1>3, <1>4, <1>5, <2>1
    <2>2. CASE n = 1
      BY <1>3, <1>4, <1>5, <2>2
    <2>3. CASE n = 0
      BY <1>3, <1>4, <1>5, <2>3
    <2> QED
      BY <1>0, <2>1, <2>2, <2>3
  <1>10. \A h \in 1..2 : Len(new[h]) - 0 = Len(new[h])
    BY <1>9
  <1>11. \A k \in 1..(Len(new[2]) - 0) : new[1][k] = new[2][k]
    <2>1. Len(new[2]) - 0 = Len(new[2])
      BY <1>10
    <2> QED
      BY <1>8, <2>1
  <1>12. \A h \in 1..2 : \A k \in 1..(Len(new[h]) - 0) : new[h][k].call = "write"
    BY <1>7, <1>10
  <1>13. 0 <= Len(new[2]) /\ \A j \in 1..0 : FALSE
    BY <1>9
  <1> HIDE <1>0, <1>1, <1>2, <1>3, <1>4, <1>5, <1>6, <1>7, <1>8, <1>10
  <1> QED
    BY <1>9, <1>11, <1>12, <1>13 DEF Alike

LEMMA ErrorStays ==
  ASSUME Typing, [Next]_vars, first_error # NoFailure
  PROVE  first_error' = first_error
  <1>1. CASE Stages
    <2>1. FailStep => FALSE
      BY <1>1, StageForms, AtItem DEF FailStep
    <2>2. (\E more : Goes(more)) \/ FailStep
      BY <1>1, StageForms DEF ItemStep, SignalStep, RetryStep
    <2> QED
      BY <2>1, <2>2 DEF Goes
  <1>2. CASE SinkItem \/ SinkTick \/ SinkEnd
    BY <1>2 DEF SinkItem, SinkTick, SinkEnd, SinkFailed, Goes, Halt, Offer
  <1>3. CASE PullFirst \/ Retire \/ PullSecond
    BY <1>3 DEF PullFirst, Retire, PullSecond, GotItem, GotIdle, Pulls, SourceFailed, Halt, Offer
  <1>4. CASE Start
    BY <1>4 DEF Start, Typing, FlowInv, Halted
  <1>5. CASE SeeCancel \/ Return \/ CloseRest \/ Cancel
    BY <1>5 DEF SeeCancel, Return, CloseRest, Cancel, Offer
  <1>6. CASE UNCHANGED first_error
    BY <1>6
  <1> QED
    BY <1>1, <1>2, <1>3, <1>4, <1>5, <1>6 DEF Next, Run, vars, flowVars

LEMMA HalvesStep ==
  ASSUME Typing, [Next]_vars, Halves
  PROVE  Halves'
  <1>1. Gaps \subseteq Gaps'
    <2>1. Error("sink", None) # NoFailure
      BY DEF Error, NoFailure, None
    <2> QED
      BY <2>1, ErrorStays DEF Gaps
  <1>2. /\ sink_done \in [{"flush", "close"} -> BOOLEAN]
        /\ sink_done.close => sink_done.flush
    BY DEF Typing, Typed, Flags, Ends
  <1>3. CASE UNCHANGED <<sinks, sink_done>>
    <2>1. Due' = Due
      BY <1>3 DEF Due
    <2> QED
      BY <1>1, <1>3, <2>1 DEF Halves, Alike, Gaps
  <1>4. CASE SinkItem
    <2>1. first_error = NoFailure /\ ~sink_done.flush /\ ~sink_done.close /\ sink_done' = sink_done
      BY <1>4, AtItem DEF SinkItem, AtEnd, ItemOps
    <2>2. Due = 0 /\ Due' = 0
      BY <1>2, <2>1, DueIs DEF Due
    <2>3. Gaps = {0}
      <3>1. NoFailure # Error("sink", None)
        BY DEF NoFailure, Error, None
      <3> QED
        BY <2>1, <3>1 DEF Gaps
    <2>4. PICK S : sinks \in [1..2 -> Seq(S)]
      BY DEF Typing, FlowInv, Logged
    <2>5. PICK n \in 0..2 :
            /\ sinks' = [h \in 1..2 |-> IF h <= n THEN Append(sinks[h], Entry("write", Top.item))
                                                 ELSE sinks[h]]
            /\ n < 2 => SinkFailed
      BY <1>4 DEF SinkItem
    <2>6. Alike(sinks, 0, {0})
      BY <2>2, <2>3 DEF Halves
    <2>7. Alike(sinks', 0, IF n = 1 THEN {0, 1} ELSE {0})
      <3> DEFINE new == sinks'
                 item == Top.item
      <3>1. Wrote(new, sinks, n, item)
        BY <2>5 DEF Wrote
      <3> HIDE DEF new, item
      <3>2. Alike(new, 0, IF n = 1 THEN {0, 1} ELSE {0})
        BY <2>4, <2>6, <3>1, WriteAlike
      <3> QED
        BY <3>2 DEF new
    <2>8. (IF n = 1 THEN {0, 1} ELSE {0}) \subseteq Gaps'
      <3>1. CASE n = 1
        <4>1. first_error' = Error("sink", None)
          BY <2>1, <2>5, <3>1 DEF SinkFailed, Halt, Offer
        <4> QED
          BY <4>1, <3>1 DEF Gaps
      <3>2. CASE n # 1
        BY <3>2 DEF Gaps
      <3> QED
        BY <3>1, <3>2
    <2> QED
      BY <2>2, <2>7, <2>8 DEF Halves, Alike
  <1>5. CASE SinkEnd
    <2>1. PICK S : sinks \in [1..2 -> Seq(S)]
      BY DEF Typing, FlowInv, Logged
    <2>2. Gaps \in SUBSET {0, 1}
      BY DEF Gaps
    <2> DEFINE due == {call \in {"flush", "close"} :
                         Top.op \in {call, "abort"} /\ ~sink_done[call]}
               first(f) == IF "flush" \in due THEN Tee(sinks, "flush", f["flush"]) ELSE sinks
    <2>3. PICK f : /\ sink_done' = [call \in {"flush", "close"} |-> sink_done[call] \/ call \in due]
                   /\ sinks' = IF "close" \in due THEN Tee(first(f), "close", f["close"])
                               ELSE first(f)
      BY <1>5, Zenon DEF SinkEnd
    <2>4. /\ sink_done'.flush <=> sink_done.flush \/ "flush" \in due
          /\ sink_done'.close <=> sink_done.close \/ "close" \in due
          /\ sink_done' \in [{"flush", "close"} -> BOOLEAN]
      BY <1>2, <2>3
    <2>5. /\ "flush" \in due => ~sink_done.flush
          /\ "close" \in due => ~sink_done.close
      OBVIOUS
    <2>6. sink_done'.flush
      BY <1>5, SinkEndDone
    <2>7. Closing[1] = Entry("flush", <<>>) /\ Closing[2] = Entry("close", <<>>)
      BY DEF Closing
    <2>8. /\ Due = IF sink_done.close THEN 2 ELSE IF sink_done.flush THEN 1 ELSE 0
          /\ Due' = IF sink_done'.close THEN 2 ELSE 1
      <3>1. Due = IF sink_done.close THEN 2 ELSE IF sink_done.flush THEN 1 ELSE 0
        BY <1>2, DueIs
      <3>2. Due' = IF sink_done'.close THEN 2 ELSE IF sink_done'.flush THEN 1 ELSE 0
        BY <2>4, <2>6, DueOf DEF Due
      <3> QED
        BY <2>6, <3>1, <3>2
    <2> HIDE DEF due
    <2>9. /\ Alike(first(f), IF "flush" \in due THEN Due + 1 ELSE Due, Gaps)
          /\ \E R : first(f) \in [1..2 -> Seq(R)]
      <3>1. CASE "flush" \in due
        <4>1. Due = 0
          BY <1>2, <2>5, <2>8, <3>1
        <4>2. Alike(sinks, 0, Gaps) /\ Entry("flush", <<>>) = Closing[0 + 1]
          BY <2>7, <4>1 DEF Halves
        <4>3. /\ Alike(Tee(sinks, "flush", f["flush"]), 0 + 1, Gaps)
              /\ \E R : Tee(sinks, "flush", f["flush"]) \in [1..2 -> Seq(R)]
          BY <2>1, <2>2, <4>2, TeeAlike
        <4> QED
          BY <3>1, <4>1, <4>3
      <3>2. CASE "flush" \notin due
        BY <2>1, <3>2 DEF Halves
      <3> QED
        BY <3>1, <3>2
    <2>10. PICK R : first(f) \in [1..2 -> Seq(R)]
      BY <2>9
    <2> DEFINE flushed == first(f)
    <2> HIDE DEF flushed
    <2>11. Alike(sinks', Due', Gaps)
      <3>1. CASE "close" \in due
        <4>1. /\ (IF "flush" \in due THEN Due + 1 ELSE Due) = 1 /\ Due' = 2
          BY <2>4, <2>5, <2>6, <2>8, <3>1
        <4>2. /\ flushed \in [1..2 -> Seq(R)] /\ Alike(flushed, 1, Gaps)
              /\ Entry("close", <<>>) = Closing[1 + 1]
              /\ sinks' = Tee(flushed, "close", f["close"])
          BY <2>3, <2>7, <2>9, <2>10, <3>1, <4>1 DEF flushed
        <4>3. Alike(Tee(flushed, "close", f["close"]), 1 + 1, Gaps)
          BY <2>2, <4>2, TeeAlike
        <4> QED
          BY <4>1, <4>2, <4>3
      <3>2. CASE "close" \notin due
        <4>1. (IF "flush" \in due THEN Due + 1 ELSE Due) = Due'
          BY <1>2, <2>4, <2>5, <2>6, <2>8, <3>2
        <4> QED
          BY <2>3, <2>9, <3>2, <4>1
      <3> QED
        BY <3>1, <3>2
    <2> QED
      BY <1>1, <2>11 DEF Halves, Alike
  <1>6. UNCHANGED <<sinks, sink_done>> \/ SinkItem \/ SinkEnd
    <2>1. Stages => UNCHANGED <<sinks, sink_done>>
      BY StageForms DEF Outside
    <2>2. SinkTick \/ PullFirst \/ Retire \/ PullSecond \/ SeeCancel \/ Return \/ CloseRest
            \/ Start \/ Cancel => UNCHANGED <<sinks, sink_done>>
      BY DEF SinkTick, Outside, PullFirst, Retire, PullSecond, SeeCancel, Return, CloseRest,
             Start, Cancel, Inside
    <2> QED
      BY <2>1, <2>2 DEF Next, Run, vars, flowVars
  <1> QED
    BY <1>3, <1>4, <1>5, <1>6

LEMMA HalvesHold ==
  ASSUME Typing, Halves
  PROVE  BothHalves
  <1> DEFINE items(h) == Len(sinks[h]) - Due
  <1>1. PICK S : sinks \in [1..2 -> Seq(S)]
    BY DEF Typing, FlowInv, Logged
  <1>2. Due \in Nat /\ (sink_done.close => Due = 2)
    <2>1. /\ sink_done \in [{"flush", "close"} -> BOOLEAN]
          /\ sink_done.close => sink_done.flush
      BY DEF Typing, Typed, Flags, Ends
    <2> QED
      BY <2>1, DueIs
  <1>3. \A h \in 1..2 : Len(sinks[h]) \in Nat /\ DOMAIN sinks[h] = 1..Len(sinks[h])
    BY <1>1, LenProperties
  <1>4. /\ items(1) - items(2) \in (IF first_error = Error("sink", None) THEN {0, 1} ELSE {0})
        /\ items(2) >= 0
    <2>1. items(1) - items(2) = Len(sinks[1]) - Len(sinks[2])
      <3>1. Len(sinks[1]) \in Nat /\ Len(sinks[2]) \in Nat /\ Due \in Nat
        BY <1>2, <1>3
      <3> QED
        BY ONLY <3>1
    <2>2. Len(sinks[1]) - Len(sinks[2]) \in Gaps /\ Due <= Len(sinks[2])
      BY DEF Halves, Alike
    <2>3. items(2) >= 0
      BY <1>2, <1>3, <2>2
    <2> HIDE DEF items
    <2> QED
      BY <2>1, <2>2, <2>3 DEF Gaps
  <1>5. \A k \in 1..items(2) : sinks[1][k] = sinks[2][k]
    BY DEF Halves, Alike
  <1>6. ASSUME NEW h \in 1..2, NEW k \in DOMAIN sinks[h]
        PROVE  IF k <= items(h) THEN sinks[h][k].call = "write"
                                ELSE sinks[h][k] = Closing[k - items(h)]
    <2>1. k \in 1..Len(sinks[h])
      BY <1>3
    <2>2. CASE k <= items(h)
      <3>1. k \in 1..items(h)
        BY <1>2, <1>3, <2>1, <2>2
      <3> QED
        BY <2>2, <3>1 DEF Halves, Alike
    <2>3. CASE ~(k <= items(h))
      <3> DEFINE j == k - items(h)
      <3>1. j \in 1..Due /\ Len(sinks[h]) - Due + j = k
        BY <1>2, <1>3, <2>1, <2>3
      <3>2. sinks[h][Len(sinks[h]) - Due + j] = Closing[j]
        BY <3>1 DEF Halves, Alike
      <3> QED
        BY <2>3, <3>1, <3>2
    <2> QED
      BY <2>2, <2>3
  <1>7. Started /\ phase = "ended" => Due = 2 /\ source.closed = <<1, 1>>
    <2> SUFFICES ASSUME first_error.from # "config", phase = "ended"
                 PROVE  Due = 2 /\ source.closed = <<1, 1>>
      BY DEF Started
    <2>1. sink_done.close
      BY Zenon DEF Typing, Ends
    <2>2. /\ source.closed \in (0..1) \X (0..1)
          /\ source.closed[1] = 1 /\ source.closed[2] = 1
      BY DEF Typing, SourceEnds
    <2> QED
      BY <1>2, <2>1, <2>2
  <1> QED
    BY <1>4, <1>5, <1>6, <1>7 DEF BothHalves

\* For any number of items and whichever calls of the two sinks fail: TeeSink
\* shows both the same items in the same order, one flush and one close, but
\* for an item that one of them refused, and a run that ends, however it does,
\* leaves both flushed and closed and both sources closed once.
THEOREM FlowBothHalves == Spec => []BothHalves
  <1>1. Typing /\ Halves /\ [Next]_vars => Halves'
    BY HalvesStep
  <1>2. Init => Halves
    <2> SUFFICES ASSUME Init
                 PROVE  Halves
      OBVIOUS
    <2>1. sink_done \in [{"flush", "close"} -> BOOLEAN] /\ ~sink_done.flush /\ ~sink_done.close
      BY DEF Init
    <2>2. Due = 0
      BY <2>1, DueIs
    <2>3. sinks[1] = <<>> /\ sinks[2] = <<>> /\ Len(<<>>) = 0
      BY DEF Init
    <2>4. 0 \in Gaps
      BY DEF Gaps
    <2> QED
      BY <2>2, <2>3, <2>4 DEF Halves, Alike
  <1> QED
    BY <1>1, <1>2, TypingInit, TypingStep, HalvesHold, PTL DEF Spec
-----------------------------------------------------------------------------
(* The statistics, and the dead letters. *)

\* A retry is counted before the wait for it, and so before the call.
Retried ==
    LET again == tries.calls - tries.items
    IN  /\ tally.retries >= again + Owed
        /\ ~cancelled => tally.retries = again + Owed

\* What the sink took is counted when its call returns, unless it fails.
Taken ==
    /\ tally.items_out + written <= Cardinality(WritesAt(2))
    /\ first_error = NoFailure => tally.items_out + written = Cardinality(WritesAt(2))

NoLetter == Error("sink", "dead_letter")

\* The letter for failure k, if its stage has that policy.
LetterOf(k) ==
    LET f == failures[k]
    IN  [stage |-> chain[f.at].id, input |-> IF Keeps(f.at) THEN f.item ELSE <<>>,
         attempts |-> f.attempts]

Lettered ==
    LET letters == Cardinality(DeadLetters(Len(failures)))
    IN  /\ \E S : failures \in Seq(S) /\ dlq \in Seq(S)
        /\ phase = "built" => failures = <<>>
        /\ tally.errors = Len(failures)
        /\ tally.dead_lettered = Len(dlq)
        /\ \/ Len(dlq) = letters
           \/ first_error = NoLetter /\ Len(dlq) = letters - 1
        /\ \A k \in 1..Len(failures) :
              k \in DeadLetters(k) /\ Cardinality(DeadLetters(k)) <= Len(dlq) =>
                 dlq[Cardinality(DeadLetters(k))] = LetterOf(k)

Blamed ==
    first_error.from = "stage" =>
       /\ failures # <<>>
       /\ chain[Last(failures).at].policy = "FailFast"
       /\ chain[Last(failures).at].id = first_error.id

LEMMA TallyAdds ==
  ASSUME tally \in Tally
  PROVE  /\ LET t == [tally EXCEPT !.errors = @ + 1] IN
            /\ t.errors = tally.errors + 1 /\ t.dead_lettered = tally.dead_lettered
            /\ t.retries = tally.retries /\ t.items_out = tally.items_out
         /\ LET t == [tally EXCEPT !.errors = @ + 1, !.dead_lettered = @ + 1] IN
            /\ t.errors = tally.errors + 1 /\ t.dead_lettered = tally.dead_lettered + 1
            /\ t.retries = tally.retries /\ t.items_out = tally.items_out
         /\ LET t == [tally EXCEPT !.retries = @ + 1] IN
            /\ t.errors = tally.errors /\ t.dead_lettered = tally.dead_lettered
            /\ t.retries = tally.retries + 1 /\ t.items_out = tally.items_out
            /\ t.items_in = tally.items_in
  <1> DEFINE one == [tally EXCEPT !.errors = @ + 1]
             two == [tally EXCEPT !.errors = @ + 1, !.dead_lettered = @ + 1]
  <1>1. /\ one.errors = tally.errors + 1 /\ one.dead_lettered = tally.dead_lettered
        /\ one.retries = tally.retries /\ one.items_out = tally.items_out
        /\ one \in [items_in : Nat, items_out : Nat, errors : Nat, dead_lettered : Nat,
                    retries : Nat]
    BY DEF Tally
  <1>2. two = [one EXCEPT !.dead_lettered = tally.dead_lettered + 1]
    BY DEF Tally
  <1> HIDE DEF one
  <1>3. /\ two.errors = tally.errors + 1 /\ two.dead_lettered = tally.dead_lettered + 1
        /\ two.retries = tally.retries /\ two.items_out = tally.items_out
    BY <1>1, <1>2
  <1> QED
    BY <1>1, <1>3 DEF one, Tally

\* A stage that gives up: the entry in the history, the statistics, and the
\* letter that its policy asks for.
LEMMA FailsForm ==
  ASSUME FlowInv, NEW at, NEW item, NEW attempts, Fails(at, item, attempts),
         first_error = NoFailure
  PROVE  /\ failures' = Append(failures, [at |-> at, item |-> item, attempts |-> attempts])
         /\ tally'.errors = tally.errors + 1
         /\ tally'.retries = tally.retries /\ tally'.items_out = tally.items_out
         /\ \/ /\ chain[at].policy = "DeadLetter"
               /\ dlq' = Append(dlq, Letter(at, item, attempts))
               /\ tally'.dead_lettered = tally.dead_lettered + 1
               /\ first_error' = first_error /\ written' = written
            \/ /\ chain[at].policy = "DeadLetter"
               /\ dlq' = dlq /\ tally'.dead_lettered = tally.dead_lettered
               /\ first_error' = NoLetter /\ written' = 0
            \/ /\ chain[at].policy # "DeadLetter"
               /\ dlq' = dlq /\ tally'.dead_lettered = tally.dead_lettered
               /\ \/ first_error' = first_error /\ written' = written
                  \/ /\ chain[at].policy = "FailFast"
                     /\ first_error' = Error("stage", chain[at].id) /\ written' = 0
  <1>1. tally \in Tally
    BY DEF FlowInv, Counted
  <1>2. \A error : Offer(error) = error
    BY DEF Offer
  <1>3. CASE Route(at, item, attempts) /\ chain[at].policy = "DeadLetter"
    BY <1>1, <1>2, <1>3, TallyAdds DEF Fails, Route, Goes, Halt, NoLetter
  <1>4. CASE chain[at].policy # "DeadLetter" /\ UNCHANGED dlq
               /\ tally' = [tally EXCEPT !.errors = @ + 1]
               /\ \/ Goes(<<>>)
                  \/ chain[at].policy = "FailFast" /\ Halt(Error("stage", chain[at].id))
    BY <1>1, <1>2, <1>4, TallyAdds DEF Fails, Goes, Halt
  <1> QED
    BY <1>3, <1>4 DEF Fails

\* The failures under the dead-letter policy, as a set of their numbers.
LEMMA LettersFinite ==
  ASSUME NEW k \in Nat
  PROVE  IsFiniteSet(DeadLetters(k)) /\ Cardinality(DeadLetters(k)) \in Nat
  <1>1. DeadLetters(k) \in SUBSET (1..k)
    BY DEF DeadLetters
  <1>2. IsFiniteSet(1..k)
    BY FS_Interval
  <1>3. IsFiniteSet(DeadLetters(k))
    BY <1>1, <1>2, FS_Subset
  <1> QED
    BY <1>3, FS_CardinalityType

LEMMA LettersGrow ==
  ASSUME NEW n \in Nat, NEW k \in 1..n, k \in DeadLetters(k)
  PROVE  Cardinality(DeadLetters(k)) \in 1..Cardinality(DeadLetters(n))
  <1>1. /\ DeadLetters(k) \in SUBSET DeadLetters(n) /\ DeadLetters(k) # {}
    BY DEF DeadLetters
  <1>2. /\ IsFiniteSet(DeadLetters(n)) /\ Cardinality(DeadLetters(n)) \in Nat
        /\ IsFiniteSet(DeadLetters(k)) /\ Cardinality(DeadLetters(k)) \in Nat
    BY LettersFinite
  <1>3. Cardinality(DeadLetters(k)) <= Cardinality(DeadLetters(n))
    BY <1>1, <1>2, FS_Subset
  <1>4. Cardinality(DeadLetters(k)) # 0
    BY <1>1, <1>2, FS_EmptySet
  <1> QED
    BY <1>2, <1>3, <1>4

\* One more failure.
LEMMA LetterAdded ==
  ASSUME NEW S, failures \in Seq(S), chain' = chain, NEW at, NEW item, NEW attempts,
         failures' = Append(failures, [at |-> at, item |-> item, attempts |-> attempts]),
         NEW n, n = Len(failures)
  PROVE  /\ n \in Nat /\ Len(failures') = n + 1
         /\ \A k \in 1..n : /\ DeadLetters(k)' = DeadLetters(k)
                            /\ LetterOf(k)' = LetterOf(k)
         /\ Cardinality(DeadLetters(n + 1)') = Cardinality(DeadLetters(n))
                 + (IF chain[at].policy = "DeadLetter" THEN 1 ELSE 0)
         /\ n + 1 \in DeadLetters(n + 1)' <=> chain[at].policy = "DeadLetter"
         /\ chain[at].policy = "DeadLetter" =>
               LetterOf(n + 1)' = Letter(at, item, attempts)
         /\ failures' # <<>> /\ Last(failures') = [at |-> at, item |-> item, attempts |-> attempts]
  <1> DEFINE f == [at |-> at, item |-> item, attempts |-> attempts]
             R == S \cup {f}
  <1>1. failures \in Seq(R) /\ f \in R
    BY SeqMonotonic
  <1> HIDE DEF R
  <1>2. /\ n \in Nat /\ Len(failures') = n + 1 /\ failures'[n + 1] = f
        /\ \A k \in 1..n : failures'[k] = failures[k]
    BY <1>1, AppendProperties, LenProperties DEF f
  <1>3. /\ failures'[n + 1].at = at /\ failures'[n + 1].item = item
        /\ failures'[n + 1].attempts = attempts
    BY <1>2 DEF f
  <1> HIDE DEF f
  <1>4. \A k \in 1..n : /\ DeadLetters(k)' = DeadLetters(k)
                        /\ LetterOf(k)' = LetterOf(k)
    <2> TAKE k \in 1..n
    <2>1. \A j \in 1..k : failures'[j] = failures[j]
      BY <1>2
    <2> QED
      BY <1>2, <2>1 DEF DeadLetters, LetterOf, Keeps
  <1>5. DeadLetters(n + 1)' = DeadLetters(n)
            \cup (IF chain[at].policy = "DeadLetter" THEN {n + 1} ELSE {})
    <2>1. \A j \in 1..(n + 1) : j \in 1..n \/ j = n + 1
      BY <1>2
    <2>2. \A j \in 1..n : j \in 1..(n + 1) /\ failures'[j] = failures[j]
      BY <1>2
    <2>3. n + 1 \in 1..(n + 1)
      BY <1>2
    <2> QED
      BY <1>3, <2>1, <2>2, <2>3 DEF DeadLetters
  <1>6. /\ IsFiniteSet(DeadLetters(n)) /\ n + 1 \notin DeadLetters(n)
        /\ Cardinality(DeadLetters(n)) \in Nat
    <2>1. n + 1 \notin 1..n
      BY <1>2
    <2> QED
      BY <1>2, <2>1, LettersFinite DEF DeadLetters
  <1>7. Cardinality(DeadLetters(n + 1)') = Cardinality(DeadLetters(n))
                 + (IF chain[at].policy = "DeadLetter" THEN 1 ELSE 0)
    <2>1. Cardinality(DeadLetters(n) \cup {n + 1}) = Cardinality(DeadLetters(n)) + 1
      BY <1>6, FS_AddElement
    <2>2. CASE chain[at].policy = "DeadLetter"
      <3>1. DeadLetters(n + 1)' = DeadLetters(n) \cup {n + 1}
        BY <1>5, <2>2
      <3> QED
        BY <2>1, <2>2, <3>1
    <2>3. CASE chain[at].policy # "DeadLetter"
      <3>1. DeadLetters(n + 1)' = DeadLetters(n)
        BY <1>5, <2>3
      <3> QED
        BY <1>6, <2>3, <3>1
    <2> QED
      BY <2>2, <2>3
  <1>8. chain[at].policy = "DeadLetter" => LetterOf(n + 1)' = Letter(at, item, attempts)
    <2>1. \A k : LetterOf(k)' =
            LET f2 == failures'[k]
            IN  [stage |-> chain[f2.at].id, input |-> IF Keeps(f2.at) THEN f2.item ELSE <<>>,
                 attempts |-> f2.attempts]
      BY DEF LetterOf, Keeps
    <2> QED
      BY <1>3, <2>1 DEF Letter, KeepInput
  <1>9. failures' # <<>> /\ Last(failures') = f
    BY <1>2 DEF Last
  <1> QED
    BY <1>2, <1>4, <1>5, <1>6, <1>7, <1>8, <1>9 DEF f

LEMMA FailsLettered ==
  ASSUME FlowInv, Lettered, first_error = NoFailure, chain' = chain, phase' # "built",
         NEW at, NEW item, NEW attempts, Fails(at, item, attempts)
  PROVE  Lettered' /\ Blamed'
  <1>1. PICK S : failures \in Seq(S) /\ dlq \in Seq(S)
    BY DEF Lettered
  <1>2. PICK n : n = Len(failures)
    OBVIOUS
  <1>3. PICK c : c = Cardinality(DeadLetters(n))
    OBVIOUS
  <1>4. PICK d : d = Len(dlq)
    OBVIOUS
  <1> DEFINE f == [at |-> at, item |-> item, attempts |-> attempts]
             letter == Letter(at, item, attempts)
             one == IF chain[at].policy = "DeadLetter" THEN 1 ELSE 0
             R == S \cup {f, letter}
  <1>5. failures \in Seq(R) /\ dlq \in Seq(R) /\ f \in R /\ letter \in R
    BY <1>1, SeqMonotonic
  <1> HIDE DEF R, letter
  <1>6. n \in Nat /\ c \in Nat /\ d \in Nat
    BY <1>1, <1>2, <1>3, <1>4, LettersFinite, LenProperties
  <1>7. /\ failures' = Append(failures, f) /\ tally'.errors = tally.errors + 1
        /\ \/ /\ one = 1 /\ dlq' = Append(dlq, letter)
              /\ tally'.dead_lettered = tally.dead_lettered + 1 /\ first_error' = NoFailure
           \/ /\ one = 1 /\ dlq' = dlq /\ tally'.dead_lettered = tally.dead_lettered
              /\ first_error' = NoLetter
           \/ /\ one = 0 /\ dlq' = dlq /\ tally'.dead_lettered = tally.dead_lettered
              /\ \/ first_error' = NoFailure
                 \/ /\ chain[at].policy = "FailFast"
                    /\ first_error' = Error("stage", chain[at].id)
    BY FailsForm DEF letter
  <1>8. /\ Len(failures') = n + 1
        /\ \A k \in 1..n : DeadLetters(k)' = DeadLetters(k) /\ LetterOf(k)' = LetterOf(k)
        /\ Cardinality(DeadLetters(n + 1)') = c + one
        /\ n + 1 \in DeadLetters(n + 1)' <=> one = 1
        /\ one = 1 => LetterOf(n + 1)' = letter
        /\ failures' # <<>> /\ Last(failures') = f
    BY <1>1, <1>2, <1>3, <1>7, LetterAdded DEF letter
  <1>9. /\ tally.errors = n /\ tally.dead_lettered = d /\ d = c
        /\ \A k \in 1..n :
              k \in DeadLetters(k) /\ Cardinality(DeadLetters(k)) <= d =>
                 dlq[Cardinality(DeadLetters(k))] = LetterOf(k)
    BY <1>2, <1>3, <1>4 DEF Lettered, NoLetter, NoFailure, Error, None
  <1>10. failures' \in Seq(R) /\ dlq' \in Seq(R)
    BY <1>5, <1>7, AppendProperties
  <1>11. /\ Len(dlq') = d \/ (Len(dlq') = d + 1 /\ dlq'[d + 1] = letter /\ one = 1)
         /\ \A j \in 1..d : dlq'[j] = dlq[j]
         /\ Len(dlq') = d => dlq' = dlq
    BY <1>4, <1>5, <1>6, <1>7, AppendProperties
  <1>12. Cardinality(DeadLetters(Len(failures)))' = c + one
    BY <1>8 DEF DeadLetters
  <1>13. dlq' = Append(dlq, letter) => Len(dlq') = d + 1
    BY <1>4, <1>5, AppendProperties
  <1>14. /\ tally'.errors = Len(failures') /\ tally'.dead_lettered = Len(dlq')
         /\ Len(dlq') = c + one \/ (first_error' = NoLetter /\ Len(dlq') = c + one - 1)
    <2>1. tally'.errors = Len(failures')
      BY <1>7, <1>8, <1>9
    <2>2. CASE dlq' = Append(dlq, letter) /\ one = 1 /\ tally'.dead_lettered = tally.dead_lettered + 1
      BY <1>9, <1>13, <2>1, <2>2
    <2>3. CASE /\ dlq' = dlq /\ tally'.dead_lettered = tally.dead_lettered
               /\ one = 0 \/ (one = 1 /\ first_error' = NoLetter)
      <3>1. Len(dlq') = d
        BY <1>4, <2>3
      <3> HIDE DEF one
      <3> QED
        BY <1>6, <1>9, <2>1, <2>3, <3>1
    <2> HIDE DEF one, f
    <2> QED
      BY <1>7, <2>2, <2>3, Zenon
  <1>15. ASSUME NEW k \in 1..(n + 1), k \in DeadLetters(k)',
                Cardinality(DeadLetters(k)') <= Len(dlq')
         PROVE  dlq'[Cardinality(DeadLetters(k)')] = LetterOf(k)'
    <2>1. CASE k \in 1..n
      <3>1. /\ DeadLetters(k)' = DeadLetters(k) /\ LetterOf(k)' = LetterOf(k)
            /\ k \in DeadLetters(k)
        BY <1>8, <1>15, <2>1
      <3>2. Cardinality(DeadLetters(k)) \in 1..c
        BY <1>3, <1>6, <2>1, <3>1, LettersGrow
      <3>3. dlq[Cardinality(DeadLetters(k))] = LetterOf(k)
        BY <1>6, <1>9, <2>1, <3>1, <3>2
      <3> QED
        BY <1>9, <1>11, <3>1, <3>2, <3>3
    <2>2. CASE k = n + 1
      <3>1. Cardinality(DeadLetters(k)') = c + one /\ one = 1 /\ LetterOf(k)' = letter
        BY <1>8, <1>15, <2>2
      <3>2. Len(dlq') = d + 1 /\ dlq'[d + 1] = letter
        BY <1>6, <1>9, <1>11, <1>15, <3>1
      <3> QED
        BY <1>9, <3>1, <3>2
    <2> QED
      BY <1>6, <2>1, <2>2
  <1>16. Lettered'
    <2>1. (\E T : failures \in Seq(T) /\ dlq \in Seq(T))'
      BY <1>10
    <2>2. (\A k \in 1..Len(failures) :
              k \in DeadLetters(k) /\ Cardinality(DeadLetters(k)) <= Len(dlq) =>
                 dlq[Cardinality(DeadLetters(k))] = LetterOf(k))'
      BY <1>8, <1>15
    <2>3. (\/ Len(dlq) = Cardinality(DeadLetters(Len(failures)))
           \/ first_error = NoLetter /\ Len(dlq) = Cardinality(DeadLetters(Len(failures))) - 1)'
      <3>1. one \in {0, 1}
        OBVIOUS
      <3> HIDE DEF one
      <3> QED
        BY <1>6, <1>12, <1>14, <3>1 DEF NoLetter
    <2>4. (tally.errors = Len(failures) /\ tally.dead_lettered = Len(dlq))'
      BY <1>14
    <2> QED
      BY <2>1, <2>2, <2>3, <2>4 DEF Lettered
  <1>17. Blamed'
    <2>1. first_error'.from = "stage" =>
            chain[at].policy = "FailFast" /\ first_error'.id = chain[at].id
      BY <1>7 DEF NoFailure, NoLetter, Error, None
    <2> QED
      BY <1>8, <2>1 DEF Blamed
  <1> QED
    BY <1>16, <1>17

-----------------------------------------------------------------------------
(* The steps of all but the stages leave most of it alone. *)

Pumps == PullFirst \/ Retire \/ PullSecond
Others ==
    SinkItem \/ SinkTick \/ SinkEnd \/ Pumps \/ Start \/ SeeCancel \/ Return \/ CloseRest
       \/ Cancel \/ (BuilderNext /\ UNCHANGED flowVars) \/ UNCHANGED vars

LEMMA NextIs == [Next]_vars <=> Stages \/ Others
  BY DEF Next, Run, Others, Pumps

\* What the source does to the statistics and the first error.
LEMMA PumpForm ==
  ASSUME Typing, Pumps
  PROVE  /\ UNCHANGED Inside /\ phase # "built" /\ agenda = <<>>
         /\ phase' \in {"pump", "switch", "flush", "abort"}
         /\ first_error' = first_error \/ first_error' = Error("source", None)
         /\ \A field \in {"errors", "dead_lettered", "retries", "items_out"} :
               tally'[field] = tally[field]
  <1>1. /\ UNCHANGED Inside /\ phase \in {"pump", "switch"} /\ agenda = <<>>
        /\ first_error = NoFailure
    BY DEF Pumps, PullFirst, Retire, PullSecond, Ready, Typing, FlowInv, Halted
  <1>2. \/ GotItem \/ GotIdle
        \/ SourceFailed
        \/ phase' \in {"switch", "flush"} /\ UNCHANGED <<tally, first_error>>
    BY DEF Pumps, PullFirst, Retire, PullSecond
  <1>3. GotItem \/ GotIdle => phase' = "pump" /\ UNCHANGED first_error
    BY DEF GotItem, GotIdle, Pulls
  <1>4. SourceFailed => phase' = "abort" /\ first_error' = Error("source", None)
    BY <1>1 DEF SourceFailed, Halt, Offer
  <1>5. tally' = tally \/ tally' = [tally EXCEPT !.items_in = @ + 1]
    BY <1>2 DEF GotItem, GotIdle, SourceFailed
  <1>6. \A field \in {"errors", "dead_lettered", "retries", "items_out"} :
               tally'[field] = tally[field]
    BY <1>5 DEF Typing, FlowInv, Counted, Tally
  <1> QED
    BY <1>1, <1>2, <1>3, <1>4, <1>6

LEMMA OtherFrame ==
  ASSUME Typing, Others
  PROVE  /\ UNCHANGED <<failures, dlq, tries>>
         /\ /\ tally'.errors = tally.errors /\ tally'.dead_lettered = tally.dead_lettered
            /\ tally'.retries = tally.retries
         /\ chain' = chain \/ phase = "built"
         /\ phase' = "built" => phase = "built"
         /\ first_error' = first_error \/ first_error'.from # "stage"
         /\ ~cancelled' => ~cancelled
  <1>1. CASE SinkItem \/ SinkTick \/ SinkEnd
    <2>1. UNCHANGED <<failures, dlq, tries, tally, builderVars, cancelled>>
      BY <1>1 DEF SinkItem, SinkTick, SinkEnd, Outside
    <2>2. Goes(<<>>) \/ SinkFailed \/ UNCHANGED <<phase, first_error>>
      BY <1>1 DEF SinkItem, SinkTick, SinkEnd
    <2>3. /\ phase' = "built" => phase = "built"
          /\ first_error' = first_error \/ first_error'.from # "stage"
      BY <2>2 DEF Goes, SinkFailed, Halt, Offer, Error
    <2> QED
      BY <2>1, <2>3 DEF builderVars
  <1>2. CASE Pumps
    <2>1. /\ UNCHANGED Inside /\ phase' # "built"
          /\ first_error' = first_error \/ first_error' = Error("source", None)
          /\ tally'.errors = tally.errors /\ tally'.dead_lettered = tally.dead_lettered
          /\ tally'.retries = tally.retries
      BY <1>2, PumpForm
    <2> QED
      BY <2>1 DEF Inside, builderVars, Error
  <1>3. CASE Start
    BY <1>3 DEF Start, Error
  <1>4. CASE SeeCancel \/ Cancel
    BY <1>4 DEF SeeCancel, Cancel, Inside, builderVars
  <1>5. CASE Return
    <2>1. /\ tally'.errors = tally.errors /\ tally'.dead_lettered = tally.dead_lettered
          /\ tally'.retries = tally.retries
      BY <1>5 DEF Return, Typing, FlowInv, Counted, Tally
    <2>2. phase # "built"
      BY <1>5 DEF Return, Typing, FlowInv, Halted
    <2>3. UNCHANGED <<failures, dlq, tries, builderVars, cancelled, first_error>>
      BY <1>5 DEF Return, Outside
    <2>4. phase' # "built"
      BY <1>5, <2>2, UnderWay DEF Return, Typing, Busy
    <2> QED
      BY <2>1, <2>3, <2>4 DEF builderVars
  <1>6. CASE CloseRest
    BY <1>6 DEF CloseRest, Inside, builderVars, Offer, Error
  <1>7. CASE BuilderNext /\ UNCHANGED flowVars
    <2>1. phase = "built"
      <3>1. made \in {"building"}
        BY <1>7 DEF BuilderNext, StageId, OnError, DeadLetter, IdleTick, Map, TryMap, TryMapRetry,
                    Group, Buffer, Sink, Method
      <3> QED
        BY <3>1 DEF Typing, Typed, Built
    <2> QED
      BY <1>7, <2>1 DEF flowVars
  <1>8. CASE UNCHANGED vars
    BY <1>8 DEF vars, flowVars, builderVars
  <1> QED
    BY <1>1, <1>2, <1>3, <1>4, <1>5, <1>6, <1>7, <1>8 DEF Others

LEMMA OtherOwed ==
  ASSUME Typing, Others
  PROVE  Owed' = Owed
  <1>1. CASE SinkItem \/ SinkTick \/ SinkEnd
    <2>1. /\ agenda # <<>> /\ Top.op \in {"process", "tick", "flush", "close", "abort"}
          /\ Top.at = AtSink
      BY <1>1 DEF SinkItem, SinkTick, SinkEnd, AtEnd
    <2>2. Sound(Top) /\ Top.attempt \in Nat
      BY <2>1, HeadTyped DEF Typing
    <2>3. Len(chain) \in Nat
      BY LenProperties DEF Typing, Typed, Built
    <2>4. ~IsAt(Top, "try_map_retry")
      BY <2>1, <2>3 DEF IsAt, AtSink
    <2>5. Owed = 0
      BY <2>1, <2>2, <2>4 DEF Sound, Owed, ItemOps
    <2> QED
      BY <1>1, <2>5, SinkItemTyped, SinkTickTyped, SinkEndTyped
  <1>2. CASE Pumps
    BY <1>2, PumpForm, SourceTyped DEF Owed, Pumps
  <1>3. CASE Return
    BY <1>3, ReturnTyped DEF Return, Owed, ItemOps
  <1>4. CASE Start \/ SeeCancel \/ CloseRest
    <2>1. agenda = <<>>
      BY <1>4 DEF Start, SeeCancel, CloseRest, Typing, FlowInv, Halted
    <2> QED
      BY <1>4, <2>1, RestTyped DEF Owed
  <1>5. CASE Cancel \/ (BuilderNext /\ UNCHANGED flowVars) \/ UNCHANGED vars
    BY <1>5 DEF Cancel, flowVars, vars, Owed, Top
  <1> QED
    BY <1>1, <1>2, <1>3, <1>4, <1>5 DEF Others

-----------------------------------------------------------------------------
(* Each part of Accounted is kept. *)

LEMMA WritesFinite ==
  ASSUME NEW S, NEW log \in Seq(S)
  PROVE  LET writes == {k \in DOMAIN log : log[k].call = "write"} IN
         IsFiniteSet(writes) /\ Cardinality(writes) \in Nat
  <1>1. DOMAIN log = 1..Len(log) /\ Len(log) \in Nat
    BY LenProperties
  <1>2. IsFiniteSet(DOMAIN log)
    BY <1>1, FS_Interval
  <1> QED
    BY <1>2, FS_Subset, FS_CardinalityType

LEMMA OneMoreWrite ==
  ASSUME NEW S, NEW log \in Seq(S), NEW item, NEW new, new = Append(log, Entry("write", item))
  PROVE  Cardinality({k \in DOMAIN new : new[k].call = "write"})
           = Cardinality({k \in DOMAIN log : log[k].call = "write"}) + 1
  <1> DEFINE e == Entry("write", item)
             R == S \cup {e}
             writes == {k \in DOMAIN log : log[k].call = "write"}
             n == Len(log)
  <1>1. log \in Seq(R) /\ e \in R /\ e.call = "write"
    BY SeqMonotonic DEF Entry
  <1> HIDE DEF R, e
  <1>2. /\ n \in Nat /\ DOMAIN log = 1..n /\ DOMAIN new = 1..(n + 1) /\ new[n + 1] = e
        /\ \A k \in 1..n : new[k] = log[k]
    BY <1>1, AppendProperties, LenProperties DEF e
  <1> HIDE DEF n
  <1>3. /\ 1..(n + 1) = (1..n) \cup {n + 1} /\ n + 1 \notin 1..n
    BY <1>2
  <1>4. {k \in DOMAIN new : new[k].call = "write"} = writes \cup {n + 1} /\ n + 1 \notin writes
    BY <1>1, <1>2, <1>3
  <1>5. IsFiniteSet(writes)
    BY WritesFinite
  <1> HIDE DEF writes
  <1> QED
    BY <1>4, <1>5, FS_AddElement DEF writes

LEMMA TakenStep ==
  ASSUME Typing, [Next]_vars, Taken
  PROVE  Taken'
  <1>1. PICK S : sinks \in [1..2 -> Seq(S)]
    BY DEF Typing, FlowInv, Logged
  <1>2. Cardinality(WritesAt(2)) \in Nat
    <2>1. sinks[2] \in Seq(S)
      BY <1>1
    <2> QED
      BY <2>1, WritesFinite DEF WritesAt
  <1>3. tally.items_out \in Nat /\ written \in Nat
    BY DEF Typing, FlowInv, Counted, Tally
  <1>4. ASSUME UNCHANGED WritesAt(2), tally'.items_out = tally.items_out,
               \/ written' = written /\ (first_error' = NoFailure => first_error = NoFailure)
               \/ written' = 0 /\ first_error' # NoFailure
        PROVE  Taken'
    BY <1>2, <1>3, <1>4 DEF Taken
  <1>5. UNCHANGED sinks => UNCHANGED WritesAt(2)
    BY DEF WritesAt
  <1>6. first_error' = NoFailure => first_error = NoFailure
    BY ErrorStays DEF Typing
  <1>7. CASE Stages
    <2>1. UNCHANGED sinks /\ agenda # <<>>
      BY <1>7, StageForms DEF Outside
    <2>2. CASE FailStep
      <3>1. first_error = NoFailure /\ FlowInv
        BY <2>1, <2>2, AtItem DEF FailStep, Typing
      <3>2. /\ tally'.items_out = tally.items_out
            /\ written' = written \/ (written' = 0 /\ first_error' # NoFailure)
        <4>1. PICK at \in 1..Len(chain), item \in Seq(Pulled), attempts \in Nat :
                Fails(at, item, attempts)
          BY <2>2 DEF FailStep
        <4>2. NoLetter # NoFailure /\ \A id : Error("stage", id) # NoFailure
          BY DEF NoFailure, NoLetter, Error, None
        <4> QED
          BY <3>1, <4>1, <4>2, FailsForm
      <3> QED
        BY <1>4, <1>5, <1>6, <2>1, <3>2
    <2>3. CASE ~FailStep
      <3>1. ItemStep \/ SignalStep \/ RetryStep
        BY <1>7, <2>3, StageForms
      <3>2. written' = written
        BY <3>1 DEF ItemStep, SignalStep, RetryStep, Goes
      <3>3. tally' = tally \/ tally' = [tally EXCEPT !.retries = @ + 1]
        BY <1>7, <2>3, StageForms DEF ItemStep, SignalStep
      <3>4. tally'.items_out = tally.items_out
        BY <3>3 DEF Typing, FlowInv, Counted, Tally
      <3> QED
        BY <1>4, <1>5, <1>6, <2>1, <3>2, <3>4
    <2> QED
      BY <2>2, <2>3
  <1>8. CASE SinkItem
    <2>1. tally' = tally /\ first_error = NoFailure
      BY <1>8, AtWork DEF SinkItem, AtEnd, Typing
    <2>2. PICK n \in 0..2 :
            /\ sinks' = [h \in 1..2 |->
                  IF h <= n THEN Append(sinks[h], Entry("write", Top.item)) ELSE sinks[h]]
            /\ \/ n = 2 /\ written' = written + 1 /\ first_error' = first_error
               \/ n < 2 /\ SinkFailed
      BY <1>8 DEF SinkItem
    <2>3. CASE n = 2
      <3>1. sinks'[2] = Append(sinks[2], Entry("write", Top.item)) /\ sinks[2] \in Seq(S)
        BY <1>1, <2>2, <2>3
      <3>2. Cardinality(WritesAt(2)') = Cardinality(WritesAt(2)) + 1
        BY <3>1, OneMoreWrite DEF WritesAt
      <3>3. written' = written + 1
        BY <2>2, <2>3
      <3> QED
        BY <1>2, <1>3, <2>1, <3>2, <3>3 DEF Taken
    <2>4. CASE n < 2
      <3>1. sinks'[2] = sinks[2]
        BY <2>2, <2>4
      <3>2. UNCHANGED WritesAt(2)
        BY <3>1 DEF WritesAt
      <3>3. written' = 0 /\ first_error' # NoFailure
        BY <2>1, <2>2, <2>4 DEF SinkFailed, Halt, Offer, NoFailure, Error, None
      <3> QED
        BY <1>4, <2>1, <3>2, <3>3
    <2> QED
      BY <2>2, <2>3, <2>4
  <1>9. CASE SinkTick \/ SinkEnd
    <2>1. UNCHANGED WritesAt(2)
      BY <1>5, <1>9, SinkEndLogs DEF SinkTick, Outside, Typing
    <2>2. tally' = tally /\ (Goes(<<>>) \/ SinkFailed)
      BY <1>9 DEF SinkTick, SinkEnd
    <2>3. \/ written' = written
          \/ written' = 0 /\ first_error' # NoFailure
      BY <2>2 DEF Goes, SinkFailed, Halt, Offer, NoFailure, Error, None
    <2> QED
      BY <1>4, <1>6, <2>1, <2>2, <2>3
  <1>10. CASE Pumps
    <2>1. UNCHANGED <<sinks, written>> /\ tally'.items_out = tally.items_out
      BY <1>10, PumpForm DEF Inside
    <2> QED
      BY <1>4, <1>5, <1>6, <2>1
  <1>11. CASE Return
    <2>1. /\ tally'.items_out = tally.items_out + written /\ written' = 0
          /\ UNCHANGED <<sinks, first_error>>
      BY <1>11 DEF Return, Outside, Typing, FlowInv, Counted, Tally
    <2> QED
      BY <1>2, <1>3, <1>5, <2>1 DEF Taken
  <1>12. CASE Start \/ SeeCancel \/ CloseRest \/ Cancel
               \/ (BuilderNext /\ UNCHANGED flowVars) \/ UNCHANGED vars
    <2>1. UNCHANGED <<sinks, written, tally>>
      BY <1>12 DEF Start, SeeCancel, CloseRest, Cancel, Inside, flowVars, vars
    <2> QED
      BY <1>4, <1>5, <1>6, <2>1
  <1> QED
    BY <1>7, <1>8, <1>9, <1>10, <1>11, <1>12, NextIs DEF Others

\* Only a retry, or the wait for it, is on top of what a stage leaves if it
\* was there before or has just been counted.
LEMMA StageOwed ==
  ASSUME Typing, agenda # <<>>, UNCHANGED Outside
  PROVE  /\ ItemStep \/ SignalStep \/ FailStep => Owed' = 0
         /\ RetryStep /\ tally'.items_in = tally.items_in => Owed' = 1
  <1>1. UNCHANGED <<chain, builderVars>>
    BY DEF Outside, builderVars
  <1>2. ASSUME ItemStep
        PROVE  Owed' = 0
    <2>0. PICK M : \E more \in Seq(Tasks(M)) : Work(more) /\ Calm(more) /\ Goes(more)
      BY <1>2 DEF ItemStep
    <2>1. PICK more \in Seq(Tasks(M)) : Work(more) /\ Calm(more) /\ Goes(more)
      BY <2>0
    <2>2. UNCHANGED tally /\ Top.op \in ItemOps
      BY <1>2 DEF ItemStep
    <2> QED
      BY <1>1, <2>1, <2>2, ItemsGo DEF Typing, Typed, FlowInv, Goes
  <1>3. ASSUME SignalStep
        PROVE  Owed' = 0
    <2>0. PICK M : \E more \in Seq(Tasks(M)) :
            /\ \A k \in 1..Len(more) : Sound(more[k])
            /\ Passing(more, Len(more), Top.op)
            /\ Goes(more)
      BY <1>3 DEF SignalStep
    <2>1. PICK more \in Seq(Tasks(M)) :
            /\ \A k \in 1..Len(more) : Sound(more[k])
            /\ Passing(more, Len(more), Top.op)
            /\ Goes(more)
      BY <2>0
    <2>2. UNCHANGED tally /\ Top.op \in {"tick", "flush", "close", "abort"}
      BY <1>3 DEF SignalStep
    <2> QED
      BY <1>1, <2>1, <2>2, SignalGoes DEF Typing, Typed, FlowInv, Goes
  <1>4. FailStep => Owed' = 0
    BY <1>1, FailsTyped
  <1>5. RetryStep /\ tally'.items_in = tally.items_in => Owed' = 1
    BY <1>1, RetryGoes
  <1> QED
    BY <1>2, <1>3, <1>4, <1>5

LEMMA FailStepForm ==
  ASSUME Typing, agenda # <<>>, FailStep
  PROVE  tally'.retries = tally.retries
  <1>1. first_error = NoFailure /\ FlowInv
    BY AtItem DEF FailStep, Typing
  <1>2. PICK at \in 1..Len(chain), item \in Seq(Pulled), attempts \in Nat :
          Fails(at, item, attempts)
    BY DEF FailStep
  <1> QED
    BY <1>1, <1>2, FailsForm

LEMMA RetriedStep ==
  ASSUME Typing, [Next]_vars, Retried
  PROVE  Retried'
  <1> DEFINE again == tries.calls - tries.items
  <1>1. /\ tries.calls \in Nat /\ tries.items \in Nat /\ Owed \in {0, 1}
        /\ tally \in Tally /\ tally.retries \in Nat
    BY DEF Typing, Typed, Flags, Owed, FlowInv, Counted, Tally
  <1>2. CASE Others
    BY <1>2, OtherFrame, OtherOwed DEF Retried
  <1>3. CASE Stages
    <2>1. agenda # <<>> /\ UNCHANGED Outside /\ cancelled' = cancelled
      BY <1>3, StageForms DEF Outside
    <2>2. /\ ItemStep \/ SignalStep \/ FailStep => Owed' = 0 /\ tally'.retries = tally.retries
          /\ RetryStep /\ tally' = tally => Owed' = 1 /\ tally'.retries = tally.retries
          /\ RetryStep /\ tally' = [tally EXCEPT !.retries = @ + 1] =>
                Owed' = 1 /\ tally'.retries = tally.retries + 1
      <3>1. ItemStep \/ SignalStep => tally' = tally
        BY DEF ItemStep, SignalStep
      <3>2. FailStep => tally'.retries = tally.retries
        BY <2>1, FailStepForm
      <3>3. tally' = [tally EXCEPT !.retries = @ + 1] =>
               tally'.retries = tally.retries + 1 /\ tally'.items_in = tally.items_in
        BY <1>1, TallyAdds
      <3> QED
        BY <2>1, <3>1, <3>2, <3>3, StageOwed
    <2>3. Tried /\ Top.attempt \in Nat \ {0} =>
            again' = again + (IF Top.attempt > 1 THEN 1 ELSE 0)
      BY <1>1 DEF Tried
    <2>4. tries' = tries => again' = again
      OBVIOUS
    <2>5. SignalStep => tries' = tries
      BY DEF SignalStep
    <2>6. again \in Int
      BY <1>1
    <2> DEFINE r == tally.retries  c == cancelled
    <2>7. Retried <=> r >= again + Owed /\ (~c => r = again + Owed)
      BY DEF Retried
    <2>8. Retried' <=> r' >= again' + Owed' /\ (~c => r' = again' + Owed')
      BY <2>1 DEF Retried
    <2> HIDE DEF again, r
    <2>9. \/ again' = again + Owed /\ r' = r /\ Owed' = 0
          \/ again' = again + Owed /\ r' = r + 1 /\ Owed' = 1
          \/ again' = again /\ r' = r /\ Owed' = Owed
          \/ again' = again /\ r' = r /\ Owed = 1 /\ Owed' = 0 /\ c
      <3>1. CASE Owed = 0 /\ tries' = tries /\ (ItemStep \/ SignalStep \/ FailStep)
        BY <2>2, <2>4, <3>1 DEF r
      <3>2. CASE /\ Tried /\ Top.attempt \in Nat \ {0}
                 /\ Owed = (IF Top.attempt > 1 THEN 1 ELSE 0)
                 /\ ItemStep \/ FailStep
        BY <2>2, <2>3, <3>2 DEF r
      <3>3. CASE /\ Tried /\ Top.attempt \in Nat \ {0}
                 /\ Owed = (IF Top.attempt > 1 THEN 1 ELSE 0)
                 /\ RetryStep /\ tally' = [tally EXCEPT !.retries = @ + 1]
        BY <2>2, <2>3, <3>3 DEF r
      <3>4. CASE Owed = 1 /\ tries' = tries /\ cancelled /\ FailStep
        BY <2>2, <2>4, <3>4 DEF r
      <3>5. CASE Owed = 1 /\ tries' = tries /\ RetryStep /\ tally' = tally
        BY <2>2, <2>4, <3>5 DEF r
      <3> QED
        BY <1>3, <2>5, <3>1, <3>2, <3>3, <3>4, <3>5, StageForms
    <2>10. r \in Nat
      BY <1>1 DEF r
    <2> QED
      BY <1>1, <2>6, <2>7, <2>8, <2>9, <2>10
  <1> QED
    BY <1>2, <1>3, NextIs

\* Without a new failure the letters stay what they are, and so does the blame.
LEMMA SameLetters ==
  ASSUME Lettered, Blamed, UNCHANGED <<failures, dlq>>, chain' = chain \/ phase = "built",
         phase' = "built" => phase = "built",
         tally'.errors = tally.errors, tally'.dead_lettered = tally.dead_lettered,
         first_error = NoLetter => first_error' = NoLetter,
         first_error' = first_error \/ first_error'.from # "stage"
  PROVE  Lettered' /\ Blamed'
  <1>1. CASE chain' = chain
    <2>1. \A k : DeadLetters(k)' = DeadLetters(k) /\ LetterOf(k)' = LetterOf(k)
      BY <1>1 DEF DeadLetters, LetterOf, Keeps
    <2>2. DeadLetters(Len(failures))' = DeadLetters(Len(failures))
      BY <1>1 DEF DeadLetters
    <2>3. Lettered'
      BY <2>1, <2>2 DEF Lettered, NoLetter, Error
    <2>4. Blamed'
      BY <1>1 DEF Blamed
    <2> QED
      BY <2>3, <2>4
  <1>2. CASE phase = "built"
    <2>1. failures = <<>> /\ Len(failures) = 0 /\ 1..Len(failures) = {}
      <3>1. failures = <<>>
        BY <1>2 DEF Lettered
      <3>2. Len(failures) = 0
        BY <3>1, EmptySeq
      <3> QED
        BY <3>1, <3>2
    <2>2. DeadLetters(Len(failures)) = {} /\ DeadLetters(Len(failures))' = {}
      BY <2>1 DEF DeadLetters
    <2>3. Lettered'
      BY <2>1, <2>2 DEF Lettered, NoLetter, Error
    <2>4. Blamed'
      BY <2>1 DEF Blamed
    <2> QED
      BY <2>3, <2>4
  <1> QED
    BY <1>1, <1>2

LEMMA LetteredStep ==
  ASSUME Typing, [Next]_vars, Lettered, Blamed
  PROVE  Lettered' /\ Blamed'
  <1>1. first_error = NoLetter => first_error' = NoLetter
    BY ErrorStays DEF Typing, NoLetter, NoFailure, Error, None
  <1>2. CASE Others
    BY <1>1, <1>2, OtherFrame, SameLetters
  <1>3. CASE Stages
    <2>1. agenda # <<>> /\ UNCHANGED Outside /\ chain' = chain
      BY <1>3, StageForms DEF Outside, builderVars
    <2>2. CASE FailStep
      <3>1. /\ first_error = NoFailure /\ FlowInv /\ phase \in {"pump", "flush"}
        BY <2>1, <2>2, AtItem DEF FailStep, Typing
      <3>2. PICK at \in 1..Len(chain), item \in Seq(Pulled), attempts \in Nat :
              Fails(at, item, attempts)
        BY <2>2 DEF FailStep
      <3>3. phase' # "built"
        BY <3>1, <3>2 DEF Fails, Route, Goes, Halt
      <3> QED
        BY <2>1, <3>1, <3>2, <3>3, FailsLettered
    <2>3. CASE ~FailStep
      <3>1. ItemStep \/ SignalStep \/ RetryStep
        BY <1>3, <2>3, StageForms
      <3>2. UNCHANGED <<failures, dlq, phase, first_error>>
        BY <3>1 DEF ItemStep, SignalStep, RetryStep, Goes
      <3>3. tally' = tally \/ tally' = [tally EXCEPT !.retries = @ + 1]
        BY <1>3, <2>3, StageForms DEF ItemStep, SignalStep
      <3>4. tally'.errors = tally.errors /\ tally'.dead_lettered = tally.dead_lettered
        BY <3>3 DEF Typing, FlowInv, Counted, Tally
      <3> QED
        BY <1>1, <2>1, <3>2, <3>4, SameLetters
    <2> QED
      BY <2>2, <2>3
  <1> QED
    BY <1>2, <1>3, NextIs

AccountInv == Typing /\ Retried /\ Taken /\ Lettered /\ Blamed

LEMMA AccountInit == Init => Retried /\ Taken /\ Lettered /\ Blamed
  <1> SUFFICES ASSUME Init
               PROVE  Retried /\ Taken /\ Lettered /\ Blamed
    OBVIOUS
  <1>1. failures = <<>> /\ dlq = <<>> /\ sinks = <<<<>>, <<>>>>
    BY DEF Init
  <1>2. /\ tally.items_out = 0 /\ tally.errors = 0 /\ tally.dead_lettered = 0 /\ tally.retries = 0
        /\ tries.calls = 0 /\ tries.items = 0 /\ written = 0 /\ agenda = <<>>
        /\ first_error = NoFailure
    BY DEF Init
  <1>3. Retried
    BY <1>2 DEF Retried, Owed
  <1>4. Taken
    <2>1. WritesAt(2) = {}
      BY <1>1 DEF WritesAt
    <2> QED
      BY <1>2, <2>1, FS_EmptySet DEF Taken
  <1>5. Lettered
    <2>1. Len(failures) = 0 /\ Len(dlq) = 0 /\ 1..0 = {}
      BY <1>1
    <2>2. DeadLetters(Len(failures)) = {}
      BY <2>1 DEF DeadLetters
    <2>3. failures \in Seq({}) /\ dlq \in Seq({})
      BY <1>1
    <2> QED
      BY <1>1, <1>2, <2>1, <2>2, <2>3, FS_EmptySet DEF Lettered
  <1>6. Blamed
    BY <1>2 DEF Blamed, NoFailure, Error, None
  <1> QED
    BY <1>3, <1>4, <1>5, <1>6

LEMMA AccountHolds == AccountInv => Accounted
  <1> SUFFICES ASSUME AccountInv
               PROVE  Accounted
    OBVIOUS
  <1>1. Typing /\ Retried /\ Taken /\ Lettered /\ Blamed
    BY DEF AccountInv
  <1>2. DOMAIN failures = 1..Len(failures)
    <2>1. PICK S : failures \in Seq(S)
      BY <1>1 DEF Lettered
    <2> QED
      BY <2>1, LenProperties
  <1>3. /\ tally.retries >= tries.calls - tries.items
        /\ phase = "ended" /\ ~cancelled => tally.retries = tries.calls - tries.items
    <2>1. /\ tries.calls \in Nat /\ tries.items \in Nat /\ Owed \in {0, 1}
          /\ tally.retries \in Nat /\ (phase = "ended" => agenda = <<>>)
      BY <1>1 DEF Typing, Typed, Flags, Owed, FlowInv, Counted, Tally, Halted
    <2>2. agenda = <<>> => Owed = 0
      BY DEF Owed
    <2> HIDE DEF Owed
    <2> QED
      BY <1>1, <2>1, <2>2 DEF Retried
  <1>4. /\ tally.items_out + written <= Cardinality(WritesAt(2))
        /\ first_error = NoFailure => tally.items_out + written = Cardinality(WritesAt(2))
    BY <1>1 DEF Taken
  <1>5. \A k \in 1..Len(failures) :
          k \in DeadLetters(k) /\ Cardinality(DeadLetters(k)) <= Len(dlq) =>
             dlq[Cardinality(DeadLetters(k))] =
               [stage |-> chain[failures[k].at].id,
                input |-> IF Keeps(failures[k].at) THEN failures[k].item ELSE <<>>,
                attempts |-> failures[k].attempts]
    BY <1>1 DEF Lettered, LetterOf
  <1>6. /\ tally.errors = Len(failures) /\ tally.dead_lettered = Len(dlq)
        /\ \/ Len(dlq) = Cardinality(DeadLetters(Len(failures)))
           \/ /\ first_error = Error("sink", "dead_letter")
              /\ Len(dlq) = Cardinality(DeadLetters(Len(failures))) - 1
    BY <1>1 DEF Lettered, NoLetter
  <1>7. first_error.from = "stage" =>
          /\ failures # <<>>
          /\ chain[Last(failures).at].policy = "FailFast"
          /\ chain[Last(failures).at].id = first_error.id
    BY <1>1 DEF Blamed
  <1> QED
    BY <1>2, <1>3, <1>4, <1>5, <1>6, <1>7 DEF Accounted

\* For every chain, retry policy and failure, however a run ends: the statistics
\* of runtime.rs count what happened - a retry before the wait for it, an item
\* when the call that wrote it returned, a dead letter once it was written -
\* and the dead letters are the failures of the stages under that policy, in
\* order, with the input only where the closure borrowed it.
THEOREM FlowAccounted == Spec => []Accounted
  <1>1. Init => AccountInv
    BY TypingInit, AccountInit DEF AccountInv
  <1>2. AccountInv /\ [Next]_vars => AccountInv'
    BY TypingStep, RetriedStep, TakenStep, LetteredStep DEF AccountInv
  <1> QED
    BY <1>1, <1>2, AccountHolds, PTL DEF Spec

-----------------------------------------------------------------------------
(* The builder.  What its fields say after some calls is read off the list   *)
(* of the calls.                                                             *)

\* A set of natural numbers has a least member, and one below a bound a greatest.
Below == {p \in Nat \X Nat : p[1] < p[2]}

LEMMA LeastIs ==
  ASSUME NEW S \in SUBSET Nat, S # {}
  PROVE  Least(S) \in S /\ \A j \in S : Least(S) <= j
  <1>1. IsWellFoundedOn(Below, Nat)
    BY NatLessThanWellFounded DEF OpToRel, Below
  <1>2. PICK k \in S : \A j \in S : ~(<<j, k>> \in Below)
    BY <1>1, WFMin
  <1>3. ASSUME NEW j \in S
        PROVE  k <= j
    <2>1. j \in Nat /\ k \in Nat /\ ~(<<j, k>> \in Below)
      BY <1>2
    <2>2. j < k => <<j, k>> \in Below
      BY <2>1 DEF Below
    <2> QED
      BY <2>1, <2>2
  <1> QED
    BY <1>3 DEF Least

LEMMA LatestIs ==
  ASSUME NEW n \in Nat, NEW S \in SUBSET (1..n)
  PROVE  /\ Latest(S) \in 0..n
         /\ S # {} => Latest(S) \in S
  <1>1. CASE S = {}
    BY <1>1 DEF Latest
  <1>2. CASE S # {}
    <2> DEFINE R == {n - j : j \in S}
    <2>1. R \in SUBSET Nat /\ R # {}
      <3>1. \A j \in S : j \in 1..n /\ n - j \in Nat
        OBVIOUS
      <3> QED
        BY <1>2, <3>1
    <2>2. Least(R) \in R /\ \A j \in R : Least(R) <= j
      BY <2>1, LeastIs
    <2>3. PICK k \in S : Least(R) = n - k
      BY <2>2
    <2>4. ASSUME NEW i \in S
          PROVE  i <= k
      <3>1. n - i \in R /\ i \in 1..n /\ k \in 1..n
        OBVIOUS
      <3>2. n - k <= n - i
        BY <2>2, <2>3, <3>1
      <3> QED
        BY <3>1, <3>2
    <2>5. Latest(S) \in S
      BY <1>2, <2>4 DEF Latest
    <2>6. Latest(S) \in 1..n
      BY <2>5
    <2> QED
      BY <2>5, <2>6
  <1> QED
    BY <1>1, <1>2

LEMMA LatestAdded ==
  ASSUME NEW n \in Nat, NEW S \in SUBSET (1..n)
  PROVE  Latest(S \cup {n + 1}) = n + 1
  <1> DEFINE T == S \cup {n + 1}
  <1>1. n + 1 \in T /\ \A i \in T : i <= n + 1
    OBVIOUS
  <1>2. T \in SUBSET (1..(n + 1)) /\ T # {}
    OBVIOUS
  <1>3. \E j \in T : \A i \in T : i <= j
    BY <1>1
  <1>4. Latest(T) = CHOOSE j \in T : \A i \in T : i <= j
    BY <1>2 DEF Latest
  <1>5. Latest(T) \in T /\ \A i \in T : i <= Latest(T)
    BY <1>3, <1>4
  <1>6. Latest(T) \in 1..(n + 1) /\ n + 1 <= Latest(T)
    BY <1>1, <1>2, <1>5
  <1> HIDE DEF T
  <1>7. Latest(T) = n + 1
    BY <1>6
  <1> QED
    BY <1>7 DEF T

\* The least of some calls stays the least when a later one joins them.
LEMMA LeastAdded ==
  ASSUME NEW n \in Nat, NEW S \in SUBSET (1..n)
  PROVE  Least(S \cup {n + 1}) = IF S = {} THEN n + 1 ELSE Least(S)
  <1> DEFINE T == S \cup {n + 1}
  <1>1. T \in SUBSET Nat /\ T # {} /\ S \in SUBSET Nat
    OBVIOUS
  <1>2. Least(T) \in T /\ \A j \in T : Least(T) <= j
    BY <1>1, LeastIs
  <1>3. CASE S = {}
    BY <1>2, <1>3
  <1>4. CASE S # {}
    <2>1. Least(S) \in S /\ \A j \in S : Least(S) <= j
      BY <1>1, <1>4, LeastIs
    <2>2. Least(S) \in 1..n /\ Least(S) \in T
      BY <2>1
    <2>3. Least(T) <= Least(S)
      BY <1>2, <2>2
    <2>4. Least(T) \in S
      BY <1>2, <2>2, <2>3
    <2>5. Least(S) <= Least(T)
      BY <2>1, <2>4
    <2>6. Least(S) \in Nat /\ Least(T) \in Nat
      BY <1>1, <1>2, <2>1
    <2> QED
      <3> HIDE DEF T
      <3>1. Least(T) = Least(S)
        BY <2>3, <2>5, <2>6
      <3> QED
        BY <1>4, <3>1 DEF T
  <1> QED
    BY <1>3, <1>4

\* The name that a call finds waiting, and the error it records.
Given(k) ==
    LET j == Latest({i \in 1..(k - 1) : methods[i].name = "stage_id"})
        taken == Latest({i \in 1..(k - 1) : TakesName(i)})
    IN  IF j > taken THEN methods[j].arg ELSE None

Wrong(name, arg, id) ==
    CASE name = "idle_tick" /\ arg = "zero" -> ConfigError("idle_tick", "ZeroDuration")
      [] name = "try_map_retry" /\ RetryPolicy[arg].max_attempts = 0 -> ConfigError(id, "ZeroLimit")
      [] name = "group" /\ arg = "bad" -> ConfigError(id, "BadPolicy")
      [] name = "buffer" /\ arg = "large" -> ConfigError(id, "LimitTooLarge")
      [] OTHER -> NoError

Needy(n) == {k \in 1..n : methods[k].name \in Fallible /\ PolicyAt(k) = "DeadLetter"}
Bad(n) == {k \in 1..n : ErrorAt(k) # NoError}

\* The calls so far, and what the builder has made of them.
Heard ==
    /\ \E S : methods \in Seq(S) /\ chain \in Seq(S)
    /\ \A k \in 1..Len(methods) :
          /\ methods[k].name # None
          /\ methods[k].name = "stage_id" => methods[k].arg # None

Kept(n) ==
    /\ Len(chain) = Place(n)
    /\ \A k \in 1..n : AddsStage(k) => chain[Place(k)] = StageAt(k)
    /\ error_policy = PolicyAt(n + 1)
    /\ pending_stage_id = Given(n + 1)
    /\ dead_letter \in BOOLEAN
    /\ dead_letter <=> \E k \in 1..n : methods[k].name = "dead_letter"
    /\ \/ Needy(n) = {} /\ dead_letter_user = None
       \/ \E k \in Needy(n) : k = Least(Needy(n)) /\ dead_letter_user = NameAt(k)
    /\ \/ Bad(n) = {} /\ config_error = NoError
       \/ \E k \in Bad(n) : k = Least(Bad(n)) /\ config_error = ErrorAt(k)

LEMMA GivenName ==
  ASSUME Heard, NEW k \in 1..(Len(methods) + 1)
  PROVE  /\ NameAt(k) = IF Given(k) = None THEN methods[k].name ELSE Given(k)
         /\ LET j == Latest({i \in 1..(k - 1) : methods[i].name = "stage_id"})
                taken == Latest({i \in 1..(k - 1) : TakesName(i)})
            IN  j > taken => j \in 1..(k - 1) /\ methods[j].arg # None
  <1> DEFINE S == {i \in 1..(k - 1) : methods[i].name = "stage_id"}
             T == {i \in 1..(k - 1) : TakesName(i)}
  <1>1. Len(methods) \in Nat
    BY LenProperties DEF Heard
  <1>2. k - 1 \in Nat /\ S \in SUBSET (1..(k - 1)) /\ T \in SUBSET (1..(k - 1))
    BY <1>1
  <1>3. /\ Latest(S) \in 0..(k - 1) /\ (S # {} => Latest(S) \in S)
        /\ Latest(T) \in 0..(k - 1)
    BY <1>2, LatestIs
  <1>4. S = {} => Latest(S) = 0
    BY DEF Latest
  <1>5. Latest(S) > Latest(T) => /\ Latest(S) \in 1..(k - 1)
                                 /\ methods[Latest(S)].arg # None
    <2> SUFFICES ASSUME Latest(S) > Latest(T)
                 PROVE  Latest(S) \in 1..(k - 1) /\ methods[Latest(S)].arg # None
      OBVIOUS
    <2>1. S # {} /\ Latest(S) \in 1..(k - 1)
      BY <1>3, <1>4
    <2>2. methods[Latest(S)].name = "stage_id"
      BY <1>3, <2>1
    <2>3. Latest(S) \in 1..Len(methods)
      BY <1>1, <2>1
    <2> QED
      BY <2>1, <2>2, <2>3 DEF Heard
  <1> QED
    BY <1>5 DEF NameAt, Given

\* One more call.
LEMMA CallAdded ==
  ASSUME Heard, NEW n, n = Len(methods), NEW name, NEW arg,
         methods' = Append(methods, [name |-> name, arg |-> arg])
  PROVE  /\ n \in Nat /\ Len(methods') = n + 1
         /\ \A k \in 1..n : methods'[k] = methods[k]
         /\ methods'[n + 1].name = name /\ methods'[n + 1].arg = arg
         /\ \E S : methods' \in Seq(S) /\ chain \in Seq(S)
  <1> DEFINE m == [name |-> name, arg |-> arg]
  <1>1. PICK S : methods \in Seq(S) /\ chain \in Seq(S)
    BY DEF Heard
  <1> DEFINE R == S \cup {m}
  <1>2. methods \in Seq(R) /\ chain \in Seq(R) /\ m \in R
    BY <1>1, SeqMonotonic
  <1>3. m.name = name /\ m.arg = arg
    OBVIOUS
  <1> HIDE DEF R, m
  <1>4. /\ n \in Nat /\ Len(methods') = n + 1 /\ methods'[n + 1] = m
        /\ \A k \in 1..n : methods'[k] = methods[k]
        /\ methods' \in Seq(R)
    BY <1>2, AppendProperties, LenProperties DEF m
  <1> QED
    BY <1>2, <1>3, <1>4

\* What was read off the earlier calls still reads the same.
LEMMA ReadsTheSame ==
  ASSUME NEW n \in Nat, \A i \in 1..n : methods'[i] = methods[i]
  PROVE  /\ \A k \in 1..(n + 1) : PolicyAt(k)' = PolicyAt(k) /\ Given(k)' = Given(k)
         /\ \A k \in 1..n : /\ AddsStage(k)' = AddsStage(k) /\ TakesName(k)' = TakesName(k)
                            /\ NameAt(k)' = NameAt(k) /\ StageAt(k)' = StageAt(k)
                            /\ ErrorAt(k)' = ErrorAt(k) /\ Place(k)' = Place(k)
         /\ Needy(n)' = Needy(n) /\ Bad(n)' = Bad(n) /\ Place(n)' = Place(n)
  <1>1. \A k \in 1..n : AddsStage(k)' = AddsStage(k) /\ TakesName(k)' = TakesName(k)
    BY DEF AddsStage, TakesName
  <1>2. ASSUME NEW k \in 1..(n + 1)
        PROVE  PolicyAt(k)' = PolicyAt(k) /\ Given(k)' = Given(k)
    <2> DEFINE P == {i \in 1..(k - 1) : methods[i].name = "on_error"}
               S == {i \in 1..(k - 1) : methods[i].name = "stage_id"}
               T == {i \in 1..(k - 1) : TakesName(i)}
    <2>1. 1..(k - 1) \subseteq 1..n /\ k - 1 \in Nat
      OBVIOUS
    <2>2. P' = P /\ S' = S /\ T' = T
      BY <1>1, <2>1
    <2>3. /\ Latest(P) \in 0..(k - 1) /\ Latest(S) \in 0..(k - 1) /\ Latest(T) \in 0..(k - 1)
      BY <2>1, LatestIs
    <2>4. /\ Latest(P) # 0 => methods'[Latest(P)] = methods[Latest(P)]
          /\ Latest(S) > Latest(T) => methods'[Latest(S)] = methods[Latest(S)]
      <3> HIDE DEF P, S, T
      <3> QED
        BY <2>1, <2>3
    <2>5. PolicyAt(k)' = PolicyAt(k)
      BY <2>2, <2>4 DEF PolicyAt
    <2>6. Given(k)' = Given(k)
      BY <2>2, <2>4 DEF Given
    <2> QED
      BY <2>5, <2>6
  <1>3. ASSUME NEW k \in 1..n
        PROVE  NameAt(k)' = NameAt(k)
    <2> DEFINE S == {i \in 1..(k - 1) : methods[i].name = "stage_id"}
               T == {i \in 1..(k - 1) : TakesName(i)}
    <2>1. 1..(k - 1) \subseteq 1..n /\ k - 1 \in Nat
      OBVIOUS
    <2>2. S' = S /\ T' = T /\ methods'[k] = methods[k]
      BY <1>1, <2>1
    <2>3. Latest(S) \in 0..(k - 1) /\ Latest(T) \in 0..(k - 1)
      BY <2>1, LatestIs
    <2>4. Latest(S) > Latest(T) => methods'[Latest(S)] = methods[Latest(S)]
      <3> HIDE DEF S, T
      <3> QED
        BY <2>1, <2>3
    <2> QED
      BY <2>2, <2>4 DEF NameAt
  <1>4. \A k \in 1..n : StageAt(k)' = StageAt(k) /\ ErrorAt(k)' = ErrorAt(k)
    <2> TAKE k \in 1..n
    <2>1. methods'[k] = methods[k] /\ NameAt(k)' = NameAt(k) /\ PolicyAt(k)' = PolicyAt(k)
      BY <1>2, <1>3
    <2> QED
      BY <2>1 DEF StageAt, ErrorAt
  <1>5. \A k \in 0..n : Place(k)' = Place(k)
    <2> TAKE k \in 0..n
    <2>1. {j \in 1..k : AddsStage(j)}' = {j \in 1..k : AddsStage(j)}
      BY <1>1
    <2> QED
      BY <2>1 DEF Place
  <1>6. Needy(n)' = Needy(n) /\ Bad(n)' = Bad(n)
    BY <1>2, <1>4 DEF Needy, Bad
  <1> QED
    BY <1>1, <1>2, <1>3, <1>4, <1>5, <1>6

LEMMA PlaceIs ==
  ASSUME NEW n \in Nat
  PROVE  /\ Place(n) \in Nat /\ IsFiniteSet({j \in 1..n : AddsStage(j)})
         /\ \A k \in 1..n : AddsStage(k) => Place(k) \in 1..Place(n)
  <1> DEFINE S(k) == {j \in 1..k : AddsStage(j)}
  <1>1. \A k \in 0..n : IsFiniteSet(S(k)) /\ Cardinality(S(k)) \in Nat
    <2> TAKE k \in 0..n
    <2>1. IsFiniteSet(1..k) /\ S(k) \in SUBSET (1..k)
      BY FS_Interval
    <2> QED
      BY <2>1, FS_Subset, FS_CardinalityType
  <1>2. ASSUME NEW k \in 1..n, AddsStage(k)
        PROVE  Place(k) \in 1..Place(n)
    <2>1. S(k) \in SUBSET S(n) /\ S(k) # {}
      BY <1>2
    <2>2. IsFiniteSet(S(k)) /\ IsFiniteSet(S(n))
      BY <1>1
    <2>3. Cardinality(S(k)) <= Cardinality(S(n)) /\ Cardinality(S(k)) # 0
      BY <2>1, <2>2, FS_Subset, FS_EmptySet
    <2>4. Cardinality(S(k)) \in Nat /\ Cardinality(S(n)) \in Nat
      BY <1>1
    <2> QED
      BY <2>3, <2>4 DEF Place
  <1> QED
    BY <1>1, <1>2 DEF Place

\* How the descriptions read after one more call.
LEMMA ReadsOn ==
  ASSUME Heard, NEW n, n = Len(methods), NEW name, NEW arg, name # None,
         name = "stage_id" => arg # None,
         methods' = Append(methods, [name |-> name, arg |-> arg])
  PROVE  /\ NameAt(n + 1)' = IF Given(n + 1) = None THEN name ELSE Given(n + 1)
         /\ PolicyAt(n + 1)' = PolicyAt(n + 1)
         /\ PolicyAt(n + 2)' = IF name = "on_error" THEN arg ELSE PolicyAt(n + 1)
         /\ Given(n + 2)' = IF name = "stage_id" THEN arg
                            ELSE IF name \in Transforms \cup {"buffer"} THEN None
                            ELSE Given(n + 1)
         /\ AddsStage(n + 1)' <=> name \in Transforms
         /\ Place(n + 1)' = Place(n) + (IF name \in Transforms THEN 1 ELSE 0)
         /\ ErrorAt(n + 1)' = Wrong(name, arg, NameAt(n + 1)')
         /\ Needy(n + 1)' = Needy(n) \cup
                (IF name \in Fallible /\ PolicyAt(n + 1) = "DeadLetter" THEN {n + 1} ELSE {})
         /\ Bad(n + 1)' = Bad(n) \cup (IF ErrorAt(n + 1)' # NoError THEN {n + 1} ELSE {})
  <1>1. /\ n \in Nat /\ Len(methods') = n + 1
        /\ \A k \in 1..n : methods'[k] = methods[k]
        /\ methods'[n + 1].name = name /\ methods'[n + 1].arg = arg
        /\ \E S : methods' \in Seq(S) /\ chain \in Seq(S)
    BY CallAdded
  <1>2. /\ PolicyAt(n + 1)' = PolicyAt(n + 1) /\ Given(n + 1)' = Given(n + 1)
        /\ \A k \in 1..n : /\ AddsStage(k)' = AddsStage(k) /\ TakesName(k)' = TakesName(k)
                           /\ PolicyAt(k)' = PolicyAt(k) /\ ErrorAt(k)' = ErrorAt(k)
    BY <1>1, ReadsTheSame
  <1>3. /\ AddsStage(n + 1)' <=> name \in Transforms
        /\ TakesName(n + 1)' <=> name \in Transforms \cup {"buffer"}
    BY <1>1 DEF AddsStage, TakesName
  <1>4. \A k \in 1..(n + 1) : k \in 1..n \/ k = n + 1
    BY <1>1
  <1>5. \A k \in 1..n : k \in 1..(n + 1)
    BY <1>1
  <1>6. n + 1 \in 1..(n + 1) /\ (n + 1) - 1 = n /\ (n + 2) - 1 = n + 1 /\ n + 1 \notin 1..n
    BY <1>1
  <1>7. Needy(n + 1)' = Needy(n) \cup
                (IF name \in Fallible /\ PolicyAt(n + 1) = "DeadLetter" THEN {n + 1} ELSE {})
    BY <1>1, <1>2, <1>4, <1>5, <1>6 DEF Needy
  <1>8. Bad(n + 1)' = Bad(n) \cup (IF ErrorAt(n + 1)' # NoError THEN {n + 1} ELSE {})
    BY <1>2, <1>4, <1>5, <1>6 DEF Bad
  <1>9. ErrorAt(n + 1)' = Wrong(name, arg, NameAt(n + 1)')
    BY <1>1 DEF ErrorAt, Wrong
  <1>10. Place(n + 1)' = Place(n) + (IF name \in Transforms THEN 1 ELSE 0)
    <2> DEFINE S == {j \in 1..n : AddsStage(j)}
    <2>1. {j \in 1..(n + 1) : AddsStage(j)}' = S \cup (IF name \in Transforms THEN {n + 1} ELSE {})
      BY <1>2, <1>3, <1>4, <1>5, <1>6
    <2>2. IsFiniteSet(S) /\ n + 1 \notin S /\ Cardinality(S) \in Nat
      BY <1>1, <1>6, PlaceIs DEF Place
    <2>3. CASE name \in Transforms
      <3>1. {j \in 1..(n + 1) : AddsStage(j)}' = S \cup {n + 1}
        BY <2>1, <2>3
      <3>2. Cardinality(S \cup {n + 1}) = Cardinality(S) + 1
        BY <2>2, FS_AddElement
      <3> QED
        BY <2>3, <3>1, <3>2 DEF Place
    <2>4. CASE name \notin Transforms
      <3>1. {j \in 1..(n + 1) : AddsStage(j)}' = S
        BY <2>1, <2>4
      <3> QED
        <4>1. Place(n + 1)' = Cardinality(S) /\ Place(n) = Cardinality(S)
          BY <3>1 DEF Place
        <4> HIDE DEF S
        <4> QED
          BY <2>2, <2>4, <4>1
    <2> QED
      BY <2>3, <2>4
  <1> DEFINE P == {i \in 1..n : methods[i].name = "on_error"}
             G == {i \in 1..n : methods[i].name = "stage_id"}
             T == {i \in 1..n : TakesName(i)}
  <1>11. /\ {i \in 1..(n + 1) : methods[i].name = "on_error"}'
                = P \cup (IF name = "on_error" THEN {n + 1} ELSE {})
         /\ {i \in 1..(n + 1) : methods[i].name = "stage_id"}'
                = G \cup (IF name = "stage_id" THEN {n + 1} ELSE {})
         /\ {i \in 1..(n + 1) : TakesName(i)}'
                = T \cup (IF name \in Transforms \cup {"buffer"} THEN {n + 1} ELSE {})
    BY <1>1, <1>2, <1>3, <1>4, <1>5, <1>6
  <1>12. /\ Latest(P) \in 0..n /\ Latest(G) \in 0..n /\ Latest(T) \in 0..n
         /\ Latest(P \cup {n + 1}) = n + 1 /\ Latest(G \cup {n + 1}) = n + 1
         /\ Latest(T \cup {n + 1}) = n + 1
    <2>1. P \in SUBSET (1..n) /\ G \in SUBSET (1..n) /\ T \in SUBSET (1..n)
      OBVIOUS
    <2> HIDE DEF P, G, T
    <2> QED
      BY <1>1, <2>1, LatestIs, LatestAdded
  <1>13. /\ P \cup {} = P /\ G \cup {} = G /\ T \cup {} = T
    OBVIOUS
  <1>14. PolicyAt(n + 2)' = IF name = "on_error" THEN arg ELSE PolicyAt(n + 1)
    <2>1. PolicyAt(n + 1) = IF Latest(P) = 0 THEN "FailFast" ELSE methods[Latest(P)].arg
      BY <1>6 DEF PolicyAt
    <2>2. PolicyAt(n + 2)' =
            LET j == Latest(P \cup (IF name = "on_error" THEN {n + 1} ELSE {}))
            IN  IF j = 0 THEN "FailFast" ELSE methods'[j].arg
      BY <1>6, <1>11 DEF PolicyAt
    <2>3. Latest(P) # 0 => methods'[Latest(P)] = methods[Latest(P)]
      <3> HIDE DEF P
      <3> QED
        BY <1>1, <1>12
    <2> HIDE DEF P
    <2>4. n + 1 # 0
      BY <1>1
    <2>5. CASE name = "on_error"
      BY <1>1, <1>12, <2>2, <2>4, <2>5
    <2>6. CASE name # "on_error"
      BY <1>13, <2>1, <2>2, <2>3, <2>6
    <2> QED
      BY <2>5, <2>6
  <1>15. Given(n + 2)' = IF name = "stage_id" THEN arg
                         ELSE IF name \in Transforms \cup {"buffer"} THEN None
                         ELSE Given(n + 1)
    <2>1. Given(n + 1) = IF Latest(G) > Latest(T) THEN methods[Latest(G)].arg ELSE None
      BY <1>6 DEF Given
    <2>2. Given(n + 2)' =
            LET j == Latest(G \cup (IF name = "stage_id" THEN {n + 1} ELSE {}))
                taken == Latest(T \cup (IF name \in Transforms \cup {"buffer"} THEN {n + 1} ELSE {}))
            IN  IF j > taken THEN methods'[j].arg ELSE None
      BY <1>6, <1>11 DEF Given
    <2>3. Latest(G) > Latest(T) => methods'[Latest(G)] = methods[Latest(G)]
      <3> HIDE DEF G, T
      <3> QED
        BY <1>1, <1>12
    <2> HIDE DEF G, T
    <2>4. n + 1 > Latest(T) /\ ~(Latest(G) > n + 1)
      BY <1>1, <1>12
    <2>5. CASE name = "stage_id"
      <3>1. name \notin Transforms \cup {"buffer"}
        BY <2>5 DEF Transforms
      <3> QED
        BY <1>1, <1>12, <1>13, <2>2, <2>4, <2>5, <3>1
    <2>6. CASE name \in Transforms \cup {"buffer"} /\ name # "stage_id"
      BY <1>12, <1>13, <2>2, <2>4, <2>6
    <2>7. CASE name \notin Transforms \cup {"buffer"} /\ name # "stage_id"
      BY <1>13, <2>1, <2>2, <2>3, <2>7
    <2> QED
      BY <2>5, <2>6, <2>7
  <1>16. NameAt(n + 1)' = IF Given(n + 1) = None THEN name ELSE Given(n + 1)
    <2>1. /\ Given(n + 1) = IF Latest(G) > Latest(T) THEN methods[Latest(G)].arg ELSE None
      BY <1>6 DEF Given
    <2>2. G' = G /\ T' = T
      BY <1>1, <1>2
    <2>3. NameAt(n + 1)' = IF Latest(G) > Latest(T) THEN methods'[Latest(G)].arg ELSE name
      BY <1>1, <1>6, <2>2 DEF NameAt
    <2>4. Latest(G) > Latest(T) =>
            methods'[Latest(G)] = methods[Latest(G)] /\ methods[Latest(G)].arg # None
      <3>1. n + 1 \in 1..(Len(methods) + 1)
        BY <1>1
      <3>2. Latest(G) > Latest(T) => Latest(G) \in 1..n /\ methods[Latest(G)].arg # None
        BY <1>6, <3>1, GivenName
      <3> HIDE DEF G, T
      <3> QED
        BY <1>1, <3>2
    <2> HIDE DEF G, T
    <2> QED
      BY <2>1, <2>3, <2>4
  <1> QED
    BY <1>2, <1>3, <1>7, <1>8, <1>9, <1>10, <1>14, <1>15, <1>16

\* What every method before the sink does.
Called(name, arg) ==
    LET id == TakeStageId(name)
        error == Wrong(name, arg, id)
    IN  /\ name # None /\ (name = "stage_id" => arg # None)
        /\ methods' = Append(methods, [name |-> name, arg |-> arg])
        /\ error_policy' = IF name = "on_error" THEN arg ELSE error_policy
        /\ pending_stage_id' = IF name = "stage_id" THEN arg
                               ELSE IF name \in Transforms \cup {"buffer"} THEN None
                               ELSE pending_stage_id
        /\ chain' = IF name \in Transforms
                    THEN Append(chain, [kind |-> name,
                                        id |-> IF name = "map" THEN None ELSE id,
                                        policy |-> error_policy,
                                        retry |-> IF name = "try_map_retry" THEN arg ELSE None])
                    ELSE chain
        /\ dead_letter' \in BOOLEAN
        /\ dead_letter' <=> dead_letter \/ name = "dead_letter"
        /\ dead_letter_user' = IF name \in Fallible THEN NoteFallible(id) ELSE dead_letter_user
        /\ config_error' = Record(error # NoError, error)

LEMMA KeptStep ==
  ASSUME Heard, NEW n, n = Len(methods), Kept(n), NEW name, NEW arg, Called(name, arg)
  PROVE  Heard' /\ Kept(n + 1)'
  <1> DEFINE id == TakeStageId(name)
             link == [kind |-> name, id |-> IF name = "map" THEN None ELSE id,
                      policy |-> error_policy,
                      retry |-> IF name = "try_map_retry" THEN arg ELSE None]
  <1>1. /\ name # None /\ (name = "stage_id" => arg # None)
        /\ methods' = Append(methods, [name |-> name, arg |-> arg])
    BY DEF Called
  <1>2. /\ n \in Nat /\ Len(methods') = n + 1
        /\ \A k \in 1..n : methods'[k] = methods[k]
        /\ methods'[n + 1].name = name /\ methods'[n + 1].arg = arg
    BY <1>1, CallAdded
  <1>3. /\ \A k \in 1..n : /\ AddsStage(k)' = AddsStage(k) /\ NameAt(k)' = NameAt(k)
                           /\ StageAt(k)' = StageAt(k) /\ ErrorAt(k)' = ErrorAt(k)
                           /\ Place(k)' = Place(k)
    BY <1>2, ReadsTheSame
  <1>4. /\ NameAt(n + 1)' = id /\ PolicyAt(n + 1)' = error_policy
        /\ PolicyAt(n + 2)' = error_policy'
        /\ Given(n + 2)' = pending_stage_id'
        /\ AddsStage(n + 1)' <=> name \in Transforms
        /\ Place(n + 1)' = Place(n) + (IF name \in Transforms THEN 1 ELSE 0)
        /\ ErrorAt(n + 1)' = Wrong(name, arg, id)
    <2>1. error_policy = PolicyAt(n + 1) /\ pending_stage_id = Given(n + 1)
      BY DEF Kept
    <2>2. NameAt(n + 1)' = id /\ ErrorAt(n + 1)' = Wrong(name, arg, id)
      BY <1>1, <2>1, ReadsOn DEF TakeStageId
    <2>3. PolicyAt(n + 1)' = error_policy /\ PolicyAt(n + 2)' = error_policy'
      <3>1. error_policy' = IF name = "on_error" THEN arg ELSE error_policy
        BY DEF Called
      <3> QED
        BY <1>1, <2>1, <3>1, ReadsOn
    <2>4. Given(n + 2)' = pending_stage_id'
      <3>1. pending_stage_id' = IF name = "stage_id" THEN arg
                                ELSE IF name \in Transforms \cup {"buffer"} THEN None
                                ELSE pending_stage_id
        BY DEF Called
      <3> QED
        BY <1>1, <2>1, <3>1, ReadsOn
    <2> QED
      BY <1>1, <2>2, <2>3, <2>4, ReadsOn
  <1>5. /\ Needy(n + 1)' = Needy(n) \cup
                (IF name \in Fallible /\ error_policy = "DeadLetter" THEN {n + 1} ELSE {})
        /\ Bad(n + 1)' = Bad(n) \cup (IF Wrong(name, arg, id) # NoError THEN {n + 1} ELSE {})
    BY <1>1, <1>4, ReadsOn DEF Kept
  <1>6. Place(n) \in Nat /\ \A k \in 1..n : AddsStage(k) => Place(k) \in 1..Place(n)
    BY <1>2, PlaceIs
  <1>7. \A k \in 1..(n + 1) : k \in 1..n \/ k = n + 1
    BY <1>2
  <1>8. Heard'
    <2>1. (\E S : methods \in Seq(S) /\ chain \in Seq(S))'
      <3>1. PICK S : methods \in Seq(S) /\ chain \in Seq(S)
        BY DEF Heard
      <3> DEFINE m == [name |-> name, arg |-> arg]
                 R == S \cup {m, link}
      <3>2. methods \in Seq(R) /\ chain \in Seq(R) /\ m \in R /\ link \in R
        BY <3>1, SeqMonotonic
      <3>3. methods' = Append(methods, m) /\ (chain' = chain \/ chain' = Append(chain, link))
        BY <1>1 DEF Called
      <3> HIDE DEF R, m, link
      <3>4. methods' \in Seq(R) /\ chain' \in Seq(R)
        <4>1. Append(methods, m) \in Seq(R) /\ Append(chain, link) \in Seq(R)
          BY <3>2, AppendProperties
        <4> QED
          BY <3>2, <3>3, <4>1
      <3> QED
        BY <3>4
    <2>2. (\A k \in 1..Len(methods) :
            /\ methods[k].name # None
            /\ methods[k].name = "stage_id" => methods[k].arg # None)'
      BY <1>1, <1>2, <1>7 DEF Heard
    <2> QED
      BY <2>1, <2>2 DEF Heard
  <1>9. Len(chain') = Place(n + 1)'
          /\ \A k \in 1..(n + 1) : AddsStage(k)' => chain'[Place(k)'] = StageAt(k)'
    <2>1. Len(chain) = Place(n) /\ \A k \in 1..n : AddsStage(k) => chain[Place(k)] = StageAt(k)
      BY DEF Kept
    <2>2. CASE name \in Transforms
      <3>1. chain' = Append(chain, link)
        BY <2>2 DEF Called
      <3>2. StageAt(n + 1)' = link
        <4>1. methods'[n + 1].name = name /\ methods'[n + 1].arg = arg
          BY <1>2
        <4> QED
          BY <1>4, <4>1 DEF StageAt
      <3>3. PICK S : chain \in Seq(S)
        BY DEF Heard
      <3>4. chain \in Seq(S \cup {link}) /\ link \in S \cup {link}
        BY <3>3, SeqMonotonic
      <3> HIDE DEF link
      <3>5. /\ Len(chain') = Place(n) + 1 /\ chain'[Place(n) + 1] = link
            /\ \A j \in 1..Place(n) : chain'[j] = chain[j]
        BY <2>1, <3>1, <3>4, AppendProperties
      <3>6. Place(n + 1)' = Place(n) + 1
        BY <1>4, <2>2
      <3>7. ASSUME NEW k \in 1..n, AddsStage(k)'
            PROVE  chain'[Place(k)'] = StageAt(k)'
        <4>1. AddsStage(k) /\ Place(k) \in 1..Place(n)
          BY <1>3, <1>6, <3>7
        <4> QED
          BY <1>3, <2>1, <3>5, <4>1
      <3> QED
        BY <1>7, <3>2, <3>5, <3>6, <3>7
    <2>3. CASE name \notin Transforms
      <3>1. chain' = chain
        BY <2>3 DEF Called
      <3>2. Place(n + 1)' = Place(n) /\ ~AddsStage(n + 1)'
        BY <1>4, <1>6, <2>3
      <3> QED
        BY <1>3, <1>7, <2>1, <3>1, <3>2
    <2> QED
      BY <2>2, <2>3
  <1>10. /\ dead_letter' \in BOOLEAN
         /\ dead_letter' <=> (\E k \in 1..(n + 1) : methods[k].name = "dead_letter")'
    <2>1. dead_letter' \in BOOLEAN /\ (dead_letter' <=> dead_letter \/ name = "dead_letter")
      BY Zenon DEF Called
    <2>2. dead_letter <=> \E k \in 1..n : methods[k].name = "dead_letter"
      BY Zenon DEF Kept
    <2>3. (\E k \in 1..(n + 1) : methods'[k].name = "dead_letter")
             <=> (\E k \in 1..n : methods[k].name = "dead_letter") \/ name = "dead_letter"
      BY <1>2, <1>7
    <2> QED
      BY <2>1, <2>2, <2>3, Zenon
  <1>11. (\/ Needy(n + 1) = {} /\ dead_letter_user = None
          \/ \E k \in Needy(n + 1) : k = Least(Needy(n + 1)) /\ dead_letter_user = NameAt(k))'
    <2>1. Needy(n) \in SUBSET (1..n)
      BY DEF Needy
    <2>2. CASE name \in Fallible /\ error_policy = "DeadLetter"
      <3>1. /\ Needy(n + 1)' = Needy(n) \cup {n + 1}
            /\ dead_letter_user' = IF dead_letter_user = None THEN id ELSE dead_letter_user
        BY <1>5, <2>2 DEF Called, NoteFallible
      <3>2. Least(Needy(n + 1)') = IF Needy(n) = {} THEN n + 1 ELSE Least(Needy(n))
        BY <1>2, <2>1, <3>1, LeastAdded
      <3>3. CASE Needy(n) = {} /\ dead_letter_user = None
        BY <1>4, <3>1, <3>2, <3>3
      <3>4. ASSUME NEW k \in Needy(n), k = Least(Needy(n)), dead_letter_user = NameAt(k)
            PROVE  \E j \in Needy(n + 1)' : j = Least(Needy(n + 1)') /\ dead_letter_user' = NameAt(j)'
        <4>1. k \in 1..n /\ NameAt(k)' = NameAt(k)
          BY <1>3, <2>1
        <4>2. NameAt(k) # None
          <5>1. k \in 1..(Len(methods) + 1) /\ k \in 1..Len(methods)
            BY <1>2, <4>1
          <5> QED
            BY <5>1, GivenName DEF Heard
        <4> QED
          BY <3>1, <3>2, <3>4, <4>1, <4>2
      <3> QED
        BY <3>3, <3>4 DEF Kept
    <2>3. CASE ~(name \in Fallible /\ error_policy = "DeadLetter")
      <3>1. Needy(n + 1)' = Needy(n) /\ dead_letter_user' = dead_letter_user
        BY <1>5, <2>3 DEF Called, NoteFallible
      <3>2. \A k \in Needy(n) : NameAt(k)' = NameAt(k)
        BY <1>3, <2>1
      <3> QED
        BY <3>1, <3>2 DEF Kept
    <2> QED
      BY <2>2, <2>3
  <1>12. (\/ Bad(n + 1) = {} /\ config_error = NoError
          \/ \E k \in Bad(n + 1) : k = Least(Bad(n + 1)) /\ config_error = ErrorAt(k))'
    <2> DEFINE error == Wrong(name, arg, id)
    <2>1. Bad(n) \in SUBSET (1..n)
      BY DEF Bad
    <2>2. config_error' = IF error # NoError /\ config_error = NoError THEN error ELSE config_error
      BY DEF Called, Record
    <2>3. \A k \in Bad(n) : ErrorAt(k)' = ErrorAt(k) /\ ErrorAt(k) # NoError
      BY <1>3, <2>1 DEF Bad
    <2> HIDE DEF error
    <2>4. CASE error # NoError
      <3>1. Bad(n + 1)' = Bad(n) \cup {n + 1}
        BY <1>5, <2>4 DEF error
      <3>2. Least(Bad(n + 1)') = IF Bad(n) = {} THEN n + 1 ELSE Least(Bad(n))
        BY <1>2, <2>1, <3>1, LeastAdded
      <3>3. CASE Bad(n) = {} /\ config_error = NoError
        <4>1. n + 1 \in Bad(n + 1)' /\ n + 1 = Least(Bad(n + 1)')
          BY <3>1, <3>2, <3>3
        <4>2. config_error' = ErrorAt(n + 1)'
          BY <1>4, <2>2, <2>4, <3>3 DEF error
        <4> QED
          BY <4>1, <4>2
      <3>4. ASSUME NEW k \in Bad(n), k = Least(Bad(n)), config_error = ErrorAt(k)
            PROVE  \E j \in Bad(n + 1)' : j = Least(Bad(n + 1)') /\ config_error' = ErrorAt(j)'
        BY <2>2, <2>3, <3>1, <3>2, <3>4
      <3> QED
        BY <3>3, <3>4 DEF Kept
    <2>5. CASE error = NoError
      <3>1. Bad(n + 1)' = Bad(n) /\ config_error' = config_error
        BY <1>5, <2>2, <2>5 DEF error
      <3> QED
        BY <2>3, <3>1 DEF Kept
    <2> QED
      BY <2>4, <2>5
  <1>13. (error_policy = PolicyAt(n + 2) /\ pending_stage_id = Given(n + 2))'
    BY <1>4
  <1>14. (n + 1) + 1 = n + 2
    BY <1>2
  <1> HIDE DEF id, link
  <1> QED
    BY <1>8, <1>9, <1>10, <1>11, <1>12, <1>13, <1>14 DEF Kept

LEMMA Errors == \A id, kind : kind # None => ConfigError(id, kind) # NoError
  BY DEF ConfigError, NoError

\* What each method records, by the name it has in the history.
LEMMA WrongIs ==
  ASSUME NEW arg, NEW id
  PROVE  /\ \A name \in {"stage_id", "on_error", "dead_letter", "map", "try_map", "try_map_ref",
                         "stage"} : Wrong(name, arg, id) = NoError
         /\ Wrong("idle_tick", arg, id) =
              IF arg = "zero" THEN ConfigError("idle_tick", "ZeroDuration") ELSE NoError
         /\ Wrong("try_map_retry", arg, id) =
              IF RetryPolicy[arg].max_attempts = 0 THEN ConfigError(id, "ZeroLimit") ELSE NoError
         /\ Wrong("group", arg, id) =
              IF arg = "bad" THEN ConfigError(id, "BadPolicy") ELSE NoError
         /\ Wrong("buffer", arg, id) =
              IF arg = "large" THEN ConfigError(id, "LimitTooLarge") ELSE NoError
  BY DEF Wrong

LEMMA NotBad ==
  ASSUME NEW wrong, wrong = NoError
  PROVE  Record(wrong # NoError, wrong) = config_error
  BY DEF Record

LEMMA MethodCalled ==
  ASSUME dead_letter \in BOOLEAN, BuilderNext, ~\E ends \in {"sink", "try_sink"} : Sink(ends)
  PROVE  made = "building" /\ made' = made /\ \E name, arg : Called(name, arg)
  <1>1. ASSUME NEW n \in Names, StageId(n)
        PROVE  made = "building" /\ made' = made /\ Called("stage_id", n)
    <2>1. n # None
      BY BuilderAssumption
    <2>2. Wrong("stage_id", n, TakeStageId("stage_id")) = NoError
      BY WrongIs
    <2> QED
      BY <1>1, <2>1, <2>2, NotBad DEF StageId, Method, Called, Transforms, Fallible, None
  <1>2. ASSUME NEW policy \in ErrorPolicies, OnError(policy)
        PROVE  made = "building" /\ made' = made /\ Called("on_error", policy)
    <2>1. Wrong("on_error", policy, TakeStageId("on_error")) = NoError
      BY WrongIs
    <2> QED
      BY <1>2, <2>1, NotBad DEF OnError, Method, Called, Transforms, Fallible, None
  <1>3. ASSUME DeadLetter
        PROVE  made = "building" /\ made' = made /\ Called("dead_letter", None)
    <2>1. Wrong("dead_letter", None, TakeStageId("dead_letter")) = NoError
      BY WrongIs
    <2> QED
      BY <1>3, <2>1, NotBad DEF DeadLetter, Method, Called, Transforms, Fallible, None
  <1>4. ASSUME NEW interval, IdleTick(interval)
        PROVE  made = "building" /\ made' = made /\ Called("idle_tick", interval)
    <2>0. Wrong("idle_tick", interval, TakeStageId("idle_tick"))
            = IF interval = "zero"
              THEN ConfigError("idle_tick", "ZeroDuration") ELSE NoError
      BY WrongIs
    <2>1. Record(interval = "zero", ConfigError("idle_tick", "ZeroDuration"))
            = LET wrong == Wrong("idle_tick", interval, TakeStageId("idle_tick"))
              IN  Record(wrong # NoError, wrong)
      <3>1. ConfigError("idle_tick", "ZeroDuration") # NoError
        BY Errors DEF None
      <3> QED
        BY <2>0, <3>1 DEF Record
    <2> QED
      BY <1>4, <2>1 DEF IdleTick, Method, Called, Transforms, Fallible, None
  <1>5. ASSUME Map
        PROVE  made = "building" /\ made' = made /\ Called("map", None)
    <2>1. Wrong("map", None, TakeStageId("map")) = NoError
      BY WrongIs
    <2> QED
      BY <1>5, <2>1, NotBad DEF Map, Link, Method, Called, Transforms, Fallible, None
  <1>6. ASSUME NEW kind \in Fallible \ {"try_map_retry"}, TryMap(kind)
        PROVE  made = "building" /\ made' = made /\ Called(kind, None)
    <2>1. Wrong(kind, None, TakeStageId(kind)) = NoError
      BY WrongIs DEF Fallible
    <2>2. kind \in Transforms /\ kind \notin {"map", "try_map_retry", "stage_id", "on_error",
                                              "dead_letter"}
      BY DEF Fallible, Transforms
    <2> QED
      BY <1>6, <2>1, <2>2, NotBad DEF TryMap, Link, Method, Called, None, Transforms
  <1>7. ASSUME NEW retry, TryMapRetry(retry)
        PROVE  made = "building" /\ made' = made /\ Called("try_map_retry", retry)
    <2>0. Wrong("try_map_retry", retry, TakeStageId("try_map_retry"))
            = IF RetryPolicy[retry].max_attempts = 0
              THEN ConfigError(TakeStageId("try_map_retry"), "ZeroLimit") ELSE NoError
      BY WrongIs
    <2>1. Record(RetryPolicy[retry].max_attempts = 0, ConfigError(TakeStageId("try_map_retry"), "ZeroLimit"))
            = LET wrong == Wrong("try_map_retry", retry, TakeStageId("try_map_retry"))
              IN  Record(wrong # NoError, wrong)
      <3>1. ConfigError(TakeStageId("try_map_retry"), "ZeroLimit") # NoError
        BY Errors DEF None
      <3> QED
        BY <2>0, <3>1 DEF Record
    <2> QED
      BY <1>7, <2>1 DEF TryMapRetry, Link, Method, Called, Transforms, Fallible, None
  <1>8. ASSUME NEW policy, Group(policy)
        PROVE  made = "building" /\ made' = made /\ Called("group", policy)
    <2>0. Wrong("group", policy, TakeStageId("group"))
            = IF policy = "bad"
              THEN ConfigError(TakeStageId("group"), "BadPolicy") ELSE NoError
      BY WrongIs
    <2>1. Record(policy = "bad", ConfigError(TakeStageId("group"), "BadPolicy"))
            = LET wrong == Wrong("group", policy, TakeStageId("group"))
              IN  Record(wrong # NoError, wrong)
      <3>1. ConfigError(TakeStageId("group"), "BadPolicy") # NoError
        BY Errors DEF None
      <3> QED
        BY <2>0, <3>1 DEF Record
    <2> QED
      BY <1>8, <2>1 DEF Group, Link, Method, Called, Transforms, Fallible, None
  <1>9. ASSUME NEW capacity, Buffer(capacity)
        PROVE  made = "building" /\ made' = made /\ Called("buffer", capacity)
    <2>0. Wrong("buffer", capacity, TakeStageId("buffer"))
            = IF capacity = "large"
              THEN ConfigError(TakeStageId("buffer"), "LimitTooLarge") ELSE NoError
      BY WrongIs
    <2>1. Record(capacity = "large", ConfigError(TakeStageId("buffer"), "LimitTooLarge"))
            = LET wrong == Wrong("buffer", capacity, TakeStageId("buffer"))
              IN  Record(wrong # NoError, wrong)
      <3>1. ConfigError(TakeStageId("buffer"), "LimitTooLarge") # NoError
        BY Errors DEF None
      <3> QED
        BY <2>0, <3>1 DEF Record
    <2> QED
      BY <1>9, <2>1 DEF Buffer, Method, Called, Transforms, Fallible, None
  <1> QED
    BY <1>1, <1>2, <1>3, <1>4, <1>5, <1>6, <1>7, <1>8, <1>9 DEF BuilderNext

\* The builder's fields say what the calls described, and so does the pipeline.
Described ==
    /\ Heard
    /\ made = "building" => \E n : n = Len(methods) /\ Kept(n)
    /\ AsCalled

LEMMA SinkAsCalled ==
  ASSUME Described, NEW ends \in {"sink", "try_sink"}, Sink(ends)
  PROVE  Described'
  <1>1. /\ made = "building" /\ made' \in {"pipeline", "refused"}
        /\ UNCHANGED <<chain, methods>>
        /\ made' = "refused" => config_error' # NoError
        /\ config_error' = Record(dead_letter_user # None /\ ~dead_letter,
                                  ConfigError(dead_letter_user, "DeadLetterSinkMissing"))
    BY DEF Sink
  <1>2. PICK n : n = Len(methods) /\ Kept(n)
    BY <1>1 DEF Described
  <1>3. n \in Nat /\ DOMAIN methods = 1..n
    BY <1>2, LenProperties DEF Described, Heard
  <1>4. \A k : /\ AddsStage(k)' = AddsStage(k) /\ Place(k)' = Place(k)
               /\ StageAt(k)' = StageAt(k) /\ ErrorAt(k)' = ErrorAt(k)
               /\ NameAt(k)' = NameAt(k) /\ PolicyAt(k)' = PolicyAt(k)
    BY <1>1 DEF AddsStage, Place, StageAt, ErrorAt, NameAt, PolicyAt, TakesName
  <1>5. Heard'
    BY <1>1 DEF Described, Heard
  <1> DEFINE installed == \E k \in 1..n : methods[k].name = "dead_letter"
  <1>6. dead_letter <=> installed
    BY <1>2 DEF Kept
  <1>7. /\ Needy(n) # {} => dead_letter_user = NameAt(Least(Needy(n))) /\ dead_letter_user # None
        /\ Needy(n) = {} => dead_letter_user = None
    <2>1. \A k \in 1..n : NameAt(k) # None
      <3> TAKE k \in 1..n
      <3>1. k \in 1..(Len(methods) + 1) /\ k \in 1..Len(methods)
        BY <1>2, <1>3
      <3> QED
        BY <3>1, GivenName DEF Described, Heard
    <2>2. \A k \in Needy(n) : k \in 1..n
      BY DEF Needy
    <2> QED
      BY <1>2, <2>1, <2>2 DEF Kept
  <1>8. config_error' =
          CASE Bad(n) # {} -> ErrorAt(Least(Bad(n)))
            [] Bad(n) = {} /\ Needy(n) # {} /\ ~installed ->
                 ConfigError(NameAt(Least(Needy(n))), "DeadLetterSinkMissing")
            [] OTHER -> NoError
    <2> HIDE DEF installed
    <2>1. config_error' = IF dead_letter_user # None /\ ~installed /\ config_error = NoError
                          THEN ConfigError(dead_letter_user, "DeadLetterSinkMissing")
                          ELSE config_error
      BY <1>1, <1>6 DEF Record
    <2>2. CASE Bad(n) # {}
      <3>1. config_error = ErrorAt(Least(Bad(n))) /\ config_error # NoError
        BY <1>2, <2>2 DEF Kept, Bad
      <3> QED
        BY <2>1, <2>2, <3>1
    <2>3. CASE Bad(n) = {}
      <3>1. config_error = NoError
        BY <1>2, <2>3 DEF Kept
      <3>2. CASE Needy(n) # {}
        BY <1>7, <2>1, <2>3, <3>1, <3>2
      <3>3. CASE Needy(n) = {}
        BY <1>7, <2>1, <2>3, <3>1, <3>3
      <3> QED
        BY <3>2, <3>3
    <2> QED
      BY <2>2, <2>3
  <1>9. Len(chain) = Place(n) /\ \A k \in 1..n : AddsStage(k) => chain[Place(k)] = StageAt(k)
    BY <1>2 DEF Kept
  <1>10. AsCalled'
    <2>1. Place(Len(methods))' = Place(n)
      BY <1>1, <1>2 DEF Place, AddsStage
    <2>2. (Len(chain) = Place(Len(methods)))'
      BY <1>1, <1>9, <2>1
    <2>3. (\A k \in DOMAIN methods : AddsStage(k) => chain[Place(k)] = StageAt(k))'
      BY <1>1, <1>3, <1>4, <1>9
    <2>4. /\ {k \in DOMAIN methods : ErrorAt(k) # NoError}' = Bad(n)
          /\ {k \in DOMAIN methods : methods[k].name \in Fallible
                                        /\ PolicyAt(k) = "DeadLetter"}' = Needy(n)
          /\ (\E k \in DOMAIN methods : methods[k].name = "dead_letter")' <=> installed
      BY <1>1, <1>3, <1>4 DEF Bad, Needy
    <2>5. PICK b, d : b = Least(Bad(n)) /\ d = Least(Needy(n))
      OBVIOUS
    <2>6. ErrorAt(b)' = ErrorAt(b) /\ NameAt(d)' = NameAt(d)
      BY <1>4
    <2> HIDE DEF installed
    <2> QED
      BY <1>1, <1>8, <2>2, <2>3, <2>4, <2>5, <2>6 DEF AsCalled
  <1> QED
    BY <1>1, <1>5, <1>10 DEF Described

LEMMA DescribedStep == Described /\ [Next]_vars => Described'
  <1> SUFFICES ASSUME Described, [Next]_vars
               PROVE  Described'
    OBVIOUS
  <1>1. CASE BuilderNext /\ ~\E ends \in {"sink", "try_sink"} : Sink(ends)
    <2>1. made = "building"
      BY <1>1 DEF BuilderNext, StageId, OnError, DeadLetter, IdleTick, Map, TryMap, TryMapRetry,
                  Group, Buffer, Sink, Method
    <2>2. PICK n : n = Len(methods) /\ Kept(n)
      BY <2>1 DEF Described
    <2>3. dead_letter \in BOOLEAN
      BY <2>2, Zenon DEF Kept
    <2>4. made' = made /\ \E name, arg : Called(name, arg)
      BY <1>1, <2>3, MethodCalled
    <2>5. PICK name, arg : Called(name, arg)
      BY <2>4
    <2>6. Heard' /\ Kept(n + 1)'
      BY <2>2, <2>5, KeptStep DEF Described
    <2>7. n + 1 = Len(methods')
      BY <2>2, <2>5, CallAdded DEF Called, Described
    <2>8. made' = "building"
      BY <2>1, <2>4
    <2> QED
      BY <2>6, <2>7, <2>8 DEF Described, AsCalled
  <1>2. CASE \E ends \in {"sink", "try_sink"} : Sink(ends)
    BY <1>2, SinkAsCalled
  <1>3. CASE Start
    <2>1. made' = "started" /\ methods' = <<>> /\ chain' = chain
      BY <1>3 DEF Start
    <2>2. PICK S : chain \in Seq(S)
      BY DEF Described, Heard
    <2>3. Heard'
      <3>1. Len(methods') = 0 /\ methods' \in Seq(S) /\ chain' \in Seq(S)
        BY <2>1, <2>2
      <3>2. (\A k \in 1..Len(methods) :
              /\ methods[k].name # None
              /\ methods[k].name = "stage_id" => methods[k].arg # None)'
        BY <3>1
      <3> QED
        BY <3>1, <3>2 DEF Heard
    <2> QED
      BY <2>1, <2>3 DEF Described, AsCalled
  <1>4. CASE UNCHANGED builderVars
    <2>1. UNCHANGED <<methods, chain, made, error_policy, pending_stage_id, dead_letter,
                      dead_letter_user, config_error>>
      BY <1>4 DEF builderVars
    <2>2. \A k : /\ AddsStage(k)' = AddsStage(k) /\ Place(k)' = Place(k)
                 /\ StageAt(k)' = StageAt(k) /\ ErrorAt(k)' = ErrorAt(k)
                 /\ NameAt(k)' = NameAt(k) /\ PolicyAt(k)' = PolicyAt(k)
                 /\ Given(k)' = Given(k)
      BY <2>1 DEF AddsStage, Place, StageAt, ErrorAt, NameAt, PolicyAt, TakesName, Given
    <2>3. \A n : Kept(n)' <=> Kept(n)
      BY <2>1 DEF Kept, AddsStage, Place, StageAt, ErrorAt, NameAt, PolicyAt, TakesName, Given,
                  Needy, Bad
    <2>4. Heard'
      BY <2>1 DEF Described, Heard
    <2>5. AsCalled'
      <3> DEFINE calls == DOMAIN methods
                 bad == {k \in calls : ErrorAt(k) # NoError}
                 needy == {k \in calls : methods[k].name \in Fallible
                                            /\ PolicyAt(k) = "DeadLetter"}
      <3>1. calls' = calls /\ bad' = bad /\ needy' = needy
        BY <2>1, <2>2
      <3>2. PICK b, d, n : b = Least(bad) /\ d = Least(needy) /\ n = Len(methods)
        OBVIOUS
      <3>3. /\ ErrorAt(b)' = ErrorAt(b) /\ NameAt(d)' = NameAt(d) /\ Place(n)' = Place(n)
            /\ Least(bad)' = b /\ Least(needy)' = d /\ Len(methods)' = n
        BY <2>1, <2>2, <3>1, <3>2
      <3>4. Place(Len(methods))' = Place(Len(methods))
        BY <2>1 DEF Place, AddsStage
      <3> HIDE DEF bad, needy
      <3> QED
        BY <2>1, <2>2, <3>1, <3>2, <3>3, <3>4 DEF Described, AsCalled, bad, needy
    <2> QED
      BY <2>1, <2>3, <2>4, <2>5 DEF Described
  <1>5. Run \/ Cancel => UNCHANGED builderVars
    BY DEF Run, Cancel, Stages, MapItem, TryItem, StageItem, StageFails, GroupItem, Signal,
           StageSignal, GroupTick, GroupFlush, RetryItem, Backoff, Outside, SinkItem, SinkTick,
           SinkEnd, PullFirst, Retire, PullSecond, SeeCancel, Return, CloseRest, Inside
  <1>6. UNCHANGED vars => UNCHANGED builderVars
    BY DEF vars
  <1> QED
    BY <1>1, <1>2, <1>3, <1>4, <1>5, <1>6 DEF Next

\* For every list of calls, in any order: each stage of the pipeline has the
\* error policy set before it and the name given just for it, and the builder's
\* config_error is the first bad setting, or else the first stage that needs a
\* dead-letter sink which no call installed (PipelineBuilder, pipeline.rs).
THEOREM FlowAsCalled == Spec => []AsCalled
  <1>1. Init => Described
    <2> SUFFICES ASSUME Init
                 PROVE  Described
      OBVIOUS
    <2>1. /\ methods = <<>> /\ chain = <<>> /\ made = "building" /\ error_policy = "FailFast"
          /\ pending_stage_id = None /\ dead_letter = FALSE /\ dead_letter_user = None
          /\ config_error = NoError
      BY DEF Init, BuilderInit
    <2>2. Len(methods) = 0 /\ Len(chain) = 0 /\ 1..0 = {} /\ 1..((0 + 1) - 1) = {}
      BY <2>1
    <2>3. Heard
      <3>1. methods \in Seq({}) /\ chain \in Seq({})
        BY <2>1
      <3> QED
        BY <2>2, <3>1 DEF Heard
    <2>4. Kept(0)
      <3>1. Place(0) = 0
        BY <2>2, FS_EmptySet DEF Place
      <3>2. Needy(0) = {} /\ Bad(0) = {}
        BY <2>2 DEF Needy, Bad
      <3>3. PolicyAt(0 + 1) = "FailFast" /\ Given(0 + 1) = None
        BY <2>2 DEF PolicyAt, Given, Latest
      <3> QED
        BY <2>1, <2>2, <3>1, <3>2, <3>3 DEF Kept
    <2> QED
      BY <2>1, <2>2, <2>3, <2>4 DEF Described, AsCalled
  <1>2. Described => AsCalled
    BY DEF Described
  <1> QED
    BY <1>1, <1>2, DescribedStep, PTL DEF Spec

-----------------------------------------------------------------------------
(* Where the items are.  Seen as sets of their numbers they stand in line:  *)
(* the sink, then the groups from the last stage to the first, with what is *)
(* under way between the stage it left and the one it is going to.          *)

Less(X, Y) == \A i \in X : \A j \in Y : i < j
Rising(s) == DOMAIN s \subseteq Nat /\ \A i, j \in DOMAIN s : i < j => s[i] < s[j]
Values(items) == UNION {ToSet(items[k]) : k \in DOMAIN items}

\* Each further down is less: S at the sink, H[b] in the group of stage b, C under
\* way to stage p.
Line(S, H, C, p) ==
    /\ Less(S, C)
    /\ \A b \in DOMAIN H : Less(S, H[b])
    /\ \A b \in DOMAIN H : IF b < p THEN Less(C, H[b]) ELSE Less(H[b], C)
    /\ \A b, c \in DOMAIN H : b < c => Less(H[c], H[b])

\* These and what was given up, F, are the first n numbers.
Cover(S, H, C, F, n) ==
    /\ S \cup C \cup F \cup UNION {H[b] : b \in DOMAIN H} = 1..n
    /\ F \cap S = {} /\ F \cap C = {}
    /\ \A b \in DOMAIN H : F \cap H[b] = {}

AtTheSink == Values(Items(sinks[2]))
GivenUp == Values(Items(failures))
Groups == [b \in 1..Len(chain) |-> ToSet(held[b])]
Cur == IF agenda = <<>> THEN <<>> ELSE Top.item
Pos == IF agenda = <<>> THEN 0 ELSE Top.at

\* Only the head of the agenda may carry an item.
Alone(tasks) ==
    \A k \in 1..Len(tasks) :
       /\ k > 1 => tasks[k].op \notin ItemOps
       /\ tasks[k].op \notin ItemOps => tasks[k].item = <<>>
Lone == Alone(agenda)

\* Each piece keeps the order of the pulls.
Pieces ==
    /\ Rising(Cur)
    /\ \A b \in 1..Len(chain) : Rising(held[b])
    /\ \A b \in 1..Len(chain) : chain[b].kind # "group" => held[b] = <<>>

Apart(items) ==
    \A k, l \in DOMAIN items : k # l => ToSet(items[k]) \cap ToSet(items[l]) = {}
InOrder(items) ==
    \A k, l \in DOMAIN items : k < l => Less(ToSet(items[k]), ToSet(items[l]))
AllRise(items) == \A k \in DOMAIN items : Rising(items[k])

\* A log of which the items are in order.
Ordered(log) == AllRise(Items(log)) /\ InOrder(Items(log))

\* The groups before stage q hold nothing.
Drained(h, q) == \A b \in DOMAIN h : b < q => h[b] = <<>>

\* A flush has the groups behind it drained, and the items it set free ahead of it.
Flushed ==
    /\ phase = "flush" =>
         \A k \in 1..Len(agenda) : agenda[k].op = "flush" =>
            Drained(held, agenda[k].at) /\ agenda[1].at >= agenda[k].at
    /\ phase = "flush" /\ Len(agenda) = 1 => Drained(held, AtSink)
    /\ phase \in {"close", "rest", "ended"} => Drained(held, AtSink)

Placed ==
    /\ Lone /\ Pieces /\ Flushed
    /\ Line(AtTheSink, Groups, ToSet(Cur), Pos)
    /\ Cover(AtTheSink, Groups, ToSet(Cur), GivenUp, tally.items_in)
    /\ AllRise(Items(failures)) /\ Apart(Items(failures))

Whole ==
    /\ phase = "built" => /\ sinks[2] = <<>> /\ failures = <<>> /\ agenda = <<>>
                          /\ tally.items_in = 0
    /\ phase = "abort" => first_error # NoFailure
    /\ Conserving => /\ Ordered(sinks[2])
                     /\ phase # "built" /\ first_error = NoFailure => Placed

-----------------------------------------------------------------------------
(* What each step does to the line and to what it covers, as facts about    *)
(* sets.                                                                    *)

LEMMA LessJoins ==
  ASSUME NEW X, NEW Y, NEW Z
  PROVE  /\ Less(X, Y) /\ Less(X, Z) => Less(X, Y \cup Z)
         /\ Less(X, Z) /\ Less(Y, Z) => Less(X \cup Y, Z)
         /\ Less(X, {}) /\ Less({}, X)
  BY DEF Less

\* What was under way goes on to the next stage; the one it leaves holds nothing.
LEMMA LinePasses ==
  ASSUME NEW n \in Nat, NEW S \in SUBSET Nat, NEW C \in SUBSET Nat, NEW H \in [1..n -> SUBSET Nat],
         NEW p \in Nat, Line(S, H, C, p), p \in 1..n => H[p] = {}
  PROVE  Line(S, H, C, p + 1)
  <1>1. \A b \in 1..n : b < p + 1 => b < p \/ b = p
    OBVIOUS
  <1>2. \A b \in 1..n : b = p => Less(C, H[b])
    BY DEF Less
  <1> QED
    BY <1>1, <1>2 DEF Line

\* With nothing under way it may be anywhere.
LEMMA LineAnywhere ==
  ASSUME NEW n \in Nat, NEW S, NEW C, NEW H \in [1..n -> SUBSET Nat],
         NEW p, NEW q, Line(S, H, C, p)
  PROVE  Line(S, H, {}, q)
  BY DEF Line, Less

\* A group at stage p takes in what comes.
LEMMA LineJoins ==
  ASSUME NEW n \in Nat, NEW S \in SUBSET Nat, NEW C \in SUBSET Nat, NEW H \in [1..n -> SUBSET Nat],
         NEW p \in 1..n, Line(S, H, C, p), NEW q
  PROVE  Line(S, [H EXCEPT ![p] = H[p] \cup C], {}, q)
  <1> DEFINE G == [H EXCEPT ![p] = H[p] \cup C]
  <1>1. /\ DOMAIN G = 1..n /\ DOMAIN H = 1..n /\ G[p] = H[p] \cup C
        /\ \A b \in 1..n : b # p => G[b] = H[b]
    OBVIOUS
  <1> HIDE DEF G
  <1>2. \A b \in 1..n : Less(S, G[b])
    BY <1>1 DEF Line, Less
  <1>3. \A b, c \in 1..n : b < c => Less(G[c], G[b])
    <2> SUFFICES ASSUME NEW b \in 1..n, NEW c \in 1..n, b < c
                 PROVE  Less(G[c], G[b])
      OBVIOUS
    <2>1. Less(H[c], H[b]) /\ (b < p => Less(C, H[b])) /\ (~(c < p) => Less(H[c], C))
      BY <1>1 DEF Line
    <2>2. CASE b = p
      <3>1. ~(c < p) /\ G[c] = H[c] /\ G[b] = H[b] \cup C
        BY <1>1, <2>2
      <3>2. Less(H[c], H[b]) /\ Less(H[c], C)
        BY <2>1, <3>1
      <3>3. Less(H[c], H[b] \cup C)
        BY <3>2, LessJoins
      <3> QED
        BY <3>1, <3>3
    <2>3. CASE c = p
      <3>1. b < p /\ G[b] = H[b] /\ G[c] = H[c] \cup C
        BY <1>1, <2>3
      <3>2. Less(H[c], H[b]) /\ Less(C, H[b])
        BY <2>1, <3>1
      <3>3. Less(H[c] \cup C, H[b])
        BY <3>2, LessJoins
      <3> QED
        BY <3>1, <3>3
    <2>4. CASE b # p /\ c # p
      BY <1>1, <2>1, <2>4
    <2> QED
      BY <2>2, <2>3, <2>4
  <1> QED
    BY <1>1, <1>2, <1>3 DEF Line, Less, G

\* A group at stage p is emitted, X of what is under way with it; Y stays.
LEMMA LineEmits ==
  ASSUME NEW n \in Nat, NEW S \in SUBSET Nat, NEW C \in SUBSET Nat, NEW H \in [1..n -> SUBSET Nat],
         NEW p \in 1..n, Line(S, H, C, p),
         NEW X, NEW Y, (X = C /\ Y = {}) \/ (X = {} /\ Y = C)
  PROVE  Line(S, [H EXCEPT ![p] = Y], H[p] \cup X, p + 1)
  <1> DEFINE G == [H EXCEPT ![p] = Y]
             D == H[p] \cup X
  <1>1. /\ DOMAIN G = 1..n /\ DOMAIN H = 1..n /\ G[p] = Y
        /\ \A b \in 1..n : b # p => G[b] = H[b]
    OBVIOUS
  <1> HIDE DEF G
  <1>2. Less(S, H[p]) /\ Less(S, C) /\ Less(H[p], C)
    BY <1>1 DEF Line
  <1>3. Less(S, D) /\ \A b \in 1..n : Less(S, G[b])
    BY <1>1, <1>2 DEF Line, Less
  <1>4. ASSUME NEW b \in 1..n
        PROVE  IF b < p + 1 THEN Less(D, G[b]) ELSE Less(G[b], D)
    <2>1. CASE b = p
      <3>1. b < p + 1 /\ G[b] = Y /\ Less(D, Y)
        <4>1. CASE X = C /\ Y = {}
          BY <1>1, <2>1, <4>1, LessJoins
        <4>2. CASE X = {} /\ Y = C
          BY <1>1, <1>2, <2>1, <4>2
        <4> QED
          BY <4>1, <4>2
      <3> QED
        BY <3>1
    <2>2. CASE b < p
      <3>1. Less(C, H[b]) /\ Less(H[p], H[b]) /\ G[b] = H[b] /\ b < p + 1
        BY <1>1, <2>2 DEF Line
      <3> QED
        BY <3>1 DEF Less
    <2>3. CASE b > p
      <3>1. Less(H[b], C) /\ Less(H[b], H[p]) /\ G[b] = H[b] /\ ~(b < p + 1)
        BY <1>1, <2>3 DEF Line
      <3> QED
        BY <3>1 DEF Less
    <2> QED
      BY <2>1, <2>2, <2>3
  <1>5. \A b, c \in 1..n : b < c => Less(G[c], G[b])
    <2> SUFFICES ASSUME NEW b \in 1..n, NEW c \in 1..n, b < c
                 PROVE  Less(G[c], G[b])
      OBVIOUS
    <2>1. Less(H[c], H[b]) /\ (b < p => Less(C, H[b])) /\ (~(c < p) => Less(H[c], C))
      BY <1>1 DEF Line
    <2>2. CASE b = p
      <3>1. ~(c < p) /\ G[c] = H[c] /\ G[b] = Y /\ (Y = {} \/ Y = C)
        BY <1>1, <2>2
      <3> QED
        BY <2>1, <3>1, LessJoins
    <2>3. CASE c = p
      <3>1. b < p /\ G[b] = H[b] /\ G[c] = Y /\ (Y = {} \/ Y = C)
        BY <1>1, <2>3
      <3> QED
        BY <2>1, <3>1, LessJoins
    <2>4. CASE b # p /\ c # p
      BY <1>1, <2>1, <2>4
    <2> QED
      BY <2>2, <2>3, <2>4
  <1> QED
    BY <1>1, <1>3, <1>4, <1>5 DEF Line, G

LEMMA LineEmitsAll ==
  ASSUME NEW n \in Nat, NEW S \in SUBSET Nat, NEW C \in SUBSET Nat, NEW H \in [1..n -> SUBSET Nat],
         NEW p \in 1..n, Line(S, H, C, p)
  PROVE  Line(S, [H EXCEPT ![p] = {}], H[p] \cup C, p + 1)
  <1> DEFINE Y == {}
             X == C
  <1>1. X = C /\ Y = {}
    OBVIOUS
  <1> HIDE DEF X, Y
  <1>2. Line(S, [H EXCEPT ![p] = Y], H[p] \cup X, p + 1)
    BY <1>1, LineEmits
  <1> QED
    BY <1>1, <1>2

\* What is under way reaches the sink.
LEMMA LineArrives ==
  ASSUME NEW n \in Nat, NEW S \in SUBSET Nat, NEW C \in SUBSET Nat, NEW H \in [1..n -> SUBSET Nat],
         Line(S, H, C, n + 1), NEW q
  PROVE  Line(S \cup C, H, {}, q)
  <1>1. \A b \in 1..n : b < n + 1
    OBVIOUS
  <1> QED
    BY <1>1 DEF Line, Less

\* A new number enters the first stage.
LEMMA LineEnters ==
  ASSUME NEW n \in Nat, NEW S \in SUBSET Nat, NEW H \in [1..n -> SUBSET Nat], NEW p,
         Line(S, H, {}, p), NEW m \in Nat, S \subseteq 1..m, \A b \in 1..n : H[b] \subseteq 1..m
  PROVE  Line(S, H, {m + 1}, 1)
  BY DEF Line, Less

\* The numbers move between places.
LEMMA CoverMoves ==
  ASSUME NEW n \in Nat, NEW H \in [1..n -> SUBSET Nat], NEW p \in 1..n, NEW m \in Nat,
         NEW S, NEW C, NEW F, NEW D, NEW Y, D \cup Y = H[p] \cup C, Cover(S, H, C, F, m)
  PROVE  Cover(S, [H EXCEPT ![p] = Y], D, F, m)
  <1> DEFINE G == [H EXCEPT ![p] = Y]
  <1>1. /\ DOMAIN G = 1..n /\ DOMAIN H = 1..n /\ G[p] = Y
        /\ \A b \in 1..n : b # p => G[b] = H[b]
    OBVIOUS
  <1> HIDE DEF G
  <1>2. C \cup UNION {H[b] : b \in 1..n} = D \cup UNION {G[b] : b \in 1..n}
    <2>1. \A v : v \in UNION {H[b] : b \in 1..n} <=> \E b \in 1..n : v \in H[b]
      OBVIOUS
    <2>2. \A v : v \in UNION {G[b] : b \in 1..n} <=> \E b \in 1..n : v \in G[b]
      OBVIOUS
    <2>3. ASSUME NEW v
          PROVE  (v \in C \/ \E b \in 1..n : v \in H[b]) <=> (v \in D \/ \E b \in 1..n : v \in G[b])
      <3>1. v \in D \/ v \in Y <=> v \in H[p] \/ v \in C
        OBVIOUS
      <3> QED
        BY <1>1, <3>1
    <2> QED
      BY <2>1, <2>2, <2>3
  <1>3. F \cap D = {} /\ F \cap Y = {}
    BY <1>1 DEF Cover
  <1>4. \A b \in 1..n : F \cap G[b] = {}
    BY <1>1, <1>3 DEF Cover
  <1>5. S \cup D \cup F \cup UNION {G[b] : b \in 1..n} = 1..m
    BY <1>1, <1>2 DEF Cover
  <1> QED
    BY <1>1, <1>3, <1>4, <1>5 DEF Cover, G

LEMMA CoverLeaves ==
  ASSUME NEW S, NEW H, NEW C, NEW F, NEW m, Cover(S, H, C, F, m),
         NEW n \in Nat, H \in [1..n -> SUBSET Nat], NEW p, Line(S, H, C, p), C \subseteq Nat
  PROVE  Cover(S \cup C, H, {}, F, m) /\ Cover(S, H, {}, F \cup C, m)
  <1>1. F \cap (S \cup C) = {} /\ F \cap {} = {}
    BY DEF Cover
  <1>2. \A i \in Nat : ~(i < i)
    OBVIOUS
  <1>3. (F \cup C) \cap S = {}
    BY <1>1, <1>2 DEF Line, Less
  <1>4. \A b \in DOMAIN H : (F \cup C) \cap H[b] = {}
    <2> SUFFICES ASSUME NEW b \in DOMAIN H
                 PROVE  (F \cup C) \cap H[b] = {}
      OBVIOUS
    <2>1. F \cap H[b] = {} /\ (Less(C, H[b]) \/ Less(H[b], C)) /\ H[b] \subseteq Nat
      BY DEF Line, Cover
    <2> QED
      BY <1>2, <2>1 DEF Less
  <1> QED
    BY <1>1, <1>3, <1>4 DEF Cover

LEMMA CoverEnters ==
  ASSUME NEW S, NEW H, NEW F, NEW m \in Nat, Cover(S, H, {}, F, m)
  PROVE  Cover(S, H, {m + 1}, F, m + 1)
  <1>1. 1..(m + 1) = (1..m) \cup {m + 1} /\ m + 1 \notin 1..m
    OBVIOUS
  <1>2. F \subseteq 1..m
    BY DEF Cover
  <1> QED
    BY <1>1, <1>2 DEF Cover

-----------------------------------------------------------------------------
(* The items themselves, as sequences.                                      *)

LEMMA ToSetIs ==
  ASSUME NEW T, NEW s \in Seq(T)
  PROVE  /\ ToSet(s) \in SUBSET T /\ DOMAIN s = 1..Len(s) /\ Len(s) \in Nat
         /\ \A i \in 1..Len(s) : s[i] \in ToSet(s)
         /\ \A v \in ToSet(s) : \E i \in 1..Len(s) : v = s[i]
  <1>1. DOMAIN s = 1..Len(s) /\ Len(s) \in Nat /\ \A i \in 1..Len(s) : s[i] \in T
    BY LenProperties, ElementOfSeq
  <1> QED
    BY <1>1 DEF ToSet

LEMMA ToSetEmpty == ToSet(<<>>) = {} /\ Rising(<<>>)
  <1>1. DOMAIN <<>> = {}
    OBVIOUS
  <1> QED
    BY <1>1 DEF ToSet, Rising

\* A piece and a later one make a piece.
LEMMA RisingJoins ==
  ASSUME NEW x \in Seq(Nat), NEW y \in Seq(Nat), Rising(x), Rising(y), Less(ToSet(x), ToSet(y))
  PROVE  Rising(x \o y)
  <1> DEFINE m == Len(x)
             n == Len(y)
             z == x \o y
  <1>1. /\ m \in Nat /\ n \in Nat /\ DOMAIN x = 1..m /\ DOMAIN y = 1..n
        /\ \A i \in 1..m : x[i] \in ToSet(x)
        /\ \A i \in 1..n : y[i] \in ToSet(y)
    BY ToSetIs
  <1>2. /\ z \in Seq(Nat) /\ Len(z) = m + n
        /\ \A i \in 1..(m + n) : z[i] = IF i <= m THEN x[i] ELSE y[i - m]
    BY ConcatProperties
  <1>3. DOMAIN z = 1..(m + n)
    BY <1>2, LenProperties
  <1> HIDE DEF m, n, z
  <1>4. ASSUME NEW i \in 1..(m + n), NEW j \in 1..(m + n), i < j
        PROVE  z[i] < z[j]
    <2>1. CASE j <= m
      <3>1. i \in 1..m /\ j \in 1..m /\ z[i] = x[i] /\ z[j] = x[j]
        BY <1>1, <1>2, <1>4, <2>1
      <3> QED
        BY <1>1, <1>4, <3>1 DEF Rising
    <2>2. CASE ~(i <= m)
      <3>1. i - m \in 1..n /\ j - m \in 1..n /\ i - m < j - m /\ z[i] = y[i - m] /\ z[j] = y[j - m]
        BY <1>1, <1>2, <1>4, <2>2
      <3> QED
        BY <1>1, <3>1 DEF Rising
    <2>3. CASE i <= m /\ ~(j <= m)
      <3>1. i \in 1..m /\ j - m \in 1..n /\ z[i] = x[i] /\ z[j] = y[j - m]
        BY <1>1, <1>2, <1>4, <2>3
      <3> QED
        BY <1>1, <3>1 DEF Less
    <2> QED
      BY <1>4, <1>1, <2>1, <2>2, <2>3
  <1>5. 1..(m + n) \subseteq Nat
    BY <1>1
  <1> QED
    BY <1>3, <1>4, <1>5 DEF Rising, z

LEMMA ToSetJoins ==
  ASSUME NEW T, NEW x \in Seq(T), NEW y \in Seq(T)
  PROVE  ToSet(x \o y) = ToSet(x) \cup ToSet(y)
  <1> DEFINE m == Len(x)
             n == Len(y)
             z == x \o y
  <1>1. /\ m \in Nat /\ n \in Nat /\ DOMAIN x = 1..m /\ DOMAIN y = 1..n
    BY ToSetIs
  <1>2. /\ z \in Seq(T) /\ Len(z) = m + n
        /\ \A i \in 1..(m + n) : z[i] = IF i <= m THEN x[i] ELSE y[i - m]
    BY ConcatProperties
  <1>3. DOMAIN z = 1..(m + n)
    BY <1>2, LenProperties
  <1> HIDE DEF m, n, z
  <1>4. ASSUME NEW i \in 1..m PROVE i \in 1..(m + n) /\ z[i] = x[i]
    BY <1>1, <1>2
  <1>5. ASSUME NEW i \in 1..n PROVE i + m \in 1..(m + n) /\ z[i + m] = y[i]
    BY <1>1, <1>2
  <1>6. ASSUME NEW i \in 1..(m + n)
        PROVE  (i \in 1..m /\ z[i] = x[i]) \/ (i - m \in 1..n /\ z[i] = y[i - m])
    BY <1>1, <1>2
  <1>7. ToSet(z) = {z[i] : i \in 1..(m + n)} /\ ToSet(x) = {x[i] : i \in 1..m}
        /\ ToSet(y) = {y[i] : i \in 1..n}
    BY <1>1, <1>3 DEF ToSet
  <1>8. ASSUME NEW v \in ToSet(x) PROVE v \in ToSet(z)
    BY <1>4, <1>7
  <1>9. ASSUME NEW v \in ToSet(y) PROVE v \in ToSet(z)
    BY <1>5, <1>7
  <1>10. ASSUME NEW v \in ToSet(z) PROVE v \in ToSet(x) \cup ToSet(y)
    BY <1>6, <1>7
  <1> QED
    BY <1>8, <1>9, <1>10 DEF z

\* `new` is `old`, which has n items, and the item x.
Longer(new, old, n, x) ==
    /\ DOMAIN new = 1..(n + 1) /\ DOMAIN old = 1..n
    /\ new[n + 1] = x
    /\ \A k \in 1..n : new[k] = old[k]

LEMMA ItemAdded ==
  ASSUME NEW S, NEW r \in Seq(S), NEW x
  PROVE  Len(r) \in Nat /\ Longer(Items(Append(r, x)), Items(r), Len(r), x.item)
  <1> DEFINE R == S \cup {x}
             n == Len(r)
             q == Append(r, x)
  <1>1. r \in Seq(R) /\ x \in R
    BY SeqMonotonic
  <1> HIDE DEF R
  <1>2. /\ n \in Nat /\ DOMAIN r = 1..n /\ DOMAIN q = 1..(n + 1) /\ q[n + 1] = x
        /\ \A k \in 1..n : q[k] = r[k]
    BY <1>1, AppendProperties, LenProperties
  <1> HIDE DEF n, q
  <1>3. n + 1 \in 1..(n + 1) /\ \A k \in 1..n : k \in 1..(n + 1)
    BY <1>2
  <1>4. Longer(Items(q), Items(r), n, x.item)
    BY <1>2, <1>3 DEF Items, Longer
  <1> QED
    BY <1>2, <1>4 DEF n, q

LEMMA LongerValues ==
  ASSUME NEW n \in Nat, NEW new, NEW old, NEW x, Longer(new, old, n, x)
  PROVE  /\ Values(new) = Values(old) \cup ToSet(x)
         /\ \A k \in 1..n : ToSet(old[k]) \subseteq Values(old)
  <1>1. 1..(n + 1) = (1..n) \cup {n + 1}
    OBVIOUS
  <1>2. DOMAIN new = 1..(n + 1) /\ DOMAIN old = 1..n /\ new[n + 1] = x /\ \A k \in 1..n : new[k] = old[k]
    BY DEF Longer
  <1>3. ASSUME NEW v
        PROVE  (\E k \in 1..(n + 1) : v \in ToSet(new[k])) <=>
                  (v \in ToSet(x) \/ \E k \in 1..n : v \in ToSet(old[k]))
    BY <1>1, <1>2
  <1>4. \A v : v \in Values(new) <=> \E k \in 1..(n + 1) : v \in ToSet(new[k])
    BY <1>2 DEF Values
  <1>5. \A v : v \in Values(old) <=> \E k \in 1..n : v \in ToSet(old[k])
    BY <1>2 DEF Values
  <1> QED
    BY <1>3, <1>4, <1>5

LEMMA LongerRises ==
  ASSUME NEW n \in Nat, NEW new, NEW old, NEW x, Longer(new, old, n, x), AllRise(old), Rising(x)
  PROVE  AllRise(new)
  <1>1. \A k \in 1..(n + 1) : k \in 1..n \/ k = n + 1
    OBVIOUS
  <1> QED
    BY <1>1 DEF Longer, AllRise

LEMMA LongerInOrder ==
  ASSUME NEW n \in Nat, NEW new, NEW old, NEW x, Longer(new, old, n, x), InOrder(old),
         Less(Values(old), ToSet(x))
  PROVE  InOrder(new)
  <1>1. DOMAIN new = 1..(n + 1) /\ DOMAIN old = 1..n /\ new[n + 1] = x /\ \A k \in 1..n : new[k] = old[k]
    BY DEF Longer
  <1>2. ASSUME NEW k \in 1..(n + 1), NEW l \in 1..(n + 1), k < l
        PROVE  Less(ToSet(new[k]), ToSet(new[l]))
    <2>1. k \in 1..n
      BY <1>2
    <2>2. CASE l \in 1..n
      BY <1>1, <1>2, <2>1, <2>2 DEF InOrder
    <2>3. CASE l = n + 1
      <3>1. ToSet(new[k]) \subseteq Values(old) /\ new[l] = x
        BY <1>1, <2>1, <2>3, LongerValues
      <3> QED
        BY <3>1 DEF Less
    <2> QED
      BY <2>2, <2>3
  <1> QED
    BY <1>1, <1>2 DEF InOrder

LEMMA LongerApart ==
  ASSUME NEW n \in Nat, NEW new, NEW old, NEW x, Longer(new, old, n, x), Apart(old),
         Values(old) \cap ToSet(x) = {}
  PROVE  Apart(new)
  <1>1. DOMAIN new = 1..(n + 1) /\ DOMAIN old = 1..n /\ new[n + 1] = x /\ \A k \in 1..n : new[k] = old[k]
    BY DEF Longer
  <1>2. \A k \in 1..n : ToSet(old[k]) \cap ToSet(x) = {}
    BY LongerValues
  <1>3. \A k \in 1..(n + 1) : k \in 1..n \/ k = n + 1
    OBVIOUS
  <1> QED
    BY <1>1, <1>2, <1>3 DEF Apart

-----------------------------------------------------------------------------
(* The agenda of a run in which every output has an input of its own.       *)

\* The numbers in each place.
LEMMA PlacesTyped ==
  ASSUME Typing, phase # "built", Placed
  PROVE  /\ Len(chain) \in Nat /\ tally.items_in \in Nat /\ AtSink = Len(chain) + 1
         /\ held \in [1..Len(chain) -> Seq(Nat)] /\ Cur \in Seq(Nat)
         /\ Groups \in [1..Len(chain) -> SUBSET Nat] /\ ToSet(Cur) \in SUBSET Nat
         /\ AtTheSink \in SUBSET Nat /\ Pos \in Nat
         /\ \A b \in 1..Len(chain) : Groups[b] = ToSet(held[b])
         /\ AtTheSink \subseteq 1..tally.items_in
         /\ \A b \in 1..Len(chain) : Groups[b] \subseteq 1..tally.items_in
  <1>1. Len(chain) \in Nat /\ tally.items_in \in Nat /\ AtSink = Len(chain) + 1
    BY DEF Typing, Typed, Built, FlowInv, Counted, Tally, AtSink
  <1>2. Pulled \subseteq Nat /\ Pulled = 1..tally.items_in
    BY DEF Pulled
  <1>3. Seq(Pulled) \subseteq Seq(Nat)
    BY <1>2, SeqMonotonic
  <1>4. held \in [1..Len(chain) -> Seq(Pulled)]
    BY DEF Typing, Typed, Held
  <1>5. Cur \in Seq(Pulled) /\ Pos \in Nat
    <2>1. CASE agenda = <<>>
      BY <2>1 DEF Cur, Pos
    <2>2. CASE agenda # <<>>
      <3>1. Top.item \in Seq(Pulled) /\ Top.at \in 0..AtSink
        BY <2>2, HeadTyped DEF Typing
      <3> QED
        BY <1>1, <2>2, <3>1 DEF Cur, Pos
    <2> QED
      BY <2>1, <2>2
  <1>6. ToSet(Cur) \in SUBSET Nat
    BY <1>2, <1>5, ToSetIs
  <1>7. \A b \in 1..Len(chain) : Groups[b] = ToSet(held[b]) /\ ToSet(held[b]) \in SUBSET Pulled
    BY <1>4, ToSetIs DEF Groups
  <1>8. Groups \in [1..Len(chain) -> SUBSET Nat]
    BY <1>2, <1>7 DEF Groups
  <1>9. AtTheSink \subseteq 1..tally.items_in
    BY DEF Placed, Cover
  <1> QED
    BY <1>1, <1>2, <1>3, <1>4, <1>5, <1>6, <1>7, <1>8, <1>9

\* What one stage holds changes.
LEMMA GroupChanges ==
  ASSUME Typing, phase # "built", Placed, chain' = chain, NEW at \in 1..Len(chain), NEW x,
         held' = [held EXCEPT ![at] = x]
  PROVE  /\ Groups' = [Groups EXCEPT ![at] = ToSet(x)]
         /\ held'[at] = x /\ \A b \in 1..Len(chain) : b # at => held'[b] = held[b]
  <1>1. held \in [1..Len(chain) -> Seq(Nat)]
    BY PlacesTyped
  <1>2. held'[at] = x /\ \A b \in 1..Len(chain) : b # at => held'[b] = held[b]
    BY <1>1
  <1>3. Groups' = [b \in 1..Len(chain) |-> ToSet(held'[b])]
    BY DEF Groups
  <1>4. [Groups EXCEPT ![at] = ToSet(x)]
          = [b \in 1..Len(chain) |-> IF b = at THEN ToSet(x) ELSE ToSet(held[b])]
    BY DEF Groups
  <1>5. \A b \in 1..Len(chain) :
          ToSet(held'[b]) = IF b = at THEN ToSet(x) ELSE ToSet(held[b])
    BY <1>2
  <1> QED
    BY <1>2, <1>3, <1>4, <1>5

LEMMA GroupsStay ==
  ASSUME chain' = chain, held' = held
  PROVE  Groups' = Groups
  BY DEF Groups

\* How many calls are under way.
LEMMA Depth ==
  ASSUME Typing, Lone, agenda # <<>>
  PROVE  /\ Top.op \in ItemOps => /\ Len(agenda) \in {2, 3}
                                  /\ phase = "flush" => Len(agenda) = 3 /\ agenda[2].op = "flush"
                                  /\ phase \in {"pump", "flush"}
         /\ agenda[Len(agenda)].op = "return"
         /\ Top.op \notin ItemOps => Top.item = <<>>
  <1> DEFINE n == Len(agenda)
  <1>1. n \in Nat \ {0} /\ Top = agenda[1]
    BY HeadTyped DEF Typing
  <1>2. Stack(agenda, n, phase) /\ Alone(agenda)
    BY DEF Typing, Typed, AgendaOK, Stacked, Lone
  <1>3. \A k \in 1..n : /\ k > 1 => agenda[k].op \notin ItemOps
                        /\ agenda[k].op \notin ItemOps => agenda[k].item = <<>>
    BY <1>2 DEF Alone
  <1> HIDE DEF n
  <1>4. agenda[n].op = "return"
    BY <1>1, <1>2 DEF Stack
  <1>5. Top.op \notin ItemOps => Top.item = <<>>
    BY <1>1, <1>3
  <1>6. n <= 3
    <2>1. n > 3 => agenda[2].op \in ItemOps
      BY <1>1, <1>2 DEF Stack
    <2> QED
      BY <1>1, <1>3, <2>1
  <1>7. ASSUME Top.op \in ItemOps
        PROVE  /\ n \in {2, 3}
               /\ phase = "flush" => n = 3 /\ agenda[2].op = "flush"
               /\ phase \in {"pump", "flush"}
    <2>1. n # 1
      BY <1>1, <1>4, <1>7 DEF ItemOps
    <2>2. agenda[n - 1].op \in Signals(phase)
      BY <1>1, <1>2, <2>1 DEF Stack
    <2>3. phase = "flush" => n # 2
      BY <1>1, <1>7, <2>2 DEF Signals, ItemOps
    <2>4. phase = "flush" /\ n = 3 => agenda[2].op = "flush"
      BY <2>2 DEF Signals
    <2>5. phase \in {"pump", "flush"}
      BY <1>7, AtItem
    <2> QED
      BY <1>1, <1>6, <2>1, <2>3, <2>4, <2>5
  <1> QED
    BY <1>4, <1>5, <1>7 DEF n

\* The head of the agenda gives way to `more`.
Turns(more) == agenda' = more \o Under /\ UNCHANGED <<phase, first_error>>

\* The new head, and what is below it.
LEMMA HeadGoes ==
  ASSUME Typing, Lone, agenda # <<>>, NEW M, NEW more \in Seq(Tasks(M)), Turns(more), Alone(more)
  PROVE  /\ Lone' /\ Len(agenda) \in Nat \ {0} /\ Len(agenda') = Len(more) + Len(agenda) - 1
         /\ Len(more) \in Nat /\ phase' = phase /\ first_error' = first_error
         /\ more = <<>> => Cur' = <<>>
         /\ more # <<>> => Cur' = more[1].item /\ Pos' = more[1].at /\ agenda'[1] = more[1]
         /\ \A k \in 1..Len(more) : agenda'[k] = more[k]
         /\ \A k \in (Len(more) + 1)..Len(agenda') : agenda'[k] = agenda[k - Len(more) + 1]
  <1>1. PICK L : agenda \in Seq(Tasks(L))
    BY DEF Typing, Typed, AgendaOK
  <1> DEFINE T == Tasks(L \cup M)
             m == Len(more)
             n == Len(agenda)
  <1>2. agenda \in Seq(T) /\ more \in Seq(T) /\ agenda' = more \o Under
    BY <1>1, Widen DEF Turns
  <1> HIDE DEF T
  <1>3. /\ agenda' \in Seq(T) /\ n \in Nat /\ m \in Nat
        /\ Len(agenda') = m + n - 1
        /\ \A k \in 1..m : agenda'[k] = more[k]
        /\ \A k \in (m + 1)..Len(agenda') : agenda'[k] = agenda[k - m + 1]
    BY <1>2, Replaced
  <1>4. n # 0
    BY HeadTyped DEF Typing
  <1>5. m = 0 <=> more = <<>>
    BY <1>2, EmptySeq
  <1>6. /\ \A k \in 1..n : /\ k > 1 => agenda[k].op \notin ItemOps
                           /\ agenda[k].op \notin ItemOps => agenda[k].item = <<>>
        /\ \A k \in 1..m : /\ k > 1 => more[k].op \notin ItemOps
                           /\ more[k].op \notin ItemOps => more[k].item = <<>>
    BY DEF Lone, Alone
  <1> HIDE DEF m, n
  <1>7. ASSUME NEW k \in 1..Len(agenda')
        PROVE  /\ k > 1 => agenda'[k].op \notin ItemOps
               /\ agenda'[k].op \notin ItemOps => agenda'[k].item = <<>>
    <2>1. CASE k <= m
      <3>1. k \in 1..m /\ agenda'[k] = more[k]
        BY <1>3, <2>1
      <3> QED
        BY <1>6, <3>1
    <2>2. CASE ~(k <= m)
      <3>1. k - m + 1 \in 1..n /\ k - m + 1 > 1 /\ k \in (m + 1)..Len(agenda')
        BY <1>3, <1>4, <2>2
      <3>2. agenda'[k] = agenda[k - m + 1]
        BY <1>3, <3>1
      <3> QED
        BY <1>6, <3>1, <3>2
    <2> QED
      BY <2>1, <2>2
  <1>8. Lone'
    BY <1>7 DEF Lone, Alone
  <1>9. agenda' # <<>> => Top' = agenda'[1]
    <2>1. agenda' \in Seq(T)
      BY <1>3
    <2> QED
      BY <2>1, HeadIs DEF Top
  <1>10. agenda' # <<>> <=> Len(agenda') # 0
    BY <1>3, EmptySeq
  <1>11. more = <<>> => Cur' = <<>>
    <2> SUFFICES ASSUME more = <<>>, agenda' # <<>>
                 PROVE  Top'.item = <<>>
      BY DEF Cur
    <2>1. m = 0 /\ 1 \in (m + 1)..Len(agenda') /\ 2 \in 1..n
      BY <1>3, <1>4, <1>5, <1>10
    <2>2. agenda'[1] = agenda[2]
      <3>1. 1 - m + 1 = 2
        BY <2>1
      <3> QED
        BY <1>3, <2>1, <3>1
    <2> QED
      BY <1>6, <1>9, <2>1, <2>2
  <1>12. more # <<>> => Cur' = more[1].item /\ Pos' = more[1].at /\ agenda'[1] = more[1]
    <2> SUFFICES ASSUME more # <<>>
                 PROVE  Cur' = more[1].item /\ Pos' = more[1].at /\ agenda'[1] = more[1]
      OBVIOUS
    <2>1. 1 \in 1..m /\ agenda' # <<>>
      BY <1>3, <1>4, <1>5, <1>10
    <2>2. agenda'[1] = more[1]
      BY <1>3, <2>1
    <2> QED
      BY <1>9, <2>1, <2>2 DEF Cur, Pos
  <1>13. phase' = phase /\ first_error' = first_error
    BY DEF Turns
  <1> QED
    BY <1>3, <1>4, <1>8, <1>11, <1>12, <1>13 DEF m, n

\* An item moves on in a flush: the groups behind the flush stay drained.
LEMMA FlushedItem ==
  ASSUME Typing, Placed, agenda # <<>>, Top.op \in ItemOps, chain' = chain,
         NEW M, NEW more \in Seq(Tasks(M)), Turns(more), Alone(more), Len(more) \in {0, 1},
         more # <<>> => more[1].op \in ItemOps /\ more[1].at >= Top.at,
         DOMAIN held' = DOMAIN held,
         \A b \in 1..Len(chain) : b # Top.at => held'[b] = held[b]
  PROVE  Flushed'
  <1>1. /\ Len(agenda) \in Nat /\ Len(agenda') = Len(more) + Len(agenda) - 1
        /\ phase' = phase
        /\ \A k \in 1..Len(more) : agenda'[k] = more[k]
        /\ \A k \in (Len(more) + 1)..Len(agenda') : agenda'[k] = agenda[k - Len(more) + 1]
    BY HeadGoes DEF Placed
  <1>2. phase \in {"pump", "flush"}
    BY Depth DEF Placed
  <1>3. CASE phase = "pump"
    BY <1>1, <1>3 DEF Flushed
  <1>4. CASE phase = "flush"
    <2>1. Len(agenda) = 3 /\ agenda[2].op = "flush" /\ agenda[3].op = "return" /\ Top = agenda[1]
      BY <1>4, Depth, HeadTyped DEF Placed, Typing
    <2> DEFINE q == agenda[2].at
    <2>2. q \in Nat /\ Top.at \in Nat
      <3>1. PICK L : agenda \in Seq(Tasks(L))
        BY DEF Typing, Typed, AgendaOK
      <3>2. agenda[2] \in Tasks(L) /\ agenda[1] \in Tasks(L)
        <4>1. 1 \in 1..Len(agenda) /\ 2 \in 1..Len(agenda)
          BY <2>1
        <4> QED
          BY <3>1, <4>1, ElementOfSeq
      <3>3. AtSink \in Nat
        BY PlacesTyped, <1>4
      <3> QED
        BY <2>1, <3>2, <3>3 DEF Tasks
    <2>3. Drained(held, q) /\ Top.at >= q
      BY <1>4, <2>1 DEF Placed, Flushed
    <2>4. Drained(held', q)
      <3>1. DOMAIN held = 1..Len(chain)
        BY <1>4, PlacesTyped
      <3> HIDE DEF q
      <3>2. \A b \in 1..Len(chain) : b < q => held'[b] = <<>>
        BY <2>2, <2>3, <3>1 DEF Drained, q
      <3> QED
        BY <3>1, <3>2 DEF Drained
    <2> HIDE DEF q
    <2>5. CASE Len(more) = 0
      <3>1. Len(agenda') = 2 /\ agenda'[1] = agenda[2] /\ agenda'[2] = agenda[3]
        BY <1>1, <2>1, <2>5
      <3>2. \A k \in 1..2 : agenda'[k].op = "flush" => k = 1
        BY <2>1, <3>1
      <3>3. agenda'[1].at = q
        BY <3>1 DEF q
      <3>4. \A k \in 1..Len(agenda') : agenda'[k].op = "flush" =>
               Drained(held', agenda'[k].at) /\ agenda'[1].at >= agenda'[k].at
        BY <2>2, <2>4, <3>1, <3>2, <3>3
      <3>5. phase' = "flush" /\ Len(agenda') # 1
        <4>1. 2 # 1
          OBVIOUS
        <4> QED
          BY <1>1, <1>4, <3>1, <4>1, Zenon
      <3> QED
        BY <3>4, <3>5 DEF Flushed
    <2>6. CASE Len(more) = 1
      <3>1. Len(agenda') = 3 /\ agenda'[1] = more[1] /\ agenda'[2] = agenda[2] /\ agenda'[3] = agenda[3]
        BY <1>1, <2>1, <2>6
      <3>2. more[1].op \in ItemOps /\ more[1].at >= Top.at /\ more[1].at \in Nat
        <4>1. more # <<>>
          BY <2>6
        <4>2. more[1] \in Tasks(M) /\ AtSink \in Nat
          <5>1. 1 \in 1..Len(more)
            BY <2>6
          <5>2. AtSink \in Nat
            BY PlacesTyped, <1>4
          <5> QED
            BY <5>1, <5>2, ElementOfSeq
        <4> QED
          BY <4>1, <4>2 DEF Tasks
      <3>3. \A k \in 1..3 : agenda'[k].op = "flush" => k = 2
        BY <2>1, <3>1, <3>2 DEF ItemOps
      <3>4. agenda'[2].at = q /\ agenda'[1].at >= q
        BY <2>2, <2>3, <3>1, <3>2 DEF q
      <3>5. \A k \in 1..Len(agenda') : agenda'[k].op = "flush" =>
               Drained(held', agenda'[k].at) /\ agenda'[1].at >= agenda'[k].at
        BY <2>4, <3>1, <3>3, <3>4
      <3> QED
        BY <1>1, <1>4, <3>1, <3>5 DEF Flushed
    <2> QED
      BY <2>5, <2>6
  <1> QED
    BY <1>2, <1>3, <1>4

\* A signal is passed on, with what its stage held ahead of it.
LEMMA FlushedSignal ==
  ASSUME Typing, Placed, agenda # <<>>, chain' = chain, first_error = NoFailure,
         phase # "abort",
         Top.op \in {"tick", "flush", "close", "abort"}, Top.at \in 1..Len(chain),
         NEW M, NEW more \in Seq(Tasks(M)), Turns(more), Alone(more), Len(more) \in {1, 2},
         \A k \in 1..Len(more) : more[k].at = Top.at + 1,
         Top.op \in {"close", "abort"} => held' = held, DOMAIN held' = DOMAIN held,
         Top.op = "flush" =>
            \A b \in 1..Len(chain) : held'[b] = IF b = Top.at THEN <<>> ELSE held[b]
  PROVE  Flushed'
  <1>1. /\ Len(agenda) \in Nat /\ Len(agenda') = Len(more) + Len(agenda) - 1
        /\ phase' = phase
        /\ \A k \in 1..Len(more) : agenda'[k] = more[k]
        /\ \A k \in (Len(more) + 1)..Len(agenda') : agenda'[k] = agenda[k - Len(more) + 1]
    BY HeadGoes DEF Placed
  <1>2. Len(agenda) = 2 /\ phase = (IF Top.op = "tick" THEN "pump" ELSE Top.op)
    BY SignalPhase
  <1>3. Top = agenda[1] /\ agenda[2].op = "return"
    BY <1>2, Depth, HeadTyped DEF Placed, Typing
  <1>4. Len(agenda') = Len(more) + 1 /\ agenda'[Len(more) + 1].op = "return"
    BY <1>1, <1>2, <1>3
  <1>5. CASE phase = "pump"
    BY <1>1, <1>5 DEF Flushed
  <1>6. CASE phase = "close"
    <2>1. Drained(held, AtSink) /\ held' = held
      BY <1>2, <1>6 DEF Placed, Flushed
    <2>2. Drained(held', AtSink')
      BY <2>1 DEF Drained, AtSink
    <2> QED
      BY <1>1, <1>6, <2>2 DEF Flushed
  <1>7. CASE phase = "flush"
    <2>1. Top.op = "flush"
      BY <1>2, <1>7
    <2>2. Drained(held, Top.at)
      BY <1>2, <1>3, <1>7, <2>1 DEF Placed, Flushed
    <2>3. Drained(held', Top.at + 1)
      <3>1. \A b \in 1..Len(chain) : b < Top.at + 1 => b = Top.at \/ b < Top.at
        OBVIOUS
      <3>2. DOMAIN held = 1..Len(chain)
        BY <1>7, PlacesTyped
      <3>3. \A b \in 1..Len(chain) : b < Top.at + 1 => held'[b] = <<>>
        BY <2>1, <2>2, <3>1, <3>2 DEF Drained
      <3> QED
        BY <3>2, <3>3 DEF Drained
    <2>4. ASSUME NEW k \in 1..Len(agenda'), agenda'[k].op = "flush"
          PROVE  agenda'[k].at = Top.at + 1 /\ agenda'[1].at = Top.at + 1
      <3>1. k # Len(more) + 1
        BY <1>4, <2>4
      <3>2. k \in 1..Len(more) /\ 1 \in 1..Len(more)
        BY <1>4, <2>4, <3>1
      <3> QED
        BY <1>1, <3>2
    <2>5. Top.at + 1 \in Nat
      BY PlacesTyped, <1>7
    <2> DEFINE q == Top.at + 1
    <2> HIDE DEF q
    <2>6. \A k \in 1..Len(agenda') : agenda'[k].op = "flush" => agenda'[k].at = q /\ agenda'[1].at = q
      BY <2>4 DEF q
    <2>7. Drained(held', q) /\ q \in Nat
      BY <2>3, <2>5 DEF q
    <2>8. \A k \in 1..Len(agenda') : agenda'[k].op = "flush" =>
               Drained(held', agenda'[k].at) /\ agenda'[1].at >= agenda'[k].at
      BY <2>6, <2>7
    <2>9. Len(agenda') # 1
      <3>1. Len(more) = 1 \/ Len(more) = 2
        OBVIOUS
      <3>2. 1 + 1 # 1 /\ 2 + 1 # 1
        OBVIOUS
      <3> QED
        BY <1>4, <3>1, <3>2, Zenon
    <2> QED
      BY <1>1, <1>7, <2>8, <2>9 DEF Flushed
  <1> QED
    BY <1>2, <1>5, <1>6, <1>7

-----------------------------------------------------------------------------
(* The steps of the stages.                                                 *)

\* What only moves items among the stages leaves alone.
Aside == UNCHANGED <<chain, sinks, failures>> /\ tally'.items_in = tally.items_in

LEMMA Regrouped ==
  ASSUME Placed, Aside, Lone', Flushed', Pieces',
         Line(AtTheSink, Groups', ToSet(Cur'), Pos'),
         Cover(AtTheSink, Groups', ToSet(Cur'), GivenUp, tally.items_in)
  PROVE  Placed'
  <1>1. AtTheSink' = AtTheSink /\ GivenUp' = GivenUp /\ Items(failures)' = Items(failures)
    BY DEF Aside, AtTheSink, GivenUp
  <1> QED
    BY <1>1 DEF Placed, Aside

LEMMA CurIs ==
  ASSUME agenda # <<>>
  PROVE  Cur = Top.item /\ Pos = Top.at
  BY DEF Cur, Pos

\* One item's task may follow.
LEMMA OneItem ==
  ASSUME NEW M, NEW t \in Tasks(M), t.op \in ItemOps
  PROVE  /\ <<t>> \in Seq(Tasks(M)) /\ Alone(<<t>>) /\ Len(<<t>>) = 1 /\ <<t>>[1] = t
         /\ <<t>> # <<>>
  BY DEF Alone

LEMMA NoMore ==
  /\ <<>> \in Seq(Tasks({0})) /\ Alone(<<>>) /\ Len(<<>>) = 0
  BY DEF Alone

\* try_map, try_map_ref and try_map_retry pass the item on or try it again.
LEMMA ItemPasses ==
  ASSUME Typing, Placed, agenda # <<>>, Top.op \in ItemOps, Aside, held' = held,
         NEW M, NEW t \in Tasks(M), Turns(<<t>>), t.op \in ItemOps, t.item = Top.item,
         Top.at \in 1..Len(chain),
         t.at = Top.at \/ (t.at = Top.at + 1 /\ held[Top.at] = <<>>)
  PROVE  Placed'
  <1>1. phase # "built"
    BY AtItem
  <1>2. /\ <<t>> \in Seq(Tasks(M)) /\ Alone(<<t>>) /\ Len(<<t>>) = 1 /\ <<t>>[1] = t /\ <<t>> # <<>>
    BY OneItem
  <1> DEFINE more == <<t>>
  <1> HIDE DEF more
  <1>3. /\ more \in Seq(Tasks(M)) /\ Alone(more) /\ Len(more) \in {0, 1} /\ more[1] = t
        /\ more # <<>> /\ Turns(more)
    BY <1>2 DEF more
  <1>4. Lone' /\ Cur' = t.item /\ Pos' = t.at
    BY <1>3, HeadGoes DEF Placed
  <1>5. Flushed'
    <2>1. Top.at \in Nat
      OBVIOUS
    <2>2. more[1].at >= Top.at
      BY <1>3, <2>1
    <2> QED
      BY <1>3, <2>2, FlushedItem DEF Aside
  <1>6. Cur' = Cur
    BY <1>4, CurIs
  <1>7. Pieces'
    BY <1>6 DEF Placed, Pieces, Aside
  <1>8. Groups' = Groups
    BY GroupsStay DEF Aside
  <1>9. Line(AtTheSink, Groups', ToSet(Cur'), Pos')
    <2>1. Line(AtTheSink, Groups, ToSet(Cur), Pos) /\ Pos = Top.at
      BY CurIs DEF Placed
    <2>2. CASE t.at = Top.at
      BY <1>4, <1>6, <1>8, <2>1, <2>2
    <2>3. CASE t.at = Top.at + 1 /\ held[Top.at] = <<>>
      <3>1. Groups[Pos] = {}
        BY <1>1, <2>1, <2>3, PlacesTyped, ToSetEmpty
      <3>2. Line(AtTheSink, Groups, ToSet(Cur), Pos + 1)
        BY <1>1, <2>1, <3>1, PlacesTyped, LinePasses
      <3> QED
        BY <1>4, <1>6, <1>8, <2>1, <2>3, <3>2
    <2> QED
      BY <2>2, <2>3
  <1>10. Cover(AtTheSink, Groups', ToSet(Cur'), GivenUp, tally.items_in)
    BY <1>6, <1>8 DEF Placed
  <1> QED
    BY <1>4, <1>5, <1>7, <1>9, <1>10, Regrouped

\* What a group does with what it holds, x, and what comes, y.
LEMMA GroupParts ==
  ASSUME Typing, Placed, agenda # <<>>, Top.at \in 1..Len(chain), phase # "built"
  PROVE  LET x == held[Top.at]
             y == Top.item
         IN  /\ x \in Seq(Nat) /\ y \in Seq(Nat)
             /\ Rising(x) /\ Rising(y) /\ Rising(x \o y)
             /\ ToSet(x \o y) = ToSet(x) \cup ToSet(y)
             /\ Groups[Top.at] = ToSet(x) /\ ToSet(Cur) = ToSet(y) /\ Pos = Top.at
  <1> DEFINE x == held[Top.at]
             y == Top.item
  <1>1. x \in Seq(Nat) /\ y \in Seq(Nat) /\ Groups[Top.at] = ToSet(x) /\ y = Cur /\ Pos = Top.at
    BY PlacesTyped, CurIs
  <1>2. Rising(x) /\ Rising(y)
    BY <1>1 DEF Placed, Pieces
  <1>3. Less(ToSet(x), ToSet(y))
    <2>1. Line(AtTheSink, Groups, ToSet(y), Top.at)
      BY <1>1 DEF Placed
    <2>2. Top.at \in DOMAIN Groups /\ ~(Top.at < Top.at)
      BY DEF Groups
    <2> QED
      BY <1>1, <2>1, <2>2 DEF Line
  <1> HIDE DEF x, y
  <1>4. Rising(x \o y) /\ ToSet(x \o y) = ToSet(x) \cup ToSet(y)
    BY <1>1, <1>2, <1>3, RisingJoins, ToSetJoins
  <1> QED
    BY <1>1, <1>2, <1>4 DEF x, y

LEMMA OnePass ==
  ASSUME Typed, NEW at \in 1..AtSink, NEW item \in Seq(Pulled)
  PROVE  LET t == Process(at, item) IN
         /\ Passes(1, at, item) = <<t>>
         /\ t \in Tasks({0}) /\ t.op = "process" /\ t.item = item /\ t.at = at
  <1> DEFINE t == Process(at, item)
  <1>1. t = [op |-> "process", at |-> at, item |-> item, attempt |-> 1, left |-> 0]
    BY TaskIs
  <1>2. Len(chain) \in Nat
    BY DEF Typed, Built
  <1>3. t \in Tasks({0}) /\ t.op = "process" /\ t.item = item /\ t.at = at
    BY <1>1, <1>2 DEF Tasks, ItemOps, AtSink
  <1> HIDE DEF t
  <1>4. [k \in 1..1 |-> t] = <<t>>
    OBVIOUS
  <1> QED
    BY <1>3, <1>4 DEF t, Passes

\* Stage `Top.at` comes to hold y, and the rest is under way.
LEMMA Regroups ==
  ASSUME Typing, Placed, agenda # <<>>, phase # "built", Aside,
         Top.at \in 1..Len(chain), chain[Top.at].kind = "group",
         NEW y, held' = [held EXCEPT ![Top.at] = y], Rising(y), Rising(Cur'), Lone', Flushed',
         Line(AtTheSink, [Groups EXCEPT ![Top.at] = ToSet(y)], ToSet(Cur'), Pos'),
         ToSet(Cur') \cup ToSet(y) = Groups[Top.at] \cup ToSet(Cur)
  PROVE  Placed'
  <1>1. chain' = chain
    BY DEF Aside
  <1>2. /\ Groups' = [Groups EXCEPT ![Top.at] = ToSet(y)]
        /\ held'[Top.at] = y /\ \A b \in 1..Len(chain) : b # Top.at => held'[b] = held[b]
    BY <1>1, GroupChanges
  <1>3. Pieces'
    <2>1. \A b \in 1..Len(chain) : Rising(held[b]) /\ (chain[b].kind # "group" => held[b] = <<>>)
      BY DEF Placed, Pieces
    <2>2. \A b \in 1..Len(chain) : Rising(held'[b]) /\ (chain[b].kind # "group" => held'[b] = <<>>)
      BY <1>2, <2>1
    <2> QED
      BY <1>1, <2>2 DEF Pieces
  <1>4. Cover(AtTheSink, [Groups EXCEPT ![Top.at] = ToSet(y)], ToSet(Cur'), GivenUp, tally.items_in)
    <2>1. /\ Cover(AtTheSink, Groups, ToSet(Cur), GivenUp, tally.items_in)
          /\ Len(chain) \in Nat /\ tally.items_in \in Nat
          /\ Groups \in [1..Len(chain) -> SUBSET Nat]
      BY PlacesTyped DEF Placed
    <2> DEFINE n == Len(chain)
               p == Top.at
               m == tally.items_in
    <2>2. n \in Nat /\ m \in Nat /\ p \in 1..n /\ Groups \in [1..n -> SUBSET Nat]
      BY <2>1
    <2> HIDE DEF n, p, m
    <2>3. Cover(AtTheSink, [Groups EXCEPT ![p] = ToSet(y)], ToSet(Cur'), GivenUp, m)
      BY <2>1, <2>2, CoverMoves DEF m, p
    <2> QED
      BY <2>3 DEF m, p
  <1> QED
    BY <1>2, <1>3, <1>4, Regrouped

\* A batch or a window takes an item in, ends with it, or ends before it.
LEMMA GroupTakes ==
  ASSUME Typing, Placed, Aside, GroupItem
  PROVE  Placed'
  <1>1. /\ agenda # <<>> /\ phase # "built" /\ Top.op = "process"
        /\ Top.at \in 1..Len(chain) /\ Top.at + 1 \in 1..AtSink /\ Top.item \in Seq(Pulled)
        /\ held[Top.at] \in Seq(Pulled)
    BY AtStage DEF GroupItem, Typing
  <1>2. chain[Top.at].kind = "group" /\ Top.op \in ItemOps
    BY <1>1 DEF GroupItem, StageIs, ItemOps
  <1> DEFINE x == held[Top.at]
             y == Top.item
             at == Top.at
  <1>3. /\ x \in Seq(Nat) /\ y \in Seq(Nat)
        /\ Rising(x) /\ Rising(y) /\ Rising(x \o y)
        /\ ToSet(x \o y) = ToSet(x) \cup ToSet(y)
        /\ Groups[at] = ToSet(x) /\ ToSet(Cur) = ToSet(y) /\ Pos = at
    BY <1>1, GroupParts
  <1>4. x \in Seq(Pulled) /\ y \in Seq(Pulled) /\ x \o y \in Seq(Pulled)
    BY <1>1, ConcatProperties
  <1>5. /\ Len(chain) \in Nat /\ held \in [1..Len(chain) -> Seq(Nat)]
        /\ Groups \in [1..Len(chain) -> SUBSET Nat] /\ ToSet(Cur) \in SUBSET Nat
        /\ AtTheSink \in SUBSET Nat /\ Line(AtTheSink, Groups, ToSet(Cur), at)
    BY <1>1, <1>3, PlacesTyped DEF Placed
  <1>6. ToSet(<<>>) = {} /\ Rising(<<>>)
    BY ToSetEmpty
  <1>7. PICK kept, more, emitted :
          /\ held' = [held EXCEPT ![at] = kept] /\ Turns(more)
          /\ \/ kept = x \o y /\ more = <<>> /\ emitted = <<>>
             \/ kept = <<>> /\ emitted = x \o y /\ more = Passes(1, at + 1, emitted)
             \/ kept = y /\ emitted = x /\ more = Passes(1, at + 1, emitted)
    BY DEF GroupItem, Goes, Turns
  <1>8. Rising(kept) /\ Rising(emitted) /\ ToSet(emitted) \cup ToSet(kept) = Groups[at] \cup ToSet(Cur)
    BY <1>3, <1>6, <1>7
  <1>9. \/ kept = x \o y /\ more = <<>> /\ emitted = <<>>
        \/ /\ (kept = <<>> /\ emitted = x \o y) \/ (kept = y /\ emitted = x)
           /\ more = <<Process(at + 1, emitted)>> /\ more # <<>>
           /\ Process(at + 1, emitted) \in Tasks({0}) /\ Process(at + 1, emitted).op = "process"
           /\ Process(at + 1, emitted).item = emitted /\ Process(at + 1, emitted).at = at + 1
    <2>1. CASE kept = x \o y /\ more = <<>> /\ emitted = <<>>
      BY <2>1
    <2>2. CASE /\ (kept = <<>> /\ emitted = x \o y) \/ (kept = y /\ emitted = x)
               /\ more = Passes(1, at + 1, emitted)
      <3>1. emitted \in Seq(Pulled) /\ \A t : <<t>> # <<>>
        BY <1>4, <2>2
      <3>2. Typed
        BY DEF Typing
      <3> DEFINE t == Process(at + 1, emitted)
      <3>3. /\ Passes(1, at + 1, emitted) = <<t>> /\ t \in Tasks({0})
            /\ t.op = "process" /\ t.item = emitted /\ t.at = at + 1
        BY <1>1, <3>1, <3>2, OnePass
      <3> HIDE DEF t
      <3>4. more = <<t>> /\ more # <<>>
        BY <2>2, <3>1, <3>3
      <3> QED
        BY <2>2, <3>3, <3>4 DEF t
    <2> QED
      BY <1>7, <2>1, <2>2
  <1>10. /\ more \in Seq(Tasks({0})) /\ Alone(more) /\ Len(more) \in {0, 1}
         /\ more # <<>> => more[1].op \in ItemOps /\ more[1].at = at + 1 /\ more[1].item = emitted
         /\ more = <<>> => emitted = <<>>
    <2>1. CASE more = <<>> /\ emitted = <<>>
      BY <2>1, NoMore
    <2>2. CASE more = <<Process(at + 1, emitted)>> /\ more # <<>>
      <3> DEFINE t == Process(at + 1, emitted)
      <3>1. t \in Tasks({0}) /\ t.op \in ItemOps /\ t.item = emitted /\ t.at = at + 1 /\ more = <<t>>
        BY <1>9, <2>2 DEF ItemOps
      <3> HIDE DEF t
      <3>2. <<t>> \in Seq(Tasks({0})) /\ Alone(<<t>>) /\ Len(<<t>>) = 1 /\ <<t>>[1] = t
        BY <3>1, OneItem
      <3> QED
        BY <2>2, <3>1, <3>2
    <2> QED
      BY <1>9, <2>1, <2>2
  <1>11. Lone' /\ Cur' = emitted /\ (more # <<>> => Pos' = at + 1)
    BY <1>1, <1>7, <1>10, HeadGoes DEF Placed
  <1>12. Flushed'
    <2>1. chain' = chain /\ DOMAIN held' = DOMAIN held
          /\ \A b \in 1..Len(chain) : b # Top.at => held'[b] = held[b]
      BY <1>1, <1>5, <1>7 DEF Aside
    <2>2. more # <<>> => more[1].op \in ItemOps /\ more[1].at >= Top.at
      BY <1>1, <1>10
    <2> QED
      BY <1>1, <1>2, <1>7, <1>10, <2>1, <2>2, FlushedItem
  <1>13. Line(AtTheSink, [Groups EXCEPT ![at] = ToSet(kept)], ToSet(Cur'), Pos')
    <2> DEFINE n == Len(chain)
               X == Groups[at]
               Y == ToSet(Cur)
               G == [Groups EXCEPT ![at] = ToSet(kept)]
    <2>1. n \in Nat /\ at \in 1..n /\ Groups \in [1..n -> SUBSET Nat] /\ Y \in SUBSET Nat
          /\ AtTheSink \in SUBSET Nat /\ Line(AtTheSink, Groups, Y, at)
          /\ X = ToSet(x) /\ Y = ToSet(y)
      BY <1>1, <1>3, <1>5
    <2>2. CASE kept = x \o y /\ more = <<>> /\ emitted = <<>>
      <3>1. ToSet(kept) = X \cup Y /\ ToSet(Cur') = {}
        BY <1>3, <1>6, <1>11, <2>1, <2>2
      <3>2. Line(AtTheSink, [Groups EXCEPT ![at] = X \cup Y], {}, Pos')
        <4> HIDE DEF n, Y, at
        <4> QED BY <2>1, LineJoins
      <3> QED
        BY <3>1, <3>2
    <2>3. CASE kept = <<>> /\ emitted = x \o y /\ more # <<>>
      <3>1. ToSet(kept) = {} /\ ToSet(Cur') = X \cup Y /\ Pos' = at + 1
        BY <1>3, <1>6, <1>11, <2>1, <2>3
      <3>2. Line(AtTheSink, [Groups EXCEPT ![at] = {}], X \cup Y, at + 1)
        <4> HIDE DEF n, Y, at
        <4> QED BY <2>1, LineEmitsAll
      <3> QED
        BY <3>1, <3>2
    <2>4. CASE kept = y /\ emitted = x /\ more # <<>>
      <3>1. ToSet(kept) = Y /\ ToSet(Cur') = X /\ Pos' = at + 1 /\ X = X \cup {}
        BY <1>3, <1>11, <2>1, <2>4
      <3>2. Line(AtTheSink, [Groups EXCEPT ![at] = Y], X \cup {}, at + 1)
        <4> HIDE DEF n, Y, at
        <4> QED BY <2>1, LineEmits
      <3> QED
        BY <3>1, <3>2
    <2>5. \/ kept = x \o y /\ more = <<>> /\ emitted = <<>>
          \/ kept = <<>> /\ emitted = x \o y /\ more # <<>>
          \/ kept = y /\ emitted = x /\ more # <<>>
      BY <1>9
    <2> QED
      BY <2>2, <2>3, <2>4, <2>5
  <1> QED
    BY <1>1, <1>2, <1>7, <1>8, <1>11, <1>12, <1>13, Regroups

\* A signal at a stage.
LEMMA AtSignalStage ==
  ASSUME Typing, Placed, agenda # <<>>, Top.op \in {"tick", "flush", "close", "abort"},
         Top.at \in 1..Len(chain)
  PROVE  /\ phase # "built" /\ Cur = <<>> /\ ToSet(Cur) = {} /\ Pos = Top.at
         /\ Task(Top.op, Top.at + 1) \in Tasks({0}) /\ Task(Top.op, Top.at + 1).op = Top.op
         /\ Task(Top.op, Top.at + 1).item = <<>> /\ Task(Top.op, Top.at + 1).at = Top.at + 1
         /\ Top.at + 1 \in 1..AtSink /\ Top.op \notin ItemOps
  <1>1. phase # "built"
    BY SignalPhase
  <1>2. Top.op \notin ItemOps
    BY DEF ItemOps
  <1>3. Cur = <<>> /\ Pos = Top.at
    BY <1>2, CurIs, Depth DEF Placed
  <1>4. ToSet(Cur) = {}
    BY <1>3, ToSetEmpty
  <1>5. /\ Task(Top.op, Top.at + 1) \in Tasks({0}) /\ Task(Top.op, Top.at + 1).op = Top.op
        /\ Top.at + 1 \in 1..AtSink
    BY TaskTyped DEF Typing
  <1>6. Task(Top.op, Top.at + 1).item = <<>> /\ Task(Top.op, Top.at + 1).at = Top.at + 1
    BY DEF Task
  <1> QED
    BY <1>1, <1>2, <1>3, <1>4, <1>5, <1>6

\* A stage passes a signal on and keeps what it holds.
LEMMA SignalPasses ==
  ASSUME Typing, Placed, agenda # <<>>, Top.op \in {"tick", "flush", "close", "abort"},
         Top.at \in 1..Len(chain), first_error = NoFailure, phase # "abort", Aside, held' = held,
         Turns(<<Task(Top.op, Top.at + 1)>>), Top.op = "flush" => held[Top.at] = <<>>
  PROVE  Placed'
  <1>1. /\ phase # "built" /\ Cur = <<>> /\ ToSet(Cur) = {} /\ Pos = Top.at
        /\ Top.op \notin ItemOps
    BY AtSignalStage
  <1> DEFINE sig == Task(Top.op, Top.at + 1)
             more == <<sig>>
  <1>2. sig \in Tasks({0}) /\ sig.op = Top.op /\ sig.item = <<>> /\ sig.at = Top.at + 1
    BY AtSignalStage
  <1> HIDE DEF sig
  <1>3. more \in Seq(Tasks({0})) /\ Len(more) = 1 /\ more[1] = sig /\ more # <<>> /\ Turns(more)
    BY <1>2 DEF sig
  <1> HIDE DEF more
  <1>4. Alone(more)
    BY <1>2, <1>3 DEF Alone
  <1>5. Lone' /\ Cur' = <<>>
    BY <1>2, <1>3, <1>4, HeadGoes DEF Placed
  <1>6. Flushed'
    <2>1. chain' = chain /\ DOMAIN held' = DOMAIN held /\ DOMAIN held = 1..Len(chain)
      BY <1>1, PlacesTyped DEF Aside
    <2>2. Top.op = "flush" =>
            \A b \in 1..Len(chain) : held'[b] = IF b = Top.at THEN <<>> ELSE held[b]
      OBVIOUS
    <2>3. Len(more) \in {1, 2} /\ \A k \in 1..Len(more) : more[k].at = Top.at + 1
      BY <1>2, <1>3
    <2> QED
      BY <1>3, <1>4, <2>1, <2>2, <2>3, FlushedSignal
  <1>7. Pieces'
    BY <1>1, <1>5 DEF Placed, Pieces, Aside
  <1>8. Groups' = Groups /\ ToSet(Cur') = {}
    BY <1>1, <1>5, GroupsStay DEF Aside
  <1>9. Line(AtTheSink, Groups', ToSet(Cur'), Pos')
    <2>1. Line(AtTheSink, Groups, {}, Top.at)
      BY <1>1 DEF Placed
    <2>2. Len(chain) \in Nat /\ Groups \in [1..Len(chain) -> SUBSET Nat]
      BY <1>1, PlacesTyped
    <2> QED
      BY <1>8, <2>1, <2>2, LineAnywhere
  <1>10. Cover(AtTheSink, Groups', ToSet(Cur'), GivenUp, tally.items_in)
    BY <1>1, <1>8 DEF Placed
  <1> QED
    BY <1>5, <1>6, <1>7, <1>9, <1>10, Regrouped

\* A group emits what it holds, ahead of the signal.
LEMMA SignalEmits ==
  ASSUME Typing, Placed, agenda # <<>>, Top.op \in {"tick", "flush"},
         Top.at \in 1..Len(chain), chain[Top.at].kind = "group",
         first_error = NoFailure, phase # "abort", Aside,
         held' = [held EXCEPT ![Top.at] = <<>>],
         Turns(Append(Passes(1, Top.at + 1, held[Top.at]), Task(Top.op, Top.at + 1)))
  PROVE  Placed'
  <1>1. /\ phase # "built" /\ Cur = <<>> /\ ToSet(Cur) = {} /\ Pos = Top.at
        /\ Top.op \notin ItemOps /\ Top.at + 1 \in 1..AtSink
    BY AtSignalStage
  <1> DEFINE sig == Task(Top.op, Top.at + 1)
             tok == Process(Top.at + 1, held[Top.at])
             more == Append(<<tok>>, sig)
  <1>2. sig \in Tasks({0}) /\ sig.op = Top.op /\ sig.item = <<>> /\ sig.at = Top.at + 1
    BY AtSignalStage
  <1>3. /\ tok \in Tasks({0}) /\ tok.op = "process" /\ tok.item = held[Top.at] /\ tok.at = Top.at + 1
        /\ Passes(1, Top.at + 1, held[Top.at]) = <<tok>>
    <2>1. Typed /\ held[Top.at] \in Seq(Pulled)
      BY <1>1 DEF Typing, Typed, Held
    <2> QED
      BY <1>1, <2>1, OnePass
  <1>4. Turns(more)
    BY <1>3
  <1> HIDE DEF sig, tok
  <1>5. more \in Seq(Tasks({0})) /\ Len(more) = 2 /\ more[1] = tok /\ more[2] = sig /\ more # <<>>
    <2> DEFINE one == <<tok>>
    <2>1. one \in Seq(Tasks({0})) /\ Len(one) = 1 /\ one[1] = tok
      BY <1>3
    <2> HIDE DEF one
    <2>2. /\ Append(one, sig) \in Seq(Tasks({0})) /\ Len(Append(one, sig)) = 2
          /\ Append(one, sig)[1] = tok /\ Append(one, sig)[2] = sig /\ Append(one, sig) # <<>>
      <3> DEFINE new == Append(one, sig)
      <3>1. /\ new \in Seq(Tasks({0})) /\ new # <<>> /\ Len(new) = Len(one) + 1
            /\ \A i \in 1..Len(one) : new[i] = one[i]
            /\ new[Len(one) + 1] = sig
        <4> DEFINE T == Tasks({0})
        <4>1. one \in Seq(T) /\ sig \in T
          BY <1>2, <2>1
        <4> HIDE DEF T
        <4>2. /\ new \in Seq(T) /\ new # <<>> /\ Len(new) = Len(one) + 1
              /\ \A i \in 1..Len(one) : new[i] = one[i]
              /\ new[Len(one) + 1] = sig
          BY <4>1, AppendProperties
        <4> QED
          BY <4>2 DEF T
      <3> HIDE DEF new
      <3>2. Len(new) = 2 /\ new[1] = tok /\ new[2] = sig
        BY <2>1, <3>1
      <3> QED
        BY <3>1, <3>2 DEF new
    <2> QED
      BY <2>2 DEF one
  <1> HIDE DEF more
  <1>6. Alone(more)
    <2>1. \A k \in 1..2 : k = 1 \/ k = 2
      OBVIOUS
    <2> QED
      BY <1>1, <1>2, <1>3, <1>5, <2>1 DEF Alone, ItemOps
  <1>7. Lone' /\ Cur' = held[Top.at] /\ Pos' = Top.at + 1
    BY <1>3, <1>4, <1>5, <1>6, HeadGoes DEF Placed
  <1>8. Flushed'
    <2>1. chain' = chain /\ DOMAIN held' = DOMAIN held /\ DOMAIN held = 1..Len(chain)
      BY <1>1, PlacesTyped DEF Aside
    <2>2. Top.op = "flush" =>
            \A b \in 1..Len(chain) : held'[b] = IF b = Top.at THEN <<>> ELSE held[b]
      BY <2>1
    <2>3. Len(more) \in {1, 2} /\ \A k \in 1..Len(more) : more[k].at = Top.at + 1
      <3>1. \A k \in 1..2 : k = 1 \/ k = 2
        OBVIOUS
      <3> QED
        BY <1>2, <1>3, <1>5, <3>1
    <2> QED
      BY <1>4, <1>5, <1>6, <2>1, <2>2, <2>3, FlushedSignal
  <1>9. Rising(Cur') /\ Rising(<<>>) /\ ToSet(<<>>) = {}
    BY <1>7, ToSetEmpty DEF Placed, Pieces
  <1>10. /\ Groups[Top.at] = ToSet(held[Top.at]) /\ Len(chain) \in Nat
         /\ Groups \in [1..Len(chain) -> SUBSET Nat] /\ AtTheSink \in SUBSET Nat
    BY <1>1, PlacesTyped
  <1>11. Line(AtTheSink, [Groups EXCEPT ![Top.at] = ToSet(<<>>)], ToSet(Cur'), Pos')
    <2> DEFINE n == Len(chain)
               p == Top.at
               C == ToSet(Cur)
    <2>1. n \in Nat /\ p \in 1..n /\ C \in SUBSET Nat /\ Groups \in [1..n -> SUBSET Nat]
          /\ Line(AtTheSink, Groups, C, p) /\ C = {}
      BY <1>1, <1>10 DEF Placed
    <2>2. ToSet(Cur') = Groups[p] \cup C /\ Pos' = p + 1
      BY <1>7, <1>10, <2>1
    <2> HIDE DEF n, p, C
    <2>3. Line(AtTheSink, [Groups EXCEPT ![p] = {}], Groups[p] \cup C, p + 1)
      BY <1>10, <2>1, LineEmitsAll
    <2> QED
      BY <1>9, <2>2, <2>3 DEF p
  <1>12. ToSet(Cur') \cup ToSet(<<>>) = Groups[Top.at] \cup ToSet(Cur)
    BY <1>1, <1>7, <1>9, <1>10
  <1> QED
    BY <1>1, <1>7, <1>8, <1>9, <1>11, <1>12, Regroups

-----------------------------------------------------------------------------
(* An item leaves: a stage gives it up, or the sink takes it.               *)

LEMMA ItemGone ==
  ASSUME Typing, Placed, agenda # <<>>, Top.op \in ItemOps, chain' = chain, held' = held,
         Turns(<<>>)
  PROVE  /\ Lone' /\ Flushed' /\ Pieces' /\ Cur' = <<>> /\ ToSet(Cur') = {} /\ Groups' = Groups
         /\ phase # "built" /\ Cur = Top.item /\ Pos = Top.at
         /\ tally.items_in \in Nat
  <1>1. phase # "built"
    BY AtItem
  <1> DEFINE more == <<>>
  <1>2. /\ more \in Seq(Tasks({0})) /\ Alone(more) /\ Len(more) \in {0, 1} /\ Turns(more)
        /\ more = <<>>
    BY NoMore
  <1> HIDE DEF more
  <1>3. Lone' /\ Cur' = <<>>
    BY <1>2, HeadGoes DEF Placed
  <1>4. Flushed'
    <2>1. more # <<>> => more[1].op \in ItemOps /\ more[1].at >= Top.at
      BY <1>2
    <2> QED
      BY <1>2, <2>1, FlushedItem
  <1>5. ToSet(<<>>) = {} /\ Rising(<<>>)
    BY ToSetEmpty
  <1>6. Pieces'
    BY <1>3, <1>5 DEF Placed, Pieces
  <1>7. Groups' = Groups
    BY GroupsStay
  <1> QED
    BY <1>1, <1>3, <1>4, <1>5, <1>6, <1>7, CurIs, PlacesTyped

LEMMA GiveUp ==
  ASSUME Typing, Placed, agenda # <<>>, Top.op \in ItemOps, first_error = NoFailure,
         chain' = chain, held' = held, sinks' = sinks, NEW attempts,
         Fails(Top.at, Top.item, attempts), NEW S, failures \in Seq(S), first_error' = NoFailure
  PROVE  Placed'
  <1>1. Turns(<<>>)
    <2>1. Goes(<<>>) \/ Halt(Error("sink", "dead_letter")) \/ \E id : Halt(Error("stage", id))
      BY DEF Fails, Route
    <2>2. \A from, id : from # None /\ Halt(Error(from, id)) => first_error' # NoFailure
      BY DEF Halt, Offer, Error, NoFailure
    <2>3. "sink" # None /\ "stage" # None
      BY DEF None
    <2>4. Goes(<<>>)
      BY <2>1, <2>2, <2>3
    <2> QED
      BY <2>4 DEF Goes, Turns
  <1>2. tally'.items_in = tally.items_in
    BY DEF Fails, Route, Typing, FlowInv, Counted, Tally
  <1>3. /\ Lone' /\ Flushed' /\ Pieces' /\ Cur' = <<>> /\ ToSet(Cur') = {} /\ Groups' = Groups
        /\ phase # "built" /\ Cur = Top.item /\ Pos = Top.at
    BY <1>1, ItemGone
  <1> DEFINE r == [at |-> Top.at, item |-> Top.item, attempts |-> attempts]
             n == Len(failures)
             old == Items(failures)
             new == Items(failures')
  <1>4. failures' = Append(failures, r) /\ r.item = Cur
    BY <1>3 DEF Fails
  <1> HIDE DEF r
  <1>5. n \in Nat /\ Longer(new, old, n, Cur)
    BY <1>4, ItemAdded
  <1>6. AtTheSink' = AtTheSink /\ GivenUp = Values(old) /\ GivenUp' = Values(new)
        /\ Items(failures)' = new
    BY DEF AtTheSink, GivenUp
  <1> HIDE DEF n, old, new
  <1>7. GivenUp' = GivenUp \cup ToSet(Cur)
    BY <1>5, <1>6, LongerValues
  <1>8. /\ Line(AtTheSink, Groups, ToSet(Cur), Pos) /\ Rising(Cur)
        /\ Cover(AtTheSink, Groups, ToSet(Cur), GivenUp, tally.items_in)
        /\ AllRise(old) /\ Apart(old)
    BY DEF Placed, Pieces, old
  <1>9. /\ Len(chain) \in Nat /\ Groups \in [1..Len(chain) -> SUBSET Nat] /\ ToSet(Cur) \in SUBSET Nat
    BY <1>3, PlacesTyped
  <1>10. AllRise(new)
    BY <1>5, <1>8, LongerRises
  <1>11. Apart(new)
    <2>1. Values(old) \cap ToSet(Cur) = {}
      BY <1>6, <1>8 DEF Cover
    <2> QED
      BY <1>5, <1>8, <2>1, LongerApart
  <1>12. Line(AtTheSink, Groups, {}, Pos')
    BY <1>8, <1>9, LineAnywhere
  <1>13. Cover(AtTheSink, Groups, {}, GivenUp \cup ToSet(Cur), tally.items_in)
    BY <1>8, <1>9, CoverLeaves
  <1> QED
    BY <1>2, <1>3, <1>6, <1>7, <1>10, <1>11, <1>12, <1>13 DEF Placed

\* The sink's second half took the item, which follows all it took before.
LEMMA SinkTakes ==
  ASSUME Typing, Placed, agenda # <<>>, Top.op \in ItemOps, Top.at = AtSink,
         chain' = chain, held' = held, failures' = failures, tally' = tally,
         NEW S, sinks[2] \in Seq(S), sinks'[2] = Append(sinks[2], Entry("write", Top.item)),
         Turns(<<>>), AllRise(Items(sinks[2])), InOrder(Items(sinks[2]))
  PROVE  Placed' /\ AllRise(Items(sinks'[2])) /\ InOrder(Items(sinks'[2]))
  <1>1. /\ Lone' /\ Flushed' /\ Pieces' /\ Cur' = <<>> /\ ToSet(Cur') = {} /\ Groups' = Groups
        /\ phase # "built" /\ Cur = Top.item /\ Pos = Top.at
    BY ItemGone
  <1> DEFINE n == Len(sinks[2])
             old == Items(sinks[2])
             new == Items(sinks'[2])
             r == Entry("write", Top.item)
  <1>2. r.item = Cur
    BY <1>1 DEF Entry
  <1> HIDE DEF r
  <1>3. n \in Nat /\ Longer(new, old, n, Cur)
    BY <1>2, ItemAdded DEF r
  <1>4. GivenUp' = GivenUp /\ AtTheSink = Values(old) /\ AtTheSink' = Values(new)
        /\ Items(failures)' = Items(failures) /\ AllRise(old) /\ InOrder(old)
    BY DEF AtTheSink, GivenUp
  <1> HIDE DEF n, old, new
  <1>5. AtTheSink' = AtTheSink \cup ToSet(Cur)
    BY <1>3, <1>4, LongerValues
  <1>6. /\ Len(chain) \in Nat /\ Groups \in [1..Len(chain) -> SUBSET Nat] /\ ToSet(Cur) \in SUBSET Nat
        /\ AtTheSink \in SUBSET Nat /\ Pos = Len(chain) + 1
    BY <1>1, PlacesTyped
  <1>7. /\ Line(AtTheSink, Groups, ToSet(Cur), Len(chain) + 1) /\ Rising(Cur)
        /\ Cover(AtTheSink, Groups, ToSet(Cur), GivenUp, tally.items_in)
        /\ AllRise(Items(failures)) /\ Apart(Items(failures))
    BY <1>6 DEF Placed, Pieces
  <1>8. AllRise(new)
    BY <1>3, <1>4, <1>7, LongerRises
  <1>9. InOrder(new)
    <2>1. Less(Values(old), ToSet(Cur))
      BY <1>4, <1>7 DEF Line
    <2> QED
      BY <1>3, <1>4, <2>1, LongerInOrder
  <1>10. Line(AtTheSink \cup ToSet(Cur), Groups, {}, Pos')
    BY <1>6, <1>7, LineArrives
  <1>11. Cover(AtTheSink \cup ToSet(Cur), Groups, {}, GivenUp, tally.items_in)
    BY <1>6, <1>7, CoverLeaves
  <1>12. Placed'
    BY <1>1, <1>4, <1>5, <1>7, <1>10, <1>11 DEF Placed
  <1> QED
    BY <1>8, <1>9, <1>12 DEF new

-----------------------------------------------------------------------------
(* Each step of a stage is one of these.                                    *)

\* The task `u` is at the same stage with the same item.
Again(u, t) == u.op \in ItemOps /\ u.item = t.item /\ u.at = t.at

LEMMA Varies ==
  ASSUME NEW L, NEW t \in Tasks(L), t.op \in ItemOps, NEW left
  PROVE  /\ LET u == [t EXCEPT !.op = "backoff", !.left = left]
            IN  u \in Tasks(L \cup {left}) /\ Again(u, t)
         /\ LET u == [t EXCEPT !.left = left]
            IN  u \in Tasks(L \cup {left}) /\ Again(u, t)
         /\ LET u == [t EXCEPT !.op = "process", !.attempt = @ + 1]
            IN  u \in Tasks(L) /\ Again(u, t)
  <1> DEFINE a == [t EXCEPT !.left = left]
             b == [a EXCEPT !.op = "backoff"]
             c == [t EXCEPT !.op = "process"]
             d == [c EXCEPT !.attempt = c.attempt + 1]
  <1>1. "backoff" \in ItemOps /\ "process" \in ItemOps
    BY DEF ItemOps
  <1>2. /\ a \in Tasks(L \cup {left}) /\ a.op = t.op /\ a.item = t.item /\ a.at = t.at
    BY DEF Tasks
  <1>3. c \in Tasks(L) /\ c.op = "process" /\ c.item = t.item /\ c.at = t.at
    BY <1>1 DEF Tasks
  <1>4. [t EXCEPT !.op = "backoff", !.left = left] = b
    BY DEF Tasks
  <1>5. [t EXCEPT !.op = "process", !.attempt = @ + 1] = d
    BY DEF Tasks
  <1> HIDE DEF a, c
  <1>6. b \in Tasks(L \cup {left}) /\ b.op = "backoff" /\ b.item = a.item /\ b.at = a.at
    BY <1>1, <1>2 DEF Tasks
  <1>7. d \in Tasks(L) /\ d.op = c.op /\ d.item = c.item /\ d.at = c.at
    <2>1. c.attempt + 1 \in Nat
      BY <1>3 DEF Tasks
    <2> QED
      BY <1>3, <2>1 DEF Tasks
  <1> HIDE DEF b, d
  <1> QED
    BY <1>1, <1>2, <1>3, <1>4, <1>5, <1>6, <1>7 DEF Again, a

\* An item at a stage is passed on, tried again or given up.
LEMMA ItemPlaced ==
  ASSUME Typing, Lettered, Placed, first_error = NoFailure, first_error' = NoFailure,
         TryItem \/ RetryItem \/ Backoff
  PROVE  Placed'
  <1>1. PICK op \in ItemOps : StageIs(op, {"try_map", "try_map_ref", "try_map_retry"})
    BY DEF TryItem, RetryItem, Backoff, StageIs, ItemOps
  <1>2. /\ agenda # <<>> /\ phase # "built" /\ Top.op \in ItemOps /\ Top.at \in 1..Len(chain)
        /\ Top.at + 1 \in 1..AtSink /\ Top.item \in Seq(Pulled)
    BY <1>1, AtStage DEF Typing
  <1>3. held[Top.at] = <<>>
    <2>1. chain[Top.at].kind # "group"
      BY <1>1 DEF StageIs
    <2> QED
      BY <1>2, <2>1 DEF Placed, Pieces
  <1>4. UNCHANGED <<chain, sinks, held>>
    BY DEF TryItem, RetryItem, Backoff, Outside, builderVars
  <1>5. PICK L : Top \in Tasks(L)
    BY <1>2, HeadTyped DEF Typing
  <1>6. ASSUME NEW attempts, Fails(Top.at, Top.item, attempts)
        PROVE  Placed'
    <2>1. PICK S : failures \in Seq(S)
      BY DEF Lettered
    <2> QED
      BY <1>2, <1>4, <1>6, <2>1, GiveUp
  <1>7. ASSUME failures' = failures, tally'.items_in = tally.items_in,
               Goes(Passes(1, Top.at + 1, Top.item))
        PROVE  Placed'
    <2> DEFINE t == Process(Top.at + 1, Top.item)
    <2>1. /\ Passes(1, Top.at + 1, Top.item) = <<t>>
          /\ t \in Tasks({0}) /\ t.op = "process" /\ t.item = Top.item /\ t.at = Top.at + 1
      BY <1>2, OnePass DEF Typing
    <2> HIDE DEF t
    <2>2. Turns(<<t>>) /\ t.op \in ItemOps /\ Aside
      BY <1>4, <1>7, <2>1 DEF Goes, Turns, ItemOps, Aside
    <2> QED
      BY <1>2, <1>3, <1>4, <2>1, <2>2, ItemPasses
  <1>8. ASSUME failures' = failures, tally'.items_in = tally.items_in,
               NEW M, NEW u \in Tasks(M), Again(u, Top), Goes(<<u>>)
        PROVE  Placed'
    <2>1. Turns(<<u>>) /\ Aside /\ u.op \in ItemOps /\ u.item = Top.item /\ u.at = Top.at
      BY <1>4, <1>8 DEF Goes, Turns, Aside, Again
    <2> QED
      BY <1>2, <1>4, <2>1, ItemPasses
  <1>9. CASE TryItem
    BY <1>6, <1>7, <1>9 DEF TryItem
  <1>10. CASE RetryItem
    <2>1. CASE Fails(Top.at, Top.item, Top.attempt)
      BY <1>6, <2>1
    <2>2. CASE Goes(Passes(1, Top.at + 1, Top.item)) /\ UNCHANGED <<tally, failures>>
      BY <1>7, <2>2
    <2>3. CASE /\ tally' = [tally EXCEPT !.retries = @ + 1] /\ failures' = failures
               /\ \E delay : Goes(<<[Top EXCEPT !.op = "backoff", !.left = delay]>>)
      <3>1. PICK delay : Goes(<<[Top EXCEPT !.op = "backoff", !.left = delay]>>)
        BY <2>3
      <3> DEFINE u == [Top EXCEPT !.op = "backoff", !.left = delay]
      <3>2. u \in Tasks(L \cup {delay}) /\ Again(u, Top)
        BY <1>2, <1>5, Varies
      <3>3. tally'.items_in = tally.items_in
        BY <2>3, TallyAdds DEF Typing, FlowInv, Counted
      <3>4. Goes(<<u>>)
        BY <3>1
      <3> HIDE DEF u
      <3> QED
        BY <1>8, <2>3, <3>2, <3>3, <3>4
    <2> QED
      BY <1>10, <2>1, <2>2, <2>3 DEF RetryItem
  <1>11. CASE Backoff
    <2>1. CASE Fails(Top.at, Top.item, Top.attempt)
      BY <1>6, <2>1
    <2>2. CASE Goes(<<[Top EXCEPT !.left = Slept(@)]>>) /\ UNCHANGED <<tally, failures>>
      <3> DEFINE left == Slept(Top.left)
                 u == [Top EXCEPT !.left = left]
      <3>1. Goes(<<u>>)
        BY <2>2
      <3> HIDE DEF left
      <3>2. u \in Tasks(L \cup {left}) /\ Again(u, Top)
        BY <1>2, <1>5, Varies
      <3> HIDE DEF u
      <3> QED
        BY <1>8, <2>2, <3>1, <3>2
    <2>3. CASE /\ Goes(<<[Top EXCEPT !.op = "process", !.attempt = @ + 1]>>)
               /\ UNCHANGED <<tally, failures>>
      <3> DEFINE u == [Top EXCEPT !.op = "process", !.attempt = @ + 1]
      <3>1. u \in Tasks(L) /\ Again(u, Top)
        BY <1>2, <1>5, Varies
      <3>2. Goes(<<u>>)
        BY <2>3
      <3> HIDE DEF u
      <3> QED
        BY <1>8, <2>3, <3>1, <3>2
    <2> QED
      BY <1>11, <2>1, <2>2, <2>3 DEF Backoff
  <1> QED
    BY <1>9, <1>10, <1>11

\* A signal at a stage is passed on, after what a group held if it emits.
LEMMA SignalPlaced ==
  ASSUME Typing, Placed, Conserving, first_error = NoFailure, phase # "abort",
         Signal \/ GroupTick \/ GroupFlush
  PROVE  Placed'
  <1>1. PICK op \in {"tick", "flush", "close", "abort"} : \E kinds : StageIs(op, kinds)
    BY DEF Signal, GroupTick, GroupFlush
  <1>2. /\ agenda # <<>> /\ phase # "built" /\ Top.op \in {"tick", "flush", "close", "abort"}
        /\ Top.at \in 1..Len(chain)
    BY <1>1, AtStage DEF Typing
  <1>3. Aside
    BY DEF Signal, GroupTick, GroupFlush, Outside, builderVars, Aside
  <1>4. ASSUME held' = held, Goes(<<Task(Top.op, Top.at + 1)>>),
               Top.op = "flush" => held[Top.at] = <<>>
        PROVE  Placed'
    <2>1. Turns(<<Task(Top.op, Top.at + 1)>>)
      BY <1>4 DEF Goes, Turns
    <2> QED
      BY <1>2, <1>3, <1>4, <2>1, SignalPasses
  <1>5. CASE Signal
    <2>1. held' = held /\ Goes(<<Task(Top.op, Top.at + 1)>>)
      BY <1>5 DEF Signal
    <2>2. Top.op = "flush" => chain[Top.at].kind # "group"
      BY <1>5 DEF Signal, StageIs
    <2>3. Top.op = "flush" => held[Top.at] = <<>>
      BY <1>2, <2>2 DEF Placed, Pieces
    <2> QED
      BY <1>4, <2>1, <2>3
  <1>6. CASE GroupTick
    <2>1. Top.op = "tick" /\ chain[Top.at].kind = "group"
      BY <1>6 DEF GroupTick, StageIs
    <2>2. CASE held' = held /\ Goes(<<Task("tick", Top.at + 1)>>)
      BY <1>4, <2>1, <2>2
    <2>3. CASE /\ held' = [held EXCEPT ![Top.at] = <<>>]
               /\ Goes(Append(Passes(1, Top.at + 1, held[Top.at]), Task("tick", Top.at + 1)))
      <3>1. Turns(Append(Passes(1, Top.at + 1, held[Top.at]), Task(Top.op, Top.at + 1)))
        BY <2>1, <2>3 DEF Goes, Turns
      <3> QED
        BY <1>2, <1>3, <2>1, <2>3, <3>1, SignalEmits
    <2> QED
      BY <1>6, <2>2, <2>3 DEF GroupTick
  <1>7. CASE GroupFlush
    <2>1. Top.op = "flush" /\ chain[Top.at].kind = "group"
          /\ held' = [held EXCEPT ![Top.at] = <<>>] /\ Goes(EmitThenFlush(Top.at))
      BY <1>7 DEF GroupFlush, StageIs
    <2>2. CASE held[Top.at] = <<>>
      <3>1. held' = held
        <4>1. held \in [1..Len(chain) -> Seq(Nat)]
          BY <1>2, PlacesTyped
        <4> QED
          BY <1>2, <2>1, <2>2, <4>1
      <3>2. EmitThenFlush(Top.at) = <<Task("flush", Top.at + 1)>>
        <4>1. EmitThenFlush(Top.at)
                = Append(Passes(0, Top.at + 1, held[Top.at]), Task("flush", Top.at + 1))
          BY <2>2 DEF EmitThenFlush
        <4>2. \A at, item : Passes(0, at, item) = <<>>
          <5>1. 1..0 = {}
            OBVIOUS
          <5> QED
            BY <5>1 DEF Passes
        <4>3. \A x : Append(<<>>, x) = <<x>>
          OBVIOUS
        <4> DEFINE x == Task("flush", Top.at + 1)
        <4> HIDE DEF x
        <4>4. EmitThenFlush(Top.at) = Append(<<>>, x)
          BY <4>1, <4>2 DEF x
        <4> QED
          BY <4>3, <4>4 DEF x
      <3> QED
        BY <1>4, <2>1, <2>2, <3>1, <3>2
    <2>3. CASE held[Top.at] # <<>>
      <3>1. Turns(Append(Passes(1, Top.at + 1, held[Top.at]), Task(Top.op, Top.at + 1)))
        BY <2>1, <2>3 DEF Goes, Turns, EmitThenFlush
      <3> QED
        BY <1>2, <1>3, <2>1, <3>1, SignalEmits
    <2> QED
      BY <2>2, <2>3
  <1> QED
    BY <1>5, <1>6, <1>7

LEMMA StagePlaced ==
  ASSUME Typing, Lettered, Placed, Conserving, first_error = NoFailure, phase # "abort",
         first_error' = NoFailure, Stages
  PROVE  Placed'
  <1>1. ~(MapItem \/ StageItem \/ StageFails \/ StageSignal)
    <2>1. ASSUME NEW op, NEW kind \in {"map", "stage"}, StageIs(op, {kind})
          PROVE  FALSE
      <3>1. DOMAIN chain = 1..Len(chain)
        BY LenProperties DEF Typing, Typed, Built
      <3> QED
        BY <2>1, <3>1 DEF StageIs, Conserving
    <2> QED
      BY <2>1 DEF MapItem, StageItem, StageFails, StageSignal
  <1>2. CASE GroupItem
    <2>1. Aside
      BY <1>2 DEF GroupItem, Aside, Outside, builderVars
    <2> QED
      BY <1>2, <2>1, GroupTakes
  <1> QED
    BY <1>1, <1>2, ItemPlaced, SignalPlaced DEF Stages

-----------------------------------------------------------------------------
(* The sink's own signals, and the steps of Runner.                         *)

\* A flush or a close is an entry without an item.
LEMMA EndAdded ==
  ASSUME NEW S, NEW log \in Seq(S), NEW call
  PROVE  LET new == Append(log, Entry(call, <<>>))
         IN  /\ Ordered(log) => Ordered(new)
             /\ Values(Items(new)) = Values(Items(log))
  <1> DEFINE r == Entry(call, <<>>)
             none == <<>>
             new == Append(log, r)
             n == Len(log)
  <1>1. r.item = none /\ ToSet(none) = {} /\ Rising(none)
    BY ToSetEmpty DEF Entry
  <1> HIDE DEF r, none
  <1>2. n \in Nat /\ Longer(Items(new), Items(log), n, none)
    BY <1>1, ItemAdded
  <1> HIDE DEF new, n
  <1>3. Values(Items(new)) = Values(Items(log))
    <2>1. Values(Items(new)) = Values(Items(log)) \cup ToSet(none)
      BY <1>2, LongerValues
    <2> QED
      BY <1>1, <2>1
  <1>4. Less(Values(Items(log)), ToSet(none))
    BY <1>1, LessJoins
  <1>5. ASSUME Ordered(log) PROVE Ordered(new)
    BY <1>1, <1>2, <1>4, <1>5, LongerRises, LongerInOrder DEF Ordered
  <1> QED
    BY <1>3, <1>5 DEF new, r

LEMMA EndLogs ==
  ASSUME Typing, SinkEnd
  PROVE  /\ Ordered(sinks[2]) => Ordered(sinks'[2])
         /\ AtTheSink' = AtTheSink
  <1>1. PICK S : sinks \in [1..2 -> Seq(S)]
    BY DEF Typing, FlowInv, Logged
  <1>2. PICK flushed, f :
          /\ flushed = sinks \/ flushed = Tee(sinks, "flush", f["flush"])
          /\ sinks' = flushed \/ sinks' = Tee(flushed, "close", f["close"])
    BY Zenon DEF SinkEnd
  <1>3. \A logs, call, failing : Tee(logs, call, failing)[2] = Append(logs[2], Entry(call, <<>>))
    BY DEF Tee
  <1>4. /\ \E R : flushed \in [1..2 -> Seq(R)]
        /\ Ordered(sinks[2]) => Ordered(flushed[2])
        /\ Values(Items(flushed[2])) = Values(Items(sinks[2]))
    <2>1. CASE flushed = sinks
      BY <1>1, <2>1
    <2>2. CASE flushed = Tee(sinks, "flush", f["flush"])
      <3>1. sinks[2] \in Seq(S)
        BY <1>1
      <3>2. flushed[2] = Append(sinks[2], Entry("flush", <<>>))
        BY <1>3, <2>2
      <3> QED
        BY <1>1, <2>2, <3>1, <3>2, EndAdded, TeeWritesNothing
    <2> QED
      BY <1>2, <2>1, <2>2
  <1>5. PICK R : flushed \in [1..2 -> Seq(R)]
    BY <1>4
  <1>6. /\ Ordered(flushed[2]) => Ordered(sinks'[2])
        /\ Values(Items(sinks'[2])) = Values(Items(flushed[2]))
    <2>1. flushed[2] \in Seq(R)
      BY <1>5
    <2>2. CASE sinks' = Tee(flushed, "close", f["close"])
      <3>1. sinks'[2] = Append(flushed[2], Entry("close", <<>>))
        BY <1>3, <2>2
      <3> QED
        BY <2>1, <3>1, EndAdded
    <2> QED
      BY <1>2, <2>2
  <1> QED
    BY <1>4, <1>6 DEF AtTheSink

\* No item is under way, before and after: the others stay in line.
LEMMA Still ==
  ASSUME Typing, phase # "built", Placed, Cur = <<>>, Cur' = <<>>,
         UNCHANGED <<chain, held, failures>>, tally'.items_in = tally.items_in,
         AtTheSink' = AtTheSink, Lone', Flushed'
  PROVE  Placed'
  <1>1. ToSet(Cur) = {} /\ ToSet(Cur') = {} /\ Rising(Cur')
    BY ToSetEmpty
  <1>2. Groups' = Groups /\ GivenUp' = GivenUp /\ Items(failures)' = Items(failures)
    BY GroupsStay DEF GivenUp
  <1>3. /\ Line(AtTheSink, Groups, {}, Pos)
        /\ Cover(AtTheSink, Groups, {}, GivenUp, tally.items_in)
        /\ AllRise(Items(failures)) /\ Apart(Items(failures))
    BY <1>1 DEF Placed
  <1>4. Line(AtTheSink, Groups, {}, Pos')
    <2>1. Len(chain) \in Nat /\ Groups \in [1..Len(chain) -> SUBSET Nat]
      BY PlacesTyped
    <2> QED
      BY <1>3, <2>1, LineAnywhere
  <1>5. Pieces'
    BY <1>1 DEF Placed, Pieces
  <1> QED
    BY <1>1, <1>2, <1>3, <1>4, <1>5 DEF Placed

\* The sink has a signal of its own done.
LEMMA SignalDone ==
  ASSUME Typing, Placed, agenda # <<>>, Top.op \in {"tick", "flush", "close", "abort"},
         Top.at = AtSink, phase # "abort", UNCHANGED <<chain, held, failures>>,
         tally'.items_in = tally.items_in, AtTheSink' = AtTheSink, Turns(<<>>)
  PROVE  Placed'
  <1>1. Len(agenda) = 2 /\ phase = (IF Top.op = "tick" THEN "pump" ELSE Top.op)
    BY SignalPhase
  <1>2. agenda[2].op = "return" /\ Top = agenda[1] /\ Top.op \notin ItemOps /\ Top.item = <<>>
    <2>1. Top.op \notin ItemOps
      BY DEF ItemOps
    <2> QED
      BY <1>1, <2>1, Depth, HeadTyped DEF Placed, Typing
  <1> DEFINE more == <<>>
  <1>3. more \in Seq(Tasks({0})) /\ Alone(more) /\ Len(more) = 0 /\ Turns(more) /\ more = <<>>
    BY NoMore
  <1> HIDE DEF more
  <1>4. /\ Lone' /\ Cur' = <<>> /\ Len(agenda') = 1 /\ phase' = phase
        /\ agenda'[1] = agenda[2]
    <2>1. /\ Lone' /\ Cur' = <<>> /\ Len(agenda') = Len(more) + Len(agenda) - 1 /\ phase' = phase
          /\ \A k \in (Len(more) + 1)..Len(agenda') : agenda'[k] = agenda[k - Len(more) + 1]
      BY <1>3, HeadGoes DEF Placed
    <2>2. Len(agenda') = 1 /\ 1 \in 1..Len(agenda')
      BY <1>1, <1>3, <2>1
    <2>3. agenda'[1] = agenda[1 - 0 + 1]
      BY <1>3, <2>1, <2>2
    <2>4. 1 - 0 + 1 = 2
      OBVIOUS
    <2>5. agenda'[1] = agenda[2]
      BY <2>3, <2>4
    <2> QED
      BY <2>1, <2>2, <2>5
  <1>5. Cur = <<>> /\ AtSink' = AtSink
    BY <1>2, CurIs DEF AtSink
  <1>6. Flushed'
    <2>1. CASE phase = "pump"
      BY <1>4, <2>1 DEF Flushed
    <2>2. CASE phase = "close"
      BY <1>4, <1>5, <2>2 DEF Placed, Flushed
    <2>3. CASE phase = "flush"
      <3>1. agenda[1].op = "flush" /\ 1 \in 1..Len(agenda)
        BY <1>1, <1>2, <2>3
      <3>2. Drained(held, AtSink)
        BY <1>2, <2>3, <3>1 DEF Placed, Flushed
      <3>3. \A k \in 1..1 : k = 1
        OBVIOUS
      <3>4. \A k \in 1..Len(agenda') : agenda'[k].op # "flush"
        BY <1>2, <1>4, <3>3
      <3>5. Drained(held', AtSink')
        BY <1>5, <3>2
      <3> QED
        BY <1>4, <2>3, <3>4, <3>5 DEF Flushed
    <2> QED
      BY <1>1, <2>1, <2>2, <2>3
  <1>7. phase # "built"
    BY <1>1
  <1> QED
    BY <1>4, <1>5, <1>6, <1>7, Still

\* A call of Runner: its task, above the return.
LEMMA CallIs ==
  ASSUME NEW op, NEW item, agenda' = Call(op, item), op \in ItemOps \/ item = <<>>
  PROVE  /\ Lone' /\ Cur' = item /\ Pos' = 1 /\ Len(agenda') = 2
         /\ agenda'[1].op = op /\ agenda'[1].at = 1 /\ agenda'[2].op = "return"
  <1> DEFINE a == [op |-> op, at |-> 1, item |-> item, attempt |-> 1, left |-> 0]
             b == [op |-> "return", at |-> 0, item |-> <<>>, attempt |-> 0, left |-> 0]
  <1>1. agenda' = <<a, b>>
    BY TaskIs
  <1>2. a.op = op /\ a.at = 1 /\ a.item = item /\ b.op = "return" /\ b.item = <<>>
    OBVIOUS
  <1> HIDE DEF a, b
  <1>3. Len(agenda') = 2 /\ agenda'[1] = a /\ agenda'[2] = b /\ agenda' # <<>> /\ Head(agenda') = a
    BY <1>1
  <1>4. Cur' = item /\ Pos' = 1
    BY <1>2, <1>3 DEF Cur, Pos, Top
  <1>5. ASSUME NEW k \in 1..2
        PROVE  /\ k > 1 => agenda'[k].op \notin ItemOps
               /\ agenda'[k].op \notin ItemOps => agenda'[k].item = <<>>
    <2>1. CASE k = 1
      BY <1>2, <1>3, <2>1
    <2>2. CASE k = 2
      BY <1>2, <1>3, <2>2 DEF ItemOps
    <2> QED
      BY <2>1, <2>2
  <1>6. Lone'
    BY <1>3, <1>5 DEF Lone, Alone
  <1> QED
    BY <1>2, <1>3, <1>4, <1>6

LEMMA NothingUnderWay ==
  /\ agenda = <<>> => Cur = <<>> /\ Lone
  /\ agenda' = <<>> => Cur' = <<>> /\ Lone'
  <1>1. 1..Len(<<>>) = {}
    OBVIOUS
  <1> QED
    BY <1>1 DEF Cur, Lone, Alone

LEMMA Halts ==
  ASSUME NEW from, from # None, NEW id, Halt(Error(from, id))
  PROVE  first_error' # NoFailure
  BY DEF Halt, Offer, Error, NoFailure

\* Where a phase asks nothing of the groups, or they are empty.
LEMMA FlushedAt ==
  ASSUME phase' \in {"pump", "switch"} \/ (phase' \in {"close", "rest", "ended"} /\ Drained(held', AtSink'))
  PROVE  Flushed'
  BY DEF Flushed

LEMMA FlushStarts ==
  ASSUME phase' = "flush", agenda' = Call("flush", <<>>), DOMAIN held' = 1..Len(chain)
  PROVE  Flushed'
  <1>1. Len(agenda') = 2 /\ agenda'[1].op = "flush" /\ agenda'[1].at = 1 /\ agenda'[2].op = "return"
    BY CallIs
  <1>2. \A k \in 1..2 : agenda'[k].op = "flush" => k = 1
    <2>1. \A k \in 1..2 : k = 1 \/ k = 2
      OBVIOUS
    <2> QED
      BY <1>1, <2>1
  <1>3. Drained(held', 1)
    BY DEF Drained
  <1>4. \A k \in 1..Len(agenda') : agenda'[k].op = "flush" =>
               Drained(held', agenda'[k].at) /\ agenda'[1].at >= agenda'[k].at
    BY <1>1, <1>2, <1>3
  <1>5. 2 # 1
    OBVIOUS
  <1>6. Len(agenda') # 1
    BY <1>1, <1>5, Zenon
  <1> QED
    BY <1>4, <1>6 DEF Flushed

\* A call of Runner returns.
LEMMA Returned ==
  ASSUME Typing, Placed, phase # "abort", Return
  PROVE  Placed'
  <1>1. agenda # <<>> /\ Top.op = "return"
    BY DEF Return
  <1>2. phase \in {"pump", "flush", "close"}
    BY <1>1, UnderWay DEF Typing, Busy
  <1>3. Len(agenda) = 1
    <2>1. Top = agenda[1] /\ Len(agenda) \in Nat \ {0}
      BY <1>1, HeadTyped DEF Typing
    <2>2. \A k \in 1..Len(agenda) : agenda[k].op = "return" <=> k = Len(agenda)
      BY DEF Typing, Typed, AgendaOK, Stacked, Stack
    <2>3. 1 \in 1..Len(agenda) /\ agenda[1].op = "return"
      BY <1>1, <2>1
    <2>4. 1 = Len(agenda)
      BY <2>2, <2>3
    <2> QED
      BY <2>4
  <1>4. UNCHANGED <<chain, held, sinks, failures>> /\ tally'.items_in = tally.items_in
    BY DEF Return, Outside, builderVars, Typing, FlowInv, Counted, Tally
  <1>5. Cur = <<>>
    <2>1. Top.op \notin ItemOps
      BY <1>1 DEF ItemOps
    <2> QED
      BY <1>1, <2>1, Depth, CurIs DEF Placed
  <1>6. AtTheSink' = AtTheSink /\ AtSink' = AtSink
    BY <1>4 DEF AtTheSink, AtSink
  <1>7. Lone' /\ Cur' = <<>> /\ Flushed'
    <2>1. CASE phase = "flush"
      <3>1. phase' = "close" /\ agenda' = Call("close", <<>>)
        BY <2>1 DEF Return
      <3>2. Drained(held, AtSink)
        BY <1>3, <2>1 DEF Placed, Flushed
      <3>3. Flushed'
        BY <1>4, <1>6, <3>1, <3>2, FlushedAt
      <3> QED
        BY <3>1, <3>3, CallIs
    <2>2. CASE phase = "close"
      <3>1. phase' = "rest" /\ agenda' = <<>>
        BY <2>2 DEF Return
      <3>2. Drained(held, AtSink)
        BY <2>2 DEF Placed, Flushed
      <3>3. Flushed'
        BY <1>4, <1>6, <3>1, <3>2, FlushedAt
      <3> QED
        BY <3>1, <3>3, NothingUnderWay
    <2>3. CASE phase = "pump"
      <3>1. phase' = "pump" /\ agenda' = <<>>
        BY <2>3 DEF Return
      <3> QED
        BY <3>1, FlushedAt, NothingUnderWay
    <2> QED
      BY <1>2, <2>1, <2>2, <2>3
  <1>8. phase # "built"
    BY <1>2
  <1> QED
    BY <1>4, <1>5, <1>6, <1>7, <1>8, Still

LEMMA OneNumber ==
  ASSUME NEW n
  PROVE  ToSet(<<n>>) = {n} /\ Rising(<<n>>)
  <1>1. DOMAIN <<n>> = {1} /\ <<n>>[1] = n
    OBVIOUS
  <1>2. ToSet(<<n>>) = {n}
    BY <1>1 DEF ToSet
  <1>3. \A i, j \in {1} : ~(i < j)
    OBVIOUS
  <1>4. Rising(<<n>>)
    BY <1>1, <1>3 DEF Rising
  <1> QED
    BY <1>2, <1>4

\* The next item is pulled.
LEMMA ItemPulled ==
  ASSUME Typing, Placed, phase # "built", agenda = <<>>, UNCHANGED <<chain, held, sinks, failures>>,
         GotItem
  PROVE  Placed'
  <1> DEFINE n == tally.items_in
             m == Len(chain)
  <1>1. tally'.items_in = n + 1 /\ phase' = "pump" /\ agenda' = Call("process", <<n + 1>>)
    BY DEF GotItem, Pulls, Typing, FlowInv, Counted, Tally
  <1>2. "process" \in ItemOps
    BY DEF ItemOps
  <1>3. Lone' /\ Cur' = <<n + 1>> /\ Pos' = 1
    BY <1>1, <1>2, CallIs
  <1>4. ToSet(Cur') = {n + 1} /\ Rising(Cur')
    BY <1>3, OneNumber
  <1>5. Flushed'
    BY <1>1, FlushedAt
  <1>6. Pieces'
    BY <1>4 DEF Placed, Pieces
  <1>7. Groups' = Groups /\ GivenUp' = GivenUp /\ AtTheSink' = AtTheSink
        /\ Items(failures)' = Items(failures)
    BY GroupsStay DEF GivenUp, AtTheSink
  <1>8. Cur = <<>> /\ ToSet(<<>>) = {}
    BY NothingUnderWay, ToSetEmpty
  <1>9. /\ Line(AtTheSink, Groups, {}, Pos) /\ Cover(AtTheSink, Groups, {}, GivenUp, n)
        /\ AllRise(Items(failures)) /\ Apart(Items(failures))
    BY <1>8 DEF Placed
  <1>10. /\ m \in Nat /\ n \in Nat /\ Groups \in [1..m -> SUBSET Nat] /\ AtTheSink \in SUBSET Nat
         /\ AtTheSink \subseteq 1..n /\ \A b \in 1..m : Groups[b] \subseteq 1..n
    BY PlacesTyped
  <1> HIDE DEF n, m
  <1>11. Line(AtTheSink, Groups, {n + 1}, 1)
    BY <1>9, <1>10, LineEnters
  <1>12. Cover(AtTheSink, Groups, {n + 1}, GivenUp, n + 1)
    BY <1>9, <1>10, CoverEnters
  <1> QED
    BY <1>1, <1>3, <1>4, <1>5, <1>6, <1>7, <1>9, <1>11, <1>12 DEF Placed

LEMMA Pumped ==
  ASSUME Typing, Placed, Pumps, first_error' = NoFailure
  PROVE  Placed'
  <1>1. UNCHANGED Inside /\ phase # "built" /\ agenda = <<>>
    BY PumpForm
  <1>2. UNCHANGED <<chain, held, sinks, failures>>
    BY <1>1 DEF Inside, builderVars
  <1>3. AtTheSink' = AtTheSink /\ Cur = <<>> /\ Lone /\ DOMAIN held' = 1..Len(chain)
    BY <1>1, <1>2, NothingUnderWay, PlacesTyped DEF AtTheSink
  <1>4. CASE GotItem
    BY <1>1, <1>2, <1>4, ItemPulled
  <1>5. CASE GotIdle
    <2>1. phase' = "pump" /\ agenda' = Call("tick", <<>>) /\ tally'.items_in = tally.items_in
      BY <1>5 DEF GotIdle, Pulls
    <2>2. Flushed' /\ Lone' /\ Cur' = <<>>
      BY <2>1, FlushedAt, CallIs
    <2> QED
      BY <1>1, <1>2, <1>3, <2>1, <2>2, Still
  <1>6. CASE SourceFailed
    <2>1. "source" # None
      BY DEF None
    <2> QED
      BY <1>6, <2>1, Halts DEF SourceFailed
  <1>7. CASE phase' = "switch" /\ UNCHANGED <<agenda, tally>>
    <2>1. Flushed' /\ Lone' /\ Cur' = <<>>
      BY <1>1, <1>7, FlushedAt, NothingUnderWay
    <2> QED
      BY <1>1, <1>2, <1>3, <1>7, <2>1, Still
  <1>8. CASE phase' = "flush" /\ agenda' = Call("flush", <<>>) /\ UNCHANGED tally
    <2>1. Flushed' /\ Lone' /\ Cur' = <<>>
      BY <1>3, <1>8, FlushStarts, CallIs
    <2> QED
      BY <1>1, <1>2, <1>3, <1>8, <2>1, Still
  <1> QED
    BY <1>4, <1>5, <1>6, <1>7, <1>8 DEF Pumps, PullFirst, Retire, PullSecond

\* A run starts with nothing anywhere.
LEMMA StartPlaced ==
  ASSUME Typing, Start, first_error' = NoFailure, sinks[2] = <<>>, failures = <<>>, agenda = <<>>,
         tally.items_in = 0
  PROVE  Placed'
  <1>1. /\ phase' = "pump" /\ agenda' = <<>> /\ sinks' = sinks /\ failures' = <<>> /\ chain' = chain
        /\ tally' = tally /\ held' = [at \in DOMAIN chain |-> <<>>]
    <2>1. "config" # None
      BY DEF None
    <2>2. \A id : first_error' # Error("config", id)
      BY <2>1 DEF Error, NoFailure
    <2> QED
      BY <2>2 DEF Start
  <1>2. DOMAIN chain = 1..Len(chain)
    BY LenProperties DEF Typing, Typed, Built
  <1>3. \A b \in 1..Len(chain) : held'[b] = <<>>
    BY <1>1, <1>2
  <1>4. ToSet(<<>>) = {} /\ Rising(<<>>) /\ DOMAIN <<>> = {}
    BY ToSetEmpty
  <1>5. Cur' = <<>> /\ Lone' /\ Flushed'
    BY <1>1, FlushedAt, NothingUnderWay
  <1>6. Pieces'
    BY <1>1, <1>3, <1>4, <1>5 DEF Pieces
  <1>7. \A items : DOMAIN items = {} => Items(items) = <<>> /\ Values(Items(items)) = {}
    <2> TAKE items
    <2> HAVE DOMAIN items = {}
    <2>1. DOMAIN Items(items) = {} /\ Items(items) = <<>>
      BY DEF Items
    <2> QED
      BY <2>1 DEF Values
  <1>8. AtTheSink' = {} /\ GivenUp' = {} /\ Items(failures)' = <<>>
    BY <1>1, <1>4, <1>7 DEF AtTheSink, GivenUp
  <1>9. DOMAIN Groups' = 1..Len(chain) /\ \A b \in 1..Len(chain) : Groups'[b] = {}
    BY <1>1, <1>3, <1>4 DEF Groups
  <1>10. Line({}, Groups', {}, Pos')
    BY <1>9 DEF Line, Less
  <1>11. Cover({}, Groups', {}, {}, 0)
    <2>1. 1..0 = {} /\ UNION {Groups'[b] : b \in 1..Len(chain)} = {}
      BY <1>9
    <2> QED
      BY <1>9, <2>1 DEF Cover
  <1>12. AllRise(<<>>) /\ Apart(<<>>)
    BY <1>4 DEF AllRise, Apart
  <1> QED
    BY <1>1, <1>4, <1>5, <1>6, <1>8, <1>10, <1>11, <1>12 DEF Placed

\* The other steps of Runner, and those of the sink's ends.
LEMMA RunnerPlaced ==
  ASSUME Typing, Placed, phase # "abort", phase # "built", first_error' = NoFailure,
         SeeCancel \/ CloseRest \/ Cancel \/ UNCHANGED vars
  PROVE  Placed'
  <1>1. UNCHANGED <<chain, held, sinks, failures, tally>> /\ AtTheSink' = AtTheSink /\ AtSink' = AtSink
    BY DEF SeeCancel, CloseRest, Cancel, Inside, builderVars, vars, flowVars, AtTheSink, AtSink
  <1>2. CASE SeeCancel
    <2>1. phase' = "flush" /\ agenda' = Call("flush", <<>>) /\ agenda = <<>>
      BY <1>2 DEF SeeCancel
    <2>2. DOMAIN held' = 1..Len(chain)
      BY <1>1, PlacesTyped
    <2>3. Flushed' /\ Lone' /\ Cur' = <<>> /\ Cur = <<>>
      BY <2>1, <2>2, FlushStarts, CallIs, NothingUnderWay
    <2> QED
      BY <1>1, <2>3, Still
  <1>3. CASE CloseRest
    <2>1. phase = "rest" /\ phase' = "ended" /\ agenda' = agenda /\ agenda = <<>>
      BY <1>3 DEF CloseRest, Typing, FlowInv, Halted
    <2>2. Drained(held, AtSink)
      BY <2>1 DEF Placed, Flushed
    <2>3. Flushed'
      BY <1>1, <2>1, <2>2, FlushedAt
    <2>4. Lone' /\ Cur' = <<>> /\ Cur = <<>>
      BY <2>1, NothingUnderWay
    <2> QED
      BY <1>1, <2>3, <2>4, Still
  <1>4. CASE Cancel \/ UNCHANGED vars
    <2>1. UNCHANGED <<phase, agenda>>
      BY <1>4 DEF Cancel, vars, flowVars
    <2>2. /\ Lone' = Lone /\ Flushed' = Flushed /\ Pieces' = Pieces /\ Cur' = Cur /\ Pos' = Pos
          /\ Groups' = Groups /\ GivenUp' = GivenUp
      BY <1>1, <2>1 DEF Lone, Alone, Flushed, Pieces, Cur, Pos, Top, Groups, GivenUp, AtSink
    <2> QED
      BY <1>1, <2>2 DEF Placed
  <1> QED
    BY <1>2, <1>3, <1>4

-----------------------------------------------------------------------------
(* Each step keeps the items where they are or moves them on.               *)

LEMMA SinkItemPlaced ==
  ASSUME Typing, Placed, SinkItem, Ordered(sinks[2])
  PROVE  Ordered(sinks'[2]) /\ (first_error' = NoFailure => Placed')
  <1>1. agenda # <<>> /\ Top.op \in ItemOps /\ Top.at = AtSink
    BY DEF SinkItem, AtEnd, ItemOps
  <1>2. UNCHANGED <<chain, held, failures, tally>>
    BY DEF SinkItem, builderVars
  <1>3. PICK S : sinks \in [1..2 -> Seq(S)]
    BY DEF Typing, FlowInv, Logged
  <1>4. PICK n \in 0..2 :
          /\ sinks' = [h \in 1..2 |->
                IF h <= n THEN Append(sinks[h], Entry("write", Top.item)) ELSE sinks[h]]
          /\ \/ n = 2 /\ agenda' = Under /\ UNCHANGED <<phase, first_error>>
             \/ n < 2 /\ SinkFailed
    BY DEF SinkItem
  <1>5. CASE n = 2 /\ agenda' = Under /\ UNCHANGED <<phase, first_error>>
    <2>1. agenda' = <<>> \o Under
      BY <1>1, <1>5, UnderTyped DEF Typing, Typed, AgendaOK
    <2>2. Turns(<<>>)
      BY <1>5, <2>1 DEF Turns
    <2>3. sinks'[2] = Append(sinks[2], Entry("write", Top.item)) /\ sinks[2] \in Seq(S)
      BY <1>3, <1>4, <1>5
    <2>4. AllRise(Items(sinks[2])) /\ InOrder(Items(sinks[2]))
      BY DEF Ordered
    <2>5. Placed' /\ AllRise(Items(sinks'[2])) /\ InOrder(Items(sinks'[2]))
      BY <1>1, <1>2, <2>2, <2>3, <2>4, SinkTakes
    <2> QED
      BY <2>5 DEF Ordered
  <1>6. CASE n < 2 /\ SinkFailed
    <2>1. sinks'[2] = sinks[2]
      BY <1>4, <1>6
    <2>2. "sink" # None
      BY DEF None
    <2>3. first_error' # NoFailure
      BY <1>6, <2>2, Halts DEF SinkFailed
    <2> QED
      BY <2>1, <2>3
  <1> QED
    BY <1>4, <1>5, <1>6

LEMMA SinkSignalPlaced ==
  ASSUME Typing, Placed, phase # "abort", SinkTick \/ SinkEnd, first_error' = NoFailure
  PROVE  Placed'
  <1>1. agenda # <<>> /\ Top.op \in {"tick", "flush", "close", "abort"} /\ Top.at = AtSink
    BY DEF SinkTick, SinkEnd, AtEnd
  <1>2. UNCHANGED <<chain, held, failures, tally>>
    BY DEF SinkTick, SinkEnd, Outside, builderVars
  <1>3. AtTheSink' = AtTheSink
    BY EndLogs DEF SinkTick, Outside, AtTheSink
  <1>4. ~SinkFailed
    <2>1. "sink" # None
      BY DEF None
    <2> QED
      BY <2>1, Halts DEF SinkFailed
  <1>5. Turns(<<>>)
    BY <1>4 DEF SinkTick, SinkEnd, Goes, Turns
  <1> QED
    BY <1>1, <1>2, <1>3, <1>5, SignalDone

\* Before the start nothing moves; after it the chain stays.
LEMMA Frame ==
  ASSUME Typing, [Next]_vars
  PROVE  /\ phase = "built" => /\ UNCHANGED <<sinks, failures, agenda, tally>>
                               /\ phase' \in {"built", "pump", "ended"}
         /\ phase # "built" => phase' # "built" /\ chain' = chain
  <1>1. phase = "built" => agenda = <<>>
    BY DEF Typing, FlowInv, Halted
  <1>2. CASE Stages
    <2>1. agenda # <<>> /\ chain' = chain
      BY <1>2, StageForms DEF Outside, builderVars
    <2>2. (\E more : Goes(more)) \/ FailStep
      BY <1>2, StageForms DEF ItemStep, SignalStep, RetryStep
    <2>3. phase' = phase \/ phase' \in {"abort", "rest"}
      BY <2>2 DEF Goes, FailStep, Fails, Route, Halt
    <2> QED
      BY <1>1, <2>1, <2>3
  <1>3. CASE Others
    <2>1. phase # "built" => phase' # "built" /\ chain' = chain
      BY <1>3, OtherFrame
    <2>2. phase = "built" => /\ UNCHANGED <<sinks, failures, agenda, tally>>
                             /\ phase' \in {"built", "pump", "ended"}
      <3> SUFFICES ASSUME phase = "built"
                   PROVE  /\ UNCHANGED <<sinks, failures, agenda, tally>>
                          /\ phase' \in {"built", "pump", "ended"}
        OBVIOUS
      <3>1. ~(SinkItem \/ SinkTick \/ SinkEnd \/ Return)
        BY <1>1 DEF SinkItem, SinkTick, SinkEnd, AtEnd, Return
      <3>2. ~Pumps
        BY PumpForm
      <3>3. ~(SeeCancel \/ CloseRest \/ Cancel)
        BY DEF SeeCancel, CloseRest, Cancel
      <3>4. CASE Start
        BY <3>4 DEF Start
      <3>5. CASE UNCHANGED flowVars
        BY <3>5 DEF flowVars
      <3> QED
        BY <1>3, <3>1, <3>2, <3>3, <3>4, <3>5 DEF Others, vars
    <2> QED
      BY <2>1, <2>2
  <1> QED
    BY <1>2, <1>3, NextIs

\* An abort has its error.
LEMMA AbortBlames ==
  ASSUME Typing, [Next]_vars, phase = "abort" => first_error # NoFailure
  PROVE  phase' = "abort" => first_error' # NoFailure
  <1>1. \A id : /\ Halt(Error("sink", id)) => first_error' # NoFailure
                /\ Halt(Error("stage", id)) => first_error' # NoFailure
                /\ Halt(Error("source", id)) => first_error' # NoFailure
    <2>1. "sink" # None /\ "stage" # None /\ "source" # None
      BY DEF None
    <2> QED
      BY <2>1, Halts
  <1>2. CASE first_error # NoFailure
    BY <1>2, ErrorStays
  <1>3. CASE Stages /\ first_error = NoFailure
    <2>1. (\E more : Goes(more)) \/ FailStep
      BY <1>3, StageForms DEF ItemStep, SignalStep, RetryStep
    <2>2. (\E more : Goes(more)) \/ first_error' # NoFailure
      BY <1>1, <2>1 DEF FailStep, Fails, Route
    <2> QED
      BY <1>3, <2>2 DEF Goes
  <1>4. CASE Others /\ first_error = NoFailure
    <2>1. CASE SinkItem \/ SinkTick \/ SinkEnd
      BY <1>1, <1>4, <2>1 DEF SinkItem, SinkTick, SinkEnd, Goes, SinkFailed
    <2>2. CASE Pumps
      BY <1>1, <2>2 DEF Pumps, PullFirst, Retire, PullSecond, GotItem, GotIdle, Pulls, SourceFailed
    <2>3. CASE Return
      <3>1. phase \in {"pump", "flush", "close"}
        BY <1>4, <2>3, UnderWay DEF Return, Typing, Busy
      <3> QED
        BY <2>3, <3>1 DEF Return
    <2>4. CASE Start \/ SeeCancel \/ CloseRest \/ Cancel \/ UNCHANGED flowVars
      BY <1>4, <2>4 DEF Start, SeeCancel, CloseRest, Cancel, flowVars
    <2> QED
      BY <1>4, <2>1, <2>2, <2>3, <2>4 DEF Others, vars
  <1> QED
    BY <1>2, <1>3, <1>4, NextIs

LEMMA WholeStep ==
  ASSUME AccountInv, Whole, [Next]_vars
  PROVE  Whole'
  <1>1. Typing /\ Lettered
    BY DEF AccountInv
  <1>2. /\ phase = "built" => /\ UNCHANGED <<sinks, failures, agenda, tally>>
                              /\ phase' \in {"built", "pump", "ended"}
        /\ phase # "built" => phase' # "built" /\ chain' = chain
    BY <1>1, Frame
  <1>3. phase' = "abort" => first_error' # NoFailure
    BY <1>1, AbortBlames DEF Whole
  <1>4. CASE phase = "built"
    <2>1. sinks[2] = <<>> /\ failures = <<>> /\ agenda = <<>> /\ tally.items_in = 0
      BY <1>4 DEF Whole
    <2>2. Ordered(<<>>)
      <3>1. DOMAIN Items(<<>>) = {}
        BY DEF Items
      <3> QED
        BY <3>1 DEF Ordered, AllRise, InOrder
    <2>3. ASSUME phase' # "built", first_error' = NoFailure
          PROVE  Placed'
      <3>1. Start
        <4>1. Stages => agenda # <<>>
          BY <1>1, StageForms
        <4>2. ~(SinkItem \/ SinkTick \/ SinkEnd \/ Return)
          BY <2>1 DEF SinkItem, SinkTick, SinkEnd, AtEnd, Return
        <4>3. ~Pumps
          BY <1>1, <1>4, PumpForm
        <4>4. ~(SeeCancel \/ CloseRest \/ Cancel)
          BY <1>4 DEF SeeCancel, CloseRest, Cancel
        <4>5. ~UNCHANGED flowVars
          BY <1>4, <2>3 DEF flowVars
        <4> QED
          BY <2>1, <4>1, <4>2, <4>3, <4>4, <4>5, NextIs DEF Others, vars
      <3> QED
        BY <1>1, <2>1, <2>3, <3>1, StartPlaced
    <2> QED
      BY <1>2, <1>3, <1>4, <2>1, <2>2, <2>3 DEF Whole
  <1>5. CASE phase # "built"
    <2> SUFFICES ASSUME Conserving
                 PROVE  Ordered(sinks'[2]) /\ (first_error' = NoFailure => Placed')
      BY <1>2, <1>3, <1>5 DEF Whole, Conserving
    <2>1. Ordered(sinks[2]) /\ (first_error = NoFailure => Placed /\ phase # "abort")
      BY <1>5 DEF Whole
    <2>2. first_error' = NoFailure => first_error = NoFailure
      BY <1>1, ErrorStays
    <2>3. CASE SinkItem
      <3>1. first_error = NoFailure
        BY <1>1, <2>3, AtWork DEF SinkItem, AtEnd, Typing
      <3> QED
        BY <1>1, <2>1, <2>3, <3>1, SinkItemPlaced
    <2>4. CASE SinkTick \/ SinkEnd
      <3>1. Ordered(sinks'[2])
        BY <1>1, <2>1, <2>4, EndLogs DEF SinkTick, Outside
      <3> QED
        BY <1>1, <2>1, <2>2, <2>4, <3>1, SinkSignalPlaced
    <2>5. CASE Stages
      <3>1. sinks' = sinks
        BY <1>1, <2>5, StageForms DEF Outside
      <3> QED
        BY <1>1, <2>1, <2>2, <2>5, <3>1, StagePlaced
    <2>6. CASE Pumps
      <3>1. sinks' = sinks
        BY <1>1, <2>6, PumpForm DEF Inside
      <3> QED
        BY <1>1, <2>1, <2>2, <2>6, <3>1, Pumped
    <2>7. CASE Return
      <3>1. sinks' = sinks
        BY <2>7 DEF Return, Outside
      <3> QED
        BY <1>1, <2>1, <2>2, <2>7, <3>1, Returned
    <2>8. CASE SeeCancel \/ CloseRest \/ Cancel \/ UNCHANGED vars
      <3>1. sinks' = sinks
        BY <2>8 DEF SeeCancel, CloseRest, Cancel, Inside, vars, flowVars
      <3> QED
        BY <1>1, <1>5, <2>1, <2>2, <2>8, <3>1, RunnerPlaced
    <2>9. ~Start /\ ~(BuilderNext /\ UNCHANGED flowVars)
      <3>1. ~BuilderNext
        <4>1. BuilderNext => made = "building"
          BY DEF BuilderNext, StageId, OnError, DeadLetter, IdleTick, Map, TryMap, TryMapRetry,
                    Group, Buffer, Sink, Method
        <4> QED
          BY <1>1, <1>5, <4>1 DEF Typing, Typed, Built
      <3> QED
        BY <1>5, <3>1 DEF Start
    <2> QED
      BY <2>3, <2>4, <2>5, <2>6, <2>7, <2>8, <2>9, NextIs DEF Others
  <1> QED
    BY <1>4, <1>5

LEMMA WholeInit == Init => Whole
  <1> SUFFICES ASSUME Init
               PROVE  Whole
    OBVIOUS
  <1>1. /\ phase = "built" /\ sinks = <<<<>>, <<>>>> /\ failures = <<>> /\ agenda = <<>>
        /\ tally.items_in = 0
    BY DEF Init
  <1>2. Ordered(<<>>)
    <2>1. DOMAIN Items(<<>>) = {}
      BY DEF Items
    <2> QED
      BY <2>1 DEF Ordered, AllRise, InOrder
  <1> QED
    BY <1>1, <1>2 DEF Whole

-----------------------------------------------------------------------------
(* Each number in one place, as the property has it.                        *)

IsSeq(x) == \E T : x \in Seq(T)

\* No two of the items have a number in common, and none has one twice.
Singly(items) ==
    \A k, l \in DOMAIN items : \A i \in DOMAIN items[k], j \in DOMAIN items[l] :
       items[k][i] = items[l][j] => k = l /\ i = j

LEMMA Joined ==
  ASSUME NEW x, IsSeq(x), NEW y, IsSeq(y)
  PROVE  /\ IsSeq(x \o y) /\ Values(x \o y) = Values(x) \cup Values(y)
         /\ Singly(x) /\ Singly(y) /\ Values(x) \cap Values(y) = {} => Singly(x \o y)
  <1>1. PICK A, B : x \in Seq(A) /\ y \in Seq(B)
    BY DEF IsSeq
  <1> DEFINE T == A \cup B
             m == Len(x)
             n == Len(y)
             z == x \o y
  <1>2. x \in Seq(T) /\ y \in Seq(T)
    BY <1>1, SeqMonotonic
  <1> HIDE DEF T
  <1>3. m \in Nat /\ n \in Nat /\ DOMAIN x = 1..m /\ DOMAIN y = 1..n
    BY <1>2, LenProperties
  <1>4. /\ z \in Seq(T) /\ Len(z) = m + n
        /\ \A i \in 1..(m + n) : z[i] = IF i <= m THEN x[i] ELSE y[i - m]
    BY <1>2, ConcatProperties
  <1>5. DOMAIN z = 1..(m + n) /\ IsSeq(z)
    BY <1>4, LenProperties DEF IsSeq
  <1> HIDE DEF m, n, z
  <1>6. ASSUME NEW k \in 1..m PROVE k \in 1..(m + n) /\ z[k] = x[k]
    BY <1>3, <1>4
  <1>7. ASSUME NEW k \in 1..n PROVE k + m \in 1..(m + n) /\ z[k + m] = y[k]
    BY <1>3, <1>4
  <1>8. ASSUME NEW k \in 1..(m + n)
        PROVE  (k \in 1..m /\ z[k] = x[k]) \/ (k - m \in 1..n /\ z[k] = y[k - m])
    BY <1>3, <1>4
  <1>9. /\ \A v : v \in Values(z) <=> \E k \in 1..(m + n) : v \in ToSet(z[k])
        /\ \A v : v \in Values(x) <=> \E k \in 1..m : v \in ToSet(x[k])
        /\ \A v : v \in Values(y) <=> \E k \in 1..n : v \in ToSet(y[k])
    BY <1>3, <1>5 DEF Values
  <1>10. Values(z) = Values(x) \cup Values(y)
    <2>1. ASSUME NEW v \in Values(x) PROVE v \in Values(z)
      BY <1>6, <1>9
    <2>2. ASSUME NEW v \in Values(y) PROVE v \in Values(z)
      BY <1>7, <1>9
    <2>3. ASSUME NEW v \in Values(z) PROVE v \in Values(x) \cup Values(y)
      BY <1>8, <1>9
    <2> QED
      BY <2>1, <2>2, <2>3
  <1>11. ASSUME Singly(x), Singly(y), Values(x) \cap Values(y) = {}
         PROVE  Singly(z)
    <2> SUFFICES ASSUME NEW k \in 1..(m + n), NEW l \in 1..(m + n),
                        NEW i \in DOMAIN z[k], NEW j \in DOMAIN z[l], z[k][i] = z[l][j]
                 PROVE  k = l /\ i = j
      BY <1>5 DEF Singly
    <2>1. z[k][i] \in ToSet(z[k]) /\ z[l][j] \in ToSet(z[l])
      BY DEF ToSet
    <2>2. CASE k \in 1..m /\ z[k] = x[k] /\ l \in 1..m /\ z[l] = x[l]
      BY <1>3, <1>11, <2>2 DEF Singly
    <2>3. CASE k - m \in 1..n /\ z[k] = y[k - m] /\ l - m \in 1..n /\ z[l] = y[l - m]
      <3>1. k - m = l - m /\ i = j
        BY <1>3, <1>11, <2>3 DEF Singly
      <3> QED
        BY <1>3, <3>1
    <2>4. CASE k \in 1..m /\ z[k] = x[k] /\ l - m \in 1..n /\ z[l] = y[l - m]
      <3>1. z[k][i] \in Values(x) /\ z[l][j] \in Values(y)
        BY <1>9, <2>1, <2>4
      <3> QED
        BY <1>11, <3>1
    <2>5. CASE k - m \in 1..n /\ z[k] = y[k - m] /\ l \in 1..m /\ z[l] = x[l]
      <3>1. z[k][i] \in Values(y) /\ z[l][j] \in Values(x)
        BY <1>9, <2>1, <2>5
      <3> QED
        BY <1>11, <3>1
    <2> QED
      BY <1>8, <2>2, <2>3, <2>4, <2>5
  <1> QED
    BY <1>5, <1>10, <1>11 DEF z

LEMMA SinglyIs ==
  ASSUME NEW items, AllRise(items), Apart(items), Values(items) \subseteq Nat
  PROVE  Singly(items)
  <1> SUFFICES ASSUME NEW k \in DOMAIN items, NEW l \in DOMAIN items,
                      NEW i \in DOMAIN items[k], NEW j \in DOMAIN items[l],
                      items[k][i] = items[l][j]
               PROVE  k = l /\ i = j
    BY DEF Singly
  <1>1. items[k][i] \in ToSet(items[k]) /\ items[l][j] \in ToSet(items[l])
    BY DEF ToSet
  <1>2. k = l
    BY <1>1 DEF Apart
  <1>3. items[k][i] \in Nat
    BY <1>1 DEF Values
  <1>4. i \in Nat /\ j \in Nat /\ j \in DOMAIN items[k] /\ items[k][i] = items[k][j]
    BY <1>2 DEF AllRise, Rising
  <1>5. ~(i < j) /\ ~(j < i)
    BY <1>3, <1>4 DEF AllRise, Rising
  <1>6. i = j
    BY <1>4, <1>5
  <1> QED
    BY <1>2, <1>6

LEMMA LessApart ==
  ASSUME NEW X \in SUBSET Nat, NEW Y \in SUBSET Nat, Less(X, Y)
  PROVE  X \cap Y = {}
  <1>1. \A i \in Nat : ~(i < i)
    OBVIOUS
  <1> QED
    BY <1>1 DEF Less

\* The items of a log, or of the history.
LEMMA ItemsSeq ==
  ASSUME NEW S, NEW r \in Seq(S)
  PROVE  IsSeq(Items(r)) /\ DOMAIN Items(r) = 1..Len(r) /\ Len(r) \in Nat
  <1> DEFINE T == {r[k].item : k \in DOMAIN r}
  <1>1. DOMAIN r = 1..Len(r) /\ Len(r) \in Nat
    BY LenProperties
  <1>2. Items(r) \in [1..Len(r) -> T]
    BY <1>1 DEF Items
  <1> HIDE DEF T
  <1>3. Items(r) \in Seq(T)
    BY <1>1, <1>2, IsASeq
  <1> QED
    BY <1>1, <1>3 DEF IsSeq, Items

LEMMA OrderedSingly ==
  ASSUME NEW n \in Nat, NEW items, DOMAIN items = 1..n, AllRise(items), InOrder(items),
         Values(items) \subseteq Nat
  PROVE  Singly(items)
  <1>1. \A k \in 1..n : ToSet(items[k]) \in SUBSET Nat
    BY DEF Values
  <1>2. ASSUME NEW k \in 1..n, NEW l \in 1..n, k # l
        PROVE  ToSet(items[k]) \cap ToSet(items[l]) = {}
    <2>1. CASE k < l
      <3>1. Less(ToSet(items[k]), ToSet(items[l]))
        BY <2>1 DEF InOrder
      <3> QED
        BY <1>1, <3>1, LessApart
    <2>2. CASE l < k
      <3>1. Less(ToSet(items[l]), ToSet(items[k]))
        BY <2>2 DEF InOrder
      <3>2. ToSet(items[l]) \cap ToSet(items[k]) = {}
        BY <1>1, <3>1, LessApart
      <3> QED
        BY <3>2
    <2> QED
      BY <1>2, <2>1, <2>2
  <1>3. Apart(items)
    BY <1>2 DEF Apart
  <1> QED
    BY <1>3, SinglyIs

\* What is under way: only the head has an item.
LEMMA AgendaItems ==
  ASSUME Typing, phase # "built", Placed
  PROVE  /\ IsSeq(Items(agenda)) /\ Values(Items(agenda)) = ToSet(Cur) /\ Singly(Items(agenda))
  <1> DEFINE a == Items(agenda)
             n == Len(agenda)
  <1>1. PICK L : agenda \in Seq(Tasks(L))
    BY DEF Typing, Typed, AgendaOK
  <1>2. IsSeq(a) /\ DOMAIN a = 1..n /\ n \in Nat /\ DOMAIN agenda = 1..n
    BY <1>1, ItemsSeq, LenProperties
  <1>3. \A k \in 1..n : a[k] = agenda[k].item
    BY <1>2 DEF Items
  <1>4. \A k \in 1..n : k > 1 => a[k] = <<>>
    BY <1>3 DEF Placed, Lone, Alone
  <1>5. n > 0 => a[1] = Cur
    <2> SUFFICES ASSUME n > 0
                 PROVE  a[1] = Cur
      OBVIOUS
    <2>1. agenda # <<>>
      <3>1. Len(<<>>) = 0
        OBVIOUS
      <3> QED
        BY <1>2, <3>1
    <2>2. Top = agenda[1] /\ 1 \in 1..n
      BY <1>2, <2>1, HeadTyped DEF Typing
    <2> QED
      BY <1>3, <2>1, <2>2 DEF Cur
  <1>6. n = 0 => Cur = <<>>
    BY <1>1, EmptySeq, NothingUnderWay
  <1>7. ToSet(<<>>) = {} /\ DOMAIN <<>> = {} /\ Rising(<<>>)
    BY ToSetEmpty
  <1> HIDE DEF a, n
  <1>8. \A k \in 1..n : k = 1 \/ k > 1
    BY <1>2
  <1>9. ASSUME NEW v PROVE (\E k \in 1..n : v \in ToSet(a[k])) <=> v \in ToSet(Cur)
    <2>1. CASE n = 0
      BY <1>6, <1>7, <2>1
    <2>2. CASE n > 0
      <3>1. 1 \in 1..n
        BY <1>2, <2>2
      <3> QED
        BY <1>4, <1>5, <1>7, <1>8, <2>2, <3>1
    <2> QED
      BY <1>2, <2>1, <2>2
  <1>10. \A v : v \in Values(a) <=> \E k \in 1..n : v \in ToSet(a[k])
    BY <1>2 DEF Values
  <1>11. Values(a) = ToSet(Cur)
    BY <1>9, <1>10
  <1>12. Rising(Cur) /\ ToSet(Cur) \in SUBSET Nat
    BY PlacesTyped DEF Placed, Pieces
  <1>13. AllRise(a)
    <2> SUFFICES ASSUME NEW k \in 1..n
                 PROVE  Rising(a[k])
      BY <1>2 DEF AllRise
    <2>1. CASE k = 1
      BY <1>2, <1>5, <1>12, <2>1
    <2>2. CASE k > 1
      BY <1>4, <1>7, <2>2
    <2> QED
      BY <1>8, <2>1, <2>2
  <1>14. Apart(a)
    <2> SUFFICES ASSUME NEW k \in 1..n, NEW l \in 1..n, k # l
                 PROVE  ToSet(a[k]) \cap ToSet(a[l]) = {}
      BY <1>2 DEF Apart
    <2>1. k > 1 \/ l > 1
      BY <1>8
    <2>2. ToSet(a[k]) = {} \/ ToSet(a[l]) = {}
      BY <1>4, <1>7, <2>1
    <2> QED
      BY <2>2
  <1>15. Singly(a)
    BY <1>11, <1>12, <1>13, <1>14, SinglyIs
  <1> QED
    BY <1>2, <1>11, <1>15 DEF a

\* The groups.
LEMMA HeldItems ==
  ASSUME Typing, phase # "built", Placed
  PROVE  /\ IsSeq(held) /\ Singly(held)
         /\ Values(held) = UNION {Groups[b] : b \in DOMAIN Groups} /\ Values(held) \subseteq Nat
  <1> DEFINE n == Len(chain)
  <1>1. /\ n \in Nat /\ held \in [1..n -> Seq(Nat)] /\ DOMAIN Groups = 1..n /\ DOMAIN held = 1..n
        /\ \A b \in 1..n : Groups[b] = ToSet(held[b]) /\ Groups[b] \in SUBSET Nat
    BY PlacesTyped
  <1>2. AllRise(held)
    BY <1>1 DEF Placed, Pieces, AllRise
  <1>3. \A b, c \in 1..n : b < c => Less(Groups[c], Groups[b])
    BY <1>1 DEF Placed, Line
  <1> HIDE DEF n
  <1>4. IsSeq(held)
    <2>1. held \in Seq(Seq(Nat))
      BY <1>1, IsASeq
    <2> QED
      BY <2>1 DEF IsSeq
  <1>5. Values(held) = UNION {Groups[b] : b \in 1..n}
    BY <1>1 DEF Values
  <1>6. Values(held) \subseteq Nat
    BY <1>1, <1>5
  <1>7. ASSUME NEW b \in 1..n, NEW c \in 1..n, b # c
        PROVE  ToSet(held[b]) \cap ToSet(held[c]) = {}
    <2>1. CASE b < c
      <3>1. Less(Groups[c], Groups[b])
        BY <1>3, <2>1
      <3>2. Groups[c] \cap Groups[b] = {}
        BY <1>1, <3>1, LessApart
      <3> QED
        BY <1>1, <3>2
    <2>2. CASE c < b
      <3>1. Less(Groups[b], Groups[c])
        BY <1>3, <2>2
      <3>2. Groups[b] \cap Groups[c] = {}
        BY <1>1, <3>1, LessApart
      <3> QED
        BY <1>1, <3>2
    <2> QED
      BY <1>1, <1>7, <2>1, <2>2
  <1>8. Apart(held)
    BY <1>1, <1>7 DEF Apart
  <1> QED
    BY <1>1, <1>2, <1>4, <1>5, <1>6, <1>8, SinglyIs

LEMMA OnceIs ==
  ASSUME NEW items, NEW n, Singly(items), Values(items) = 1..n
  PROVE  Once(items, n)
  BY DEF Singly, Values, Once

LEMMA WholeHolds == AccountInv /\ Whole => NothingLost
  <1> SUFFICES ASSUME AccountInv, Whole, Started, Conserving
               PROVE  LET sink == Items(sinks[2])
                      IN  /\ \A k, l \in DOMAIN sink : \A i \in DOMAIN sink[k], j \in DOMAIN sink[l] :
                                k < l \/ (k = l /\ i < j) => sink[k][i] < sink[l][j]
                          /\ first_error = NoFailure =>
                                /\ Once(sink \o Items(agenda) \o held \o Items(failures), tally.items_in)
                                /\ phase = "ended" => \A at \in DOMAIN held : held[at] = <<>>
    BY DEF NothingLost
  <1> DEFINE sink == Items(sinks[2])
  <1>1. Typing /\ Lettered /\ phase # "built" /\ AllRise(sink) /\ InOrder(sink)
    BY DEF AccountInv, Started, Typing, Typed, Built, Whole, Ordered
  <1>2. ASSUME NEW k \in DOMAIN sink, NEW l \in DOMAIN sink, NEW i \in DOMAIN sink[k],
               NEW j \in DOMAIN sink[l], k < l \/ (k = l /\ i < j)
        PROVE  sink[k][i] < sink[l][j]
    <2> HIDE DEF sink
    <2>1. CASE k < l
      <3>1. sink[k][i] \in ToSet(sink[k]) /\ sink[l][j] \in ToSet(sink[l])
        BY DEF ToSet
      <3> QED
        BY <1>1, <2>1, <3>1 DEF InOrder, Less
    <2>2. CASE k = l /\ i < j
      BY <1>1, <2>2 DEF AllRise, Rising
    <2> QED
      BY <1>2, <2>1, <2>2
  <1>3. ASSUME first_error = NoFailure
        PROVE  /\ Once(sink \o Items(agenda) \o held \o Items(failures), tally.items_in)
               /\ phase = "ended" => \A at \in DOMAIN held : held[at] = <<>>
    <2>1. Placed
      BY <1>1, <1>3 DEF Whole
    <2> DEFINE gone == Items(failures)
               way == Items(agenda)
               n == tally.items_in
    <2>2. /\ Len(chain) \in Nat /\ n \in Nat /\ AtSink = Len(chain) + 1 /\ DOMAIN held = 1..Len(chain)
          /\ Groups \in [1..Len(chain) -> SUBSET Nat] /\ ToSet(Cur) \in SUBSET Nat
          /\ AtTheSink \in SUBSET Nat
      BY <1>1, <2>1, PlacesTyped
    <2>3. /\ Line(AtTheSink, Groups, ToSet(Cur), Pos)
          /\ Cover(AtTheSink, Groups, ToSet(Cur), GivenUp, n)
          /\ AllRise(gone) /\ Apart(gone)
      BY <2>1 DEF Placed
    <2>4. IsSeq(sink) /\ Values(sink) = AtTheSink /\ Singly(sink)
      <3>1. PICK S : sinks[2] \in Seq(S)
        BY <1>1 DEF Typing, FlowInv, Logged
      <3>2. IsSeq(sink) /\ DOMAIN sink = 1..Len(sinks[2]) /\ Len(sinks[2]) \in Nat
        BY <3>1, ItemsSeq
      <3>3. Values(sink) = AtTheSink
        BY DEF AtTheSink
      <3> HIDE DEF sink
      <3> QED
        BY <1>1, <2>2, <3>2, <3>3, OrderedSingly
    <2>5. IsSeq(way) /\ Values(way) = ToSet(Cur) /\ Singly(way)
      BY <1>1, <2>1, AgendaItems
    <2> DEFINE all == UNION {Groups[b] : b \in DOMAIN Groups}
    <2>6. IsSeq(held) /\ Values(held) = all /\ Singly(held) /\ Values(held) \subseteq Nat
      BY <1>1, <2>1, HeldItems
    <2>7. IsSeq(gone) /\ Values(gone) = GivenUp /\ Singly(gone)
      <3>1. PICK S : failures \in Seq(S)
        BY <1>1 DEF Lettered
      <3>2. IsSeq(gone)
        BY <3>1, ItemsSeq
      <3>3. Values(gone) = GivenUp /\ GivenUp \subseteq Nat
        <4>1. GivenUp \subseteq 1..n
          BY <2>3 DEF Cover
        <4> QED
          BY <4>1 DEF GivenUp
      <3> HIDE DEF gone
      <3> QED
        BY <2>3, <3>2, <3>3, SinglyIs
    <2>8. /\ AtTheSink \cap ToSet(Cur) = {}
          /\ \A b \in DOMAIN Groups : AtTheSink \cap Groups[b] = {} /\ ToSet(Cur) \cap Groups[b] = {}
      <3>1. AtTheSink \cap ToSet(Cur) = {}
        BY <2>2, <2>3, LessApart DEF Line
      <3>2. ASSUME NEW b \in DOMAIN Groups
            PROVE  AtTheSink \cap Groups[b] = {} /\ ToSet(Cur) \cap Groups[b] = {}
        <4>1. Groups[b] \in SUBSET Nat /\ Less(AtTheSink, Groups[b])
              /\ (Less(ToSet(Cur), Groups[b]) \/ Less(Groups[b], ToSet(Cur)))
          BY <2>2, <2>3 DEF Line
        <4>2. AtTheSink \cap Groups[b] = {}
          BY <2>2, <4>1, LessApart
        <4>3. CASE Less(ToSet(Cur), Groups[b])
          BY <2>2, <4>1, <4>2, <4>3, LessApart
        <4>4. CASE Less(Groups[b], ToSet(Cur))
          <5>1. Groups[b] \cap ToSet(Cur) = {}
            BY <2>2, <4>1, <4>4, LessApart
          <5> QED
            BY <4>2, <5>1
        <4> QED
          BY <4>1, <4>3, <4>4
      <3> QED
        BY <3>1, <3>2
    <2>9. /\ AtTheSink \cap ToSet(Cur) = {} /\ (AtTheSink \cup ToSet(Cur)) \cap all = {}
          /\ (AtTheSink \cup ToSet(Cur) \cup all) \cap GivenUp = {}
          /\ AtTheSink \cup ToSet(Cur) \cup all \cup GivenUp = 1..n
      <3>1. \A b \in DOMAIN Groups : GivenUp \cap Groups[b] = {}
        BY <2>3 DEF Cover
      <3>2. GivenUp \cap AtTheSink = {} /\ GivenUp \cap ToSet(Cur) = {}
            /\ AtTheSink \cup ToSet(Cur) \cup GivenUp \cup all = 1..n
        BY <2>3 DEF Cover
      <3> QED
        BY <2>8, <3>1, <3>2
    <2> HIDE DEF sink, way, gone, all, n
    <2>10. IsSeq(sink \o way) /\ Values(sink \o way) = AtTheSink \cup ToSet(Cur) /\ Singly(sink \o way)
      BY <2>4, <2>5, <2>9, Joined
    <2> DEFINE two == sink \o way
    <2>11. IsSeq(two) /\ Values(two) = AtTheSink \cup ToSet(Cur) /\ Singly(two)
      BY <2>10
    <2> HIDE DEF two
    <2>12. /\ IsSeq(two \o held) /\ Values(two \o held) = AtTheSink \cup ToSet(Cur) \cup all
           /\ Singly(two \o held)
      BY <2>6, <2>9, <2>11, Joined
    <2> DEFINE three == two \o held
    <2>13. /\ IsSeq(three) /\ Values(three) = AtTheSink \cup ToSet(Cur) \cup all
           /\ Singly(three)
      BY <2>12
    <2> HIDE DEF three
    <2>14. Values(three \o gone) = 1..n /\ Singly(three \o gone)
      BY <2>7, <2>9, <2>13, Joined
    <2>15. Once(three \o gone, n)
      BY <2>14, OnceIs
    <2>16. phase = "ended" => \A at \in DOMAIN held : held[at] = <<>>
      BY <2>1, <2>2 DEF Placed, Flushed, Drained
    <2> QED
      BY <2>15, <2>16 DEF three, two, way, gone, n
  <1> QED
    BY <1>2, <1>3

\* For every chain whose stages make one output of an input, or one of a group of
\* them, every fault and cancellation: until something fails the run, the stage
\* closures of pipeline.rs have each pulled item in one place - at the sink, in a
\* batch or a window, under way, or given up by a stage whose policy says so; the
\* sink has them in the order of the pulls; and a run that succeeds has flushed
\* every group.
THEOREM FlowNothingLost == Spec => []NothingLost
  <1>1. Init => AccountInv /\ Whole
    BY TypingInit, AccountInit, WholeInit DEF AccountInv
  <1>2. AccountInv /\ Whole /\ [Next]_vars => AccountInv' /\ Whole'
    BY TypingStep, RetriedStep, TakenStep, LetteredStep, WholeStep DEF AccountInv
  <1> QED
    BY <1>1, <1>2, WholeHolds, PTL DEF Spec
=============================================================================
