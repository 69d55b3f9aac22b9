-------------------------------- MODULE Flow --------------------------------
(***************************************************************************)
(* A pipeline as Builder leaves it, run on the calling thread: the stage   *)
(* closures of src/pipeline.rs with the error handling of src/runtime.rs   *)
(* and the back-off of src/retry.rs, between a ChainSource of two sources  *)
(* (src/source.rs) and a TeeSink of two sinks (src/sink.rs).               *)
(*                                                                         *)
(* A stage calls the next one and returns to the caller: what the calls    *)
(* under way have still to do is a stack, `agenda`, whose head runs next.  *)
(* An item is the sequence of the pulled items it is made of, a pulled     *)
(* item the number of its pull; a group is several items put together.     *)
(*                                                                         *)
(* Left out: panics and steps of a pipeline that is kept (Lifecycle), when *)
(* a batch or a window is complete (Batch, KeyedWindow), the observer, the *)
(* end of the dead-letter sink (Lifecycle), and edges (Edge, Threaded).    *)
(***************************************************************************)
EXTENDS Builder, SequencesExt, FiniteSetsExt

CONSTANTS
    MaxItems,       \* bound: items pulled in a run
    MaxTicks,       \* bound: idle answers in a run
    MaxFaults,      \* bound: failures of a source, a sink, the dead-letter sink
    Fan,            \* bound: outputs of a map for the first item; all others have 1
    Interval,       \* the idle tick's interval
    MaxClosing,     \* bound: how long the first source takes to close
    NanosMax,       \* the longest delay counted in nanoseconds
    InstantMax      \* a deadline further away than this is no instant

ASSUME FlowAssumption ==
    /\ MaxItems \in Nat /\ MaxTicks \in Nat /\ MaxFaults \in Nat
    /\ Fan \in Nat \ {0} /\ Interval \in Nat \ {0} /\ MaxClosing \in Nat
    /\ NanosMax \in Nat /\ InstantMax \in Nat

VARIABLES
    phase,          \* where Runner is: see Phases
    agenda,         \* the stack of calls, the innermost first
    held,           \* for each stage, the items a group is collecting
    written,        \* what the current call of Runner has counted so far
    tally,
    source,         \* ChainSource and the two halves' lives
    waited,         \* how long the latest pull took, and its switch of sources
    sinks,          \* the calls each half of TeeSink has had
    sink_done,      \* sink_fn's `flushed` and `closed`
    dlq,            \* the dead letters written
    first_error,
    cancelled,
    faults,         \* bound: failures so far
    failures,       \* history: what the stages gave up on, in order
    tries           \* history: try_map_retry's items and the calls made for them

flowVars == <<phase, agenda, held, written, tally, source, waited, sinks,
              sink_done, dlq, first_error, cancelled, faults, failures, tries>>
vars == <<builderVars, flowVars>>

Phases == {"built", "pump", "switch", "flush", "close", "abort", "rest", "ended"}

Error(from, id) == [from |-> from, id |-> id]
NoFailure == Error(None, None)

Tally == [items_in : Nat, items_out : Nat, errors : Nat, dead_lettered : Nat,
          retries : Nat]

Task(op, at) == [op |-> op, at |-> at, item |-> <<>>, attempt |-> 0, left |-> 0]
Process(at, item) == [Task("process", at) EXCEPT !.item = item, !.attempt = 1]
Passes(n, at, item) == [k \in 1..n |-> Process(at, item)]

Outputs(item) == 0..(IF 1 \in ToSet(item) THEN Fan ELSE 1)

Call(op, item) ==
    <<[Task(op, 1) EXCEPT !.item = item, !.attempt = 1], Task("return", 0)>>

Top == Head(agenda)
Under == Tail(agenda)
AtSink == Len(chain) + 1

Init ==
    /\ BuilderInit
    /\ phase = "built"
    /\ agenda = <<>>
    /\ held = <<>>
    /\ written = 0
    /\ tally = [items_in |-> 0, items_out |-> 0, errors |-> 0,
                dead_lettered |-> 0, retries |-> 0]
    /\ source = [first |-> TRUE, closed |-> <<0, 0>>, idle |-> 0]
    /\ waited = [switch |-> 0, all |-> 0]
    /\ sinks = <<<<>>, <<>>>>
    /\ sink_done = [call \in {"flush", "close"} |-> FALSE]
    /\ dlq = <<>>
    /\ first_error = NoFailure
    /\ cancelled = FALSE
    /\ faults = 0
    /\ failures = <<>>
    /\ tries = [calls |-> 0, items |-> 0]

Fault ==
    /\ faults < MaxFaults
    /\ faults' = faults + 1

-----------------------------------------------------------------------------
(* How a call ends. *)

Offer(error) == IF first_error = NoFailure THEN error ELSE first_error

\* A slip: what the stages had still to emit is passed on before the abort.
HaltLate(error) ==
    LET again == phase \in {"pump", "switch", "flush"}
        emitting == IF agenda = <<>> THEN <<>>
                    ELSE SelectSeq(Under, LAMBDA task : task.op = "process")
    IN  /\ phase' = IF again THEN "abort" ELSE "rest"
        /\ agenda' = emitting \o (IF again THEN Call("abort", <<>>) ELSE <<>>)
        /\ first_error' = Offer(error)
        /\ UNCHANGED written

\* Err(Halt): every call under way ends, and with it the count of what it
\* wrote.  An item or a flush that failed is followed by an abort; a close
\* or an abort that failed is not.
Halt(error) ==
    LET again == phase \in {"pump", "switch", "flush"}
    IN  /\ phase' = IF again THEN "abort" ELSE "rest"
        /\ agenda' = IF again THEN Call("abort", <<>>) ELSE <<>>
        /\ written' = 0
        /\ first_error' = Offer(error)

\* The head of the agenda is done and leaves `more` to do.
Goes(more) ==
    /\ agenda' = more \o Under
    /\ UNCHANGED <<phase, written, first_error>>

Keeps(at) == chain[at].kind \in {"try_map_ref", "try_map_retry"}

\* keep_input: only for a dead letter, and only if the closure borrowed it.
KeepInput(at, item) ==
    IF chain[at].policy = "DeadLetter" /\ Keeps(at) THEN item ELSE <<>>

Letter(at, item, attempts) ==
    [stage |-> chain[at].id, input |-> KeepInput(at, item), attempts |-> attempts]

\* A slip: the letter is counted before it is written.
CountThenRoute(at, item, attempts) ==
    /\ tally' = [tally EXCEPT !.errors = @ + 1, !.dead_lettered = @ + 1]
    /\ \/ /\ dlq' = Append(dlq, Letter(at, item, attempts))
          /\ Goes(<<>>)
          /\ UNCHANGED faults
       \/ /\ Fault
          /\ Halt(Error("sink", "dead_letter"))
          /\ UNCHANGED dlq

Route(at, item, attempts) ==
    \/ /\ dlq' = Append(dlq, Letter(at, item, attempts))
       /\ tally' = [tally EXCEPT !.errors = @ + 1, !.dead_lettered = @ + 1]
       /\ Goes(<<>>)
       /\ UNCHANGED faults
    \/ /\ Fault
       /\ tally' = [tally EXCEPT !.errors = @ + 1]
       /\ Halt(Error("sink", "dead_letter"))
       /\ UNCHANGED dlq

\* handle_failure and report_failure: stage `at` has failed for good.
Fails(at, item, attempts) ==
    LET policy == chain[at].policy IN
    /\ failures' = Append(failures, [at |-> at, item |-> item, attempts |-> attempts])
    /\ \/ /\ policy = "DeadLetter"
          /\ Route(at, item, attempts)
       \/ /\ policy = "Continue"
          /\ tally' = [tally EXCEPT !.errors = @ + 1]
          /\ Goes(<<>>)
          /\ UNCHANGED <<dlq, faults>>
       \/ /\ policy = "FailFast"
          /\ tally' = [tally EXCEPT !.errors = @ + 1]
          /\ Halt(Error("stage", chain[at].id))
          /\ UNCHANGED <<dlq, faults>>

-----------------------------------------------------------------------------
(* The stages.  Each step takes the head of the agenda, which is at a       *)
(* stage of the kind named.                                                 *)

StageIs(op, kinds) ==
    /\ agenda # <<>>
    /\ Top.op = op
    /\ Top.at \in 1..Len(chain)
    /\ chain[Top.at].kind \in kinds

\* What no stage touches.
Outside == <<builderVars, source, waited, sinks, sink_done, cancelled>>

\* map, filter, filter_map, flat_map, inspect.
MapItem ==
    /\ StageIs("process", {"map"})
    /\ \E n \in Outputs(Top.item) : Goes(Passes(n, Top.at + 1, Top.item))
    /\ UNCHANGED <<Outside, held, tally, dlq, faults, failures, tries>>

TryItem ==
    /\ StageIs("process", {"try_map", "try_map_ref"})
    /\ UNCHANGED <<Outside, held, tries>>
    /\ \/ /\ Goes(Passes(1, Top.at + 1, Top.item))
          /\ UNCHANGED <<tally, dlq, faults, failures>>
       \/ Fails(Top.at, Top.item, 1)

\* A custom stage, through drive and StageEmit: it emits, then may fail.
StageItem ==
    /\ StageIs("process", {"stage"})
    /\ \E n \in 0..1 : \E fails \in {<<>>, <<Task("fail", Top.at)>>} :
          Goes(Passes(n, Top.at + 1, Top.item) \o fails)
    /\ UNCHANGED <<Outside, held, tally, dlq, faults, failures, tries>>

StageFails ==
    /\ StageIs("fail", {"stage"})
    /\ Fails(Top.at, <<>>, 1)
    /\ UNCHANGED <<Outside, held, tries>>

\* A batch, or one window at a time: the item joins the group, ends it, or
\* starts a new one.
GroupItem ==
    /\ StageIs("process", {"group"})
    /\ LET at == Top.at
           with == held[at] \o Top.item
       IN  \/ /\ held' = [held EXCEPT ![at] = with]
              /\ Goes(<<>>)
           \/ /\ held' = [held EXCEPT ![at] = <<>>]
              /\ Goes(Passes(1, at + 1, with))
           \/ /\ held[at] # <<>>
              /\ held' = [held EXCEPT ![at] = Top.item]
              /\ Goes(Passes(1, at + 1, held[at]))
    /\ UNCHANGED <<Outside, tally, dlq, faults, failures, tries>>

\* A signal at a stage that has nothing to do with it.
Signal ==
    /\ \/ \E op \in {"tick", "flush"} : StageIs(op, Transforms \ {"group", "stage"})
       \/ \E op \in {"close", "abort"} : StageIs(op, Transforms)
    /\ Goes(<<Task(Top.op, Top.at + 1)>>)
    /\ UNCHANGED <<Outside, held, tally, dlq, faults, failures, tries>>

\* The default tick and flush of a custom stage do nothing; others may fail,
\* and the signal goes on if the policy let the failure pass.
StageSignal ==
    /\ \E op \in {"tick", "flush"} : StageIs(op, {"stage"})
    /\ \E fails \in {<<>>, <<Task("fail", Top.at)>>} :
          Goes(fails \o <<Task(Top.op, Top.at + 1)>>)
    /\ UNCHANGED <<Outside, held, tally, dlq, faults, failures, tries>>

GroupTick ==
    /\ StageIs("tick", {"group"})
    /\ LET at == Top.at IN
       \/ /\ Goes(<<Task("tick", at + 1)>>)
          /\ UNCHANGED held
       \/ /\ held[at] # <<>>
          /\ Goes(Append(Passes(1, at + 1, held[at]), Task("tick", at + 1)))
          /\ held' = [held EXCEPT ![at] = <<>>]
    /\ UNCHANGED <<Outside, tally, dlq, faults, failures, tries>>

\* A slip: the later stages are flushed first.
FlushThenEmit(at) ==
    <<Task("flush", at + 1)>> \o Passes(IF held[at] = <<>> THEN 0 ELSE 1, at + 1, held[at])

EmitThenFlush(at) ==
    Append(Passes(IF held[at] = <<>> THEN 0 ELSE 1, at + 1, held[at]), Task("flush", at + 1))

GroupFlush ==
    /\ StageIs("flush", {"group"})
    /\ Goes(EmitThenFlush(Top.at))
    /\ held' = [held EXCEPT ![Top.at] = <<>>]
    /\ UNCHANGED <<Outside, tally, dlq, faults, failures, tries>>

-----------------------------------------------------------------------------
(* try_map_retry. *)

\* RetryPolicy::base_delay: the delay after failed attempt `attempt`.
base_delay(policy, attempt) ==
    CASE policy.backoff = "None" -> 0
      [] policy.backoff = "Fixed" -> policy.initial
      [] policy.backoff = "Exponential" ->
            Min({policy.initial * 2^Min({attempt - 1, 63}), NanosMax, policy.max})

delay_for(policy, attempt) ==
    IF policy.jitter THEN 0..base_delay(policy, attempt)
                     ELSE {base_delay(policy, attempt)}

\* The closure is called.
Tried ==
    tries' = [calls |-> tries.calls + 1,
              items |-> IF Top.attempt = 1 THEN tries.items + 1 ELSE tries.items]

\* A retry is counted before the wait for it.
RetryItem ==
    /\ StageIs("process", {"try_map_retry"})
    /\ Tried
    /\ UNCHANGED <<Outside, held>>
    /\ LET policy == RetryPolicy[chain[Top.at].retry] IN
       \/ /\ Goes(Passes(1, Top.at + 1, Top.item))
          /\ UNCHANGED <<tally, dlq, faults, failures>>
       \/ /\ Top.attempt < policy.max_attempts
          /\ tally' = [tally EXCEPT !.retries = @ + 1]
          /\ \E delay \in delay_for(policy, Top.attempt) :
                Goes(<<[Top EXCEPT !.op = "backoff", !.left = delay]>>)
          /\ UNCHANGED <<dlq, faults, failures>>
       \/ /\ Top.attempt >= policy.max_attempts
          /\ Fails(Top.at, Top.item, Top.attempt)

\* What is left of the wait after one more slice; a deadline that is no
\* instant never comes nearer.
Slept(left) == IF left > InstantMax THEN left ELSE left - 1

\* A slip: the flag is looked at only when the wait is over.
BackoffBlind ==
    /\ StageIs("backoff", {"try_map_retry"})
    /\ UNCHANGED <<Outside, held, tries>>
    /\ \/ /\ Top.left > 0
          /\ Goes(<<[Top EXCEPT !.left = Slept(@)]>>)
          /\ UNCHANGED <<tally, dlq, faults, failures>>
       \/ /\ Top.left = 0 /\ ~cancelled
          /\ Goes(<<Process(Top.at, Top.item)>>)
          /\ UNCHANGED <<tally, dlq, faults, failures>>

\* sleep_unless_cancelled, a slice at a time, and what follows it.
Backoff ==
    /\ StageIs("backoff", {"try_map_retry"})
    /\ UNCHANGED <<Outside, held, tries>>
    /\ \/ /\ cancelled
          /\ Fails(Top.at, Top.item, Top.attempt)
       \/ /\ ~cancelled /\ Top.left > 0
          /\ Goes(<<[Top EXCEPT !.left = Slept(@)]>>)
          /\ UNCHANGED <<tally, dlq, faults, failures>>
       \/ /\ ~cancelled /\ Top.left = 0
          /\ Goes(<<[Top EXCEPT !.op = "process", !.attempt = @ + 1]>>)
          /\ UNCHANGED <<tally, dlq, faults, failures>>

-----------------------------------------------------------------------------
(* The sink. *)

AtEnd(op) ==
    /\ agenda # <<>>
    /\ Top.op = op
    /\ Top.at = AtSink

SinkFailed == Halt(Error("sink", None))

Entry(call, item) == [call |-> call, item |-> item]

\* A slip: a failure of the first half keeps the call from the second.
TeeShort(logs, call, failing) ==
    [h \in 1..2 |-> IF failing = 1 /\ h = 2 THEN logs[h]
                    ELSE Append(logs[h], Entry(call, <<>>))]

\* flush and close reach both halves, whichever of them fails; 0 is neither.
Tee(logs, call, failing) ==
    [h \in 1..2 |-> Append(logs[h], Entry(call, <<>>))]

\* TeeSink::write: the second half sees an item only if the first took it.
SinkItem ==
    /\ AtEnd("process")
    /\ \E n \in 0..2 :
          /\ sinks' = [h \in 1..2 |->
                IF h <= n THEN Append(sinks[h], Entry("write", Top.item)) ELSE sinks[h]]
          /\ \/ /\ n = 2
                /\ written' = written + 1
                /\ agenda' = Under
                /\ UNCHANGED <<phase, first_error, faults>>
             \/ /\ n < 2
                /\ Fault
                /\ SinkFailed
    /\ UNCHANGED <<builderVars, held, tally, source, waited, sink_done, dlq, cancelled,
                   failures, tries>>

SinkTick ==
    /\ AtEnd("tick")
    /\ Goes(<<>>)
    /\ UNCHANGED <<Outside, held, tally, dlq, faults, failures, tries>>

\* sink_fn makes each of the calls once: an abort makes those not yet made.
SinkEnd ==
    /\ \E op \in {"flush", "close", "abort"} : AtEnd(op)
    /\ LET due == {call \in {"flush", "close"} :
                     Top.op \in {call, "abort"} /\ ~sink_done[call]}
       IN \E failing \in [due -> 0..2] :
          /\ sink_done' = [call \in {"flush", "close"} |-> sink_done[call] \/ call \in due]
          /\ sinks' = LET flushed == IF "flush" \in due
                                    THEN Tee(sinks, "flush", failing["flush"]) ELSE sinks
                      IN  IF "close" \in due
                          THEN Tee(flushed, "close", failing["close"]) ELSE flushed
          /\ \/ /\ \A call \in due : failing[call] = 0
                /\ Goes(<<>>)
                /\ UNCHANGED faults
             \/ /\ \E call \in due : failing[call] # 0
                /\ Fault
                /\ SinkFailed
    /\ UNCHANGED <<builderVars, held, tally, source, waited, dlq, cancelled, failures, tries>>

-----------------------------------------------------------------------------
(* The source: ChainSource drains and closes the first one, then turns to   *)
(* the second.  Only with the idle tick may a pull end without an answer.   *)

\* Chain variables that a pull leaves alone.
Inside == <<builderVars, held, written, sinks, sink_done, dlq, cancelled, failures, tries>>

Pulls(item, then) ==
    /\ agenda' = Call(item, then)
    /\ phase' = "pump"
    /\ UNCHANGED first_error

GotItem ==
    /\ tally.items_in < MaxItems
    /\ tally' = [tally EXCEPT !.items_in = @ + 1]
    /\ Pulls("process", <<tally.items_in + 1>>)
    /\ UNCHANGED <<source, faults>>

GotIdle ==
    /\ idle_tick
    /\ source.idle < MaxTicks
    /\ source' = [source EXCEPT !.idle = @ + 1]
    /\ Pulls("tick", <<>>)
    /\ UNCHANGED <<tally, faults>>

SourceFailed ==
    /\ Fault
    /\ Halt(Error("source", None))
    /\ UNCHANGED tally

NoWait == [switch |-> 0, all |-> 0]

Ready == phase = "pump" /\ agenda = <<>> /\ ~cancelled

PullFirst ==
    /\ Ready /\ source.first
    /\ \/ GotItem /\ waited' = NoWait
       \/ GotIdle /\ waited' = [switch |-> 0, all |-> Interval]
       \/ SourceFailed /\ waited' = NoWait /\ UNCHANGED source
    /\ UNCHANGED Inside

\* retire_first, after a wait: the first source is taken, then closed.
Retire ==
    /\ Ready /\ source.first
    /\ source' = [source EXCEPT !.first = FALSE, !.closed[1] = @ + 1]
    /\ \E waiting \in (IF idle_tick THEN 0..Interval ELSE {0}), closing \in 0..MaxClosing :
          waited' = [switch |-> waiting + closing, all |-> waiting + closing]
    /\ \/ /\ phase' = "switch"
          /\ UNCHANGED <<agenda, tally, first_error, faults>>
       \/ SourceFailed
    /\ UNCHANGED Inside

\* A slip: the second source is given the whole timeout again.
WholeInterval == Interval

\* What the second source is given: all of the timeout, or what is left of it.
Remaining ==
    IF phase # "switch" THEN Interval
    ELSE IF waited.switch > Interval THEN 0 ELSE Interval - waited.switch

PullSecond ==
    /\ Ready \/ phase = "switch"
    /\ ~source.first
    /\ LET before == IF phase = "switch" THEN waited.switch ELSE 0 IN
       \/ GotItem /\ waited' = NoWait
       \/ GotIdle /\ waited' = [switch |-> before, all |-> before + Remaining]
       \/ SourceFailed /\ waited' = NoWait /\ UNCHANGED source
       \/ /\ phase' = "flush"
          /\ agenda' = Call("flush", <<>>)
          /\ waited' = NoWait
          /\ UNCHANGED <<tally, source, first_error, faults>>
    /\ UNCHANGED Inside

-----------------------------------------------------------------------------
(* Runner: the run's own steps. *)

\* take_built and the assembly; a bad configuration leaves all untouched.  The
\* builder is gone, and of its fields those that only it reads.
Start ==
    /\ made = "pipeline" /\ phase = "built"
    /\ made' = "started"
    /\ methods' = <<>>
    /\ error_policy' = "FailFast"
    /\ pending_stage_id' = None
    /\ dead_letter_user' = None
    /\ held' = [at \in DOMAIN chain |-> <<>>]
    /\ IF config_error = NoError
       THEN phase' = "pump" /\ UNCHANGED first_error
       ELSE phase' = "ended" /\ first_error' = Error("config", config_error.stage)
    /\ UNCHANGED <<chain, dead_letter, config_error, idle_tick, agenda, written, tally, source, waited, sinks,
                   sink_done, dlq, cancelled, faults, failures, tries>>

\* The pump looks at the flag between two items, and ends as if the input had.
SeeCancel ==
    /\ phase = "pump" /\ agenda = <<>> /\ cancelled
    /\ phase' = "flush"
    /\ agenda' = Call("flush", <<>>)
    /\ UNCHANGED <<Inside, tally, source, waited, first_error, faults>>

\* Runner::call returns, and only now are the items written in it counted.
Return ==
    /\ agenda # <<>> /\ Top.op = "return"
    /\ tally' = [tally EXCEPT !.items_out = @ + written]
    /\ written' = 0
    /\ phase' = CASE phase = "pump" -> "pump"
                  [] phase = "flush" -> "close"
                  [] phase \in {"close", "abort"} -> "rest"
    /\ agenda' = IF phase = "flush" THEN Call("close", <<>>) ELSE <<>>
    /\ UNCHANGED <<Outside, held, dlq, first_error, faults, failures, tries>>

\* A slip: a first source that was retired is closed once more.
CloseAll == [source EXCEPT !.closed = <<@[1] + 1, @[2] + 1>>]

\* ChainSource::close: the first source if it is still there, then the second.
CloseOpen ==
    [source EXCEPT !.first = FALSE,
                   !.closed = <<IF source.first THEN @[1] + 1 ELSE @[1], @[2] + 1>>]

\* close_rest, and the end of the run.
CloseRest ==
    /\ phase = "rest"
    /\ phase' = "ended"
    /\ source' = CloseOpen
    /\ \/ UNCHANGED <<first_error, faults>>
       \/ Fault /\ first_error' = Offer(Error("source", None))
       \/ Fault /\ dead_letter /\ first_error' = Offer(Error("sink", "dead_letter"))
    /\ UNCHANGED <<Inside, agenda, tally, waited>>

Cancel ==
    /\ phase \notin {"built", "ended"} /\ ~cancelled
    /\ cancelled' = TRUE
    /\ UNCHANGED <<builderVars, phase, agenda, held, written, tally, source, waited, sinks,
                   sink_done, dlq, first_error, faults, failures, tries>>

Stages == MapItem \/ TryItem \/ StageItem \/ StageFails \/ GroupItem \/ Signal
             \/ StageSignal \/ GroupTick \/ GroupFlush \/ RetryItem \/ Backoff

Run == Stages \/ SinkItem \/ SinkTick \/ SinkEnd \/ PullFirst \/ Retire \/ PullSecond
          \/ SeeCancel \/ Return \/ CloseRest

Next == (BuilderNext /\ UNCHANGED flowVars) \/ Start \/ Run \/ Cancel

Spec == Init /\ [][Next]_vars

\* The thread runs as long as what it calls returns.
FairSpec == Spec /\ WF_vars(Run)

-----------------------------------------------------------------------------
(* Properties. *)

\* Every variable keeps its type, no task is beyond the chain, no attempt beyond
\* the policy's, and no source is closed twice.
TypeOK ==
    /\ phase \in Phases
    /\ \A k \in DOMAIN agenda :
          /\ agenda[k].op \in {"process", "fail", "backoff", "tick", "flush", "close",
                               "abort", "return"}
          /\ agenda[k].at \in 0..AtSink
          /\ agenda[k].at \in DOMAIN chain /\ chain[agenda[k].at].kind = "try_map_retry" =>
                agenda[k].attempt \in 0..RetryPolicy[chain[agenda[k].at].retry].max_attempts
    /\ \A at \in DOMAIN held : at \in DOMAIN chain /\ held[at] \in Seq(1..tally.items_in)
    /\ written \in Nat /\ tally \in Tally
    /\ source \in [first : BOOLEAN, closed : (0..1) \X (0..1), idle : 0..MaxTicks]
    /\ waited.switch \in 0..waited.all
    /\ sink_done \in [{"flush", "close"} -> BOOLEAN]
    /\ first_error.from \in {None, "config", "source", "stage", "sink"}
    /\ cancelled \in BOOLEAN /\ faults \in 0..MaxFaults
    /\ tries.items \in 0..tries.calls

Started == made = "started" /\ first_error.from # "config"

\* The chains in which every item is its own input, passed on or given up.
Conserving == \A at \in DOMAIN chain : chain[at].kind \notin {"map", "stage"}

Items(records) == [k \in DOMAIN records |-> records[k].item]

\* Each of 1..n occurs in one of the items, and once.
Once(items, n) ==
    /\ UNION {ToSet(items[k]) : k \in DOMAIN items} = 1..n
    /\ \A k, l \in DOMAIN items : \A i \in DOMAIN items[k], j \in DOMAIN items[l] :
          items[k][i] = items[l][j] => k = l /\ i = j

\* Until something fails the run, every item pulled is in one place: at the
\* sink, in a group, under way, or given up by a stage whose policy says so;
\* a run that succeeds leaves none behind, and the sink has them in order.
NothingLost ==
    Started /\ Conserving =>
        LET sink == Items(sinks[2])
        IN  /\ \A k, l \in DOMAIN sink : \A i \in DOMAIN sink[k], j \in DOMAIN sink[l] :
                  k < l \/ (k = l /\ i < j) => sink[k][i] < sink[l][j]
            /\ first_error = NoFailure =>
                  /\ Once(sink \o Items(agenda) \o held \o Items(failures), tally.items_in)
                  /\ phase = "ended" => \A at \in DOMAIN held : held[at] = <<>>

\* The entries that are writes.
WritesAt(h) == {k \in DOMAIN sinks[h] : sinks[h][k].call = "write"}

\* Of the first k failures, those of stages with the dead-letter policy.
DeadLetters(k) == {j \in 1..k : chain[failures[j].at].policy = "DeadLetter"}

\* The statistics count what happened: every failure, every dead letter, every
\* item the sink took (but those of a call that failed), and every retry (but
\* one more for each item that a cancellation takes out of its wait).  The
\* dead letters are the failures of the stages under that policy, in order.
Accounted ==
    Started =>
        LET letters == Cardinality(DeadLetters(Len(failures)))
            again == tries.calls - tries.items
        IN  /\ tally.errors = Len(failures)
            /\ tally.dead_lettered = Len(dlq)
            /\ \/ Len(dlq) = letters
               \/ first_error = Error("sink", "dead_letter") /\ Len(dlq) = letters - 1
            /\ \A k \in DOMAIN failures : LET f == failures[k]
                                               nth == Cardinality(DeadLetters(k)) IN
                  k \in DeadLetters(k) /\ nth <= Len(dlq) =>
                     dlq[nth] = [stage |-> chain[f.at].id,
                                 input |-> IF Keeps(f.at) THEN f.item ELSE <<>>,
                                 attempts |-> f.attempts]
            /\ tally.items_out + written <= Cardinality(WritesAt(2))
            /\ first_error = NoFailure => tally.items_out + written = Cardinality(WritesAt(2))
            /\ tally.retries >= again
            /\ phase = "ended" /\ ~cancelled => tally.retries = again
            /\ first_error.from = "stage" =>
                  /\ failures # <<>>
                  /\ chain[Last(failures).at].policy = "FailFast"
                  /\ chain[Last(failures).at].id = first_error.id

\* What sink_fn passes on besides items, in order, and how much of it was due yet.
Closing == <<Entry("flush", <<>>), Entry("close", <<>>)>>
Due == Cardinality({call \in {"flush", "close"} : sink_done[call]})

\* Both halves of the tee see the same calls in the same order - the items,
\* one flush, one close - but for an item that one of them refused, and the
\* run ends with both flushed and closed and with both sources closed once.
BothHalves ==
    LET items(h) == Len(sinks[h]) - Due IN
    /\ items(1) - items(2) \in (IF first_error = Error("sink", None) THEN {0, 1} ELSE {0})
    /\ items(2) >= 0
    /\ \A k \in 1..items(2) : sinks[1][k] = sinks[2][k]
    /\ \A h \in 1..2 : \A k \in DOMAIN sinks[h] :
          IF k <= items(h) THEN sinks[h][k].call = "write"
                           ELSE sinks[h][k] = Closing[k - items(h)]
    /\ Started /\ phase = "ended" => Due = 2 /\ source.closed = <<1, 1>>

\* An idle answer takes no longer than the interval, even if it came after a
\* switch of sources, unless the switch alone took longer.
SwitchInTime == waited.all <= Max({Interval, waited.switch})

\* Once something has failed no item is pulled, given up or written, whatever
\* the stages further up still had to emit.
NothingAfterHalt ==
    [][first_error # NoFailure =>
          UNCHANGED <<tally, failures, dlq, WritesAt(1), WritesAt(2)>>]_vars

\* A cancelled run ends, even one that is waiting for an instant that never
\* comes.
CancelEnds == cancelled ~> phase = "ended"
=============================================================================
