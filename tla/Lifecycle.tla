------------------------------ MODULE Lifecycle ------------------------------
(***************************************************************************)
(* One pipeline run on the caller's thread: the Pipeline state machine     *)
(* (step, tick, finish, run, drop), the Runner that owns the source and    *)
(* the chain, the once-only guards of the sink and of the dead-letter      *)
(* sink, and the FirstError that decides what the caller is told.          *)
(*                                                                         *)
(* Every call into user code may succeed, return an error or panic, and    *)
(* the observer may panic when a teardown error is reported to it.  A      *)
(* panic unwinds to the caller, who may go on using a stepped pipeline or  *)
(* drop it; Runner::drop then completes the teardown, containing further   *)
(* panics.  MaxFaults bounds the errors and panics of a run, MaxItems what *)
(* the source yields, MaxTicks the ticks.                                  *)
(***************************************************************************)
EXTENDS Naturals, Sequences

CONSTANTS MaxItems, MaxTicks, MaxFaults

ASSUME LifecycleAssumption == MaxItems \in Nat /\ MaxTicks \in Nat /\ MaxFaults \in Nat

VARIABLES
  pstate,     \* Pipeline.state: "built", "running", "done", "failed", or "gone"
  configError,\* Pipeline.config_error is set
  inCall,     \* Pipeline.in_call
  cancelled,  \* the cancel handle's flag
  api,        \* the Pipeline method in progress
  pc,         \* where it is
  mode,       \* which teardown runs: "finish", "abort", or "drop" (Runner::drop)
  byCancel,   \* conclude was called with PumpEnd::Cancelled
  attempts,   \* Runner::drop's loop counter
  held,       \* error of the first of two calls that are both attempted
  err, next,  \* error about to be offered, and where teardown continues
  first,      \* FirstError
  result,     \* the last method and what it returned (or "panic")
  live, srcClosed, dlqDone,                \* the Runner's flags
  flushed, closed, dlqFlushed, dlqClosed,  \* the sinks' once-only guards
  calls,      \* history: the lifecycle calls made, in order
  root,       \* history: the first error since the run began to end
  pulled,     \* Tally.items_in
  settled,    \* items written, skipped by Continue, or dead-lettered
  started,    \* history: a Runner was created
  panicked,   \* history: user code panicked
  ticks, faults   \* bounds

errors == <<held, err, next, first>>
tally == <<pulled, settled>>
runnerFlags == <<live, srcClosed, dlqDone>>
guards == <<flushed, closed, dlqFlushed, dlqClosed>>
vars == <<pstate, configError, inCall, cancelled, api, pc, mode, byCancel, attempts,
          errors, result, runnerFlags, guards, calls, root, started, panicked,
          tally, ticks, faults>>

None == "none"
\* The lifecycle calls in the order every driver documents.
Canonical == <<"flush", "close", "sourceClose", "dlqFlush", "dlqClose">>
\* Variant: too few attempts.  Attempts of Runner::drop.
FourAttempts == 4
MaxAttempts == 6

Init ==
  /\ pstate = "built" /\ configError \in BOOLEAN
  /\ inCall = FALSE /\ cancelled = FALSE
  /\ api = None /\ pc = "idle" /\ mode = "finish" /\ byCancel = FALSE
  /\ attempts = 0 /\ held = None /\ err = None /\ next = "idle" /\ first = None
  /\ result = <<None, None>>
  /\ live = FALSE /\ srcClosed = FALSE /\ dlqDone = FALSE
  /\ flushed = FALSE /\ closed = FALSE /\ dlqFlushed = FALSE /\ dlqClosed = FALSE
  /\ calls = <<>> /\ root = None /\ started = FALSE /\ panicked = FALSE
  /\ pulled = 0 /\ settled = 0 /\ ticks = 0 /\ faults = 0

-----------------------------------------------------------------------------
(* Returning, failing and panicking.                                       *)

At(p) == pc = p

(* The method in progress returns r; run and finish consume the pipeline.  *)
Return(r, st) ==
  /\ pc' = "idle" /\ api' = None
  /\ result' = <<api, r>>
  /\ pstate' = IF api \in {"run", "finish", "drop"} THEN "gone" ELSE st

(* User code fails or panics at most MaxFaults times in a run.             *)
Fault == faults < MaxFaults /\ faults' = faults + 1
Panic == Fault /\ panicked' = TRUE

(* Runner::drop starts: its errors are collected apart.                    *)
StartDrop == /\ pc' = "dropping" /\ mode' = "drop" /\ attempts' = 0
             /\ first' = None /\ held' = None /\ err' = None
             /\ UNCHANGED next

(* A panic during teardown: the first one unwinds out of conclude and      *)
(* drops the runner, a later one is contained and ends one attempt.        *)
TeardownPanic ==
  /\ Panic
  /\ IF mode = "drop"
     THEN /\ pc' = "dropping" /\ held' = None /\ err' = None
          /\ UNCHANGED <<mode, attempts, first, next>>
     ELSE StartDrop
  /\ UNCHANGED root

(* An error of user code during teardown, to be offered to FirstError.     *)
Fail(e, then) ==
  /\ pc' = "offer" /\ err' = e /\ next' = then
  /\ root' = IF root = None THEN e ELSE root

Proceed(to) == pc' = to /\ UNCHANGED <<held, err, next, root, faults>>

NoPanic == UNCHANGED <<first, mode, attempts, panicked>>

Keep(e) == IF first = None THEN e ELSE first

(* FirstError::offer: the first error is kept, a later one is reported to  *)
(* the observer, which may panic.                                          *)
Offer ==
  /\ At("offer")
  /\ \/ /\ pc' = next
        /\ first' = Keep(err)
        /\ err' = None
        /\ UNCHANGED <<mode, attempts, held, next, root, faults, panicked>>
     \/ first # None /\ TeardownPanic
  /\ UNCHANGED <<pstate, configError, inCall, cancelled, api, byCancel, result,
                 runnerFlags, guards, calls, started, tally, ticks>>

-----------------------------------------------------------------------------
(* The Pipeline's methods.                                                 *)

Methods == {"step", "tick", "finish", "run"}

\* What the methods leave to the teardown.
TeardownVars == <<attempts, held, err, next, srcClosed, dlqDone, guards, calls>>

Call(m) ==
  /\ At("idle") /\ pstate # "gone"
  /\ api' = m
  /\ pc' = "enter"
  /\ UNCHANGED <<pstate, configError, inCall, cancelled, mode, byCancel, first, result,
                 live, root, started, panicked, tally, ticks, faults, TeardownVars>>

(* An ended pipeline does not touch the source or the sink again.          *)
EnterEnded ==
  /\ At("enter") /\ pstate \in {"done", "failed"}
  /\ Return(IF pstate = "done" /\ api \in {"step", "finish"} THEN "ok" ELSE "closed", pstate)
  /\ UNCHANGED <<configError, inCall, cancelled, mode, byCancel, first, live, root,
                 started, panicked, tally, ticks, faults, TeardownVars>>

(* ensure_started: a configuration error ends the run before anything is   *)
(* touched; otherwise the observer hears of the start and the Runner is    *)
(* created.  If the observer panics there is no Runner, and nothing else.  *)
EnsureStarted ==
  /\ At("enter") /\ pstate = "built"
  /\ \/ /\ configError
        /\ Return("config", "failed")
        /\ UNCHANGED <<live, started, panicked, faults>>
     \/ /\ ~configError
        /\ pstate' = "running" /\ live' = TRUE /\ started' = TRUE
        /\ UNCHANGED <<pc, api, result, panicked, faults>>
     \/ /\ ~configError
        /\ Panic /\ Return("panic", "failed")
        /\ UNCHANGED <<live, started>>
  /\ UNCHANGED <<configError, inCall, cancelled, mode, byCancel, first, root, tally,
                 ticks, TeardownVars>>

(* Variant: the state stays "running" until the teardown is over.          *)
ConcludeLate(m, e, c) ==
  /\ UNCHANGED pstate
  /\ mode' = m
  /\ byCancel' = c
  /\ first' = e
  /\ root' = e
  /\ pc' = IF m = "finish" THEN "flushStages" ELSE "abortFlush"

(* conclude: the state is "failed" until the teardown has succeeded.       *)
Conclude(m, e, c) ==
  /\ pstate' = "failed"
  /\ mode' = m
  /\ byCancel' = c
  /\ first' = e
  /\ root' = e
  /\ pc' = IF m = "finish" THEN "flushStages" ELSE "abortFlush"

Stay == UNCHANGED <<pstate, mode, byCancel, first, root>>

(* Variant: only step looks for a panic of an earlier call.                *)
StepRefuses == inCall /\ api = "step"

(* A panic left in_call set; run does not look at it.                      *)
Refuses == inCall /\ api # "run"

(* check_poisoned ends the run.                                            *)
Poisoned ==
  /\ At("enter") /\ pstate = "running" /\ Refuses
  /\ inCall' = FALSE
  /\ Conclude("abort", "driver", FALSE)
  /\ UNCHANGED <<configError, cancelled, api, result, live, started, panicked, tally,
                 ticks, faults, TeardownVars>>

(* finish concludes; step and run look at the cancel flag before they      *)
(* pull; tick does not.  in_call is raised around the runner's call.       *)
Begin ==
  /\ At("enter") /\ pstate = "running" /\ ~Refuses
  /\ \/ /\ api = "finish"
        /\ Conclude("finish", None, FALSE)
        /\ UNCHANGED inCall
     \/ /\ api \in {"step", "run"} /\ cancelled
        /\ Conclude("finish", None, TRUE)
        /\ UNCHANGED inCall
     \/ /\ api = "tick" \/ (api \in {"step", "run"} /\ ~cancelled)
        /\ pc' = IF api = "tick" THEN "ticking" ELSE "pull"
        /\ inCall' = IF api = "run" THEN inCall ELSE TRUE
        /\ Stay
  /\ UNCHANGED <<configError, cancelled, api, result, live, started, panicked, tally,
                 ticks, faults, TeardownVars>>

(* The runner's call ended well: step and tick return, run goes round.     *)
Pumped(r) ==
  IF api = "run"
  THEN pc' = "enter" /\ UNCHANGED <<api, result, pstate, inCall>>
  ELSE Return(r, pstate) /\ inCall' = FALSE

(* It failed: the run ends.                                                *)
PumpFails(e) ==
  /\ Fault
  /\ Conclude("abort", e, FALSE)
  /\ inCall' = IF api = "run" THEN inCall ELSE FALSE
  /\ UNCHANGED <<api, result, panicked, TeardownVars>>

(* It panicked: step and tick leave the runner, and in_call, for the next  *)
(* call; run unwinds through the pipeline and drops the runner.            *)
PumpPanics ==
  /\ Panic
  /\ IF api = "run"
     THEN /\ StartDrop
          /\ UNCHANGED <<pstate, api, result, byCancel>>
     ELSE /\ Return("panic", pstate)
          /\ UNCHANGED <<mode, byCancel, attempts, first, held, err, next>>
  /\ UNCHANGED <<inCall, root, srcClosed, dlqDone, guards, calls>>

(* Variant: a failed pull takes back a count that was not made yet.        *)
PullFailsUncounted == PumpFails("pull") /\ pulled' = pulled - 1 /\ UNCHANGED ticks

PullFails == PumpFails("pull") /\ UNCHANGED <<pulled, ticks>>

Pull ==
  /\ At("pull")
  /\ \/ /\ pulled < MaxItems
        /\ pulled' = pulled + 1
        /\ pc' = "process"
        /\ Stay /\ UNCHANGED <<inCall, api, result, ticks, panicked, faults, TeardownVars>>
     \/ /\ ticks < MaxTicks
        /\ ticks' = ticks + 1
        /\ pc' = "ticking"
        /\ Stay /\ UNCHANGED <<inCall, api, result, pulled, panicked, faults, TeardownVars>>
     \/ /\ Conclude("finish", None, FALSE)
        /\ inCall' = IF api = "run" THEN inCall ELSE FALSE
        /\ UNCHANGED <<api, result, pulled, ticks, panicked, faults, TeardownVars>>
     \/ PullFails
     \/ PumpPanics /\ UNCHANGED <<pulled, ticks>>
  /\ UNCHANGED <<configError, cancelled, live, settled, started>>

(* The item goes down the chain: it is settled, or something fails.        *)
Process ==
  /\ At("process")
  /\ \/ /\ Pumped("item")
        /\ settled' = settled + 1
        /\ UNCHANGED <<mode, byCancel, first, root, panicked, faults, TeardownVars>>
     \/ PumpFails("process") /\ UNCHANGED settled
     \/ PumpPanics /\ UNCHANGED settled
  /\ UNCHANGED <<configError, cancelled, live, pulled, ticks, started>>

(* Runner::tick: the observer hears of it, then every stage ticks.         *)
Ticking ==
  /\ At("ticking")
  /\ \/ /\ Pumped(IF api = "tick" THEN "ticked" ELSE "idle")
        /\ UNCHANGED <<mode, byCancel, first, root, panicked, faults, TeardownVars>>
     \/ PumpFails("tick")
     \/ PumpPanics
  /\ UNCHANGED <<configError, cancelled, live, tally, ticks, started>>

(* Another thread cancels.                                                 *)
Cancel ==
  /\ ~cancelled /\ pstate # "gone"
  /\ cancelled' = TRUE
  /\ UNCHANGED <<pstate, configError, inCall, api, pc, mode, byCancel, errors, attempts,
                 result, runnerFlags, guards, calls, root, started, panicked, tally,
                 ticks, faults>>

(* The caller drops the pipeline; a running one tears its run down.        *)
DropPipeline ==
  /\ At("idle") /\ pstate # "gone"
  /\ \/ /\ pstate = "running"
        /\ api' = "drop"
        /\ StartDrop
        /\ UNCHANGED pstate
     \/ /\ pstate # "running"
        /\ pstate' = "gone"
        /\ UNCHANGED <<api, pc, mode, attempts, errors>>
  /\ UNCHANGED <<configError, inCall, cancelled, byCancel, result, runnerFlags, guards,
                 calls, root, started, panicked, tally, ticks, faults>>

-----------------------------------------------------------------------------
(* Runner::finish, Runner::abort and close_rest, one user call a step.     *)

\* What a teardown step leaves alone.
Outside == <<pstate, configError, inCall, cancelled, api, byCancel, result, started,
             tally, ticks>>

(* finish: the stages flush.  A failed flush turns the finish into an      *)
(* abort of the chain.                                                     *)
FlushStages ==
  /\ At("flushStages")
  /\ \/ Proceed("flushSink") /\ NoPanic
     \/ Fault /\ Fail("stageFlush", "abortFlush") /\ NoPanic /\ UNCHANGED held
     \/ TeardownPanic
  /\ UNCHANGED <<runnerFlags, guards, calls, Outside>>

(* One user call of the teardown, whose outcome leads to ok or bad.        *)
UserCall(name, ok, bad) ==
  /\ calls' = Append(calls, name)
  /\ \/ Proceed(ok) /\ NoPanic
     \/ Fault /\ Fail(name, bad) /\ NoPanic /\ UNCHANGED held
     \/ TeardownPanic

Skip(to) == Proceed(to) /\ NoPanic /\ UNCHANGED calls

(* The sink sees Flush and then Close, each at most once.                  *)
FlushSink ==
  /\ At("flushSink")
  /\ \/ flushed /\ Skip("closeSink") /\ UNCHANGED flushed
     \/ ~flushed /\ flushed' = TRUE /\ UserCall("flush", "closeSink", "abortFlush")
  /\ UNCHANGED <<runnerFlags, closed, dlqFlushed, dlqClosed, Outside>>

CloseSink ==
  /\ At("closeSink")
  /\ \/ closed /\ Skip("closeSource") /\ UNCHANGED closed
     \/ ~closed /\ closed' = TRUE /\ UserCall("close", "closeSource", "closeSource")
  /\ UNCHANGED <<runnerFlags, flushed, dlqFlushed, dlqClosed, Outside>>

(* The first of two calls that are both attempted: its error is held.      *)
FirstCall(name, to) ==
  /\ calls' = Append(calls, name)
  /\ \/ Proceed(to) /\ NoPanic
     \/ /\ Fault
        /\ pc' = to /\ held' = name
        /\ root' = IF root = None THEN name ELSE root
        /\ NoPanic /\ UNCHANGED <<err, next>>
     \/ TeardownPanic

(* Variant: the held error is forgotten.                                   *)
PairForgets(then) ==
  /\ pc' = then
  /\ held' = None
  /\ UNCHANGED <<err, next, root, faults>> /\ NoPanic

(* The pair's result is the held error if there is one; if the second call *)
(* fails too, its error goes to the observer, which may panic.             *)
PairOk(then) ==
  /\ IF held = None THEN pc' = then /\ UNCHANGED <<err, next>>
                    ELSE pc' = "offer" /\ err' = held /\ next' = then
  /\ held' = None
  /\ UNCHANGED <<root, faults>> /\ NoPanic

SecondCall(name, then) ==
  /\ calls' = Append(calls, name)
  /\ \/ PairOk(then)
     \/ held = None /\ Fault /\ Fail(name, then) /\ NoPanic /\ UNCHANGED held
     \/ /\ held # None /\ Fault
        /\ pc' = "offer" /\ err' = held /\ next' = then /\ held' = None
        /\ NoPanic /\ UNCHANGED root
     \/ TeardownPanic

(* Abort at the sink: flush and close, whichever was not tried before.     *)
AbortFlush ==
  /\ At("abortFlush")
  /\ \/ flushed /\ Skip("abortClose") /\ UNCHANGED flushed
     \/ ~flushed /\ flushed' = TRUE /\ FirstCall("flush", "abortClose")
  /\ UNCHANGED <<runnerFlags, closed, dlqFlushed, dlqClosed, Outside>>

AbortClose ==
  /\ At("abortClose")
  /\ \/ closed /\ PairOk("closeSource") /\ UNCHANGED <<closed, calls>>
     \/ ~closed /\ closed' = TRUE /\ SecondCall("close", "closeSource")
  /\ UNCHANGED <<runnerFlags, flushed, dlqFlushed, dlqClosed, Outside>>

(* close_rest: the source, then the dead-letter sink.  dlqDone is raised   *)
(* after the dead-letter calls, so a panic in one of them is followed by   *)
(* another attempt, which the sink's own guards take past it.              *)
CloseSource ==
  /\ At("closeSource")
  /\ \/ srcClosed /\ Skip("dlqFlush") /\ UNCHANGED srcClosed
     \/ ~srcClosed /\ srcClosed' = TRUE /\ UserCall("sourceClose", "dlqFlush", "dlqFlush")
  /\ UNCHANGED <<live, dlqDone, guards, Outside>>

DlqFlush ==
  /\ At("dlqFlush")
  /\ \/ dlqDone /\ Skip("retire") /\ UNCHANGED dlqFlushed
     \/ ~dlqDone /\ dlqFlushed /\ Skip("dlqClose") /\ UNCHANGED dlqFlushed
     \/ ~dlqDone /\ ~dlqFlushed /\ dlqFlushed' = TRUE /\ FirstCall("dlqFlush", "dlqClose")
  /\ UNCHANGED <<runnerFlags, flushed, closed, dlqClosed, Outside>>

DlqClose ==
  /\ At("dlqClose")
  /\ \/ dlqClosed /\ PairOk("retire") /\ UNCHANGED <<dlqClosed, calls>>
     \/ ~dlqClosed /\ dlqClosed' = TRUE /\ SecondCall("dlqClose", "retire")
  /\ dlqDone' = (pc' # "dropping")
  /\ UNCHANGED <<live, srcClosed, flushed, closed, dlqFlushed, Outside>>

(* The teardown is complete.                                               *)
Retire ==
  /\ At("retire")
  /\ live' = FALSE
  /\ pc' = IF mode = "drop" THEN "dropping" ELSE "finished"
  /\ UNCHANGED <<mode, attempts, errors, srcClosed, dlqDone, guards, calls, root,
                 panicked, faults, Outside>>

(* Runner::drop: attempt after attempt while the teardown is incomplete.   *)
Dropping ==
  /\ At("dropping")
  /\ \/ /\ live /\ attempts < MaxAttempts
        /\ attempts' = attempts + 1
        /\ pc' = "abortFlush"
        /\ UNCHANGED <<api, result, pstate>>
     \/ /\ ~live \/ attempts = MaxAttempts
        /\ Return(IF api = "drop" THEN "dropped" ELSE "panic", pstate)
        /\ UNCHANGED attempts
  /\ UNCHANGED <<configError, inCall, cancelled, byCancel, mode, errors, runnerFlags,
                 guards, calls, root, started, panicked, tally, ticks, faults>>

(* conclude's end: the result is decided, the observer hears of it (and    *)
(* may panic, which leaves the interim state), the state is set.           *)
Finished ==
  /\ At("finished")
  /\ \/ /\ \/ first # None /\ Return(first, "failed")
           \/ first = None /\ byCancel /\ Return("cancelled", "failed")
           \/ first = None /\ ~byCancel /\ Return("ok", "done")
        /\ UNCHANGED <<faults, panicked>>
     \/ Panic /\ Return("panic", "failed")
  /\ UNCHANGED <<configError, inCall, cancelled, byCancel, mode, attempts, errors,
                 runnerFlags, guards, calls, root, started, tally, ticks>>

(* The pipeline value is gone: nothing more can happen to it.              *)
Gone == At("idle") /\ pstate = "gone" /\ UNCHANGED vars

Teardown == \/ Offer \/ FlushStages \/ FlushSink \/ CloseSink \/ AbortFlush \/ AbortClose
            \/ CloseSource \/ DlqFlush \/ DlqClose \/ Retire \/ Dropping \/ Finished

Next == \/ \E m \in Methods : Call(m)
        \/ EnterEnded \/ EnsureStarted \/ Poisoned \/ Begin
        \/ Pull \/ Process \/ Ticking
        \/ Cancel \/ DropPipeline
        \/ Teardown
        \/ Gone

Spec == Init /\ [][Next]_vars

-----------------------------------------------------------------------------
PCs == {"idle", "enter", "pull", "process", "ticking", "offer", "flushStages",
        "flushSink", "closeSink", "abortFlush", "abortClose", "closeSource",
        "dlqFlush", "dlqClose", "retire", "dropping", "finished"}

CallNames == {"flush", "close", "sourceClose", "dlqFlush", "dlqClose"}
ErrorNames == CallNames \cup {None, "driver", "pull", "process", "tick", "stageFlush"}

(* Every variable keeps its type.                                          *)
TypeOK ==
  /\ pstate \in {"built", "running", "done", "failed", "gone"}
  /\ configError \in BOOLEAN /\ inCall \in BOOLEAN /\ cancelled \in BOOLEAN
  /\ api \in Methods \cup {None, "drop"}
  /\ pc \in PCs /\ next \in PCs
  /\ mode \in {"finish", "abort", "drop"}
  /\ byCancel \in BOOLEAN
  /\ attempts \in 0..MaxAttempts
  /\ held \in CallNames \cup {None}
  /\ err \in ErrorNames /\ first \in ErrorNames /\ root \in ErrorNames
  /\ live \in BOOLEAN /\ srcClosed \in BOOLEAN /\ dlqDone \in BOOLEAN
  /\ flushed \in BOOLEAN /\ closed \in BOOLEAN
  /\ dlqFlushed \in BOOLEAN /\ dlqClosed \in BOOLEAN
  /\ started \in BOOLEAN /\ panicked \in BOOLEAN
  /\ calls \in Seq(CallNames)
  /\ pulled \in Nat /\ settled \in Nat /\ ticks \in Nat /\ faults \in Nat

(* Whatever fails or panics, the lifecycle calls are made in the           *)
(* documented order and none is made twice; once a Runner exists, all five *)
(* have been made by the time the pipeline has ended or was dropped: the   *)
(* attempts of Runner::drop are enough.                                    *)
TornDown ==
  /\ calls = SubSeq(Canonical, 1, Len(calls))
  /\ (At("idle") /\ started /\ pstate \in {"done", "failed", "gone"}) => calls = Canonical

(* The caller gets the first error in time, not one of its consequences.   *)
FirstErrorWins == At("finished") => first = root

(* After a caught panic no step, tick or finish reports success.           *)
PoisonSticks ==
  (panicked /\ result[1] \in {"step", "tick", "finish"} /\ At("idle"))
    => result[2] \in {"panic", "driver", "closed"}

(* The sink and the source are left alone once teardown has begun: no item *)
(* is pulled or settled after the first lifecycle call.                    *)
QuietAfterTeardown == [][calls # <<>> => UNCHANGED tally]_vars

(* What ARCHITECTURE.md says of a poisoned pipeline: after a caught panic  *)
(* the next call, whichever it is, does not succeed.                       *)
PoisonedRunFails == (panicked /\ At("idle")) => result[2] # "ok"
=============================================================================
