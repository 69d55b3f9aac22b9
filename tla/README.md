# pipe-io: TLA+ models and proofs

`pipe-io` (the Rust crate in `src/`) runs a pipeline of one source, a chain of
stages and one sink inside one process: on the caller's thread (`run`, or
`step`/`tick`/`finish`), or with one thread per segment between `buffer` edges
(`run_threaded`). This directory holds models of the parts of it that are hard
to test - the edge between two threads, the teardown of a run that fails or
panics anywhere, the threads of a run together, the builder and the chain of
stages it makes, the sources that split and chain input, and the stages that
group items by number, size and time - the TLC configurations that check them,
and the proofs about them.

## Inventory

| Component | State it keeps | Operations | Hard behaviour | What makes it correct |
|---|---|---|---|---|
| edge (`edge.rs`) | mpsc queue, `sent`/`seen`, `received`/`published`, `Gate` (count, `waiting`, `closed`, mutex, condvar) | `send`, `try_send`, `recv`, `recv_timeout`, drop of either end | interleaving of two threads, wake-ups, late publication, hand-off at capacity 0 | bounded FIFO; no lost wake-up; every call returns; a closed edge is reported |
| pipeline run (`pipeline.rs`) | `Pipeline.state`, `in_call`, cancel flag, `Runner` flags | `step`, `tick`, `finish`, `run`, drop, cancel | panics caught by the caller, panics during teardown, errors of paired calls | lifecycle calls once, in order, on every exit path; the first error is returned |
| threaded driver (`threaded.rs`) | `ChannelSegment.live`, `SharedFirst`, `done` channel, join handles | spawn, segment loop, source loop, join | concurrent failures, blocked neighbours, spawn failure, abort racing items in flight | run returns; order of teardown across threads; root cause reported; no loss on success |
| pipeline builder (`pipeline.rs`) | `PipelineBuilder`: chain, policy, pending name, first configuration error | one method per stage or setting, `sink`, `try_sink` | settings apply to what follows, names to the next addition, dead-letter sink to all | the chain and the error are those the list of calls describes |
| stages and runtime (`pipeline.rs`, `runtime.rs`, `stage.rs`) | groups held, `Tally`, `Dlq`, `FirstError`, `StageEmit.halted` | `Process`, `Tick`, `Flush`, `Close`, `Abort` through the chain; `handle_failure` | nested calls, a halt in the middle of an emission, flush order, failing dead-letter sink | nothing lost on success, everything counted, nothing after a halt |
| retry (`retry.rs`) | attempts of an item, jitter | `base_delay`, `delay_for`, `sleep_unless_cancelled` | saturation, a deadline no instant holds, cancellation during a wait | a cancelled run ends; each retry counted |
| batch (`batch.rs`) | open batch, byte count, `opened_at` | process, tick, flush | age measured lazily, saturating byte count | nothing lost or reordered, limits hold |
| window (`window.rs`) | open slots, anchor, per-key slab, recency list, deadline heap | process, tick, flush | stale heap entries, slot reuse, grid arithmetic | each item in exactly its windows; keys closed on time |
| source (`source.rs`) | `ChainSource.first`; `LineReader`: buffer, line, `overflowed`, `line_no` | `pull`, `pull_timeout`, `close` | the switch between sources, lines cut anywhere by the reader | one timeout per pull, each source closed once; lines as of the whole input |
| sink (`sink.rs`) | the two halves of `TeeSink` | `write`, `flush`, `close` | one half fails | both halves see the same calls |
| clock (`clock.rs`) | `ManualClock.now` | `now`, `advance`, `set` | set back while groups are open | see batch and window |
| driver, error, observe, stage_id | entry points and data | - | - | - |

Interaction: the builder records an assembly closure; a run assembles it into
boxed closures, each of which calls the next one with a `StageOp` (`Process`,
`Tick`, `Flush`, `Close`, `Abort`) and returns what the sink accepted or a
`Halt`. Under the threaded driver a `buffer` edge replaces one such call by a
`send` into an edge and a `recv` on another thread. Errors meet in a
`FirstError` (shared under a mutex by the threaded driver), panics in `Drop`.

`PROJECT.json` lists the components with what is modelled of each, and every
hazard at its line.

## Modules

| Module | Models | Composition |
|---|---|---|
| `BoundedChannel` | what an edge promises: a FIFO of at most `Limit` messages, the outcome of each call, the hand-off | abstract specification |
| `Edge` | `edge.rs`, one atomic access, lock or condvar operation per action | implements `BoundedChannel` (`ImplementsChannel`) |
| `EdgeProofs` | the inductive invariant of `Edge` and the theorems | extends `Edge` |
| `Lifecycle` | one run on the caller's thread: `Pipeline`, `Runner`, `sink_fn`, `dead_letter`, `FirstError`, one user call per action | uses no other module |
| `LifecycleProofs` | the inductive invariant of `Lifecycle` and the theorems | extends `Lifecycle` |
| `Batch` | `BatchStage`: one stage, its clock and the later stages | uses no other module |
| `BatchProofs` | the inductive invariant of `Batch` and the theorems | extends `Batch` |
| `WindowCore` | `Core` of `window.rs`: what an item, a tick or a flush does to the windows open for one key, as operators | used by `KeyedWindow` |
| `KeyedWindow` | `KeyedWindowStage`, with one `WindowStage` per key beside it as its specification | uses `WindowCore` |
| `MCKeyedWindow` | the window shapes for TLC | extends `KeyedWindow` |
| `KeyedWindowProofs` | the types of a window core, what keeps slab, list and heap of the keyed stage sound and its windows timely, and the theorems | extends `KeyedWindow` |
| `KeyedWindowItems` | that each item is in its windows, once | extends `KeyedWindowProofs` |
| `Builder` | `PipelineBuilder`: one action per method, with the list of calls as history | used by `Flow` |
| `Flow` | a pipeline as `Builder` leaves it, run on the caller's thread: stages, `handle_failure`, retries, `TeeSink`, `ChainSource`, `Runner` | extends `Builder`: the same behaviour builds the pipeline and runs it |
| `FlowProofs` | invariants of `Flow` for halts, the switch of sources, the shape of the agenda, the two halves of the tee, the statistics, the places of the items and the builder, and the theorems | extends `Flow` |
| `MCFlow` | the retry policies for TLC | extends `Flow` |
| `LineReader` | `LineReader`, `ReaderSource`, `ByteLinesSource` over a reader that delivers pieces of any size | uses no other module |
| `LineReaderProofs` | the type invariant of `LineReader`, memory bound included, where the reader stands in the input, and the theorems | extends `LineReader` |
| `Threaded` | one run under `ThreadedDriver`: source thread, segments, calling thread | uses edges as `BoundedChannel` describes them |
| `MCThreaded` | the scenarios of `Threaded` for TLC | extends `Threaded` |
| `ThreadedProofs` | the types of `Threaded`, how each action moves a thread and an edge, how errors reach the caller, the order of the teardown, the items and the causes of errors, and the theorems | extends `Threaded` |

Operators marked *Variant* or *A slip* are faulty forms of the definition that
follows them (a dropped guard, a missing wake-up, too few attempts). Nothing
refers to them; each shows, put in the definition's place, that a property of
the runs can be violated by a plausible mistake in that code.

### Edge

`queue` is the unbounded mpsc channel, `gReceived` the shared count
(`gate.received`, which always equals the receiver's `published`), `waiting`,
`closed` and `lock` the rest of the gate, `sent` and `seen` the sender's
counters, `received` the receiver's. `spc` and `rpc` say where each thread is:
`room` is `has_room`, `spin` to `relock` are `wait_until`, `push` is `push`,
`tryClosed` the look at `closed` in `try_send`; `try` and `block` are the two
receives of `recv`, `publish` and `notify` to `signal` are `publish` and
`Gate::notify`, `dropRx` is the drop of the mpsc receiver after `Drop`.
A `Recv` may be a `recv` or a `recv_timeout`, so `TimeOut` may end any wait.

Abstractions. Memory is sequentially consistent: the code's accesses to
`gate.received` and `gate.waiting` that the argument rests on are `SeqCst`; the
`Acquire` load of `closed` in `try_send` only delays what is learned. Counters
do not wrap. The release of the mutex after the flag is lowered is one step
with it, because the receiver looks at the lock only after it saw the flag.
Spurious wake-ups are allowed at any time.

### Lifecycle

A method call is a sequence of steps: `Call`, then `EnterEnded`,
`EnsureStarted`, `Poisoned` or `Begin` (`ensure_started`, `check_poisoned` and
the look at the state and the cancel flag), `Pull`, `Process` and `Ticking` for
`Runner::step`/`tick`, then `Conclude` into the teardown. The teardown makes
one user call per step: stages' flush, sink flush and close, or - in an abort -
both whichever was not tried, then the source's close and the dead-letter
sink's flush and close. Each call succeeds, fails or panics; `run` loops
through `enter`. A panic in `step` or `tick` returns to the caller with
`in_call` still raised; a panic in `run` or in the teardown goes to
`Dropping`, the loop of `Runner::drop`. `FirstError` is `first`, the error of
the first of two calls that are both attempted is `held`.

Left out: the content of items and errors, the counters other than items in
and settled, emission of observer events that cannot change the outcome; the
observer is allowed to panic at `Started`, `Finished` and whenever a teardown
error is reported (and at `Idle`, as part of `Ticking`). `std` is assumed (without it
`contain` contains nothing).

### Threaded

`th[t]` is a thread: where it is, the operation its chain works on, and its
mode: `run` (pump or segment loop), `finish`, `abort` or `drop`. A thread's
chain is one stage and an outlet, the next edge or the sink. `OkState`,
`GiveUp`, `Failed` and `PanicState` are what `source_loop` and
`ChannelSegment::run` do with the chain's result; `LoseRx` is `self.rx = None`;
`Offer` is `SharedFirst::offer`; `CloseRest` and `SegmentsDone` are the drop of
the chain and `done.recv()`; `End` drops a thread's fields. The calling thread
is `main`: `Started`, `Spawn`, `SpawnFailed`, `DropRest`, `Join`, the
dead-letter calls, `Decide`. A segment that was never spawned is torn down by
the calling thread: the model lets the segment's own steps do it while `main`
waits.

An edge is its content and whether its two ends exist, the view that
`BoundedChannel` gives of it. The receiver's announcement and its drop are one step here:
a message put in between is lost either way. A tick may be refused while a slot
is free (`Lag` in `BoundedChannel`; one message at capacities below 32).

Left out: stages that buffer (a stage forwards or skips each item), dead-letter
writes (an item that is dead-lettered is skipped, and a failing write is a
failing stage), observer panics on the calling thread other than at `Started`,
and pipelines without edges, which have the behaviour of `Lifecycle` on another thread.

A `Scenario` - capacity, items, ticks, and which calls may fail or panic - is
chosen in the initial state, so one run covers several.

### Builder and Flow

`chain` stands for `finalize`, the nest of closures: each stage's kind, name,
error policy and retry policy. Every method is an action; `methods` records the
calls, and `AsCalled` reads the pipeline off that list without the builder's
fields, so a setting applied too early, too late or to the wrong stage shows.

`Flow` runs that chain. A stage calls the next one as a Rust call and waits for
its result; what the calls under way have still to do is the stack `agenda`, whose
head runs next. `Goes(more)` replaces the head by the calls it makes; `Halt` is
the `Err(Halt)` that unwinds them all. `MapItem` stands for the five infallible
transforms with any number of outputs, `TryItem` for `try_map` and
`try_map_ref`, `StageItem`, `StageFails` and `StageSignal` for a custom stage
under `drive` and `StageEmit` (it may emit and then fail), `GroupItem`,
`GroupTick` and `GroupFlush` for the stages that hold items back, `RetryItem`
and `Backoff` for `try_map_retry`. `Fails` is `handle_failure` and
`report_failure`, `Route` the dead-letter path. `held` is what a group holds;
`failures`, `tries` and the sinks' logs are histories.

`PullFirst`, `Retire`, `PullSecond` and `CloseOpen` are `ChainSource`; the
second action of a pull that switches is separate (phase `switch`) because time
passes between the two. `waited` adds up the time of one pull.

Left out: panics and stepping (`Lifecycle`), when a group is complete (`Batch`,
`KeyedWindow`; several windows at a time, which repeat items, are only there),
the observer, the dead-letter sink's end apart from its failure. A stage's
output is the input item under a new value: an item is the sequence of pulls it
is made of.

### LineReader

The bytes told apart are the two of one UTF-8 character, `cr` and `lf`. `input`
is chosen whole; `Fill` lets the reader deliver any piece of it that fits the
buffer, `Interrupted` and `ReadFails` are its errors. `Consume`, `Reject` and
`EndOfInput` are one turn of the loop in `read_one`, `EndLine` its end,
`Decoded` what `ReaderSource::pull` does with the bytes. `Ends`,
`LineTo`, `Returned` and `Expected` are the reference: the input cut at every `lf`, each line decided
as a whole. `AsSplit` says that the n-th pull returned the n-th line to return. After a pull that failed the source is not pulled again, as in a run.

### Batch

`items`, `bytes` and `openedAt` are the fields of the same names. `Process`,
`Tick` and `Flush` are the three calls of the stage, `Clock` is time passing or
`ManualClock::set`. A batch that the later stages refuse (`failed`) is dropped,
and no call follows: the driver aborts, and an abort does not flush stages.
Items carry a number and their arrival as history. Words are `0..WordMax`, so
that the saturating sum of sizes saturates. A policy the builder refuses is
left out of `Init` by `Check`.

### WindowCore and KeyedWindow

A core has the fields of all three variants of `Core`; tumbling and session
windows, which keep one open window, share the operators `IsOver`, `Close`,
`StartOf` and `Push`. Windows go to an outlet that counts how many the later
stages still take, so every `out(..)` that returns `false` ends what it ends in
the code. Instants are naturals up to `MaxInstant`; checked arithmetic beyond
gives `None`.

`table` is the keyed stage: `index`, `slab`, `free`, the list through `prev` and
`next` with its `head` and `tail`, and the heap as a set of triples. `Process`
is `expire`, `touch`, `on_item`, `schedule` in one action, as the code does
them in one call. The loop of `expire` is a recursive function over the number
of entries; a round never schedules at or before `now`, so more rounds are
never needed (`KeyedTimely` proves that none is left due). The recency list is compared with the keys
themselves (`ListAgrees`): head and tail are the keys idle longest and shortest, and each
entry's links lead to the keys used next and last before it, by the history `taken`.

`alone` and `aloneSent` are the specification: for each key a `WindowStage`
that gets only this key's items, is ticked at every other call, and is
flushed when its key is the one idle longest and room is needed. `AsUnkeyed` says
that the keyed stage delivers the same windows in the same calls.

## Runs

| Run | Bounds and why they are enough | Shows |
|---|---|---|
| `edge_handoff` | capacity 0, 5 messages, fairness | type, refinement, `ClosedIsLearned`, every call returns |
| `edge_batched` | capacity 32 - the smallest with a batch (2) and a room (8) above 1 - and 35 messages, so the sender fills it and waits once more | bound, wake-ups |
| `lifecycle` | 2 items, 1 tick, 6 faults: the five lifecycle calls can all fail or panic after a first failure | each lifecycle call once and in order, error precedence, poisoning |
| `threaded` | 3 threads and the caller. Scenario 1: capacity 2, 3 items, 3 faults - a failure, and a panic in each of the two sink calls that follow it. Scenario 2: capacity 0, 5 items (3 threads can hold 3), 1 tick, 2 faults with spawn failures | order and completeness of teardown, no loss, root cause, panic precedence, backpressure, termination with threads missing |
| `flow` | 3 builder calls and 2 stages (a setting with two stages, or a dead-letter sink with its policy and a stage), 2 items (one held while another comes), 2 outputs of the first (so one can halt before the other), 1 idle answer, 1 failure, three retry policies - jittered, endless, refused -, delays that reach the cap and the largest instant | the builder's settings, conservation, statistics, tee, switch of sources, nothing after a halt, cancellation |
| `line_reader` | inputs of up to 5 bytes, capacities 0 (raised to 1) and 3, limits 0 (raised to 1) and 2, so buffer and limit are each the smaller once: a line longer than both, `cr` and `lf` in different reads and on either side of the limit, a character cut by both | lines do not depend on the cuts; bounded memory |
| `batch` | 4 items of size 0 or 5 and words up to 7: two items overflow; every combination of limits, among them 0, 1 and the word's maximum; the age (2) is the clock's whole range (0..2), which may be set back at will; failure after one batch | segmentation, limits, no early batch, no late batch |
| `keyed_window` | 3 keys and 4 items (a key is used again before the eviction of another), 7 shapes with limits 1, 2 and none, instants 0..7 with the clock in 0..4 - so windows end before, at and beyond what can be represented - one set-back of the clock, failure after one window, and a heap slack of 0 (64 in the code, which only delays compaction) | each item in its windows, what windows report, one unkeyed stage per key, timeliness, slab, list and heap (`TableSound`) |
| `lifecycle_poison`, `threaded_started`, `threaded_self_abort`, `keyed_window_order` | the least that shows the case | see Findings |

`AsUnkeyed` and `WindowsAsReported` hold while the clock runs forwards (the
system clock does); `EachItemInItsWindows`, `Timely` and `TableSound` also when
it is set back. `NothingLost` speaks of chains in which every output has an
input of its own (`Conserving`). `Accounted` allows two things the code does:
the items written in a call that halts are not in `items_out`, and a retry is
counted that a cancellation then prevents.

Deadlock is checked in every run except `threaded_started`, whose subject is a
run that stops, and `flow` and `line_reader`, which end with the run or the
input. The end of a behaviour is an explicit stuttering action
(`Terminated`, `Gone`, `Returned`), so a thread that waits for ever is a deadlock.

Fairness. In `Edge`: weak fairness of each thread's own steps (the scheduler
runs both), strong fairness of the receiver's acquisition of the lock (the
sender releases it every time it goes back to sleep, and wakes spuriously only finitely
often between any two of the receiver's attempts), and the loop that owns the receiver
either receives again or drops it - which is what the segment loop does.
Nothing is assumed of timeouts, of spurious wake-ups, or of the sender calling
again. In `Flow`: weak fairness of the run's thread - what it calls
returns, and a sleep ends; cancellation is never assumed. A sleep that no
cancel handle can interrupt is cut into the same slices, with the same outcome. In `Threaded`: weak fairness of each thread and of the caller, which
includes that user code and the source return; a source blocked in `pull`
for ever keeps the run alive, as the documentation of `ThreadedDriver` says.

## Findings

* `lifecycle_poison`: `run` does not look at the poison flag (`pipeline.rs:919`);
  a stepped pipeline whose `step` panicked can be run to `Ok` with an item lost.
* `threaded_started`: an observer that panics on `Event::Started` hangs
  `run_threaded` (`threaded.rs:350`): the runner is dropped before the segments
  it waits for.
* `threaded_self_abort`: `ChannelSegment::abort` clears `live` before it calls the
  chain (`threaded.rs:140`), so a `flush` that panics there prevents `close`.
* `keyed_window_order`: a heap entry is kept when its key's deadline moves
  (`window.rs:947`), so a session that kept receiving items is closed ahead of
  another key's session that ended before it; the documentation says in order
  of their end.

`threaded` leaves these fault sites out (`started`, `selfAbort`).

Met while modelling, without a run of their own:

* An error met in flushing the source thread's stages is kept until the
  segments have ended (`threaded.rs:231`), so a sink error that the following
  abort caused is returned in its place; `driver.rs:154` says the first error in
  time wins. `threaded` leaves this site (`sourceFlush`) out too. Likewise a spawn
  failure is offered after the segment was torn down (`threaded.rs:282`).
* A panic of the dead-letter sink's flush on the calling thread skips its close
  (`threaded.rs:372`).
* `items_out` (`driver.rs:34`) leaves out items that the sink accepted in a
  call that then halts: the count is returned by the call and lost with it.
* `retries` (`driver.rs:41`) counts the retry whose wait a cancellation cuts short,
  although it is never made.
* `ChainSource::close` returns the first of two errors and drops the second,
  which is not reported as a teardown error either (`source.rs:304`).
* When the first half of a `TeeSink` panics in `flush` or `close`, the second
  half's call is skipped, and the guard of `sink_fn` keeps it from being made
  later; the same holds for `ChainSource::close`.
* The limit of a line counts a carriage return that is then removed
  (`source.rs:479`); `source.rs:580` says that it excludes the terminator.

## Proofs

`EdgeProofs` proves, for every capacity and any number of messages:
`EdgeTypeOK`, `EdgeBound`, `EdgeNoLostWakeup`, `EdgeNoMutualSleep`,
`EdgeClosedIsLearned`, and that `Edge` implements `BoundedChannel`
(`EdgeImplementsChannel`). The only assumptions are that `Capacity` and
`MaxSends` are natural numbers.

All rest on `EdgeInvariant`, an inductive invariant of named parts. `Bound` is
not inductive: that the queue is within the limit follows from `Counts` (the
queue holds what was sent and not received, and no more is published than
received) and `Window` (the sender stays within the limit of the published
count, which its cached count only underestimates). `NoLostWakeup` is not inductive either: `Wakeup`
adds what holds between the sender's last look at the count and its sleep, and
`Locking` that the flag is up throughout, so that a receiver that publishes in
between is on its way to signal and cannot pass the lock before the sender sleeps.
`NoMutualSleep` follows with `Leaving`: a receiver blocks only after it published everything, and a
sender waits for no more than was sent. `Calls` and `Late` tie the sender's place in the code
to its call, which the refinement needs. The refinement is proved step by step:
each access is a channel step or leaves the channel's view unchanged.

`BatchProofs` proves, for every set of limits and sizes, any number of items
and every behaviour of the clock: `BatchTypeOK`, `BatchTimely`, `BatchSegmented`,
`BatchWithinLimits` and the action property `BatchForAReason`. The assumption `BatchAssumption` says that limits and sizes
are words, that age limits and the number of batches accepted are natural
numbers, and that fewer items are processed than a word counts, as
the batch is a vector in memory. `Timely` is not inductive: it speaks of the
arrival of the first open item, the code of `opened_at`. `OpenedByFirst`
says that they are the same, so a trigger that does not fire leaves a young
batch; it rests on `take_batch` forgetting the opening time
(`BatchInvariant`). `Segmented` is inductive together with the types: what
`emit_open_batch` is given always continues the last batch delivered
(`EmitSegmented`, `AppendFollows`). `WithinLimits` needs that the running count is
the true size of what is open (`Counted`), although the count saturates: it can only
do so in the step that emits the batch. `ForAReason` rests on all of these. `Weight`
is a recursive function: `SumsExist` shows that the sums are defined and `SumsAgree` that they
depend on the items summed only, both by `SetInduction`, which
follows from the well-foundedness of the natural numbers.

`KeyedWindowProofs` proves, for any keys, policies, limits, clock and number of items,
`KeyedTypeOK`, `KeyedTableSound` and `KeyedTimely`, under `KeyedWindowAssumption` (finitely many keys,
naturals as bounds and policies; only those the builder's check lets through are used). The
inductive invariant `KeyedInv` is `Sound`: its parts `SlotsOK`, `ListOn`, `HeapOK` and
`CreatedOK` are what the helpers of the table (`Unlink`, `PushBack`, `Insert`, `RemoveKey`,
`Schedule`, `CompactHeap`, one round of `expire`) keep.

* The list is two functions on a set of slots, linked to each other's inverse and
  ordered by last use (`IsList`). `CutList` and `PutList` show what the six assignments
  of unlinking and appending amount to, with the ends of the list as cases of their own; the
  order needs that the item at hand is newer than every other key's (`UsedNow`).
* `TableSound` bounds the heap by twice the keys tracked at once and the slack.
  `compact_heap` leaves no more entries than tracked keys, each with a ticket of its own
  (`CompactHeapSound`), and tickets grow, so a stale entry is never taken for a live one.
* A key that is inserted finds room: `touch` evicts when the limit is reached, and the head of
  the list is in use while any slot is (`HeadUsed`), so the slab stays within `max_keys`.
* `expire`, `emit_slots_before`, the joining of windows and the two flushes are recursive
  functions: `Recursion` gives them values and `Invariance` what holds of all of them.
* `KeyedTimely` adds `TimelyInv`: the open windows of a key lie on the grid of its policy
  (`GridCore`) and every slot in use is scheduled in time. `on_tick` and `on_item` leave no
  window open that has ended (`Settled`), since on the grid the earliest window is the first
  to end. Each round of `expire` takes one due entry off the heap and adds none, so as many
  rounds as entries are enough. After a refused window a slot may stay due; `expire` then
  schedules it for the next instant. The proof showed that an earlier form of `Timely` was
  too strong: at the last representable instant there is no next one (`checked_add` gives
  `None`) and nothing is scheduled, hence its `readAt < MaxInstant`.

`KeyedWindowItems` proves `KeyedEachItem` under the same assumption. An item demands places
(`Places`): its key, itself, and the start of each grid window that contains its arrival, or
one place under the other policies. A window fills the places of its items. `AccountInv`:
until a window is refused, the places demanded by the items taken are filled, each once and
nothing else, by the windows delivered and the windows open. It is kept because each
operation of a core delivers or keeps exactly what it held (`Accounted`); `expire`, `touch`,
`on_item` with `schedule`, and `flush` act on one slot at a time, and slots belong to
different keys (`HeldApart`). It needs two more parts. The queue of a sliding core is
in the order of the grid (`Sorted`), so `slot_at` finds the window of an index or puts it where
it belongs, and no window is open twice; and items come in increasing order
(`Above`), so a window stays in order of arrival. That windows are on the grid comes from `TimelyInv`. At the end
`HomesAreMarks` shows that the windows from `FirstIndex` to `LastIndex` are those that
contain the arrival, which is what the property asks.

`LineReaderProofs` proves, for every input length, capacity and limit,
`LineReaderTypeOK`: the line under construction never outgrows the limit and the
read buffer never its capacity. The type invariant is inductive; the lemmas say
what `Kept`, `WithoutCr` and `Decoded` return. `LineReaderAsSplit`: wherever the reader
cuts its bytes, the pulls return what splitting the whole input returns, line numbers of
errors included, and every line unless a line or a read failed. `AsSplit` looks at the
results only; `Split` adds where the reader stands. `Rest`: buffer and unread bytes are
the input without its first p bytes. `Begun`: the line under construction began at some b
behind an end of the splitting, none lies between b and p (`Within`), and what is kept
of it, its flags, the line number and the number of results are functions of b and p
(`KeptOf`, counts of ends below b). That a chunk leaves `KeptOf` in place is `KeptRight`:
the limit is met at the same byte whatever the pieces. A rejected line has an end somewhere
(`FirstEnd`), so its number is known before its end is read. The assumption of both is
`LineReaderAssumption`: the arguments are natural numbers.

`LifecycleProofs` proves, for any number of items, ticks, errors and panics,
every property that the run `lifecycle` checks: `LifecycleTypeOK`,
`LifecycleTornDown`, `LifecycleFirstErrorWins`, `LifecyclePoisonSticks` and
`LifecycleQuietAfterTeardown`. The assumption says that the bounds are natural
numbers. None but the types is inductive; `LifecycleInv` adds:

* `Ordered` and `Progress`: the guards are raised in the documented order, the
  calls made are the first so many of `Canonical`, and each step of the teardown,
  or the step that an offered error returns to, knows which guards are up;
* `Attempts`: an attempt of `Runner::drop` that ends in a panic has raised a guard
  before, since the calls made are skipped and the observer is only told of errors
  of a call made in this attempt. Five guards, so the sixth attempt completes.
  This is why the attempts are enough however many panics there are, where TLC
  shows it for six;
* `Offered`: until the caller gets it the first error is with `FirstError`, else on
  its way there, else held by the pair of calls under way;
* `Poison`: what a panic leaves is a run that refuses (`in_call`), has ended, or is
  being dropped; only `run` goes on after it, which `lifecycle_poison` shows;
* `Entered`: which methods can be at each place.

`FlowProofs` proves for every chain that `Builder` can build, every retry policy,
interval and number of items, idle answers and failures, under `FlowAssumption`:
`FlowNothingAfterHalt` and `FlowSwitchInTime`. The first rests on `Halted`: after a
failure the run is in its abort or past it, and what is under way is made of an
abort's tasks, which carry no item (`AtWork`: a task that does is taken only while
nothing failed; `UnderWay` ties the tasks to the phase). The logs of the sinks are
followed through `Tee`, which adds no write. The second rests on `Waits`: an answer
took no more than the interval or the switch, since the second source is given
what is left.

`FlowTypeOK` and `FlowBothHalves` rest on `Typing`. `TypeOK` bounds an attempt by the policy of
its stage, which only holds because a task is above the right ones: `Stack` says that the
agenda is one `return` at the bottom, the signal of the phase on it, and items
above; only the top one may be a retry or wait in its backoff; `Sound` that a task which
needs a policy is at a stage that has one, and that a backoff has an attempt
left. `Built` keeps the chain as the builder made it. `Ends` and `SourceEnds`
tie the sink's flags and the sources' closes to the phase, which is what "one flush, one close"
and the end of `BothHalves` need; `Halves` then adds that the logs are alike but for
the item that the second half refused. Every action is reduced to one of four forms
(`ItemStep`, `SignalStep`, `FailStep`, `RetryStep`), from which the invariant is shown.

`FlowAccounted` adds four parts to them (`AccountInv`). `Retried`: the retries counted are
those on record and the one whose backoff is under way (`Owed`), since a retry is counted
before its wait. `Taken`: the items counted are those the source gave. `Lettered`: the
dead letters are the failures on record that were under that policy, in their order.
`Blamed`: the failures counted and on record differ by at most the one that stopped
the run.

`FlowAsCalled` is about the builder inside `Flow`: for every list of its calls the chain and
`config_error` are what the list says. The list is read with `Latest` and `Least`, so
the proof goes from one call to the next: `Kept` says that each field of the builder is
what the list says of the calls so far, and `ReadsOn` that a further call does not
change what was read of an earlier stage. That such a call exists, first or last, is the
well-foundedness of the natural numbers (`LeastIs`, `LatestIs`).

`FlowNothingLost` adds `Whole`. The pulled numbers stand in line (`Line`): those the sink
has are below those of the last group, these below the group before it, and so on, and
the item under way is between the stage it left and the one it is going to; with
what stages gave up they are all the numbers pulled, each once (`Cover`). Every step of a chain with
no `map` or custom stage moves numbers along the line or out of it (`LineJoins`, `LineEmits`,
`LineArrives`). Three things make that inductive: only the head of the agenda carries an item
(`Lone`), so no two are under way; a piece keeps the order of the pulls (`Pieces`), so groups can be
concatenated; and a flush has drained the groups it has passed, what they held ahead of it
(`Flushed`), which is why nothing is held at the end. After a failure only the
order at the sink is kept.

`ThreadedProofs` proves every invariant that the
run `threaded` checks, for any number of workers, items, ticks, errors and
panics, any capacity and every interleaving, under `WorkersAssumption` (there is
a segment) and `ScenariosAssumption` (a scenario has the fields it should). They
share `BaseInvariant`: the types; `Shape`, which operations and modes go with a thread's
place; `Spawned`, who has started and who must have ended. Each action has a lemma that
says where it may take its thread and its edge; the invariants are then shown from
these and not from the actions.

* `ThreadedPanicWins`. `Reaches(E)`: once an error of the set `E` was raised, a thread
  panicked, or the shared slot holds an error of `E`, or the slot is empty and one
  is on its way (`Heading`: a thread is about to offer it, the source keeps it in `local`, or the caller
  could not spawn). It holds of all errors, hence none is swallowed, and of
  the causes, which `ThreadedRootCause` needs. `Decided`: `run` returns what the slot
  holds when it returns, or the panic.
* `ThreadedTornDown`. Sink, source and dead-letter sink are called by three
  threads, and nothing but messages orders them. `CloseFollows`: on its way down
  the chain a close has its flush ahead of it, unless a thread on the way broke
  off, which then aborts what is below it. `SinkSide` and `SourceSide`: which guards are up at
  each place of the last segment and of the source thread, among them that the attempts of
  `Drop` get past every panic (each one that panics has raised a guard); the source is
  closed only when every segment has ended.
* `ThreadedLossless`. `Ordered`: an item further downstream is an earlier one, over the
  threads, the edges and the sink's log (`Apart`). `Counted`: what was written,
  skipped or is in transit is at most what was pulled, and exactly that while nothing
  failed (`Clean`). That nothing is in transit at the end of a clean run needs `Tidy`: a
  thread hands its close on, its edge's receiver has it last (`Handing`), and a receiver that is gone
  was left by a thread that had its close (`Gone`).
* `ThreadedInFlight`. While nothing fails (`Faultless`) everything pulled is in
  transit, and at capacity 0 the message on an edge is the one its sender waits with (`HandOffs`),
  so it is counted once: each edge has room for `Capacity`, each thread for one (`Room`).
* `ThreadedRootCause`. `Rooted`: an error of an abort appears only after an error
  reached the shared slot or a thread panicked, and the source thread offers the error it
  kept when all segments have ended. `Caused`: the slot never holds an error of the teardown
  while a cause is under way, panics aside.

Two theorems have a hypothesis on the scenarios, because the code breaks the
property without it; neither excludes a fault that the run `threaded` enables.
`ThreadedTornDown` excludes a panic in the abort that a segment gives itself (the finding
`threaded_self_abort`) and in the dead-letter sink's flush (`threaded.rs:372`).
`ThreadedRootCause` excludes scenarios in which an abort may fail and so may the
source's flush or a spawn, the two errors that are offered late and overtaken
(`threaded.rs:233`, `threaded.rs:282`).

Only model-checked: liveness (`CallReturns`, `Terminates`, `CancelEnds`) and what keyed
windows report (`WindowsAsReported`, `AsUnkeyed`). These two compare the windows of
one key, picked from all by `SelectSeq`, which the provers have no facts about; a proof would first
state them over the indices of `sent`.

## Not modelled, and the plan

In order:

1. Proofs: `WindowsAsReported` and `AsUnkeyed` of the keyed window, stated without `SelectSeq`.
2. The start of a session that follows a full one (`window.rs:529` sets it to the
   arrival of the item before); failures of the abort of a running segment while
   another cannot be spawned; the observer's panic on `Started` in `Lifecycle`;
   the tallies of threads and their sum.

Recursion is written as recursive functions or folds, so that every module
can be proved about. Out of the prover's reach and left to TLC: liveness under
fairness and enabledness. The library's induction theorems take an operator as a
parameter and cannot be cited; induction over the natural numbers is done on sets
instead (`SetInduction`, `Induction`, `Recursion`), from their well-foundedness, which is enough
for recursive functions of a number; the references of `LineReader` and of `NothingLost` in `Flow`
count members of finite sets instead of folding a sequence.

The sources and sinks that hand on one library call (`IterSource`, `FnSource`,
`ChannelSource`, `NullSink`, `FnSink`, `VecSink`, `ChannelSink`, `WriterSink`) have
no behaviour of their own beyond that call: each is a source of `Flow` that
yields, idles, ends or fails, or a half of its tee. The drivers' entry points,
formatting and downcasting of errors, identifiers and the delivery of events
keep no state that a run depends on; benches, examples and fuzz targets are
outside the crate.
