------------------------------- MODULE Batch -------------------------------
(***************************************************************************)
(* The batching stage of batch.rs: items are collected into an open batch  *)
(* that is emitted when it holds enough items, enough bytes, or is old     *)
(* enough, and at the end of the stream.  The driver calls process, tick   *)
(* and flush; the clock is read by process and tick and may stand still,   *)
(* jump forwards, or (ManualClock::set) jump backwards.  The later stages  *)
(* may fail, after which nothing more is delivered and no call is made.    *)
(*                                                                         *)
(* Sizes and counts are words 0..WordMax, the usize of the code.           *)
(***************************************************************************)
EXTENDS Integers, Sequences, FiniteSets, SequencesExt

CONSTANTS
  WordMax,    \* usize::MAX
  Sizes,      \* byte sizes of items
  ItemLimits, ByteLimits, AgeLimits, \* the limits a policy may set
  MaxTaken,   \* bound: items processed
  MaxTime,    \* bound: instants the clock shows
  Accepted    \* how many batches the later stages may take before they fail

ASSUME BatchAssumption ==
  /\ WordMax \in Nat /\ MaxTime \in Nat
  /\ MaxTaken \in 0..(WordMax - 1)
  /\ Sizes \subseteq 0..WordMax
  /\ ItemLimits \subseteq 0..WordMax /\ ByteLimits \subseteq 0..WordMax
  /\ AgeLimits \subseteq Nat /\ Accepted \subseteq Nat

VARIABLES
  policy,     \* the BatchPolicy
  measure,    \* the stage measures its items (BatchStage.measure is Some)
  now,        \* what the clock shows
  items,      \* the open batch
  bytes,      \* its running byte count
  openedAt,   \* AgeTrigger.opened_at
  accepts,    \* batches the later stages still take
  failed,     \* a batch was refused (EmitError::Closed)
  ended,      \* flush was called
  sent,       \* history: the batches delivered
  taken,      \* history: the number of items processed
  readAt      \* history: what the clock showed to the last process or tick

stage == <<items, bytes, openedAt>>
vars == <<policy, measure, now, stage, accepts, failed, ended, sent, taken, readAt>>

None == -1
Instant == 0..MaxTime
Item == [id : 1..MaxTaken, size : Sizes, at : Instant]
Policy == [items : ItemLimits \cup {None}, bytes : ByteLimits \cup {None},
           age : AgeLimits \cup {None}]

\* BatchPolicy::check and check_batch: what the builder lets through.
Check(p, byteAware) ==
  /\ p.items # None \/ p.bytes # None \/ p.age # None
  /\ p.items # 0 /\ p.bytes # 0 /\ p.age # 0
  /\ p.bytes # None => byteAware

-----------------------------------------------------------------------------
Or(limit, default) == IF limit = None THEN default ELSE limit
AtMost(a, b) == IF a <= b THEN a ELSE b

\* BatchStage::new: the limits in force.
ItemsLimit == Or(policy.items, WordMax)
BytesLimit == Or(policy.bytes, WordMax)

SaturatingAdd(a, b) == AtMost(a + b, WordMax)

\* Instant::saturating_duration_since.
Since(later, earlier) == IF later >= earlier THEN later - earlier ELSE 0

\* Variant: the age must be exceeded.
ExpiredLate(opened) ==
  policy.age # None /\ opened # None /\ Since(now, opened) > policy.age
\* AgeTrigger::expired, of a batch opened at `opened`.
Expired(opened) ==
  policy.age # None /\ opened # None /\ Since(now, opened) >= policy.age

\* Variant: the batch is emitted when it exceeds the limit.
LimitExceeded(its, byt) == Len(its) > ItemsLimit \/ byt > BytesLimit
LimitReached(its, byt) == Len(its) >= ItemsLimit \/ byt >= BytesLimit

\* Variant: the byte count survives the batch.
KeepBytes(byt) == items' = <<>> /\ bytes' = byt /\ openedAt' = None
\* take_batch: what is left of the open batch, whose count was byt.
TakeBatch(byt) == items' = <<>> /\ bytes' = 0 /\ openedAt' = None

\* Variant: the open batch is sent and not replaced.
EmitCopy(its, byt) ==
  /\ items' = its /\ bytes' = byt
  /\ sent' = Append(sent, its)
  /\ UNCHANGED <<openedAt, accepts, failed>>
\* emit_open_batch: a batch refused downstream is dropped.
EmitOpenBatch(its, byt) ==
  IF its = <<>>
  THEN items' = its /\ bytes' = byt /\ UNCHANGED <<openedAt, accepts, failed, sent>>
  ELSE /\ TakeBatch(byt)
       /\ IF accepts > 0
          THEN sent' = Append(sent, its) /\ accepts' = accepts - 1 /\ failed' = failed
          ELSE failed' = TRUE /\ UNCHANGED <<sent, accepts>>

-----------------------------------------------------------------------------
\* The batch is still empty; the builder has checked the policy, and `measure`
\* is dropped without a byte limit.
Init ==
  /\ policy \in Policy
  /\ \E byteAware \in BOOLEAN :
       Check(policy, byteAware) /\ measure = (byteAware /\ policy.bytes # None)
  /\ now \in Instant
  /\ items = <<>> /\ bytes = 0 /\ openedAt = None
  /\ accepts \in Accepted /\ failed = FALSE /\ ended = FALSE
  /\ sent = <<>> /\ taken = 0 /\ readAt = now

\* Time passes, or the clock is set (ManualClock::set).
Clock ==
  /\ ~ended /\ ~failed
  /\ \E t \in Instant : t # now /\ now' = t
  /\ UNCHANGED <<policy, measure, stage, accepts, failed, ended, sent, taken, readAt>>

\* Variant: the instant the batch is due is kept in place of its opening.
OpenedDue == IF policy.age = None THEN None ELSE now + policy.age
\* opened_at once the batch holds an item.
Opened ==
  IF policy.age = None THEN None ELSE IF openedAt = None THEN now ELSE openedAt

\* BatchStage::process.  A batch whose age or limit is reached is emitted with
\* the new item in it.
Process(size) ==
  /\ ~ended /\ ~failed /\ taken < MaxTaken
  /\ taken' = taken + 1 /\ readAt' = now
  /\ LET its == Append(items, [id |-> taken + 1, size |-> size, at |-> now])
         byt == IF measure THEN SaturatingAdd(bytes, size) ELSE bytes
         opened == Opened
     IN IF Expired(opened) \/ LimitReached(its, byt)
        THEN EmitOpenBatch(its, byt)
        ELSE /\ items' = its /\ bytes' = byt /\ openedAt' = opened
             /\ UNCHANGED <<accepts, failed, sent>>
  /\ UNCHANGED <<policy, measure, now, ended>>

\* BatchStage::tick.
Tick ==
  /\ ~ended /\ ~failed
  /\ readAt' = now
  /\ IF Expired(openedAt)
     THEN EmitOpenBatch(items, bytes)
     ELSE UNCHANGED <<stage, accepts, failed, sent>>
  /\ UNCHANGED <<policy, measure, now, ended, taken>>

\* BatchStage::flush, the last call of a run that has not failed.
Flush ==
  /\ ~ended /\ ~failed
  /\ ended' = TRUE
  /\ EmitOpenBatch(items, bytes)
  /\ UNCHANGED <<policy, measure, now, taken, readAt>>

\* The stage is dropped after the flush or after a failure.
Dropped == (ended \/ failed) /\ UNCHANGED vars

Next == Clock \/ (\E size \in Sizes : Process(size)) \/ Tick \/ Flush \/ Dropped

Spec == Init /\ [][Next]_vars

-----------------------------------------------------------------------------
TypeOK ==
  /\ policy \in Policy /\ measure \in BOOLEAN
  /\ now \in Instant
  /\ items \in Seq(Item) /\ bytes \in 0..WordMax
  /\ openedAt \in Instant \cup {None}
  /\ accepts \in Nat /\ failed \in BOOLEAN /\ ended \in BOOLEAN
  /\ sent \in Seq(Seq(Item)) /\ taken \in 0..MaxTaken /\ readAt \in Instant

\* The number of the last item of the i-th batch delivered.
Through(i) == IF i = 0 THEN 0 ELSE sent[i][Len(sent[i])].id

\* A piece of the input: the items that follow the one numbered `from`.
Follows(batch, from) == \A j \in DOMAIN batch : batch[j].id = from + j

\* Every item processed is in exactly one batch, in arrival order across and
\* inside batches: the batches delivered and the open batch are the input, cut
\* into pieces; a failure loses at most what follows the delivered pieces.
Segmented ==
  /\ \A i \in DOMAIN sent : sent[i] # <<>> /\ Follows(sent[i], Through(i - 1))
  /\ ~failed => /\ Follows(items, Through(Len(sent)))
                /\ taken = Through(Len(sent)) + Len(items)
  /\ ended => items = <<>>

\* The true size of a batch.
Weight(batch) ==
  LET upTo[n \in 0..Len(batch)] == IF n = 0 THEN 0 ELSE upTo[n - 1] + batch[n].size
  IN  upTo[Len(batch)]

\* A batch that is delivered is not empty and within its limits: never more
\* than max_items, and only the item that crosses max_bytes exceeds it.  The open
\* batch is short of every limit.
WithinLimits ==
  /\ \A i \in DOMAIN sent :
       /\ Len(sent[i]) \in 1..ItemsLimit
       /\ policy.bytes # None => Weight(Front(sent[i])) < policy.bytes
  /\ Len(items) < ItemsLimit
  /\ policy.bytes # None => Weight(items) < policy.bytes

\* No batch is emitted early: before the end of the stream a batch has reached
\* its item limit, its byte limit by the sizes of its own items, or its age since
\* its own first item - nothing left over from the batch before counts.
ForAReason ==
  [][ Len(sent') > Len(sent) /\ ~ended' =>
        LET batch == Last(sent')
        IN \/ policy.items # None /\ Len(batch) >= policy.items
           \/ policy.bytes # None /\ Weight(batch) >= policy.bytes
           \/ policy.age # None /\ Since(now, batch[1].at) >= policy.age ]_vars

\* A batch does not outlive its age: no process or tick that reads the clock
\* when the first item of the open batch is max_age old leaves the batch open.
Timely ==
  policy.age # None /\ items # <<>> /\ ~ended =>
    Since(readAt, items[1].at) < policy.age
=============================================================================
