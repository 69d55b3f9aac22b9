--------------------------- MODULE LifecycleProofs ---------------------------
(***************************************************************************)
(* Proofs about Lifecycle, for any number of items, ticks, errors and      *)
(* panics: the lifecycle calls are made in order, once each, and all of    *)
(* them by the time the pipeline ended or was dropped; the caller gets the *)
(* first error; a caught panic stays visible; and the teardown is quiet.   *)
(***************************************************************************)
EXTENDS Lifecycle, SequenceTheorems, TLAPS

-----------------------------------------------------------------------------
(* The inductive invariant.                                                *)

Working == {"pull", "process", "ticking"}
Between == {"idle", "enter"}
Ending == PCs \ (Working \cup Between)

\* Where the teardown is, or where it goes on after an error is offered.
Due == IF pc = "offer" THEN next ELSE pc

\* Which method is at work, and the state it leaves if the teardown panics.
Entered ==
  /\ pc = "enter" => api \in Methods /\ pstate # "gone"
  /\ pc \in Working => api \in {"step", "tick", "run"} /\ pstate = "running"
  /\ pc \in Working /\ api # "run" => inCall
  /\ pc \in Ending => pstate = "failed" \/ api \in {"run", "drop"}
  /\ pc = "offer" => next \in {"abortFlush", "closeSource", "dlqFlush", "retire"}
  /\ pc \in {"flushStages", "flushSink", "closeSink", "finished"} => mode # "drop"
  /\ pc = "dropping" => mode = "drop"

\* The guards are raised in the documented order; calls is their history.
One(b) == IF b THEN 1 ELSE 0
Raised == One(flushed) + One(closed) + One(srcClosed) + One(dlqFlushed) + One(dlqClosed)

Ordered ==
  /\ closed => flushed
  /\ srcClosed => closed
  /\ dlqFlushed => srcClosed
  /\ dlqClosed => dlqFlushed
  /\ dlqDone => dlqClosed
  /\ calls = SubSeq(Canonical, 1, Raised)

\* How far the teardown is, at each of its steps and before it.
Progress ==
  /\ Due \in {"closeSink", "abortClose"} => flushed
  /\ Due = "closeSource" => closed
  /\ Due = "dlqFlush" => srcClosed
  /\ Due = "dlqClose" => dlqFlushed
  /\ Due \in {"retire", "finished"} => dlqClosed
  /\ pc \in Working => ~flushed
  /\ pc \in Between /\ pstate \in {"built", "running"} => ~flushed
  /\ pstate = "built" => ~started
  /\ started /\ ~live => dlqClosed
  /\ started /\ pc \in Between /\ pstate \notin {"built", "running"} => dlqClosed

\* An attempt of Runner::drop that panics has raised a guard before it.
Attempts ==
  mode = "drop" /\ pc \in Ending =>
    /\ attempts <= Raised + 1
    /\ held # None \/ pc = "offer" => attempts <= Raised
    /\ pc = "dropping" => ~live \/ attempts <= Raised

\* Where the first error is until the caller gets it.
Reported == IF first # None THEN first ELSE IF err # None THEN err ELSE held

Offered ==
  /\ pc = "offer" <=> err # None
  /\ held # None => pc \in {"abortClose", "dlqClose"}
  /\ pc \in Ending /\ mode # "drop" => root = Reported

\* What a panic leaves: a run that refuses, has ended or is being dropped.
Poison ==
  panicked =>
    /\ pc \in Between => pstate \in {"failed", "gone"} \/ (pstate = "running" /\ inCall)
    /\ pc \in Working => api = "run" /\ inCall
    /\ pc \in Ending => mode = "drop" \/ api = "run" \/ first = "driver"

\* TypeOK, with the Boolean variables apart.
Values ==
  /\ pstate \in {"built", "running", "done", "failed", "gone"}
  /\ api \in Methods \cup {None, "drop"}
  /\ pc \in PCs /\ next \in PCs
  /\ mode \in {"finish", "abort", "drop"}
  /\ attempts \in 0..MaxAttempts
  /\ held \in CallNames \cup {None}
  /\ err \in ErrorNames /\ first \in ErrorNames /\ root \in ErrorNames
  /\ calls \in Seq(CallNames)
  /\ pulled \in Nat /\ settled \in Nat /\ ticks \in Nat /\ faults \in Nat

Flags ==
  /\ configError \in BOOLEAN /\ inCall \in BOOLEAN /\ cancelled \in BOOLEAN
  /\ byCancel \in BOOLEAN
  /\ live \in BOOLEAN /\ srcClosed \in BOOLEAN /\ dlqDone \in BOOLEAN
  /\ flushed \in BOOLEAN /\ closed \in BOOLEAN
  /\ dlqFlushed \in BOOLEAN /\ dlqClosed \in BOOLEAN
  /\ started \in BOOLEAN /\ panicked \in BOOLEAN

LifecycleInv ==
  /\ Values /\ Flags /\ Entered /\ Ordered /\ Progress /\ Attempts /\ Offered
  /\ Poison /\ PoisonSticks

-----------------------------------------------------------------------------
(* The teardown, whose steps leave the pipeline's own state alone.         *)

USE LifecycleAssumption DEF At, Fault, Panic, StartDrop, TeardownPanic, Fail,
  Proceed, NoPanic, Outside, UserCall, Skip, FirstCall, PairOk, SecondCall, Keep,
  errors, tally, runnerFlags, guards, MaxAttempts, None, Methods, PCs,
  Working, Between, Ending

\* A call appended to those made so far.
LEMMA Appended ==
  /\ SubSeq(Canonical, 1, 0) = <<>>
  /\ Append(SubSeq(Canonical, 1, 0), "flush") = SubSeq(Canonical, 1, 1)
  /\ Append(SubSeq(Canonical, 1, 1), "close") = SubSeq(Canonical, 1, 2)
  /\ Append(SubSeq(Canonical, 1, 2), "sourceClose") = SubSeq(Canonical, 1, 3)
  /\ Append(SubSeq(Canonical, 1, 3), "dlqFlush") = SubSeq(Canonical, 1, 4)
  /\ Append(SubSeq(Canonical, 1, 4), "dlqClose") = SubSeq(Canonical, 1, 5)
  BY DEF Canonical

\* Five guards raised: all five calls were made.
LEMMA AllMade == SubSeq(Canonical, 1, 5) = Canonical
  <1>1. Canonical \in Seq(CallNames) /\ Len(Canonical) = 5
    BY DEF Canonical, CallNames
  <1>2. SubSeq(Canonical, 1, Len(Canonical)) = Canonical
    BY <1>1, SubSeqFull
  <1> QED
    BY <1>1, <1>2

\* A panic in a teardown is followed by a drop, which reports no success.
LEMMA TeardownPoison ==
  ASSUME LifecycleInv, pc \in Ending, pc' \in Ending, UNCHANGED api,
         mode' \in {mode, "drop"},
         panicked' => panicked \/ mode' = "drop",
         first = "driver" => first' = "driver" \/ mode' = "drop"
  PROVE  Poison' /\ PoisonSticks'
  BY DEF LifecycleInv, Poison, PoisonSticks

LEMMA OfferStep ==
  ASSUME LifecycleInv, Offer
  PROVE  LifecycleInv'
  <1>1. Values'
    BY DEF LifecycleInv, Values, CallNames, ErrorNames, Offer
  <1>2. Flags'
    <2>1. UNCHANGED <<configError, inCall, cancelled, byCancel, live, srcClosed,
                      dlqDone, flushed, closed, dlqFlushed, dlqClosed, started>>
      BY DEF Offer
    <2>2. panicked' \in BOOLEAN
      BY DEF LifecycleInv, Flags, Offer
    <2> QED
      BY <2>1, <2>2, Zenon DEF LifecycleInv, Flags
  <1>3. Entered' /\ Offered'
    BY DEF LifecycleInv, Values, Entered, Offered, Reported, CallNames, ErrorNames,
       Offer
  <1>4. Ordered'
    BY Appended DEF LifecycleInv, Flags, Ordered, Raised, One, Progress, Due, Offer
  <1>5. Progress' /\ Attempts'
    BY DEF LifecycleInv, Values, Flags, Entered, Ordered, Progress, Due, Attempts,
       Offered, Raised, One, Offer
  <1>6. Poison' /\ PoisonSticks'
    <2>1. pc \in Ending /\ pc' \in Ending /\ mode' \in {mode, "drop"} /\ UNCHANGED api
      BY DEF LifecycleInv, Entered, Offer
    <2>2. first = "driver" => first' = "driver" \/ mode' = "drop"
      BY DEF Offer
    <2>3. panicked' => panicked \/ mode' = "drop"
      BY Zenon DEF Offer
    <2> QED
      BY <2>1, <2>2, <2>3, TeardownPoison
  <1> QED
    BY <1>1, <1>2, <1>3, <1>4, <1>5, <1>6 DEF LifecycleInv

LEMMA FlushStagesStep ==
  ASSUME LifecycleInv, FlushStages
  PROVE  LifecycleInv'
  <1>1. Values'
    BY DEF LifecycleInv, Values, CallNames, ErrorNames, FlushStages
  <1>2. Flags'
    <2>1. UNCHANGED <<configError, inCall, cancelled, byCancel, live, srcClosed,
                      dlqDone, flushed, closed, dlqFlushed, dlqClosed, started>>
      BY DEF FlushStages
    <2>2. panicked' \in BOOLEAN
      BY DEF LifecycleInv, Flags, FlushStages
    <2> QED
      BY <2>1, <2>2, Zenon DEF LifecycleInv, Flags
  <1>3. Entered' /\ Offered'
    BY DEF LifecycleInv, Values, Entered, Offered, Reported, CallNames, ErrorNames,
       FlushStages
  <1>4. Ordered'
    BY Appended DEF LifecycleInv, Flags, Ordered, Raised, One, Progress, Due, FlushStages
  <1>5. Progress' /\ Attempts'
    BY DEF LifecycleInv, Values, Flags, Entered, Ordered, Progress, Due, Attempts,
       Offered, Raised, One, FlushStages
  <1>6. Poison' /\ PoisonSticks'
    <2>1. pc \in Ending /\ pc' \in Ending /\ mode' \in {mode, "drop"} /\ UNCHANGED api
      BY DEF LifecycleInv, Entered, FlushStages
    <2>2. first = "driver" => first' = "driver" \/ mode' = "drop"
      BY DEF FlushStages
    <2>3. panicked' => panicked \/ mode' = "drop"
      BY Zenon DEF FlushStages
    <2> QED
      BY <2>1, <2>2, <2>3, TeardownPoison
  <1> QED
    BY <1>1, <1>2, <1>3, <1>4, <1>5, <1>6 DEF LifecycleInv

LEMMA FlushSinkStep ==
  ASSUME LifecycleInv, FlushSink
  PROVE  LifecycleInv'
  <1>1. Values'
    BY DEF LifecycleInv, Values, CallNames, ErrorNames, FlushSink
  <1>2. Flags'
    <2>1. UNCHANGED <<configError, inCall, cancelled, byCancel, live, srcClosed,
                      dlqDone, closed, dlqFlushed, dlqClosed, started>>
      BY DEF FlushSink
    <2>2. panicked' \in BOOLEAN /\ flushed' \in BOOLEAN
      BY DEF LifecycleInv, Flags, FlushSink
    <2> QED
      BY <2>1, <2>2, Zenon DEF LifecycleInv, Flags
  <1>3. Entered' /\ Offered'
    BY DEF LifecycleInv, Values, Entered, Offered, Reported, CallNames, ErrorNames,
       FlushSink
  <1>4. Ordered'
    BY Appended DEF LifecycleInv, Flags, Ordered, Raised, One, Progress, Due, FlushSink
  <1>5. Progress' /\ Attempts'
    BY DEF LifecycleInv, Values, Flags, Entered, Ordered, Progress, Due, Attempts,
       Offered, Raised, One, FlushSink
  <1>6. Poison' /\ PoisonSticks'
    <2>1. pc \in Ending /\ pc' \in Ending /\ mode' \in {mode, "drop"} /\ UNCHANGED api
      BY DEF LifecycleInv, Entered, FlushSink
    <2>2. first = "driver" => first' = "driver" \/ mode' = "drop"
      BY DEF FlushSink
    <2>3. panicked' => panicked \/ mode' = "drop"
      BY Zenon DEF FlushSink
    <2> QED
      BY <2>1, <2>2, <2>3, TeardownPoison
  <1> QED
    BY <1>1, <1>2, <1>3, <1>4, <1>5, <1>6 DEF LifecycleInv

LEMMA CloseSinkStep ==
  ASSUME LifecycleInv, CloseSink
  PROVE  LifecycleInv'
  <1>1. Values'
    BY DEF LifecycleInv, Values, CallNames, ErrorNames, CloseSink
  <1>2. Flags'
    <2>1. UNCHANGED <<configError, inCall, cancelled, byCancel, live, srcClosed,
                      dlqDone, flushed, dlqFlushed, dlqClosed, started>>
      BY DEF CloseSink
    <2>2. panicked' \in BOOLEAN /\ closed' \in BOOLEAN
      BY DEF LifecycleInv, Flags, CloseSink
    <2> QED
      BY <2>1, <2>2, Zenon DEF LifecycleInv, Flags
  <1>3. Entered' /\ Offered'
    BY DEF LifecycleInv, Values, Entered, Offered, Reported, CallNames, ErrorNames,
       CloseSink
  <1>4. Ordered'
    BY Appended DEF LifecycleInv, Flags, Ordered, Raised, One, Progress, Due, CloseSink
  <1>5. Progress' /\ Attempts'
    BY DEF LifecycleInv, Values, Flags, Entered, Ordered, Progress, Due, Attempts,
       Offered, Raised, One, CloseSink
  <1>6. Poison' /\ PoisonSticks'
    <2>1. pc \in Ending /\ pc' \in Ending /\ mode' \in {mode, "drop"} /\ UNCHANGED api
      BY DEF LifecycleInv, Entered, CloseSink
    <2>2. first = "driver" => first' = "driver" \/ mode' = "drop"
      BY DEF CloseSink
    <2>3. panicked' => panicked \/ mode' = "drop"
      BY Zenon DEF CloseSink
    <2> QED
      BY <2>1, <2>2, <2>3, TeardownPoison
  <1> QED
    BY <1>1, <1>2, <1>3, <1>4, <1>5, <1>6 DEF LifecycleInv

LEMMA AbortFlushStep ==
  ASSUME LifecycleInv, AbortFlush
  PROVE  LifecycleInv'
  <1>1. Values'
    BY DEF LifecycleInv, Values, CallNames, ErrorNames, AbortFlush
  <1>2. Flags'
    <2>1. UNCHANGED <<configError, inCall, cancelled, byCancel, live, srcClosed,
                      dlqDone, closed, dlqFlushed, dlqClosed, started>>
      BY DEF AbortFlush
    <2>2. panicked' \in BOOLEAN /\ flushed' \in BOOLEAN
      BY DEF LifecycleInv, Flags, AbortFlush
    <2> QED
      BY <2>1, <2>2, Zenon DEF LifecycleInv, Flags
  <1>3. Entered' /\ Offered'
    BY DEF LifecycleInv, Values, Entered, Offered, Reported, CallNames, ErrorNames,
       AbortFlush
  <1>4. Ordered'
    BY Appended DEF LifecycleInv, Flags, Ordered, Raised, One, Progress, Due, AbortFlush
  <1>5. Progress' /\ Attempts'
    BY DEF LifecycleInv, Values, Flags, Entered, Ordered, Progress, Due, Attempts,
       Offered, Raised, One, AbortFlush
  <1>6. Poison' /\ PoisonSticks'
    <2>1. pc \in Ending /\ pc' \in Ending /\ mode' \in {mode, "drop"} /\ UNCHANGED api
      BY DEF LifecycleInv, Entered, AbortFlush
    <2>2. first = "driver" => first' = "driver" \/ mode' = "drop"
      BY DEF AbortFlush
    <2>3. panicked' => panicked \/ mode' = "drop"
      BY Zenon DEF AbortFlush
    <2> QED
      BY <2>1, <2>2, <2>3, TeardownPoison
  <1> QED
    BY <1>1, <1>2, <1>3, <1>4, <1>5, <1>6 DEF LifecycleInv

LEMMA AbortCloseStep ==
  ASSUME LifecycleInv, AbortClose
  PROVE  LifecycleInv'
  <1>1. Values'
    BY DEF LifecycleInv, Values, CallNames, ErrorNames, AbortClose
  <1>2. Flags'
    <2>1. UNCHANGED <<configError, inCall, cancelled, byCancel, live, srcClosed,
                      dlqDone, flushed, dlqFlushed, dlqClosed, started>>
      BY DEF AbortClose
    <2>2. panicked' \in BOOLEAN /\ closed' \in BOOLEAN
      BY DEF LifecycleInv, Flags, AbortClose
    <2> QED
      BY <2>1, <2>2, Zenon DEF LifecycleInv, Flags
  <1>3. Entered' /\ Offered'
    BY DEF LifecycleInv, Values, Entered, Offered, Reported, CallNames, ErrorNames,
       AbortClose
  <1>4. Ordered'
    BY Appended DEF LifecycleInv, Flags, Ordered, Raised, One, Progress, Due, AbortClose
  <1>5. Progress' /\ Attempts'
    BY DEF LifecycleInv, Values, Flags, Entered, Ordered, Progress, Due, Attempts,
       Offered, Raised, One, AbortClose
  <1>6. Poison' /\ PoisonSticks'
    <2>1. pc \in Ending /\ pc' \in Ending /\ mode' \in {mode, "drop"} /\ UNCHANGED api
      BY DEF LifecycleInv, Entered, AbortClose
    <2>2. first = "driver" => first' = "driver" \/ mode' = "drop"
      BY DEF AbortClose
    <2>3. panicked' => panicked \/ mode' = "drop"
      BY Zenon DEF AbortClose
    <2> QED
      BY <2>1, <2>2, <2>3, TeardownPoison
  <1> QED
    BY <1>1, <1>2, <1>3, <1>4, <1>5, <1>6 DEF LifecycleInv

LEMMA CloseSourceStep ==
  ASSUME LifecycleInv, CloseSource
  PROVE  LifecycleInv'
  <1>1. Values'
    BY DEF LifecycleInv, Values, CallNames, ErrorNames, CloseSource
  <1>2. Flags'
    <2>1. UNCHANGED <<configError, inCall, cancelled, byCancel, live, dlqDone,
                      flushed, closed, dlqFlushed, dlqClosed, started>>
      BY DEF CloseSource
    <2>2. panicked' \in BOOLEAN /\ srcClosed' \in BOOLEAN
      BY DEF LifecycleInv, Flags, CloseSource
    <2> QED
      BY <2>1, <2>2, Zenon DEF LifecycleInv, Flags
  <1>3. Entered' /\ Offered'
    BY DEF LifecycleInv, Values, Entered, Offered, Reported, CallNames, ErrorNames,
       CloseSource
  <1>4. Ordered'
    BY Appended DEF LifecycleInv, Flags, Ordered, Raised, One, Progress, Due, CloseSource
  <1>5. Progress' /\ Attempts'
    BY DEF LifecycleInv, Values, Flags, Entered, Ordered, Progress, Due, Attempts,
       Offered, Raised, One, CloseSource
  <1>6. Poison' /\ PoisonSticks'
    <2>1. pc \in Ending /\ pc' \in Ending /\ mode' \in {mode, "drop"} /\ UNCHANGED api
      BY DEF LifecycleInv, Entered, CloseSource
    <2>2. first = "driver" => first' = "driver" \/ mode' = "drop"
      BY DEF CloseSource
    <2>3. panicked' => panicked \/ mode' = "drop"
      BY Zenon DEF CloseSource
    <2> QED
      BY <2>1, <2>2, <2>3, TeardownPoison
  <1> QED
    BY <1>1, <1>2, <1>3, <1>4, <1>5, <1>6 DEF LifecycleInv

LEMMA DlqFlushStep ==
  ASSUME LifecycleInv, DlqFlush
  PROVE  LifecycleInv'
  <1>1. Values'
    BY DEF LifecycleInv, Values, CallNames, ErrorNames, DlqFlush
  <1>2. Flags'
    <2>1. UNCHANGED <<configError, inCall, cancelled, byCancel, live, srcClosed,
                      dlqDone, flushed, closed, dlqClosed, started>>
      BY DEF DlqFlush
    <2>2. panicked' \in BOOLEAN /\ dlqFlushed' \in BOOLEAN
      BY DEF LifecycleInv, Flags, DlqFlush
    <2> QED
      BY <2>1, <2>2, Zenon DEF LifecycleInv, Flags
  <1>3. Entered' /\ Offered'
    BY DEF LifecycleInv, Values, Entered, Offered, Reported, CallNames, ErrorNames,
       DlqFlush
  <1>4. Ordered'
    BY Appended DEF LifecycleInv, Flags, Ordered, Raised, One, Progress, Due, DlqFlush
  <1>5. Progress' /\ Attempts'
    BY DEF LifecycleInv, Values, Flags, Entered, Ordered, Progress, Due, Attempts,
       Offered, Raised, One, DlqFlush
  <1>6. Poison' /\ PoisonSticks'
    <2>1. pc \in Ending /\ pc' \in Ending /\ mode' \in {mode, "drop"} /\ UNCHANGED api
      BY DEF LifecycleInv, Entered, DlqFlush
    <2>2. first = "driver" => first' = "driver" \/ mode' = "drop"
      BY DEF DlqFlush
    <2>3. panicked' => panicked \/ mode' = "drop"
      BY Zenon DEF DlqFlush
    <2> QED
      BY <2>1, <2>2, <2>3, TeardownPoison
  <1> QED
    BY <1>1, <1>2, <1>3, <1>4, <1>5, <1>6 DEF LifecycleInv

LEMMA DlqCloseStep ==
  ASSUME LifecycleInv, DlqClose
  PROVE  LifecycleInv'
  <1>1. Values'
    BY DEF LifecycleInv, Values, CallNames, ErrorNames, DlqClose
  <1>2. Flags'
    <2>1. UNCHANGED <<configError, inCall, cancelled, byCancel, live, srcClosed,
                      flushed, closed, dlqFlushed, started>>
      BY DEF DlqClose
    <2>2. panicked' \in BOOLEAN /\ dlqClosed' \in BOOLEAN /\ dlqDone' \in BOOLEAN
      BY DEF LifecycleInv, Flags, DlqClose
    <2> QED
      BY <2>1, <2>2, Zenon DEF LifecycleInv, Flags
  <1>3. Entered' /\ Offered'
    BY DEF LifecycleInv, Values, Entered, Offered, Reported, CallNames, ErrorNames,
       DlqClose
  <1>4. Ordered'
    BY Appended DEF LifecycleInv, Flags, Ordered, Raised, One, Progress, Due, DlqClose
  <1>5. Progress' /\ Attempts'
    BY DEF LifecycleInv, Values, Flags, Entered, Ordered, Progress, Due, Attempts,
       Offered, Raised, One, DlqClose
  <1>6. Poison' /\ PoisonSticks'
    <2>1. pc \in Ending /\ pc' \in Ending /\ mode' \in {mode, "drop"} /\ UNCHANGED api
      BY DEF LifecycleInv, Entered, DlqClose
    <2>2. first = "driver" => first' = "driver" \/ mode' = "drop"
      BY DEF DlqClose
    <2>3. panicked' => panicked \/ mode' = "drop"
      BY Zenon DEF DlqClose
    <2> QED
      BY <2>1, <2>2, <2>3, TeardownPoison
  <1> QED
    BY <1>1, <1>2, <1>3, <1>4, <1>5, <1>6 DEF LifecycleInv

LEMMA RetireStep ==
  ASSUME LifecycleInv, Retire
  PROVE  LifecycleInv'
  <1>1. Values'
    BY DEF LifecycleInv, Values, CallNames, ErrorNames, Retire
  <1>2. Flags'
    <2>1. UNCHANGED <<configError, inCall, cancelled, byCancel, srcClosed, dlqDone,
                      flushed, closed, dlqFlushed, dlqClosed, started>>
      BY DEF Retire
    <2>2. panicked' \in BOOLEAN /\ live' \in BOOLEAN
      BY DEF LifecycleInv, Flags, Retire
    <2> QED
      BY <2>1, <2>2, Zenon DEF LifecycleInv, Flags
  <1>3. Entered' /\ Offered'
    BY DEF LifecycleInv, Values, Entered, Offered, Reported, CallNames, ErrorNames,
       Retire
  <1>4. Ordered'
    BY Appended DEF LifecycleInv, Flags, Ordered, Raised, One, Progress, Due, Retire
  <1>5. Progress' /\ Attempts'
    BY DEF LifecycleInv, Values, Flags, Entered, Ordered, Progress, Due, Attempts,
       Offered, Raised, One, Retire
  <1>6. Poison' /\ PoisonSticks'
    <2>1. pc \in Ending /\ pc' \in Ending /\ mode' \in {mode, "drop"} /\ UNCHANGED api
      BY DEF LifecycleInv, Entered, Retire
    <2>2. first = "driver" => first' = "driver" \/ mode' = "drop"
      BY DEF Retire
    <2>3. panicked' => panicked \/ mode' = "drop"
      BY Zenon DEF Retire
    <2> QED
      BY <2>1, <2>2, <2>3, TeardownPoison
  <1> QED
    BY <1>1, <1>2, <1>3, <1>4, <1>5, <1>6 DEF LifecycleInv

LEMMA DroppingStep ==
  ASSUME LifecycleInv, Dropping
  PROVE  LifecycleInv'
  <1>1. CASE live /\ attempts < MaxAttempts
    <2>1. Values'
      BY <1>1 DEF LifecycleInv, Values, Dropping, Return
    <2>2. Flags'
      <3>1. UNCHANGED <<configError, inCall, cancelled, byCancel, live, srcClosed, dlqDone,
                        flushed, closed, dlqFlushed, dlqClosed, started, panicked>>
        BY DEF Dropping
      <3> QED
        BY <3>1, Zenon DEF LifecycleInv, Flags
    <2>3. Entered' /\ Offered' /\ Ordered'
      BY <1>1 DEF LifecycleInv, Values, Entered, Offered, Ordered, Raised, One, Reported,
         Dropping, Return
    <2>4. Progress' /\ Attempts'
      BY <1>1 DEF LifecycleInv, Values, Flags, Entered, Offered, Progress, Due, Attempts,
         Raised, One, Dropping, Return
    <2>5. Poison' /\ PoisonSticks'
      BY <1>1 DEF LifecycleInv, Entered, Poison, PoisonSticks, Dropping, Return
    <2> QED
      BY <2>1, <2>2, <2>3, <2>4, <2>5 DEF LifecycleInv
  <1>2. CASE ~live \/ attempts = MaxAttempts
    <2>1. Values'
      BY <1>2 DEF LifecycleInv, Values, Dropping, Return
    <2>2. Flags'
      <3>1. UNCHANGED <<configError, inCall, cancelled, byCancel, live, srcClosed, dlqDone,
                        flushed, closed, dlqFlushed, dlqClosed, started, panicked>>
        BY DEF Dropping
      <3> QED
        BY <3>1, Zenon DEF LifecycleInv, Flags
    <2>3. started => dlqClosed
      BY <1>2 DEF LifecycleInv, Values, Flags, Entered, Ordered, Progress, Attempts,
         Raised, One, Dropping
    <2>4. pc' = "idle" /\ pstate' \in {"failed", "gone"}
      BY <1>2 DEF LifecycleInv, Entered, Dropping, Return
    <2>5. Entered' /\ Offered' /\ Ordered'
      BY <1>2, <2>4 DEF LifecycleInv, Values, Entered, Offered, Ordered, Raised, One,
         Dropping, Return
    <2>6. Progress' /\ Attempts'
      BY <2>3, <2>4 DEF LifecycleInv, Progress, Due, Attempts, Dropping
    <2>7. Poison' /\ PoisonSticks'
      BY <1>2, <2>4 DEF LifecycleInv, Entered, Poison, PoisonSticks, Dropping, Return
    <2> QED
      BY <2>1, <2>2, <2>5, <2>6, <2>7 DEF LifecycleInv
  <1> QED
    BY <1>1, <1>2 DEF Dropping

LEMMA FinishedStep ==
  ASSUME LifecycleInv, Finished
  PROVE  LifecycleInv'
  <1>1. PICK r \in ErrorNames \cup {"cancelled", "ok", "panic"}, st \in {"failed", "done"} :
          /\ Return(r, st)
          /\ st = "done" => r = "ok"
          /\ r = "panic" \/ (panicked' = panicked /\ r # "panic")
          /\ r \notin {"cancelled", "ok", "panic"} => r = first
          /\ r \in {"cancelled", "ok"} => first = None
    BY DEF LifecycleInv, Values, ErrorNames, CallNames, Finished
  <1>2. Values'
    BY DEF LifecycleInv, Values, Finished, Return
  <1>3. Flags'
    <2>1. UNCHANGED <<configError, inCall, cancelled, byCancel, live, srcClosed, dlqDone,
                      flushed, closed, dlqFlushed, dlqClosed, started>>
      BY DEF Finished
    <2>2. panicked' \in BOOLEAN
      BY DEF LifecycleInv, Flags, Finished
    <2> QED
      BY <2>1, <2>2, Zenon DEF LifecycleInv, Flags
  <1>4. pc = "finished" /\ pc' = "idle" /\ pstate' \in {"failed", "done", "gone"}
    BY DEF Finished, Return
  <1>5. Entered' /\ Offered' /\ Ordered'
    BY <1>4 DEF LifecycleInv, Values, Entered, Offered, Ordered, Raised, One, Finished
  <1>6. Progress' /\ Attempts'
    BY <1>4 DEF LifecycleInv, Entered, Progress, Due, Attempts, Finished
  <1>7. Poison' /\ PoisonSticks'
    <2>1. result' = <<api, r>> /\ r \in {"panic", first, "cancelled", "ok"}
      BY <1>1 DEF Return
    <2>2. (api # "run" /\ panicked' => r \in {"panic", "driver"})
      BY <1>1, <1>4 DEF LifecycleInv, Entered, Poison
    <2>3. api # "run" /\ panicked' => pstate' \in {"failed", "gone"}
      BY <1>1, <1>4, <2>2 DEF LifecycleInv, Entered, Poison, Return
    <2>4. api = "run" => pstate' = "gone" /\ result'[1] = "run"
      BY <1>1 DEF Return
    <2> QED
      BY <1>4, <2>1, <2>2, <2>3, <2>4 DEF Poison, PoisonSticks
  <1> QED
    BY <1>2, <1>3, <1>5, <1>6, <1>7 DEF LifecycleInv

-----------------------------------------------------------------------------
(* The pipeline's methods.                                                 *)

\* The run begins to end: nothing was torn down yet.
LEMMA ConcludeStep ==
  ASSUME LifecycleInv, pc \in Working \cup {"enter"}, pstate = "running",
         NEW m \in {"finish", "abort"}, NEW e \in ErrorNames, NEW c \in BOOLEAN,
         Conclude(m, e, c), panicked => api = "run" \/ e = "driver",
         inCall' \in BOOLEAN, cancelled' = cancelled,
         pulled' \in Nat, settled' \in Nat, ticks' \in Nat, faults' \in Nat,
         UNCHANGED <<configError, api, result, live, started, panicked, TeardownVars>>
  PROVE  LifecycleInv'
  <1> USE DEF TeardownVars, Conclude
  <1>1. Values'
    BY DEF LifecycleInv, Values
  <1>2. Flags'
    <2>1. UNCHANGED <<configError, cancelled, live, srcClosed, dlqDone, flushed, closed,
                      dlqFlushed, dlqClosed, started, panicked>> /\ byCancel' = c
      OBVIOUS
    <2> QED
      BY <2>1, Zenon DEF LifecycleInv, Flags
  <1>3. Entered' /\ Offered'
    BY DEF LifecycleInv, Entered, Offered, Reported
  <1>4. Ordered' /\ Progress' /\ Attempts'
    BY DEF LifecycleInv, Ordered, Raised, One, Progress, Due, Attempts
  <1>5. Poison' /\ PoisonSticks'
    <2>1. panicked' => panicked
      BY Zenon
    <2> QED
      BY <2>1 DEF Poison, PoisonSticks
  <1> QED
    BY <1>1, <1>2, <1>3, <1>4, <1>5 DEF LifecycleInv

\* A panic in the runner's call: the method returns, or the run is dropped.
LEMMA PumpPanicsStep ==
  ASSUME LifecycleInv, pc \in Working, PumpPanics,
         pulled' \in Nat, settled' \in Nat, ticks' \in Nat,
         UNCHANGED <<configError, cancelled, live, started>>
  PROVE  LifecycleInv'
  <1>1. Values'
    BY DEF LifecycleInv, Values, ErrorNames, PumpPanics, Return
  <1>2. Flags'
    <2>1. UNCHANGED <<configError, inCall, cancelled, byCancel, live, srcClosed, dlqDone,
                      flushed, closed, dlqFlushed, dlqClosed, started>> /\ panicked' = TRUE
      BY DEF PumpPanics
    <2> QED
      BY <2>1, Zenon DEF LifecycleInv, Flags
  <1>3. Entered' /\ Offered'
    BY DEF LifecycleInv, Values, Entered, Offered, Reported, PumpPanics, Return
  <1>4. Ordered'
    BY DEF LifecycleInv, Ordered, Raised, One, PumpPanics
  <1>5. Progress' /\ Attempts'
    BY DEF LifecycleInv, Flags, Entered, Ordered, Progress, Due, Attempts, Raised, One,
       PumpPanics, Return
  <1>6. Poison' /\ PoisonSticks'
    BY DEF LifecycleInv, Entered, Poison, PoisonSticks, PumpPanics, Return
  <1> QED
    BY <1>1, <1>2, <1>3, <1>4, <1>5, <1>6 DEF LifecycleInv

\* The runner's call ends well.
LEMMA PumpedStep ==
  ASSUME LifecycleInv, pc \in Working, NEW r \in {"item", "ticked", "idle"}, Pumped(r),
         pulled' \in Nat, settled' \in Nat,
         UNCHANGED <<configError, cancelled, live, started, mode, byCancel, first, root,
                     panicked, ticks, faults, TeardownVars>>
  PROVE  LifecycleInv'
  <1> USE DEF TeardownVars
  <1>1. Values'
    BY DEF LifecycleInv, Values, Entered, Pumped, Return
  <1>2. inCall' = inCall \/ inCall' = FALSE
    BY DEF Pumped
  <1>3. Flags'
    <2>1. UNCHANGED <<configError, cancelled, byCancel, live, srcClosed, dlqDone, flushed,
                      closed, dlqFlushed, dlqClosed, started, panicked>>
      OBVIOUS
    <2> QED
      BY <1>2, <2>1, Zenon DEF LifecycleInv, Flags
  <1>4. pc' \in Between /\ pstate' = "running"
        /\ (pc' = "enter" => api' = "run") /\ (pc' = "idle" => result' = <<api, r>>)
    BY DEF LifecycleInv, Entered, Pumped, Return
  <1>5. Entered' /\ Offered'
    BY <1>4 DEF LifecycleInv, Entered, Offered
  <1>6. Ordered' /\ Progress' /\ Attempts'
    BY <1>4 DEF LifecycleInv, Entered, Ordered, Progress, Due, Attempts, Raised, One
  <1>7. Poison' /\ PoisonSticks'
    <2>1. panicked' => api = "run"
      BY Zenon DEF LifecycleInv, Poison
    <2>2. api = "run" => pc' = "enter" /\ (inCall => inCall')
      BY Zenon DEF Pumped
    <2>3. panicked' => inCall
      BY Zenon DEF LifecycleInv, Poison
    <2> QED
      BY <1>4, <2>1, <2>2, <2>3 DEF Poison, PoisonSticks
  <1> QED
    BY <1>1, <1>3, <1>5, <1>6, <1>7 DEF LifecycleInv

LEMMA CallStep ==
  ASSUME LifecycleInv, NEW m \in Methods, Call(m)
  PROVE  LifecycleInv'
  <1> USE DEF TeardownVars
  <1>1. Values'
    BY DEF LifecycleInv, Values, Call
  <1>2. Flags'
    <2>1. UNCHANGED <<configError, inCall, cancelled, byCancel, live, srcClosed, dlqDone,
                      flushed, closed, dlqFlushed, dlqClosed, started, panicked>>
      BY DEF Call
    <2> QED
      BY <2>1, Zenon DEF LifecycleInv, Flags
  <1>3. Entered' /\ Offered'
    BY DEF LifecycleInv, Entered, Offered, Call
  <1>4. Ordered' /\ Progress' /\ Attempts'
    BY DEF LifecycleInv, Ordered, Progress, Due, Attempts, Raised, One, Call
  <1>5. Poison' /\ PoisonSticks'
    BY DEF LifecycleInv, Poison, PoisonSticks, Call
  <1> QED
    BY <1>1, <1>2, <1>3, <1>4, <1>5 DEF LifecycleInv

LEMMA EnterEndedStep ==
  ASSUME LifecycleInv, EnterEnded
  PROVE  LifecycleInv'
  <1> USE DEF TeardownVars
  <1>1. Values'
    BY DEF LifecycleInv, Values, EnterEnded, Return
  <1>2. Flags'
    <2>1. UNCHANGED <<configError, inCall, cancelled, byCancel, live, srcClosed, dlqDone,
                      flushed, closed, dlqFlushed, dlqClosed, started, panicked>>
      BY DEF EnterEnded
    <2> QED
      BY <2>1, Zenon DEF LifecycleInv, Flags
  <1>3. Entered' /\ Offered'
    BY DEF LifecycleInv, Entered, Offered, EnterEnded, Return
  <1>4. Ordered' /\ Progress' /\ Attempts'
    BY DEF LifecycleInv, Ordered, Progress, Due, Attempts, Raised, One, EnterEnded, Return
  <1>5. Poison' /\ PoisonSticks'
    BY DEF LifecycleInv, Poison, PoisonSticks, EnterEnded, Return
  <1> QED
    BY <1>1, <1>2, <1>3, <1>4, <1>5 DEF LifecycleInv

LEMMA EnsureStartedStep ==
  ASSUME LifecycleInv, EnsureStarted
  PROVE  LifecycleInv'
  <1> USE DEF TeardownVars
  <1>1. Values'
    BY DEF LifecycleInv, Values, EnsureStarted, Return
  <1>2. Flags'
    <2>1. UNCHANGED <<configError, inCall, cancelled, byCancel, srcClosed, dlqDone, flushed,
                      closed, dlqFlushed, dlqClosed>>
      BY DEF EnsureStarted
    <2>2. panicked' \in BOOLEAN /\ live' \in BOOLEAN /\ started' \in BOOLEAN
      BY DEF LifecycleInv, Flags, EnsureStarted
    <2> QED
      BY <2>1, <2>2, Zenon DEF LifecycleInv, Flags
  <1>3. Entered' /\ Offered'
    BY DEF LifecycleInv, Entered, Offered, EnsureStarted, Return
  <1>4. Ordered' /\ Progress' /\ Attempts'
    BY DEF LifecycleInv, Flags, Ordered, Progress, Due, Attempts, Raised, One,
       EnsureStarted, Return
  <1>5. Poison' /\ PoisonSticks'
    <2>1. ~panicked
      BY DEF LifecycleInv, Poison, EnsureStarted
    <2>2. panicked' => /\ pc' = "idle" /\ pstate' \in {"failed", "gone"}
                       /\ result' = <<api, "panic">>
      BY <2>1, Zenon DEF EnsureStarted, Return
    <2> QED
      BY <2>2 DEF Poison, PoisonSticks
  <1> QED
    BY <1>1, <1>2, <1>3, <1>4, <1>5 DEF LifecycleInv

LEMMA PoisonedStep ==
  ASSUME LifecycleInv, Poisoned
  PROVE  LifecycleInv'
  BY ConcludeStep DEF LifecycleInv, Values, ErrorNames, Poisoned

LEMMA BeginStep ==
  ASSUME LifecycleInv, Begin
  PROVE  LifecycleInv'
  <1>1. pc = "enter" /\ pstate = "running" /\ (panicked => api = "run" /\ inCall)
    BY DEF LifecycleInv, Poison, Begin, Refuses
  <1>2. ASSUME NEW c \in BOOLEAN, Conclude("finish", None, c), UNCHANGED inCall
        PROVE  LifecycleInv'
    BY <1>1, <1>2, ConcludeStep DEF LifecycleInv, Values, Flags, ErrorNames, Begin
  <1>3. ASSUME Stay, pc' = IF api = "tick" THEN "ticking" ELSE "pull",
               api \in {"step", "run", "tick"},
               inCall' = IF api = "run" THEN inCall ELSE TRUE
        PROVE  LifecycleInv'
    <2> USE DEF TeardownVars, Stay
    <2>1. Values'
      BY <1>3 DEF LifecycleInv, Values, Begin
    <2>2. Flags'
      <3>1. UNCHANGED <<configError, cancelled, byCancel, live, srcClosed, dlqDone, flushed,
                        closed, dlqFlushed, dlqClosed, started, panicked>>
        BY <1>3 DEF Begin
      <3> QED
        BY <1>3, <3>1, Zenon DEF LifecycleInv, Flags
    <2>3. Entered'
      BY <1>1, <1>3 DEF LifecycleInv, Entered, Begin
    <2>4. Offered' /\ Ordered' /\ Progress' /\ Attempts'
      BY <1>1, <1>3 DEF LifecycleInv, Offered, Ordered, Progress, Due, Attempts, Raised,
         One, Begin
    <2>5. Poison' /\ PoisonSticks'
      <3>1. panicked' => api' = "run" /\ inCall'
        BY <1>1, <1>3, Zenon DEF Begin
      <3>2. pc' \in Working
        BY <1>3
      <3> QED
        BY <3>1, <3>2 DEF Poison, PoisonSticks
    <2> QED
      BY <2>1, <2>2, <2>3, <2>4, <2>5 DEF LifecycleInv
  <1>4. \/ \E c \in BOOLEAN : Conclude("finish", None, c) /\ UNCHANGED inCall
        \/ /\ Stay /\ pc' = (IF api = "tick" THEN "ticking" ELSE "pull")
           /\ api \in {"step", "run", "tick"}
           /\ inCall' = (IF api = "run" THEN inCall ELSE TRUE)
    BY Zenon DEF Begin
  <1> QED
    BY <1>2, <1>3, <1>4

\* A failure in the runner's call.
LEMMA PumpFailsStep ==
  ASSUME LifecycleInv, pc \in Working, NEW e \in ErrorNames, PumpFails(e),
         pulled' \in Nat, settled' \in Nat, ticks' \in Nat,
         UNCHANGED <<configError, cancelled, live, started>>
  PROVE  LifecycleInv'
  <1>1. inCall' \in BOOLEAN
    BY Zenon DEF LifecycleInv, Flags, PumpFails
  <1>2. panicked => api = "run"
    BY DEF LifecycleInv, Poison
  <1>3. pstate = "running" /\ faults' \in Nat
    BY DEF LifecycleInv, Values, Entered, PumpFails
  <1> QED
    BY <1>1, <1>2, <1>3, ConcludeStep DEF PumpFails

LEMMA PullStep ==
  ASSUME LifecycleInv, Pull
  PROVE  LifecycleInv'
  <1>1. /\ pc = "pull" /\ pstate = "running"
        /\ pulled' \in Nat /\ settled' \in Nat /\ ticks' \in Nat
    <2>1. pulled' \in {pulled, pulled + 1} /\ ticks' \in {ticks, ticks + 1}
      BY Zenon DEF Pull, PullFails
    <2>2. pc = "pull" /\ settled' = settled
      BY DEF Pull
    <2> QED
      BY <2>1, <2>2 DEF LifecycleInv, Values, Entered
  <1>2. ASSUME Stay, pc' \in {"process", "ticking"},
               UNCHANGED <<inCall, api, result, panicked, faults, TeardownVars>>
        PROVE  LifecycleInv'
    <2> USE DEF TeardownVars, Stay
    <2>1. Values'
      BY <1>1, <1>2 DEF LifecycleInv, Values
    <2>2. Flags'
      <3>1. UNCHANGED <<configError, inCall, cancelled, byCancel, live, srcClosed, dlqDone,
                        flushed, closed, dlqFlushed, dlqClosed, started, panicked>>
        BY <1>2 DEF Pull
      <3> QED
        BY <3>1, Zenon DEF LifecycleInv, Flags
    <2>3. Entered' /\ Offered' /\ Ordered' /\ Progress' /\ Attempts'
      <3>1. api # "run" => inCall'
        BY <1>1, <1>2, Zenon DEF LifecycleInv, Entered
      <3> QED
        BY <1>1, <1>2, <3>1 DEF LifecycleInv, Entered, Offered, Ordered, Progress, Due,
           Attempts, Raised, One, Pull
    <2>4. Poison' /\ PoisonSticks'
      BY <1>1, <1>2 DEF LifecycleInv, Poison, PoisonSticks
    <2> QED
      BY <2>1, <2>2, <2>3, <2>4 DEF LifecycleInv
  <1>3. ASSUME Conclude("finish", None, FALSE),
               inCall' = IF api = "run" THEN inCall ELSE FALSE,
               UNCHANGED <<api, result, panicked, faults, TeardownVars>>
        PROVE  LifecycleInv'
    <2>1. inCall' \in BOOLEAN
      BY <1>3, Zenon DEF LifecycleInv, Flags
    <2>2. (panicked => api = "run") /\ faults' \in Nat
      BY <1>1, <1>3 DEF LifecycleInv, Poison, Values
    <2> QED
      BY <1>1, <1>3, <2>1, <2>2, ConcludeStep DEF ErrorNames, Pull
  <1>4. CASE PullFails
    BY <1>1, <1>4, PumpFailsStep DEF PullFails, ErrorNames, Pull
  <1>5. CASE PumpPanics
    BY <1>1, <1>5, PumpPanicsStep DEF Pull
  <1> QED
    BY <1>2, <1>3, <1>4, <1>5 DEF Pull

LEMMA ProcessStep ==
  ASSUME LifecycleInv, Process
  PROVE  LifecycleInv'
  <1>1. pc \in Working /\ pulled' \in Nat /\ settled' \in Nat /\ ticks' \in Nat
    BY DEF LifecycleInv, Values, Process
  <1>2. CASE /\ Pumped("item")
             /\ UNCHANGED <<mode, byCancel, first, root, panicked, faults, TeardownVars>>
    BY <1>1, <1>2, PumpedStep DEF Process
  <1>3. CASE PumpFails("process")
    BY <1>1, <1>3, PumpFailsStep DEF ErrorNames, Process
  <1>4. CASE PumpPanics
    BY <1>1, <1>4, PumpPanicsStep DEF Process
  <1> QED
    BY <1>2, <1>3, <1>4 DEF Process

LEMMA TickingStep ==
  ASSUME LifecycleInv, Ticking
  PROVE  LifecycleInv'
  <1>1. pc \in Working /\ pulled' \in Nat /\ settled' \in Nat /\ ticks' \in Nat
    BY DEF LifecycleInv, Values, Ticking
  <1>2. ASSUME NEW r \in {"ticked", "idle"}, Pumped(r),
               UNCHANGED <<mode, byCancel, first, root, panicked, faults, TeardownVars>>
        PROVE  LifecycleInv'
    BY <1>1, <1>2, PumpedStep DEF Ticking
  <1>3. CASE PumpFails("tick")
    BY <1>1, <1>3, PumpFailsStep DEF ErrorNames, Ticking
  <1>4. CASE PumpPanics
    BY <1>1, <1>4, PumpPanicsStep DEF Ticking
  <1> QED
    BY <1>2, <1>3, <1>4 DEF Ticking

LEMMA CancelStep ==
  ASSUME LifecycleInv, Cancel
  PROVE  LifecycleInv'
  <1>1. Values'
    BY DEF LifecycleInv, Values, Cancel
  <1>2. Flags'
    <2>1. UNCHANGED <<configError, inCall, byCancel, live, srcClosed, dlqDone, flushed,
                      closed, dlqFlushed, dlqClosed, started, panicked>> /\ cancelled' = TRUE
      BY DEF Cancel
    <2> QED
      BY <2>1, Zenon DEF LifecycleInv, Flags
  <1>3. Entered' /\ Offered' /\ Ordered' /\ Progress' /\ Attempts'
    BY DEF LifecycleInv, Entered, Offered, Reported, Ordered, Progress, Due, Attempts,
       Raised, One, Cancel
  <1>4. Poison' /\ PoisonSticks'
    BY DEF LifecycleInv, Poison, PoisonSticks, Cancel
  <1> QED
    BY <1>1, <1>2, <1>3, <1>4 DEF LifecycleInv

LEMMA DropPipelineStep ==
  ASSUME LifecycleInv, DropPipeline
  PROVE  LifecycleInv'
  <1>1. Values'
    BY DEF LifecycleInv, Values, ErrorNames, DropPipeline
  <1>2. Flags'
    <2>1. UNCHANGED <<configError, inCall, cancelled, byCancel, live, srcClosed, dlqDone,
                      flushed, closed, dlqFlushed, dlqClosed, started, panicked>>
      BY DEF DropPipeline
    <2> QED
      BY <2>1, Zenon DEF LifecycleInv, Flags
  <1>3. Entered' /\ Offered'
    BY DEF LifecycleInv, Entered, Offered, DropPipeline
  <1>4. Ordered' /\ Progress' /\ Attempts'
    BY DEF LifecycleInv, Flags, Ordered, Progress, Due, Attempts, Raised, One, DropPipeline
  <1>5. Poison' /\ PoisonSticks'
    BY DEF LifecycleInv, Poison, PoisonSticks, DropPipeline
  <1> QED
    BY <1>1, <1>2, <1>3, <1>4, <1>5 DEF LifecycleInv

-----------------------------------------------------------------------------
(* The theorems.                                                           *)

LEMMA LifecycleInit == Init => LifecycleInv
  <1> SUFFICES ASSUME Init PROVE LifecycleInv
    OBVIOUS
  <1>1. Values
    BY DEF Init, Values, ErrorNames
  <1>2. Flags
    BY Zenon DEF Init, Flags
  <1>3. Entered /\ Offered /\ Progress /\ Attempts /\ Poison /\ PoisonSticks
    BY DEF Init, Entered, Offered, Progress, Due, Attempts, Poison, PoisonSticks
  <1>4. Ordered
    BY Appended DEF Init, Ordered, Raised, One
  <1> QED
    BY <1>1, <1>2, <1>3, <1>4 DEF LifecycleInv

LEMMA LifecycleStutter ==
  ASSUME LifecycleInv, UNCHANGED vars
  PROVE  LifecycleInv'
  <1>1. Values' /\ Entered' /\ Offered' /\ Ordered' /\ Progress' /\ Attempts' /\ Poison'
        /\ PoisonSticks'
    BY DEF LifecycleInv, Values, Entered, Offered, Reported, Ordered, Progress, Due,
       Attempts, Raised, One, Poison, PoisonSticks, vars
  <1>2. Flags'
    <2>1. UNCHANGED <<configError, inCall, cancelled, byCancel, live, srcClosed, dlqDone,
                      flushed, closed, dlqFlushed, dlqClosed, started, panicked>>
      BY DEF vars
    <2> QED
      BY <2>1, Zenon DEF LifecycleInv, Flags
  <1> QED
    BY <1>1, <1>2 DEF LifecycleInv

LEMMA LifecycleNext == LifecycleInv /\ [Next]_vars => LifecycleInv'
  <1> SUFFICES ASSUME LifecycleInv, [Next]_vars PROVE LifecycleInv'
    OBVIOUS
  <1>1. CASE \E m \in Methods : Call(m)
    BY <1>1, CallStep
  <1>2. CASE EnterEnded \/ EnsureStarted \/ Poisoned \/ Begin
    BY <1>2, EnterEndedStep, EnsureStartedStep, PoisonedStep, BeginStep
  <1>3. CASE Pull \/ Process \/ Ticking
    BY <1>3, PullStep, ProcessStep, TickingStep
  <1>4. CASE Cancel \/ DropPipeline
    BY <1>4, CancelStep, DropPipelineStep
  <1>5. CASE Teardown
    BY <1>5, OfferStep, FlushStagesStep, FlushSinkStep, CloseSinkStep, AbortFlushStep,
       AbortCloseStep, CloseSourceStep, DlqFlushStep, DlqCloseStep, RetireStep,
       DroppingStep, FinishedStep DEF Teardown
  <1>6. CASE Gone \/ UNCHANGED vars
    BY <1>6, LifecycleStutter DEF Gone
  <1> QED
    BY <1>1, <1>2, <1>3, <1>4, <1>5, <1>6 DEF Next

(* The inductive invariant holds in every run, whatever fails or panics.   *)
THEOREM LifecycleInvariant == Spec => []LifecycleInv
  BY LifecycleInit, LifecycleNext, PTL DEF Spec

(* Every variable of a run on the caller's thread keeps its type.          *)
THEOREM LifecycleTypeOK == Spec => []TypeOK
  <1>1. LifecycleInv => TypeOK
    BY Zenon DEF LifecycleInv, Values, Flags, TypeOK
  <1> QED
    BY <1>1, LifecycleInvariant, PTL

(* Runner::drop's attempts are enough, for any number of errors and        *)
(* panics: the lifecycle calls are made in order, none twice, and all of   *)
(* them by the time a started pipeline has ended or was dropped.           *)
THEOREM LifecycleTornDown == Spec => []TornDown
  <1>1. LifecycleInv => TornDown
    <2> SUFFICES ASSUME LifecycleInv PROVE TornDown
      OBVIOUS
    <2>1. Raised \in 0..5 /\ calls = SubSeq(Canonical, 1, Raised)
      BY DEF LifecycleInv, Ordered, Raised, One
    <2>2. \A n \in 0..5 : Len(SubSeq(Canonical, 1, n)) = n
      BY DEF Canonical
    <2>3. (At("idle") /\ started /\ pstate \in {"done", "failed", "gone"}) => Raised = 5
      BY DEF LifecycleInv, Ordered, Progress, Raised, One
    <2> QED
      BY <2>1, <2>2, <2>3, AllMade DEF TornDown
  <1> QED
    BY <1>1, LifecycleInvariant, PTL

(* FirstError keeps the error that came first, not one of its consequences.*)
THEOREM LifecycleFirstErrorWins == Spec => []FirstErrorWins
  <1>1. LifecycleInv => FirstErrorWins
    BY DEF LifecycleInv, Entered, Offered, Reported, FirstErrorWins
  <1> QED
    BY <1>1, LifecycleInvariant, PTL

(* A caught panic stays visible: no later step, tick or finish succeeds.   *)
THEOREM LifecyclePoisonSticks == Spec => []PoisonSticks
  <1>1. LifecycleInv => PoisonSticks
    BY DEF LifecycleInv
  <1> QED
    BY <1>1, LifecycleInvariant, PTL

(* No item is pulled or settled once the teardown has begun.               *)
THEOREM LifecycleQuietAfterTeardown == Spec => QuietAfterTeardown
  <1>1. LifecycleInv /\ [Next]_vars => [calls # <<>> => UNCHANGED tally]_vars
    <2> SUFFICES ASSUME LifecycleInv, [Next]_vars, calls # <<>>
                 PROVE  UNCHANGED tally
      OBVIOUS
    <2>1. pc \notin Working
      BY Appended DEF LifecycleInv, Flags, Ordered, Progress, Raised, One
    <2> QED
      BY <2>1 DEF Next, Call, EnterEnded, EnsureStarted, Poisoned, Begin, Pull, Process,
         Ticking, Cancel, DropPipeline, Gone, Teardown, Offer, FlushStages, FlushSink,
         CloseSink, AbortFlush, AbortClose, CloseSource, DlqFlush, DlqClose, Retire,
         Dropping, Finished, vars
  <1> QED
    BY <1>1, LifecycleInvariant, PTL DEF Spec, QuietAfterTeardown
=============================================================================
