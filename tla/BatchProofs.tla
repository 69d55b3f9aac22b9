---------------------------- MODULE BatchProofs ----------------------------
(***************************************************************************)
(* Proofs about Batch, for every set of limits and sizes, any number of    *)
(* items and every behaviour of the clock.                                 *)
(***************************************************************************)
EXTENDS Batch, SequenceTheorems, WellFoundedInduction, TLAPS

\* The open batch was opened by its first item, and has an opening time only
\* while it holds items and the policy has an age limit.
OpenedByFirst ==
  openedAt = IF policy.age # None /\ items # <<>> THEN items[1].at ELSE None

Inv == TypeOK /\ OpenedByFirst /\ Timely

\* What emit_open_batch leaves: nothing open, or nothing changed where nothing was.
LEMMA EmitType ==
  ASSUME TypeOK, NEW its \in Seq(Item), NEW byt \in 0..WordMax,
         EmitOpenBatch(its, byt), WordMax \in Nat
  PROVE  /\ items' = <<>>
         /\ bytes' \in 0..WordMax
         /\ accepts' \in Nat /\ failed' \in BOOLEAN /\ sent' \in Seq(Seq(Item))
         /\ its # <<>> => openedAt' = None
         /\ its = <<>> => openedAt' = openedAt
<1> USE DEF TypeOK
<1>1. CASE its = <<>>
  BY <1>1 DEF EmitOpenBatch
<1>2. CASE its # <<>>
  <2>1. items' = <<>> /\ bytes' = 0 /\ openedAt' = None
    BY <1>2 DEF EmitOpenBatch, TakeBatch
  <2>2. CASE accepts > 0
    <3>1. sent' = Append(sent, its) /\ accepts' = accepts - 1 /\ failed' = failed
      BY <1>2, <2>2 DEF EmitOpenBatch
    <3>2. sent' \in Seq(Seq(Item))
      BY <3>1, its \in Seq(Item), sent \in Seq(Seq(Item))
    <3> QED BY <1>2, <2>1, <2>2, <3>1, <3>2
  <2>3. CASE ~(accepts > 0)
    BY <1>2, <2>1, <2>3 DEF EmitOpenBatch
  <2> QED BY <2>2, <2>3
<1> QED BY <1>1, <1>2

\* The machine word the byte count is kept in is never left.
LEMMA SumType ==
  ASSUME WordMax \in Nat, NEW a \in 0..WordMax, NEW b \in 0..WordMax
  PROVE  SaturatingAdd(a, b) \in 0..WordMax
BY DEF SaturatingAdd, AtMost

\* An age limit is a number.
LEMMA AgeType == TypeOK => policy.age \in Int
<1> SUFFICES ASSUME TypeOK PROVE policy.age \in Int
  OBVIOUS
<1>1. policy.age \in AgeLimits \cup {None}
  <2>1. policy \in Policy
    BY DEF TypeOK
  <2> QED BY <2>1 DEF Policy
<1>2. CASE policy.age \in AgeLimits
  <2>1. AgeLimits \subseteq Nat
    BY BatchAssumption
  <2>2. policy.age \in Nat
    BY <1>2, <2>1
  <2> QED BY <2>2
<1>3. CASE policy.age = None
  BY <1>3 DEF None
<1> QED BY <1>1, <1>2, <1>3

\* A sequence extended by an element of its set.
LEMMA AppendType ==
  ASSUME NEW S, NEW s \in Seq(S), NEW e \in S
  PROVE  Append(s, e) \in Seq(S) /\ Append(s, e) # <<>>
<1>1. Append(s, e) \in Seq(S)
  OBVIOUS
<1>2. Len(Append(s, e)) = Len(s) + 1 /\ Len(s) \in Nat
  OBVIOUS
<1> QED BY <1>1, <1>2

LEMMA InitInv == Init => Inv
<1> SUFFICES ASSUME Init PROVE Inv
  OBVIOUS
<1>1. TypeOK
  <2>1. accepts \in Nat
    BY BatchAssumption DEF Init
  <2>2. measure \in BOOLEAN
    BY DEF Init
  <2>3. /\ items \in Seq(Item) /\ bytes \in 0..WordMax /\ sent \in Seq(Seq(Item))
        /\ taken \in 0..MaxTaken
    BY BatchAssumption DEF Init
  <2> QED BY <2>1, <2>2, <2>3 DEF Init, TypeOK
<1>2. OpenedByFirst /\ Timely
  BY DEF Init, OpenedByFirst, Timely
<1> QED BY <1>1, <1>2 DEF Inv

\* After a batch was taken nothing is open, whatever was open before.
LEMMA NothingOpen ==
  ASSUME items' = <<>>, openedAt' = None
  PROVE  OpenedByFirst' /\ Timely'
BY DEF OpenedByFirst, Timely

LEMMA StepClock == Inv /\ Clock => Inv'
<1> SUFFICES ASSUME Inv, Clock PROVE Inv'
  OBVIOUS
<1>1. now' \in Instant
  BY DEF Clock
<1>2. UNCHANGED <<policy, measure, items, bytes, openedAt, accepts, failed, ended,
                  sent, taken, readAt>>
  BY DEF Clock, stage
<1> QED BY <1>1, <1>2 DEF Inv, TypeOK, OpenedByFirst, Timely

LEMMA StepProcess ==
  ASSUME Inv, NEW size \in Sizes, Process(size)
  PROVE  Inv'
<1> DEFINE item == [id |-> taken + 1, size |-> size, at |-> now]
           its == Append(items, item)
           byt == IF measure THEN SaturatingAdd(bytes, size) ELSE bytes
<1> USE DEF Inv
<1>1. /\ taken < MaxTaken /\ taken' = taken + 1 /\ readAt' = now
      /\ UNCHANGED <<policy, measure, now, ended>>
  BY DEF Process
<1>2. item \in Item
  <2>1. taken + 1 \in 1..MaxTaken
    BY <1>1, BatchAssumption DEF TypeOK
  <2> QED BY <2>1 DEF Item, TypeOK
<1>3. its \in Seq(Item) /\ its # <<>>
  <2> HIDE DEF item
  <2>1. items \in Seq(Item)
    BY DEF TypeOK
  <2> QED BY <1>2, <2>1, AppendType
<1>4. byt \in 0..WordMax
  <2>1. size \in 0..WordMax /\ WordMax \in Nat
    BY BatchAssumption
  <2> QED BY <2>1, SumType DEF TypeOK
<1>5. its[1].at = IF items = <<>> THEN now ELSE items[1].at
  BY DEF TypeOK
<1>6. Opened = IF policy.age # None THEN its[1].at ELSE None
  <2>1. items # <<>> => items[1] \in Item
    BY DEF TypeOK
  <2>2. items # <<>> => items[1].at # None
    BY <2>1 DEF Item, Instant, None
  <2> QED BY <1>5, <2>2 DEF Opened, OpenedByFirst
<1>7. Opened \in Instant \cup {None}
  BY DEF Opened, TypeOK
<1>8. taken' \in 0..MaxTaken /\ readAt' \in Instant
  BY <1>1, BatchAssumption DEF TypeOK
<1>9. CASE Expired(Opened) \/ LimitReached(its, byt)
  <2>1. EmitOpenBatch(its, byt)
    BY <1>9 DEF Process
  <2>2. /\ items' = <<>> /\ openedAt' = None /\ bytes' \in 0..WordMax
        /\ accepts' \in Nat /\ failed' \in BOOLEAN /\ sent' \in Seq(Seq(Item))
    <3> HIDE DEF its, byt
    <3> QED BY <1>3, <1>4, <2>1, EmitType, BatchAssumption
  <2>3. OpenedByFirst' /\ Timely'
    BY <2>2, NothingOpen
  <2>4. TypeOK'
    BY <1>1, <1>8, <2>2 DEF TypeOK
  <2> QED BY <2>3, <2>4
<1>10. CASE ~(Expired(Opened) \/ LimitReached(its, byt))
  <2>1. /\ items' = its /\ bytes' = byt /\ openedAt' = Opened
        /\ UNCHANGED <<accepts, failed, sent>>
    BY <1>10 DEF Process
  <2>2. TypeOK'
    <3> HIDE DEF its, byt
    <3> QED BY <1>1, <1>3, <1>4, <1>7, <1>8, <2>1 DEF TypeOK
  <2>3. OpenedByFirst'
    <3> HIDE DEF its
    <3> QED BY <1>1, <1>3, <1>6, <2>1 DEF OpenedByFirst
  <2>4. Timely'
    <3>1. policy.age # None => Opened = its[1].at /\ Opened # None
      <4>1. its[1] \in Item
        BY <1>3
      <4>2. its[1].at # None
        BY <4>1 DEF Item, Instant, None
      <4> QED BY <1>6, <4>2
    <3>2. policy.age # None => ~(Since(now, its[1].at) >= policy.age)
      <4> HIDE DEF its
      <4> QED BY <1>10, <3>1 DEF Expired
    <3>3. Since(now, its[1].at) \in Int /\ policy.age \in Int
      <4>1. its[1] \in Item
        BY <1>3
      <4>2. its[1].at \in Int /\ now \in Int
        BY <4>1, BatchAssumption DEF Item, Instant, TypeOK
      <4>3. policy.age \in Int
        BY AgeType
      <4> HIDE DEF its
      <4> QED BY <4>2, <4>3 DEF Since
    <3>4. policy.age # None => Since(now, its[1].at) < policy.age
      <4> HIDE DEF its
      <4> QED BY <3>2, <3>3
    <3> HIDE DEF its
    <3> QED BY <1>1, <2>1, <3>4 DEF Timely
  <2> QED BY <2>2, <2>3, <2>4
<1> QED BY <1>9, <1>10

\* emit_open_batch of what is open keeps the invariant.
LEMMA EmitInv ==
  ASSUME Inv, EmitOpenBatch(items, bytes), readAt' \in Instant,
         UNCHANGED <<policy, measure, now, taken>>, ended' \in BOOLEAN
  PROVE  Inv'
<1> USE DEF Inv
<1>1. /\ items' = <<>> /\ bytes' \in 0..WordMax
      /\ accepts' \in Nat /\ failed' \in BOOLEAN /\ sent' \in Seq(Seq(Item))
      /\ items # <<>> => openedAt' = None
      /\ items = <<>> => openedAt' = openedAt
  <2>1. items \in Seq(Item) /\ bytes \in 0..WordMax
    BY DEF TypeOK
  <2> QED BY <2>1, EmitType, BatchAssumption
<1>2. openedAt' = None
  BY <1>1 DEF OpenedByFirst
<1>3. OpenedByFirst' /\ Timely'
  BY <1>1, <1>2, NothingOpen
<1>4. TypeOK'
  BY <1>1, <1>2 DEF TypeOK
<1> QED BY <1>3, <1>4

LEMMA StepTick == Inv /\ Tick => Inv'
<1> SUFFICES ASSUME Inv, Tick PROVE Inv'
  OBVIOUS
<1>1. readAt' = now /\ now \in Instant /\ UNCHANGED <<policy, measure, now, ended, taken>>
  BY DEF Tick, Inv, TypeOK
<1>2. CASE Expired(openedAt)
  <2>1. EmitOpenBatch(items, bytes)
    BY <1>2 DEF Tick
  <2>2. ended' \in BOOLEAN
    BY <1>1 DEF Inv, TypeOK
  <2> QED BY <1>1, <2>1, <2>2, EmitInv
<1>3. CASE ~Expired(openedAt)
  <2> USE DEF Inv
  <2>1. UNCHANGED <<items, bytes, openedAt, accepts, failed, sent>>
    BY <1>3 DEF Tick, stage
  <2>2. TypeOK' /\ OpenedByFirst'
    BY <1>1, <2>1 DEF TypeOK, OpenedByFirst
  <2>3. Timely'
    <3>1. SUFFICES ASSUME policy.age # None, items # <<>>
                   PROVE  Since(now, items[1].at) < policy.age
      BY <1>1, <2>1 DEF Timely
    <3>2. items[1] \in Item
      BY <3>1 DEF TypeOK
    <3>3. items[1].at \in Int /\ items[1].at # None /\ now \in Int
      BY <3>2, BatchAssumption DEF Item, Instant, None, TypeOK
    <3>4. ~(Since(now, items[1].at) >= policy.age)
      BY <1>3, <3>1, <3>3 DEF Expired, OpenedByFirst
    <3>5. Since(now, items[1].at) \in Int
      BY <3>3 DEF Since
    <3>6. policy.age \in Int
      BY AgeType
    <3> QED BY <3>4, <3>5, <3>6
  <2> QED BY <2>2, <2>3
<1> QED BY <1>2, <1>3

LEMMA StepFlush == Inv /\ Flush => Inv'
<1> SUFFICES ASSUME Inv, Flush PROVE Inv'
  OBVIOUS
<1>1. EmitOpenBatch(items, bytes) /\ ended' \in BOOLEAN
  BY DEF Flush
<1>2. readAt' \in Instant /\ UNCHANGED <<policy, measure, now, taken>>
  BY DEF Flush, Inv, TypeOK
<1> QED BY <1>1, <1>2, EmitInv

\* The inductive invariant: types, and an opening time that is the arrival of
\* the first open item and less than max_age before the clock was last read.
THEOREM BatchInvariant == Spec => []Inv
<1>1. Inv /\ [Next]_vars => Inv'
  <2> SUFFICES ASSUME Inv, [Next]_vars PROVE Inv'
    OBVIOUS
  <2>1. CASE Clock
    BY <2>1, StepClock
  <2>2. ASSUME NEW size \in Sizes, Process(size) PROVE Inv'
    BY <2>2, StepProcess
  <2>3. CASE Tick
    BY <2>3, StepTick
  <2>4. CASE Flush
    BY <2>4, StepFlush
  <2>5. CASE UNCHANGED vars
    BY <2>5 DEF vars, stage, Inv, TypeOK, OpenedByFirst, Timely
  <2> QED BY <2>1, <2>2, <2>3, <2>4, <2>5 DEF Next, Dropped
<1> QED BY InitInv, <1>1, PTL DEF Spec

\* Every field of the stage keeps its type; the byte count stays a word although
\* sizes are summed without bound.
THEOREM BatchTypeOK == Spec => []TypeOK
<1>1. Inv => TypeOK
  BY DEF Inv
<1> QED BY <1>1, BatchInvariant, PTL

\* No process or tick leaves a batch open whose first item is max_age old, for
\* every policy, wherever the clock jumps.
THEOREM BatchTimely == Spec => []Timely
<1>1. Inv => Timely
  BY DEF Inv
<1> QED BY <1>1, BatchInvariant, PTL

-----------------------------------------------------------------------------
\* Delivering one more batch does not change where the earlier ones end.
LEMMA ThroughAppend ==
  ASSUME sent \in Seq(Seq(Item)), NEW its \in Seq(Item), sent' = Append(sent, its)
  PROVE  /\ Len(sent') = Len(sent) + 1
         /\ \A i \in DOMAIN sent : sent'[i] = sent[i]
         /\ \A i \in 0..Len(sent) : Through(i)' = Through(i)
         /\ sent'[Len(sent) + 1] = its
         /\ Through(Len(sent))' = its[Len(its)].id
<1>1. Len(sent') = Len(sent) + 1 /\ Len(sent) \in Nat
  OBVIOUS
<1>2. \A i \in 1..Len(sent) : sent'[i] = sent[i]
  OBVIOUS
<1>3. sent'[Len(sent) + 1] = its
  OBVIOUS
<1>4. \A i \in 0..Len(sent) : Through(i)' = Through(i)
  BY <1>2 DEF Through
<1>5. Through(Len(sent))' = its[Len(its)].id
  BY <1>1, <1>3 DEF Through
<1>6. DOMAIN sent = 1..Len(sent)
  OBVIOUS
<1> QED BY <1>1, <1>2, <1>3, <1>4, <1>5, <1>6

\* The number of the last item of a piece of the input.
LEMMA LastOfPiece ==
  ASSUME NEW its \in Seq(Item), its # <<>>, NEW from, Follows(its, from)
  PROVE  its[Len(its)].id = from + Len(its)
<1>1. Len(its) \in DOMAIN its
  OBVIOUS
<1> QED BY <1>1 DEF Follows

\* emit_open_batch of the next piece of the input leaves the input cut in pieces.
LEMMA EmitSegmented ==
  ASSUME sent \in Seq(Seq(Item)), NEW its \in Seq(Item), NEW byt, Segmented, ~failed,
         Follows(its, Through(Len(sent))), taken' = Through(Len(sent)) + Len(its),
         Through(Len(sent)) \in Int, EmitOpenBatch(its, byt)
  PROVE  Segmented'
<1>1. \A i \in DOMAIN sent : sent[i] # <<>> /\ Follows(sent[i], Through(i - 1))
  BY DEF Segmented
<1>2. CASE its = <<>>
  <2>1. items' = its /\ UNCHANGED <<failed, sent>>
    BY <1>2 DEF EmitOpenBatch
  <2>2. \A i : Through(i)' = Through(i)
    BY <2>1 DEF Through
  <2> QED BY <1>1, <1>2, <2>1, <2>2 DEF Segmented, Follows
<1>3. CASE its # <<>> /\ accepts > 0
  <2>1. items' = <<>> /\ sent' = Append(sent, its) /\ failed' = failed
    BY <1>3 DEF EmitOpenBatch, TakeBatch
  <2>2. /\ Len(sent') = Len(sent) + 1 /\ sent'[Len(sent) + 1] = its
        /\ \A i \in DOMAIN sent : sent'[i] = sent[i]
        /\ \A i \in 0..Len(sent) : Through(i)' = Through(i)
        /\ Through(Len(sent))' = its[Len(its)].id
    BY <1>3, <2>1, ThroughAppend
  <2>3. ASSUME NEW i \in DOMAIN sent'
        PROVE  sent'[i] # <<>> /\ Follows(sent[i], Through(i - 1))'
    <3>1. i \in 1..(Len(sent) + 1) /\ Len(sent) \in Nat
      BY <2>1
    <3>2. CASE i \in 1..Len(sent)
      <4>1. i \in DOMAIN sent /\ i - 1 \in 0..Len(sent)
        BY <3>2
      <4> QED BY <1>1, <2>2, <4>1
    <3>3. CASE i = Len(sent) + 1
      <4>1. i - 1 = Len(sent) /\ i - 1 \in 0..Len(sent)
        BY <3>1, <3>3
      <4> QED BY <1>3, <2>2, <3>3, <4>1
    <3> QED BY <3>1, <3>2, <3>3
  <2>4. Through(Len(sent))' = taken'
    BY <1>3, <2>2, LastOfPiece
  <2>5. Follows(items, Through(Len(sent)))' /\ Len(items') = 0
    BY <2>1 DEF Follows
  <2>6. taken' = Through(Len(sent))' + Len(items')
    <3>1. taken' \in Int
      OBVIOUS
    <3> QED BY <2>4, <2>5, <3>1
  <2> QED BY <2>1, <2>3, <2>5, <2>6 DEF Segmented, Follows
<1>4. CASE its # <<>> /\ ~(accepts > 0)
  <2>1. items' = <<>> /\ failed' = TRUE /\ sent' = sent
    BY <1>4 DEF EmitOpenBatch, TakeBatch
  <2>2. \A i : Through(i)' = Through(i)
    BY <2>1 DEF Through
  <2> QED BY <1>1, <2>1, <2>2 DEF Segmented, Follows
<1> QED BY <1>2, <1>3, <1>4

\* The number a delivered batch ends with is a number.
LEMMA ThroughType == TypeOK /\ Segmented => Through(Len(sent)) \in Int
<1> SUFFICES ASSUME TypeOK, Segmented PROVE Through(Len(sent)) \in Int
  OBVIOUS
<1>1. sent \in Seq(Seq(Item))
  BY DEF TypeOK
<1>2. CASE Len(sent) = 0
  BY <1>2 DEF Through
<1>3. CASE Len(sent) # 0
  <2>1. Len(sent) \in DOMAIN sent
    BY <1>1, <1>3
  <2>2. sent[Len(sent)] \in Seq(Item) /\ sent[Len(sent)] # <<>>
    BY <1>1, <2>1 DEF Segmented
  <2>3. sent[Len(sent)][Len(sent[Len(sent)])] \in Item
    BY <2>2
  <2>4. sent[Len(sent)][Len(sent[Len(sent)])].id \in Int
    BY <2>3, BatchAssumption DEF Item
  <2> QED BY <1>3, <2>4 DEF Through
<1> QED BY <1>2, <1>3

\* The new item continues the open batch.
LEMMA AppendFollows ==
  ASSUME items \in Seq(Item), NEW item \in Item, NEW from \in Int, Follows(items, from),
         item.id = from + Len(items) + 1
  PROVE  /\ Follows(Append(items, item), from)
         /\ Len(Append(items, item)) = Len(items) + 1
<1> DEFINE its == Append(items, item)
<1>1. Len(its) = Len(items) + 1 /\ Len(items) \in Nat /\ DOMAIN its = 1..(Len(items) + 1)
  OBVIOUS
<1>2. ASSUME NEW j \in DOMAIN its PROVE its[j].id = from + j
  <2>1. CASE j \in 1..Len(items)
    <3>1. its[j] = items[j] /\ j \in DOMAIN items
      BY <2>1
    <3> QED BY <3>1 DEF Follows
  <2>2. CASE j = Len(items) + 1
    BY <1>1, <2>2
  <2> QED BY <1>1, <2>1, <2>2
<1> QED BY <1>1, <1>2 DEF Follows

LEMMA SegmentedStep == Inv /\ Segmented /\ [Next]_vars => Segmented'
<1> SUFFICES ASSUME Inv, Segmented, [Next]_vars PROVE Segmented'
  OBVIOUS
<1> USE DEF Inv
<1>1. sent \in Seq(Seq(Item)) /\ items \in Seq(Item) /\ taken \in Nat /\ bytes \in 0..WordMax
  BY BatchAssumption DEF TypeOK
<1>2. Through(Len(sent)) \in Int
  BY ThroughType
<1>3. ~failed => /\ Follows(items, Through(Len(sent)))
                 /\ taken = Through(Len(sent)) + Len(items)
  BY DEF Segmented
<1>4. ASSUME UNCHANGED <<sent, failed, items, taken, ended>> PROVE Segmented'
  BY <1>4 DEF Segmented, Follows, Through
<1>5. ASSUME NEW size \in Sizes, Process(size) PROVE Segmented'
  <2> DEFINE item == [id |-> taken + 1, size |-> size, at |-> now]
             its == Append(items, item)
             byt == IF measure THEN SaturatingAdd(bytes, size) ELSE bytes
             opened == Opened
  <2>1. /\ ~ended /\ ~failed /\ taken < MaxTaken /\ taken' = taken + 1 /\ ended' = ended
    BY <1>5 DEF Process
  <2>2. item \in Item
    <3>1. taken + 1 \in 1..MaxTaken
      BY <1>1, <2>1, BatchAssumption
    <3> QED BY <3>1 DEF Item, TypeOK
  <2>3. its \in Seq(Item)
    <3> HIDE DEF item
    <3> QED BY <1>1, <2>2, AppendType
  <2>4. Follows(its, Through(Len(sent))) /\ Len(its) = Len(items) + 1
    <3>1. item.id = Through(Len(sent)) + Len(items) + 1
      BY <1>1, <1>2, <1>3, <2>1
    <3> HIDE DEF item
    <3> QED BY <1>1, <1>2, <1>3, <2>1, <2>2, <3>1, AppendFollows
  <2>5. taken' = Through(Len(sent)) + Len(its)
    <3> HIDE DEF its
    <3> QED BY <1>1, <1>2, <1>3, <2>1, <2>4
  <2>6. CASE Expired(opened) \/ LimitReached(its, byt)
    <3>1. EmitOpenBatch(its, byt)
      BY <1>5, <2>6 DEF Process
    <3> HIDE DEF its, byt
    <3> QED BY <1>1, <1>2, <2>1, <2>3, <2>4, <2>5, <3>1, EmitSegmented
  <2>7. CASE ~(Expired(opened) \/ LimitReached(its, byt))
    <3>1. items' = its /\ UNCHANGED <<failed, sent>>
      BY <1>5, <2>7 DEF Process
    <3>2. \A i : Through(i)' = Through(i)
      BY <3>1 DEF Through
    <3> HIDE DEF its
    <3> QED BY <2>1, <2>4, <2>5, <3>1, <3>2 DEF Segmented, Follows
  <2> QED BY <2>6, <2>7
<1>6. ASSUME EmitOpenBatch(items, bytes), ~failed, taken' = taken PROVE Segmented'
  BY <1>1, <1>2, <1>3, <1>6, EmitSegmented
<1>7. CASE Clock
  BY <1>4, <1>7 DEF Clock, stage
<1>8. CASE Tick
  <2>1. CASE Expired(openedAt)
    BY <1>6, <1>8, <2>1 DEF Tick
  <2>2. CASE ~Expired(openedAt)
    BY <1>4, <1>8, <2>2 DEF Tick, stage
  <2> QED BY <2>1, <2>2
<1>9. CASE Flush
  BY <1>6, <1>9 DEF Flush
<1>10. CASE UNCHANGED vars
  BY <1>4, <1>10 DEF vars, stage
<1> QED BY <1>5, <1>7, <1>8, <1>9, <1>10 DEF Next, Dropped

\* For every policy the batches delivered and the open one are the input cut into
\* pieces: no item is lost, repeated or moved unless a later stage fails, and
\* nothing stays open after the end of the stream.
THEOREM BatchSegmented == Spec => []Segmented
<1>1. Init => Segmented
  BY DEF Init, Segmented, Follows, Through
<1> QED BY <1>1, SegmentedStep, BatchInvariant, PTL DEF Spec

-----------------------------------------------------------------------------
LEMMA SmallerWellFounded ==
  IsWellFoundedOn({p \in Nat \X Nat : p[1] < p[2]}, Nat)
BY NatLessThanWellFounded DEF OpToRel

\* A set that holds 0 and each next number holds them all.
LEMMA SetInduction ==
  ASSUME NEW S, 0 \in S, \A n \in Nat : n \in S => n + 1 \in S
  PROVE  Nat \subseteq S
<1> SUFFICES ASSUME Nat \ S # {} PROVE FALSE
  OBVIOUS
<1> DEFINE T == Nat \ S
           less == {p \in Nat \X Nat : p[1] < p[2]}
<1>1. T \subseteq Nat /\ T # {}
  OBVIOUS
<1>2. PICK n \in T : \A m \in T : <<m, n>> \notin less
  <2> HIDE DEF T
  <2>1. IsWellFoundedOn(less, Nat)
    BY SmallerWellFounded
  <2> HIDE DEF less
  <2> QED BY <1>1, <2>1, WFMin
<1>3. n \in Nat /\ n # 0 /\ n - 1 \in Nat /\ n = (n - 1) + 1
  BY <1>2
<1>4. n - 1 \notin T
  <2>1. <<n - 1, n>> \in less
    <3>1. <<n - 1, n>> \in Nat \X Nat /\ n - 1 < n
      BY <1>3
    <3> QED BY <3>1
  <2> QED BY <1>2, <2>1
<1> QED BY <1>3, <1>4, <1>2

-----------------------------------------------------------------------------
\* The running sums of the sizes in a sequence.
Sums(s, f, k) ==
  f = [n \in 0..k |-> IF n = 0 THEN 0 ELSE f[n - 1] + s[n].size]

\* They exist: one more item adds one more sum.
LEMMA SumsExist ==
  ASSUME NEW s \in Seq(Item)
  PROVE  \E f : Sums(s, f, Len(s))
<1> DEFINE S == {k \in Nat : \E f : Sums(s, f, k)}
<1>1. 0 \in S
  <2>1. Sums(s, [n \in 0..0 |-> 0], 0)
    BY DEF Sums
  <2> QED BY <2>1
<1>2. ASSUME NEW k \in Nat, k \in S PROVE k + 1 \in S
  <2>1. PICK f : Sums(s, f, k)
    BY <1>2
  <2> DEFINE g == [n \in 0..(k + 1) |-> IF n = k + 1 THEN f[k] + s[k + 1].size ELSE f[n]]
  <2>2. ASSUME NEW n \in 0..(k + 1)
        PROVE  g[n] = IF n = 0 THEN 0 ELSE g[n - 1] + s[n].size
    <3>1. CASE n = k + 1
      <4>1. n # 0 /\ n - 1 = k /\ k \in 0..(k + 1) /\ k # k + 1
        BY <3>1
      <4> QED BY <3>1, <4>1
    <3>2. CASE n # k + 1
      <4>1. n \in 0..k /\ g[n] = f[n]
        BY <3>2
      <4>2. f[n] = IF n = 0 THEN 0 ELSE f[n - 1] + s[n].size
        BY <2>1, <4>1 DEF Sums
      <4>3. n # 0 => n - 1 \in 0..(k + 1) /\ n - 1 # k + 1
        BY <4>1
      <4> QED BY <4>1, <4>2, <4>3
    <3> QED BY <3>1, <3>2
  <2>3. Sums(s, g, k + 1)
    <3>1. g = [n \in 0..(k + 1) |-> g[n]]
      OBVIOUS
    <3> HIDE DEF g
    <3> QED BY <2>2, <3>1 DEF Sums
  <2> QED BY <2>3
<1>3. Len(s) \in S
  <2> HIDE DEF S
  <2>1. Nat \subseteq S
    BY <1>1, <1>2, SetInduction
  <2> QED BY <2>1
<1> QED BY <1>3

LEMMA WeightIsSum ==
  ASSUME NEW s \in Seq(Item)
  PROVE  \E f : Sums(s, f, Len(s)) /\ Weight(s) = f[Len(s)]
<1> DEFINE f == CHOOSE f : Sums(s, f, Len(s))
<1>1. Sums(s, f, Len(s))
  BY SumsExist
<1>2. Weight(s) = f[Len(s)]
  BY DEF Weight, Sums
<1> QED BY <1>1, <1>2

\* Sequences that agree up to k have the same sums up to k.
LEMMA SumsAgree ==
  ASSUME NEW s \in Seq(Item), NEW t \in Seq(Item), NEW k \in Nat, NEW i \in Nat, NEW j \in Nat,
         NEW f, NEW g, Sums(s, f, i), Sums(t, g, j), k <= i, k <= j,
         \A n \in 1..k : s[n].size = t[n].size
  PROVE  f[k] = g[k]
<1> DEFINE S == {n \in Nat : n <= k => f[n] = g[n]}
<1>1. \A n \in 0..i : f[n] = IF n = 0 THEN 0 ELSE f[n - 1] + s[n].size
  BY DEF Sums
<1>2. \A n \in 0..j : g[n] = IF n = 0 THEN 0 ELSE g[n - 1] + t[n].size
  BY DEF Sums
<1>3. 0 \in S
  <2>1. f[0] = 0 /\ g[0] = 0
    BY <1>1, <1>2
  <2> QED BY <2>1
<1>4. ASSUME NEW n \in Nat, n \in S PROVE n + 1 \in S
  <2> SUFFICES ASSUME n + 1 <= k PROVE f[n + 1] = g[n + 1]
    OBVIOUS
  <2>1. f[n] = g[n] /\ n + 1 \in 1..k /\ (n + 1) - 1 = n /\ n + 1 # 0
    BY <1>4
  <2>2. n + 1 \in 0..i /\ n + 1 \in 0..j
    OBVIOUS
  <2>3. f[n + 1] = f[n] + s[n + 1].size
    BY <1>1, <2>1, <2>2
  <2>4. g[n + 1] = g[n] + t[n + 1].size
    BY <1>2, <2>1, <2>2
  <2> QED BY <2>1, <2>3, <2>4
<1>5. k \in S
  <2> HIDE DEF S
  <2>1. Nat \subseteq S
    BY <1>3, <1>4, SetInduction
  <2> QED BY <2>1
<1> QED BY <1>5

\* Sizes are numbers.
LEMMA SizeType == ASSUME NEW item \in Item PROVE item.size \in Nat
<1>1. Sizes \subseteq 0..WordMax /\ WordMax \in Nat
  BY BatchAssumption
<1>2. item.size \in Sizes
  BY DEF Item
<1>3. item.size \in 0..WordMax
  BY <1>1, <1>2
<1>4. 0..WordMax \subseteq Nat
  BY <1>1
<1> QED BY <1>3, <1>4

LEMMA SumsType ==
  ASSUME NEW s \in Seq(Item), NEW f, Sums(s, f, Len(s))
  PROVE  f[Len(s)] \in Nat
<1> DEFINE S == {n \in Nat : n <= Len(s) => f[n] \in Nat}
<1>1. \A n \in 0..Len(s) : f[n] = IF n = 0 THEN 0 ELSE f[n - 1] + s[n].size
  BY DEF Sums
<1>2. 0 \in S
  BY <1>1
<1>3. ASSUME NEW n \in Nat, n \in S PROVE n + 1 \in S
  <2> SUFFICES ASSUME n + 1 <= Len(s) PROVE f[n + 1] \in Nat
    OBVIOUS
  <2>1. f[n] \in Nat /\ n + 1 \in 0..Len(s) /\ (n + 1) - 1 = n /\ n + 1 # 0
    BY <1>3
  <2>2. f[n + 1] = f[n] + s[n + 1].size
    BY <1>1, <2>1
  <2>3. s[n + 1] \in Item
    BY <2>1
  <2> QED BY <2>1, <2>2, <2>3, SizeType
<1>4. Len(s) \in S
  <2> HIDE DEF S
  <2>1. Nat \subseteq S
    BY <1>2, <1>3, SetInduction
  <2> QED BY <2>1
<1> QED BY <1>4

\* What Weight is: nothing for no item, and each item adds its size.
LEMMA WeightEmpty == Weight(<<>>) = 0
<1>1. <<>> \in Seq(Item) /\ Len(<<>>) = 0
  OBVIOUS
<1>2. PICK f : Sums(<<>>, f, 0) /\ Weight(<<>>) = f[0]
  BY <1>1, WeightIsSum
<1> QED BY <1>2 DEF Sums

LEMMA WeightType == ASSUME NEW s \in Seq(Item) PROVE Weight(s) \in Nat
BY WeightIsSum, SumsType

LEMMA WeightAppend ==
  ASSUME NEW s \in Seq(Item), NEW item \in Item
  PROVE  Weight(Append(s, item)) = Weight(s) + item.size
<1> DEFINE t == Append(s, item)
<1>1. /\ t \in Seq(Item) /\ Len(t) = Len(s) + 1 /\ Len(s) \in Nat
      /\ t[Len(s) + 1] = item /\ \A n \in 1..Len(s) : t[n] = s[n]
  OBVIOUS
<1> HIDE DEF t
<1>2. PICK f : Sums(s, f, Len(s)) /\ Weight(s) = f[Len(s)]
  BY WeightIsSum
<1>3. PICK g : Sums(t, g, Len(t)) /\ Weight(t) = g[Len(t)]
  BY <1>1, WeightIsSum
<1>4. f[Len(s)] = g[Len(s)]
  <2>1. \A n \in 1..Len(s) : s[n].size = t[n].size
    BY <1>1
  <2>2. Len(t) \in Nat /\ Len(s) <= Len(s) /\ Len(s) <= Len(t)
    BY <1>1
  <2> QED BY <1>1, <1>2, <1>3, <2>1, <2>2, SumsAgree
<1>5. g[Len(t)] = g[Len(s)] + item.size
  <2>1. Len(t) \in 0..Len(t) /\ Len(t) # 0 /\ Len(t) - 1 = Len(s)
    BY <1>1
  <2> QED BY <1>1, <1>3, <2>1 DEF Sums
<1> QED BY <1>2, <1>3, <1>4, <1>5 DEF t

\* The front of an extended sequence.
LEMMA FrontAppend ==
  ASSUME NEW s \in Seq(Item), NEW item \in Item
  PROVE  Front(Append(s, item)) = s
<1> DEFINE t == Append(s, item)
           u == SubSeq(t, 1, Len(s))
<1>1. Len(t) = Len(s) + 1 /\ Len(s) \in Nat /\ t \in Seq(Item)
      /\ \A n \in 1..Len(s) : t[n] = s[n]
  OBVIOUS
<1>2. u \in Seq(Item) /\ Len(u) = Len(s) /\ \A n \in 1..Len(s) : u[n] = t[n]
  <2> HIDE DEF t
  <2> QED BY <1>1
<1>3. u = s
  <2> HIDE DEF t, u
  <2> QED BY <1>1, <1>2, SeqEqual
<1>4. Len(t) - 1 = Len(s)
  BY <1>1
<1> QED BY <1>3, <1>4 DEF Front

-----------------------------------------------------------------------------
\* The builder let the policy through.
Checked ==
  /\ policy.items # 0 /\ policy.bytes # 0
  /\ measure \in BOOLEAN /\ measure = (policy.bytes # None)

\* The byte count is the size of what is open.
Counted == bytes = IF measure THEN Weight(items) ELSE 0

SizeInv == Checked /\ Counted /\ WithinLimits

\* What the limits are.
LEMMA LimitType ==
  ASSUME TypeOK, Checked
  PROVE  /\ WordMax \in Nat /\ ItemsLimit \in 1..WordMax
         /\ policy.bytes # None => policy.bytes \in 1..WordMax /\ BytesLimit = policy.bytes
         /\ policy.bytes = None => BytesLimit = WordMax
         /\ policy.items # None => policy.items = ItemsLimit
         /\ policy.items = None => ItemsLimit = WordMax
<1>1. policy.items \in ItemLimits \cup {None} /\ policy.bytes \in ByteLimits \cup {None}
  <2>1. policy \in Policy
    BY DEF TypeOK
  <2> QED BY <2>1 DEF Policy
<1>2. WordMax \in Nat /\ WordMax >= 1 /\ ItemLimits \subseteq 0..WordMax /\ ByteLimits \subseteq 0..WordMax
  BY BatchAssumption
<1>3. policy.items # None => policy.items \in 1..WordMax
  <2>1. policy.items # None => policy.items \in 0..WordMax
    BY <1>1, <1>2
  <2> QED BY <2>1, <1>2 DEF Checked
<1>4. policy.bytes # None => policy.bytes \in 1..WordMax
  <2>1. policy.bytes # None => policy.bytes \in 0..WordMax
    BY <1>1, <1>2
  <2> QED BY <2>1, <1>2 DEF Checked
<1>5. policy.items = None => ItemsLimit = WordMax
  BY DEF ItemsLimit, Or
<1>6. policy.items # None => ItemsLimit = policy.items
  BY DEF ItemsLimit, Or
<1>7. BytesLimit = IF policy.bytes = None THEN WordMax ELSE policy.bytes
  BY DEF BytesLimit, Or
<1>8. ItemsLimit \in 1..WordMax
  <2>1. WordMax \in 1..WordMax
    BY <1>2
  <2> QED BY <1>3, <1>5, <1>6, <2>1
<1> QED BY <1>2, <1>4, <1>5, <1>6, <1>7, <1>8

\* Without its last item a sequence is not heavier.
LEMMA FrontWeight ==
  ASSUME NEW s \in Seq(Item), s # <<>>
  PROVE  Front(s) \in Seq(Item) /\ Weight(Front(s)) <= Weight(s)
<1>1. PICK t \in Seq(Item), item \in Item : s = Append(t, item)
  BY SequenceEmptyOrAppend
<1>2. Front(s) = t
  BY <1>1, FrontAppend
<1>3. Weight(s) = Weight(t) + item.size /\ Weight(t) \in Nat /\ item.size \in Nat
  BY <1>1, WeightAppend, WeightType, SizeType
<1> QED BY <1>2, <1>3

\* A batch to be emitted that is short of the limits but for its last item.
Fits(its) ==
  its # <<>> =>
    /\ Len(its) \in 1..ItemsLimit
    /\ policy.bytes # None => Weight(Front(its)) < policy.bytes

LEMMA EmitWithin ==
  ASSUME TypeOK, SizeInv, NEW its \in Seq(Item), NEW byt, EmitOpenBatch(its, byt), Fits(its),
         its = <<>> => items = <<>> /\ byt = bytes,
         UNCHANGED <<policy, measure>>
  PROVE  SizeInv'
<1>1. /\ Checked' /\ ItemsLimit' = ItemsLimit
  BY DEF SizeInv, Checked, ItemsLimit, Or
<1>2. sent \in Seq(Seq(Item))
  BY DEF TypeOK
<1>3. items' = <<>> /\ bytes' = 0
  <2>1. CASE its = <<>>
    <3>1. items' = <<>> /\ bytes' = bytes /\ items = <<>>
      BY <2>1 DEF EmitOpenBatch
    <3>2. bytes = 0
      BY <3>1, WeightEmpty DEF SizeInv, Counted
    <3> QED BY <3>1, <3>2
  <2>2. CASE its # <<>>
    BY <2>2 DEF EmitOpenBatch, TakeBatch
  <2> QED BY <2>1, <2>2
<1>4. Counted'
  BY <1>3, WeightEmpty DEF Counted
<1>5. Len(items') < ItemsLimit' /\ (policy'.bytes # None => Weight(items') < policy'.bytes)
  <2>1. Len(<<>>) = 0 /\ 0 < ItemsLimit
    BY LimitType DEF SizeInv
  <2>2. policy.bytes # None => 0 < policy.bytes
    BY LimitType DEF SizeInv
  <2> QED BY <1>1, <1>3, <2>1, <2>2, WeightEmpty
<1>6. ASSUME NEW i \in DOMAIN sent'
      PROVE  /\ Len(sent'[i]) \in 1..ItemsLimit'
             /\ policy'.bytes # None => Weight(Front(sent'[i])) < policy'.bytes
  <2>1. CASE sent' = sent
    <3>1. /\ Len(sent[i]) \in 1..ItemsLimit
          /\ policy.bytes # None => Weight(Front(sent[i])) < policy.bytes
      BY <1>6, <2>1 DEF SizeInv, WithinLimits
    <3> QED BY <1>1, <2>1, <3>1
  <2>2. CASE sent' = Append(sent, its) /\ its # <<>>
    <3>1. /\ DOMAIN sent' = 1..(Len(sent) + 1) /\ Len(sent) \in Nat
          /\ sent'[Len(sent) + 1] = its /\ \A k \in 1..Len(sent) : sent'[k] = sent[k]
      BY <1>2, <2>2
    <3>2. CASE i = Len(sent) + 1
      BY <1>1, <2>2, <3>1, <3>2 DEF Fits
    <3>3. CASE i \in 1..Len(sent)
      <4>1. /\ Len(sent[i]) \in 1..ItemsLimit
            /\ policy.bytes # None => Weight(Front(sent[i])) < policy.bytes
        BY <1>2, <3>3 DEF SizeInv, WithinLimits
      <4> QED BY <1>1, <3>1, <3>3, <4>1
    <3> QED BY <3>1, <3>2, <3>3
  <2>3. sent' = sent \/ (sent' = Append(sent, its) /\ its # <<>>)
    BY DEF EmitOpenBatch
  <2> QED BY <2>1, <2>2, <2>3
<1>7. WithinLimits'
  BY <1>5, <1>6 DEF WithinLimits
<1> QED BY <1>1, <1>4, <1>7 DEF SizeInv

\* What is open fits.
LEMMA OpenFits == TypeOK /\ SizeInv => Fits(items)
<1> SUFFICES ASSUME TypeOK, SizeInv, items # <<>>
             PROVE  /\ Len(items) \in 1..ItemsLimit
                    /\ policy.bytes # None => Weight(Front(items)) < policy.bytes
  BY DEF Fits
<1>1. items \in Seq(Item) /\ Len(items) < ItemsLimit
  BY DEF TypeOK, SizeInv, WithinLimits
<1>2. ItemsLimit \in Nat
  BY LimitType DEF SizeInv
<1>3. Len(items) \in 1..ItemsLimit
  BY <1>1, <1>2
<1>4. ASSUME policy.bytes # None PROVE Weight(Front(items)) < policy.bytes
  <2>1. Weight(Front(items)) <= Weight(items) /\ Front(items) \in Seq(Item)
    BY <1>1, FrontWeight
  <2>2. Weight(items) < policy.bytes /\ policy.bytes \in Int
    BY <1>4, LimitType DEF SizeInv, WithinLimits
  <2>3. Weight(Front(items)) \in Nat /\ Weight(items) \in Nat
    BY <1>1, <2>1, WeightType
  <2> QED BY <2>1, <2>2, <2>3
<1> QED BY <1>3, <1>4

\* The batch with one more item: how long and how heavy it is, and what the
\* count makes of it.
LEMMA OneMore ==
  ASSUME TypeOK, SizeInv, NEW item \in Item
  PROVE  LET its == Append(items, item)
             byt == IF measure THEN SaturatingAdd(bytes, item.size) ELSE bytes
         IN  /\ its \in Seq(Item) /\ its # <<>> /\ Fits(its) /\ Len(its) \in Nat
             /\ Weight(its) \in Nat
             /\ policy.bytes = None => byt = 0
             /\ policy.bytes # None => byt = AtMost(Weight(its), WordMax)
<1> DEFINE its == Append(items, item)
           byt == IF measure THEN SaturatingAdd(bytes, item.size) ELSE bytes
<1>1. items \in Seq(Item) /\ Len(items) < ItemsLimit
  BY DEF TypeOK, SizeInv, WithinLimits
<1>2. its \in Seq(Item) /\ its # <<>> /\ Len(its) = Len(items) + 1 /\ Len(items) \in Nat
  BY <1>1
<1>3. Weight(its) = Weight(items) + item.size /\ Front(its) = items
  BY <1>1, WeightAppend, FrontAppend
<1>4. Weight(its) \in Nat
  <2> HIDE DEF its
  <2> QED BY <1>2, WeightType
<1>5. Fits(its)
  <2>1. ItemsLimit \in Nat
    BY LimitType DEF SizeInv
  <2>2. policy.bytes # None => Weight(items) < policy.bytes
    BY DEF SizeInv, WithinLimits
  <2> HIDE DEF its
  <2> QED BY <1>1, <1>2, <1>3, <2>1, <2>2 DEF Fits
<1>6. policy.bytes = None => byt = 0
  BY DEF SizeInv, Checked, Counted
<1>7. policy.bytes # None => byt = AtMost(Weight(its), WordMax)
  <2>1. policy.bytes # None => measure /\ bytes = Weight(items)
    BY DEF SizeInv, Checked, Counted
  <2> QED BY <1>3, <2>1 DEF SaturatingAdd
<1> HIDE DEF its, byt
<1>8. /\ its \in Seq(Item) /\ its # <<>> /\ Fits(its) /\ Len(its) \in Nat
      /\ Weight(its) \in Nat
      /\ policy.bytes = None => byt = 0
      /\ policy.bytes # None => byt = AtMost(Weight(its), WordMax)
  BY <1>2, <1>4, <1>5, <1>6, <1>7
<1> QED BY <1>8 DEF its, byt

LEMMA SizeStepProcess ==
  ASSUME TypeOK, SizeInv, NEW size \in Sizes, Process(size)
  PROVE  SizeInv'
<1> DEFINE item == [id |-> taken + 1, size |-> size, at |-> now]
           its == Append(items, item)
           byt == IF measure THEN SaturatingAdd(bytes, item.size) ELSE bytes
           opened == Opened
<1>1. UNCHANGED <<policy, measure>>
  BY DEF Process
<1>2. item \in Item
  <2>1. taken + 1 \in 1..MaxTaken
    BY BatchAssumption DEF TypeOK, Process
  <2> QED BY <2>1 DEF Item, TypeOK
<1>3. item.size = size
  OBVIOUS
<1>4. /\ its \in Seq(Item) /\ its # <<>> /\ Fits(its) /\ Len(its) \in Nat
      /\ Weight(its) \in Nat
      /\ policy.bytes = None => byt = 0
      /\ policy.bytes # None => byt = AtMost(Weight(its), WordMax)
  <2> HIDE DEF item
  <2> QED BY <1>2, OneMore
<1>5. CASE Expired(opened) \/ LimitReached(its, byt)
  <2>1. EmitOpenBatch(its, byt)
    BY <1>5 DEF Process
  <2> HIDE DEF its, byt
  <2> QED BY <1>1, <1>4, <2>1, EmitWithin
<1>6. CASE ~(Expired(opened) \/ LimitReached(its, byt))
  <2>1. /\ items' = its /\ bytes' = byt /\ UNCHANGED sent
    BY <1>6 DEF Process
  <2>2. ~LimitReached(its, byt)
    BY <1>6
  <2> HIDE DEF its, byt, opened
  <2>3. Checked' /\ ItemsLimit' = ItemsLimit
    BY <1>1 DEF SizeInv, Checked, ItemsLimit, Or
  <2>4. /\ WordMax \in Nat /\ ItemsLimit \in 1..WordMax
        /\ policy.bytes # None => policy.bytes \in 1..WordMax /\ BytesLimit = policy.bytes
    BY LimitType DEF SizeInv
  <2>5. Len(its) < ItemsLimit
    BY <1>4, <2>2, <2>4 DEF LimitReached
  <2>6. policy.bytes # None => byt = Weight(its) /\ Weight(its) < policy.bytes
    BY <1>4, <2>2, <2>4 DEF LimitReached, AtMost
  <2>7. Counted'
    <3>1. measure = (policy.bytes # None) /\ measure \in BOOLEAN
      BY DEF SizeInv, Checked
    <3> QED BY <1>1, <1>4, <2>1, <2>6, <3>1 DEF Counted
  <2>8. WithinLimits'
    <3>1. \A i \in DOMAIN sent :
            /\ Len(sent[i]) \in 1..ItemsLimit
            /\ policy.bytes # None => Weight(Front(sent[i])) < policy.bytes
      BY DEF SizeInv, WithinLimits
    <3> QED BY <1>1, <2>1, <2>3, <2>5, <2>6, <3>1 DEF WithinLimits
  <2> QED BY <2>3, <2>7, <2>8 DEF SizeInv
<1> QED BY <1>5, <1>6

LEMMA SizeStep == TypeOK /\ SizeInv /\ [Next]_vars => SizeInv'
<1> SUFFICES ASSUME TypeOK, SizeInv, [Next]_vars PROVE SizeInv'
  OBVIOUS
<1>1. ASSUME UNCHANGED <<policy, measure, items, bytes, sent>> PROVE SizeInv'
  BY <1>1 DEF SizeInv, Checked, Counted, WithinLimits, ItemsLimit, Or
<1>2. ASSUME EmitOpenBatch(items, bytes), UNCHANGED <<policy, measure>> PROVE SizeInv'
  <2>1. items \in Seq(Item)
    BY DEF TypeOK
  <2> QED BY <1>2, <2>1, OpenFits, EmitWithin
<1>3. ASSUME NEW size \in Sizes, Process(size) PROVE SizeInv'
  BY <1>3, SizeStepProcess
<1>4. CASE Clock
  BY <1>1, <1>4 DEF Clock, stage
<1>5. CASE Tick
  <2>1. CASE Expired(openedAt)
    BY <1>2, <1>5, <2>1 DEF Tick
  <2>2. CASE ~Expired(openedAt)
    BY <1>1, <1>5, <2>2 DEF Tick, stage
  <2> QED BY <2>1, <2>2
<1>6. CASE Flush
  BY <1>2, <1>6 DEF Flush
<1>7. CASE UNCHANGED vars
  BY <1>1, <1>7 DEF vars, stage
<1> QED BY <1>3, <1>4, <1>5, <1>6, <1>7 DEF Next, Dropped

LEMMA SizeInit == Init => SizeInv
<1> SUFFICES ASSUME Init PROVE SizeInv
  OBVIOUS
<1>1. TypeOK
  BY InitInv DEF Inv
<1>2. PICK byteAware \in BOOLEAN :
        Check(policy, byteAware) /\ measure = (byteAware /\ policy.bytes # None)
  BY DEF Init
<1>3. Checked
  BY <1>2 DEF Check, Checked
<1>4. Counted
  BY WeightEmpty DEF Init, Counted
<1>5. WithinLimits
  <2>1. items = <<>> /\ sent = <<>>
    BY DEF Init
  <2>2. 0 < ItemsLimit /\ (policy.bytes # None => 0 < policy.bytes)
    BY <1>1, <1>3, LimitType
  <2> QED BY <2>1, <2>2, WeightEmpty DEF WithinLimits
<1> QED BY <1>3, <1>4, <1>5 DEF SizeInv

\* For every policy and all sizes, a batch is never over max_items and is short of
\* max_bytes but for its last item, and what is open is short of every limit.
THEOREM BatchWithinLimits == Spec => []WithinLimits
<1>1. SizeInv => WithinLimits
  BY DEF SizeInv
<1>2. Inv => TypeOK
  BY DEF Inv
<1> QED BY <1>1, <1>2, SizeInit, SizeStep, BatchInvariant, PTL DEF Spec

-----------------------------------------------------------------------------
\* What a step may deliver for: see ForAReason.
Reason(batch) ==
  \/ policy.items # None /\ Len(batch) >= policy.items
  \/ policy.bytes # None /\ Weight(batch) >= policy.bytes
  \/ policy.age # None /\ Since(now, batch[1].at) >= policy.age

\* Only emit_open_batch delivers, and it delivers what it is given.
LEMMA EmitLast ==
  ASSUME TypeOK, NEW its \in Seq(Item), NEW byt, EmitOpenBatch(its, byt),
         Len(sent') > Len(sent)
  PROVE  its # <<>> /\ Last(sent') = its
<1>1. sent \in Seq(Seq(Item))
  BY DEF TypeOK
<1>2. sent' = sent \/ (sent' = Append(sent, its) /\ its # <<>>)
  BY DEF EmitOpenBatch
<1>3. sent' # sent
  BY <1>1
<1> QED BY <1>1, <1>2, <1>3 DEF Last

LEMMA TickReason ==
  ASSUME Inv, Tick, Len(sent') > Len(sent)
  PROVE  Reason(Last(sent'))
<1>1. Expired(openedAt) /\ EmitOpenBatch(items, bytes)
  <2>1. CASE ~Expired(openedAt)
    <3>1. sent' = sent
      BY <2>1 DEF Tick
    <3> QED BY <3>1 DEF Inv, TypeOK
  <2> QED BY <2>1 DEF Tick
<1>2. items # <<>> /\ Last(sent') = items
  BY <1>1, EmitLast DEF Inv, TypeOK
<1>3. policy.age # None /\ openedAt # None /\ Since(now, openedAt) >= policy.age
  BY <1>1 DEF Expired
<1>4. openedAt = items[1].at
  BY <1>2, <1>3 DEF Inv, OpenedByFirst
<1> QED BY <1>2, <1>3, <1>4 DEF Reason

\* Fewer items are open than a word counts.
LEMMA FewOpen ==
  ASSUME Inv, Segmented, ~failed
  PROVE  Len(items) <= taken
<1>1. sent \in Seq(Seq(Item)) /\ items \in Seq(Item) /\ taken \in Nat
  BY BatchAssumption DEF Inv, TypeOK
<1>2. taken = Through(Len(sent)) + Len(items)
  BY DEF Segmented
<1>3. Through(Len(sent)) \in Nat
  <2>1. CASE Len(sent) = 0
    BY <2>1 DEF Through
  <2>2. CASE Len(sent) # 0
    <3>1. Len(sent) \in DOMAIN sent
      BY <1>1, <2>2
    <3>2. sent[Len(sent)] \in Seq(Item) /\ sent[Len(sent)] # <<>>
      BY <1>1, <3>1 DEF Segmented
    <3>3. sent[Len(sent)][Len(sent[Len(sent)])] \in Item
      BY <3>2
    <3>4. sent[Len(sent)][Len(sent[Len(sent)])].id \in Nat
      BY <3>3, BatchAssumption DEF Item
    <3> QED BY <2>2, <3>4 DEF Through
  <2> QED BY <2>1, <2>2
<1> QED BY <1>1, <1>2, <1>3

LEMMA ProcessReason ==
  ASSUME Inv, SizeInv, Segmented, NEW size \in Sizes, Process(size), Len(sent') > Len(sent)
  PROVE  Reason(Last(sent'))
<1> DEFINE item == [id |-> taken + 1, size |-> size, at |-> now]
           its == Append(items, item)
           byt == IF measure THEN SaturatingAdd(bytes, item.size) ELSE bytes
           opened == Opened
<1> USE DEF Inv
<1>1. ~failed /\ taken < MaxTaken
  BY DEF Process
<1>2. item \in Item
  <2>1. taken + 1 \in 1..MaxTaken
    BY <1>1, BatchAssumption DEF TypeOK
  <2> QED BY <2>1 DEF Item, TypeOK
<1>3. item.size = size /\ item.at = now
  OBVIOUS
<1>4. /\ its \in Seq(Item) /\ its # <<>> /\ Len(its) \in Nat
      /\ Weight(its) \in Nat
      /\ policy.bytes = None => byt = 0
      /\ policy.bytes # None => byt = AtMost(Weight(its), WordMax)
  <2> HIDE DEF item
  <2> QED BY <1>2, OneMore
<1>5. Len(its) = Len(items) + 1 /\ Len(items) \in Nat
  BY DEF TypeOK
<1>6. its[1] = IF items = <<>> THEN item ELSE items[1]
  BY DEF TypeOK
<1>7. /\ Expired(opened) \/ LimitReached(its, byt)
      /\ EmitOpenBatch(its, byt)
  <2>1. CASE ~(Expired(opened) \/ LimitReached(its, byt))
    <3>1. sent' = sent
      BY <2>1 DEF Process
    <3> QED BY <3>1 DEF TypeOK
  <2>2. CASE Expired(opened) \/ LimitReached(its, byt)
    BY <2>2 DEF Process
  <2> QED BY <2>1, <2>2
<1>8. opened = IF policy.age = None THEN None ELSE its[1].at
  <2>1. items # <<>> => items[1] \in Item
    BY DEF TypeOK
  <2>2. items # <<>> => items[1].at # None
    BY <2>1 DEF Item, Instant, None
  <2> HIDE DEF its
  <2> QED BY <1>3, <1>6, <2>2 DEF Opened, OpenedByFirst
<1> HIDE DEF its, byt, opened, item
<1>9. Last(sent') = its
  BY <1>4, <1>7, EmitLast
<1>10. CASE Expired(opened)
  BY <1>8, <1>9, <1>10 DEF Expired, Reason
<1>11. /\ WordMax \in Nat /\ ItemsLimit \in 1..WordMax
       /\ policy.bytes # None => policy.bytes \in 1..WordMax /\ BytesLimit = policy.bytes
       /\ policy.bytes = None => BytesLimit = WordMax
       /\ policy.items # None => policy.items = ItemsLimit
       /\ policy.items = None => ItemsLimit = WordMax
  BY LimitType DEF SizeInv
<1>12. CASE Len(its) >= ItemsLimit
  <2>1. Len(its) < WordMax
    <3>1. Len(items) <= taken /\ taken \in Nat /\ MaxTaken \in 0..(WordMax - 1)
      BY <1>1, FewOpen, BatchAssumption DEF TypeOK
    <3> QED BY <1>1, <1>5, <1>11, <3>1
  <2>2. policy.items # None
    BY <1>4, <1>11, <1>12, <2>1
  <2> QED BY <1>9, <1>11, <1>12, <2>2 DEF Reason
<1>13. CASE byt >= BytesLimit
  <2>1. policy.bytes # None
    BY <1>4, <1>11, <1>13
  <2>2. Weight(its) >= policy.bytes
    BY <1>4, <1>11, <1>13, <2>1 DEF AtMost
  <2> QED BY <1>9, <2>1, <2>2 DEF Reason
<1> QED BY <1>7, <1>10, <1>12, <1>13 DEF LimitReached

\* No batch is emitted early, for every policy and all sizes, whatever the
\* batch before left.
THEOREM BatchForAReason == Spec => ForAReason
<1> DEFINE Step == Len(sent') > Len(sent) /\ ~ended' => Reason(Last(sent'))
<1>1. Inv /\ SizeInv /\ Segmented /\ [Next]_vars => Step
  <2> SUFFICES ASSUME Inv, SizeInv, Segmented, [Next]_vars, Len(sent') > Len(sent), ~ended'
               PROVE  Reason(Last(sent'))
    OBVIOUS
  <2>1. sent' # sent
    BY DEF Inv, TypeOK
  <2>2. CASE Tick
    BY <2>2, TickReason
  <2>3. ASSUME NEW size \in Sizes, Process(size) PROVE Reason(Last(sent'))
    BY <2>3, ProcessReason
  <2>4. ~Clock /\ ~Flush /\ ~Dropped /\ vars' # vars
    BY <2>1 DEF Clock, Flush, Dropped, vars
  <2> QED BY <2>2, <2>3, <2>4 DEF Next
<1>2. Step => [ Len(sent') > Len(sent) /\ ~ended' =>
                  LET batch == Last(sent')
                  IN \/ policy.items # None /\ Len(batch) >= policy.items
                     \/ policy.bytes # None /\ Weight(batch) >= policy.bytes
                     \/ policy.age # None /\ Since(now, batch[1].at) >= policy.age ]_vars
  BY DEF Reason
<1>3. Inv => TypeOK
  BY DEF Inv
<1> HIDE DEF Step
<1> QED BY <1>1, <1>2, <1>3, SizeInit, SizeStep, BatchInvariant, BatchSegmented, PTL
        DEF Spec, ForAReason
=============================================================================
