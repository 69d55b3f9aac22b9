------------------------- MODULE KeyedWindowProofs -------------------------
(***************************************************************************)
(* TypeOK, TableSound and Timely of KeyedWindow hold in every state, for   *)
(* any keys, policies, clock and number of items.                          *)
(*                                                                         *)
(* The recursive functions of the model are given values by Recursion,     *)
(* whose induction over the natural numbers comes from their               *)
(* well-foundedness.  The first part gives the operations of a window core *)
(* their types.  The second describes the recency list as two functions on *)
(* a set of slots (IsList), where taking a slot out (CutList) and putting  *)
(* it last (PutList) keep it linked and ordered by last use.  The third    *)
(* shows that each helper of the table keeps it Sound: SlotsOK, ListOn,    *)
(* HeapOK and CreatedOK.  The fourth joins them into the invariant         *)
(* KeyedInv.  The last, for Timely, shows that on_tick and on_item leave   *)
(* no window open that has ended (Settled), because open windows lie on    *)
(* the grid, that each round of expire takes one of the due entries off    *)
(* the heap and adds none, and that touch and schedule keep what is open   *)
(* scheduled in time (AllInTime).                                          *)
(***************************************************************************)
EXTENDS KeyedWindow, SequenceTheorems, FiniteSetTheorems, WellFoundedInduction, TLAPS

-----------------------------------------------------------------------------
(* Recursion over the natural numbers. *)

LEMMA SmallerWellFounded ==
  IsWellFoundedOn({p \in Nat \X Nat : p[1] < p[2]}, Nat)
BY NatLessThanWellFounded DEF OpToRel

\* A set of natural numbers that is not empty has a least member.
LEMMA LeastMember ==
  ASSUME NEW S \in SUBSET Nat, S # {}
  PROVE  \E n \in S : \A m \in S : n <= m
<1> DEFINE less == {p \in Nat \X Nat : p[1] < p[2]}
<1>1. PICK n \in S : \A m \in S : <<m, n>> \notin less
  <2>1. IsWellFoundedOn(less, Nat)
    BY SmallerWellFounded
  <2> HIDE DEF less
  <2> QED BY <2>1, WFMin
<1>2. ASSUME NEW m \in S PROVE n <= m
  <2>1. m \in Nat /\ n \in Nat
    OBVIOUS
  <2>2. CASE m < n
    <3>1. <<m, n>> \in Nat \X Nat
      BY <2>1
    <3>2. <<m, n>> \in less
      BY <2>2, <3>1
    <3> QED BY <1>1, <3>2
  <2> QED BY <2>1, <2>2
<1> QED BY <1>2

\* A set that holds 0 and each next number up to k holds them all.
LEMMA Induction ==
  ASSUME NEW k \in Nat, NEW S, 0 \in S, \A n \in 0..(k - 1) : n \in S => n + 1 \in S
  PROVE  0..k \subseteq S
<1> SUFFICES ASSUME (0..k) \ S # {} PROVE FALSE
  OBVIOUS
<1> DEFINE T == (0..k) \ S
<1>1. T \in SUBSET Nat /\ T # {}
  OBVIOUS
<1> HIDE DEF T
<1>2. PICK n \in T : \A m \in T : n <= m
  BY <1>1, LeastMember
<1>3. n \in 0..k /\ n \notin S /\ n # 0
  BY <1>2 DEF T
<1>4. n - 1 \in 0..(k - 1) /\ n = (n - 1) + 1 /\ n - 1 \in 0..k
  BY <1>3
<1>5. n - 1 \notin T
  BY <1>2, <1>3, <1>4
<1>6. n - 1 \in S
  BY <1>4, <1>5 DEF T
<1>7. (n - 1) + 1 \in S
  BY <1>4, <1>6
<1> QED BY <1>3, <1>4, <1>7

\* What holds of the first value and of each next one holds of all.
LEMMA Invariance ==
  ASSUME NEW k \in Nat, NEW V, NEW f, f[0] \in V,
         \A n \in 1..k : f[n - 1] \in V => f[n] \in V
  PROVE  \A n \in 0..k : f[n] \in V
<1> DEFINE S == {n \in 0..k : f[n] \in V}
<1>1. 0 \in S
  OBVIOUS
<1>2. ASSUME NEW n \in 0..(k - 1), n \in S PROVE n + 1 \in S
  <2>1. n + 1 \in 1..k /\ (n + 1) - 1 = n /\ f[n] \in V /\ n + 1 \in 0..k
    BY <1>2
  <2> QED BY <2>1
<1> HIDE DEF S
<1>3. 0..k \subseteq S
  BY <1>1, <1>2, Induction
<1> QED BY <1>3 DEF S

\* f starts with base, and each value comes from the one before by a step.
Runs(f, k, base, step) == f[0] = base /\ \A n \in 1..k : f[n] = step[n][f[n - 1]]

\* A function may be defined by its first value and the step to the next.
LEMMA Recursion ==
  ASSUME NEW k \in Nat, NEW V, NEW base \in V, NEW step \in [1..k -> [V -> V]]
  PROVE  \E f \in [0..k -> V] : Runs(f, k, base, step)
<1> DEFINE Upto(f, j) == /\ f[0] = base
                         /\ \A n \in 1..j : f[n] = step[n][f[n - 1]]
           S == {j \in 0..k : \E f \in [0..j -> V] : Upto(f, j)}
<1>1. 0 \in S
  <2> DEFINE g == [n \in 0..0 |-> base]
  <2>1. g \in [0..0 -> V] /\ g[0] = base
    OBVIOUS
  <2>2. Upto(g, 0)
    <3> HIDE DEF g
    <3>1. 1..0 = {}
      OBVIOUS
    <3> QED BY <2>1, <3>1
  <2> HIDE DEF g, Upto
  <2> QED BY <2>1, <2>2
<1>2. ASSUME NEW j \in 0..(k - 1), j \in S PROVE j + 1 \in S
  <2>1. PICK f \in [0..j -> V] : Upto(f, j)
    BY <1>2
  <2> DEFINE g == [n \in 0..(j + 1) |-> IF n = j + 1 THEN step[j + 1][f[j]] ELSE f[n]]
  <2>2. j + 1 \in 1..k /\ j + 1 \in 0..k /\ j \in 0..j /\ f[j] \in V
    OBVIOUS
  <2>3. step[j + 1] \in [V -> V] /\ step[j + 1][f[j]] \in V
    BY <2>2
  <2>4. g \in [0..(j + 1) -> V]
    <3>1. ASSUME NEW n \in 0..(j + 1) PROVE g[n] \in V
      <4>1. CASE n = j + 1
        BY <2>3, <4>1
      <4>2. CASE n # j + 1
        <5>1. n \in 0..j /\ g[n] = f[n]
          BY <4>2
        <5> QED BY <5>1
      <4> QED BY <4>1, <4>2
    <3>2. g = [n \in 0..(j + 1) |-> g[n]]
      OBVIOUS
    <3> HIDE DEF g
    <3> QED BY <3>1, <3>2
  <2>5. g[0] = base
    <3>1. 0 \in 0..(j + 1) /\ 0 # j + 1
      OBVIOUS
    <3> QED BY <2>1, <3>1
  <2>6. ASSUME NEW n \in 1..(j + 1) PROVE g[n] = step[n][g[n - 1]]
    <3>1. CASE n = j + 1
      <4>1. n \in 0..(j + 1) /\ n - 1 \in 0..(j + 1) /\ n - 1 # j + 1 /\ n - 1 = j
        BY <3>1
      <4> QED BY <3>1, <4>1
    <3>2. CASE n # j + 1
      <4>1. n \in 1..j /\ n \in 0..(j + 1) /\ n - 1 \in 0..(j + 1) /\ n - 1 # j + 1
        BY <3>2
      <4>2. f[n] = step[n][f[n - 1]]
        BY <2>1, <4>1
      <4> QED BY <3>2, <4>1, <4>2
    <3> QED BY <3>1, <3>2
  <2>7. Upto(g, j + 1)
    <3> HIDE DEF g
    <3> QED BY <2>5, <2>6
  <2> HIDE DEF g, Upto
  <2> QED BY <2>2, <2>4, <2>7
<1>3. k \in S
  <2> HIDE DEF S
  <2>1. \A n \in 0..(k - 1) : n \in S => n + 1 \in S
    BY <1>2
  <2>2. 0..k \subseteq S
    BY <1>1, <2>1, Induction
  <2>3. k \in 0..k
    OBVIOUS
  <2> QED BY <2>2, <2>3
<1> QED BY <1>3 DEF Runs

-----------------------------------------------------------------------------
(* The types of the window core, whose items are numbers in I. *)

Instants == 0..MaxInstant
Moments == Instants \cup {None}

OpenWindows(I) == [k : Nat, start : Instants, end : Moments, items : Seq(I)]
Cores(I) == [start : Moments, last : Moments, items : Seq(I), slots : Seq(OpenWindows(I))]

Windows == [key : Keys \cup {NIL}, items : Seq(Nat), start : Instants, end : Instants]
Outlets == [key : Keys \cup {NIL}, sent : Seq(Windows), accepts : Nat, ok : BOOLEAN,
            refused : BOOLEAN]

\* What a core gives back.
Results(I) == [core : Cores(I), out : Outlets]

\* What emit_slots_before and the joining of windows go through.
Passes(I) == [slots : Seq(OpenWindows(I)), out : Outlets]

\* A policy that the builder lets through.
Policies == {s \in WindowSpecs : Check(s)}

LEMMA MaxInstantType == MaxInstant \in Nat
BY WindowCoreAssumption

LEMMA OrType ==
  ASSUME NEW x \in Moments, NEW d \in Instants
  PROVE  Or(x, d) \in Instants
BY DEF Or, Moments

LEMMA OrTypeAny ==
  ASSUME NEW x \in Moments, NEW d \in Moments
  PROVE  Or(x, d) \in Moments
BY DEF Or, Moments

LEMMA CheckedAddType ==
  ASSUME NEW t \in Moments, NEW d \in Nat
  PROVE  CheckedAdd(t, d) \in Moments
<1>1. CASE t = None
  BY <1>1 DEF CheckedAdd, Moments
<1>2. CASE t # None
  <2>1. t \in Nat /\ t + d \in Nat
    BY <1>2, MaxInstantType DEF Moments, Instants
  <2> QED BY <1>2, <2>1, MaxInstantType DEF CheckedAdd, Moments, Instants
<1> QED BY <1>1, <1>2

LEMMA SinceType ==
  ASSUME NEW a \in Nat, NEW b \in Nat
  PROVE  Since(a, b) \in Nat
BY DEF Since

LEMMA DivType ==
  ASSUME NEW a \in Nat, NEW d \in Nat \ {0}
  PROVE  a \div d \in Nat
OBVIOUS

LEMMA DivMonotonic ==
  ASSUME NEW a \in Nat, NEW b \in Nat, NEW d \in Nat \ {0}, a <= b
  PROVE  a \div d <= b \div d
OBVIOUS

LEMMA ProductType ==
  ASSUME NEW a \in Nat, NEW b \in Nat
  PROVE  a * b \in Nat
OBVIOUS

LEMMA OffsetType ==
  ASSUME NEW origin \in Instants, NEW n \in Nat, NEW step \in Nat, NEW fallback \in Instants
  PROVE  Offset(origin, n, step, fallback) \in Instants
<1>1. n * step \in Nat /\ origin \in Moments
  BY ProductType DEF Moments
<1>2. CheckedAdd(origin, n * step) \in Moments
  BY <1>1, CheckedAddType
<1> QED BY <1>2, OrType DEF Offset

LEMMA InstantNat == ASSUME NEW t \in Instants PROVE t \in Nat /\ t \in Moments
BY MaxInstantType DEF Instants, Moments

LEMMA PolicyType ==
  ASSUME NEW policy \in Policies
  PROVE  /\ policy.kind \in {"tumbling", "session", "sliding"}
         /\ policy.size \in Nat \ {0} /\ policy.slide \in Nat \ {0} /\ policy.slide <= policy.size
         /\ policy.maxItems \in Nat \cup {None} /\ policy.maxItems # 0
         /\ policy.maxKeys \in Nat \cup {None} /\ policy.maxKeys # 0
BY DEF Policies, WindowSpecs, Check

LEMMA StartOfType ==
  ASSUME NEW policy \in Policies, NEW anchor_ \in Instants, NEW now_ \in Instants
  PROVE  StartOf(policy, anchor_, now_) \in Instants
<1>1. policy.size \in Nat \ {0}
  BY PolicyType
<1>2. Since(now_, anchor_) \in Nat
  BY InstantNat, SinceType
<1>3. Since(now_, anchor_) \div policy.size \in Nat
  BY <1>1, <1>2, DivType
<1>4. Align(anchor_, now_, policy.size) \in Instants
  BY <1>1, <1>3, OffsetType DEF Align
<1> QED BY <1>4 DEF StartOf

LEMMA EmitSomeType ==
  ASSUME NEW out \in Outlets, NEW items \in Seq(Nat), NEW start \in Instants, NEW end \in Instants
  PROVE  EmitSome(out, items, start, end) \in Outlets
<1>1. CASE items = <<>>
  BY <1>1 DEF EmitSome, Outlets
<1>2. CASE items # <<>> /\ out.accepts = 0
  BY <1>2 DEF EmitSome, Outlets
<1>3. CASE items # <<>> /\ out.accepts # 0
  <2> DEFINE w == [key |-> out.key, items |-> items, start |-> start, end |-> end]
             sent_ == Append(out.sent, w)
  <2>1. w \in Windows
    BY DEF Windows, Outlets
  <2>2. sent_ \in Seq(Windows)
    <3> HIDE DEF w
    <3>1. out.sent \in Seq(Windows)
      BY DEF Outlets
    <3> QED BY <2>1, <3>1
  <2>3. out.accepts - 1 \in Nat
    BY <1>3 DEF Outlets
  <2>4. EmitSome(out, items, start, end)
          = [out EXCEPT !.ok = TRUE, !.accepts = out.accepts - 1, !.sent = sent_]
    BY <1>3 DEF EmitSome
  <2> HIDE DEF sent_
  <2> QED BY <2>2, <2>3, <2>4 DEF Outlets
<1> QED BY <1>1, <1>2, <1>3

LEMMA EndOfType ==
  ASSUME NEW I, NEW policy \in Policies, NEW core \in Cores(I), NEW now_ \in Instants
  PROVE  EndOf(policy, core, now_) \in Instants
<1>1. policy.size \in Nat /\ core.start \in Moments /\ core.last \in Moments
  BY PolicyType DEF Cores
<1>2. CheckedAdd(core.start, policy.size) \in Moments
  BY <1>1, CheckedAddType
<1> QED BY <1>1, <1>2, OrType DEF EndOf

LEMMA CloseType ==
  ASSUME NEW I \in SUBSET Nat, NEW policy \in Policies, NEW core \in Cores(I),
         NEW now_ \in Instants, NEW out \in Outlets
  PROVE  Close(policy, core, now_, out) \in Outlets
<1>1. EndOf(policy, core, now_) \in Instants
  BY EndOfType
<1>2. core.start \in Moments /\ core.items \in Seq(I)
  BY DEF Cores
<1>3. core.items \in Seq(Nat)
  BY <1>2, SeqMonotonic
<1>4. Or(core.start, EndOf(policy, core, now_)) \in Instants
  BY <1>1, <1>2, OrType
<1> QED BY <1>1, <1>3, <1>4, EmitSomeType DEF Close

LEMMA PushType ==
  ASSUME NEW I \in SUBSET Nat, NEW policy \in Policies, NEW core \in Cores(I), NEW maxItems,
         NEW now_ \in Instants, NEW item \in I, NEW out \in Outlets
  PROVE  Push(policy, maxItems, core, now_, item, out) \in Results(I)
<1> DEFINE items == Append(core.items, item)
           grown == [core EXCEPT !.items = items]
           rest == [core EXCEPT !.items = <<>>,
                      !.start = IF policy.kind = "session" THEN now_ ELSE core.start]
<1>1. items \in Seq(I) /\ <<>> \in Seq(I)
  BY DEF Cores
<1>2. grown \in Cores(I)
  <2> HIDE DEF items
  <2> QED BY <1>1 DEF Cores
<1>3. rest \in Cores(I)
  BY <1>1, InstantNat DEF Cores
<1>4. Close(policy, grown, now_, out) \in Outlets
  <2> HIDE DEF grown
  <2> QED BY <1>2, CloseType
<1>5. Push(policy, maxItems, core, now_, item, out)
        = IF Len(grown.items) < maxItems THEN [core |-> grown, out |-> out]
          ELSE [core |-> rest, out |-> Close(policy, grown, now_, out)]
  BY DEF Push
<1> HIDE DEF grown, rest
<1> QED BY <1>2, <1>3, <1>4, <1>5 DEF Results

LEMMA OnItemOneType ==
  ASSUME NEW I \in SUBSET Nat, NEW policy \in Policies, NEW core \in Cores(I), NEW maxItems,
         NEW anchor_ \in Instants, NEW now_ \in Instants, NEW item \in I, NEW out \in Outlets
  PROVE  OnItemOne(policy, maxItems, core, anchor_, now_, item, out) \in Results(I)
<1> DEFINE begun == [core EXCEPT !.start = Or(core.start, StartOf(policy, anchor_, now_))]
           over == IsOver(policy, begun, now_)
           after == IF over THEN Close(policy, begun, now_, out) ELSE [out EXCEPT !.ok = TRUE]
           rest == IF over THEN [begun EXCEPT !.items = <<>>] ELSE begun
           start == IF over THEN StartOf(policy, anchor_, now_) ELSE begun.start
           last == IF policy.kind = "session" THEN now_ ELSE None
           next == [rest EXCEPT !.start = start, !.last = last]
<1>1. StartOf(policy, anchor_, now_) \in Instants
  BY StartOfType
<1>2. begun \in Cores(I)
  <2>1. Or(core.start, StartOf(policy, anchor_, now_)) \in Moments
    BY <1>1, InstantNat, OrTypeAny DEF Cores
  <2> QED BY <2>1 DEF Cores
<1>3. after \in Outlets
  <2>1. Close(policy, begun, now_, out) \in Outlets
    <3> HIDE DEF begun
    <3> QED BY <1>2, CloseType
  <2>2. [out EXCEPT !.ok = TRUE] \in Outlets
    BY DEF Outlets
  <2> QED BY <2>1, <2>2
<1>4. rest \in Cores(I)
  <2> HIDE DEF begun, over
  <2>1. <<>> \in Seq(I)
    OBVIOUS
  <2> QED BY <1>2, <2>1 DEF Cores
<1>5. start \in Moments /\ last \in Moments
  <2> HIDE DEF begun, over
  <2> QED BY <1>1, <1>2, InstantNat DEF Cores, Moments
<1>6. next \in Cores(I)
  <2> HIDE DEF rest, start, last
  <2> QED BY <1>4, <1>5 DEF Cores
<1>7. OnItemOne(policy, maxItems, core, anchor_, now_, item, out)
        = IF after.ok THEN Push(policy, maxItems, next, now_, item, after)
          ELSE [core |-> rest, out |-> after]
  BY DEF OnItemOne
<1> HIDE DEF after, rest, next
<1>8. Push(policy, maxItems, next, now_, item, after) \in Results(I)
  BY <1>3, <1>6, PushType
<1> QED BY <1>3, <1>4, <1>7, <1>8 DEF Results

LEMMA OnTickOneType ==
  ASSUME NEW I \in SUBSET Nat, NEW policy \in Policies, NEW core \in Cores(I),
         NEW anchor_ \in Instants, NEW now_ \in Instants, NEW out \in Outlets
  PROVE  OnTickOne(policy, core, anchor_, now_, out) \in Results(I)
<1> DEFINE start == IF policy.kind = "tumbling" THEN StartOf(policy, anchor_, now_) ELSE None
           closed == [core EXCEPT !.items = <<>>, !.last = None, !.start = start]
<1>1. start \in Moments /\ None \in Moments /\ <<>> \in Seq(I)
  BY StartOfType, InstantNat DEF Moments
<1>2. closed \in Cores(I)
  <2> HIDE DEF start
  <2> QED BY <1>1 DEF Cores
<1>3. Close(policy, core, now_, out) \in Outlets
  BY CloseType
<1>4. OnTickOne(policy, core, anchor_, now_, out)
        = IF ~IsOver(policy, core, now_) THEN [core |-> core, out |-> out]
          ELSE [core |-> closed, out |-> Close(policy, core, now_, out)]
  BY DEF OnTickOne
<1> HIDE DEF closed
<1> QED BY <1>2, <1>3, <1>4 DEF Results

-----------------------------------------------------------------------------
(* Sliding windows. *)

LEMMA BelowType ==
  ASSUME NEW I, NEW slots \in Seq(OpenWindows(I)), NEW k
  PROVE  Below(slots, k) \in 0..Len(slots)
<1>1. Len(slots) \in Nat /\ DOMAIN slots = 1..Len(slots)
  OBVIOUS
<1>2. IsFiniteSet(1..Len(slots)) /\ Cardinality(1..Len(slots)) = Len(slots)
  BY <1>1, FS_Interval
<1> DEFINE those == {i \in DOMAIN slots : slots[i].k < k}
<1>3. those \in SUBSET (1..Len(slots))
  BY <1>1
<1> HIDE DEF those
<1>4. IsFiniteSet(those) /\ Cardinality(those) <= Len(slots) /\ Cardinality(those) \in Nat
  BY <1>2, <1>3, FS_Subset, FS_CardinalityType
<1>5. Cardinality(those) \in 0..Len(slots)
  BY <1>1, <1>4
<1> QED BY <1>5 DEF Below, those

LEMMA EmitSlotType ==
  ASSUME NEW I \in SUBSET Nat, NEW acc \in Passes(I), NEW slot \in OpenWindows(I), NEW first
  PROVE  EmitSlot(acc, slot, first) \in Passes(I)
<1>1. Append(acc.slots, slot) \in Seq(OpenWindows(I)) /\ acc.out \in Outlets
  BY DEF Passes
<1>2. slot.start \in Instants /\ slot.start \in Moments /\ slot.end \in Moments
  BY InstantNat DEF OpenWindows
<1>3. slot.items \in Seq(Nat)
  BY SeqMonotonic DEF OpenWindows
<1>4. Or(slot.end, slot.start) \in Instants
  BY <1>2, OrType
<1>5. EmitSome(acc.out, slot.items, slot.start, Or(slot.end, slot.start)) \in Outlets
  BY <1>1, <1>2, <1>3, <1>4, EmitSomeType
<1>6. CASE slot.k >= first \/ ~acc.out.ok
  BY <1>1, <1>6 DEF EmitSlot, Passes
<1>7. CASE ~(slot.k >= first \/ ~acc.out.ok)
  BY <1>5, <1>7 DEF EmitSlot, Passes
<1> QED BY <1>6, <1>7

\* What emit_slots_before goes through, slot by slot.
EmitsSlots(run, slots, first, out) ==
  /\ run[0] = [slots |-> <<>>, out |-> [out EXCEPT !.ok = TRUE]]
  /\ \A n \in 1..Len(slots) : run[n] = EmitSlot(run[n - 1], slots[n], first)
  /\ EmitSlotsBefore(slots, first, out) = run[Len(slots)]

LEMMA EmitSlotsRun ==
  ASSUME NEW I \in SUBSET Nat, NEW slots \in Seq(OpenWindows(I)), NEW first, NEW out \in Outlets
  PROVE  \E run \in [0..Len(slots) -> Passes(I)] : EmitsSlots(run, slots, first, out)
<1> DEFINE k == Len(slots)
           base == [slots |-> <<>>, out |-> [out EXCEPT !.ok = TRUE]]
           step == [n \in 1..k |-> [acc \in Passes(I) |-> EmitSlot(acc, slots[n], first)]]
           IsRun(g) == g = [n \in 0..k |-> IF n = 0 THEN base ELSE EmitSlot(g[n - 1], slots[n], first)]
           run == CHOOSE g : IsRun(g)
<1>1. k \in Nat /\ \A n \in 1..k : slots[n] \in OpenWindows(I)
  OBVIOUS
<1>2. base \in Passes(I)
  <2>1. [out EXCEPT !.ok = TRUE] \in Outlets
    BY DEF Outlets
  <2>2. <<>> \in Seq(OpenWindows(I))
    OBVIOUS
  <2> QED BY <2>1, <2>2 DEF Passes
<1>3. \A n \in 1..k : \A acc \in Passes(I) : EmitSlot(acc, slots[n], first) \in Passes(I)
  BY <1>1, EmitSlotType
<1> HIDE DEF k, base
<1>4. step \in [1..k -> [Passes(I) -> Passes(I)]]
  BY <1>3
<1>5. \E g : IsRun(g)
  <2>1. PICK g \in [0..k -> Passes(I)] : Runs(g, k, base, step)
    <3> HIDE DEF step
    <3> QED BY <1>1, <1>2, <1>4, Recursion
  <2>2. ASSUME NEW n \in 0..k
        PROVE  g[n] = IF n = 0 THEN base ELSE EmitSlot(g[n - 1], slots[n], first)
    <3>1. CASE n = 0
      BY <2>1, <3>1 DEF Runs
    <3>2. CASE n # 0
      <4>1. n \in 1..k /\ n - 1 \in 0..k
        BY <1>1, <3>2
      <4>2. g[n - 1] \in Passes(I) /\ g[n] = step[n][g[n - 1]]
        BY <2>1, <4>1 DEF Runs
      <4> QED BY <3>2, <4>1, <4>2
    <3> QED BY <3>1, <3>2
  <2>3. g = [n \in 0..k |-> g[n]]
    OBVIOUS
  <2>4. IsRun(g)
    BY <2>2, <2>3
  <2> QED BY <2>4
<1>6. IsRun(run)
  BY <1>5
<1>7. run = [n \in 0..k |-> IF n = 0 THEN base ELSE EmitSlot(run[n - 1], slots[n], first)]
  BY <1>6
<1> HIDE DEF run
<1>8. \A n \in 0..k : run[n] = IF n = 0 THEN base ELSE EmitSlot(run[n - 1], slots[n], first)
  BY <1>7
<1>9. run[0] = base /\ \A n \in 1..k : run[n] = EmitSlot(run[n - 1], slots[n], first)
  <2>1. 0 \in 0..k /\ \A n \in 1..k : n \in 0..k /\ n # 0
    BY <1>1
  <2> QED BY <1>8, <2>1
<1>10. \A n \in 0..k : run[n] \in Passes(I)
  <2>1. run[0] \in Passes(I)
    BY <1>2, <1>9
  <2>2. \A n \in 1..k : run[n - 1] \in Passes(I) => run[n] \in Passes(I)
    BY <1>3, <1>9
  <2> QED BY <1>1, <2>1, <2>2, Invariance
<1>11. run \in [0..k -> Passes(I)]
  BY <1>7, <1>10
<1>12. EmitSlotsBefore(slots, first, out) = run[k]
  BY DEF EmitSlotsBefore, k, base, run
<1>13. EmitsSlots(run, slots, first, out)
  BY <1>9, <1>12 DEF EmitsSlots, k, base
<1> QED BY <1>11, <1>13 DEF k

LEMMA EmitSlotsBeforeType ==
  ASSUME NEW I \in SUBSET Nat, NEW slots \in Seq(OpenWindows(I)), NEW first, NEW out \in Outlets
  PROVE  EmitSlotsBefore(slots, first, out) \in Passes(I)
<1>1. PICK run \in [0..Len(slots) -> Passes(I)] : EmitsSlots(run, slots, first, out)
  BY EmitSlotsRun
<1>2. Len(slots) \in 0..Len(slots)
  OBVIOUS
<1> QED BY <1>1, <1>2 DEF EmitsSlots

LEMMA IndexTypes ==
  ASSUME NEW policy \in Policies, NEW anchor_ \in Instants, NEW now_ \in Instants
  PROVE  /\ FirstIndex(policy, anchor_, now_) \in Nat
         /\ LastIndex(policy, anchor_, now_) \in Nat
         /\ LastIndex(policy, anchor_, now_) - FirstIndex(policy, anchor_, now_) + 1 \in Nat
<1> DEFINE e == Since(now_, anchor_)
           size == policy.size
           slide == policy.slide
<1>1. e \in Nat /\ size \in Nat \ {0} /\ slide \in Nat \ {0}
  BY InstantNat, SinceType, PolicyType
<1>2. FirstIndex(policy, anchor_, now_) = IF e >= size THEN (e - size) \div slide + 1 ELSE 0
  BY DEF FirstIndex
<1>3. LastIndex(policy, anchor_, now_) = e \div slide
  BY DEF LastIndex
<1> HIDE DEF e, size, slide
<1>4. e \div slide \in Nat
  BY <1>1, DivType
<1>5. CASE e >= size
  <2>1. e - size \in Nat /\ e - size <= e
    BY <1>1, <1>5
  <2>2. (e - size) \div slide \in Nat /\ (e - size) \div slide <= e \div slide
    BY <1>1, <2>1, DivType, DivMonotonic
  <2> DEFINE low == (e - size) \div slide
             high == e \div slide
  <2>3. low \in Nat /\ high \in Nat /\ low <= high
    BY <1>4, <2>2
  <2>4. FirstIndex(policy, anchor_, now_) = low + 1 /\ LastIndex(policy, anchor_, now_) = high
    BY <1>2, <1>3, <1>5
  <2> HIDE DEF low, high
  <2> QED BY <2>3, <2>4
<1>6. CASE ~(e >= size)
  <2> DEFINE high == e \div slide
  <2>1. high \in Nat
    BY <1>4
  <2>2. FirstIndex(policy, anchor_, now_) = 0 /\ LastIndex(policy, anchor_, now_) = high
    BY <1>2, <1>3, <1>6
  <2> HIDE DEF high
  <2> QED BY <2>1, <2>2
<1> QED BY <1>5, <1>6

LEMMA SlotAtType ==
  ASSUME NEW I \in SUBSET Nat, NEW policy \in Policies, NEW anchor_ \in Instants,
         NEW now_ \in Instants, NEW slots \in Seq(OpenWindows(I)), NEW k \in Nat
  PROVE  SlotAt(policy, anchor_, now_, slots, k) \in OpenWindows(I)
<1>1. ASSUME NEW slot \in ToSet(slots) PROVE slot \in OpenWindows(I)
  <2>1. PICK i \in DOMAIN slots : slot = slots[i]
    BY DEF ToSet
  <2>2. DOMAIN slots = 1..Len(slots)
    OBVIOUS
  <2> QED BY <2>1, <2>2
<1>2. Slot(policy, anchor_, now_, k) \in OpenWindows(I)
  <2> DEFINE start == Offset(anchor_, k, policy.slide, now_)
             end == CheckedAdd(start, policy.size)
  <2>1. start \in Instants
    BY PolicyType, OffsetType
  <2>2. end \in Moments
    <3> HIDE DEF start
    <3> QED BY <2>1, InstantNat, PolicyType, CheckedAddType
  <2>3. Slot(policy, anchor_, now_, k) = [k |-> k, start |-> start, end |-> end, items |-> <<>>]
    BY DEF Slot
  <2> HIDE DEF start, end
  <2>4. <<>> \in Seq(I)
    OBVIOUS
  <2> QED BY <2>1, <2>2, <2>3, <2>4 DEF OpenWindows
<1>3. CASE \E slot \in ToSet(slots) : slot.k = k
  <2> DEFINE found == CHOOSE slot \in ToSet(slots) : slot.k = k
  <2>1. found \in ToSet(slots)
    BY <1>3
  <2>2. SlotAt(policy, anchor_, now_, slots, k) = found
    BY <1>3 DEF SlotAt
  <2> HIDE DEF found
  <2> QED BY <1>1, <2>1, <2>2
<1>4. CASE ~ \E slot \in ToSet(slots) : slot.k = k
  BY <1>2, <1>4 DEF SlotAt
<1> QED BY <1>3, <1>4

LEMMA JoinSlotType ==
  ASSUME NEW I \in SUBSET Nat, NEW acc \in Passes(I), NEW maxItems, NEW now_ \in Instants,
         NEW item \in I, NEW slot \in OpenWindows(I)
  PROVE  JoinSlot(acc, maxItems, now_, item, slot) \in Passes(I)
<1> DEFINE grown == Append(slot.items, item)
           kept == [slot EXCEPT !.items = grown]
           emptied == [slot EXCEPT !.items = <<>>]
           out == EmitSome(acc.out, grown, slot.start, Or(slot.end, now_))
<1>1. grown \in Seq(I) /\ <<>> \in Seq(I) /\ acc.slots \in Seq(OpenWindows(I)) /\ acc.out \in Outlets
  BY DEF OpenWindows, Passes
<1>2. kept \in OpenWindows(I) /\ emptied \in OpenWindows(I)
  <2> HIDE DEF grown
  <2> QED BY <1>1 DEF OpenWindows
<1>3. out \in Outlets
  <2>1. grown \in Seq(Nat)
    <3> HIDE DEF grown
    <3> QED BY <1>1, SeqMonotonic
  <2>2. slot.start \in Instants /\ slot.end \in Moments
    BY DEF OpenWindows
  <2>3. Or(slot.end, now_) \in Instants
    BY <2>2, OrType
  <2> HIDE DEF grown
  <2> QED BY <1>1, <2>1, <2>2, <2>3, EmitSomeType
<1>4. JoinSlot(acc, maxItems, now_, item, slot)
        = IF Len(grown) < maxItems THEN [acc EXCEPT !.slots = Append(acc.slots, kept)]
          ELSE [slots |-> Append(acc.slots, emptied), out |-> out]
  BY DEF JoinSlot
<1> HIDE DEF grown, kept, emptied, out
<1>5. /\ Append(acc.slots, kept) \in Seq(OpenWindows(I))
      /\ Append(acc.slots, emptied) \in Seq(OpenWindows(I))
  BY <1>1, <1>2
<1>6. CASE Len(grown) < maxItems
  BY <1>4, <1>5, <1>6 DEF Passes
<1>7. CASE ~(Len(grown) < maxItems)
  BY <1>3, <1>4, <1>5, <1>7 DEF Passes
<1> QED BY <1>6, <1>7

\* How many windows an item joins.
Joining(policy, anchor_, now_) ==
  LastIndex(policy, anchor_, now_) - FirstIndex(policy, anchor_, now_) + 1

\* The windows before and behind them that stay open.
Earlier(policy, core, anchor_, now_, out) ==
  LET first == FirstIndex(policy, anchor_, now_)
      slots == EmitSlotsBefore(core.slots, first, out).slots
  IN SubSeq(slots, 1, Below(slots, first))
Later(policy, core, anchor_, now_, out) ==
  LET slots == EmitSlotsBefore(core.slots, FirstIndex(policy, anchor_, now_), out).slots
  IN SubSeq(slots, Below(slots, LastIndex(policy, anchor_, now_) + 1) + 1, Len(slots))

\* What sliding_on_item goes through, window by window.
JoinsSlots(run, policy, maxItems, core, anchor_, now_, item, out) ==
  LET first == FirstIndex(policy, anchor_, now_)
      old == EmitSlotsBefore(core.slots, first, out)
      k == Joining(policy, anchor_, now_)
  IN /\ run[0] = [old EXCEPT !.slots = Earlier(policy, core, anchor_, now_, out)]
     /\ \A n \in 1..k : run[n] = JoinSlot(run[n - 1], maxItems, now_, item,
                                         SlotAt(policy, anchor_, now_, old.slots, first + n - 1))
     /\ OnItemSliding(policy, maxItems, core, anchor_, now_, item, out)
          = [core |-> [core EXCEPT !.slots = run[k].slots \o Later(policy, core, anchor_, now_, out)],
             out |-> run[k].out]

LEMMA OnItemSlidingRun ==
  ASSUME NEW I \in SUBSET Nat, NEW policy \in Policies, NEW core \in Cores(I), NEW maxItems,
         NEW anchor_ \in Instants, NEW now_ \in Instants, NEW item \in I, NEW out \in Outlets
  PROVE  \E run \in [0..Joining(policy, anchor_, now_) -> Passes(I)] :
           /\ JoinsSlots(run, policy, maxItems, core, anchor_, now_, item, out)
           /\ Later(policy, core, anchor_, now_, out) \in Seq(OpenWindows(I))
<1> DEFINE first == FirstIndex(policy, anchor_, now_)
           last == LastIndex(policy, anchor_, now_)
           old == EmitSlotsBefore(core.slots, first, out)
           k == last - first + 1
           base == [old EXCEPT !.slots = SubSeq(old.slots, 1, Below(old.slots, first))]
           at(n) == SlotAt(policy, anchor_, now_, old.slots, first + n - 1)
           step == [n \in 1..k |-> [acc \in Passes(I) |-> JoinSlot(acc, maxItems, now_, item, at(n))]]
           IsRun(g) == g = [n \in 0..k |-> IF n = 0 THEN base
                                           ELSE JoinSlot(g[n - 1], maxItems, now_, item, at(n))]
           run == CHOOSE g : IsRun(g)
           later == SubSeq(old.slots, Below(old.slots, last + 1) + 1, Len(old.slots))
           slots == run[k].slots \o later
<1>1. first \in Nat /\ last \in Nat /\ k \in Nat
  BY IndexTypes
<1>2. old \in Passes(I)
  <2>1. core.slots \in Seq(OpenWindows(I))
    BY DEF Cores
  <2> QED BY <2>1, EmitSlotsBeforeType
<1>3. OnItemSliding(policy, maxItems, core, anchor_, now_, item, out)
        = [core |-> [core EXCEPT !.slots = slots], out |-> run[k].out]
  BY DEF OnItemSliding
<1> HIDE DEF first, last, old
<1>4. old.slots \in Seq(OpenWindows(I)) /\ old.out \in Outlets /\ Len(old.slots) \in Nat
  BY <1>2 DEF Passes
<1>5. \A j : Below(old.slots, j) \in 0..Len(old.slots)
  BY <1>4, BelowType
<1>6. base \in Passes(I)
  <2>1. SubSeq(old.slots, 1, Below(old.slots, first)) \in Seq(OpenWindows(I))
    <3> DEFINE j == Below(old.slots, first)
    <3>1. j \in 0..Len(old.slots)
      BY <1>5
    <3> HIDE DEF j
    <3>2. \A i \in 1..j : old.slots[i] \in OpenWindows(I)
      BY <1>4, <3>1
    <3>3. 1 \in Int /\ j \in Int
      BY <1>4, <3>1
    <3>4. SubSeq(old.slots, 1, j) \in Seq(OpenWindows(I))
      BY <3>2, <3>3, SubSeqProperties
    <3> QED BY <3>4 DEF j
  <2> QED BY <1>2, <2>1 DEF Passes
<1>7. later \in Seq(OpenWindows(I))
  <2> DEFINE j == Below(old.slots, last + 1)
  <2>1. j \in 0..Len(old.slots)
    BY <1>5
  <2> HIDE DEF j
  <2>2. j + 1 \in 1..Len(old.slots) + 1 /\ Len(old.slots) \in j .. Len(old.slots)
    BY <1>4, <2>1
  <2>3. \A i \in (j + 1)..Len(old.slots) : i \in DOMAIN old.slots
    BY <1>4, <2>1
  <2>4. SubSeq(old.slots, j + 1, Len(old.slots)) \in Seq(OpenWindows(I))
    BY <1>4, <2>1, <2>2, <2>3, SubSeqProperties
  <2> QED BY <2>4 DEF j
<1>8. \A n \in 1..k : at(n) \in OpenWindows(I)
  <2> TAKE n \in 1..k
  <2>1. first + n - 1 \in Nat
    <3> HIDE DEF k
    <3> QED BY <1>1
  <2> QED BY <1>4, <2>1, SlotAtType
<1>9. \A n \in 1..k : \A acc \in Passes(I) : JoinSlot(acc, maxItems, now_, item, at(n)) \in Passes(I)
  <2> HIDE DEF k, at
  <2> QED BY <1>8, JoinSlotType
<1> HIDE DEF k, base, at, later
<1>10. step \in [1..k -> [Passes(I) -> Passes(I)]]
  BY <1>9
<1>11. \E g : IsRun(g)
  <2>1. PICK g \in [0..k -> Passes(I)] : Runs(g, k, base, step)
    <3> HIDE DEF step
    <3> QED BY <1>1, <1>6, <1>10, Recursion
  <2>2. ASSUME NEW n \in 0..k
        PROVE  g[n] = IF n = 0 THEN base ELSE JoinSlot(g[n - 1], maxItems, now_, item, at(n))
    <3>1. CASE n = 0
      BY <2>1, <3>1 DEF Runs
    <3>2. CASE n # 0
      <4>1. n \in 1..k /\ n - 1 \in 0..k
        BY <1>1, <3>2
      <4>2. g[n - 1] \in Passes(I) /\ g[n] = step[n][g[n - 1]]
        BY <2>1, <4>1 DEF Runs
      <4> QED BY <3>2, <4>1, <4>2
    <3> QED BY <3>1, <3>2
  <2>3. g = [n \in 0..k |-> g[n]]
    OBVIOUS
  <2>4. IsRun(g)
    BY <2>2, <2>3
  <2> QED BY <2>4
<1>12. run = [n \in 0..k |-> IF n = 0 THEN base ELSE JoinSlot(run[n - 1], maxItems, now_, item, at(n))]
  BY <1>11
<1> HIDE DEF run, step
<1>13. \A n \in 0..k : run[n] = IF n = 0 THEN base ELSE JoinSlot(run[n - 1], maxItems, now_, item, at(n))
  BY <1>12
<1>14. run[0] = base /\ \A n \in 1..k : run[n] = JoinSlot(run[n - 1], maxItems, now_, item, at(n))
  <2>1. 0 \in 0..k /\ \A n \in 1..k : n \in 0..k /\ n # 0
    BY <1>1
  <2> QED BY <1>13, <2>1
<1>15. \A n \in 0..k : run[n] \in Passes(I)
  <2>1. run[0] \in Passes(I)
    BY <1>6, <1>14
  <2>2. \A n \in 1..k : run[n - 1] \in Passes(I) => run[n] \in Passes(I)
    BY <1>9, <1>14
  <2> QED BY <1>1, <2>1, <2>2, Invariance
<1>16. run \in [0..k -> Passes(I)]
  BY <1>12, <1>15
<1>17. \A n \in 1..k : run[n] = JoinSlot(run[n - 1], maxItems, now_, item,
                                       SlotAt(policy, anchor_, now_, old.slots, first + n - 1))
  BY <1>14 DEF at
<1>18. JoinsSlots(run, policy, maxItems, core, anchor_, now_, item, out)
  BY <1>3, <1>14, <1>17 DEF JoinsSlots, Joining, Earlier, Later, base, later, old, first, last, k
<1> QED BY <1>7, <1>16, <1>18 DEF Joining, Later, later, old, first, last, k

LEMMA OnItemSlidingType ==
  ASSUME NEW I \in SUBSET Nat, NEW policy \in Policies, NEW core \in Cores(I), NEW maxItems,
         NEW anchor_ \in Instants, NEW now_ \in Instants, NEW item \in I, NEW out \in Outlets
  PROVE  OnItemSliding(policy, maxItems, core, anchor_, now_, item, out) \in Results(I)
<1> DEFINE k == Joining(policy, anchor_, now_)
           later == Later(policy, core, anchor_, now_, out)
<1>1. k \in Nat
  BY IndexTypes DEF Joining
<1>2. PICK run \in [0..k -> Passes(I)] :
        /\ JoinsSlots(run, policy, maxItems, core, anchor_, now_, item, out)
        /\ later \in Seq(OpenWindows(I))
  BY OnItemSlidingRun
<1>3. OnItemSliding(policy, maxItems, core, anchor_, now_, item, out)
        = [core |-> [core EXCEPT !.slots = run[k].slots \o later], out |-> run[k].out]
  BY <1>2 DEF JoinsSlots
<1>4. k \in 0..k
  BY <1>1
<1>5. run[k] \in Passes(I) /\ later \in Seq(OpenWindows(I))
  BY <1>2, <1>4
<1> DEFINE slots == run[k].slots \o later
<1> HIDE DEF k, later
<1>6. slots \in Seq(OpenWindows(I)) /\ run[k].out \in Outlets
  BY <1>5, ConcatProperties DEF Passes
<1>7. [core EXCEPT !.slots = slots] \in Cores(I)
  <2> HIDE DEF slots
  <2> QED BY <1>6 DEF Cores
<1> HIDE DEF slots
<1> QED BY <1>3, <1>6, <1>7 DEF Results, slots

\* What on_flush of a sliding policy goes through, slot by slot.
FlushesSlots(run, policy, core, now_, out) ==
  /\ run[0] = out
  /\ \A n \in 1..Len(core.slots) :
       run[n] = EmitSome(run[n - 1], core.slots[n].items, core.slots[n].start,
                         Or(core.slots[n].end, now_))
  /\ OnFlush(policy, core, now_, out)
       = [core |-> EmptyCore,
          out |-> IF policy.kind = "sliding" THEN run[Len(core.slots)]
                  ELSE Close(policy, core, now_, out)]

LEMMA OnFlushRun ==
  ASSUME NEW I \in SUBSET Nat, NEW policy \in Policies, NEW core \in Cores(I),
         NEW now_ \in Instants, NEW out \in Outlets
  PROVE  \E run \in [0..Len(core.slots) -> Outlets] : FlushesSlots(run, policy, core, now_, out)
<1> DEFINE k == Len(core.slots)
           next(o, n) == EmitSome(o, core.slots[n].items, core.slots[n].start,
                                  Or(core.slots[n].end, now_))
           step == [n \in 1..k |-> [o \in Outlets |-> next(o, n)]]
           IsRun(g) == g = [n \in 0..k |-> IF n = 0 THEN out ELSE next(g[n - 1], n)]
           run == CHOOSE g : IsRun(g)
<1>1. k \in Nat /\ \A n \in 1..k : core.slots[n] \in OpenWindows(I)
  BY DEF Cores
<1>2. OnFlush(policy, core, now_, out)
        = [core |-> EmptyCore,
           out |-> IF policy.kind = "sliding" THEN run[k] ELSE Close(policy, core, now_, out)]
  BY DEF OnFlush
<1>5. \A n \in 1..k : \A o \in Outlets : next(o, n) \in Outlets
  <2> SUFFICES ASSUME NEW n \in 1..k, NEW o \in Outlets PROVE next(o, n) \in Outlets
    OBVIOUS
  <2> DEFINE slot == core.slots[n]
  <2>1. slot \in OpenWindows(I)
    BY <1>1
  <2> HIDE DEF slot
  <2>2. slot.start \in Instants /\ slot.end \in Moments /\ slot.items \in Seq(Nat)
    BY <2>1, SeqMonotonic DEF OpenWindows
  <2>3. Or(slot.end, now_) \in Instants
    BY <2>2, OrType
  <2>4. EmitSome(o, slot.items, slot.start, Or(slot.end, now_)) \in Outlets
    BY <2>2, <2>3, EmitSomeType
  <2> QED BY <2>4 DEF slot
<1> HIDE DEF k, next
<1>6. step \in [1..k -> [Outlets -> Outlets]]
  BY <1>5
<1>7. \E g : IsRun(g)
  <2>1. PICK g \in [0..k -> Outlets] : Runs(g, k, out, step)
    <3> HIDE DEF step
    <3> QED BY <1>1, <1>6, Recursion
  <2>2. ASSUME NEW n \in 0..k
        PROVE  g[n] = IF n = 0 THEN out ELSE next(g[n - 1], n)
    <3>1. CASE n = 0
      BY <2>1, <3>1 DEF Runs
    <3>2. CASE n # 0
      <4>1. n \in 1..k /\ n - 1 \in 0..k
        BY <1>1, <3>2
      <4>2. g[n - 1] \in Outlets /\ g[n] = step[n][g[n - 1]]
        BY <2>1, <4>1 DEF Runs
      <4> QED BY <3>2, <4>1, <4>2
    <3> QED BY <3>1, <3>2
  <2>3. g = [n \in 0..k |-> g[n]]
    OBVIOUS
  <2>4. IsRun(g)
    BY <2>2, <2>3
  <2> QED BY <2>4
<1>8. run = [n \in 0..k |-> IF n = 0 THEN out ELSE next(run[n - 1], n)]
  BY <1>7
<1> HIDE DEF run, step
<1>9. \A n \in 0..k : run[n] = IF n = 0 THEN out ELSE next(run[n - 1], n)
  BY <1>8
<1>10. run[0] = out /\ \A n \in 1..k : run[n] = next(run[n - 1], n)
  <2>1. 0 \in 0..k /\ \A n \in 1..k : n \in 0..k /\ n # 0
    BY <1>1
  <2> QED BY <1>9, <2>1
<1>11. \A n \in 0..k : run[n] \in Outlets
  <2>1. run[0] \in Outlets
    BY <1>10
  <2>2. \A n \in 1..k : run[n - 1] \in Outlets => run[n] \in Outlets
    BY <1>5, <1>10
  <2> QED BY <1>1, <2>1, <2>2, Invariance
<1>12. run \in [0..k -> Outlets]
  BY <1>8, <1>11
<1> QED BY <1>2, <1>10, <1>12 DEF FlushesSlots, k, next

LEMMA OnFlushType ==
  ASSUME NEW I \in SUBSET Nat, NEW policy \in Policies, NEW core \in Cores(I),
         NEW now_ \in Instants, NEW out \in Outlets
  PROVE  OnFlush(policy, core, now_, out) \in Results(I)
<1> DEFINE k == Len(core.slots)
<1>1. PICK run \in [0..k -> Outlets] : FlushesSlots(run, policy, core, now_, out)
  BY OnFlushRun
<1>2. k \in 0..k
  BY DEF Cores
<1>3. EmptyCore \in Cores(I)
  <2>1. <<>> \in Seq(I) /\ <<>> \in Seq(OpenWindows(I)) /\ None \in Moments
    BY DEF Moments
  <2> QED BY <2>1 DEF EmptyCore, Cores
<1>4. Close(policy, core, now_, out) \in Outlets
  BY CloseType
<1>5. run[k] \in Outlets
  BY <1>1, <1>2
<1> QED BY <1>1, <1>3, <1>4, <1>5 DEF FlushesSlots, Results

LEMMA OnItemType ==
  ASSUME NEW I \in SUBSET Nat, NEW policy \in Policies, NEW core \in Cores(I), NEW maxItems,
         NEW anchor_ \in Instants, NEW now_ \in Instants, NEW item \in I, NEW out \in Outlets
  PROVE  OnItem(policy, maxItems, core, anchor_, now_, item, out) \in Results(I)
BY OnItemSlidingType, OnItemOneType DEF OnItem

LEMMA OnTickType ==
  ASSUME NEW I \in SUBSET Nat, NEW policy \in Policies, NEW core \in Cores(I),
         NEW anchor_ \in Instants, NEW now_ \in Instants, NEW out \in Outlets
  PROVE  OnTick(policy, core, anchor_, now_, out) \in Results(I)
<1>1. CASE policy.kind = "sliding"
  <2> DEFINE old == EmitSlotsBefore(core.slots, FirstIndex(policy, anchor_, now_), out)
             next == [core EXCEPT !.slots = old.slots]
  <2>1. old \in Passes(I)
    BY EmitSlotsBeforeType DEF Cores
  <2>2. OnTick(policy, core, anchor_, now_, out) = [core |-> next, out |-> old.out]
    BY <1>1 DEF OnTick
  <2> HIDE DEF old
  <2>3. next \in Cores(I) /\ old.out \in Outlets
    BY <2>1 DEF Cores, Passes
  <2> HIDE DEF next
  <2> QED BY <2>2, <2>3 DEF Results
<1>2. CASE policy.kind # "sliding"
  BY <1>2, OnTickOneType DEF OnTick
<1> QED BY <1>1, <1>2

LEMMA DeadlineType ==
  ASSUME NEW I, NEW policy \in Policies, NEW core \in Cores(I)
  PROVE  Deadline(policy, core) \in Moments
<1>1. policy.size \in Nat /\ policy.size + 1 \in Nat /\ core.start \in Moments /\ core.last \in Moments
  BY PolicyType DEF Cores
<1>2. /\ CheckedAdd(core.start, policy.size) \in Moments
      /\ CheckedAdd(core.last, policy.size + 1) \in Moments
  BY <1>1, CheckedAddType
<1>3. core.slots # <<>> => core.slots[1].end \in Moments
  <2> SUFFICES ASSUME core.slots # <<>> PROVE core.slots[1].end \in Moments
    OBVIOUS
  <2>1. core.slots \in Seq(OpenWindows(I))
    BY DEF Cores
  <2>2. core.slots[1] \in OpenWindows(I)
    BY <2>1
  <2> QED BY <2>2 DEF OpenWindows
<1>4. None \in Moments
  BY DEF Moments
<1> QED BY <1>2, <1>3, <1>4 DEF Deadline

-----------------------------------------------------------------------------
(* The recency list, as two functions on its members and its end NIL: the  *)
(* one after and the one before; after NIL comes the head, before it the   *)
(* tail.                                                                   *)

Linked(O, nx, pv) ==
  \A a \in O \cup {NIL} :
    /\ nx[a] \in O \cup {NIL} /\ pv[a] \in O \cup {NIL}
    /\ pv[nx[a]] = a /\ nx[pv[a]] = a

\* Each member is followed by the one used next.
Ordered(O, nx, u) ==
  /\ \A a, b \in O : u[a] = u[b] => a = b
  /\ \A a \in O : nx[a] # NIL => u[a] < u[nx[a]]
  /\ \A a \in O \cup {NIL} : \A r \in O :
       a = NIL \/ u[a] < u[r] => nx[a] # NIL /\ u[nx[a]] <= u[r]

IsList(O, nx, pv, u) ==
  /\ NIL \notin O /\ (\A a \in O : u[a] \in Nat)
  /\ Linked(O, nx, pv) /\ Ordered(O, nx, u)

\* s is taken out.
LEMMA CutList ==
  ASSUME NEW O, NEW nx, NEW pv, NEW u, IsList(O, nx, pv, u), NEW s \in O,
         NEW nx2, NEW pv2,
         \A a \in (O \ {s}) \cup {NIL} : nx2[a] = IF a = pv[s] THEN nx[s] ELSE nx[a],
         \A a \in (O \ {s}) \cup {NIL} : pv2[a] = IF a = nx[s] THEN pv[s] ELSE pv[a]
  PROVE  IsList(O \ {s}, nx2, pv2, u)
<1> DEFINE P == O \ {s}
<1>1. NIL \notin O /\ s # NIL /\ \A a \in O : u[a] \in Nat
  BY DEF IsList
<1>2. /\ nx[s] \in O \cup {NIL} /\ pv[s] \in O \cup {NIL}
      /\ pv[nx[s]] = s /\ nx[pv[s]] = s
  BY DEF IsList, Linked
<1>3. \A a \in O : nx[a] # NIL => u[a] < u[nx[a]]
  BY DEF IsList, Ordered
<1>4. nx[s] # s
  <2>1. SUFFICES ASSUME nx[s] = s PROVE FALSE
    OBVIOUS
  <2>2. u[s] < u[s] /\ u[s] \in Nat
    BY <1>1, <1>3, <2>1
  <2> QED BY <2>2
<1>5. pv[s] # s
  BY <1>2, <1>4
<1>6. Linked(P, nx2, pv2)
  <2> SUFFICES ASSUME NEW a \in P \cup {NIL}
               PROVE  /\ nx2[a] \in P \cup {NIL} /\ pv2[a] \in P \cup {NIL}
                      /\ pv2[nx2[a]] = a /\ nx2[pv2[a]] = a
    BY DEF Linked
  <2>1. /\ nx[a] \in O \cup {NIL} /\ pv[a] \in O \cup {NIL}
        /\ pv[nx[a]] = a /\ nx[pv[a]] = a
    BY DEF IsList, Linked
  <2>2. nx2[a] = (IF a = pv[s] THEN nx[s] ELSE nx[a]) /\ pv2[a] = (IF a = nx[s] THEN pv[s] ELSE pv[a])
    OBVIOUS
  <2>3. a # s
    BY <1>1
  <2>4. nx2[a] \in P \cup {NIL} /\ pv2[nx2[a]] = a
    <3>1. CASE a = pv[s]
      <4>1. nx2[a] = nx[s] /\ nx[s] \in P \cup {NIL}
        BY <1>2, <1>4, <2>2, <3>1
      <4> QED BY <3>1, <4>1
    <3>2. CASE a # pv[s]
      <4>1. nx2[a] = nx[a] /\ nx[a] # s
        BY <2>1, <2>2, <3>2
      <4>2. nx[a] # nx[s]
        BY <1>2, <2>1, <2>3
      <4>3. nx[a] \in P \cup {NIL}
        BY <2>1, <4>1
      <4> QED BY <2>1, <4>1, <4>2, <4>3
    <3> QED BY <3>1, <3>2
  <2>5. pv2[a] \in P \cup {NIL} /\ nx2[pv2[a]] = a
    <3>1. CASE a = nx[s]
      <4>1. pv2[a] = pv[s] /\ pv[s] \in P \cup {NIL}
        BY <1>2, <1>5, <2>2, <3>1
      <4> QED BY <3>1, <4>1
    <3>2. CASE a # nx[s]
      <4>1. pv2[a] = pv[a] /\ pv[a] # s
        BY <2>1, <2>2, <3>2
      <4>2. pv[a] # pv[s]
        BY <1>2, <2>1, <2>3
      <4>3. pv[a] \in P \cup {NIL}
        BY <2>1, <4>1
      <4> QED BY <2>1, <4>1, <4>2, <4>3
    <3> QED BY <3>1, <3>2
  <2> QED BY <2>4, <2>5
<1>7. Ordered(P, nx2, u)
  <2>1. \A a, b \in P : u[a] = u[b] => a = b
    BY DEF IsList, Ordered
  <2>2. ASSUME NEW a \in P, nx2[a] # NIL PROVE u[a] < u[nx2[a]]
    <3>1. CASE a = pv[s]
      <4>1. nx2[a] = nx[s] /\ nx[a] = s /\ nx[s] \in O
        BY <1>2, <2>2, <3>1
      <4>2. u[a] < u[s] /\ u[s] < u[nx[s]]
        BY <1>1, <1>3, <2>2, <4>1
      <4>3. u[a] \in Nat /\ u[s] \in Nat /\ u[nx[s]] \in Nat
        BY <1>1, <4>1
      <4> QED BY <4>1, <4>2, <4>3
    <3>2. CASE a # pv[s]
      <4>1. nx2[a] = nx[a]
        BY <3>2
      <4> QED BY <1>3, <2>2, <4>1
    <3> QED BY <3>1, <3>2
  <2>3. ASSUME NEW a \in P \cup {NIL}, NEW r \in P, a = NIL \/ u[a] < u[r]
        PROVE  nx2[a] # NIL /\ u[nx2[a]] <= u[r]
    <3>1. nx[a] # NIL /\ u[nx[a]] <= u[r]
      BY <2>3 DEF IsList, Ordered
    <3>2. CASE a = pv[s]
      <4>1. nx[a] = s /\ u[s] <= u[r] /\ r # s
        BY <1>2, <3>1, <3>2
      <4>2. u[s] # u[r]
        BY <4>1 DEF IsList, Ordered
      <4>3. u[s] < u[r]
        BY <1>1, <4>1, <4>2
      <4>4. nx[s] # NIL /\ u[nx[s]] <= u[r]
        BY <4>3 DEF IsList, Ordered
      <4> QED BY <3>2, <4>4
    <3>3. CASE a # pv[s]
      BY <3>1, <3>3
    <3> QED BY <3>2, <3>3
  <2> QED BY <2>1, <2>2, <2>3 DEF Ordered
<1> QED BY <1>1, <1>6, <1>7 DEF IsList

\* s, used last, is put at the end.
LEMMA PutList ==
  ASSUME NEW O, NEW nx, NEW pv, NEW u, IsList(O, nx, pv, u), NEW s, s \notin O, s # NIL,
         NEW nx2, NEW pv2, NEW u2,
         \A a \in O \cup {s, NIL} :
           nx2[a] = IF a = s THEN NIL ELSE IF a = pv[NIL] THEN s ELSE nx[a],
         \A a \in O \cup {s, NIL} :
           pv2[a] = IF a = NIL THEN s ELSE IF a = s THEN pv[NIL] ELSE pv[a],
         u2[s] \in Nat, \A a \in O : u2[a] = u[a] /\ u[a] < u2[s]
  PROVE  IsList(O \cup {s}, nx2, pv2, u2)
<1> DEFINE P == O \cup {s}
<1>1. NIL \notin O /\ \A a \in O : u[a] \in Nat
  BY DEF IsList
<1>2. pv[NIL] \in O \cup {NIL} /\ nx[pv[NIL]] = NIL
  BY DEF IsList, Linked
<1>3. Linked(P, nx2, pv2)
  <2> SUFFICES ASSUME NEW a \in P \cup {NIL}
               PROVE  /\ nx2[a] \in P \cup {NIL} /\ pv2[a] \in P \cup {NIL}
                      /\ pv2[nx2[a]] = a /\ nx2[pv2[a]] = a
    BY DEF Linked
  <2>1. CASE a = s
    <3>1. nx2[a] = NIL /\ pv2[a] = pv[NIL]
      BY <2>1
    <3>2. pv2[NIL] = s /\ nx2[pv[NIL]] = s
      BY <1>2
    <3> QED BY <1>2, <2>1, <3>1, <3>2
  <2>2. CASE a # s
    <3>1. a \in O \cup {NIL}
      BY <2>2
    <3>2. /\ nx[a] \in O \cup {NIL} /\ pv[a] \in O \cup {NIL}
          /\ pv[nx[a]] = a /\ nx[pv[a]] = a
      BY <3>1 DEF IsList, Linked
    <3>3. nx2[a] \in P \cup {NIL} /\ pv2[nx2[a]] = a
      <4>1. CASE a = pv[NIL]
        <5>1. nx2[a] = s
          BY <2>2, <4>1
        <5>2. pv2[s] = pv[NIL]
          OBVIOUS
        <5> QED BY <4>1, <5>1, <5>2
      <4>2. CASE a # pv[NIL]
        <5>1. nx2[a] = nx[a] /\ nx[a] # NIL
          BY <2>2, <3>2, <4>2
        <5>2. nx[a] \in O /\ pv2[nx[a]] = pv[nx[a]]
          BY <3>2, <5>1
        <5> QED BY <3>2, <5>1, <5>2
      <4> QED BY <4>1, <4>2
    <3>4. pv2[a] \in P \cup {NIL} /\ nx2[pv2[a]] = a
      <4>1. CASE a = NIL
        BY <4>1
      <4>2. CASE a # NIL
        <5>1. pv2[a] = pv[a] /\ pv[a] # s
          BY <2>2, <3>2, <4>2
        <5>2. pv[a] # pv[NIL]
          BY <1>2, <3>2, <4>2
        <5>3. nx2[pv[a]] = nx[pv[a]]
          BY <3>2, <5>1, <5>2
        <5> QED BY <3>2, <5>1, <5>3
      <4> QED BY <4>1, <4>2
    <3> QED BY <3>3, <3>4
  <2> QED BY <2>1, <2>2
<1>4. Ordered(P, nx2, u2)
  <2>1. ASSUME NEW a \in P, NEW b \in P, u2[a] = u2[b] PROVE a = b
    <3>1. CASE a = s \/ b = s
      <4>1. \A c \in O : u2[c] # u2[s]
        BY <1>1
      <4> QED BY <2>1, <3>1, <4>1
    <3>2. CASE a \in O /\ b \in O
      BY <2>1, <3>2 DEF IsList, Ordered
    <3> QED BY <3>1, <3>2
  <2>2. ASSUME NEW a \in P, nx2[a] # NIL PROVE u2[a] < u2[nx2[a]]
    <3>1. a # s /\ a \in O
      BY <2>2
    <3>2. CASE a = pv[NIL]
      BY <3>1, <3>2
    <3>3. CASE a # pv[NIL]
      <4>1. nx2[a] = nx[a]
        BY <3>1, <3>3
      <4>2. nx[a] \in O /\ u[a] < u[nx[a]]
        BY <2>2, <3>1, <4>1 DEF IsList, Linked, Ordered
      <4> QED BY <3>1, <4>1, <4>2
    <3> QED BY <3>2, <3>3
  <2>3. ASSUME NEW a \in P \cup {NIL}, NEW r \in P, a = NIL \/ u2[a] < u2[r]
        PROVE  nx2[a] # NIL /\ u2[nx2[a]] <= u2[r]
    <3>1. a # s
      <4> SUFFICES ASSUME a = s PROVE FALSE
        OBVIOUS
      <4>1. u2[s] < u2[r]
        BY <2>3
      <4>2. CASE r = s
        BY <4>1, <4>2
      <4>3. CASE r \in O
        BY <1>1, <4>1, <4>3
      <4> QED BY <4>2, <4>3
    <3>2. CASE a = pv[NIL]
      <4>1. nx2[a] = s /\ nx[a] = NIL
        BY <1>2, <3>1, <3>2
      <4>2. r \notin O
        <5> SUFFICES ASSUME r \in O PROVE FALSE
          OBVIOUS
        <5>1. a = NIL \/ u[a] < u[r]
          BY <2>3, <3>1
        <5> QED BY <3>1, <4>1, <5>1 DEF IsList, Ordered
      <4> QED BY <4>1, <4>2
    <3>3. CASE a # pv[NIL]
      <4>1. a \in O \cup {NIL} /\ nx2[a] = nx[a]
        BY <3>1, <3>3
      <4>2. nx[a] \in O
        <5>1. nx[a] \in O \cup {NIL} /\ pv[nx[a]] = a
          BY <4>1 DEF IsList, Linked
        <5> QED BY <3>3, <5>1
      <4>3. CASE r = s
        <5>1. u2[nx[a]] < u2[s] /\ u2[nx[a]] \in Nat
          BY <1>1, <4>2
        <5> QED BY <1>1, <4>1, <4>2, <4>3, <5>1
      <4>4. CASE r \in O
        <5>1. a = NIL \/ u[a] < u[r]
          BY <2>3, <3>1, <4>4
        <5>2. nx[a] # NIL /\ u[nx[a]] <= u[r]
          BY <4>1, <4>4, <5>1 DEF IsList, Ordered
        <5> QED BY <4>1, <4>2, <4>4, <5>2
      <4> QED BY <4>3, <4>4
    <3> QED BY <3>2, <3>3
  <2> QED BY <2>1, <2>2, <2>3 DEF Ordered
<1>5. NIL \notin P /\ \A a \in P : u2[a] \in Nat
  BY <1>1
<1> QED BY <1>3, <1>4, <1>5 DEF IsList

LEMMA SameList ==
  ASSUME NEW O, NEW nx, NEW pv, NEW u, IsList(O, nx, pv, u), NEW nx2, NEW pv2, NEW u2,
         \A a \in O \cup {NIL} : nx2[a] = nx[a] /\ pv2[a] = pv[a],
         \A a \in O : u2[a] = u[a]
  PROVE  IsList(O, nx2, pv2, u2)
<1>1. NIL \notin O /\ \A a \in O : u2[a] \in Nat
  BY DEF IsList
<1>2. Linked(O, nx2, pv2)
  BY DEF IsList, Linked
<1>3. Ordered(O, nx2, u2)
  <2>1. \A a \in O \cup {NIL} : nx[a] \in O \cup {NIL}
    BY DEF IsList, Linked
  <2>2. \A a \in O \cup {NIL} : nx[a] # NIL => nx[a] \in O
    BY <2>1
  <2>3. Ordered(O, nx, u)
    BY DEF IsList
  <2> QED BY <1>1, <2>2, <2>3 DEF Ordered
<1> QED BY <1>1, <1>2, <1>3 DEF IsList

-----------------------------------------------------------------------------
(* The table. *)

Entries(I) ==
  [key : Keys, core : Cores(I), created : Nat, prev : Nat, next : Nat, ticket : Nat,
   scheduled : Moments]
Tables(I) ==
  [index : [Keys -> Nat], slab : Seq(Entries(I) \cup {Vacant}), free : Seq(Nat), head : Nat,
   tail : Nat, heap : SUBSET (Instants \X Nat \X Nat), seq : Nat, tickets : Nat]

Used(t) == {s \in DOMAIN t.slab : t.slab[s] # Vacant}

\* Index and slab name each other's keys and slots, free are the vacant slots, once each.
SlotsOK(t, limit) ==
  /\ \A k \in Keys : t.index[k] # NIL => t.index[k] \in Used(t) /\ t.slab[t.index[k]].key = k
  /\ \A s \in Used(t) : t.index[t.slab[s].key] = s
  /\ \A i, j \in DOMAIN t.free : t.free[i] = t.free[j] => i = j
  /\ \A s \in (DOMAIN t.slab) \ Used(t) : \E i \in DOMAIN t.free : t.free[i] = s
  /\ \A i \in DOMAIN t.free : t.free[i] \in (DOMAIN t.slab) \ Used(t)
  /\ Len(t.slab) <= limit

NextAt(t, a) == IF a = NIL THEN t.head ELSE t.slab[a].next
PrevAt(t, a) == IF a = NIL THEN t.tail ELSE t.slab[a].prev

\* The slots in O are linked in the order of the last use of their keys.
ListOn(t, O, use) ==
  IsList(O, [a \in O \cup {NIL} |-> NextAt(t, a)], [a \in O \cup {NIL} |-> PrevAt(t, a)],
         [a \in O |-> use[t.slab[a].key]])

\* Twice as many entries as keys can be tracked, and the slack.
HeapBound(limit) == 2 * Min({limit, Cardinality(Keys)}) + HeapSlack

\* What is scheduled has an entry, and each entry its own ticket.
HeapOK(t, limit) ==
  /\ IsFiniteSet(t.heap) /\ Cardinality(t.heap) <= HeapBound(limit)
  /\ \A a \in t.heap : a[2] \in 1..t.tickets /\ a[3] \in DOMAIN t.slab
  /\ \A a, b \in t.heap : a[2] = b[2] => a = b
  /\ \A s \in Used(t) :
       /\ t.slab[s].ticket \in 0..t.tickets
       /\ t.slab[s].scheduled # None => <<t.slab[s].scheduled, t.slab[s].ticket, s>> \in t.heap

CreatedOK(t) ==
  /\ \A s \in Used(t) : t.slab[s].created \in 1..t.seq
  /\ \A a, b \in Used(t) : t.slab[a].created = t.slab[b].created => a = b

Sound(t, use, I, limit) ==
  /\ t \in Tables(I) /\ SlotsOK(t, limit) /\ ListOn(t, Used(t), use)
  /\ HeapOK(t, limit) /\ CreatedOK(t)

-----------------------------------------------------------------------------
(* What an operation leaves alone. *)

Alike(t, t2) == Len(t2.slab) = Len(t.slab) /\ Used(t2) = Used(t)
SameKeys(t, t2) ==
  /\ t2.index = t.index /\ t2.free = t.free
  /\ \A s \in Used(t) : t2.slab[s].key = t.slab[s].key
SameLinks(t, t2, O) ==
  /\ t2.head = t.head /\ t2.tail = t.tail
  /\ \A s \in O : /\ t2.slab[s].key = t.slab[s].key
                        /\ t2.slab[s].prev = t.slab[s].prev /\ t2.slab[s].next = t.slab[s].next
SameTimes(t, t2) ==
  /\ t2.heap = t.heap /\ t2.tickets = t.tickets
  /\ \A s \in Used(t) : /\ t2.slab[s].ticket = t.slab[s].ticket
                        /\ t2.slab[s].scheduled = t.slab[s].scheduled
SameOrigins(t, t2) ==
  t2.seq = t.seq /\ \A s \in Used(t) : t2.slab[s].created = t.slab[s].created

LEMMA SlabDomain ==
  ASSUME NEW I, NEW t \in Tables(I)
  PROVE  /\ DOMAIN t.slab = 1..Len(t.slab) /\ Len(t.slab) \in Nat
         /\ \A s \in DOMAIN t.slab : t.slab[s] \in Entries(I) \cup {Vacant} /\ s \in Nat \ {NIL}
         /\ \A s \in Used(t) : t.slab[s] \in Entries(I) /\ s \in DOMAIN t.slab /\ s \in Nat \ {NIL}
<1>1. t.slab \in Seq(Entries(I) \cup {Vacant})
  BY DEF Tables
<1>2. DOMAIN t.slab = 1..Len(t.slab) /\ Len(t.slab) \in Nat
  BY <1>1
<1>3. \A s \in DOMAIN t.slab : t.slab[s] \in Entries(I) \cup {Vacant}
  BY <1>1
<1>4. \A s \in 1..Len(t.slab) : s \in Nat \ {NIL}
  BY <1>2 DEF NIL
<1> QED BY <1>2, <1>3, <1>4 DEF Used

LEMMA EntryNotVacant ==
  ASSUME NEW I, NEW e \in Entries(I)
  PROVE  e # Vacant
<1>1. e.key \in Keys /\ Vacant.key = NIL
  BY DEF Entries, Vacant
<1> QED BY <1>1, KeyedWindowAssumption

LEMMA SameKeysSlotsOK ==
  ASSUME NEW I, NEW t \in Tables(I), NEW t2 \in Tables(I), Alike(t, t2), SameKeys(t, t2),
         NEW limit, SlotsOK(t, limit)
  PROVE  SlotsOK(t2, limit)
<1>1. DOMAIN t2.slab = DOMAIN t.slab /\ Len(t2.slab) = Len(t.slab) /\ Used(t2) = Used(t)
  BY SlabDomain DEF Alike
<1>2. t2.index = t.index /\ t2.free = t.free /\ \A s \in Used(t) : t2.slab[s].key = t.slab[s].key
  BY DEF SameKeys
<1>3. \A k \in Keys : t.index[k] # NIL => t.index[k] \in Used(t) /\ t2.slab[t.index[k]].key = k
  BY <1>2 DEF SlotsOK
<1>4. \A s \in Used(t) : t.index[t2.slab[s].key] = s
  BY <1>2 DEF SlotsOK
<1> QED BY <1>1, <1>2, <1>3, <1>4 DEF SlotsOK

LEMMA SameLinksListOn ==
  ASSUME NEW t, NEW t2, NEW O, SameLinks(t, t2, O), NEW use, ListOn(t, O, use)
  PROVE  ListOn(t2, O, use)
<1> DEFINE nx(x) == [a \in O \cup {NIL} |-> NextAt(x, a)]
           pv(x) == [a \in O \cup {NIL} |-> PrevAt(x, a)]
           u(x) == [a \in O |-> use[x.slab[a].key]]
<1>1. \A a \in O \cup {NIL} : NextAt(t2, a) = NextAt(t, a) /\ PrevAt(t2, a) = PrevAt(t, a)
  BY DEF SameLinks, NextAt, PrevAt
<1>2. \A a \in O : t2.slab[a].key = t.slab[a].key
  BY DEF SameLinks
<1>3. \A a \in O \cup {NIL} : nx(t2)[a] = nx(t)[a] /\ pv(t2)[a] = pv(t)[a]
  BY <1>1
<1>4. \A a \in O : u(t2)[a] = u(t)[a]
  BY <1>2
<1>5. IsList(O, nx(t), pv(t), u(t))
  BY DEF ListOn
<1> HIDE DEF nx, pv, u
<1>6. IsList(O, nx(t2), pv(t2), u(t2))
  BY <1>3, <1>4, <1>5, SameList
<1> QED BY <1>6 DEF ListOn, nx, pv, u

LEMMA SameTimesHeapOK ==
  ASSUME NEW I, NEW t \in Tables(I), NEW t2 \in Tables(I), Alike(t, t2), SameTimes(t, t2),
         NEW limit, HeapOK(t, limit)
  PROVE  HeapOK(t2, limit)
<1>1. DOMAIN t2.slab = DOMAIN t.slab /\ Used(t2) = Used(t)
  BY SlabDomain DEF Alike
<1> QED BY <1>1 DEF SameTimes, HeapOK

LEMMA SameOriginsCreatedOK ==
  ASSUME NEW t, NEW t2, Alike(t, t2), SameOrigins(t, t2), CreatedOK(t)
  PROVE  CreatedOK(t2)
BY DEF Alike, SameOrigins, CreatedOK

-----------------------------------------------------------------------------
(* A slot given another entry. *)

\* t2 is t with the entry e in slot s.
Assigned(t, t2, s, e) == t2 = [t EXCEPT !.slab = [t.slab EXCEPT ![s] = e]]

\* At most slot s was given another entry.
OnlySlot(t, t2, s) ==
  /\ Len(t2.slab) = Len(t.slab) /\ DOMAIN t2.slab = DOMAIN t.slab
  /\ \A x \in (DOMAIN t.slab) \ {s} : t2.slab[x] = t.slab[x]
  /\ t2.index = t.index /\ t2.free = t.free /\ t2.head = t.head /\ t2.tail = t.tail
  /\ t2.heap = t.heap /\ t2.seq = t.seq /\ t2.tickets = t.tickets

LEMMA SlotSet ==
  ASSUME NEW I, NEW t \in Tables(I), NEW s \in DOMAIN t.slab, NEW e \in Entries(I) \cup {Vacant},
         NEW t2, Assigned(t, t2, s, e)
  PROVE  t2 \in Tables(I) /\ t2.slab[s] = e /\ OnlySlot(t, t2, s)
<1> DEFINE slab == [t.slab EXCEPT ![s] = e]
<1>1. t.slab \in Seq(Entries(I) \cup {Vacant})
  BY DEF Tables
<1>2. /\ slab \in Seq(Entries(I) \cup {Vacant}) /\ Len(slab) = Len(t.slab)
      /\ DOMAIN slab = DOMAIN t.slab /\ slab[s] = e
      /\ \A x \in (DOMAIN t.slab) \ {s} : slab[x] = t.slab[x]
  <2> DEFINE sl == t.slab
             Z == Entries(I) \cup {Vacant}
  <2>1. sl \in Seq(Z) /\ s \in DOMAIN sl /\ e \in Z
    BY <1>1
  <2> HIDE DEF sl, Z
  <2>2. /\ [sl EXCEPT ![s] = e] \in Seq(Z) /\ Len([sl EXCEPT ![s] = e]) = Len(sl)
        /\ DOMAIN [sl EXCEPT ![s] = e] = DOMAIN sl /\ [sl EXCEPT ![s] = e][s] = e
        /\ \A x \in (DOMAIN sl) \ {s} : [sl EXCEPT ![s] = e][x] = sl[x]
    BY <2>1
  <2> QED BY <2>2 DEF sl, Z
<1> HIDE DEF slab
<1>3. t2 = [t EXCEPT !.slab = slab]
  BY DEF slab, Assigned
<1>4. /\ t2 \in Tables(I) /\ t2.slab = slab
      /\ t2.index = t.index /\ t2.free = t.free /\ t2.head = t.head /\ t2.tail = t.tail
      /\ t2.heap = t.heap /\ t2.seq = t.seq /\ t2.tickets = t.tickets
  BY <1>2, <1>3 DEF Tables
<1> QED BY <1>2, <1>4 DEF OnlySlot

LEMMA EntrySet ==
  ASSUME NEW I, NEW t \in Tables(I), NEW s \in DOMAIN t.slab, NEW e \in Entries(I),
         NEW t2, Assigned(t, t2, s, e)
  PROVE  Used(t2) = Used(t) \cup {s}
<1>1. e # Vacant
  BY EntryNotVacant
<1>2. /\ DOMAIN t2.slab = DOMAIN t.slab /\ t2.slab[s] = e
      /\ \A x \in (DOMAIN t.slab) \ {s} : t2.slab[x] = t.slab[x]
  BY SlotSet DEF OnlySlot
<1> QED BY <1>1, <1>2 DEF Used

\* t2 is t with another core in slot s.
CoreAssigned(t, t2, s, core) == t2 = [t EXCEPT !.slab[s].core = core]

\* The cores of the other slots are as before.
SameCores(t, t2, s) == \A x \in Used(t) \ {s} : t2.slab[x].core = t.slab[x].core

LEMMA CoreSet ==
  ASSUME NEW I, NEW t \in Tables(I), NEW s \in Used(t), NEW core \in Cores(I), NEW use, NEW limit,
         NEW t2, CoreAssigned(t, t2, s, core), Sound(t, use, I, limit)
  PROVE  /\ Sound(t2, use, I, limit) /\ Used(t2) = Used(t) /\ SameKeys(t, t2) /\ SameTimes(t, t2)
         /\ t2.slab[s].core = core
         /\ SameCores(t, t2, s)
<1> DEFINE e == [t.slab[s] EXCEPT !.core = core]
<1>1. s \in DOMAIN t.slab /\ t.slab[s] \in Entries(I)
  BY SlabDomain
<1>2. /\ e \in Entries(I) /\ e.key = t.slab[s].key /\ e.prev = t.slab[s].prev
      /\ e.next = t.slab[s].next /\ e.ticket = t.slab[s].ticket
      /\ e.scheduled = t.slab[s].scheduled /\ e.created = t.slab[s].created /\ e.core = core
  BY <1>1 DEF Entries
<1>3. Assigned(t, t2, s, e)
  BY DEF Assigned, CoreAssigned
<1> HIDE DEF e
<1>4. /\ t2 \in Tables(I) /\ Len(t2.slab) = Len(t.slab) /\ DOMAIN t2.slab = DOMAIN t.slab
      /\ t2.slab[s] = e /\ \A x \in (DOMAIN t.slab) \ {s} : t2.slab[x] = t.slab[x]
      /\ t2.index = t.index /\ t2.free = t.free /\ t2.head = t.head /\ t2.tail = t.tail
      /\ t2.heap = t.heap /\ t2.seq = t.seq /\ t2.tickets = t.tickets
  <2>1. e \in Entries(I) \cup {Vacant}
    BY <1>2
  <2>2. t2 \in Tables(I) /\ t2.slab[s] = e /\ OnlySlot(t, t2, s)
    BY <1>1, <1>3, <2>1, SlotSet
  <2> QED BY <2>2 DEF OnlySlot
<1>5. Used(t2) = Used(t)
  BY <1>1, <1>2, <1>3, EntrySet
<1>6. \A x \in Used(t) : x \in DOMAIN t.slab
  BY DEF Used
<1>7. \A x \in Used(t) :
        /\ t2.slab[x].key = t.slab[x].key /\ t2.slab[x].prev = t.slab[x].prev
        /\ t2.slab[x].next = t.slab[x].next /\ t2.slab[x].ticket = t.slab[x].ticket
        /\ t2.slab[x].scheduled = t.slab[x].scheduled /\ t2.slab[x].created = t.slab[x].created
  BY <1>2, <1>4, <1>6
<1>8. Alike(t, t2) /\ SameKeys(t, t2) /\ SameLinks(t, t2, Used(t)) /\ SameTimes(t, t2) /\ SameOrigins(t, t2)
  BY <1>4, <1>5, <1>7 DEF Alike, SameKeys, SameLinks, SameTimes, SameOrigins
<1>9. SlotsOK(t2, limit) /\ HeapOK(t2, limit) /\ CreatedOK(t2)
  BY <1>4, <1>8, SameKeysSlotsOK, SameTimesHeapOK, SameOriginsCreatedOK DEF Sound
<1>10. ListOn(t2, Used(t), use)
  <2>1. ListOn(t, Used(t), use)
    BY DEF Sound
  <2> QED BY <1>8, <2>1, SameLinksListOn
<1>11. SameCores(t, t2, s)
  BY <1>4, <1>6 DEF SameCores
<1> QED BY <1>2, <1>4, <1>5, <1>8, <1>9, <1>10, <1>11 DEF Sound

\* The last one is used again.
LEMMA LastList ==
  ASSUME NEW O, NEW nx, NEW pv, NEW u, IsList(O, nx, pv, u), NEW s \in O, s = pv[NIL],
         NEW u2, u2[s] \in Nat, \A a \in O \ {s} : u2[a] = u[a] /\ u[a] < u2[s]
  PROVE  IsList(O, nx, pv, u2)
<1> DEFINE P == O \ {s}
           nx1 == [a \in P \cup {NIL} |-> IF a = pv[s] THEN nx[s] ELSE nx[a]]
           pv1 == [a \in P \cup {NIL} |-> IF a = nx[s] THEN pv[s] ELSE pv[a]]
<1>1. NIL \notin O /\ s # NIL /\ O = P \cup {s}
  BY DEF IsList
<1>2. /\ nx[s] = NIL /\ pv[s] \in O \cup {NIL} /\ nx[pv[s]] = s
      /\ \A a \in O \cup {NIL} : pv[nx[a]] = a /\ nx[pv[a]] = a
  BY DEF IsList, Linked
<1>3. IsList(P, nx1, pv1, u)
  <2>1. \A a \in P \cup {NIL} : /\ nx1[a] = IF a = pv[s] THEN nx[s] ELSE nx[a]
                                /\ pv1[a] = IF a = nx[s] THEN pv[s] ELSE pv[a]
    OBVIOUS
  <2> HIDE DEF nx1, pv1
  <2> QED BY <2>1, CutList
<1>4. pv[s] # s
  BY <1>1, <1>2
<1>5. pv1[NIL] = pv[s]
  BY <1>2
<1>6. \A a \in P \cup {s, NIL} :
        nx[a] = IF a = s THEN NIL ELSE IF a = pv1[NIL] THEN s ELSE nx1[a]
  <2> TAKE a \in P \cup {s, NIL}
  <2>1. CASE a = s
    BY <1>2, <2>1
  <2>2. CASE a # s /\ a = pv[s]
    BY <1>2, <1>5, <2>2
  <2>3. CASE a # s /\ a # pv[s]
    <3>1. a \in P \cup {NIL} /\ nx1[a] = nx[a]
      BY <2>3
    <3> HIDE DEF nx1
    <3> QED BY <1>5, <2>3, <3>1
  <2> QED BY <2>1, <2>2, <2>3
<1>7. \A a \in P \cup {s, NIL} :
        pv[a] = IF a = NIL THEN s ELSE IF a = s THEN pv1[NIL] ELSE pv1[a]
  <2> TAKE a \in P \cup {s, NIL}
  <2>1. CASE a = NIL
    BY <2>1
  <2>2. CASE a = s
    BY <1>1, <1>5, <2>2
  <2>3. CASE a # NIL /\ a # s
    <3>1. a \in P \cup {NIL} /\ pv1[a] = pv[a]
      BY <1>2, <2>3
    <3> HIDE DEF pv1
    <3> QED BY <2>3, <3>1
  <2> QED BY <2>1, <2>2, <2>3
<1> HIDE DEF nx1, pv1
<1>8. s \notin P /\ \A a \in P : u2[a] = u[a] /\ u[a] < u2[s]
  OBVIOUS
<1>9. IsList(P \cup {s}, nx, pv, u2)
  <2> HIDE DEF P
  <2> QED BY <1>1, <1>3, <1>6, <1>7, <1>8, PutList
<1> QED BY <1>1, <1>9

-----------------------------------------------------------------------------
(* The list of the table. *)

\* Only links were changed.
Relinked(t, t2) ==
  /\ Alike(t, t2) /\ SameKeys(t, t2) /\ SameTimes(t, t2) /\ SameOrigins(t, t2)
  /\ \A s \in Used(t) : t2.slab[s].core = t.slab[s].core

LEMMA RelinkedTwice ==
  ASSUME NEW t, NEW t2, NEW t3, Relinked(t, t2), Relinked(t2, t3)
  PROVE  Relinked(t, t3)
BY DEF Relinked, Alike, SameKeys, SameTimes, SameOrigins

\* After a comes n, and nothing else has changed; before a comes n, likewise.
NextMoved(t, t2, a, n) ==
  \A x \in Used(t) \cup {NIL} : /\ NextAt(t2, x) = IF x = a THEN n ELSE NextAt(t, x)
                                /\ PrevAt(t2, x) = PrevAt(t, x)
PrevMoved(t, t2, a, n) ==
  \A x \in Used(t) \cup {NIL} : /\ PrevAt(t2, x) = IF x = a THEN n ELSE PrevAt(t, x)
                                /\ NextAt(t2, x) = NextAt(t, x)

LEMMA SetNextMoves ==
  ASSUME NEW I, NEW t \in Tables(I), NEW a \in Used(t) \cup {NIL}, NEW n \in Nat
  PROVE  /\ SetNext(t, a, n) \in Tables(I) /\ Relinked(t, SetNext(t, a, n))
         /\ NextMoved(t, SetNext(t, a, n), a, n)
<1> DEFINE t2 == SetNext(t, a, n)
<1>1. NIL \notin Used(t) /\ \A x \in Used(t) : x \in DOMAIN t.slab /\ t.slab[x] \in Entries(I)
  BY SlabDomain
<1>2. CASE a = NIL
  <2>1. ~Occupied(t, a)
    BY <1>1, <1>2 DEF Occupied, Used
  <2>2. t2 = [t EXCEPT !.head = n]
    BY <2>1 DEF SetNext
  <2>3. /\ t2 \in Tables(I) /\ t2.slab = t.slab /\ t2.head = n
        /\ t2.index = t.index /\ t2.free = t.free /\ t2.tail = t.tail
        /\ t2.heap = t.heap /\ t2.seq = t.seq /\ t2.tickets = t.tickets
    BY <2>2 DEF Tables
  <2> HIDE DEF t2
  <2>4. Used(t2) = Used(t)
    BY <2>3 DEF Used
  <2>5. Relinked(t, t2)
    BY <2>3, <2>4 DEF Relinked, Alike, SameKeys, SameTimes, SameOrigins
  <2>6. NextMoved(t, t2, a, n)
    BY <1>1, <1>2, <2>3 DEF NextMoved, NextAt, PrevAt
  <2> QED BY <2>3, <2>5, <2>6 DEF t2
<1>3. CASE a \in Used(t)
  <2> DEFINE e == [t.slab[a] EXCEPT !.next = n]
  <2>1. Occupied(t, a)
    BY <1>3 DEF Occupied, Used
  <2>2. /\ e \in Entries(I) /\ e.key = t.slab[a].key /\ e.prev = t.slab[a].prev
        /\ e.next = n /\ e.ticket = t.slab[a].ticket /\ e.core = t.slab[a].core
        /\ e.scheduled = t.slab[a].scheduled /\ e.created = t.slab[a].created
    BY <1>1, <1>3 DEF Entries
  <2>3. Assigned(t, t2, a, e)
    BY <2>1 DEF SetNext, Assigned
  <2> HIDE DEF e, t2
  <2>4. t2 \in Tables(I) /\ t2.slab[a] = e /\ OnlySlot(t, t2, a)
    <3>1. a \in DOMAIN t.slab /\ e \in Entries(I) \cup {Vacant}
      BY <1>1, <1>3, <2>2
    <3> QED BY <2>3, <3>1, SlotSet
  <2>5. Used(t2) = Used(t)
    <3>1. a \in DOMAIN t.slab
      BY <1>1, <1>3
    <3>2. Used(t2) = Used(t) \cup {a}
      BY <2>2, <2>3, <3>1, EntrySet
    <3> QED BY <1>3, <3>2
  <2>6. \A x \in Used(t) :
          /\ t2.slab[x].key = t.slab[x].key /\ t2.slab[x].prev = t.slab[x].prev
          /\ t2.slab[x].next = (IF x = a THEN n ELSE t.slab[x].next)
          /\ t2.slab[x].ticket = t.slab[x].ticket /\ t2.slab[x].core = t.slab[x].core
          /\ t2.slab[x].scheduled = t.slab[x].scheduled /\ t2.slab[x].created = t.slab[x].created
    <3> TAKE x \in Used(t)
    <3>1. CASE x = a
      BY <2>2, <2>4, <3>1
    <3>2. CASE x # a
      <4>1. t2.slab[x] = t.slab[x]
        BY <1>1, <2>4, <3>2 DEF OnlySlot
      <4> QED BY <3>2, <4>1
    <3> QED BY <3>1, <3>2
  <2>7. Relinked(t, t2)
    BY <2>4, <2>5, <2>6 DEF Relinked, Alike, SameKeys, SameTimes, SameOrigins, OnlySlot
  <2>8. NextMoved(t, t2, a, n)
    <3>1. t2.head = t.head /\ t2.tail = t.tail /\ a # NIL
      BY <1>1, <1>3, <2>4 DEF OnlySlot
    <3> QED BY <1>1, <2>6, <3>1 DEF NextMoved, NextAt, PrevAt
  <2> QED BY <2>4, <2>7, <2>8 DEF t2
<1> QED BY <1>2, <1>3

LEMMA SetPrevMoves ==
  ASSUME NEW I, NEW t \in Tables(I), NEW a \in Used(t) \cup {NIL}, NEW n \in Nat
  PROVE  /\ SetPrev(t, a, n) \in Tables(I) /\ Relinked(t, SetPrev(t, a, n))
         /\ PrevMoved(t, SetPrev(t, a, n), a, n)
<1> DEFINE t2 == SetPrev(t, a, n)
<1>1. NIL \notin Used(t) /\ \A x \in Used(t) : x \in DOMAIN t.slab /\ t.slab[x] \in Entries(I)
  BY SlabDomain
<1>2. CASE a = NIL
  <2>1. ~Occupied(t, a)
    BY <1>1, <1>2 DEF Occupied, Used
  <2>2. t2 = [t EXCEPT !.tail = n]
    BY <2>1 DEF SetPrev
  <2>3. /\ t2 \in Tables(I) /\ t2.slab = t.slab /\ t2.tail = n
        /\ t2.index = t.index /\ t2.free = t.free /\ t2.head = t.head
        /\ t2.heap = t.heap /\ t2.seq = t.seq /\ t2.tickets = t.tickets
    BY <2>2 DEF Tables
  <2> HIDE DEF t2
  <2>4. Used(t2) = Used(t)
    BY <2>3 DEF Used
  <2>5. Relinked(t, t2)
    BY <2>3, <2>4 DEF Relinked, Alike, SameKeys, SameTimes, SameOrigins
  <2>6. PrevMoved(t, t2, a, n)
    BY <1>1, <1>2, <2>3 DEF PrevMoved, NextAt, PrevAt
  <2> QED BY <2>3, <2>5, <2>6 DEF t2
<1>3. CASE a \in Used(t)
  <2> DEFINE e == [t.slab[a] EXCEPT !.prev = n]
  <2>1. Occupied(t, a)
    BY <1>3 DEF Occupied, Used
  <2>2. /\ e \in Entries(I) /\ e.key = t.slab[a].key /\ e.prev = n
        /\ e.next = t.slab[a].next /\ e.ticket = t.slab[a].ticket /\ e.core = t.slab[a].core
        /\ e.scheduled = t.slab[a].scheduled /\ e.created = t.slab[a].created
    BY <1>1, <1>3 DEF Entries
  <2>3. Assigned(t, t2, a, e)
    BY <2>1 DEF SetPrev, Assigned
  <2> HIDE DEF e, t2
  <2>4. t2 \in Tables(I) /\ t2.slab[a] = e /\ OnlySlot(t, t2, a)
    <3>1. a \in DOMAIN t.slab /\ e \in Entries(I) \cup {Vacant}
      BY <1>1, <1>3, <2>2
    <3> QED BY <2>3, <3>1, SlotSet
  <2>5. Used(t2) = Used(t)
    <3>1. a \in DOMAIN t.slab
      BY <1>1, <1>3
    <3>2. Used(t2) = Used(t) \cup {a}
      BY <2>2, <2>3, <3>1, EntrySet
    <3> QED BY <1>3, <3>2
  <2>6. \A x \in Used(t) :
          /\ t2.slab[x].key = t.slab[x].key /\ t2.slab[x].next = t.slab[x].next
          /\ t2.slab[x].prev = (IF x = a THEN n ELSE t.slab[x].prev)
          /\ t2.slab[x].ticket = t.slab[x].ticket /\ t2.slab[x].core = t.slab[x].core
          /\ t2.slab[x].scheduled = t.slab[x].scheduled /\ t2.slab[x].created = t.slab[x].created
    <3> TAKE x \in Used(t)
    <3>1. CASE x = a
      BY <2>2, <2>4, <3>1
    <3>2. CASE x # a
      <4>1. t2.slab[x] = t.slab[x]
        BY <1>1, <2>4, <3>2 DEF OnlySlot
      <4> QED BY <3>2, <4>1
    <3> QED BY <3>1, <3>2
  <2>7. Relinked(t, t2)
    BY <2>4, <2>5, <2>6 DEF Relinked, Alike, SameKeys, SameTimes, SameOrigins, OnlySlot
  <2>8. PrevMoved(t, t2, a, n)
    <3>1. t2.head = t.head /\ t2.tail = t.tail /\ a # NIL
      BY <1>1, <1>3, <2>4 DEF OnlySlot
    <3> QED BY <1>1, <2>6, <3>1 DEF PrevMoved, NextAt, PrevAt
  <2> QED BY <2>4, <2>7, <2>8 DEF t2
<1> QED BY <1>2, <1>3

LEMMA UnlinkCuts ==
  ASSUME NEW I, NEW t \in Tables(I), NEW s \in Used(t), NEW use, ListOn(t, Used(t), use)
  PROVE  /\ Unlink(t, s) \in Tables(I) /\ Relinked(t, Unlink(t, s))
         /\ ListOn(Unlink(t, s), Used(t) \ {s}, use)
<1> DEFINE O == Used(t)
           p == t.slab[s].prev
           n == t.slab[s].next
           t1 == SetNext(t, p, n)
           t2 == SetPrev(t1, n, p)
           nx == [a \in O \cup {NIL} |-> NextAt(t, a)]
           pv == [a \in O \cup {NIL} |-> PrevAt(t, a)]
           u == [a \in O |-> use[t.slab[a].key]]
           nx2 == [a \in (O \ {s}) \cup {NIL} |-> NextAt(t2, a)]
           pv2 == [a \in (O \ {s}) \cup {NIL} |-> PrevAt(t2, a)]
           u2 == [a \in O \ {s} |-> use[t2.slab[a].key]]
<1>1. IsList(O, nx, pv, u)
  BY DEF ListOn
<1>2. nx[s] = n /\ pv[s] = p
  <2>1. s # NIL
    BY SlabDomain
  <2> QED BY <2>1 DEF NextAt, PrevAt
<1>3. n \in O \cup {NIL} /\ p \in O \cup {NIL}
  <2>1. nx[s] \in O \cup {NIL} /\ pv[s] \in O \cup {NIL}
    <3> HIDE DEF nx, pv, u
    <3> QED BY <1>1 DEF IsList, Linked
  <2> HIDE DEF nx, pv, n, p
  <2> QED BY <1>2, <2>1
<1>4. n \in Nat /\ p \in Nat
  <2>1. \A a \in O : a \in Nat
    BY SlabDomain
  <2>2. NIL \in Nat
    BY DEF NIL
  <2> HIDE DEF n, p, O
  <2> QED BY <1>3, <2>1, <2>2
<1>5. Unlink(t, s) = t2
  BY DEF Unlink
<1> HIDE DEF n, p
<1>6. t1 \in Tables(I) /\ Relinked(t, t1) /\ NextMoved(t, t1, p, n)
  BY <1>3, <1>4, SetNextMoves
<1> HIDE DEF t1
<1>7. t2 \in Tables(I) /\ Relinked(t1, t2) /\ PrevMoved(t1, t2, n, p)
  <2>1. n \in Used(t1) \cup {NIL}
    BY <1>3, <1>6 DEF Relinked, Alike
  <2> QED BY <1>4, <1>6, <2>1, SetPrevMoves
<1> HIDE DEF t2
<1>8. Relinked(t, t2)
  BY <1>6, <1>7, RelinkedTwice
<1>9. \A x \in O \cup {NIL} :
        /\ NextAt(t2, x) = IF x = p THEN n ELSE NextAt(t, x)
        /\ PrevAt(t2, x) = IF x = n THEN p ELSE PrevAt(t, x)
  <2>1. Used(t1) = O
    BY <1>6 DEF Relinked, Alike
  <2> QED BY <1>6, <1>7, <2>1 DEF NextMoved, PrevMoved
<1>10. \A a \in (O \ {s}) \cup {NIL} : nx2[a] = IF a = pv[s] THEN nx[s] ELSE nx[a]
  BY <1>2, <1>9
<1>11. \A a \in (O \ {s}) \cup {NIL} : pv2[a] = IF a = nx[s] THEN pv[s] ELSE pv[a]
  BY <1>2, <1>9
<1>12. \A a \in O \ {s} : u2[a] = u[a]
  BY <1>8 DEF Relinked, SameKeys
<1>13. IsList(O \ {s}, nx2, pv2, u2)
  <2> HIDE DEF nx, pv, nx2, pv2, u, u2
  <2>1. IsList(O \ {s}, nx2, pv2, u)
    BY <1>1, <1>10, <1>11, CutList
  <2> QED BY <1>12, <2>1, SameList
<1>14. ListOn(t2, O \ {s}, use)
  BY <1>13 DEF ListOn
<1> QED BY <1>5, <1>7, <1>8, <1>14

\* The keys other than that of slot s were last used when they were before, and earlier.
UsedLast(t, s, use, use2) ==
  /\ use2[t.slab[s].key] \in Nat
  /\ \A a \in Used(t) \ {s} : /\ use2[t.slab[a].key] = use[t.slab[a].key]
                              /\ use[t.slab[a].key] < use2[t.slab[s].key]

LEMMA PushBackPuts ==
  ASSUME NEW I, NEW t \in Tables(I), NEW s \in Used(t), NEW use, NEW use2,
         ListOn(t, Used(t) \ {s}, use), UsedLast(t, s, use, use2)
  PROVE  /\ PushBack(t, s) \in Tables(I) /\ Relinked(t, PushBack(t, s))
         /\ ListOn(PushBack(t, s), Used(t), use2)
<1> DEFINE O == Used(t) \ {s}
           tail == t.tail
           t1 == SetPrev(t, s, tail)
           t2 == SetNext(t1, s, NIL)
           t3 == SetNext(t2, tail, s)
           t4 == SetPrev(t3, NIL, s)
           nx == [a \in O \cup {NIL} |-> NextAt(t, a)]
           pv == [a \in O \cup {NIL} |-> PrevAt(t, a)]
           u == [a \in O |-> use[t.slab[a].key]]
           nx2 == [a \in Used(t) \cup {NIL} |-> NextAt(t4, a)]
           pv2 == [a \in Used(t) \cup {NIL} |-> PrevAt(t4, a)]
           u2 == [a \in Used(t) |-> use2[t4.slab[a].key]]
<1>1. IsList(O, nx, pv, u)
  BY DEF ListOn
<1>2. s \notin O /\ s # NIL /\ s \in Nat /\ NIL \in Nat /\ NIL \notin Used(t) /\ s \in DOMAIN t.slab
  BY SlabDomain DEF NIL
<1>3. pv[NIL] = tail
  BY DEF PrevAt
<1>4. tail \in O \cup {NIL}
  <2>1. pv[NIL] \in O \cup {NIL}
    <3> HIDE DEF nx, pv, u
    <3> QED BY <1>1 DEF IsList, Linked
  <2> HIDE DEF pv, tail
  <2> QED BY <1>3, <2>1
<1>5. tail \in Nat
  BY DEF Tables
<1>6. PushBack(t, s) = t4
  <2>1. Occupied(t, s)
    BY <1>2 DEF Occupied, Used
  <2>2. t1 = [t EXCEPT !.slab[s].prev = tail]
    BY <2>1 DEF SetPrev
  <2>3. t1 \in Tables(I) /\ Relinked(t, t1)
    BY <1>5, SetPrevMoves
  <2>4. s \in Used(t1)
    BY <2>3 DEF Relinked, Alike
  <2>5. Occupied(t1, s)
    <3> HIDE DEF t1
    <3> QED BY <2>4 DEF Occupied, Used
  <2>6. t2 = [t1 EXCEPT !.slab[s].next = NIL]
    <3> HIDE DEF t1
    <3> QED BY <2>5 DEF SetNext
  <2>7. t2 = [t EXCEPT !.slab[s].prev = t.tail, !.slab[s].next = NIL]
    <3> HIDE DEF t2
    <3> QED BY <2>2, <2>6
  <2>8. ~Occupied(t3, NIL)
    <3>1. t2 \in Tables(I)
      <4>1. s \in Used(t1) \cup {NIL}
        BY <2>4
      <4> HIDE DEF t1
      <4> QED BY <1>2, <2>3, <4>1, SetNextMoves
    <3>2. Used(t2) = Used(t)
      <4>1. s \in Used(t1) \cup {NIL}
        BY <2>4
      <4> HIDE DEF t1
      <4>2. Relinked(t1, t2)
        BY <1>2, <2>3, <4>1, SetNextMoves
      <4> QED BY <2>3, <4>2 DEF Relinked, Alike
    <3>3. tail \in Used(t2) \cup {NIL}
      BY <1>4, <3>2
    <3>4. t3 \in Tables(I)
      <4> HIDE DEF t2
      <4> QED BY <1>2, <3>1, <3>3, SetNextMoves
    <3> HIDE DEF t3
    <3> QED BY <3>4, SlabDomain DEF Occupied
  <2>9. t4 = [t3 EXCEPT !.tail = s]
    <3> HIDE DEF t3
    <3> QED BY <2>8 DEF SetPrev
  <2>10. PushBack(t, s) = [SetNext([t EXCEPT !.slab[s].prev = t.tail, !.slab[s].next = NIL], t.tail, s)
                              EXCEPT !.tail = s]
    BY DEF PushBack
  <2> HIDE DEF t4
  <2>11. t3 = SetNext([t EXCEPT !.slab[s].prev = t.tail, !.slab[s].next = NIL], t.tail, s)
    <3> HIDE DEF t2
    <3> QED BY <2>7
  <2> HIDE DEF t3
  <2> QED BY <2>9, <2>10, <2>11
<1> HIDE DEF tail
<1>7. t1 \in Tables(I) /\ Relinked(t, t1) /\ PrevMoved(t, t1, s, tail)
  BY <1>5, SetPrevMoves
<1> HIDE DEF t1
<1>8. Used(t1) = Used(t)
  BY <1>7 DEF Relinked, Alike
<1>9. t2 \in Tables(I) /\ Relinked(t1, t2) /\ NextMoved(t1, t2, s, NIL)
  <2>1. s \in Used(t1) \cup {NIL}
    BY <1>8
  <2> QED BY <1>2, <1>7, <2>1, SetNextMoves
<1> HIDE DEF t2
<1>10. Used(t2) = Used(t)
  BY <1>8, <1>9 DEF Relinked, Alike
<1>11. t3 \in Tables(I) /\ Relinked(t2, t3) /\ NextMoved(t2, t3, tail, s)
  <2>1. tail \in Used(t2) \cup {NIL}
    BY <1>4, <1>10
  <2> QED BY <1>2, <1>9, <2>1, SetNextMoves
<1> HIDE DEF t3
<1>12. Used(t3) = Used(t)
  BY <1>10, <1>11 DEF Relinked, Alike
<1>13. t4 \in Tables(I) /\ Relinked(t3, t4) /\ PrevMoved(t3, t4, NIL, s)
  <2>1. NIL \in Used(t3) \cup {NIL}
    OBVIOUS
  <2> QED BY <1>2, <1>11, <2>1, SetPrevMoves
<1> HIDE DEF t4
<1>14. Relinked(t, t4)
  BY <1>7, <1>9, <1>11, <1>13, RelinkedTwice
<1>15. \A x \in Used(t) \cup {NIL} :
         /\ NextAt(t4, x) = IF x = tail THEN s ELSE IF x = s THEN NIL ELSE NextAt(t, x)
         /\ PrevAt(t4, x) = IF x = NIL THEN s ELSE IF x = s THEN tail ELSE PrevAt(t, x)
  <2> TAKE x \in Used(t) \cup {NIL}
  <2>1. NextAt(t1, x) = NextAt(t, x) /\ PrevAt(t1, x) = IF x = s THEN tail ELSE PrevAt(t, x)
    BY <1>7 DEF PrevMoved
  <2>2. NextAt(t2, x) = (IF x = s THEN NIL ELSE NextAt(t1, x)) /\ PrevAt(t2, x) = PrevAt(t1, x)
    BY <1>8, <1>9 DEF NextMoved
  <2>3. NextAt(t3, x) = (IF x = tail THEN s ELSE NextAt(t2, x)) /\ PrevAt(t3, x) = PrevAt(t2, x)
    BY <1>10, <1>11 DEF NextMoved
  <2>4. NextAt(t4, x) = NextAt(t3, x) /\ PrevAt(t4, x) = IF x = NIL THEN s ELSE PrevAt(t3, x)
    BY <1>12, <1>13 DEF PrevMoved
  <2> QED BY <2>1, <2>2, <2>3, <2>4
<1>16. O \cup {s} = Used(t)
  OBVIOUS
<1>17. \A a \in O \cup {s, NIL} :
         nx2[a] = IF a = s THEN NIL ELSE IF a = pv[NIL] THEN s ELSE nx[a]
  <2> TAKE a \in O \cup {s, NIL}
  <2>1. nx2[a] = IF a = tail THEN s ELSE IF a = s THEN NIL ELSE NextAt(t, a)
    BY <1>15
  <2>2. a # s => nx[a] = NextAt(t, a)
    OBVIOUS
  <2>3. tail # s
    BY <1>2, <1>4
  <2> HIDE DEF nx, nx2, pv
  <2> QED BY <1>3, <2>1, <2>2, <2>3
<1>18. \A a \in O \cup {s, NIL} :
         pv2[a] = IF a = NIL THEN s ELSE IF a = s THEN pv[NIL] ELSE pv[a]
  <2> TAKE a \in O \cup {s, NIL}
  <2>1. pv2[a] = IF a = NIL THEN s ELSE IF a = s THEN tail ELSE PrevAt(t, a)
    BY <1>15
  <2>2. a # s => pv[a] = PrevAt(t, a)
    OBVIOUS
  <2> HIDE DEF pv, pv2
  <2> QED BY <1>3, <2>1, <2>2
<1>19. /\ u2[s] \in Nat
       /\ \A a \in O : u2[a] = u[a] /\ u[a] < u2[s]
  <2>1. \A a \in Used(t) : t4.slab[a].key = t.slab[a].key
    BY <1>14 DEF Relinked, SameKeys
  <2> QED BY <2>1 DEF UsedLast
<1>20. IsList(O \cup {s}, nx2, pv2, u2)
  <2> HIDE DEF nx, pv, nx2, pv2, u, u2, O
  <2> QED BY <1>1, <1>2, <1>17, <1>18, <1>19, PutList
<1>21. IsList(Used(t), nx2, pv2, u2)
  <2> HIDE DEF nx2, pv2, u2, O
  <2> QED BY <1>16, <1>20
<1>22. ListOn(t4, Used(t), use2)
  BY <1>21 DEF ListOn
<1> QED BY <1>6, <1>13, <1>14, <1>22

LEMMA RelinkedSound ==
  ASSUME NEW I, NEW t \in Tables(I), NEW t2 \in Tables(I), Relinked(t, t2), NEW use, NEW use2,
         NEW limit, Sound(t, use, I, limit), ListOn(t2, Used(t), use2)
  PROVE  Sound(t2, use2, I, limit)
<1>1. /\ SlotsOK(t, limit) /\ HeapOK(t, limit) /\ CreatedOK(t) /\ Alike(t, t2)
      /\ SameKeys(t, t2) /\ SameTimes(t, t2) /\ SameOrigins(t, t2) /\ Used(t2) = Used(t)
  BY DEF Sound, Relinked, Alike
<1>2. SlotsOK(t2, limit) /\ HeapOK(t2, limit) /\ CreatedOK(t2)
  BY <1>1, SameKeysSlotsOK, SameTimesHeapOK, SameOriginsCreatedOK
<1> QED BY <1>1, <1>2 DEF Sound

\* refresh: the slot is put at the end of the list.
LEMMA RefreshSound ==
  ASSUME NEW I, NEW t, NEW s \in Used(t), NEW use, NEW use2, NEW limit,
         Sound(t, use, I, limit), UsedLast(t, s, use, use2)
  PROVE  Sound(Refresh(t, s), use2, I, limit) /\ Relinked(t, Refresh(t, s))
<1>1. t \in Tables(I) /\ ListOn(t, Used(t), use)
  BY DEF Sound
<1>2. CASE s = t.tail
  <2> DEFINE nx == [a \in Used(t) \cup {NIL} |-> NextAt(t, a)]
             pv == [a \in Used(t) \cup {NIL} |-> PrevAt(t, a)]
             u == [a \in Used(t) |-> use[t.slab[a].key]]
             u2 == [a \in Used(t) |-> use2[t.slab[a].key]]
  <2>1. IsList(Used(t), nx, pv, u)
    BY <1>1 DEF ListOn
  <2>2. s = pv[NIL]
    BY <1>2 DEF PrevAt
  <2>3. u2[s] \in Nat /\ \A a \in Used(t) \ {s} : u2[a] = u[a] /\ u[a] < u2[s]
    BY DEF UsedLast
  <2>4. IsList(Used(t), nx, pv, u2)
    <3> HIDE DEF nx, pv, u, u2
    <3> QED BY <2>1, <2>2, <2>3, LastList
  <2>5. ListOn(t, Used(t), use2)
    BY <2>4 DEF ListOn
  <2>6. Refresh(t, s) = t
    BY <1>2 DEF Refresh
  <2>7. Relinked(t, t)
    BY DEF Relinked, Alike, SameKeys, SameTimes, SameOrigins
  <2>8. Sound(t, use2, I, limit)
    BY <2>5 DEF Sound
  <2> QED BY <2>6, <2>7, <2>8
<1>3. CASE s # t.tail
  <2> DEFINE t1 == Unlink(t, s)
             t2 == PushBack(t1, s)
  <2>1. t1 \in Tables(I) /\ Relinked(t, t1) /\ ListOn(t1, Used(t) \ {s}, use)
    BY <1>1, UnlinkCuts
  <2>2. Refresh(t, s) = t2
    BY <1>3 DEF Refresh
  <2> HIDE DEF t1
  <2>3. Used(t1) = Used(t)
    BY <2>1 DEF Relinked, Alike
  <2>4. UsedLast(t1, s, use, use2)
    BY <2>1, <2>3 DEF UsedLast, Relinked, SameKeys
  <2>5. s \in Used(t1) /\ ListOn(t1, Used(t1) \ {s}, use)
    BY <2>1, <2>3
  <2>6. t2 \in Tables(I) /\ Relinked(t1, t2) /\ ListOn(t2, Used(t), use2)
    BY <2>1, <2>3, <2>4, <2>5, PushBackPuts
  <2> HIDE DEF t2
  <2>7. Relinked(t, t2)
    BY <2>1, <2>6, RelinkedTwice
  <2>8. Sound(t2, use2, I, limit)
    BY <1>1, <2>6, <2>7, RelinkedSound
  <2> QED BY <2>2, <2>7, <2>8
<1> QED BY <1>2, <1>3

\* The entries in O are as they were, but for their links.
SameEntries(t, t2, O) ==
  \A x \in O :
    /\ t2.slab[x].key = t.slab[x].key /\ t2.slab[x].core = t.slab[x].core
    /\ t2.slab[x].created = t.slab[x].created /\ t2.slab[x].ticket = t.slab[x].ticket
    /\ t2.slab[x].scheduled = t.slab[x].scheduled

LEMMA AppendOnce ==
  ASSUME NEW free \in Seq(Nat), NEW s \in Nat,
         \A i, j \in DOMAIN free : free[i] = free[j] => i = j,
         \A i \in DOMAIN free : free[i] # s
  PROVE  /\ Append(free, s) \in Seq(Nat)
         /\ \A i, j \in DOMAIN Append(free, s) : Append(free, s)[i] = Append(free, s)[j] => i = j
         /\ \A x : (\E i \in DOMAIN Append(free, s) : Append(free, s)[i] = x)
                     <=> x = s \/ \E i \in DOMAIN free : free[i] = x
<1> DEFINE more == Append(free, s)
           n == Len(free)
<1>1. /\ n \in Nat /\ DOMAIN free = 1..n /\ DOMAIN more = 1..(n + 1)
      /\ more \in Seq(Nat) /\ more[n + 1] = s /\ \A i \in 1..n : more[i] = free[i]
  BY AppendProperties
<1> HIDE DEF more, n
<1>2. \A i \in 1..(n + 1) : i \in 1..n \/ i = n + 1
  BY <1>1
<1>3. n + 1 \in 1..(n + 1) /\ \A i \in 1..n : i \in 1..(n + 1)
  BY <1>1
<1>4. \A i, j \in DOMAIN more : more[i] = more[j] => i = j
  BY <1>1, <1>2
<1>5. \A x : (\E i \in DOMAIN more : more[i] = x) <=> x = s \/ \E i \in DOMAIN free : free[i] = x
  BY <1>1, <1>2, <1>3
<1> QED BY <1>1, <1>4, <1>5 DEF more

\* What removing the key of slot s does.
Removed(t, t2, s) ==
  /\ Used(t2) = Used(t) \ {s} /\ SameEntries(t, t2, Used(t) \ {s})
  /\ \A k \in Keys : t2.index[k] = IF k = t.slab[s].key THEN NIL ELSE t.index[k]
  /\ t2.heap = t.heap /\ t2.seq = t.seq /\ t2.tickets = t.tickets

\* remove_key
LEMMA RemoveKeySound ==
  ASSUME NEW I, NEW t, NEW s \in Used(t), NEW use, NEW limit, Sound(t, use, I, limit)
  PROVE  Sound(RemoveKey(t, s), use, I, limit) /\ Removed(t, RemoveKey(t, s), s)
<1> DEFINE O == Used(t) \ {s}
           key == t.slab[s].key
           u == Unlink(t, s)
           u1 == [u EXCEPT !.slab = [u.slab EXCEPT ![s] = Vacant]]
           index == [t.index EXCEPT ![key] = NIL]
           free == Append(t.free, s)
           u2 == [u1 EXCEPT !.index = index, !.free = free]
<1>1. /\ t \in Tables(I) /\ SlotsOK(t, limit) /\ ListOn(t, Used(t), use) /\ HeapOK(t, limit)
      /\ CreatedOK(t)
  BY DEF Sound
<1>2. s \in DOMAIN t.slab /\ s \in Nat /\ t.slab[s] \in Entries(I) /\ key \in Keys
  BY <1>1, SlabDomain DEF Entries
<1>3. u \in Tables(I) /\ Relinked(t, u) /\ ListOn(u, O, use)
  BY <1>1, UnlinkCuts
<1>4. /\ u.index = t.index /\ u.free = t.free /\ u.heap = t.heap /\ u.seq = t.seq
      /\ u.tickets = t.tickets /\ Used(u) = Used(t) /\ DOMAIN u.slab = DOMAIN t.slab
      /\ Len(u.slab) = Len(t.slab)
  <2> HIDE DEF u
  <2> QED BY <1>1, <1>3, SlabDomain DEF Relinked, Alike, SameKeys, SameTimes, SameOrigins
<1>5. RemoveKey(t, s) = u2
  <2>1. RemoveKey(t, s) = [u EXCEPT !.slab[s] = Vacant, !.index[key] = NIL, !.free = Append(@, s)]
    BY DEF RemoveKey
  <2> HIDE DEF u, key
  <2>2. u1.index = t.index /\ u1.free = t.free
    BY <1>3, <1>4 DEF Tables
  <2>3. [u EXCEPT !.slab[s] = Vacant, !.index[key] = NIL, !.free = Append(@, s)]
          = [u EXCEPT !.slab = [u.slab EXCEPT ![s] = Vacant], !.index = [u.index EXCEPT ![key] = NIL],
                      !.free = Append(u.free, s)]
    OBVIOUS
  <2>4. [u EXCEPT !.slab = [u.slab EXCEPT ![s] = Vacant], !.index = [u.index EXCEPT ![key] = NIL],
                  !.free = Append(u.free, s)]
          = [u EXCEPT !.slab = [u.slab EXCEPT ![s] = Vacant], !.index = index, !.free = free]
    BY <1>4
  <2> HIDE DEF index, free
  <2>5. [u EXCEPT !.slab = [u.slab EXCEPT ![s] = Vacant], !.index = index, !.free = free] = u2
    OBVIOUS
  <2> QED BY <2>1, <2>3, <2>4, <2>5
<1> HIDE DEF u
<1>6. u1 \in Tables(I) /\ u1.slab[s] = Vacant /\ OnlySlot(u, u1, s)
  <2>1. Assigned(u, u1, s, Vacant)
    BY DEF Assigned
  <2>2. s \in DOMAIN u.slab /\ Vacant \in Entries(I) \cup {Vacant}
    BY <1>2, <1>4
  <2> HIDE DEF u1
  <2> QED BY <1>3, <2>1, <2>2, SlotSet
<1>7. /\ free \in Seq(Nat)
      /\ \A i, j \in DOMAIN free : free[i] = free[j] => i = j
      /\ \A x : (\E i \in DOMAIN free : free[i] = x) <=> x = s \/ \E i \in DOMAIN t.free : t.free[i] = x
  <2>1. t.free \in Seq(Nat)
    BY <1>1 DEF Tables
  <2>2. \A i, j \in DOMAIN t.free : t.free[i] = t.free[j] => i = j
    BY <1>1 DEF SlotsOK
  <2>3. \A i \in DOMAIN t.free : t.free[i] # s
    BY <1>1 DEF SlotsOK
  <2> DEFINE f == t.free
  <2>4. f \in Seq(Nat) /\ (\A i, j \in DOMAIN f : f[i] = f[j] => i = j) /\ \A i \in DOMAIN f : f[i] # s
    BY <2>1, <2>2, <2>3
  <2> HIDE DEF f
  <2>5. /\ Append(f, s) \in Seq(Nat)
        /\ \A i, j \in DOMAIN Append(f, s) : Append(f, s)[i] = Append(f, s)[j] => i = j
        /\ \A x : (\E i \in DOMAIN Append(f, s) : Append(f, s)[i] = x)
                    <=> x = s \/ \E i \in DOMAIN f : f[i] = x
    BY <1>2, <2>4, AppendOnce
  <2> QED BY <2>5 DEF f
<1>8. /\ index \in [Keys -> Nat] /\ index[key] = NIL
      /\ \A k \in Keys \ {key} : index[k] = t.index[k]
  <2>1. t.index \in [Keys -> Nat] /\ NIL \in Nat
    BY <1>1 DEF Tables, NIL
  <2> HIDE DEF key
  <2> QED BY <1>2, <2>1
<1> HIDE DEF u1, index, free
<1>9. /\ u2 \in Tables(I) /\ u2.index = index /\ u2.free = free /\ u2.slab = u1.slab
      /\ u2.head = u1.head /\ u2.tail = u1.tail /\ u2.heap = u1.heap /\ u2.seq = u1.seq
      /\ u2.tickets = u1.tickets
  BY <1>6, <1>7, <1>8 DEF Tables
<1> HIDE DEF u2
<1>10. /\ DOMAIN u2.slab = DOMAIN t.slab /\ Len(u2.slab) = Len(t.slab) /\ u2.slab[s] = Vacant
       /\ (\A x \in (DOMAIN t.slab) \ {s} : u2.slab[x] = u.slab[x])
       /\ u2.heap = t.heap /\ u2.seq = t.seq /\ u2.tickets = t.tickets
       /\ u2.head = u.head /\ u2.tail = u.tail
  BY <1>4, <1>6, <1>9 DEF OnlySlot
<1>11. Used(u2) = O
  BY <1>4, <1>10 DEF Used
<1>12. \A x \in O : x \in (DOMAIN t.slab) \ {s} /\ u2.slab[x] = u.slab[x]
  BY <1>10 DEF Used
<1>13. SameEntries(t, u2, O)
  BY <1>3, <1>12 DEF SameEntries, Relinked, SameKeys, SameTimes, SameOrigins
<1>14. SlotsOK(u2, limit)
  <2>1. \A k \in Keys : u2.index[k] # NIL => u2.index[k] \in Used(u2) /\ u2.slab[u2.index[k]].key = k
    <3> SUFFICES ASSUME NEW k \in Keys, u2.index[k] # NIL
                 PROVE  u2.index[k] \in Used(u2) /\ u2.slab[u2.index[k]].key = k
      OBVIOUS
    <3>1. k # key /\ u2.index[k] = t.index[k]
      BY <1>8, <1>9
    <3>2. t.index[k] \in Used(t) /\ t.slab[t.index[k]].key = k
      BY <1>1, <3>1 DEF SlotsOK
    <3>3. t.index[k] \in O
      BY <3>1, <3>2
    <3> QED BY <1>11, <1>13, <3>1, <3>2, <3>3 DEF SameEntries
  <2>2. \A x \in Used(u2) : u2.index[u2.slab[x].key] = x
    <3> SUFFICES ASSUME NEW x \in O PROVE u2.index[u2.slab[x].key] = x
      BY <1>11
    <3>1. u2.slab[x].key = t.slab[x].key /\ t.index[t.slab[x].key] = x /\ t.index[key] = s
      BY <1>1, <1>13 DEF SameEntries, SlotsOK
    <3>2. t.slab[x].key \in Keys
      BY <1>1, SlabDomain DEF Entries
    <3>3. t.slab[x].key # key
      BY <3>1
    <3> QED BY <1>8, <1>9, <3>1, <3>2, <3>3
  <2>3. \A i, j \in DOMAIN u2.free : u2.free[i] = u2.free[j] => i = j
    BY <1>7, <1>9
  <2>4. \A x \in (DOMAIN u2.slab) \ Used(u2) : \E i \in DOMAIN u2.free : u2.free[i] = x
    <3> SUFFICES ASSUME NEW x \in (DOMAIN t.slab) \ O PROVE \E i \in DOMAIN free : free[i] = x
      BY <1>9, <1>10, <1>11
    <3>1. CASE x = s
      BY <1>7, <3>1
    <3>2. CASE x # s
      <4>1. \E i \in DOMAIN t.free : t.free[i] = x
        BY <1>1, <3>2 DEF SlotsOK
      <4> QED BY <1>7, <4>1
    <3> QED BY <3>1, <3>2
  <2>5. \A i \in DOMAIN u2.free : u2.free[i] \in (DOMAIN u2.slab) \ Used(u2)
    <3> SUFFICES ASSUME NEW i \in DOMAIN free PROVE free[i] \in (DOMAIN t.slab) \ O
      BY <1>9, <1>10, <1>11
    <3>1. free[i] = s \/ \E j \in DOMAIN t.free : t.free[j] = free[i]
      BY <1>7
    <3> QED BY <1>1, <1>2, <3>1 DEF SlotsOK
  <2>6. Len(u2.slab) <= limit
    BY <1>1, <1>10 DEF SlotsOK
  <2> QED BY <2>1, <2>2, <2>3, <2>4, <2>5, <2>6 DEF SlotsOK
<1>15. ListOn(u2, O, use)
  <2>1. SameLinks(u, u2, O)
    BY <1>10, <1>12 DEF SameLinks
  <2> QED BY <1>3, <2>1, SameLinksListOn
<1>16. HeapOK(u2, limit)
  <2>1. \A x \in O : x \in Used(t) /\ u2.slab[x].ticket = t.slab[x].ticket
                     /\ u2.slab[x].scheduled = t.slab[x].scheduled
    BY <1>13 DEF SameEntries
  <2> QED BY <1>1, <1>10, <1>11, <2>1 DEF HeapOK
<1>17. CreatedOK(u2)
  BY <1>1, <1>10, <1>11, <1>13 DEF CreatedOK, SameEntries
<1>18. Sound(u2, use, I, limit)
  BY <1>9, <1>11, <1>14, <1>15, <1>16, <1>17 DEF Sound
<1>19. \A k \in Keys : u2.index[k] = IF k = t.slab[s].key THEN NIL ELSE t.index[k]
  BY <1>8, <1>9
<1> QED BY <1>5, <1>10, <1>11, <1>13, <1>18, <1>19 DEF Removed

\* The key is used now, the others were used before.
UsedNow(key, use, use2) ==
  /\ use2[key] \in Nat
  /\ \A k \in Keys \ {key} : use2[k] = use[k] /\ use[k] < use2[key]

LEMMA FrontProperties ==
  ASSUME NEW free \in Seq(Nat), free # <<>>,
         \A i, j \in DOMAIN free : free[i] = free[j] => i = j
  PROVE  /\ Front(free) \in Seq(Nat) /\ (\E i \in DOMAIN free : free[i] = Last(free))
         /\ \A i, j \in DOMAIN Front(free) : Front(free)[i] = Front(free)[j] => i = j
         /\ \A x : (\E i \in DOMAIN Front(free) : Front(free)[i] = x)
                     <=> x # Last(free) /\ \E i \in DOMAIN free : free[i] = x
<1> DEFINE n == Len(free)
           f == Front(free)
<1>1. n \in Nat /\ n > 0 /\ DOMAIN free = 1..n /\ \A i \in 1..n : free[i] \in Nat
  BY EmptySeq
<1>2. f = SubSeq(free, 1, n - 1) /\ Last(free) = free[n]
  BY DEF Front, Last
<1>3. f \in Seq(Nat) /\ Len(f) = n - 1 /\ \A i \in 1..(n - 1) : f[i] = free[i]
  <2> HIDE DEF n, f
  <2>1. 1 \in Int /\ n - 1 \in Int /\ \A i \in 1..(n - 1) : free[i] \in Nat
    BY <1>1
  <2> DEFINE m == n - 1
             s == SubSeq(free, 1, m)
  <2>2. 1 \in Int /\ m \in Int /\ \A i \in 1..m : free[i] \in Nat
    BY <2>1
  <2> HIDE DEF m
  <2>3. s \in Seq(Nat) /\ Len(s) = (IF 1 <= m THEN m - 1 + 1 ELSE 0)
        /\ \A i \in 1..(m - 1 + 1) : s[i] = free[1 + i - 1]
    BY <2>2, SubSeqProperties
  <2>4. m \in Nat /\ m = n - 1
    BY <1>1 DEF m
  <2> HIDE DEF s
  <2>5. Len(s) = m /\ \A i \in 1..m : s[i] = free[i]
    BY <2>3, <2>4
  <2>6. f = s
    BY <1>2 DEF m, s
  <2> QED BY <2>3, <2>4, <2>5, <2>6
<1>4. DOMAIN f = 1..(n - 1)
  BY <1>3
<1> HIDE DEF n, f
<1>5. \A i \in 1..(n - 1) : i \in 1..n /\ i # n
  BY <1>1
<1>6. n \in 1..n /\ \A i \in 1..n : i # n => i \in 1..(n - 1)
  BY <1>1
<1>7. \A i, j \in DOMAIN f : f[i] = f[j] => i = j
  BY <1>1, <1>3, <1>4, <1>5
<1>8. \A x : (\E i \in DOMAIN f : f[i] = x) <=> x # Last(free) /\ \E i \in DOMAIN free : free[i] = x
  BY <1>1, <1>2, <1>3, <1>4, <1>5, <1>6
<1> QED BY <1>1, <1>2, <1>3, <1>6, <1>7, <1>8 DEF f

\* What inserting does before the key is linked.
Placed(t, t2, slot, key) ==
  /\ t2.index = [t.index EXCEPT ![key] = slot] /\ t2.head = t.head /\ t2.tail = t.tail
  /\ t2.heap = t.heap /\ t2.seq = t.seq + 1 /\ t2.tickets = t.tickets
  /\ slot \in DOMAIN t2.slab /\ slot \notin Used(t) /\ slot # NIL
  /\ t2.slab[slot].key = key /\ t2.slab[slot].created = t.seq + 1
  /\ t2.slab[slot].ticket = 0 /\ t2.slab[slot].scheduled = None
  /\ t2.slab[slot].core = EmptyCore
  /\ Used(t2) = Used(t) \cup {slot} /\ DOMAIN t.slab \subseteq DOMAIN t2.slab
  /\ DOMAIN t2.slab = DOMAIN t.slab \cup {slot}
  /\ \A x \in Used(t) : t2.slab[x] = t.slab[x]
  /\ \A i, j \in DOMAIN t2.free : t2.free[i] = t2.free[j] => i = j
  /\ \A x \in DOMAIN t2.slab : x \notin Used(t2) <=> \E i \in DOMAIN t2.free : t2.free[i] = x
  /\ \A i \in DOMAIN t2.free : t2.free[i] \in DOMAIN t2.slab

LEMMA PlacedSound ==
  ASSUME NEW I, NEW t, NEW use, NEW limit, Sound(t, use, I, limit), NEW key \in Keys,
         t.index[key] = NIL, NEW t2 \in Tables(I), NEW slot, Placed(t, t2, slot, key),
         Len(t2.slab) <= limit
  PROVE  SlotsOK(t2, limit) /\ ListOn(t2, Used(t), use) /\ HeapOK(t2, limit) /\ CreatedOK(t2)
<1>1. /\ t \in Tables(I) /\ SlotsOK(t, limit) /\ ListOn(t, Used(t), use) /\ HeapOK(t, limit)
      /\ CreatedOK(t)
  BY DEF Sound
<1>2. t2.index[key] = slot /\ \A k \in Keys \ {key} : t2.index[k] = t.index[k]
  <2>1. t.index \in [Keys -> Nat] /\ t2.index = [t.index EXCEPT ![key] = slot]
    BY <1>1 DEF Tables, Placed
  <2> QED BY <2>1
<1>3. \A x \in Used(t) : t.slab[x].key \in Keys \ {key}
  <2> TAKE x \in Used(t)
  <2>1. t.slab[x].key \in Keys /\ x # NIL
    BY <1>1, SlabDomain DEF Entries
  <2>2. t.index[t.slab[x].key] = x
    BY <1>1 DEF SlotsOK
  <2> QED BY <2>1, <2>2
<1>4. SlotsOK(t2, limit)
  <2>1. ASSUME NEW k \in Keys, t2.index[k] # NIL
        PROVE  t2.index[k] \in Used(t2) /\ t2.slab[t2.index[k]].key = k
    <3>1. CASE k = key
      BY <1>2, <3>1 DEF Placed
    <3>2. CASE k # key
      <4>1. t2.index[k] = t.index[k] /\ t.index[k] \in Used(t) /\ t.slab[t.index[k]].key = k
        BY <1>1, <1>2, <2>1, <3>2 DEF SlotsOK
      <4> QED BY <4>1 DEF Placed
    <3> QED BY <3>1, <3>2
  <2>2. ASSUME NEW x \in Used(t2) PROVE t2.index[t2.slab[x].key] = x
    <3>1. CASE x = slot
      BY <1>2, <3>1 DEF Placed
    <3>2. CASE x # slot
      <4>1. x \in Used(t) /\ t2.slab[x] = t.slab[x]
        BY <3>2 DEF Placed
      <4>2. t.index[t.slab[x].key] = x
        BY <1>1, <4>1 DEF SlotsOK
      <4> QED BY <1>2, <1>3, <4>1, <4>2
    <3> QED BY <3>1, <3>2
  <2>3. /\ \A i, j \in DOMAIN t2.free : t2.free[i] = t2.free[j] => i = j
        /\ \A x \in (DOMAIN t2.slab) \ Used(t2) : \E i \in DOMAIN t2.free : t2.free[i] = x
        /\ \A i \in DOMAIN t2.free : t2.free[i] \in (DOMAIN t2.slab) \ Used(t2)
    BY DEF Placed
  <2> QED BY <2>1, <2>2, <2>3 DEF SlotsOK
<1>5. ListOn(t2, Used(t), use)
  <2>1. SameLinks(t, t2, Used(t))
    BY DEF SameLinks, Placed
  <2> QED BY <1>1, <2>1, SameLinksListOn
<1>6. HeapOK(t2, limit)
  <2>1. t.tickets \in Nat
    BY <1>1 DEF Tables
  <2>2. ASSUME NEW x \in Used(t2)
        PROVE  /\ t2.slab[x].ticket \in 0..t2.tickets
               /\ t2.slab[x].scheduled # None
                    => <<t2.slab[x].scheduled, t2.slab[x].ticket, x>> \in t2.heap
    <3>1. CASE x = slot
      BY <2>1, <3>1 DEF Placed
    <3>2. CASE x # slot
      <4>1. x \in Used(t) /\ t2.slab[x] = t.slab[x] /\ t2.tickets = t.tickets /\ t2.heap = t.heap
        BY <3>2 DEF Placed
      <4> QED BY <1>1, <4>1 DEF HeapOK
    <3> QED BY <3>1, <3>2
  <2>3. t2.heap = t.heap /\ t2.tickets = t.tickets /\ DOMAIN t.slab \subseteq DOMAIN t2.slab
    BY DEF Placed
  <2> QED BY <1>1, <2>2, <2>3 DEF HeapOK
<1>7. CreatedOK(t2)
  <2>1. t.seq \in Nat
    BY <1>1 DEF Tables
  <2>2. \A x \in Used(t) : t2.slab[x].created = t.slab[x].created /\ t.slab[x].created \in 1..t.seq
    BY <1>1 DEF CreatedOK, Placed
  <2>3. t2.slab[slot].created = t.seq + 1 /\ t2.seq = t.seq + 1
    BY DEF Placed
  <2>4. \A x \in Used(t) : t2.slab[x].created \in 1..(t.seq + 1) /\ t2.slab[x].created # t.seq + 1
    BY <2>1, <2>2
  <2>5. t.seq + 1 \in 1..(t.seq + 1)
    BY <2>1
  <2>6. Used(t2) = Used(t) \cup {slot}
    BY DEF Placed
  <2>7. \A x \in Used(t2) : t2.slab[x].created \in 1..t2.seq
    BY <2>3, <2>4, <2>5, <2>6
  <2>8. \A a, b \in Used(t) : t2.slab[a].created = t2.slab[b].created => a = b
    BY <1>1, <2>2 DEF CreatedOK
  <2>9. \A a, b \in Used(t2) : t2.slab[a].created = t2.slab[b].created => a = b
    BY <2>3, <2>4, <2>6, <2>8
  <2> QED BY <2>7, <2>9 DEF CreatedOK
<1> QED BY <1>4, <1>5, <1>6, <1>7

\* The key has a slot of its own, with an empty core; the other slots are as before.
Inserted(t, t2, key) ==
  /\ SameEntries(t, t2, Used(t)) /\ t2.heap = t.heap
  /\ t2.index[key] \notin Used(t) /\ Used(t2) = Used(t) \cup {t2.index[key]}
  /\ \A k \in Keys \ {key} : t2.index[k] = t.index[k]
  /\ t2.slab[t2.index[key]].core = EmptyCore /\ t2.slab[t2.index[key]].scheduled = None
  /\ t2.slab[t2.index[key]].key = key

LEMMA InsertSound ==
  ASSUME NEW I, NEW t, NEW use, NEW use2, NEW limit \in Nat, Sound(t, use, I, limit),
         NEW key \in Keys, t.index[key] = NIL, t.free = <<>> => Len(t.slab) < limit,
         UsedNow(key, use, use2)
  PROVE  /\ Sound(Insert(t, key), use2, I, limit) /\ Insert(t, key).index[key] # NIL
         /\ Inserted(t, Insert(t, key), key)
<1> DEFINE entry == [key |-> key, core |-> EmptyCore, created |-> t.seq + 1, prev |-> NIL,
                     next |-> NIL, ticket |-> 0, scheduled |-> None]
           slot == IF t.free = <<>> THEN Len(t.slab) + 1 ELSE Last(t.free)
           placed == IF t.free = <<>>
                     THEN [t EXCEPT !.slab = Append(t.slab, entry)]
                     ELSE [t EXCEPT !.slab[slot] = entry, !.free = Front(t.free)]
           index == [t.index EXCEPT ![key] = slot]
           t2 == [placed EXCEPT !.seq = t.seq + 1, !.index = index]
<1>1. /\ t \in Tables(I) /\ SlotsOK(t, limit) /\ ListOn(t, Used(t), use) /\ HeapOK(t, limit)
      /\ CreatedOK(t)
  BY DEF Sound
<1>2. /\ t.seq \in Nat /\ t.free \in Seq(Nat) /\ t.index \in [Keys -> Nat]
      /\ t.slab \in Seq(Entries(I) \cup {Vacant}) /\ t.seq + 1 \in Nat
  BY <1>1 DEF Tables
<1>3. DOMAIN t.slab = 1..Len(t.slab) /\ Len(t.slab) \in Nat /\ \A x \in DOMAIN t.slab : x \in Nat \ {NIL}
  BY <1>1, SlabDomain
<1>4. /\ entry \in Entries(I) /\ entry # Vacant /\ entry.key = key /\ entry.created = t.seq + 1
      /\ entry.ticket = 0 /\ entry.scheduled = None /\ entry.core = EmptyCore
  <2>1. <<>> \in Seq(I) /\ <<>> \in Seq(OpenWindows(I)) /\ None \in Moments /\ NIL \in Nat
    BY DEF Moments, NIL
  <2>2. EmptyCore \in Cores(I)
    BY <2>1 DEF EmptyCore, Cores
  <2>3. entry \in Entries(I)
    BY <1>2, <2>1, <2>2 DEF Entries
  <2>4. entry # Vacant
    <3> HIDE DEF entry
    <3> QED BY <2>3, EntryNotVacant
  <2> QED BY <2>3, <2>4
<1> HIDE DEF entry
<1>5. Insert(t, key) = PushBack(t2, slot)
  <2>1. placed.seq = t.seq /\ placed.index = t.index
    BY <1>1 DEF Tables
  <2>2. Insert(t, key) = PushBack([placed EXCEPT !.seq = @ + 1, !.index[key] = slot], slot)
    BY DEF Insert, entry
  <2> HIDE DEF placed, slot
  <2>3. [placed EXCEPT !.seq = @ + 1, !.index[key] = slot]
          = [placed EXCEPT !.seq = placed.seq + 1, !.index = [placed.index EXCEPT ![key] = slot]]
    OBVIOUS
  <2> QED BY <2>1, <2>2, <2>3
<1>6. /\ t2 \in Tables(I) /\ Placed(t, t2, slot, key) /\ Len(t2.slab) <= limit
  <2>1. CASE t.free = <<>>
    <3> DEFINE slab == Append(t.slab, entry)
               n == Len(t.slab)
    <3>1. slot = n + 1 /\ n \in Nat /\ DOMAIN t.slab = 1..n
      BY <1>3, <2>1
    <3>2. /\ slab \in Seq(Entries(I) \cup {Vacant}) /\ Len(slab) = n + 1 /\ DOMAIN slab = 1..(n + 1)
          /\ slab[n + 1] = entry /\ \A x \in 1..n : slab[x] = t.slab[x]
      <4> DEFINE Z == Entries(I) \cup {Vacant}
                 sl == t.slab
      <4>1. sl \in Seq(Z) /\ entry \in Z
        BY <1>2, <1>4
      <4> HIDE DEF Z, sl
      <4>2. /\ Append(sl, entry) \in Seq(Z) /\ Len(Append(sl, entry)) = Len(sl) + 1
            /\ DOMAIN Append(sl, entry) = 1..(Len(sl) + 1)
            /\ Append(sl, entry)[Len(sl) + 1] = entry
            /\ \A x \in 1..Len(sl) : Append(sl, entry)[x] = sl[x]
        BY <4>1
      <4> QED BY <4>2 DEF Z, sl
    <3> HIDE DEF slab, n
    <3>3. slot \in Nat /\ slot # NIL /\ slot \notin DOMAIN t.slab /\ slot \in DOMAIN slab
      BY <3>1, <3>2 DEF NIL
    <3>4. index \in [Keys -> Nat]
      <4> HIDE DEF slot
      <4> QED BY <1>2, <3>3
    <3> HIDE DEF slot
    <3>5. placed = [t EXCEPT !.slab = slab]
      BY <2>1 DEF slab
    <3> HIDE DEF index, placed
    <3>6. /\ placed \in Tables(I) /\ placed.slab = slab
          /\ placed.index = t.index /\ placed.free = t.free /\ placed.head = t.head
          /\ placed.tail = t.tail /\ placed.heap = t.heap /\ placed.tickets = t.tickets
      BY <1>1, <3>2, <3>5 DEF Tables
    <3>7. /\ t2 \in Tables(I) /\ t2.slab = slab /\ t2.seq = t.seq + 1
          /\ t2.index = index /\ t2.free = t.free /\ t2.head = t.head /\ t2.tail = t.tail
          /\ t2.heap = t.heap /\ t2.tickets = t.tickets
      BY <1>2, <3>4, <3>6 DEF Tables
    <3> HIDE DEF t2
    <3>8. DOMAIN t2.slab = DOMAIN t.slab \cup {slot} /\ t2.slab[slot] = entry
          /\ \A x \in DOMAIN t.slab : t2.slab[x] = t.slab[x]
      BY <3>1, <3>2, <3>7
    <3>9. Used(t2) = Used(t) \cup {slot} /\ slot \notin Used(t)
      BY <1>4, <3>3, <3>8 DEF Used
    <3>10. DOMAIN t2.free = {} /\ Used(t) = DOMAIN t.slab
      <4>1. DOMAIN t.free = {}
        BY <2>1
      <4> QED BY <1>1, <3>7, <4>1 DEF SlotsOK, Used
    <3>11. Placed(t, t2, slot, key)
      BY <1>4, <3>3, <3>7, <3>8, <3>9, <3>10 DEF Placed, index
    <3>12. Len(t2.slab) <= limit
      <4>1. n < limit /\ Len(t2.slab) = n + 1
        BY <2>1, <3>2, <3>7 DEF n
      <4> QED BY <3>1, <4>1
    <3> QED BY <3>7, <3>11, <3>12
  <2>2. CASE t.free # <<>>
    <3> DEFINE free == Front(t.free)
               slab == [t.slab EXCEPT ![slot] = entry]
    <3>1. slot = Last(t.free)
      BY <2>2
    <3>2. /\ free \in Seq(Nat) /\ (\E i \in DOMAIN t.free : t.free[i] = slot)
          /\ \A i, j \in DOMAIN free : free[i] = free[j] => i = j
          /\ \A x : (\E i \in DOMAIN free : free[i] = x)
                      <=> x # slot /\ \E i \in DOMAIN t.free : t.free[i] = x
      <4> DEFINE f == t.free
      <4>1. f \in Seq(Nat) /\ f # <<>> /\ \A i, j \in DOMAIN f : f[i] = f[j] => i = j
        BY <1>1, <1>2, <2>2 DEF SlotsOK
      <4> HIDE DEF f
      <4>2. /\ Front(f) \in Seq(Nat) /\ (\E i \in DOMAIN f : f[i] = Last(f))
            /\ \A i, j \in DOMAIN Front(f) : Front(f)[i] = Front(f)[j] => i = j
            /\ \A x : (\E i \in DOMAIN Front(f) : Front(f)[i] = x)
                     <=> x # Last(f) /\ \E i \in DOMAIN f : f[i] = x
        BY <4>1, FrontProperties
      <4> HIDE DEF slot
      <4> QED BY <3>1, <4>2 DEF f
    <3> HIDE DEF slot, free
    <3>3. slot \in DOMAIN t.slab /\ slot \notin Used(t) /\ slot \in Nat /\ slot # NIL
      BY <1>1, <1>3, <3>2 DEF SlotsOK
    <3>4. index \in [Keys -> Nat]
      BY <1>2, <3>3
    <3>5. placed = [t EXCEPT !.slab = slab, !.free = free]
      BY <2>2 DEF free
    <3> DEFINE t1 == [t EXCEPT !.slab = slab]
    <3>6. t1 \in Tables(I) /\ t1.slab[slot] = entry /\ OnlySlot(t, t1, slot)
      <4>1. Assigned(t, t1, slot, entry)
        BY DEF Assigned
      <4>2. entry \in Entries(I) \cup {Vacant}
        BY <1>4
      <4> HIDE DEF t1
      <4> QED BY <1>1, <3>3, <4>1, <4>2, SlotSet
    <3>7. Used(t1) = Used(t) \cup {slot}
      <4>1. Assigned(t, t1, slot, entry)
        BY DEF Assigned
      <4> HIDE DEF t1
      <4> QED BY <1>1, <1>4, <3>3, <4>1, EntrySet
    <3>8. placed = [t1 EXCEPT !.free = free]
      BY <3>5
    <3> HIDE DEF index, placed, t1
    <3>9. /\ placed \in Tables(I) /\ placed.slab = t1.slab /\ placed.free = free
          /\ placed.index = t1.index /\ placed.head = t1.head
          /\ placed.tail = t1.tail /\ placed.heap = t1.heap /\ placed.tickets = t1.tickets
      BY <3>2, <3>6, <3>8 DEF Tables
    <3>10. /\ t2 \in Tables(I) /\ t2.slab = t1.slab /\ t2.seq = t.seq + 1
           /\ t2.index = index /\ t2.free = free /\ t2.head = t1.head /\ t2.tail = t1.tail
           /\ t2.heap = t1.heap /\ t2.tickets = t1.tickets
      BY <1>2, <3>4, <3>9 DEF Tables
    <3> HIDE DEF t2
    <3>11. DOMAIN t2.slab = DOMAIN t.slab /\ t2.slab[slot] = entry /\ Len(t2.slab) = Len(t.slab)
           /\ (\A x \in (DOMAIN t.slab) \ {slot} : t2.slab[x] = t.slab[x])
           /\ t2.head = t.head /\ t2.tail = t.tail /\ t2.heap = t.heap /\ t2.tickets = t.tickets
      BY <3>6, <3>10 DEF OnlySlot
    <3>12. Used(t2) = Used(t) \cup {slot}
      BY <3>7, <3>10 DEF Used
    <3>13. \A x \in Used(t) : t2.slab[x] = t.slab[x]
      BY <3>3, <3>11 DEF Used
    <3>14. \A x \in DOMAIN t2.slab : x \notin Used(t2) <=> \E i \in DOMAIN t2.free : t2.free[i] = x
      <4>1. \A x \in DOMAIN t.slab : x \notin Used(t) <=> \E i \in DOMAIN t.free : t.free[i] = x
        BY <1>1 DEF SlotsOK
      <4> SUFFICES ASSUME NEW x \in DOMAIN t.slab
                   PROVE  x \notin Used(t2) <=> \E i \in DOMAIN free : free[i] = x
        BY <3>10, <3>11
      <4>2. x \notin Used(t2) <=> x # slot /\ x \notin Used(t)
        BY <3>12
      <4>3. (\E i \in DOMAIN free : free[i] = x) <=> x # slot /\ \E i \in DOMAIN t.free : t.free[i] = x
        BY <3>2
      <4>4. x \notin Used(t) <=> \E i \in DOMAIN t.free : t.free[i] = x
        BY <4>1
      <4> QED BY <4>2, <4>3, <4>4
    <3>15. \A i \in DOMAIN t2.free : t2.free[i] \in DOMAIN t2.slab
      <4>1. \A i \in DOMAIN t.free : t.free[i] \in DOMAIN t.slab
        BY <1>1 DEF SlotsOK
      <4>2. ASSUME NEW i \in DOMAIN free PROVE free[i] \in DOMAIN t.slab
        <5>1. \E j \in DOMAIN free : free[j] = free[i]
          OBVIOUS
        <5>2. \E j \in DOMAIN t.free : t.free[j] = free[i]
          BY <3>2, <5>1
        <5> QED BY <4>1, <5>2
      <4> QED BY <3>10, <3>11, <4>2
    <3>16. DOMAIN t2.slab = DOMAIN t.slab \cup {slot}
      BY <3>3, <3>11
    <3>17. Placed(t, t2, slot, key)
      BY <1>4, <3>2, <3>3, <3>10, <3>11, <3>12, <3>13, <3>14, <3>15, <3>16 DEF Placed, index
    <3>18. Len(t2.slab) <= limit
      BY <1>1, <3>11 DEF SlotsOK
    <3> QED BY <3>10, <3>17, <3>18
  <2> QED BY <2>1, <2>2
<1> HIDE DEF t2, slot
<1>7. SlotsOK(t2, limit) /\ ListOn(t2, Used(t), use) /\ HeapOK(t2, limit) /\ CreatedOK(t2)
  BY <1>6, PlacedSound
<1>8. slot \in Used(t2) /\ Used(t2) \ {slot} = Used(t)
  BY <1>6 DEF Placed
<1>9. UsedLast(t2, slot, use, use2)
  <2>1. t2.slab[slot].key = key
    BY <1>6 DEF Placed
  <2>2. ASSUME NEW a \in Used(t) PROVE t2.slab[a].key \in Keys \ {key}
    <3>1. t2.slab[a] = t.slab[a] /\ a # NIL
      BY <1>1, <1>6, SlabDomain DEF Placed
    <3>2. t.index[t.slab[a].key] = a /\ t.slab[a].key \in Keys
      BY <1>1, SlabDomain DEF SlotsOK, Entries
    <3> QED BY <3>1, <3>2
  <2> QED BY <1>8, <2>1, <2>2 DEF UsedLast, UsedNow
<1>10. /\ PushBack(t2, slot) \in Tables(I) /\ Relinked(t2, PushBack(t2, slot))
       /\ ListOn(PushBack(t2, slot), Used(t2), use2)
  BY <1>6, <1>7, <1>8, <1>9, PushBackPuts
<1> DEFINE t3 == PushBack(t2, slot)
<1>11. /\ SlotsOK(t3, limit) /\ HeapOK(t3, limit) /\ CreatedOK(t3) /\ Used(t3) = Used(t2)
       /\ t3.index = t2.index
  <2> HIDE DEF t3
  <2>1. t3 \in Tables(I) /\ Relinked(t2, t3)
    BY <1>10 DEF t3
  <2>2. /\ Alike(t2, t3) /\ SameKeys(t2, t3) /\ SameTimes(t2, t3) /\ SameOrigins(t2, t3)
    BY <2>1 DEF Relinked
  <2> QED BY <1>6, <1>7, <2>1, <2>2, SameKeysSlotsOK, SameTimesHeapOK, SameOriginsCreatedOK
       DEF Alike, SameKeys
<1>12. t2.index[key] = slot /\ slot # NIL /\ \A k \in Keys \ {key} : t2.index[k] = t.index[k]
  BY <1>2, <1>6 DEF Placed
<1>13. Inserted(t, t3, key)
  <2> HIDE DEF t3
  <2>1. Relinked(t2, t3) /\ Used(t3) = Used(t2) /\ t3.index = t2.index
    BY <1>10, <1>11 DEF t3
  <2>2. \A x \in Used(t2) : /\ t3.slab[x].key = t2.slab[x].key /\ t3.slab[x].core = t2.slab[x].core
                             /\ t3.slab[x].created = t2.slab[x].created
                             /\ t3.slab[x].ticket = t2.slab[x].ticket
                             /\ t3.slab[x].scheduled = t2.slab[x].scheduled
    BY <2>1 DEF Relinked, SameKeys, SameTimes, SameOrigins
  <2>3. \A x \in Used(t) : x \in Used(t2) /\ t2.slab[x] = t.slab[x]
    BY <1>6 DEF Placed
  <2>4. SameEntries(t, t3, Used(t))
    BY <2>2, <2>3 DEF SameEntries
  <2>5. t3.index[key] = slot /\ \A k \in Keys \ {key} : t3.index[k] = t.index[k]
    BY <1>12, <2>1
  <2>6. t3.heap = t.heap
    BY <1>6, <2>1 DEF Placed, Relinked, SameTimes
  <2>7. slot \notin Used(t) /\ Used(t3) = Used(t) \cup {slot} /\ slot \in Used(t2)
    BY <1>6, <2>1 DEF Placed
  <2>8. t3.slab[slot].core = EmptyCore /\ t3.slab[slot].scheduled = None /\ t3.slab[slot].key = key
    BY <1>6, <2>2, <2>7 DEF Placed
  <2> QED BY <2>4, <2>5, <2>6, <2>7, <2>8 DEF Inserted
<1> QED BY <1>5, <1>10, <1>11, <1>12, <1>13 DEF Sound

-----------------------------------------------------------------------------
(* How many keys are tracked. *)

LEMMA TrackedUsed ==
  ASSUME NEW I, NEW t \in Tables(I), NEW limit, SlotsOK(t, limit)
  PROVE  /\ IsFiniteSet(Tracked(t)) /\ IsFiniteSet(Used(t))
         /\ Cardinality(Tracked(t)) \in Nat /\ Cardinality(Tracked(t)) = Cardinality(Used(t))
         /\ Cardinality(Tracked(t)) <= Cardinality(Keys) /\ Cardinality(Keys) \in Nat
         /\ Cardinality(Used(t)) <= Len(t.slab)
<1> DEFINE f == [k \in Tracked(t) |-> t.index[k]]
<1>1. IsFiniteSet(Keys) /\ Tracked(t) \in SUBSET Keys
  BY KeyedWindowAssumption DEF Tracked
<1>2. /\ IsFiniteSet(Tracked(t)) /\ Cardinality(Tracked(t)) <= Cardinality(Keys)
      /\ Cardinality(Tracked(t)) \in Nat /\ Cardinality(Keys) \in Nat
  BY <1>1, FS_Subset, FS_CardinalityType
<1>3. f \in Bijection(Tracked(t), Used(t))
  <2>1. \A k \in Tracked(t) : t.index[k] \in Used(t) /\ t.slab[t.index[k]].key = k
    BY DEF Tracked, SlotsOK
  <2>2. \A s \in Used(t) : t.slab[s].key \in Tracked(t) /\ t.index[t.slab[s].key] = s
    <3> TAKE s \in Used(t)
    <3>1. t.slab[s].key \in Keys /\ s # NIL
      BY SlabDomain DEF Entries
    <3> QED BY <3>1 DEF Tracked, SlotsOK
  <2>3. f \in [Tracked(t) -> Used(t)]
    BY <2>1
  <2>4. \A a, b \in Tracked(t) : f[a] = f[b] => a = b
    BY <2>1
  <2>5. \A s \in Used(t) : \E k \in Tracked(t) : f[k] = s
    BY <2>2
  <2> HIDE DEF f
  <2>6. f \in Injection(Tracked(t), Used(t))
    BY <2>3, <2>4 DEF Injection, IsInjective
  <2>7. f \in Surjection(Tracked(t), Used(t))
    BY <2>3, <2>5 DEF Surjection
  <2> QED BY <2>6, <2>7 DEF Bijection
<1> HIDE DEF f
<1>4. IsFiniteSet(Used(t)) /\ Cardinality(Used(t)) = Cardinality(Tracked(t))
  BY <1>2, <1>3, FS_Bijection DEF ExistsBijection
<1>5. Cardinality(Used(t)) <= Len(t.slab)
  <2>1. Used(t) \in SUBSET (1..Len(t.slab)) /\ Len(t.slab) \in Nat
    BY SlabDomain DEF Used
  <2> DEFINE n == Len(t.slab)
  <2>2. n \in Nat /\ Used(t) \in SUBSET (1..n)
    BY <2>1
  <2> HIDE DEF n
  <2>3. IsFiniteSet(1..n) /\ Cardinality(1..n) = n
    <3>1. 1 \in Int /\ n \in Int
      BY <2>2
    <3>2. IsFiniteSet(1..n) /\ Cardinality(1..n) = IF 1 > n THEN 0 ELSE n - 1 + 1
      BY <3>1, FS_Interval
    <3> QED BY <2>2, <3>2
  <2>4. Cardinality(Used(t)) <= n
    BY <2>2, <2>3, FS_Subset
  <2> QED BY <2>4 DEF n
<1> QED BY <1>2, <1>4, <1>5

\* Fewer keys than the limit leave a slot for one more.
LEMMA RoomForOne ==
  ASSUME NEW I, NEW t \in Tables(I), NEW limit \in Nat, SlotsOK(t, limit),
         Cardinality(Tracked(t)) < limit
  PROVE  t.free = <<>> => Len(t.slab) < limit
<1> SUFFICES ASSUME t.free = <<>> PROVE Len(t.slab) < limit
  OBVIOUS
<1> DEFINE n == Len(t.slab)
<1>1. Used(t) = 1..n /\ n \in Nat
  <2>1. DOMAIN t.free = {}
    OBVIOUS
  <2> QED BY <2>1, SlabDomain DEF SlotsOK, Used
<1> HIDE DEF n
<1>2. Cardinality(1..n) = n
  <2>1. 1 \in Int /\ n \in Int
    BY <1>1
  <2>2. Cardinality(1..n) = IF 1 > n THEN 0 ELSE n - 1 + 1
    BY <2>1, FS_Interval
  <2> QED BY <1>1, <2>2
<1>3. Cardinality(Tracked(t)) = n
  BY <1>1, <1>2, TrackedUsed
<1> QED BY <1>3 DEF n

LEMMA MinOfTwo ==
  ASSUME NEW a \in Nat, NEW b \in Nat
  PROVE  Min({a, b}) \in {a, b} /\ Min({a, b}) <= a /\ Min({a, b}) <= b
<1>1. \E x \in {a, b} : \A y \in {a, b} : x <= y
  <2>1. a <= b \/ b <= a
    OBVIOUS
  <2> QED BY <2>1
<1> DEFINE m == CHOOSE x \in {a, b} : \A y \in {a, b} : x <= y
<1>2. m \in {a, b} /\ \A y \in {a, b} : m <= y
  BY <1>1
<1>3. Min({a, b}) = m
  BY DEF Min
<1> HIDE DEF m
<1> QED BY <1>2, <1>3

LEMMA TrackedInBound ==
  ASSUME NEW I, NEW t \in Tables(I), NEW limit \in Nat, SlotsOK(t, limit)
  PROVE  /\ 2 * Cardinality(Tracked(t)) + HeapSlack <= HeapBound(limit)
         /\ Cardinality(Tracked(t)) <= 2 * Cardinality(Tracked(t)) + HeapSlack
<1> DEFINE c == Cardinality(Tracked(t))
           m == Min({limit, Cardinality(Keys)})
<1>1. c \in Nat /\ c <= Cardinality(Keys) /\ Cardinality(Keys) \in Nat /\ c <= limit
  <2>1. /\ c \in Nat /\ c = Cardinality(Used(t)) /\ c <= Cardinality(Keys) /\ Cardinality(Keys) \in Nat
        /\ Cardinality(Used(t)) <= Len(t.slab)
    BY TrackedUsed
  <2>2. Len(t.slab) <= limit /\ Len(t.slab) \in Nat
    BY SlabDomain DEF SlotsOK
  <2> HIDE DEF c
  <2>3. c <= Len(t.slab)
    BY <2>1
  <2> QED BY <2>1, <2>2, <2>3
<1>2. m \in {limit, Cardinality(Keys)}
  BY <1>1, MinOfTwo
<1>3. HeapSlack \in Nat
  BY KeyedWindowAssumption
<1>4. HeapBound(limit) = 2 * m + HeapSlack
  BY DEF HeapBound
<1> HIDE DEF c, m
<1>5. c <= m /\ m \in Nat
  BY <1>1, <1>2
<1> QED BY <1>1, <1>3, <1>4, <1>5 DEF c

-----------------------------------------------------------------------------
(* The heap. *)

\* HeapOK, whatever the number of entries.
HeapEntriesOK(t) ==
  /\ IsFiniteSet(t.heap)
  /\ \A a \in t.heap : a[2] \in 1..t.tickets /\ a[3] \in DOMAIN t.slab
  /\ \A a, b \in t.heap : a[2] = b[2] => a = b
  /\ \A s \in Used(t) :
       /\ t.slab[s].ticket \in 0..t.tickets
       /\ t.slab[s].scheduled # None => <<t.slab[s].scheduled, t.slab[s].ticket, s>> \in t.heap

\* compact_heap: what remains are the entries of the scheduled keys, one each.
LEMMA CompactHeapSound ==
  ASSUME NEW I, NEW t \in Tables(I), NEW limit \in Nat, SlotsOK(t, limit), HeapEntriesOK(t)
  PROVE  /\ CompactHeap(t) \in Tables(I) /\ HeapOK(CompactHeap(t), limit)
         /\ CompactHeap(t) = [t EXCEPT !.heap = CompactHeap(t).heap]
         /\ CompactHeap(t).heap \subseteq t.heap
<1> DEFINE those == {x \in DOMAIN t.slab : Occupied(t, x) /\ t.slab[x].scheduled # None}
           heap == {<<t.slab[s].scheduled, t.slab[s].ticket, s>> : s \in those}
           c == Cardinality(Tracked(t))
<1>1. CASE Cardinality(t.heap) <= 2 * c + HeapSlack
  <2>1. CompactHeap(t) = t
    BY <1>1 DEF CompactHeap
  <2>2. t = [t EXCEPT !.heap = t.heap]
    BY DEF Tables
  <2>3. Cardinality(t.heap) <= HeapBound(limit)
    <3> DEFINE h == Cardinality(t.heap)
               d == 2 * c + HeapSlack
               bound == HeapBound(limit)
    <3>1. h \in Nat /\ h <= d
      BY <1>1, FS_CardinalityType DEF HeapEntriesOK
    <3>2. d <= bound
      BY TrackedInBound
    <3>3. c \in Nat /\ HeapSlack \in Nat
      BY TrackedUsed, KeyedWindowAssumption
    <3>4. d \in Nat
      <4> HIDE DEF c
      <4> QED BY <3>3
    <3>5. bound \in Int
      <4>1. limit \in Nat /\ Cardinality(Keys) \in Nat
        BY TrackedUsed
      <4>2. Min({limit, Cardinality(Keys)}) \in Nat
        BY <4>1, MinOfTwo
      <4> QED BY <3>3, <4>2 DEF HeapBound
    <3> HIDE DEF h, d, bound
    <3>6. h <= bound
      BY <3>1, <3>2, <3>4, <3>5
    <3> QED BY <3>6 DEF h, bound
  <2> QED BY <2>1, <2>2, <2>3 DEF HeapOK, HeapEntriesOK
<1>2. CASE ~(Cardinality(t.heap) <= 2 * c + HeapSlack)
  <2> DEFINE t2 == [t EXCEPT !.heap = heap]
  <2>1. CompactHeap(t) = t2
    BY <1>2 DEF CompactHeap
  <2>2. those \subseteq Used(t)
    BY DEF Used, Occupied
  <2>3. heap \subseteq t.heap
    BY <2>2 DEF HeapEntriesOK
  <2>4. \A s \in Used(t) :
          t.slab[s].scheduled # None => <<t.slab[s].scheduled, t.slab[s].ticket, s>> \in heap
    BY DEF Used, Occupied
  <2>5. IsFiniteSet(heap) /\ Cardinality(heap) <= c
    <3> DEFINE f == [s \in those |-> <<t.slab[s].scheduled, t.slab[s].ticket, s>>]
    <3>1. f \in Surjection(those, heap)
      BY DEF Surjection
    <3>2. IsFiniteSet(Used(t)) /\ Cardinality(Used(t)) = c /\ c \in Nat
      BY TrackedUsed
    <3>3. IsFiniteSet(those) /\ Cardinality(those) <= Cardinality(Used(t))
      <4>1. those \in SUBSET Used(t)
        BY <2>2
      <4> HIDE DEF those
      <4> QED BY <3>2, <4>1, FS_Subset
    <3> HIDE DEF f, heap, those, c
    <3>4. IsFiniteSet(heap) /\ Cardinality(heap) <= Cardinality(those)
      BY <3>1, <3>3, FS_Surjection
    <3>5. Cardinality(heap) \in Nat /\ Cardinality(those) \in Nat
      BY <3>3, <3>4, FS_CardinalityType
    <3> QED BY <3>2, <3>3, <3>4, <3>5
  <2>6. Cardinality(heap) <= HeapBound(limit)
    <3> DEFINE h == Cardinality(heap)
               d == 2 * c + HeapSlack
               bound == HeapBound(limit)
    <3>1. h \in Nat /\ h <= c
      <4> HIDE DEF heap
      <4> QED BY <2>5, FS_CardinalityType
    <3>2. c <= d /\ d <= bound
      BY TrackedInBound
    <3>3. c \in Nat /\ HeapSlack \in Nat
      BY TrackedUsed, KeyedWindowAssumption
    <3>4. d \in Nat
      <4> HIDE DEF c
      <4> QED BY <3>3
    <3>5. bound \in Int
      <4>1. limit \in Nat /\ Cardinality(Keys) \in Nat
        BY TrackedUsed
      <4>2. Min({limit, Cardinality(Keys)}) \in Nat
        BY <4>1, MinOfTwo
      <4> QED BY <3>3, <4>2 DEF HeapBound
    <3> HIDE DEF h, d, bound, c
    <3>6. h <= bound
      BY <3>1, <3>2, <3>3, <3>4, <3>5
    <3> QED BY <3>6 DEF h, bound
  <2> HIDE DEF heap
  <2>7. /\ t2 \in Tables(I) /\ t2.heap = heap /\ t2.slab = t.slab /\ t2.tickets = t.tickets
    <3>1. heap \in SUBSET (Instants \X Nat \X Nat)
      BY <2>3 DEF Tables
    <3> QED BY <3>1 DEF Tables
  <2>8. t2 = [t EXCEPT !.heap = t2.heap]
    BY <2>7
  <2> HIDE DEF t2
  <2>9. Used(t2) = Used(t)
    BY <2>7 DEF Used
  <2>10. HeapOK(t2, limit)
    BY <2>3, <2>4, <2>5, <2>6, <2>7, <2>9 DEF HeapOK, HeapEntriesOK
  <2> QED BY <2>1, <2>3, <2>7, <2>8, <2>10
<1> QED BY <1>1, <1>2

\* Only what is scheduled was changed.
Rescheduled(t, t2) ==
  /\ Alike(t, t2) /\ SameKeys(t, t2) /\ SameLinks(t, t2, Used(t)) /\ SameOrigins(t, t2)
  /\ \A s \in Used(t) : t2.slab[s].core = t.slab[s].core

LEMMA RescheduledSound ==
  ASSUME NEW I, NEW t, NEW use, NEW limit, Sound(t, use, I, limit), NEW t2 \in Tables(I),
         Rescheduled(t, t2), HeapOK(t2, limit)
  PROVE  Sound(t2, use, I, limit)
<1>1. /\ t \in Tables(I) /\ SlotsOK(t, limit) /\ CreatedOK(t) /\ ListOn(t, Used(t), use)
      /\ Alike(t, t2) /\ SameKeys(t, t2) /\ SameLinks(t, t2, Used(t)) /\ SameOrigins(t, t2)
      /\ Used(t2) = Used(t)
  BY DEF Sound, Rescheduled, Alike
<1>2. SlotsOK(t2, limit) /\ CreatedOK(t2)
  BY <1>1, SameKeysSlotsOK, SameOriginsCreatedOK
<1>3. ListOn(t2, Used(t), use)
  BY <1>1, SameLinksListOn
<1> QED BY <1>1, <1>2, <1>3 DEF Sound

\* Slot s has a new entry in the heap.
EntryAdded(t, t2, s, deadline) ==
  /\ t2.heap = t.heap \cup {<<deadline, t.tickets + 1, s>>} /\ t2.slab[s].scheduled = deadline
  /\ \A x \in Used(t) \ {s} : t2.slab[x].scheduled = t.slab[x].scheduled

\* What the table is after an entry is scheduled, before the heap is compacted.
LEMMA EntryScheduled ==
  ASSUME NEW I, NEW t, NEW use, NEW limit, Sound(t, use, I, limit), NEW s \in Used(t),
         NEW deadline \in Instants
  PROVE  LET t2 == [t EXCEPT !.slab[s].ticket = t.tickets + 1,
                             !.slab[s].scheduled = deadline,
                             !.tickets = t.tickets + 1,
                             !.heap = @ \cup {<<deadline, t.tickets + 1, s>>}]
         IN /\ t2 \in Tables(I) /\ Rescheduled(t, t2) /\ HeapEntriesOK(t2)
            /\ EntryAdded(t, t2, s, deadline)
<1> DEFINE ticket == t.tickets + 1
           heap == t.heap \cup {<<deadline, ticket, s>>}
           e0 == [t.slab[s] EXCEPT !.ticket = ticket]
           t0 == [t EXCEPT !.slab[s].ticket = ticket]
           e == [e0 EXCEPT !.scheduled = deadline]
           t1 == [t0 EXCEPT !.slab[s].scheduled = deadline]
           t2 == [t1 EXCEPT !.tickets = ticket, !.heap = heap]
           goal == [t EXCEPT !.slab[s].ticket = t.tickets + 1,
                             !.slab[s].scheduled = deadline,
                             !.tickets = t.tickets + 1,
                             !.heap = @ \cup {<<deadline, t.tickets + 1, s>>}]
<1>1. t \in Tables(I) /\ HeapOK(t, limit)
  BY DEF Sound
<1>2. s \in DOMAIN t.slab /\ s \in Nat /\ t.slab[s] \in Entries(I) /\ \A x \in Used(t) : x \in DOMAIN t.slab
  BY <1>1, SlabDomain
<1>3. goal = [t1 EXCEPT !.tickets = ticket, !.heap = @ \cup {<<deadline, ticket, s>>}]
  OBVIOUS
<1>4. t.tickets \in Nat /\ ticket \in Nat /\ ticket = t.tickets + 1
  BY <1>1 DEF Tables
<1>5. heap \in SUBSET (Instants \X Nat \X Nat)
  <2>1. t.heap \in SUBSET (Instants \X Nat \X Nat)
    BY <1>1 DEF Tables
  <2> HIDE DEF ticket
  <2>2. <<deadline, ticket, s>> \in Instants \X Nat \X Nat
    BY <1>2, <1>4
  <2> QED BY <2>1, <2>2
<1> HIDE DEF ticket
<1>6. /\ e \in Entries(I) /\ e.key = t.slab[s].key /\ e.prev = t.slab[s].prev
      /\ e.next = t.slab[s].next /\ e.core = t.slab[s].core /\ e.created = t.slab[s].created
      /\ e.ticket = ticket /\ e.scheduled = deadline /\ e0 \in Entries(I)
  <2>1. deadline \in Moments
    BY InstantNat
  <2>2. /\ e0 \in Entries(I) /\ e0.key = t.slab[s].key /\ e0.prev = t.slab[s].prev
        /\ e0.next = t.slab[s].next /\ e0.core = t.slab[s].core /\ e0.created = t.slab[s].created
        /\ e0.ticket = ticket
    BY <1>2, <1>4 DEF Entries
  <2> HIDE DEF e0
  <2> QED BY <2>1, <2>2 DEF Entries
<1>7. /\ t1 \in Tables(I) /\ t1.slab[s] = e /\ OnlySlot(t, t1, s) /\ Used(t1) = Used(t)
  <2>1. Assigned(t, t0, s, e0)
    BY DEF Assigned
  <2>2. e \in Entries(I) \cup {Vacant} /\ e0 \in Entries(I) \cup {Vacant}
    BY <1>6
  <2> HIDE DEF e0
  <2>3. t0 \in Tables(I) /\ t0.slab[s] = e0 /\ OnlySlot(t, t0, s) /\ Used(t0) = Used(t) \cup {s}
    <3> HIDE DEF t0
    <3> QED BY <1>1, <1>2, <1>6, <2>1, <2>2, SlotSet, EntrySet
  <2> HIDE DEF t0
  <2>4. s \in DOMAIN t0.slab
    BY <1>2, <2>3 DEF OnlySlot
  <2>5. Assigned(t0, t1, s, e)
    BY <2>3 DEF Assigned
  <2> HIDE DEF t1, e
  <2>6. t1 \in Tables(I) /\ t1.slab[s] = e /\ OnlySlot(t0, t1, s) /\ Used(t1) = Used(t0) \cup {s}
    BY <1>6, <2>2, <2>3, <2>4, <2>5, SlotSet, EntrySet
  <2>7. OnlySlot(t, t1, s)
    BY <2>3, <2>6 DEF OnlySlot
  <2> QED BY <2>3, <2>6, <2>7
<1> HIDE DEF e, e0, heap, t0
<1>8. goal = t2
  <2>1. t1.heap = t.heap
    BY <1>7 DEF OnlySlot
  <2> HIDE DEF t1, goal
  <2> QED BY <1>3, <2>1 DEF heap
<1> HIDE DEF t1
<1>9. /\ t2 \in Tables(I) /\ t2.slab = t1.slab /\ t2.tickets = ticket /\ t2.heap = heap
      /\ t2.index = t1.index /\ t2.free = t1.free /\ t2.head = t1.head /\ t2.tail = t1.tail
      /\ t2.seq = t1.seq
  BY <1>4, <1>5, <1>7 DEF Tables
<1> HIDE DEF t2
<1>10. /\ Len(t2.slab) = Len(t.slab) /\ DOMAIN t2.slab = DOMAIN t.slab /\ t2.slab[s] = e
      /\ (\A x \in (DOMAIN t.slab) \ {s} : t2.slab[x] = t.slab[x])
      /\ t2.index = t.index /\ t2.free = t.free /\ t2.head = t.head /\ t2.tail = t.tail
      /\ t2.seq = t.seq
  BY <1>7, <1>9 DEF OnlySlot
<1>11. Used(t2) = Used(t)
  BY <1>7, <1>9 DEF Used
<1>12. \A x \in Used(t) :
         /\ t2.slab[x].key = t.slab[x].key /\ t2.slab[x].prev = t.slab[x].prev
         /\ t2.slab[x].next = t.slab[x].next /\ t2.slab[x].created = t.slab[x].created
         /\ t2.slab[x].core = t.slab[x].core
  <2> TAKE x \in Used(t)
  <2>1. CASE x = s
    BY <1>6, <1>10, <2>1
  <2>2. CASE x # s
    <3>1. t2.slab[x] = t.slab[x]
      BY <1>2, <1>10, <2>2
    <3> QED BY <3>1
  <2> QED BY <2>1, <2>2
<1>13. Rescheduled(t, t2)
  BY <1>10, <1>11, <1>12 DEF Rescheduled, Alike, SameKeys, SameLinks, SameOrigins
<1>14. HeapEntriesOK(t2)
  <2> DEFINE new == <<deadline, ticket, s>>
  <2>1. /\ IsFiniteSet(t.heap)
        /\ \A a \in t.heap : a[2] \in 1..t.tickets /\ a[3] \in DOMAIN t.slab
        /\ \A a, b \in t.heap : a[2] = b[2] => a = b
        /\ \A x \in Used(t) :
             /\ t.slab[x].ticket \in 0..t.tickets
             /\ t.slab[x].scheduled # None => <<t.slab[x].scheduled, t.slab[x].ticket, x>> \in t.heap
    BY <1>1 DEF HeapOK
  <2>2. t2.heap = t.heap \cup {new} /\ new[2] = ticket /\ new[3] = s
    BY <1>9 DEF heap
  <2>3. IsFiniteSet(t2.heap)
    <3> HIDE DEF new
    <3> QED BY <2>1, <2>2, FS_AddElement
  <2>4. \A a \in t.heap : a[2] # ticket /\ a[2] \in 1..ticket
    BY <1>4, <2>1
  <2>5. ASSUME NEW x \in Used(t)
        PROVE  /\ t2.slab[x].ticket \in 0..ticket
               /\ t2.slab[x].scheduled # None => <<t2.slab[x].scheduled, t2.slab[x].ticket, x>> \in t2.heap
    <3>1. CASE x = s
      <4>1. t2.slab[x].ticket = ticket /\ t2.slab[x].scheduled = deadline
        BY <1>6, <1>10, <3>1
      <4> QED BY <1>4, <2>2, <3>1, <4>1
    <3>2. CASE x # s
      <4>1. t2.slab[x] = t.slab[x]
        BY <1>2, <1>10, <3>2
      <4>2. t.slab[x].ticket \in 0..t.tickets
        BY <2>1
      <4>3. t.slab[x].ticket \in 0..ticket
        BY <1>4, <4>2
      <4> QED BY <2>1, <2>2, <4>1, <4>3
    <3> QED BY <3>1, <3>2
  <2> HIDE DEF new
  <2>6. \A a \in t2.heap : a[2] \in 1..ticket /\ a[3] \in DOMAIN t2.slab
    BY <1>2, <1>4, <1>10, <2>1, <2>2, <2>4
  <2>7. \A a, b \in t2.heap : a[2] = b[2] => a = b
    BY <2>1, <2>2, <2>4
  <2> QED BY <1>9, <1>11, <2>3, <2>5, <2>6, <2>7 DEF HeapEntriesOK
<1>15. EntryAdded(t, t2, s, deadline)
  <2>1. t2.heap = t.heap \cup {<<deadline, t.tickets + 1, s>>}
    BY <1>4, <1>9 DEF heap
  <2>2. t2.slab[s].scheduled = deadline
    BY <1>6, <1>10
  <2>3. \A x \in Used(t) \ {s} : t2.slab[x] = t.slab[x]
    BY <1>2, <1>10
  <2> QED BY <2>1, <2>2, <2>3 DEF EntryAdded
<1> HIDE DEF goal
<1>16. goal \in Tables(I) /\ Rescheduled(t, goal) /\ HeapEntriesOK(goal) /\ EntryAdded(t, goal, s, deadline)
  BY <1>9, <1>13, <1>14, <1>15, <1>8
<1> QED BY <1>16 DEF goal

\* Only the heap was changed.
HeapChanged(t, t2) == t2 = [t EXCEPT !.heap = t2.heap]

LEMMA HeapChangedSame ==
  ASSUME NEW I, NEW t \in Tables(I), NEW t2, HeapChanged(t, t2)
  PROVE  /\ t2.slab = t.slab /\ t2.index = t.index /\ t2.free = t.free /\ t2.head = t.head
         /\ t2.tail = t.tail /\ t2.seq = t.seq /\ t2.tickets = t.tickets /\ Used(t2) = Used(t)
         /\ Rescheduled(t, t2)
<1>1. /\ t2.slab = t.slab /\ t2.index = t.index /\ t2.free = t.free /\ t2.head = t.head
      /\ t2.tail = t.tail /\ t2.seq = t.seq /\ t2.tickets = t.tickets
  <2> DEFINE h == t2.heap
             u == [t EXCEPT !.heap = h]
  <2>1. t2 = u
    BY DEF HeapChanged
  <2> HIDE DEF h
  <2>2. /\ u.slab = t.slab /\ u.index = t.index /\ u.free = t.free /\ u.head = t.head
        /\ u.tail = t.tail /\ u.seq = t.seq /\ u.tickets = t.tickets
    BY DEF Tables
  <2> HIDE DEF u
  <2> QED BY <2>1, <2>2
<1>2. Used(t2) = Used(t)
  BY <1>1 DEF Used
<1> QED BY <1>1, <1>2 DEF Rescheduled, Alike, SameKeys, SameLinks, SameOrigins

LEMMA RescheduledTwice ==
  ASSUME NEW t, NEW t2, NEW t3, Rescheduled(t, t2), Rescheduled(t2, t3)
  PROVE  Rescheduled(t, t3)
BY DEF Rescheduled, Alike, SameKeys, SameLinks, SameOrigins

\* Slot s will be found when it is due, or at the next instant if it is due already;
\* nothing new is due now.
WillBeFound(t, t2, s) ==
  LET due == Deadline(spec, t.slab[s].core)
      at == t2.slab[s].scheduled
  IN /\ due # None /\ due > now => at # None /\ at <= due
     /\ due # None /\ ~(due > now) /\ now < MaxInstant => at # None /\ at <= now + 1
     /\ \A x \in Used(t) \ {s} : t2.slab[x].scheduled = t.slab[x].scheduled
     /\ \A a \in t2.heap : a[1] <= now => a \in t.heap

\* schedule
LEMMA ScheduleSound ==
  ASSUME spec \in Policies, now \in Instants,
         NEW I, NEW t, NEW use, NEW limit \in Nat, Sound(t, use, I, limit), NEW s \in Used(t)
  PROVE  /\ Sound(Schedule(t, s), use, I, limit) /\ Rescheduled(t, Schedule(t, s))
         /\ WillBeFound(t, Schedule(t, s), s)
<1> DEFINE core == t.slab[s].core
           due == Deadline(spec, core)
           deadline == IF due > now THEN due ELSE CheckedAdd(now, 1)
           skip == \/ due = None \/ deadline = None
                   \/ t.slab[s].scheduled # None /\ t.slab[s].scheduled <= deadline
           t2 == [t EXCEPT !.slab[s].ticket = t.tickets + 1,
                           !.slab[s].scheduled = deadline,
                           !.tickets = t.tickets + 1,
                           !.heap = @ \cup {<<deadline, t.tickets + 1, s>>}]
<1>1. t \in Tables(I) /\ SlotsOK(t, limit) /\ t.slab[s] \in Entries(I)
  BY SlabDomain DEF Sound
<1>2. Schedule(t, s) = IF skip THEN t ELSE CompactHeap(t2)
  BY DEF Schedule
<1>3. due \in Moments
  BY <1>1, DeadlineType DEF Entries
<1>4. now \in Nat /\ MaxInstant \in Nat /\ now <= MaxInstant
  BY MaxInstantType DEF Instants
<1> DEFINE found(at) == /\ due # None /\ due > now => at # None /\ at <= due
                        /\ due # None /\ ~(due > now) /\ now < MaxInstant => at # None /\ at <= now + 1
<1>5. \A t3 : WillBeFound(t, t3, s) <=>
        /\ found(t3.slab[s].scheduled)
        /\ \A x \in Used(t) \ {s} : t3.slab[x].scheduled = t.slab[x].scheduled
        /\ \A a \in t3.heap : a[1] <= now => a \in t.heap
  BY DEF WillBeFound
<1> HIDE DEF due
<1>6. deadline \in Moments
  <2>1. CheckedAdd(now, 1) \in Moments
    BY InstantNat, CheckedAddType
  <2> QED BY <1>3, <2>1
<1>7. /\ due # None => IF due > now THEN deadline = due
                       ELSE now < MaxInstant => deadline = now + 1 /\ deadline # None
      /\ deadline # None => deadline > now
  BY <1>3, <1>4 DEF CheckedAdd, Moments, None, Instants
<1> HIDE DEF deadline
<1>8. CASE skip
  <2>1. Rescheduled(t, t)
    BY DEF Rescheduled, Alike, SameKeys, SameLinks, SameOrigins
  <2>2. found(t.slab[s].scheduled)
    BY <1>7, <1>8
  <2>3. WillBeFound(t, t, s)
    BY <1>5, <2>2
  <2> QED BY <1>2, <1>8, <2>1, <2>3
<1>9. CASE ~skip
  <2>1. deadline \in Instants
    BY <1>6, <1>9 DEF Moments
  <2>2. t2 \in Tables(I) /\ Rescheduled(t, t2) /\ HeapEntriesOK(t2) /\ EntryAdded(t, t2, s, deadline)
    BY <2>1, EntryScheduled
  <2>3. Schedule(t, s) = CompactHeap(t2)
    BY <1>2, <1>9
  <2> HIDE DEF t2
  <2>4. SlotsOK(t2, limit)
    BY <1>1, <2>2, SameKeysSlotsOK DEF Rescheduled
  <2>5. /\ CompactHeap(t2) \in Tables(I) /\ HeapOK(CompactHeap(t2), limit)
        /\ HeapChanged(t2, CompactHeap(t2)) /\ CompactHeap(t2).heap \subseteq t2.heap
    BY <2>2, <2>4, CompactHeapSound DEF HeapChanged
  <2>6. Rescheduled(t2, CompactHeap(t2)) /\ CompactHeap(t2).slab = t2.slab
    BY <2>2, <2>5, HeapChangedSame
  <2>7. Rescheduled(t, CompactHeap(t2))
    BY <2>2, <2>6, RescheduledTwice
  <2>8. Sound(CompactHeap(t2), use, I, limit)
    BY <2>5, <2>7, RescheduledSound
  <2>9. found(deadline)
    BY <1>3, <1>4, <1>7, <1>9 DEF Moments, Instants, None
  <2>10. \A a \in t2.heap : a[1] <= now => a \in t.heap
    <3> DEFINE new == <<deadline, t.tickets + 1, s>>
    <3>1. new[1] = deadline /\ deadline > now /\ deadline \in Nat
      BY <1>7, <1>9, <2>1, InstantNat
    <3>2. ~(new[1] <= now)
      <4> HIDE DEF new
      <4> QED BY <1>4, <3>1
    <3>3. t2.heap = t.heap \cup {new}
      BY <2>2 DEF EntryAdded
    <3> HIDE DEF new
    <3> QED BY <3>2, <3>3
  <2>11. WillBeFound(t, CompactHeap(t2), s)
    <3>1. /\ CompactHeap(t2).slab[s].scheduled = deadline
          /\ \A x \in Used(t) \ {s} : CompactHeap(t2).slab[x].scheduled = t.slab[x].scheduled
      BY <2>2, <2>6 DEF EntryAdded
    <3>2. \A a \in CompactHeap(t2).heap : a[1] <= now => a \in t.heap
      BY <2>5, <2>10
    <3> HIDE DEF found
    <3> QED BY <1>5, <2>9, <3>1, <3>2
  <2> QED BY <2>3, <2>7, <2>8, <2>11
<1> QED BY <1>8, <1>9

\* The earliest entry; the tickets decide between equal deadlines.
LEMMA PeekProperties ==
  ASSUME NEW I, NEW t \in Tables(I), t.heap # {},
         \A a, b \in t.heap : a[2] = b[2] => a = b
  PROVE  Peek(t) \in t.heap /\ \A b \in t.heap \ {Peek(t)} : Before(Peek(t), b)
<1>1. \A a \in t.heap : a[1] \in Nat /\ a[2] \in Nat
  <2>1. t.heap \in SUBSET (Instants \X Nat \X Nat)
    BY DEF Tables
  <2> QED BY <2>1, InstantNat
<1> DEFINE D == {a[1] : a \in t.heap}
<1>2. D \in SUBSET Nat /\ D # {}
  BY <1>1
<1>3. PICK d \in D : \A x \in D : d <= x
  <2> HIDE DEF D
  <2> QED BY <1>2, LeastMember
<1> DEFINE T == {a[2] : a \in {b \in t.heap : b[1] = d}}
<1>4. T \in SUBSET Nat /\ T # {}
  BY <1>1, <1>3
<1>5. PICK n \in T : \A x \in T : n <= x
  <2> HIDE DEF T
  <2> QED BY <1>4, LeastMember
<1>6. PICK a \in t.heap : a[1] = d /\ a[2] = n
  BY <1>5
<1>7. ASSUME NEW b \in t.heap \ {a} PROVE Before(a, b)
  <2>1. d <= b[1] /\ d \in Nat /\ b[1] \in Nat /\ n \in Nat /\ b[2] \in Nat /\ b[2] # n
    BY <1>1, <1>3, <1>5, <1>6
  <2>2. CASE b[1] = d
    <3>1. b[2] \in T
      BY <2>2
    <3>2. n <= b[2]
      BY <1>5, <3>1
    <3> HIDE DEF D, T
    <3> QED BY <1>6, <2>1, <2>2, <3>2 DEF Before
  <2>3. CASE b[1] # d
    <3> HIDE DEF D, T
    <3> QED BY <1>6, <2>1, <2>3 DEF Before
  <2> QED BY <2>2, <2>3
<1>8. \E x \in t.heap : \A b \in t.heap \ {x} : Before(x, b)
  BY <1>7
<1> QED BY <1>8 DEF Peek

LEMMA PoppedSound ==
  ASSUME NEW I, NEW t, NEW use, NEW limit \in Nat, Sound(t, use, I, limit), NEW top \in t.heap,
         ~Live(t, top)
  PROVE  Sound([t EXCEPT !.heap = t.heap \ {top}], use, I, limit)
<1> DEFINE heap == t.heap \ {top}
           t2 == [t EXCEPT !.heap = heap]
<1>1. t \in Tables(I) /\ HeapOK(t, limit)
  BY DEF Sound
<1>2. t2 \in Tables(I) /\ t2.heap = heap /\ t2.slab = t.slab /\ t2.tickets = t.tickets
  BY <1>1 DEF Tables
<1>3. HeapChanged(t, t2)
  BY <1>2 DEF HeapChanged
<1> HIDE DEF t2
<1>4. Used(t2) = Used(t) /\ Rescheduled(t, t2)
  BY <1>1, <1>3, HeapChangedSame
<1>5. IsFiniteSet(heap) /\ Cardinality(heap) <= HeapBound(limit)
  <2>1. IsFiniteSet(t.heap) /\ Cardinality(t.heap) \in Nat /\ Cardinality(t.heap) <= HeapBound(limit)
    BY <1>1, FS_CardinalityType DEF HeapOK
  <2>2. heap \in SUBSET t.heap
    OBVIOUS
  <2>3. HeapBound(limit) \in Int
    <3>1. limit \in Nat /\ Cardinality(Keys) \in Nat
      BY KeyedWindowAssumption, FS_CardinalityType
    <3>2. Min({limit, Cardinality(Keys)}) \in Nat
      BY <3>1, MinOfTwo
    <3> QED BY <3>2, KeyedWindowAssumption DEF HeapBound
  <2> HIDE DEF heap
  <2>4. IsFiniteSet(heap) /\ Cardinality(heap) <= Cardinality(t.heap) /\ Cardinality(heap) \in Nat
    BY <2>1, <2>2, FS_Subset, FS_CardinalityType
  <2> QED BY <2>1, <2>3, <2>4
<1>6. ASSUME NEW s \in Used(t), t.slab[s].scheduled # None
      PROVE  <<t.slab[s].scheduled, t.slab[s].ticket, s>> \in heap
  <2>1. <<t.slab[s].scheduled, t.slab[s].ticket, s>> \in t.heap
    BY <1>1, <1>6 DEF HeapOK
  <2>2. <<t.slab[s].scheduled, t.slab[s].ticket, s>> # top
    <3> SUFFICES ASSUME <<t.slab[s].scheduled, t.slab[s].ticket, s>> = top PROVE FALSE
      OBVIOUS
    <3>1. top[3] = s /\ top[2] = t.slab[s].ticket
      OBVIOUS
    <3> QED BY <3>1 DEF Live, Occupied, Used
  <2> QED BY <2>1, <2>2
<1>7. HeapOK(t2, limit)
  BY <1>1, <1>2, <1>4, <1>5, <1>6 DEF HeapOK
<1>8. Sound(t2, use, I, limit)
  BY <1>2, <1>4, <1>7, RescheduledSound
<1> QED BY <1>8 DEF t2

\* An entry is taken off the heap, and only its slot is told.
EntryTaken(t, t2, top) ==
  /\ t2.heap = t.heap \ {top}
  /\ \A x \in Used(t) \ {top[3]} : t2.slab[x].scheduled = t.slab[x].scheduled

LEMMA UnscheduledSound ==
  ASSUME NEW I, NEW t, NEW use, NEW limit \in Nat, Sound(t, use, I, limit), NEW top \in t.heap,
         Live(t, top),
         NEW t2, t2 = [[t EXCEPT !.heap = t.heap \ {top}] EXCEPT !.slab[top[3]].scheduled = None]
  PROVE  /\ Sound(t2, use, I, limit) /\ Rescheduled(t, t2) /\ EntryTaken(t, t2, top)
<1> DEFINE s == top[3]
           heap == t.heap \ {top}
           t1 == [t EXCEPT !.heap = heap]
           e == [t.slab[s] EXCEPT !.scheduled = None]
           u == [t1 EXCEPT !.slab[s].scheduled = None]
<1>1. t \in Tables(I) /\ HeapOK(t, limit)
  BY DEF Sound
<1>2. s \in Used(t)
  BY DEF Live, Occupied, Used
<1>3. s \in DOMAIN t.slab /\ t.slab[s] \in Entries(I) /\ \A x \in Used(t) : x \in DOMAIN t.slab
  BY <1>1, <1>2, SlabDomain
<1>4. t2 = u
  OBVIOUS
<1>5. /\ t1 \in Tables(I) /\ t1.heap = heap /\ t1.slab = t.slab /\ t1.tickets = t.tickets
      /\ t1.index = t.index /\ t1.free = t.free /\ t1.head = t.head /\ t1.tail = t.tail
      /\ t1.seq = t.seq
  BY <1>1 DEF Tables
<1>6. /\ e \in Entries(I) /\ e.key = t.slab[s].key /\ e.prev = t.slab[s].prev
      /\ e.next = t.slab[s].next /\ e.core = t.slab[s].core /\ e.created = t.slab[s].created
      /\ e.ticket = t.slab[s].ticket /\ e.scheduled = None
  <2>1. None \in Moments
    BY DEF Moments
  <2> HIDE DEF s
  <2> QED BY <1>3, <2>1 DEF Entries
<1> HIDE DEF t1, heap
<1>7. Assigned(t1, u, s, e)
  BY <1>5 DEF Assigned
<1> HIDE DEF s, e, u
<1>8. u \in Tables(I) /\ u.slab[s] = e /\ OnlySlot(t1, u, s) /\ Used(u) = Used(t1) \cup {s}
  <2>1. e \in Entries(I) \cup {Vacant}
    BY <1>6
  <2>2. s \in DOMAIN t1.slab
    BY <1>3, <1>5
  <2> QED BY <1>5, <1>6, <1>7, <2>1, <2>2, SlotSet, EntrySet
<1>9. /\ Len(u.slab) = Len(t.slab) /\ DOMAIN u.slab = DOMAIN t.slab /\ u.heap = heap
      /\ (\A x \in (DOMAIN t.slab) \ {s} : u.slab[x] = t.slab[x])
      /\ u.index = t.index /\ u.free = t.free /\ u.head = t.head /\ u.tail = t.tail
      /\ u.seq = t.seq /\ u.tickets = t.tickets
  BY <1>5, <1>8 DEF OnlySlot
<1>10. Used(u) = Used(t)
  <2>1. Used(t1) = Used(t)
    BY <1>5 DEF Used
  <2> QED BY <1>2, <1>8, <2>1
<1>11. \A x \in Used(t) :
         /\ u.slab[x].key = t.slab[x].key /\ u.slab[x].prev = t.slab[x].prev
         /\ u.slab[x].next = t.slab[x].next /\ u.slab[x].created = t.slab[x].created
         /\ u.slab[x].core = t.slab[x].core /\ u.slab[x].ticket = t.slab[x].ticket
         /\ u.slab[x].scheduled = (IF x = s THEN None ELSE t.slab[x].scheduled)
  <2> TAKE x \in Used(t)
  <2>1. CASE x = s
    BY <1>6, <1>8, <2>1
  <2>2. CASE x # s
    <3>1. u.slab[x] = t.slab[x]
      BY <1>3, <1>9, <2>2
    <3> QED BY <2>2, <3>1
  <2> QED BY <2>1, <2>2
<1>12. Rescheduled(t, u)
  BY <1>9, <1>10, <1>11 DEF Rescheduled, Alike, SameKeys, SameLinks, SameOrigins
<1>13. HeapOK(u, limit)
  <2>1. IsFiniteSet(heap) /\ Cardinality(heap) <= HeapBound(limit)
    <3>1. IsFiniteSet(t.heap) /\ Cardinality(t.heap) \in Nat /\ Cardinality(t.heap) <= HeapBound(limit)
      BY <1>1, FS_CardinalityType DEF HeapOK
    <3>2. heap \in SUBSET t.heap
      BY DEF heap
    <3>3. HeapBound(limit) \in Int
      <4>1. limit \in Nat /\ Cardinality(Keys) \in Nat
        BY KeyedWindowAssumption, FS_CardinalityType
      <4>2. Min({limit, Cardinality(Keys)}) \in Nat
        BY <4>1, MinOfTwo
      <4> QED BY <4>2, KeyedWindowAssumption DEF HeapBound
    <3>4. IsFiniteSet(heap) /\ Cardinality(heap) <= Cardinality(t.heap) /\ Cardinality(heap) \in Nat
      BY <3>1, <3>2, FS_Subset, FS_CardinalityType
    <3> QED BY <3>1, <3>3, <3>4
  <2>2. ASSUME NEW x \in Used(t), u.slab[x].scheduled # None
        PROVE  <<u.slab[x].scheduled, u.slab[x].ticket, x>> \in heap
    <3>1. x # s /\ u.slab[x].scheduled = t.slab[x].scheduled /\ u.slab[x].ticket = t.slab[x].ticket
      BY <1>11, <2>2
    <3>2. <<t.slab[x].scheduled, t.slab[x].ticket, x>> \in t.heap
      BY <1>1, <2>2, <3>1 DEF HeapOK
    <3>3. <<t.slab[x].scheduled, t.slab[x].ticket, x>> # top
      <4> SUFFICES ASSUME <<t.slab[x].scheduled, t.slab[x].ticket, x>> = top PROVE FALSE
        OBVIOUS
      <4>1. top[3] = x
        OBVIOUS
      <4> QED BY <3>1, <4>1 DEF s
    <3> QED BY <3>1, <3>2, <3>3 DEF heap
  <2>3. /\ \A a \in heap : a[2] \in 1..t.tickets /\ a[3] \in DOMAIN t.slab
        /\ \A a, b \in heap : a[2] = b[2] => a = b
    BY <1>1 DEF HeapOK, heap
  <2>4. \A x \in Used(t) : u.slab[x].ticket \in 0..t.tickets
    BY <1>1, <1>11 DEF HeapOK
  <2> QED BY <1>9, <1>10, <2>1, <2>2, <2>3, <2>4 DEF HeapOK
<1>14. Sound(u, use, I, limit)
  BY <1>8, <1>12, <1>13, RescheduledSound
<1>15. \A x \in Used(t) \ {s} : u.slab[x].scheduled = t.slab[x].scheduled
  BY <1>11
<1>16. u.heap = t.heap \ {top}
  BY <1>9 DEF heap
<1>17. EntryTaken(t, u, top)
  BY <1>15, <1>16 DEF EntryTaken, s
<1> QED BY <1>4, <1>12, <1>14, <1>17

-----------------------------------------------------------------------------
(* expire, evict_one and touch. *)

\* A table with the outlet it emits to.
States(use, I, limit) ==
  {acc \in [table : Tables(I), out : Outlets] : Sound(acc.table, use, I, limit)}

LEMMA StateOf ==
  ASSUME NEW use, NEW I, NEW limit, NEW t, Sound(t, use, I, limit), NEW out \in Outlets
  PROVE  [table |-> t, out |-> out] \in States(use, I, limit)
<1>1. t \in Tables(I)
  BY DEF Sound
<1> QED BY <1>1 DEF States

LEMMA StateWith ==
  ASSUME NEW use, NEW I, NEW limit, NEW acc \in States(use, I, limit), NEW use2, NEW t,
         Sound(t, use2, I, limit)
  PROVE  [acc EXCEPT !.table = t] \in States(use2, I, limit)
<1>1. t \in Tables(I) /\ acc.out \in Outlets
  BY DEF Sound, States
<1>2. [acc EXCEPT !.table = t] = [table |-> t, out |-> acc.out]
  BY DEF States
<1> QED BY <1>1, <1>2, StateOf

LEMMA ExpireOneSound ==
  ASSUME spec \in Policies, now \in Instants, NEW anc \in Instants,
         NEW I \in SUBSET Nat, NEW use, NEW limit \in Nat,
         NEW acc \in States(use, I, limit), acc.table.heap # {}
  PROVE  ExpireOne(acc, anc) \in States(use, I, limit)
<1> DEFINE t0 == acc.table
           top == Peek(t0)
           slot == top[3]
           popped == [t0 EXCEPT !.heap = t0.heap \ {top}]
           t == [popped EXCEPT !.slab[slot].scheduled = None]
           entry == t.slab[slot]
           due == Deadline(spec, entry.core)
           out == [acc.out EXCEPT !.key = entry.key]
           ticked == OnTick(spec, entry.core, anc, now, out)
           after == [t EXCEPT !.slab[slot].core = ticked.core]
           next == IF IsEmpty(ticked.core) THEN RemoveKey(after, slot) ELSE Schedule(after, slot)
<1>1. t0 \in Tables(I) /\ Sound(t0, use, I, limit) /\ acc.out \in Outlets
  BY DEF States
<1>2. ExpireOne(acc, anc)
        = IF ~Live(popped, top) THEN [acc EXCEPT !.table = popped]
          ELSE IF due > now THEN [acc EXCEPT !.table = Schedule(t, slot)]
          ELSE [out |-> ticked.out, table |-> next]
  BY DEF ExpireOne
<1>3. top \in t0.heap
  <2>1. \A a, b \in t0.heap : a[2] = b[2] => a = b
    BY <1>1 DEF Sound, HeapOK
  <2> HIDE DEF t0
  <2> QED BY <1>1, <2>1, PeekProperties DEF t0
<1>4. Live(popped, top) <=> Live(t0, top)
  <2>1. popped.slab = t0.slab
    BY <1>1 DEF Tables
  <2> HIDE DEF popped, top, t0
  <2> QED BY <2>1 DEF Live, Occupied
<1> HIDE DEF top
<1>5. CASE ~Live(t0, top)
  <2>1. Sound(popped, use, I, limit)
    <3> HIDE DEF t0
    <3> QED BY <1>1, <1>3, <1>5, PoppedSound
  <2> HIDE DEF popped
  <2>2. ExpireOne(acc, anc) = [acc EXCEPT !.table = popped]
    BY <1>2, <1>4, <1>5
  <2> QED BY <2>1, <2>2, StateWith
<1>6. CASE Live(t0, top)
  <2>1. Sound(t, use, I, limit) /\ Rescheduled(t0, t)
    <3>1. t = [[t0 EXCEPT !.heap = t0.heap \ {top}] EXCEPT !.slab[top[3]].scheduled = None]
      OBVIOUS
    <3> HIDE DEF t, t0
    <3> QED BY <1>1, <1>3, <1>6, <3>1, UnscheduledSound
  <2>2. slot \in Used(t0)
    BY <1>6 DEF Live, Occupied, Used
  <2> HIDE DEF slot, popped
  <2>3. ExpireOne(acc, anc)
          = IF due > now THEN [acc EXCEPT !.table = Schedule(t, slot)]
            ELSE [out |-> ticked.out, table |-> next]
    BY <1>2, <1>4, <1>6
  <2> HIDE DEF t, t0
  <2>4. slot \in Used(t) /\ t \in Tables(I) /\ entry \in Entries(I)
    BY <2>1, <2>2, SlabDomain DEF Rescheduled, Alike, Sound
  <2>5. entry.core \in Cores(I) /\ entry.key \in Keys
    BY <2>4 DEF Entries
  <2> HIDE DEF entry
  <2>6. CASE due > now
    <3>1. Sound(Schedule(t, slot), use, I, limit)
      BY <2>1, <2>4, ScheduleSound
    <3>2. ExpireOne(acc, anc) = [acc EXCEPT !.table = Schedule(t, slot)]
      BY <2>3, <2>6
    <3> QED BY <3>1, <3>2, StateWith
  <2>7. CASE ~(due > now)
    <3>1. out \in Outlets
      BY <1>1, <2>5 DEF Outlets
    <3> HIDE DEF out
    <3>2. ticked.core \in Cores(I) /\ ticked.out \in Outlets
      <4>1. ticked \in Results(I)
        BY <2>5, <3>1, OnTickType
      <4> QED BY <4>1 DEF Results
    <3> HIDE DEF ticked
    <3>3. CoreAssigned(t, after, slot, ticked.core)
      BY DEF CoreAssigned
    <3> HIDE DEF after
    <3>4. Sound(after, use, I, limit) /\ Used(after) = Used(t)
      BY <2>1, <2>4, <3>2, <3>3, CoreSet
    <3>5. slot \in Used(after)
      BY <2>4, <3>4
    <3>6. Sound(next, use, I, limit)
      BY <3>4, <3>5, RemoveKeySound, ScheduleSound
    <3> HIDE DEF next
    <3>7. ExpireOne(acc, anc) = [table |-> next, out |-> ticked.out]
      BY <2>3, <2>7
    <3> QED BY <3>2, <3>6, <3>7, StateOf
  <2> QED BY <2>6, <2>7
<1> QED BY <1>5, <1>6

LEMMA RoundSound ==
  ASSUME spec \in Policies, now \in Instants, NEW anc \in Instants,
         NEW I \in SUBSET Nat, NEW use, NEW limit \in Nat, NEW acc \in States(use, I, limit)
  PROVE  Round(acc, anc) \in States(use, I, limit)
BY ExpireOneSound DEF Round

\* What expire goes through, round by round.
Expires(run, t, anc, outlet) ==
  /\ Cardinality(t.heap) \in Nat /\ run[0] = [table |-> t, out |-> outlet]
  /\ \A n \in 1..Cardinality(t.heap) : run[n] = Round(run[n - 1], anc)
  /\ Expire(t, anc, outlet) = run[Cardinality(t.heap)]

LEMMA ExpireRun ==
  ASSUME spec \in Policies, now \in Instants, NEW anc \in Instants,
         NEW I \in SUBSET Nat, NEW use, NEW limit \in Nat,
         NEW t, Sound(t, use, I, limit), NEW outlet \in Outlets
  PROVE  \E run \in [0..Cardinality(t.heap) -> States(use, I, limit)] : Expires(run, t, anc, outlet)
<1> DEFINE V == States(use, I, limit)
           k == Cardinality(t.heap)
           base == [table |-> t, out |-> outlet]
           step == [n \in 1..k |-> [acc \in V |-> Round(acc, anc)]]
           IsRun(g) == g = [n \in 0..k |-> IF n = 0 THEN base ELSE Round(g[n - 1], anc)]
           run == CHOOSE g : IsRun(g)
<1>1. k \in Nat
  BY FS_CardinalityType DEF Sound, HeapOK
<1>2. base \in V
  BY StateOf
<1>3. \A acc \in V : Round(acc, anc) \in V
  BY RoundSound
<1>4. Expire(t, anc, outlet) = run[k]
  BY DEF Expire
<1> HIDE DEF k, base, V
<1>5. step \in [1..k -> [V -> V]]
  BY <1>3
<1>6. \E g : IsRun(g)
  <2>1. PICK g \in [0..k -> V] : Runs(g, k, base, step)
    <3> HIDE DEF step
    <3> QED BY <1>1, <1>2, <1>5, Recursion
  <2>2. ASSUME NEW n \in 0..k
        PROVE  g[n] = IF n = 0 THEN base ELSE Round(g[n - 1], anc)
    <3>1. CASE n = 0
      BY <2>1, <3>1 DEF Runs
    <3>2. CASE n # 0
      <4>1. n \in 1..k /\ n - 1 \in 0..k
        BY <1>1, <3>2
      <4>2. g[n - 1] \in V /\ g[n] = step[n][g[n - 1]]
        BY <2>1, <4>1 DEF Runs
      <4> QED BY <3>2, <4>1, <4>2
    <3> QED BY <3>1, <3>2
  <2>3. g = [n \in 0..k |-> g[n]]
    OBVIOUS
  <2>4. IsRun(g)
    BY <2>2, <2>3
  <2> QED BY <2>4
<1>7. run = [n \in 0..k |-> IF n = 0 THEN base ELSE Round(run[n - 1], anc)]
  BY <1>6
<1> HIDE DEF run, step
<1>8. \A n \in 0..k : run[n] = IF n = 0 THEN base ELSE Round(run[n - 1], anc)
  BY <1>7
<1>9. run[0] = base /\ \A n \in 1..k : run[n] = Round(run[n - 1], anc)
  <2>1. 0 \in 0..k /\ \A n \in 1..k : n \in 0..k /\ n # 0
    BY <1>1
  <2> QED BY <1>8, <2>1
<1>10. \A n \in 0..k : run[n] \in V
  <2>1. run[0] \in V
    BY <1>2, <1>9
  <2>2. \A n \in 1..k : run[n - 1] \in V => run[n] \in V
    BY <1>3, <1>9
  <2> QED BY <1>1, <2>1, <2>2, Invariance
<1>11. run \in [0..k -> V]
  BY <1>7, <1>10
<1> QED BY <1>1, <1>4, <1>9, <1>11 DEF Expires, V, base, k

LEMMA ExpireSound ==
  ASSUME spec \in Policies, now \in Instants, NEW anc \in Instants,
         NEW I \in SUBSET Nat, NEW use, NEW limit \in Nat,
         NEW t, Sound(t, use, I, limit), NEW outlet \in Outlets
  PROVE  Expire(t, anc, outlet) \in States(use, I, limit)
<1>1. PICK run \in [0..Cardinality(t.heap) -> States(use, I, limit)] : Expires(run, t, anc, outlet)
  BY ExpireRun
<1>2. Cardinality(t.heap) \in 0..Cardinality(t.heap)
  BY <1>1 DEF Expires
<1> QED BY <1>1, <1>2 DEF Expires

\* The head of the list is in use unless no slot is.
LEMMA HeadUsed ==
  ASSUME NEW I, NEW t, NEW use, NEW limit, Sound(t, use, I, limit)
  PROVE  /\ t.head # NIL => t.head \in Used(t)
         /\ t.head = NIL => Used(t) = {}
<1> DEFINE O == Used(t)
           nx == [a \in O \cup {NIL} |-> NextAt(t, a)]
           pv == [a \in O \cup {NIL} |-> PrevAt(t, a)]
           u == [a \in O |-> use[t.slab[a].key]]
<1>1. IsList(O, nx, pv, u)
  BY DEF Sound, ListOn
<1>2. nx[NIL] = t.head
  BY DEF NextAt
<1> HIDE DEF nx, pv, u
<1>3. nx[NIL] \in O \cup {NIL} /\ \A r \in O : nx[NIL] # NIL
  BY <1>1 DEF IsList, Linked, Ordered
<1> QED BY <1>2, <1>3

\* A slot is emptied, after the windows of its key are flushed.
Evicted(acc, acc2) ==
  \/ acc2 = acc
  \/ \E s \in Used(acc.table) :
       LET victim == acc.table.slab[s]
       IN /\ Removed(acc.table, acc2.table, s)
          /\ acc2.out = OnFlush(spec, victim.core, now, [acc.out EXCEPT !.key = victim.key]).out

LEMMA EvictOneSound ==
  ASSUME spec \in Policies, now \in Instants, NEW I \in SUBSET Nat, NEW use, NEW limit \in Nat,
         NEW acc \in States(use, I, limit)
  PROVE  /\ EvictOne(acc) \in States(use, I, limit) /\ Evicted(acc, EvictOne(acc))
         /\ \A key \in Keys : acc.table.index[key] = NIL => EvictOne(acc).table.index[key] = NIL
         /\ Tracked(acc.table) # {} =>
              Cardinality(Tracked(EvictOne(acc).table)) < Cardinality(Tracked(acc.table))
<1> DEFINE t == acc.table
           s == t.head
           victim == t.slab[s]
           out == [acc.out EXCEPT !.key = victim.key]
           flushed == OnFlush(spec, victim.core, now, out)
           t2 == RemoveKey(t, s)
<1>1. t \in Tables(I) /\ Sound(t, use, I, limit) /\ acc.out \in Outlets /\ SlotsOK(t, limit)
  BY DEF States, Sound
<1>2. EvictOne(acc) = IF ~Occupied(t, s) THEN acc ELSE [table |-> t2, out |-> flushed.out]
  BY DEF EvictOne
<1>3. CASE ~Occupied(t, s)
  <2>1. EvictOne(acc) = acc
    BY <1>2, <1>3
  <2>2. Tracked(t) = {}
    <3>1. s \notin Used(t)
      BY <1>3 DEF Occupied, Used
    <3>2. Used(t) = {}
      BY <1>1, <3>1, HeadUsed
    <3>3. \A k \in Keys : t.index[k] = NIL
      BY <1>1, <3>2 DEF SlotsOK
    <3> HIDE DEF t
    <3> QED BY <3>3 DEF Tracked
  <2>3. Evicted(acc, EvictOne(acc))
    BY <2>1 DEF Evicted
  <2> QED BY <2>1, <2>2, <2>3
<1>4. CASE Occupied(t, s)
  <2>1. s \in Used(t)
    BY <1>4 DEF Occupied, Used
  <2>2. victim \in Entries(I)
    BY <1>1, <2>1, SlabDomain
  <2>3. EvictOne(acc) = [table |-> t2, out |-> flushed.out]
    BY <1>2, <1>4
  <2>4. /\ Sound(t2, use, I, limit) /\ Used(t2) = Used(t) \ {s}
        /\ \A k \in Keys : t2.index[k] = IF k = t.slab[s].key THEN NIL ELSE t.index[k]
        /\ Removed(t, t2, s)
    <3> HIDE DEF t, s
    <3>1. Sound(t2, use, I, limit) /\ Removed(t, t2, s)
      BY <1>1, <2>1, RemoveKeySound
    <3> QED BY <3>1 DEF Removed
  <2>5. flushed.out \in Outlets
    <3>1. out \in Outlets /\ victim.core \in Cores(I)
      BY <1>1, <2>2 DEF Outlets, Entries
    <3> HIDE DEF out, victim
    <3>2. flushed \in Results(I)
      BY <3>1, OnFlushType
    <3> QED BY <3>2 DEF Results
  <2>10. Evicted(acc, EvictOne(acc))
    <3> DEFINE acc2 == EvictOne(acc)
    <3>1. acc2.table = t2 /\ acc2.out = flushed.out
      BY <2>3
    <3>2. acc2.out = OnFlush(spec, acc.table.slab[s].core, now,
                             [acc.out EXCEPT !.key = acc.table.slab[s].key]).out
      BY <3>1
    <3> HIDE DEF acc2, t2, s
    <3>3. Removed(acc.table, acc2.table, s) /\ s \in Used(acc.table)
      BY <2>1, <2>4, <3>1
    <3>4. Evicted(acc, acc2)
      BY <3>2, <3>3 DEF Evicted
    <3> QED BY <3>4 DEF acc2
  <2> HIDE DEF flushed, t2, s, victim
  <2>6. EvictOne(acc) \in States(use, I, limit)
    BY <2>3, <2>4, <2>5, StateOf
  <2>7. \A key \in Keys : t.index[key] = NIL => t2.index[key] = NIL
    BY <2>4
  <2>8. Cardinality(Tracked(t2)) < Cardinality(Tracked(t))
    <3>1. t2 \in Tables(I) /\ SlotsOK(t2, limit)
      BY <2>4 DEF Sound
    <3>2. /\ Cardinality(Tracked(t2)) = Cardinality(Used(t2))
          /\ Cardinality(Tracked(t)) = Cardinality(Used(t))
          /\ IsFiniteSet(Used(t)) /\ Cardinality(Tracked(t)) \in Nat
      <4> HIDE DEF t
      <4> QED BY <1>1, <3>1, TrackedUsed
    <3>3. Cardinality(Used(t2)) = Cardinality(Used(t)) - 1
      BY <2>1, <2>4, <3>2, FS_RemoveElement
    <3> HIDE DEF t
    <3> QED BY <3>2, <3>3
  <2>9. EvictOne(acc).table = t2
    BY <2>3
  <2> QED BY <2>6, <2>7, <2>8, <2>9, <2>10
<1> QED BY <1>3, <1>4

\* MaxKeys of a policy.
LimitOf(s) == Or(s.maxKeys, Cardinality(Keys) + 1)

LEMMA LimitType ==
  ASSUME NEW s \in Policies
  PROVE  LimitOf(s) \in Nat \ {0}
<1>1. Cardinality(Keys) \in Nat
  BY KeyedWindowAssumption, FS_CardinalityType
<1>2. s.maxKeys \in Nat \cup {None} /\ s.maxKeys # 0
  BY PolicyType
<1>3. Cardinality(Keys) + 1 \in Nat \ {0}
  BY <1>1
<1> QED BY <1>2, <1>3 DEF LimitOf, Or

\* The key's slot is put last, or a slot is inserted, perhaps for that of another key.
Touched(acc, acc2, key) ==
  \/ Relinked(acc.table, acc2.table) /\ acc2.out = acc.out
  \/ \E room \in {acc, EvictOne(acc)} : Inserted(room.table, acc2.table, key) /\ acc2.out = room.out

LEMMA TouchSound ==
  ASSUME spec \in Policies, now \in Instants, NEW I \in SUBSET Nat, NEW use, NEW use2,
         NEW acc \in States(use, I, LimitOf(spec)), NEW key \in Keys, UsedNow(key, use, use2)
  PROVE  /\ Touch(acc, key) \in States(use2, I, LimitOf(spec))
         /\ Touch(acc, key).table.index[key] # NIL /\ Touched(acc, Touch(acc, key), key)
<1> DEFINE t == acc.table
           limit == LimitOf(spec)
           full == Cardinality(Tracked(t)) >= limit
           room == IF full THEN EvictOne(acc) ELSE acc
<1>1. limit \in Nat \ {0} /\ limit = MaxKeys
  BY LimitType DEF LimitOf, MaxKeys
<1>2. t \in Tables(I) /\ Sound(t, use, I, limit) /\ SlotsOK(t, limit) /\ acc.out \in Outlets
  BY DEF States, Sound
<1>3. Touch(acc, key)
        = IF key \in Tracked(t) THEN [acc EXCEPT !.table = Refresh(t, t.index[key])]
          ELSE [room EXCEPT !.table = Insert(room.table, key)]
  BY <1>1 DEF Touch
<1>4. CASE key \in Tracked(t)
  <2> DEFINE s == t.index[key]
  <2>1. s \in Used(t) /\ t.slab[s].key = key /\ s # NIL
    BY <1>2, <1>4 DEF SlotsOK, Tracked
  <2>2. UsedLast(t, s, use, use2)
    <3>1. ASSUME NEW a \in Used(t) \ {s} PROVE t.slab[a].key \in Keys \ {key}
      <4>1. t.slab[a].key \in Keys
        BY <1>2, SlabDomain DEF Entries
      <4>2. t.index[t.slab[a].key] = a
        BY <1>2 DEF SlotsOK
      <4> QED BY <4>1, <4>2
    <3> HIDE DEF s, t
    <3> QED BY <2>1, <3>1 DEF UsedLast, UsedNow
  <2>3. Sound(Refresh(t, s), use2, I, limit) /\ Relinked(t, Refresh(t, s))
    <3> HIDE DEF t, s
    <3> QED BY <1>2, <2>1, <2>2, RefreshSound
  <2>4. Touch(acc, key) = [acc EXCEPT !.table = Refresh(t, s)]
    BY <1>3, <1>4
  <2>5. Touch(acc, key).table = Refresh(t, s) /\ Touch(acc, key).out = acc.out
    BY <2>4 DEF States
  <2>8. Touched(acc, Touch(acc, key), key)
    BY <2>3, <2>5 DEF Touched
  <2>6. Refresh(t, s).index = t.index
    BY <2>3 DEF Relinked, SameKeys
  <2> DEFINE t2 == Refresh(t, s)
  <2>7. [acc EXCEPT !.table = t2] \in States(use2, I, limit)
    <3>1. Sound(t2, use2, I, limit)
      BY <2>3
    <3> HIDE DEF t2, limit
    <3> QED BY <3>1, StateWith DEF limit
  <2> QED BY <2>1, <2>4, <2>5, <2>6, <2>7, <2>8
<1>5. CASE key \notin Tracked(t)
  <2>1. t.index[key] = NIL
    BY <1>5 DEF Tracked
  <2>2. /\ room \in States(use, I, limit) /\ room.table.index[key] = NIL
        /\ Cardinality(Tracked(room.table)) < limit /\ room \in {acc, EvictOne(acc)}
    <3>1. Cardinality(Tracked(t)) \in Nat /\ Cardinality(Tracked(t)) <= limit
      <4>1. /\ Cardinality(Tracked(t)) \in Nat /\ Cardinality(Tracked(t)) = Cardinality(Used(t))
            /\ Cardinality(Used(t)) <= Len(t.slab)
        <5> HIDE DEF t
        <5> QED BY <1>2, TrackedUsed
      <4>2. Len(t.slab) <= limit /\ Len(t.slab) \in Nat
        BY <1>2, SlabDomain DEF SlotsOK
      <4> HIDE DEF t, limit
      <4> QED BY <1>1, <4>1, <4>2
    <3>2. CASE full
      <4> DEFINE c == Cardinality(Tracked(t))
                 c2 == Cardinality(Tracked(EvictOne(acc).table))
      <4>1. c >= limit
        BY <3>2
      <4>2. Tracked(t) # {}
        <5>1. c # 0
          <6> HIDE DEF c
          <6> QED BY <1>1, <3>1, <4>1 DEF c
        <5> QED BY <5>1, FS_EmptySet
      <4>3. /\ EvictOne(acc) \in States(use, I, limit) /\ c2 < c
            /\ EvictOne(acc).table.index[key] = NIL
        BY <1>1, <2>1, <4>2, EvictOneSound
      <4>4. c2 \in Nat
        <5>1. EvictOne(acc).table \in Tables(I) /\ SlotsOK(EvictOne(acc).table, limit)
          BY <4>3 DEF States, Sound
        <5> HIDE DEF limit
        <5> QED BY <5>1, TrackedUsed
      <4>5. c2 < limit
        <5>1. c \in Nat /\ c <= limit
          BY <3>1
        <5> HIDE DEF c, c2, limit
        <5> QED BY <1>1, <4>3, <4>4, <5>1
      <4> QED BY <3>2, <4>3, <4>5
    <3>3. CASE ~full
      <4> DEFINE c == Cardinality(Tracked(t))
      <4>1. c \in Nat /\ ~(c >= limit)
        BY <3>1, <3>3
      <4>2. c < limit
        <5> HIDE DEF c, limit
        <5> QED BY <1>1, <4>1
      <4> QED BY <2>1, <3>3, <4>2
    <3> QED BY <3>2, <3>3
  <2> HIDE DEF room, limit
  <2>3. room.table \in Tables(I) /\ Sound(room.table, use, I, limit) /\ SlotsOK(room.table, limit)
    BY <2>2 DEF States, Sound
  <2>4. room.table.free = <<>> => Len(room.table.slab) < limit
    BY <1>1, <2>2, <2>3, RoomForOne
  <2>5. /\ Sound(Insert(room.table, key), use2, I, limit) /\ Insert(room.table, key).index[key] # NIL
        /\ Inserted(room.table, Insert(room.table, key), key)
    BY <1>1, <2>2, <2>3, <2>4, InsertSound
  <2>6. Touch(acc, key) = [room EXCEPT !.table = Insert(room.table, key)]
    BY <1>3, <1>5
  <2>7. Touch(acc, key).table = Insert(room.table, key) /\ Touch(acc, key).out = room.out
    BY <2>2, <2>6 DEF States
  <2>9. Touched(acc, Touch(acc, key), key)
    BY <2>2, <2>5, <2>7 DEF Touched
  <2>8. [room EXCEPT !.table = Insert(room.table, key)] \in States(use2, I, limit)
    BY <2>2, <2>5, StateWith
  <2> QED BY <2>5, <2>6, <2>7, <2>8, <2>9 DEF limit
<1> QED BY <1>4, <1>5

-----------------------------------------------------------------------------
(* The last use of a key. *)

Arrivals == [key : Keys, at : Nat]

\* LastUse, of any sequence of arrivals.
LastIn(seq, k) == Max({0} \cup {i \in 1..Len(seq) : seq[i].key = k})
Uses(seq) == [k \in Keys |-> LastIn(seq, k)]

LEMMA MaxOf ==
  ASSUME NEW n \in Nat, NEW S \in SUBSET (0..n), S # {}
  PROVE  Max(S) \in S /\ \A x \in S : x <= Max(S)
<1> DEFINE T == {n - x : x \in S}
<1>1. \A x \in S : x \in Nat /\ n - x \in Nat /\ n - (n - x) = x
  OBVIOUS
<1>2. T \in SUBSET Nat /\ T # {}
  BY <1>1
<1>3. PICK m \in T : \A y \in T : m <= y
  <2> HIDE DEF T
  <2> QED BY <1>2, LeastMember
<1>4. PICK x \in S : m = n - x
  BY <1>3
<1>5. \A y \in S : x >= y
  <2> TAKE y \in S
  <2>1. n - x <= n - y
    BY <1>3, <1>4
  <2> QED BY <1>1, <2>1
<1> DEFINE max == CHOOSE z \in S : \A y \in S : z >= y
<1>6. max \in S /\ \A y \in S : max >= y
  BY <1>5
<1>7. Max(S) = max
  BY DEF Max
<1> HIDE DEF max
<1> QED BY <1>1, <1>6, <1>7

LEMMA LastInType ==
  ASSUME NEW seq \in Seq(Arrivals), NEW k
  PROVE  /\ LastIn(seq, k) \in 0..Len(seq)
         /\ LastIn(seq, k) = 0 \/ seq[LastIn(seq, k)].key = k
         /\ \A i \in 1..Len(seq) : seq[i].key = k => i <= LastIn(seq, k)
<1> DEFINE n == Len(seq)
           S == {0} \cup {i \in 1..n : seq[i].key = k}
<1>1. n \in Nat
  OBVIOUS
<1>2. S \in SUBSET (0..n) /\ S # {}
  <2> HIDE DEF n
  <2> QED BY <1>1
<1>3. Max(S) \in S /\ \A x \in S : x <= Max(S)
  <2> HIDE DEF n, S
  <2> QED BY <1>1, <1>2, MaxOf
<1>4. LastIn(seq, k) = Max(S)
  BY DEF LastIn
<1> DEFINE m == Max(S)
<1>5. m \in S /\ \A x \in S : x <= m
  BY <1>3
<1> HIDE DEF m
<1> QED BY <1>2, <1>4, <1>5 DEF m

LEMMA LastInAppend ==
  ASSUME NEW seq \in Seq(Arrivals), NEW e \in Arrivals, NEW k
  PROVE  LastIn(Append(seq, e), k) = IF e.key = k THEN Len(seq) + 1 ELSE LastIn(seq, k)
<1> DEFINE n == Len(seq)
           more == Append(seq, e)
<1>1. /\ n \in Nat /\ more \in Seq(Arrivals) /\ Len(more) = n + 1 /\ more[n + 1] = e
      /\ \A i \in 1..n : more[i] = seq[i]
  OBVIOUS
<1> HIDE DEF more
<1>2. CASE e.key = k
  <2> DEFINE m == LastIn(more, k)
  <2>1. m \in 0..Len(more) /\ \A i \in 1..Len(more) : more[i].key = k => i <= m
    BY <1>1, LastInType
  <2> HIDE DEF m, n
  <2>2. n + 1 \in 1..Len(more) /\ more[n + 1].key = k
    BY <1>1, <1>2
  <2>3. n + 1 <= m /\ m \in 0..(n + 1)
    BY <1>1, <2>1, <2>2
  <2>4. m = n + 1
    BY <1>1, <2>3
  <2> QED BY <1>2, <2>4 DEF m, more, n
<1>3. CASE e.key # k
  <2>1. {i \in 1..Len(more) : more[i].key = k} = {i \in 1..n : seq[i].key = k}
    <3>1. 1..Len(more) = (1..n) \cup {n + 1}
      <4> HIDE DEF n
      <4> QED BY <1>1
    <3> HIDE DEF n
    <3> QED BY <1>1, <1>3, <3>1
  <2>2. LastIn(more, k) = LastIn(seq, k)
    BY <2>1 DEF LastIn
  <2> QED BY <1>3, <2>2 DEF more
<1> QED BY <1>2, <1>3

\* The key of the newest arrival is used now.
LEMMA UsesAppend ==
  ASSUME NEW seq \in Seq(Arrivals), NEW e \in Arrivals
  PROVE  UsedNow(e.key, Uses(seq), Uses(Append(seq, e)))
<1>1. e.key \in Keys
  BY DEF Arrivals
<1>2. \A k \in Keys : LastIn(Append(seq, e), k) = IF e.key = k THEN Len(seq) + 1 ELSE LastIn(seq, k)
  BY LastInAppend
<1>3. \A k \in Keys : LastIn(seq, k) \in 0..Len(seq)
  BY LastInType
<1>4. Len(seq) \in Nat
  OBVIOUS
<1> DEFINE n == Len(seq)
<1>5. \A k \in Keys : /\ LastIn(Append(seq, e), k) = IF e.key = k THEN n + 1 ELSE LastIn(seq, k)
                      /\ LastIn(seq, k) \in 0..n
  BY <1>2, <1>3
<1>6. n \in Nat
  BY <1>4
<1> HIDE DEF n
<1> QED BY <1>1, <1>5, <1>6 DEF UsedNow, Uses

-----------------------------------------------------------------------------
(* The whole stage. *)

\* What is sound stays so as more items are numbered.
LEMMA MoreItems ==
  ASSUME NEW I, NEW J, I \subseteq J, NEW t, NEW use, NEW limit, Sound(t, use, I, limit)
  PROVE  Sound(t, use, J, limit)
<1>1. Seq(I) \subseteq Seq(J)
  BY SeqMonotonic
<1>2. OpenWindows(I) \subseteq OpenWindows(J)
  BY <1>1 DEF OpenWindows
<1>3. Seq(OpenWindows(I)) \subseteq Seq(OpenWindows(J))
  BY <1>2, SeqMonotonic
<1>4. Cores(I) \subseteq Cores(J)
  BY <1>1, <1>3 DEF Cores
<1>5. Entries(I) \subseteq Entries(J)
  BY <1>4 DEF Entries
<1> DEFINE A == Entries(I) \cup {Vacant}
           B == Entries(J) \cup {Vacant}
<1>6. Seq(A) \subseteq Seq(B)
  <2>1. A \subseteq B
    BY <1>5
  <2> HIDE DEF A, B
  <2> QED BY <2>1, SeqMonotonic
<1>7. t \in Tables(I)
  BY DEF Sound
<1>8. t \in Tables(J)
  <2> HIDE DEF A, B
  <2>1. /\ t \in [index : [Keys -> Nat], slab : Seq(A), free : Seq(Nat), head : Nat,
                   tail : Nat, heap : SUBSET (Instants \X Nat \X Nat), seq : Nat, tickets : Nat]
    BY <1>7 DEF Tables, A
  <2>2. t \in [index : [Keys -> Nat], slab : Seq(B), free : Seq(Nat), head : Nat,
                   tail : Nat, heap : SUBSET (Instants \X Nat \X Nat), seq : Nat, tickets : Nat]
    BY <1>6, <2>1
  <2> QED BY <2>2 DEF Tables, B
<1> QED BY <1>8 DEF Sound

\* No slot, and nothing else left.
Cleared(t) ==
  /\ t.index = [k \in Keys |-> NIL] /\ t.slab = <<>> /\ t.free = <<>> /\ t.head = NIL
  /\ t.tail = NIL /\ t.heap = {}

LEMMA EmptySound ==
  ASSUME NEW I, NEW use, NEW limit \in Nat, NEW t \in Tables(I), Cleared(t)
  PROVE  Sound(t, use, I, limit)
<1>1. /\ t.index = [k \in Keys |-> NIL] /\ t.slab = <<>> /\ t.free = <<>> /\ t.head = NIL
      /\ t.tail = NIL /\ t.heap = {}
  BY DEF Cleared
<1>3. DOMAIN t.slab = {} /\ DOMAIN t.free = {} /\ Len(t.slab) = 0
  BY <1>1
<1>4. Used(t) = {}
  BY <1>3 DEF Used
<1>5. SlotsOK(t, limit)
  BY <1>1, <1>3, <1>4 DEF SlotsOK
<1>6. ListOn(t, Used(t), use)
  <2> DEFINE nx == [x \in {} \cup {NIL} |-> NextAt(t, x)]
             pv == [x \in {} \cup {NIL} |-> PrevAt(t, x)]
             u == [x \in {} |-> use[t.slab[x].key]]
  <2>1. nx[NIL] = NIL /\ pv[NIL] = NIL
    BY <1>1 DEF NextAt, PrevAt
  <2> HIDE DEF nx, pv, u
  <2>2. IsList({}, nx, pv, u)
    BY <2>1 DEF IsList, Linked, Ordered
  <2> QED BY <1>4, <2>2 DEF ListOn, nx, pv, u
<1>7. HeapOK(t, limit)
  <2>1. IsFiniteSet({}) /\ Cardinality({}) = 0
    BY FS_EmptySet
  <2>2. HeapBound(limit) >= 0
    <3>1. Cardinality(Keys) \in Nat /\ HeapSlack \in Nat
      BY KeyedWindowAssumption, FS_CardinalityType
    <3> DEFINE m == Min({limit, Cardinality(Keys)})
    <3>2. m \in Nat
      BY <3>1, MinOfTwo
    <3> HIDE DEF m
    <3>3. 2 * m + HeapSlack >= 0
      BY <3>1, <3>2
    <3> QED BY <3>3 DEF HeapBound, m
  <2> QED BY <1>1, <1>4, <2>1, <2>2 DEF HeapOK
<1>8. CreatedOK(t)
  BY <1>4 DEF CreatedOK
<1> QED BY <1>5, <1>6, <1>7, <1>8 DEF Sound

LEMMA EmptyTableSound ==
  ASSUME NEW I, NEW use, NEW limit \in Nat
  PROVE  /\ EmptyTable \in Tables(I) /\ Sound(EmptyTable, use, I, limit)
         /\ \A a, b \in Nat : Sound([EmptyTable EXCEPT !.seq = a, !.tickets = b], use, I, limit)
<1>1. EmptyTable \in Tables(I) /\ Cleared(EmptyTable)
  BY DEF Tables, EmptyTable, NIL, Cleared
<1>2. ASSUME NEW a \in Nat, NEW b \in Nat
      PROVE  Sound([EmptyTable EXCEPT !.seq = a, !.tickets = b], use, I, limit)
  <2> DEFINE e == [EmptyTable EXCEPT !.seq = a]
             t == [e EXCEPT !.tickets = b]
  <2>1. e \in Tables(I)
    BY <1>1 DEF Tables
  <2>2. e.index = EmptyTable.index /\ e.slab = EmptyTable.slab /\ e.free = EmptyTable.free
        /\ e.head = EmptyTable.head /\ e.tail = EmptyTable.tail /\ e.heap = EmptyTable.heap
    BY <1>1 DEF Tables
  <2> HIDE DEF e
  <2>3. t \in Tables(I)
    BY <2>1 DEF Tables
  <2>4. t.index = e.index /\ t.slab = e.slab /\ t.free = e.free
        /\ t.head = e.head /\ t.tail = e.tail /\ t.heap = e.heap
    BY <2>1 DEF Tables
  <2> HIDE DEF t
  <2>5. Cleared(t)
    BY <1>1, <2>2, <2>4 DEF Cleared
  <2>6. Sound(t, use, I, limit)
    BY <2>3, <2>5, EmptySound
  <2> QED BY <2>6 DEF t, e
<1> QED BY <1>1, <1>2, EmptySound

\* The grid begins no later than its first item.
LEMMA GridOriginType ==
  ASSUME NEW policy \in Policies, NEW first \in Nat
  PROVE  GridOrigin(policy, first) \in 0..first
<1> DEFINE size == policy.size
           slide == policy.slide
           n == CeilDiv(size, slide) - 1
           d == n * slide
<1>1. size \in Nat \ {0} /\ slide \in Nat \ {0}
  BY PolicyType
<1>2. n \in Nat
  <2>1. slide <= size + slide - 1 /\ size + slide - 1 \in Nat /\ slide \in Nat
    <3> HIDE DEF size, slide
    <3> QED BY <1>1
  <2> DEFINE s == size + slide - 1
  <2>2. s \in Nat /\ slide \in Nat /\ slide <= s
    BY <2>1
  <2> HIDE DEF s
  <2>3. slide \div slide <= s \div slide /\ s \div slide \in Nat
    BY <1>1, <2>2, DivMonotonic, DivType
  <2>4. slide \div slide = 1
    <3> HIDE DEF slide
    <3> QED BY <1>1
  <2> DEFINE q == s \div slide
  <2>5. q \in Nat /\ 1 <= q
    BY <2>3, <2>4
  <2>6. CeilDiv(size, slide) = q
    BY DEF CeilDiv, s
  <2> HIDE DEF q
  <2>7. q - 1 \in Nat
    BY <2>5
  <2> QED BY <2>6, <2>7
<1> HIDE DEF n
<1>3. d \in Nat
  <2>1. slide \in Nat
    BY <1>1
  <2> HIDE DEF slide
  <2> QED BY <1>2, <2>1, ProductType
<1>4. GridOrigin(policy, first) = IF policy.kind = "sliding" THEN Or(CheckedSub(first, d), first) ELSE first
  BY DEF GridOrigin, n
<1> HIDE DEF d
<1> QED BY <1>3, <1>4 DEF Or, CheckedSub

LEMMA FlushCreatedType ==
  ASSUME spec \in Policies, now \in Instants, NEW I \in SUBSET Nat, NEW use, NEW limit,
         Sound(table, use, I, limit), NEW out \in Outlets, NEW n
  PROVE  FlushCreated(out, n) \in Outlets
<1> DEFINE those == {s \in DOMAIN table.slab : Occupied(table, s) /\ table.slab[s].created = n}
           s == CHOOSE s \in those : TRUE
           entry == table.slab[s]
           labelled == [out EXCEPT !.key = entry.key]
           flushed == OnFlush(spec, entry.core, now, labelled)
<1>1. FlushCreated(out, n) = IF those = {} THEN out ELSE flushed.out
  BY DEF FlushCreated
<1>2. ASSUME those # {} PROVE flushed.out \in Outlets
  <2>1. s \in those
    BY <1>2
  <2>2. s \in Used(table)
    <3> HIDE DEF s
    <3> QED BY <2>1 DEF Occupied, Used
  <2> HIDE DEF s
  <2>3. entry \in Entries(I)
    BY <2>2, SlabDomain DEF Sound
  <2> HIDE DEF entry
  <2>4. labelled \in Outlets /\ entry.core \in Cores(I)
    BY <2>3 DEF Outlets, Entries
  <2> HIDE DEF labelled
  <2>5. flushed \in Results(I)
    BY <2>4, OnFlushType
  <2> QED BY <2>5 DEF Results
<1> HIDE DEF those, flushed
<1> QED BY <1>1, <1>2

\* What flush emits to.
Flushed ==
  LET upTo[n \in 0..table.seq] ==
        IF n = 0 THEN Outlet ELSE FlushCreated(upTo[n - 1], n)
  IN upTo[table.seq]

\* What flush goes through, key by key.
Flushes(run) ==
  /\ table.seq \in Nat /\ run[0] = Outlet
  /\ \A n \in 1..table.seq : run[n] = FlushCreated(run[n - 1], n)
  /\ Flushed = run[table.seq]

LEMMA FlushedRun ==
  ASSUME spec \in Policies, now \in Instants, NEW I \in SUBSET Nat, NEW use, NEW limit,
         Sound(table, use, I, limit), Outlet \in Outlets
  PROVE  \E run \in [0..table.seq -> Outlets] : Flushes(run)
<1> DEFINE k == table.seq
           step == [n \in 1..k |-> [out \in Outlets |-> FlushCreated(out, n)]]
           IsRun(g) == g = [n \in 0..k |-> IF n = 0 THEN Outlet ELSE FlushCreated(g[n - 1], n)]
           run == CHOOSE g : IsRun(g)
<1>1. k \in Nat
  BY DEF Sound, Tables
<1>2. \A out \in Outlets : \A n : FlushCreated(out, n) \in Outlets
  BY FlushCreatedType
<1>3. Flushed = run[k]
  BY DEF Flushed
<1> HIDE DEF k
<1>4. step \in [1..k -> [Outlets -> Outlets]]
  BY <1>2
<1>5. \E g : IsRun(g)
  <2>1. PICK g \in [0..k -> Outlets] : Runs(g, k, Outlet, step)
    <3> HIDE DEF step
    <3> QED BY <1>1, <1>4, Recursion
  <2>2. ASSUME NEW n \in 0..k
        PROVE  g[n] = IF n = 0 THEN Outlet ELSE FlushCreated(g[n - 1], n)
    <3>1. CASE n = 0
      BY <2>1, <3>1 DEF Runs
    <3>2. CASE n # 0
      <4>1. n \in 1..k /\ n - 1 \in 0..k
        BY <1>1, <3>2
      <4>2. g[n - 1] \in Outlets /\ g[n] = step[n][g[n - 1]]
        BY <2>1, <4>1 DEF Runs
      <4> QED BY <3>2, <4>1, <4>2
    <3> QED BY <3>1, <3>2
  <2>3. g = [n \in 0..k |-> g[n]]
    OBVIOUS
  <2>4. IsRun(g)
    BY <2>2, <2>3
  <2> QED BY <2>4
<1>6. run = [n \in 0..k |-> IF n = 0 THEN Outlet ELSE FlushCreated(run[n - 1], n)]
  BY <1>5
<1> HIDE DEF run, step
<1>7. \A n \in 0..k : run[n] = IF n = 0 THEN Outlet ELSE FlushCreated(run[n - 1], n)
  BY <1>6
<1>8. run[0] = Outlet /\ \A n \in 1..k : run[n] = FlushCreated(run[n - 1], n)
  <2>1. 0 \in 0..k /\ \A n \in 1..k : n \in 0..k /\ n # 0
    BY <1>1
  <2> QED BY <1>7, <2>1
<1>9. \A n \in 0..k : run[n] \in Outlets
  <2>1. run[0] \in Outlets
    BY <1>8
  <2>2. \A n \in 1..k : run[n - 1] \in Outlets => run[n] \in Outlets
    BY <1>2, <1>8
  <2> QED BY <1>1, <2>1, <2>2, Invariance
<1>10. run \in [0..k -> Outlets]
  BY <1>6, <1>9
<1> QED BY <1>1, <1>3, <1>8, <1>10 DEF Flushes, k

LEMMA FlushedType ==
  ASSUME spec \in Policies, now \in Instants, NEW I \in SUBSET Nat, NEW use, NEW limit,
         Sound(table, use, I, limit), Outlet \in Outlets
  PROVE  Flushed \in Outlets
<1>1. PICK run \in [0..table.seq -> Outlets] : Flushes(run)
  BY FlushedRun
<1>2. table.seq \in 0..table.seq
  BY <1>1 DEF Flushes
<1> QED BY <1>1, <1>2 DEF Flushes

-----------------------------------------------------------------------------
\* The inductive invariant: the table is sound, for the uses and the items so far.
KeyedInv ==
  /\ spec \in Specs /\ Check(spec) /\ now \in 0..MaxTime /\ anchor \in 0..MaxTime \cup {None}
  /\ sent \in Seq(Windows) /\ accepts \in Nat /\ taken \in Seq(Arrivals)
  /\ Sound(table, Uses(taken), 1..Len(taken), LimitOf(spec))

\* What the invariant says of the constants of a step.
LEMMA KeyedInvFacts ==
  ASSUME KeyedInv
  PROVE  /\ spec \in Policies /\ now \in Instants /\ LimitOf(spec) \in Nat
         /\ 0..MaxTime \subseteq Instants /\ MaxTime \in Nat
         /\ Len(taken) \in Nat /\ 1..Len(taken) \in SUBSET Nat
         /\ 1..Len(taken) \subseteq 1..(Len(taken) + 1)
         /\ Outlet \in Outlets
<1>1. MaxTime \in 0..MaxInstant /\ MaxInstant \in Nat /\ Specs \subseteq WindowSpecs
  BY KeyedWindowAssumption, MaxInstantType
<1>2. 0..MaxTime \subseteq Instants /\ MaxTime \in Nat
  BY <1>1 DEF Instants
<1>3. spec \in Policies /\ now \in Instants
  BY <1>1, <1>2 DEF KeyedInv, Policies
<1>4. LimitOf(spec) \in Nat
  BY <1>3, LimitType
<1>5. Len(taken) \in Nat
  BY DEF KeyedInv
<1>6. Outlet \in Outlets
  BY DEF KeyedInv, Outlet, Outlets
<1> DEFINE n == Len(taken)
<1>7. 1..n \in SUBSET Nat /\ 1..n \subseteq 1..(n + 1)
  <2> HIDE DEF n
  <2> QED BY <1>5 DEF n
<1> QED BY <1>2, <1>3, <1>4, <1>5, <1>6, <1>7

LEMMA KeyedInvInit ==
  ASSUME Init PROVE KeyedInv
<1>1. Starts \subseteq 0..MaxTime /\ Specs \subseteq WindowSpecs /\ Accepted \subseteq Nat
  BY KeyedWindowAssumption
<1>2. spec \in Policies
  BY <1>1 DEF Init, Policies
<1>3. LimitOf(spec) \in Nat
  BY <1>2, LimitType
<1>4. Sound(EmptyTable, Uses(taken), 1..Len(taken), LimitOf(spec))
  BY <1>3, EmptyTableSound
<1> QED BY <1>1, <1>4 DEF Init, KeyedInv

LEMMA KeyedInvClock ==
  ASSUME KeyedInv, Clock PROVE KeyedInv'
BY DEF KeyedInv, Clock, emission, reference

LEMMA KeyedInvDropped ==
  ASSUME KeyedInv, UNCHANGED vars PROVE KeyedInv'
BY DEF KeyedInv, vars, emission, reference

LEMMA KeyedInvTick ==
  ASSUME KeyedInv, Tick PROVE KeyedInv'
<1> DEFINE I == 1..Len(taken)
           use == Uses(taken)
           limit == LimitOf(spec)
           expired == Expire(table, anchor, Outlet)
<1>1. /\ spec \in Policies /\ now \in Instants /\ limit \in Nat /\ I \in SUBSET Nat
      /\ Outlet \in Outlets /\ anchor \in Instants /\ Sound(table, use, I, limit)
  <2>1. anchor # None
    BY DEF Tick
  <2> QED BY <2>1, KeyedInvFacts DEF KeyedInv
<1>2. table' = expired.table /\ sent' = expired.out.sent /\ accepts' = expired.out.accepts
  BY DEF Tick, Emitted
<1>3. expired \in States(use, I, limit)
  <2> HIDE DEF I, use, limit
  <2> QED BY <1>1, ExpireSound
<1> HIDE DEF expired
<1>4. Sound(table', use, I, limit) /\ sent' \in Seq(Windows) /\ accepts' \in Nat
  BY <1>2, <1>3 DEF States, Outlets
<1> QED BY <1>4 DEF KeyedInv, Tick

LEMMA KeyedInvFlush ==
  ASSUME KeyedInv, Flush PROVE KeyedInv'
<1> DEFINE I == 1..Len(taken)
           use == Uses(taken)
           limit == LimitOf(spec)
<1>1. /\ spec \in Policies /\ now \in Instants /\ limit \in Nat /\ I \in SUBSET Nat
      /\ Outlet \in Outlets /\ Sound(table, use, I, limit)
  BY KeyedInvFacts DEF KeyedInv
<1>2. Flushed \in Outlets
  <2> HIDE DEF I, use, limit
  <2> QED BY <1>1, FlushedType
<1>3. sent' = Flushed.sent /\ accepts' = Flushed.accepts
  BY DEF Flush, Emitted, Flushed
<1>4. table' = [EmptyTable EXCEPT !.seq = table.seq, !.tickets = table.tickets]
  BY DEF Flush
<1>5. table.seq \in Nat /\ table.tickets \in Nat
  BY <1>1 DEF Sound, Tables
<1>6. Sound(table', use, I, limit)
  <2> HIDE DEF I, use, limit
  <2> QED BY <1>1, <1>4, <1>5, EmptyTableSound
<1>7. sent' \in Seq(Windows) /\ accepts' \in Nat
  BY <1>2, <1>3 DEF Outlets
<1> QED BY <1>6, <1>7 DEF KeyedInv, Flush

LEMMA KeyedInvProcess ==
  ASSUME KeyedInv, NEW key \in Keys, Process(key) PROVE KeyedInv'
<1> DEFINE I == 1..Len(taken)
           J == 1..(Len(taken) + 1)
           e == [key |-> key, at |-> now]
           use == Uses(taken)
           use2 == Uses(Append(taken, e))
           limit == LimitOf(spec)
           anc == Or(anchor, GridOrigin(spec, now))
           expired == Expire(table, anc, Outlet)
           touched == Touch(expired, key)
           slot == touched.table.index[key]
           out == [touched.out EXCEPT !.key = key]
           added == OnItem(spec, MaxItems, touched.table.slab[slot].core, anc, now,
                           Len(taken) + 1, out)
           t2 == [touched.table EXCEPT !.slab[slot].core = added.core]
<1>1. /\ spec \in Policies /\ now \in Instants /\ limit \in Nat /\ I \in SUBSET Nat
      /\ I \subseteq J /\ Len(taken) \in Nat
      /\ Outlet \in Outlets /\ Sound(table, use, I, limit) /\ taken \in Seq(Arrivals)
      /\ now \in 0..MaxTime /\ 0..MaxTime \subseteq Instants /\ MaxTime \in Nat
  BY KeyedInvFacts DEF KeyedInv
<1>2. J \in SUBSET Nat /\ Len(taken) + 1 \in J
  <2> DEFINE n == Len(taken)
  <2>1. n \in Nat
    BY <1>1
  <2> HIDE DEF n
  <2>2. 1..(n + 1) \in SUBSET Nat /\ n + 1 \in 1..(n + 1)
    BY <2>1
  <2> QED BY <2>2 DEF n
<1>3. anc \in 0..MaxTime /\ anc \in Instants
  <2>1. anchor \in 0..MaxTime \cup {None} /\ now \in Nat
    BY <1>1 DEF KeyedInv
  <2>2. GridOrigin(spec, now) \in 0..now
    BY <1>1, <2>1, GridOriginType
  <2>3. anc \in 0..MaxTime
    BY <1>1, <2>1, <2>2 DEF Or
  <2> QED BY <1>1, <2>3
<1>4. e \in Arrivals /\ e.key = key
  BY <1>1 DEF Arrivals
<1>5. UsedNow(key, use, use2)
  BY <1>1, <1>4, UsesAppend
<1>6. expired \in States(use, I, limit)
  <2> HIDE DEF I, use, limit, anc
  <2> QED BY <1>1, <1>3, ExpireSound
<1>7. touched \in States(use2, I, limit) /\ slot # NIL
  <2> HIDE DEF I, use, use2, expired
  <2> QED BY <1>1, <1>5, <1>6, TouchSound
<1> DEFINE t == touched.table
<1>8. Sound(t, use2, I, limit) /\ touched.out \in Outlets
  BY <1>7 DEF States
<1>9. Sound(t, use2, J, limit)
  <2> HIDE DEF t, use2, limit, I, J
  <2> QED BY <1>1, <1>8, MoreItems
<1>10. slot \in Used(t) /\ t \in Tables(J)
  <2> HIDE DEF touched
  <2> QED BY <1>7, <1>9 DEF Sound, SlotsOK
<1>11. out \in Outlets
  <2> HIDE DEF touched
  <2> QED BY <1>8 DEF Outlets
<1>12. added \in Results(J)
  <2> DEFINE core == t.slab[slot].core
             item == Len(taken) + 1
  <2>1. core \in Cores(J)
    <3> HIDE DEF t, slot, J
    <3> QED BY <1>10, SlabDomain DEF Entries
  <2>2. item \in J
    BY <1>2
  <2> HIDE DEF core, item, out, anc, J
  <2>3. OnItem(spec, MaxItems, core, anc, now, item, out) \in Results(J)
    BY <1>1, <1>2, <1>3, <1>11, <2>1, <2>2, OnItemType
  <2> QED BY <2>3 DEF core, item
<1>13. table' = Schedule(t2, slot) /\ sent' = added.out.sent /\ accepts' = added.out.accepts
       /\ anchor' = anc /\ taken' = Append(taken, e) /\ UNCHANGED <<spec, now>>
  BY DEF Process, Emitted
<1> HIDE DEF added
<1>14. added.core \in Cores(J) /\ added.out \in Outlets
  BY <1>12 DEF Results
<1>15. CoreAssigned(t, t2, slot, added.core)
  BY DEF CoreAssigned
<1> HIDE DEF t2, slot, t, J, use2, limit
<1>16. Sound(t2, use2, J, limit) /\ slot \in Used(t2)
  BY <1>9, <1>10, <1>14, <1>15, CoreSet
<1>17. Sound(table', use2, J, limit)
  BY <1>1, <1>13, <1>16, ScheduleSound
<1>18. sent' \in Seq(Windows) /\ accepts' \in Nat
  BY <1>13, <1>14 DEF Outlets
<1> HIDE DEF e
<1>19. taken' \in Seq(Arrivals) /\ Len(taken') = Len(taken) + 1
  BY <1>1, <1>4, <1>13
<1>20. Sound(table', Uses(taken'), 1..Len(taken'), LimitOf(spec'))
  BY <1>13, <1>17, <1>19 DEF use2, J, limit
<1> QED BY <1>3, <1>13, <1>18, <1>19, <1>20 DEF KeyedInv

\* What every state of the stage satisfies, whatever is evicted, expired, split or refused.
THEOREM KeyedInvariant == Spec => []KeyedInv
<1>1. Init => KeyedInv
  BY KeyedInvInit
<1>2. KeyedInv /\ [Next]_vars => KeyedInv'
  <2> SUFFICES ASSUME KeyedInv, [Next]_vars PROVE KeyedInv'
    OBVIOUS
  <2>1. CASE Clock
    BY <2>1, KeyedInvClock
  <2>2. ASSUME NEW key \in Keys, Process(key) PROVE KeyedInv'
    BY <2>2, KeyedInvProcess
  <2>3. CASE Tick
    BY <2>3, KeyedInvTick
  <2>4. CASE Flush
    BY <2>4, KeyedInvFlush
  <2>5. CASE UNCHANGED vars
    BY <2>5, KeyedInvDropped
  <2> QED BY <2>1, <2>2, <2>3, <2>4, <2>5 DEF Next, Dropped
<1> QED BY <1>1, <1>2, PTL DEF Spec

LEMMA KeyedInvTypeOK ==
  ASSUME KeyedInv PROVE TypeOK
<1> DEFINE n == Len(taken)
           I == 1..n
           limit == LimitOf(spec)
           use == Uses(taken)
<1>1. /\ table \in Tables(I) /\ SlotsOK(table, limit) /\ ListOn(table, Used(table), use)
      /\ HeapOK(table, limit) /\ CreatedOK(table)
  BY DEF KeyedInv, Sound
<1> HIDE DEF n, limit, use
<1>2. /\ DOMAIN table.slab = 1..Len(table.slab) /\ Len(table.slab) \in Nat
      /\ \A s \in Used(table) : table.slab[s] \in Entries(I) /\ s \in DOMAIN table.slab
  BY <1>1, SlabDomain
<1> DEFINE m == Len(table.slab)
<1>3. 1..m \subseteq 0..m /\ 0 \in 0..m
  BY <1>2
<1>4. \A k \in Keys : table.index[k] \in 0..m
  <2>1. \A k \in Keys : table.index[k] # NIL => table.index[k] \in 1..m
    BY <1>1, <1>2 DEF SlotsOK
  <2> HIDE DEF m
  <2> QED BY <1>3, <2>1 DEF NIL
<1>5. ASSUME NEW s \in DOMAIN table.slab, Occupied(table, s)
      PROVE  LET e == table.slab[s]
             IN /\ e.key \in Keys /\ e.created \in 1..table.seq
                /\ e.prev \in 0..Len(table.slab) /\ e.next \in 0..Len(table.slab)
                /\ e.ticket \in 0..table.tickets /\ e.scheduled \in 0..MaxInstant \cup {None}
                /\ ToSet(e.core.items) \subseteq Ids
                /\ \A i \in DOMAIN e.core.slots : ToSet(e.core.slots[i].items) \subseteq Ids
  <2> DEFINE e == table.slab[s]
  <2>1. s \in Used(table) /\ e \in Entries(I) /\ s # NIL
    BY <1>1, <1>2, <1>5, SlabDomain DEF Used, Occupied
  <2>2. e.created \in 1..table.seq /\ e.ticket \in 0..table.tickets
    BY <1>1, <2>1 DEF CreatedOK, HeapOK
  <2>3. e.prev \in 0..m /\ e.next \in 0..m
    <3> DEFINE O == Used(table)
               nx == [a \in O \cup {NIL} |-> NextAt(table, a)]
               pv == [a \in O \cup {NIL} |-> PrevAt(table, a)]
               u == [a \in O |-> use[table.slab[a].key]]
    <3>1. IsList(O, nx, pv, u)
      BY <1>1 DEF ListOn
    <3>2. nx[s] = e.next /\ pv[s] = e.prev
      BY <2>1 DEF NextAt, PrevAt
    <3> HIDE DEF nx, pv, u, e
    <3>3. nx[s] \in O \cup {NIL} /\ pv[s] \in O \cup {NIL}
      BY <2>1, <3>1 DEF IsList, Linked
    <3>4. \A x \in O \cup {NIL} : x \in 0..m
      BY <1>2, <1>3 DEF NIL
    <3> QED BY <3>2, <3>3, <3>4
  <2>4. e.key \in Keys /\ e.scheduled \in 0..MaxInstant \cup {None} /\ e.core \in Cores(I)
    BY <2>1 DEF Entries, Moments, Instants
  <2> DEFINE core == e.core
  <2>5. core.items \in Seq(I) /\ core.slots \in Seq(OpenWindows(I))
    BY <2>4 DEF Cores
  <2>6. Ids = I
    BY DEF Ids, n
  <2> HIDE DEF core, e, I
  <2>7. ToSet(core.items) \subseteq I
    BY <2>5 DEF ToSet
  <2>8. ASSUME NEW i \in DOMAIN core.slots PROVE ToSet(core.slots[i].items) \subseteq I
    <3>1. core.slots[i] \in OpenWindows(I)
      BY <2>5
    <3> DEFINE items == core.slots[i].items
    <3>2. items \in Seq(I)
      BY <3>1 DEF OpenWindows
    <3> HIDE DEF items
    <3>3. ToSet(items) \subseteq I
      BY <3>2 DEF ToSet
    <3> QED BY <3>3 DEF items
  <2> QED BY <2>2, <2>3, <2>4, <2>6, <2>7, <2>8 DEF core, e
<1>6. ToSet(table.free) \subseteq DOMAIN table.slab
  BY <1>1 DEF SlotsOK, ToSet
<1>7. table.heap \subseteq (0..MaxInstant) \X (1..table.tickets) \X (DOMAIN table.slab)
  <2> DEFINE D == DOMAIN table.slab
             T == 1..table.tickets
             heap == table.heap
  <2>1. heap \subseteq Instants \X Nat \X Nat /\ \A a \in heap : a[2] \in T /\ a[3] \in D
    BY <1>1 DEF Tables, HeapOK
  <2> HIDE DEF D, T, heap
  <2>2. ASSUME NEW a \in heap PROVE a \in Instants \X T \X D
    <3>1. a \in Instants \X Nat \X Nat
      BY <2>1
    <3>2. a = <<a[1], a[2], a[3]>> /\ a[1] \in Instants
      BY <3>1
    <3> QED BY <2>1, <3>2
  <2>3. heap \subseteq Instants \X T \X D
    BY <2>2
  <2> QED BY <2>3 DEF Instants, D, T, heap
<1>8. \A i \in DOMAIN sent : sent[i].start \in 0..MaxInstant /\ sent[i].end \in 0..MaxInstant
  <2>1. sent \in Seq(Windows)
    BY DEF KeyedInv
  <2>2. \A i \in DOMAIN sent : sent[i] \in Windows
    BY <2>1
  <2> QED BY <2>2 DEF Windows, Instants
<1>9. spec \in Specs /\ now \in 0..MaxTime /\ anchor \in 0..MaxTime \cup {None}
  BY DEF KeyedInv
<1> QED BY <1>4, <1>5, <1>6, <1>7, <1>8, <1>9 DEF TypeOK

-----------------------------------------------------------------------------
(* The table agrees with itself. *)

LEMMA KeyedInvSlotsAgree ==
  ASSUME KeyedInv PROVE SlotsAgree
<1> DEFINE t == table
           I == 1..Len(taken)
           limit == LimitOf(spec)
           D == DOMAIN t.slab
           vacant == {s \in D : ~Occupied(t, s)}
<1>1. t \in Tables(I) /\ SlotsOK(t, limit)
  BY DEF KeyedInv, Sound
<1>2. limit = MaxKeys
  BY DEF LimitOf, MaxKeys
<1> HIDE DEF t, I, limit
<1>3. vacant = D \ Used(t) /\ Used(t) \subseteq D
  BY DEF Occupied, Used
<1>4. \A k \in Tracked(t) : Occupied(t, t.index[k]) /\ t.slab[t.index[k]].key = k
  BY <1>1 DEF Tracked, SlotsOK, Used, Occupied
<1>5. ToSet(t.free) = vacant
  BY <1>1, <1>3 DEF SlotsOK, ToSet
<1>6. Len(t.free) = Cardinality(vacant)
  <2> DEFINE F == DOMAIN t.free
             f == [i \in F |-> t.free[i]]
  <2>1. F = 1..Len(t.free) /\ Len(t.free) \in Nat
    BY <1>1 DEF Tables
  <2>2. IsFiniteSet(F) /\ Cardinality(F) = Len(t.free)
    BY <2>1, FS_Interval
  <2>3. f \in Bijection(F, vacant)
    <3>1. \A i \in F : t.free[i] \in vacant
      BY <1>1, <1>3 DEF SlotsOK
    <3>2. \A i, j \in F : t.free[i] = t.free[j] => i = j
      BY <1>1 DEF SlotsOK
    <3>3. \A s \in vacant : \E i \in F : t.free[i] = s
      BY <1>1, <1>3 DEF SlotsOK
    <3> HIDE DEF vacant, F
    <3> QED BY <3>1, <3>2, <3>3 DEF Bijection, Injection, Surjection, IsInjective
  <2>4. ExistsBijection(F, vacant)
    BY <2>3 DEF ExistsBijection
  <2> HIDE DEF F, vacant
  <2> QED BY <2>2, <2>4, FS_Bijection
<1>7. Cardinality(Tracked(t)) = Len(t.slab) - Cardinality(vacant)
  <2>1. D = 1..Len(t.slab) /\ Len(t.slab) \in Nat
    BY <1>1, SlabDomain
  <2> DEFINE m == Len(t.slab)
  <2>2. IsFiniteSet(D) /\ Cardinality(D) = Len(t.slab)
    <3>1. m \in Nat /\ 1 \in Int
      BY <2>1
    <3> HIDE DEF m
    <3>2. IsFiniteSet(1..m) /\ Cardinality(1..m) = m
      BY <3>1, FS_Interval
    <3> QED BY <2>1, <3>2 DEF m
  <2> HIDE DEF m
  <2>3. Cardinality(D \ Used(t)) = Cardinality(D) - Cardinality(D \cap Used(t))
    BY <2>2, FS_Difference
  <2>4. D \cap Used(t) = Used(t)
    BY <1>3
  <2>5. Cardinality(Tracked(t)) = Cardinality(Used(t)) /\ Cardinality(Tracked(t)) \in Nat
    BY <1>1, TrackedUsed
  <2> HIDE DEF D, vacant
  <2>6. Cardinality(vacant) = Len(t.slab) - Cardinality(Tracked(t))
    BY <1>3, <2>2, <2>3, <2>4, <2>5
  <2> QED BY <2>1, <2>5, <2>6
<1>8. Len(t.slab) <= MaxKeys
  BY <1>1, <1>2 DEF SlotsOK
<1> QED BY <1>4, <1>5, <1>6, <1>7, <1>8 DEF SlotsAgree, t

LEMMA KeyedInvHeapAgrees ==
  ASSUME KeyedInv PROVE HeapAgrees
<1> DEFINE limit == LimitOf(spec)
<1>1. SlotsOK(table, limit) /\ HeapOK(table, limit)
  BY DEF KeyedInv, Sound
<1>2. limit = MaxKeys
  BY DEF LimitOf, MaxKeys
<1> HIDE DEF limit
<1>3. \A k \in Tracked(table) : table.index[k] \in Used(table)
  BY <1>1 DEF SlotsOK, Tracked
<1>4. Cardinality(table.heap) <= 2 * Min({MaxKeys, Cardinality(Keys)}) + HeapSlack
  BY <1>1, <1>2 DEF HeapOK, HeapBound
<1> QED BY <1>1, <1>3, <1>4 DEF HeapAgrees, HeapOK

\* A member of the list, or its end, has the nearest ones in use around it.
LEMMA Neighbours ==
  ASSUME NEW O, NEW nx, NEW pv, NEW u, IsList(O, nx, pv, u), NEW a \in O \cup {NIL}
  PROVE  /\ nx[a] \in O \cup {NIL} /\ pv[a] \in O \cup {NIL}
         /\ nx[a] # NIL => a = NIL \/ u[a] < u[nx[a]]
         /\ \A r \in O : a = NIL \/ u[a] < u[r] => nx[a] # NIL /\ u[nx[a]] <= u[r]
         /\ pv[a] # NIL => a = NIL \/ u[pv[a]] < u[a]
         /\ \A r \in O : a = NIL \/ u[r] < u[a] => pv[a] # NIL /\ u[r] <= u[pv[a]]
<1>1. /\ NIL \notin O /\ (\A b \in O : u[b] \in Nat)
      /\ nx[a] \in O \cup {NIL} /\ pv[a] \in O \cup {NIL} /\ nx[pv[a]] = a
  BY DEF IsList, Linked
<1>2. /\ \A b \in O : nx[b] # NIL => u[b] < u[nx[b]]
      /\ \A b \in O \cup {NIL} : \A r \in O :
           b = NIL \/ u[b] < u[r] => nx[b] # NIL /\ u[nx[b]] <= u[r]
  BY DEF IsList, Ordered
<1>3. pv[a] # NIL => a = NIL \/ u[pv[a]] < u[a]
  BY <1>1, <1>2
<1>4. ASSUME NEW r \in O, a = NIL \/ u[r] < u[a]
      PROVE  pv[a] # NIL /\ u[r] <= u[pv[a]]
  <2> DEFINE p == pv[a]
  <2>1. p = NIL \/ u[p] < u[r] => a # NIL /\ u[a] <= u[r]
    BY <1>1, <1>2
  <2>2. a # NIL => u[a] \in Nat /\ u[r] \in Nat
    BY <1>1
  <2>3. ~(p = NIL \/ u[p] < u[r])
    BY <1>4, <2>1, <2>2
  <2>4. p \in O /\ u[p] \in Nat /\ u[r] \in Nat
    BY <1>1, <2>3
  <2> QED BY <2>3, <2>4
<1> QED BY <1>1, <1>2, <1>3, <1>4

\* The tracked keys are those of the slots in use, each last used at a time of its own.
Mapped ==
  /\ \A k \in Tracked(table) : table.index[k] \in Used(table) /\ table.slab[table.index[k]].key = k
  /\ \A s \in Used(table) : table.slab[s].key \in Tracked(table) /\ table.index[table.slab[s].key] = s
  /\ \A k \in Tracked(table) : LastUse(k) \in Nat
  /\ \A j, k \in Tracked(table) : LastUse(j) = LastUse(k) => j = k

\* The slots around a, by the last uses of their keys.
Around(a) ==
  LET O == Used(table)
      u(s) == LastUse(table.slab[s].key)
      next == NextAt(table, a)
      prev == PrevAt(table, a)
  IN /\ next \in O \cup {NIL} /\ prev \in O \cup {NIL}
     /\ next # NIL => a = NIL \/ u(a) < u(next)
     /\ \A r \in O : a = NIL \/ u(a) < u(r) => next # NIL /\ u(next) <= u(r)
     /\ prev # NIL => a = NIL \/ u(prev) < u(a)
     /\ \A r \in O : a = NIL \/ u(r) < u(a) => prev # NIL /\ u(r) <= u(prev)

LEMMA KeyedInvAround ==
  ASSUME KeyedInv
  PROVE  Mapped /\ NIL \notin Used(table) /\ \A a \in Used(table) \cup {NIL} : Around(a)
<1> DEFINE I == 1..Len(taken)
           limit == LimitOf(spec)
           use == Uses(taken)
           O == Used(table)
           nx == [a \in O \cup {NIL} |-> NextAt(table, a)]
           pv == [a \in O \cup {NIL} |-> PrevAt(table, a)]
           u == [a \in O |-> use[table.slab[a].key]]
<1>1. table \in Tables(I) /\ SlotsOK(table, limit) /\ IsList(O, nx, pv, u) /\ taken \in Seq(Arrivals)
  BY DEF KeyedInv, Sound, ListOn
<1>2. \A k \in Keys : use[k] = LastUse(k)
  BY DEF Uses, LastIn, LastUse, Ids
<1>3. NIL \notin O
  BY <1>1 DEF IsList
<1>4. \A s \in O : table.slab[s].key \in Keys
  BY <1>1, SlabDomain DEF Entries
<1>5. \A s \in O : u[s] = LastUse(table.slab[s].key)
  BY <1>2, <1>4
<1>6. \A a \in O \cup {NIL} : nx[a] = NextAt(table, a) /\ pv[a] = PrevAt(table, a)
  OBVIOUS
<1> HIDE DEF nx, pv, u
<1>7. Mapped
  <2>1. \A k \in Tracked(table) : table.index[k] \in O /\ table.slab[table.index[k]].key = k
    BY <1>1 DEF SlotsOK, Tracked
  <2>2. \A s \in O : table.slab[s].key \in Tracked(table) /\ table.index[table.slab[s].key] = s
    BY <1>1, <1>3, <1>4 DEF SlotsOK, Tracked
  <2>3. \A s \in O : u[s] \in Nat
    BY <1>1 DEF IsList
  <2>4. \A r, s \in O : u[r] = u[s] => r = s
    BY <1>1 DEF IsList, Ordered
  <2>5. \A k \in Tracked(table) : LastUse(k) \in Nat
    BY <1>5, <2>1, <2>3
  <2>6. ASSUME NEW j \in Tracked(table), NEW k \in Tracked(table), LastUse(j) = LastUse(k)
        PROVE  j = k
    <3>1. u[table.index[j]] = u[table.index[k]]
      BY <1>5, <2>1, <2>6
    <3>2. table.index[j] = table.index[k]
      BY <2>1, <2>4, <3>1
    <3> QED BY <2>1, <3>2
  <2> QED BY <2>1, <2>2, <2>5, <2>6 DEF Mapped
<1>8. ASSUME NEW a \in O \cup {NIL} PROVE Around(a)
  <2>1. /\ nx[a] \in O \cup {NIL} /\ pv[a] \in O \cup {NIL}
        /\ nx[a] # NIL => a = NIL \/ u[a] < u[nx[a]]
        /\ \A r \in O : a = NIL \/ u[a] < u[r] => nx[a] # NIL /\ u[nx[a]] <= u[r]
        /\ pv[a] # NIL => a = NIL \/ u[pv[a]] < u[a]
        /\ \A r \in O : a = NIL \/ u[r] < u[a] => pv[a] # NIL /\ u[r] <= u[pv[a]]
    <3> HIDE DEF O
    <3> QED BY <1>1, Neighbours
  <2> HIDE DEF O
  <2> QED BY <1>5, <1>6, <2>1 DEF Around, O
<1> QED BY <1>3, <1>7, <1>8

\* The slot after a is that of the key used next.
LEMMA NextIsFirst ==
  ASSUME Mapped, NEW a, Around(a), NIL \notin Used(table), NEW keys \in SUBSET Tracked(table),
         \A k \in Tracked(table) :
           k \in keys <=> a = NIL \/ LastUse(table.slab[a].key) < LastUse(k)
  PROVE  NextAt(table, a) = IF keys = {} THEN NIL ELSE table.index[Idlest(keys)]
<1> DEFINE next == NextAt(table, a)
           key == table.slab[next].key
<1>1. CASE keys = {}
  <2>1. next # NIL => key \in keys
    BY DEF Mapped, Around
  <2>2. next = NIL
    BY <1>1, <2>1
  <2> QED BY <1>1, <2>2
<1>2. CASE keys # {}
  <2>1. \A k \in keys : next # NIL /\ LastUse(key) <= LastUse(k)
    <3> TAKE k \in keys
    <3>1. k \in Tracked(table)
      OBVIOUS
    <3>2. table.index[k] \in Used(table) /\ table.slab[table.index[k]].key = k
      BY <3>1 DEF Mapped
    <3> HIDE DEF key, next
    <3> QED BY <3>1, <3>2 DEF Around, key, next
  <2>2. next \in Used(table)
    BY <1>2, <2>1 DEF Around
  <2>3. key \in keys /\ table.index[key] = next
    BY <1>2, <2>1, <2>2 DEF Mapped, Around
  <2>4. Idlest(keys) = key
    <3> DEFINE Least(k) == \A j \in keys : LastUse(k) <= LastUse(j)
    <3>1. Idlest(keys) = CHOOSE k \in keys : Least(k)
      BY DEF Idlest
    <3>2. Least(key)
      BY <2>1
    <3>3. \A k \in keys : Least(k) => k = key
      <4> TAKE k \in keys
      <4> HAVE Least(k)
      <4>1. LastUse(k) <= LastUse(key) /\ LastUse(key) <= LastUse(k)
        BY <2>1, <2>3
      <4>2. LastUse(k) \in Nat /\ LastUse(key) \in Nat
        BY <2>3 DEF Mapped
      <4>3. LastUse(k) = LastUse(key)
        BY <4>1, <4>2
      <4> HIDE DEF key
      <4> QED BY <2>3, <4>3 DEF Mapped
    <3> HIDE DEF key, Least
    <3> QED BY <2>3, <3>1, <3>2, <3>3
  <2> QED BY <1>2, <2>3, <2>4
<1> QED BY <1>1, <1>2

\* The slot before a is that of the key used last before it.
LEMMA PrevIsLast ==
  ASSUME Mapped, NEW a, Around(a), NIL \notin Used(table), NEW keys \in SUBSET Tracked(table),
         \A k \in Tracked(table) :
           k \in keys <=> a = NIL \/ LastUse(k) < LastUse(table.slab[a].key)
  PROVE  PrevAt(table, a)
           = IF keys = {} THEN NIL
             ELSE table.index[CHOOSE k \in keys : \A j \in keys : LastUse(j) <= LastUse(k)]
<1> DEFINE prev == PrevAt(table, a)
           key == table.slab[prev].key
           Latest(k) == \A j \in keys : LastUse(j) <= LastUse(k)
<1>1. CASE keys = {}
  <2>1. prev # NIL => key \in keys
    BY DEF Mapped, Around
  <2>2. prev = NIL
    BY <1>1, <2>1
  <2> QED BY <1>1, <2>2
<1>2. CASE keys # {}
  <2>1. \A k \in keys : prev # NIL /\ LastUse(k) <= LastUse(key)
    <3> TAKE k \in keys
    <3>1. k \in Tracked(table)
      OBVIOUS
    <3>2. table.index[k] \in Used(table) /\ table.slab[table.index[k]].key = k
      BY <3>1 DEF Mapped
    <3> HIDE DEF key, prev
    <3> QED BY <3>1, <3>2 DEF Around, key, prev
  <2>2. prev \in Used(table)
    BY <1>2, <2>1 DEF Around
  <2>3. key \in keys /\ table.index[key] = prev
    BY <1>2, <2>1, <2>2 DEF Mapped, Around
  <2>4. (CHOOSE k \in keys : Latest(k)) = key
    <3>1. Latest(key)
      BY <2>1
    <3>2. \A k \in keys : Latest(k) => k = key
      <4> TAKE k \in keys
      <4> HAVE Latest(k)
      <4>1. LastUse(k) <= LastUse(key) /\ LastUse(key) <= LastUse(k)
        BY <2>1, <2>3
      <4>2. LastUse(k) \in Nat /\ LastUse(key) \in Nat
        BY <2>3 DEF Mapped
      <4>3. LastUse(k) = LastUse(key)
        BY <4>1, <4>2
      <4> HIDE DEF key
      <4> QED BY <2>3, <4>3 DEF Mapped
    <3> HIDE DEF key, Latest
    <3> QED BY <2>3, <3>1, <3>2
  <2> QED BY <1>2, <2>3, <2>4
<1> QED BY <1>1, <1>2

LEMMA KeyedInvListAgrees ==
  ASSUME KeyedInv PROVE ListAgrees
<1> DEFINE first(keys) == IF keys = {} THEN NIL ELSE table.index[Idlest(keys)]
           last(keys) == IF keys = {} THEN NIL
                         ELSE table.index[CHOOSE k \in keys : \A j \in keys : LastUse(j) <= LastUse(k)]
           T == Tracked(table)
<1>1. Mapped /\ NIL \notin Used(table) /\ \A a \in Used(table) \cup {NIL} : Around(a)
  BY KeyedInvAround
<1>2. NextAt(table, NIL) = first(T) /\ PrevAt(table, NIL) = last(T)
  BY <1>1, NextIsFirst, PrevIsLast
<1>3. ASSUME NEW k \in T
      PROVE  LET entry == table.slab[table.index[k]]
             IN /\ entry.next = first({j \in T : LastUse(j) > LastUse(k)})
                /\ entry.prev = last({j \in T : LastUse(j) < LastUse(k)})
  <2> DEFINE a == table.index[k]
             after == {j \in T : LastUse(j) > LastUse(k)}
             before == {j \in T : LastUse(j) < LastUse(k)}
  <2>1. a \in Used(table) /\ table.slab[a].key = k /\ a # NIL
    BY <1>1 DEF Mapped
  <2>2. Around(a)
    BY <1>1, <2>1
  <2>3. \A j \in T : LastUse(j) > LastUse(k) <=> LastUse(k) < LastUse(j)
    BY <1>1 DEF Mapped
  <2>4. \A j \in T : j \in after <=> a = NIL \/ LastUse(table.slab[a].key) < LastUse(j)
    BY <2>1, <2>3
  <2>5. \A j \in T : j \in before <=> a = NIL \/ LastUse(j) < LastUse(table.slab[a].key)
    BY <2>1
  <2>6. after \in SUBSET T /\ before \in SUBSET T
    OBVIOUS
  <2> HIDE DEF a, after, before
  <2>7. NextAt(table, a) = first(after)
    BY <1>1, <2>2, <2>4, <2>6, NextIsFirst
  <2>8. PrevAt(table, a) = last(before)
    BY <1>1, <2>2, <2>5, <2>6, PrevIsLast
  <2>9. NextAt(table, a) = table.slab[a].next /\ PrevAt(table, a) = table.slab[a].prev
    BY <2>1 DEF NextAt, PrevAt
  <2> HIDE DEF first, last
  <2> QED BY <2>7, <2>8, <2>9 DEF a, after, before
<1>4. NextAt(table, NIL) = table.head /\ PrevAt(table, NIL) = table.tail
  BY DEF NextAt, PrevAt
<1>5. table.head = first(T) /\ table.tail = last(T)
  BY <1>2, <1>4
<1> QED BY <1>3, <1>5 DEF ListAgrees

-----------------------------------------------------------------------------
\* In every state of the stage, under every policy the builder accepts, links, tickets
\* and slots point into the slab, and cores hold only items that were taken.
THEOREM KeyedTypeOK == Spec => []TypeOK
<1>1. KeyedInv => TypeOK
  BY KeyedInvTypeOK
<1> QED BY <1>1, KeyedInvariant, PTL

\* Index, slab, free list, heap and recency list of KeyedWindowStage agree after any
\* calls and under any clock, also where max_keys evicts, windows expire, or a window
\* is refused in the middle of a call.
THEOREM KeyedTableSound == Spec => []TableSound
<1>1. KeyedInv => TableSound
  BY KeyedInvSlotsAgree, KeyedInvHeapAgrees, KeyedInvListAgrees DEF TableSound
<1> QED BY <1>1, KeyedInvariant, PTL

-----------------------------------------------------------------------------
(* When windows end. *)

LEMMA DivBounds ==
  ASSUME NEW a \in Nat, NEW d \in Nat \ {0}
  PROVE  (a \div d) * d <= a /\ a < (a \div d) * d + d
<1>1. /\ a \div d \in Nat /\ a % d \in 0..(d - 1)
      /\ a = d * (a \div d) + (a % d)
  OBVIOUS
<1> DEFINE q == a \div d
           r == a % d
<1>2. q \in Nat /\ r \in Nat /\ r < d /\ a = d * q + r
  BY <1>1
<1> HIDE DEF q, r
<1>3. q * d = d * q /\ d * q \in Nat
  BY <1>2
<1>4. q * d <= a /\ a < q * d + d
  <2> DEFINE p == d * q
  <2>1. p \in Nat /\ a = p + r /\ q * d = p
    BY <1>2, <1>3
  <2> HIDE DEF p
  <2> QED BY <1>2, <2>1
<1> QED BY <1>4 DEF q

LEMMA ProductMonotonic ==
  ASSUME NEW m \in Nat, NEW n \in Nat, NEW d \in Nat, m <= n
  PROVE  m * d <= n * d /\ m * d \in Nat /\ n * d \in Nat
OBVIOUS

LEMMA ProductNext ==
  ASSUME NEW n \in Nat, NEW d \in Nat
  PROVE  (n + 1) * d = n * d + d
OBVIOUS

\* A window of the grid has the start and the end its index gives it.
OnGrid(policy, anchor_, slot) ==
  /\ slot.start = anchor_ + slot.k * policy.slide /\ slot.start \in Instants
  /\ slot.end = CheckedAdd(slot.start, policy.size)

\* It does not end, or not yet.
NotOver(t, now_) == t # None => t > now_

\* The windows from FirstIndex on are still open.
LEMMA FirstIsOpen ==
  ASSUME NEW policy \in Policies, NEW anchor_ \in Instants, NEW now_ \in Instants,
         NEW slot, slot.k \in Nat, OnGrid(policy, anchor_, slot),
         slot.k >= FirstIndex(policy, anchor_, now_)
  PROVE  NotOver(slot.end, now_)
<1> DEFINE d == Since(now_, anchor_)
           size == policy.size
           slide == policy.slide
           k == slot.k
           p == k * slide
<1>1. size \in Nat \ {0} /\ slide \in Nat \ {0} /\ anchor_ \in Nat /\ now_ \in Nat /\ d \in Nat /\ k \in Nat
  BY PolicyType, InstantNat, SinceType
<1>2. d >= now_ - anchor_
  BY <1>1 DEF Since
<1>3. slot.start = anchor_ + p /\ slot.end = CheckedAdd(slot.start, size)
  BY DEF OnGrid
<1>4. k >= IF d >= size THEN (d - size) \div slide + 1 ELSE 0
  BY DEF FirstIndex
<1> HIDE DEF d, size, slide, k
<1>5. p \in Nat
  BY <1>1, ProductType
<1>6. p + size > d
  <2>1. CASE d >= size
    <3> DEFINE a == d - size
               q == a \div slide
    <3>1. a \in Nat /\ k >= q + 1
      BY <1>1, <1>4, <2>1
    <3> HIDE DEF a
    <3>2. q \in Nat /\ a < q * slide + slide
      BY <1>1, <3>1, DivType, DivBounds
    <3> HIDE DEF q
    <3>3. (q + 1) * slide = q * slide + slide /\ (q + 1) * slide <= k * slide /\ q * slide \in Nat
      <4>1. q + 1 \in Nat /\ slide \in Nat
        BY <1>1, <3>2
      <4> QED BY <1>1, <3>1, <3>2, <4>1, ProductNext, ProductMonotonic, ProductType
    <3> DEFINE x == q * slide
               y == (q + 1) * slide
    <3>4. a < x + slide /\ y = x + slide /\ y <= p /\ x \in Nat /\ slide \in Nat
      BY <1>1, <3>2, <3>3
    <3> HIDE DEF x, y, p
    <3>5. a < p
      BY <1>5, <3>1, <3>4
    <3> QED BY <1>1, <1>5, <3>5 DEF a
  <2>2. CASE ~(d >= size)
    <3> HIDE DEF p
    <3> QED BY <1>1, <1>5, <2>2
  <2> QED BY <2>1, <2>2
<1> HIDE DEF p
<1>7. slot.end # None => slot.end = anchor_ + p + size
  BY <1>1, <1>3, <1>5 DEF CheckedAdd, None
<1> QED BY <1>1, <1>2, <1>5, <1>6, <1>7 DEF NotOver

\* A grid point that is not in the future can be represented.
LEMMA GridPoint ==
  ASSUME NEW anchor_ \in Instants, NEW now_ \in Instants, NEW n \in Nat, NEW d \in Nat \ {0},
         n <= Since(now_, anchor_) \div d, NEW fallback
  PROVE  /\ Offset(anchor_, n, d, fallback) = anchor_ + n * d
         /\ anchor_ + n * d \in Instants
<1> DEFINE e == Since(now_, anchor_)
           p == n * d
           q == (e \div d) * d
<1>1. e \in Nat /\ anchor_ \in Nat /\ now_ \in Nat /\ MaxInstant \in Nat /\ now_ <= MaxInstant /\ anchor_ <= MaxInstant
  BY InstantNat, SinceType, MaxInstantType DEF Instants
<1>2. e \div d \in Nat /\ q <= e
  <2> HIDE DEF e
  <2> QED BY <1>1, DivType, DivBounds
<1>3. p <= q /\ p \in Nat /\ q \in Nat
  <2> DEFINE m == e \div d
  <2>1. m \in Nat /\ n <= m
    BY <1>2
  <2> HIDE DEF m
  <2>2. n * d <= m * d /\ n * d \in Nat /\ m * d \in Nat
    BY <2>1, ProductMonotonic
  <2> QED BY <2>2 DEF m
<1> HIDE DEF p, q
<1>4. anchor_ + p <= MaxInstant
  BY <1>1, <1>2, <1>3 DEF e, Since
<1>5. Offset(anchor_, n, d, fallback) = Or(CheckedAdd(anchor_, p), fallback)
  BY DEF Offset, p
<1>6. CheckedAdd(anchor_, p) = anchor_ + p /\ anchor_ + p \in Nat
  BY <1>1, <1>3, <1>4 DEF CheckedAdd, None
<1>7. Offset(anchor_, n, d, fallback) = anchor_ + p
  BY <1>5, <1>6 DEF Or, None
<1> QED BY <1>1, <1>4, <1>6, <1>7 DEF p, Instants

\* The tumbling window of an item that arrives now is still open.
LEMMA StartIsOpen ==
  ASSUME NEW policy \in Policies, policy.kind = "tumbling", NEW anchor_ \in Instants,
         NEW now_ \in Instants
  PROVE  NotOver(CheckedAdd(StartOf(policy, anchor_, now_), policy.size), now_)
<1> DEFINE e == Since(now_, anchor_)
           size == policy.size
           q == e \div size
           p == q * size
<1>1. size \in Nat \ {0} /\ anchor_ \in Nat /\ now_ \in Nat /\ e \in Nat
  BY PolicyType, InstantNat, SinceType
<1>2. StartOf(policy, anchor_, now_) = Offset(anchor_, q, size, now_)
  BY DEF StartOf, Align
<1>3. q \in Nat /\ q <= e \div size
  <2>1. q \in Nat
    <3> HIDE DEF e, size
    <3> QED BY <1>1, DivType
  <2> QED BY <2>1
<1>4. Offset(anchor_, q, size, now_) = anchor_ + p
  <2> HIDE DEF q, size
  <2> QED BY <1>1, <1>3, GridPoint
<1>5. e < p + size
  <2> HIDE DEF e, size
  <2> QED BY <1>1, DivBounds
<1>6. p \in Nat
  <2> HIDE DEF q, size
  <2> QED BY <1>1, <1>3, ProductType
<1>7. e >= now_ - anchor_
  BY <1>1 DEF Since
<1> HIDE DEF p, e, q, size
<1>8. anchor_ + p + size > now_
  BY <1>1, <1>5, <1>6, <1>7
<1>9. /\ CheckedAdd(StartOf(policy, anchor_, now_), size) # None =>
           CheckedAdd(StartOf(policy, anchor_, now_), size) = anchor_ + p + size
  BY <1>1, <1>2, <1>4, <1>6 DEF CheckedAdd
<1> QED BY <1>8, <1>9 DEF NotOver, size

\* The windows of the grid from an index on.
WindowsFrom(I, policy, anchor_, first) ==
  {w \in OpenWindows(I) : OnGrid(policy, anchor_, w) /\ w.k >= first}

\* The windows a core has open lie on the grid.
GridCore(I, policy, anchor_, core) ==
  policy.kind = "sliding" => core.slots \in Seq(WindowsFrom(I, policy, anchor_, 0))

\* A refusal is not forgotten, and what was not taken was refused.
Emitting(out, o) == (out.refused => o.refused) /\ (~o.ok => o.refused)

LEMMA EmitSomeEmits ==
  ASSUME NEW out \in Outlets, NEW items, NEW start, NEW end
  PROVE  Emitting(out, EmitSome(out, items, start, end))
<1>1. CASE items = <<>>
  BY <1>1 DEF EmitSome, Outlets, Emitting
<1>2. CASE items # <<>> /\ out.accepts = 0
  BY <1>2 DEF EmitSome, Outlets, Emitting
<1>3. CASE items # <<>> /\ out.accepts # 0
  <2> DEFINE sent_ == Append(out.sent, [key |-> out.key, items |-> items, start |-> start, end |-> end])
  <2>1. EmitSome(out, items, start, end)
          = [out EXCEPT !.ok = TRUE, !.accepts = out.accepts - 1, !.sent = sent_]
    BY <1>3 DEF EmitSome
  <2> HIDE DEF sent_
  <2> QED BY <2>1 DEF Outlets, Emitting
<1> QED BY <1>1, <1>2, <1>3

LEMMA SeqWithout ==
  ASSUME NEW S, NEW P, NEW s \in Seq(S), \A i \in DOMAIN s : s[i] \in P
  PROVE  s \in Seq(P)
<1>1. DOMAIN s = 1..Len(s) /\ Len(s) \in Nat /\ s = [i \in 1..Len(s) |-> s[i]]
  OBVIOUS
<1> QED BY <1>1

\* emit_slots_before leaves what it does not emit, and all of it only if refused.
LEMMA EmitSlotsLeaves ==
  ASSUME NEW I \in SUBSET Nat, NEW policy, NEW anchor_,
         NEW slots \in Seq(WindowsFrom(I, policy, anchor_, 0)), NEW first \in Nat, NEW out \in Outlets,
         NEW r, r = EmitSlotsBefore(slots, first, out)
  PROVE  /\ Emitting(out, r.out) /\ r \in Passes(I)
         /\ r.slots \in Seq(WindowsFrom(I, policy, anchor_, IF r.out.refused THEN 0 ELSE first))
<1> DEFINE G(n) == WindowsFrom(I, policy, anchor_, n)
           k == Len(slots)
           V == {p \in Passes(I) : /\ p.slots \in Seq(G(0)) /\ Emitting(out, p.out)
                                   /\ p.out.ok => p.slots \in Seq(G(first))}
<1>1. G(0) \subseteq OpenWindows(I) /\ G(first) \subseteq G(0)
  BY DEF WindowsFrom, OpenWindows
<1>2. slots \in Seq(OpenWindows(I)) /\ k \in Nat /\ \A n \in 1..k : slots[n] \in G(0)
  <2>1. slots \in Seq(OpenWindows(I))
    <3> HIDE DEF G
    <3> QED BY <1>1, SeqMonotonic DEF G
  <2> QED BY <2>1
<1>3. PICK run \in [0..k -> Passes(I)] : EmitsSlots(run, slots, first, out)
  BY <1>2, EmitSlotsRun
<1>4. /\ run[0] = [slots |-> <<>>, out |-> [out EXCEPT !.ok = TRUE]]
      /\ \A n \in 1..k : run[n] = EmitSlot(run[n - 1], slots[n], first)
      /\ r = run[k]
  BY <1>3 DEF EmitsSlots
<1> HIDE DEF k, G
<1>5. run[0] \in V
  <2>1. 0 \in 0..k
    BY <1>2
  <2>2. run[0] \in Passes(I)
    BY <1>3, <2>1
  <2>3. run[0].slots = <<>> /\ run[0].out = [out EXCEPT !.ok = TRUE]
    BY <1>4
  <2>4. Emitting(out, run[0].out)
    BY <2>3 DEF Outlets, Emitting
  <2>5. <<>> \in Seq(G(0)) /\ <<>> \in Seq(G(first))
    OBVIOUS
  <2> QED BY <2>2, <2>3, <2>4, <2>5
<1>6. ASSUME NEW n \in 1..k, run[n - 1] \in V PROVE run[n] \in V
  <2> DEFINE p == run[n - 1]
             slot == slots[n]
             q == EmitSlot(p, slot, first)
             o == EmitSome(p.out, slot.items, slot.start, Or(slot.end, slot.start))
  <2>1. slot \in G(0) /\ slot \in OpenWindows(I) /\ p \in Passes(I)
    BY <1>1, <1>2, <1>6
  <2>2. q \in Passes(I)
    <3> HIDE DEF p, slot
    <3> QED BY <2>1, EmitSlotType
  <2>3. run[n] = q
    BY <1>4
  <2>4. /\ p.slots \in Seq(G(0)) /\ Emitting(out, p.out) /\ p.out \in Outlets
        /\ p.out.ok => p.slots \in Seq(G(first))
    BY <1>6 DEF Passes
  <2>5. q = IF slot.k >= first \/ ~p.out.ok THEN [p EXCEPT !.slots = Append(p.slots, slot)]
            ELSE [p EXCEPT !.out = o]
    BY DEF EmitSlot
  <2> HIDE DEF slot, p, q
  <2>6. CASE slot.k >= first \/ ~p.out.ok
    <3> DEFINE more == Append(p.slots, slot)
    <3>1. more \in Seq(G(0))
      BY <2>1, <2>4
    <3>2. p.out.ok => more \in Seq(G(first))
      <4> SUFFICES ASSUME p.out.ok PROVE more \in Seq(G(first))
        OBVIOUS
      <4>1. slot \in G(first)
        BY <2>1, <2>6 DEF G, WindowsFrom
      <4> QED BY <2>4, <4>1
    <3> HIDE DEF more
    <3>3. q.slots = more /\ q.out = p.out
      BY <2>1, <2>5, <2>6 DEF Passes, more
    <3> QED BY <2>2, <2>3, <2>4, <3>1, <3>2, <3>3
  <2>7. CASE ~(slot.k >= first \/ ~p.out.ok)
    <3>1. q.slots = p.slots /\ q.out = o
      BY <2>1, <2>5, <2>7 DEF Passes
    <3>2. Emitting(p.out, o)
      BY <2>4, EmitSomeEmits
    <3>3. Emitting(out, o)
      BY <2>4, <3>2 DEF Emitting
    <3>4. p.slots \in Seq(G(first))
      BY <2>4, <2>7
    <3> QED BY <2>2, <2>3, <2>4, <3>1, <3>3, <3>4
  <2> QED BY <2>6, <2>7
<1>7. \A n \in 0..k : run[n] \in V
  <2> HIDE DEF V
  <2> QED BY <1>2, <1>5, <1>6, Invariance
<1>8. r \in V
  <2>1. k \in 0..k
    BY <1>2
  <2> QED BY <1>4, <1>7, <2>1
<1>9. ~r.out.refused => r.out.ok
  BY <1>8 DEF Emitting, Passes, Outlets
<1>10. r.slots \in Seq(G(IF r.out.refused THEN 0 ELSE first))
  BY <1>8, <1>9
<1> QED BY <1>8, <1>10 DEF G

\* When on_tick or on_item is done, nothing is due any more unless a window was refused.
Settled(I, policy, anchor_, now_, out, r) ==
  /\ GridCore(I, policy, anchor_, r.core) /\ (out.refused => r.out.refused)
  /\ r.out.refused \/ NotOver(Deadline(policy, r.core), now_)

\* A window that has not ended is due later.
LEMMA NotOverYet ==
  ASSUME NEW I \in SUBSET Nat, NEW policy \in Policies, policy.kind # "sliding",
         NEW core \in Cores(I), NEW now_ \in Instants, ~IsOver(policy, core, now_)
  PROVE  NotOver(Deadline(policy, core), now_)
<1>1. /\ core.start \in Moments /\ core.last \in Moments /\ MaxInstant \in Nat /\ now_ \in Nat
      /\ policy.size \in Nat /\ policy.kind \in {"tumbling", "session"}
  BY MaxInstantType, InstantNat, PolicyType DEF Cores
<1>2. CASE policy.kind = "tumbling"
  <2> DEFINE end == CheckedAdd(core.start, policy.size)
  <2>1. end \in Moments
    BY <1>1, CheckedAddType
  <2>2. Deadline(policy, core) = end /\ (end = None \/ ~(now_ >= end))
    BY <1>2 DEF Deadline, IsOver
  <2> HIDE DEF end
  <2> QED BY <1>1, <2>1, <2>2 DEF NotOver, Moments, Instants
<1>3. CASE policy.kind = "session"
  <2> DEFINE last == core.last
             size == policy.size
  <2>1. Deadline(policy, core) = CheckedAdd(last, size + 1)
    BY <1>3 DEF Deadline
  <2>2. last = None \/ ~(Since(now_, last) > size)
    BY <1>3 DEF IsOver
  <2> HIDE DEF last, size
  <2>3. last \in Moments /\ size \in Nat
    BY <1>1 DEF last, size
  <2> QED BY <1>1, <2>1, <2>2, <2>3 DEF NotOver, Moments, Instants, CheckedAdd, Since, None
<1> QED BY <1>1, <1>2, <1>3

LEMMA OnTickSettles ==
  ASSUME NEW I \in SUBSET Nat, NEW policy \in Policies, NEW anchor_ \in Instants,
         NEW now_ \in Instants, NEW core \in Cores(I), GridCore(I, policy, anchor_, core),
         NEW out \in Outlets
  PROVE  Settled(I, policy, anchor_, now_, out, OnTick(policy, core, anchor_, now_, out))
<1> DEFINE r == OnTick(policy, core, anchor_, now_, out)
<1>1. CASE policy.kind = "sliding"
  <2> DEFINE first == FirstIndex(policy, anchor_, now_)
             old == EmitSlotsBefore(core.slots, first, out)
             next == [core EXCEPT !.slots = old.slots]
  <2>1. first \in Nat /\ core.slots \in Seq(WindowsFrom(I, policy, anchor_, 0))
    BY <1>1, IndexTypes DEF GridCore
  <2>2. r = [core |-> next, out |-> old.out]
    BY <1>1 DEF OnTick
  <2> HIDE DEF first, r
  <2>3. /\ Emitting(out, old.out)
        /\ old.slots \in Seq(WindowsFrom(I, policy, anchor_, IF old.out.refused THEN 0 ELSE first))
    BY <2>1, EmitSlotsLeaves
  <2> HIDE DEF old
  <2>4. next.slots = old.slots
    BY DEF Cores
  <2>5. old.slots \in Seq(WindowsFrom(I, policy, anchor_, 0))
    <3>1. WindowsFrom(I, policy, anchor_, first) \subseteq WindowsFrom(I, policy, anchor_, 0)
      BY DEF WindowsFrom, OpenWindows
    <3> QED BY <2>3, <3>1, SeqMonotonic
  <2>6. GridCore(I, policy, anchor_, next)
    BY <2>4, <2>5 DEF GridCore
  <2>7. ASSUME ~old.out.refused PROVE NotOver(Deadline(policy, next), now_)
    <3>1. old.slots \in Seq(WindowsFrom(I, policy, anchor_, first))
      BY <2>3, <2>7
    <3>2. Deadline(policy, next) = IF old.slots = <<>> THEN None ELSE old.slots[1].end
      BY <1>1, <2>4 DEF Deadline
    <3>3. CASE old.slots = <<>>
      BY <3>2, <3>3 DEF NotOver
    <3>4. CASE old.slots # <<>>
      <4> DEFINE w == old.slots[1]
      <4>1. w \in WindowsFrom(I, policy, anchor_, first)
        BY <3>1, <3>4
      <4> HIDE DEF w
      <4>2. NotOver(w.end, now_)
        BY <4>1, FirstIsOpen DEF WindowsFrom, OpenWindows, first
      <4> QED BY <3>2, <3>4, <4>2 DEF w
    <3> QED BY <3>3, <3>4
  <2>8. r.core = next /\ r.out = old.out
    BY <2>2
  <2> HIDE DEF next
  <2> QED BY <2>3, <2>6, <2>7, <2>8 DEF Settled, Emitting, r
<1>2. CASE policy.kind # "sliding"
  <2> DEFINE start == IF policy.kind = "tumbling" THEN StartOf(policy, anchor_, now_) ELSE None
             closed == [core EXCEPT !.items = <<>>, !.last = None, !.start = start]
             o == Close(policy, core, now_, out)
  <2>1. r = IF ~IsOver(policy, core, now_) THEN [core |-> core, out |-> out]
            ELSE [core |-> closed, out |-> o]
    BY <1>2 DEF OnTick, OnTickOne
  <2>2. GridCore(I, policy, anchor_, r.core)
    BY <1>2 DEF GridCore
  <2>3. policy.kind \in {"tumbling", "session"} /\ policy.size \in Nat /\ now_ \in Nat
    BY <1>2, PolicyType, InstantNat
  <2>4. Emitting(out, o)
    BY EmitSomeEmits DEF Close
  <2>5. CASE ~IsOver(policy, core, now_)
    <3>1. r.core = core /\ r.out = out
      BY <2>1, <2>5
    <3>2. NotOver(Deadline(policy, core), now_)
      BY <1>2, <2>5, NotOverYet
    <3> QED BY <2>2, <3>1, <3>2 DEF Settled
  <2>6. CASE IsOver(policy, core, now_)
    <3>1. r.core = closed /\ r.out = o
      BY <2>1, <2>6
    <3>2. closed.start = start /\ closed.last = None
      BY DEF Cores
    <3>3. NotOver(Deadline(policy, closed), now_)
      <4>1. CASE policy.kind = "tumbling"
        <5>1. Deadline(policy, closed) = CheckedAdd(StartOf(policy, anchor_, now_), policy.size)
          BY <3>2, <4>1 DEF Deadline
        <5> QED BY <4>1, <5>1, StartIsOpen
      <4>2. CASE policy.kind = "session"
        BY <3>2, <4>2 DEF Deadline, CheckedAdd, NotOver
      <4> QED BY <2>3, <4>1, <4>2
    <3> HIDE DEF r, closed, o
    <3> QED BY <2>2, <2>4, <3>1, <3>3 DEF Settled, Emitting, r
  <2> QED BY <2>5, <2>6
<1> QED BY <1>1, <1>2

\* Adding an item leaves the last arrival, and the start of a tumbling window.
LEMMA PushKeeps ==
  ASSUME NEW I \in SUBSET Nat, NEW policy \in Policies, NEW core \in Cores(I), NEW maxItems,
         NEW now_ \in Instants, NEW item \in I, NEW out \in Outlets, out.ok,
         NEW r, r = Push(policy, maxItems, core, now_, item, out)
  PROVE  /\ r.core.last = core.last /\ (policy.kind # "session" => r.core.start = core.start)
         /\ Emitting(out, r.out)
<1> DEFINE items == Append(core.items, item)
           grown == [core EXCEPT !.items = items]
           rest == [core EXCEPT !.items = <<>>,
                      !.start = IF policy.kind = "session" THEN now_ ELSE core.start]
           o == Close(policy, grown, now_, out)
<1>1. Emitting(out, o)
  BY EmitSomeEmits DEF Close
<1>2. Emitting(out, out)
  BY DEF Emitting
<1>3. grown.last = core.last /\ grown.start = core.start
  <2> HIDE DEF items
  <2> QED BY DEF Cores
<1>4. rest.last = core.last /\ (policy.kind # "session" => rest.start = core.start)
  BY DEF Cores
<1>5. r = IF Len(grown.items) < maxItems THEN [core |-> grown, out |-> out]
          ELSE [core |-> rest, out |-> o]
  BY DEF Push
<1> HIDE DEF grown, rest, o
<1> QED BY <1>1, <1>2, <1>3, <1>4, <1>5

LEMMA OnItemOneSettles ==
  ASSUME NEW I \in SUBSET Nat, NEW policy \in Policies, policy.kind # "sliding",
         NEW core \in Cores(I), NEW maxItems,
         NEW anchor_ \in Instants, NEW now_ \in Instants, NEW item \in I, NEW out \in Outlets,
         NEW r, r = OnItemOne(policy, maxItems, core, anchor_, now_, item, out)
  PROVE  Settled(I, policy, anchor_, now_, out, r)
<1> DEFINE begun == [core EXCEPT !.start = Or(core.start, StartOf(policy, anchor_, now_))]
           over == IsOver(policy, begun, now_)
           after == IF over THEN Close(policy, begun, now_, out) ELSE [out EXCEPT !.ok = TRUE]
           rest == IF over THEN [begun EXCEPT !.items = <<>>] ELSE begun
           start == IF over THEN StartOf(policy, anchor_, now_) ELSE begun.start
           last == IF policy.kind = "session" THEN now_ ELSE None
           next == [rest EXCEPT !.start = start, !.last = last]
           pushed == Push(policy, maxItems, next, now_, item, after)
<1>1. StartOf(policy, anchor_, now_) \in Instants
  BY StartOfType
<1>2. begun \in Cores(I)
  <2>1. Or(core.start, StartOf(policy, anchor_, now_)) \in Moments
    BY <1>1, InstantNat, OrTypeAny DEF Cores
  <2> QED BY <2>1 DEF Cores
<1>3. after \in Outlets /\ Emitting(out, after)
  <2>1. Close(policy, begun, now_, out) \in Outlets
    <3> HIDE DEF begun
    <3> QED BY <1>2, CloseType
  <2>2. [out EXCEPT !.ok = TRUE] \in Outlets
    BY DEF Outlets
  <2>3. Emitting(out, Close(policy, begun, now_, out))
    BY EmitSomeEmits DEF Close
  <2>4. Emitting(out, [out EXCEPT !.ok = TRUE])
    BY DEF Emitting, Outlets
  <2> HIDE DEF over, begun
  <2> QED BY <2>1, <2>2, <2>3, <2>4
<1>4. rest \in Cores(I)
  <2> HIDE DEF begun, over
  <2>1. <<>> \in Seq(I)
    OBVIOUS
  <2> QED BY <1>2, <2>1 DEF Cores
<1>5. start \in Moments /\ last \in Moments
  <2> HIDE DEF begun, over
  <2> QED BY <1>1, <1>2, InstantNat DEF Cores, Moments
<1>6. next \in Cores(I) /\ next.start = start /\ next.last = last
  <2> HIDE DEF rest, start, last
  <2> QED BY <1>4, <1>5 DEF Cores
<1>7. r = IF after.ok THEN pushed ELSE [core |-> rest, out |-> after]
  BY DEF OnItemOne
<1>8. GridCore(I, policy, anchor_, r.core)
  BY DEF GridCore
<1>9. CASE ~after.ok
  <2>1. r.out = after
    BY <1>7, <1>9
  <2>2. after.refused
    BY <1>3, <1>9 DEF Emitting
  <2> HIDE DEF after
  <2> QED BY <1>8, <2>1, <2>2 DEF Settled
<1>10. CASE after.ok
  <2>1. r = pushed
    BY <1>7, <1>10
  <2>2. /\ r.core.last = last /\ (policy.kind # "session" => r.core.start = start)
        /\ Emitting(after, r.out)
    <3> HIDE DEF next, after, start, last
    <3> QED BY <1>3, <1>6, <1>10, <2>1, PushKeeps DEF pushed
  <2>3. policy.kind \in {"tumbling", "session"} /\ policy.size \in Nat /\ now_ \in Nat /\ MaxInstant \in Nat
    BY PolicyType, InstantNat, MaxInstantType
  <2> HIDE DEF pushed, next, rest
  <2>4. NotOver(Deadline(policy, r.core), now_)
    <3>1. CASE policy.kind = "tumbling"
      <4>1. r.core.start = start /\ Deadline(policy, r.core) = CheckedAdd(start, policy.size)
        <5> HIDE DEF start
        <5> QED BY <2>2, <3>1 DEF Deadline
      <4>2. CASE over
        <5>1. start = StartOf(policy, anchor_, now_)
          BY <4>2
        <5> HIDE DEF start
        <5> QED BY <3>1, <4>1, <5>1, StartIsOpen
      <4>3. CASE ~over
        <5>1. start = begun.start
          BY <4>3
        <5>2. NotOver(Deadline(policy, begun), now_)
          <6> HIDE DEF begun
          <6> QED BY <1>2, <4>3, NotOverYet
        <5>3. Deadline(policy, begun) = CheckedAdd(begun.start, policy.size)
          <6> HIDE DEF begun
          <6> QED BY <3>1 DEF Deadline
        <5> HIDE DEF begun, start
        <5> QED BY <4>1, <5>1, <5>2, <5>3
      <4> QED BY <4>2, <4>3
    <3>2. CASE policy.kind = "session"
      <4>1. Deadline(policy, r.core) = CheckedAdd(now_, policy.size + 1)
        BY <2>2, <3>2 DEF Deadline
      <4> DEFINE size == policy.size
      <4> HIDE DEF size
      <4> QED BY <2>3, <4>1 DEF NotOver, CheckedAdd, None, size
    <3> QED BY <2>3, <3>1, <3>2
  <2> HIDE DEF after
  <2> QED BY <1>3, <1>8, <2>2, <2>4 DEF Settled, Emitting
<1> QED BY <1>9, <1>10

\* Part of a sequence of windows.
LEMMA PartOf ==
  ASSUME NEW S, NEW s \in Seq(S), NEW a \in Nat \ {0}, NEW b \in Nat, b <= Len(s)
  PROVE  SubSeq(s, a, b) \in Seq(S)
<1>1. \A i \in a..b : s[i] \in S
  OBVIOUS
<1> QED BY <1>1, SubSeqProperties

\* An item joins windows of the grid that are still open.
LEMMA SlotAtOpen ==
  ASSUME NEW I \in SUBSET Nat, NEW policy \in Policies, NEW anchor_ \in Instants,
         NEW now_ \in Instants, NEW first \in Nat, NEW slots \in Seq(WindowsFrom(I, policy, anchor_, 0)),
         NEW k \in Nat, first <= k, k <= LastIndex(policy, anchor_, now_)
  PROVE  SlotAt(policy, anchor_, now_, slots, k) \in WindowsFrom(I, policy, anchor_, first)
<1> DEFINE w == SlotAt(policy, anchor_, now_, slots, k)
           G == WindowsFrom(I, policy, anchor_, 0)
<1>1. G \subseteq OpenWindows(I)
  BY DEF WindowsFrom
<1>2. slots \in Seq(OpenWindows(I))
  <2> HIDE DEF G
  <2> QED BY <1>1, SeqMonotonic DEF G
<1>3. w \in OpenWindows(I)
  BY <1>2, SlotAtType
<1>4. CASE \E slot \in ToSet(slots) : slot.k = k
  <2> DEFINE found == CHOOSE slot \in ToSet(slots) : slot.k = k
  <2>1. found \in ToSet(slots) /\ found.k = k
    BY <1>4
  <2>2. w = found
    BY <1>4 DEF SlotAt
  <2> HIDE DEF found
  <2>3. w \in G
    <3>1. PICK i \in DOMAIN slots : w = slots[i]
      BY <2>1, <2>2 DEF ToSet
    <3> HIDE DEF G, w
    <3> QED BY <3>1 DEF G
  <2> HIDE DEF w
  <2> QED BY <2>1, <2>2, <2>3 DEF WindowsFrom, w
<1>5. CASE ~ \E slot \in ToSet(slots) : slot.k = k
  <2> DEFINE start == Offset(anchor_, k, policy.slide, now_)
  <2>1. w = [k |-> k, start |-> start, end |-> CheckedAdd(start, policy.size), items |-> <<>>]
    BY <1>5 DEF SlotAt, Slot
  <2>2. start = anchor_ + k * policy.slide /\ start \in Instants
    <3>1. k <= Since(now_, anchor_) \div policy.slide
      BY DEF LastIndex
    <3>2. policy.slide \in Nat \ {0}
      BY PolicyType
    <3> QED BY <3>1, <3>2, GridPoint
  <2> HIDE DEF start
  <2>3. w.k = k /\ w.start = start /\ w.end = CheckedAdd(start, policy.size)
    BY <2>1
  <2> HIDE DEF w
  <2> QED BY <1>3, <2>2, <2>3 DEF WindowsFrom, OnGrid, w
<1> QED BY <1>4, <1>5

\* Joining a window keeps its place on the grid.
LEMMA JoinSlotKeeps ==
  ASSUME NEW I \in SUBSET Nat, NEW policy, NEW anchor_, NEW first \in Nat,
         NEW acc \in Passes(I), NEW maxItems, NEW now_ \in Instants, NEW item \in I,
         NEW slot \in WindowsFrom(I, policy, anchor_, first), NEW P,
         WindowsFrom(I, policy, anchor_, first) \subseteq P, acc.slots \in Seq(P),
         NEW r, r = JoinSlot(acc, maxItems, now_, item, slot)
  PROVE  r.slots \in Seq(P) /\ (r.out = acc.out \/ Emitting(acc.out, r.out))
<1> DEFINE grown == Append(slot.items, item)
           kept == [slot EXCEPT !.items = grown]
           emptied == [slot EXCEPT !.items = <<>>]
           out == EmitSome(acc.out, grown, slot.start, Or(slot.end, now_))
<1>1. slot \in OpenWindows(I) /\ slot.k >= first /\ OnGrid(policy, anchor_, slot)
  BY DEF WindowsFrom
<1>2. grown \in Seq(I) /\ <<>> \in Seq(I) /\ acc.out \in Outlets
  BY <1>1 DEF OpenWindows, Passes
<1>3. kept \in P
  <2> HIDE DEF grown
  <2>1. kept \in OpenWindows(I) /\ kept.k = slot.k /\ kept.start = slot.start /\ kept.end = slot.end
    BY <1>1, <1>2 DEF OpenWindows
  <2> HIDE DEF kept
  <2> QED BY <1>1, <2>1 DEF WindowsFrom, OnGrid
<1>4. emptied \in P
  <2>1. emptied \in OpenWindows(I) /\ emptied.k = slot.k /\ emptied.start = slot.start /\ emptied.end = slot.end
    BY <1>1, <1>2 DEF OpenWindows
  <2> HIDE DEF emptied
  <2> QED BY <1>1, <2>1 DEF WindowsFrom, OnGrid
<1>5. Emitting(acc.out, out)
  <2> HIDE DEF grown
  <2> QED BY <1>2, EmitSomeEmits
<1>6. r = IF Len(grown) < maxItems THEN [acc EXCEPT !.slots = Append(acc.slots, kept)]
          ELSE [slots |-> Append(acc.slots, emptied), out |-> out]
  BY DEF JoinSlot
<1> HIDE DEF grown, kept, emptied, out
<1>7. Append(acc.slots, kept) \in Seq(P) /\ Append(acc.slots, emptied) \in Seq(P)
  BY <1>3, <1>4
<1>8. CASE Len(grown) < maxItems
  BY <1>6, <1>7, <1>8 DEF Passes
<1>9. CASE ~(Len(grown) < maxItems)
  BY <1>5, <1>6, <1>7, <1>9 DEF Passes
<1> QED BY <1>8, <1>9

\* The first window of a queue ends before the others.
LEMMA FirstEndsFirst ==
  ASSUME NEW I \in SUBSET Nat, NEW policy \in Policies, policy.kind = "sliding",
         NEW anchor_ \in Instants, NEW now_ \in Instants, NEW core,
         core.slots \in Seq(WindowsFrom(I, policy, anchor_, FirstIndex(policy, anchor_, now_)))
  PROVE  NotOver(Deadline(policy, core), now_)
<1> DEFINE first == FirstIndex(policy, anchor_, now_)
           slots == core.slots
<1>1. Deadline(policy, core) = IF slots = <<>> THEN None ELSE slots[1].end
  BY DEF Deadline
<1>2. slots \in Seq(WindowsFrom(I, policy, anchor_, first))
  OBVIOUS
<1> HIDE DEF slots, first
<1>3. CASE slots = <<>>
  BY <1>1, <1>3 DEF NotOver
<1>4. CASE slots # <<>>
  <2> DEFINE w == slots[1]
  <2>1. w \in WindowsFrom(I, policy, anchor_, first)
    BY <1>2, <1>4
  <2> HIDE DEF w
  <2>2. NotOver(w.end, now_)
    BY <2>1, FirstIsOpen DEF WindowsFrom, OpenWindows, first
  <2> QED BY <1>1, <1>4, <2>2 DEF w
<1> QED BY <1>3, <1>4

LEMMA OnItemSlidingSettles ==
  ASSUME NEW I \in SUBSET Nat, NEW policy \in Policies, policy.kind = "sliding",
         NEW core \in Cores(I), NEW maxItems,
         NEW anchor_ \in Instants, GridCore(I, policy, anchor_, core), NEW now_ \in Instants,
         NEW item \in I, NEW out \in Outlets,
         NEW r, r = OnItemSliding(policy, maxItems, core, anchor_, now_, item, out)
  PROVE  Settled(I, policy, anchor_, now_, out, r)
<1> DEFINE first == FirstIndex(policy, anchor_, now_)
           last == LastIndex(policy, anchor_, now_)
           old == EmitSlotsBefore(core.slots, first, out)
           k == Joining(policy, anchor_, now_)
           later == Later(policy, core, anchor_, now_, out)
           G(n) == WindowsFrom(I, policy, anchor_, n)
           P == G(IF old.out.refused THEN 0 ELSE first)
           V == {p \in Passes(I) : p.slots \in Seq(P) /\ (old.out.refused => p.out.refused)}
           at(n) == SlotAt(policy, anchor_, now_, old.slots, first + n - 1)
<1>1. first \in Nat /\ last \in Nat /\ k \in Nat /\ k = last - first + 1
  BY IndexTypes DEF Joining
<1>2. PICK run \in [0..k -> Passes(I)] :
        /\ JoinsSlots(run, policy, maxItems, core, anchor_, now_, item, out)
        /\ later \in Seq(OpenWindows(I))
  BY OnItemSlidingRun
<1>3. /\ run[0] = [old EXCEPT !.slots = Earlier(policy, core, anchor_, now_, out)]
      /\ \A n \in 1..k : run[n] = JoinSlot(run[n - 1], maxItems, now_, item, at(n))
      /\ r = [core |-> [core EXCEPT !.slots = run[k].slots \o later], out |-> run[k].out]
  BY <1>2 DEF JoinsSlots
<1>4. core.slots \in Seq(G(0))
  BY DEF GridCore
<1> HIDE DEF first
<1>5. Emitting(out, old.out) /\ old \in Passes(I) /\ old.slots \in Seq(P)
  BY <1>1, <1>4, EmitSlotsLeaves
<1>6. Earlier(policy, core, anchor_, now_, out) = SubSeq(old.slots, 1, Below(old.slots, first))
  BY DEF Earlier, first
<1>7. later = SubSeq(old.slots, Below(old.slots, last + 1) + 1, Len(old.slots))
  BY DEF Later, first
<1>8. G(first) \subseteq P /\ P \subseteq G(0) /\ G(0) \subseteq OpenWindows(I)
  <2>1. G(first) \subseteq G(0)
    BY DEF WindowsFrom, OpenWindows
  <2>2. G(0) \subseteq OpenWindows(I)
    BY DEF WindowsFrom
  <2> HIDE DEF G
  <2> QED BY <2>1, <2>2
<1>9. old.slots \in Seq(G(0)) /\ old.slots \in Seq(OpenWindows(I)) /\ old.out \in Outlets
  <2>1. old.out \in Outlets
    BY <1>5 DEF Passes
  <2> HIDE DEF old, P, G
  <2> QED BY <1>5, <1>8, <2>1, SeqMonotonic
<1> HIDE DEF old, k, later, last
<1>10. \A j : Below(old.slots, j) \in 0..Len(old.slots)
  BY <1>9, BelowType
<1>11. later \in Seq(P)
  <2> DEFINE j == Below(old.slots, last + 1)
  <2>1. j \in 0..Len(old.slots) /\ Len(old.slots) \in Nat
    BY <1>9, <1>10
  <2> HIDE DEF j, P
  <2>2. j + 1 \in Nat \ {0}
    BY <2>1
  <2>3. SubSeq(old.slots, j + 1, Len(old.slots)) \in Seq(P)
    BY <1>5, <2>1, <2>2, PartOf
  <2> QED BY <1>7, <2>3 DEF j
<1>12. run[0] \in V
  <2> DEFINE j == Below(old.slots, first)
             earlier == SubSeq(old.slots, 1, j)
  <2>1. j \in 0..Len(old.slots) /\ Len(old.slots) \in Nat
    BY <1>9, <1>10
  <2> HIDE DEF j, P
  <2>2. earlier \in Seq(P)
    BY <1>5, <2>1, PartOf
  <2>3. run[0] = [old EXCEPT !.slots = earlier] /\ 0 \in 0..k
    BY <1>1, <1>3, <1>6 DEF j
  <2> HIDE DEF earlier
  <2>4. run[0] \in Passes(I)
    BY <1>2, <2>3
  <2>5. run[0].slots = earlier /\ run[0].out = old.out
    BY <1>5, <2>3 DEF Passes
  <2> QED BY <2>2, <2>4, <2>5
<1>13. ASSUME NEW n \in 1..k, run[n - 1] \in V PROVE run[n] \in V
  <2> DEFINE p == run[n - 1]
  <2>1. at(n) \in G(first)
    <3> DEFINE j == first + n - 1
    <3>1. j \in Nat /\ first <= j /\ j <= last
      BY <1>1
    <3> HIDE DEF j
    <3>2. SlotAt(policy, anchor_, now_, old.slots, j) \in G(first)
      BY <1>1, <1>9, <3>1, SlotAtOpen DEF last
    <3> QED BY <3>2 DEF j
  <2>2. run[n] = JoinSlot(p, maxItems, now_, item, at(n)) /\ n \in 0..k
    BY <1>1, <1>3
  <2>3. p \in Passes(I) /\ p.slots \in Seq(P) /\ (old.out.refused => p.out.refused)
    BY <1>13
  <2>4. run[n] \in Passes(I)
    BY <1>2, <2>2
  <2> HIDE DEF p, at, P
  <2>5. run[n].slots \in Seq(P) /\ (run[n].out = p.out \/ Emitting(p.out, run[n].out))
    BY <1>1, <1>8, <2>1, <2>2, <2>3, JoinSlotKeeps
  <2> QED BY <2>3, <2>4, <2>5 DEF Emitting
<1>14. \A n \in 0..k : run[n] \in V
  <2> HIDE DEF V
  <2> QED BY <1>1, <1>12, <1>13, Invariance
<1>15. run[k] \in V
  <2>1. k \in 0..k
    BY <1>1
  <2> QED BY <1>14, <2>1
<1> DEFINE slots == run[k].slots \o later
           next == [core EXCEPT !.slots = slots]
<1>16. slots \in Seq(P)
  <2> HIDE DEF P
  <2> QED BY <1>11, <1>15, ConcatProperties
<1>17. r.out = run[k].out /\ (old.out.refused => r.out.refused)
  BY <1>3, <1>15
<1>18. r.core = next
  BY <1>3
<1> HIDE DEF slots, V
<1>19. r.core.slots = slots
  BY <1>18 DEF Cores
<1>20. GridCore(I, policy, anchor_, r.core)
  <2>1. slots \in Seq(G(0))
    <3> HIDE DEF P, G
    <3> QED BY <1>8, <1>16, SeqMonotonic
  <2> QED BY <1>19, <2>1 DEF GridCore
<1>21. ASSUME ~r.out.refused PROVE NotOver(Deadline(policy, r.core), now_)
  <2>1. slots \in Seq(G(first))
    BY <1>16, <1>17, <1>21
  <2> QED BY <1>19, <2>1, FirstEndsFirst DEF first
<1> QED BY <1>5, <1>17, <1>20, <1>21 DEF Settled, Emitting

LEMMA OnItemSettles ==
  ASSUME NEW I \in SUBSET Nat, NEW policy \in Policies, NEW core \in Cores(I), NEW maxItems,
         NEW anchor_ \in Instants, GridCore(I, policy, anchor_, core), NEW now_ \in Instants,
         NEW item \in I, NEW out \in Outlets
  PROVE  Settled(I, policy, anchor_, now_, out,
                 OnItem(policy, maxItems, core, anchor_, now_, item, out))
<1>1. CASE policy.kind = "sliding"
  BY <1>1, OnItemSlidingSettles DEF OnItem
<1>2. CASE policy.kind # "sliding"
  BY <1>2, OnItemOneSettles DEF OnItem
<1> QED BY <1>1, <1>2

\* A core that has a window to close is scheduled early enough; if a window was
\* refused, at the next instant at the latest.
InTime(core, scheduled, refused) ==
  LET due == Deadline(spec, core)
  IN due # None => \/ scheduled # None /\ scheduled <= due
                   \/ refused /\ (now < MaxInstant => scheduled # None /\ scheduled <= now + 1)
SlotInTime(t, s, I, anc, refused) ==
  /\ GridCore(I, spec, anc, t.slab[s].core)
  /\ InTime(t.slab[s].core, t.slab[s].scheduled, refused)
AllInTime(t, I, anc, refused) == \A s \in Used(t) : SlotInTime(t, s, I, anc, refused)

\* Slot x holds the same core, scheduled at the same time.
SameSlot(t, t2, x) ==
  t2.slab[x].core = t.slab[x].core /\ t2.slab[x].scheduled = t.slab[x].scheduled

LEMMA SlotStaysInTime ==
  ASSUME NEW t, NEW t2, NEW x, NEW I, NEW anc, NEW r \in BOOLEAN, NEW r2 \in BOOLEAN, r => r2,
         SlotInTime(t, x, I, anc, r), SameSlot(t, t2, x)
  PROVE  SlotInTime(t2, x, I, anc, r2)
BY DEF SlotInTime, SameSlot, InTime

\* No entry of the heap is due now.
NoneDue(t) == \A a \in t.heap : a[1] > now
\* What is due now in t2 was due before, apart from one entry.
LessDue(t, t2, top) == \A a \in t2.heap : a[1] <= now => a \in t.heap \ {top}

\* One round of expire, that takes entry top.
OneLess(acc, acc2, I, anc) ==
  /\ AllInTime(acc2.table, I, anc, acc2.out.refused)
  /\ acc.out.refused => acc2.out.refused
  /\ Peek(acc.table) \in acc.table.heap /\ LessDue(acc.table, acc2.table, Peek(acc.table))

LEMMA ExpireOneLess ==
  ASSUME spec \in Policies, now \in Instants, NEW anc \in Instants,
         NEW I \in SUBSET Nat, NEW use, NEW limit \in Nat,
         NEW acc \in States(use, I, limit), acc.table.heap # {},
         AllInTime(acc.table, I, anc, acc.out.refused),
         NEW acc2, acc2 = ExpireOne(acc, anc)
  PROVE  OneLess(acc, acc2, I, anc)
<1> DEFINE t0 == acc.table
           top == Peek(t0)
           slot == top[3]
           popped == [t0 EXCEPT !.heap = t0.heap \ {top}]
           t == [popped EXCEPT !.slab[slot].scheduled = None]
           entry == t.slab[slot]
           due == Deadline(spec, entry.core)
           out == [acc.out EXCEPT !.key = entry.key]
           ticked == OnTick(spec, entry.core, anc, now, out)
           after == [t EXCEPT !.slab[slot].core = ticked.core]
           next == IF IsEmpty(ticked.core) THEN RemoveKey(after, slot) ELSE Schedule(after, slot)
           r == acc.out.refused
<1>1. t0 \in Tables(I) /\ Sound(t0, use, I, limit) /\ acc.out \in Outlets /\ r \in BOOLEAN
      /\ AllInTime(t0, I, anc, r)
  BY DEF States, Outlets
<1>2. acc2
        = IF ~Live(popped, top) THEN [acc EXCEPT !.table = popped]
          ELSE IF due > now THEN [acc EXCEPT !.table = Schedule(t, slot)]
          ELSE [out |-> ticked.out, table |-> next]
  BY DEF ExpireOne
<1>3. top \in t0.heap
  <2>1. \A a, b \in t0.heap : a[2] = b[2] => a = b
    BY <1>1 DEF Sound, HeapOK
  <2> HIDE DEF t0
  <2> QED BY <1>1, <2>1, PeekProperties DEF t0
<1>4. popped.slab = t0.slab /\ popped.heap = t0.heap \ {top}
  BY <1>1 DEF Tables
<1>5. Live(popped, top) <=> Live(t0, top)
  <2> HIDE DEF popped, top, t0
  <2> QED BY <1>4 DEF Live, Occupied
<1> HIDE DEF top
<1>6. CASE ~Live(t0, top)
  <2>1. acc2 = [acc EXCEPT !.table = popped]
    BY <1>2, <1>5, <1>6
  <2>2. acc2.table = popped /\ acc2.out = acc.out
    BY <2>1 DEF States
  <2> HIDE DEF popped
  <2>3. AllInTime(popped, I, anc, r)
    BY <1>1, <1>4 DEF AllInTime, SlotInTime, Used
  <2>4. LessDue(t0, popped, top)
    BY <1>4 DEF LessDue
  <2> QED BY <1>3, <2>2, <2>3, <2>4 DEF OneLess, top
<1>7. CASE Live(t0, top)
  <2>1. Sound(t, use, I, limit) /\ Rescheduled(t0, t) /\ EntryTaken(t0, t, top)
    <3>1. t = [[t0 EXCEPT !.heap = t0.heap \ {top}] EXCEPT !.slab[top[3]].scheduled = None]
      OBVIOUS
    <3> HIDE DEF t, t0
    <3> QED BY <1>1, <1>3, <1>7, <3>1, UnscheduledSound
  <2>2. slot \in Used(t0)
    BY <1>7 DEF Live, Occupied, Used
  <2>3. acc2 = IF due > now THEN [acc EXCEPT !.table = Schedule(t, slot)]
               ELSE [out |-> ticked.out, table |-> next]
    BY <1>2, <1>5, <1>7
  <2> HIDE DEF t, t0, popped
  <2>4. /\ Used(t) = Used(t0) /\ t.heap = t0.heap \ {top}
        /\ t.slab[slot].core = t0.slab[slot].core
        /\ \A x \in Used(t) \ {slot} : SameSlot(t0, t, x)
    BY <2>1, <2>2 DEF Rescheduled, Alike, EntryTaken, SameSlot
  <2> HIDE DEF slot
  <2>5. slot \in Used(t) /\ t \in Tables(I) /\ entry \in Entries(I)
    BY <2>1, <2>2, <2>4, SlabDomain DEF Sound
  <2>6. entry.core \in Cores(I) /\ entry.key \in Keys /\ due \in Moments
    <3>1. entry.core \in Cores(I) /\ entry.key \in Keys
      BY <2>5 DEF Entries
    <3> HIDE DEF entry
    <3> QED BY <3>1, DeadlineType
  <2>7. entry.core = t0.slab[slot].core
    BY <2>4
  <2> HIDE DEF entry
  <2>8. CASE due > now
    <3> DEFINE t2 == Schedule(t, slot)
    <3>1. Rescheduled(t, t2) /\ WillBeFound(t, t2, slot)
      BY <2>1, <2>5, ScheduleSound
    <3>2. acc2 = [acc EXCEPT !.table = t2]
      BY <2>3, <2>8
    <3> HIDE DEF t2
    <3>3. acc2.table = t2 /\ acc2.out = acc.out
      BY <3>2 DEF States
    <3>4. due # None
      BY <2>8, InstantNat DEF None
    <3>5. t.slab[slot].core = entry.core
      BY <2>4, <2>7
    <3>6. /\ t2.slab[slot].scheduled # None /\ t2.slab[slot].scheduled <= due
          /\ t2.slab[slot].core = entry.core /\ Used(t2) = Used(t)
          /\ \A x \in Used(t) \ {slot} : SameSlot(t, t2, x)
          /\ \A a \in t2.heap : a[1] <= now => a \in t.heap
      BY <2>5, <2>8, <3>1, <3>4, <3>5 DEF Rescheduled, Alike, WillBeFound, SameSlot
    <3>7. AllInTime(t2, I, anc, r)
      <4>1. GridCore(I, spec, anc, entry.core)
        BY <1>1, <2>2, <2>7 DEF AllInTime, SlotInTime
      <4>2. SlotInTime(t2, slot, I, anc, r)
        BY <3>6, <4>1 DEF SlotInTime, InTime
      <4>3. ASSUME NEW x \in Used(t2) \ {slot} PROVE SlotInTime(t2, x, I, anc, r)
        <5>1. SlotInTime(t0, x, I, anc, r) /\ SameSlot(t0, t2, x)
          BY <1>1, <2>4, <3>6, <4>3 DEF AllInTime, SameSlot
        <5> QED BY <1>1, <5>1, SlotStaysInTime
      <4> QED BY <4>2, <4>3 DEF AllInTime
    <3>8. LessDue(t0, t2, top)
      BY <2>4, <3>6 DEF LessDue
    <3> QED BY <1>3, <3>3, <3>7, <3>8 DEF OneLess, top, t0
  <2>9. CASE ~(due > now)
    <3>1. out \in Outlets /\ out.refused = r
      BY <1>1, <2>6 DEF Outlets
    <3> HIDE DEF out
    <3>2. ticked.core \in Cores(I) /\ ticked.out \in Outlets
      <4>1. ticked \in Results(I)
        BY <2>6, <3>1, OnTickType
      <4> QED BY <4>1 DEF Results
    <3> DEFINE r2 == ticked.out.refused
    <3>3. r2 \in BOOLEAN
      BY <3>2 DEF Outlets
    <3>4. GridCore(I, spec, anc, entry.core)
      BY <1>1, <2>2, <2>7 DEF AllInTime, SlotInTime
    <3>5. Settled(I, spec, anc, now, out, ticked)
      BY <2>6, <3>1, <3>4, OnTickSettles
    <3> HIDE DEF ticked
    <3>6. /\ GridCore(I, spec, anc, ticked.core) /\ (r => r2)
          /\ r2 \/ NotOver(Deadline(spec, ticked.core), now)
      BY <3>1, <3>5 DEF Settled
    <3>7. CoreAssigned(t, after, slot, ticked.core)
      BY DEF CoreAssigned
    <3> HIDE DEF after
    <3>8. /\ Sound(after, use, I, limit) /\ Used(after) = Used(t) /\ SameTimes(t, after)
          /\ after.slab[slot].core = ticked.core /\ SameCores(t, after, slot)
      <4> DEFINE core == ticked.core
      <4>1. core \in Cores(I) /\ CoreAssigned(t, after, slot, core)
        BY <3>2, <3>7
      <4> HIDE DEF r2, core
      <4>2. /\ Sound(after, use, I, limit) /\ Used(after) = Used(t) /\ SameTimes(t, after)
            /\ after.slab[slot].core = core /\ SameCores(t, after, slot)
        BY <2>1, <2>5, <4>1, CoreSet
      <4> QED BY <4>2 DEF core
    <3>9. slot \in Used(after) /\ after.heap = t0.heap \ {top}
      BY <2>4, <2>5, <3>8 DEF SameTimes
    <3>10. \A x \in Used(after) \ {slot} : SlotInTime(after, x, I, anc, r2)
      <4> TAKE x \in Used(after) \ {slot}
      <4>1. SlotInTime(t0, x, I, anc, r) /\ SameSlot(t0, after, x)
        BY <1>1, <2>4, <3>8 DEF AllInTime, SameSlot, SameTimes, SameCores
      <4> QED BY <1>1, <3>3, <3>6, <4>1, SlotStaysInTime
    <3>11. acc2.table = next /\ acc2.out = ticked.out
      BY <2>3, <2>9
    <3>12. AllInTime(next, I, anc, r2) /\ LessDue(t0, next, top)
      <4>1. CASE IsEmpty(ticked.core)
        <5> DEFINE t2 == RemoveKey(after, slot)
        <5>1. Removed(after, t2, slot) /\ next = t2
          BY <3>8, <3>9, <4>1, RemoveKeySound
        <5> HIDE DEF t2, next
        <5>2. t2.heap = t0.heap \ {top} /\ Used(t2) = Used(after) \ {slot}
              /\ \A x \in Used(t2) : SameSlot(after, t2, x)
          BY <3>9, <5>1 DEF Removed, SameEntries, SameSlot
        <5>3. AllInTime(t2, I, anc, r2)
          BY <3>3, <3>10, <5>2, SlotStaysInTime DEF AllInTime
        <5>4. LessDue(t0, t2, top)
          BY <5>2 DEF LessDue
        <5> QED BY <5>1, <5>3, <5>4
      <4>2. CASE ~IsEmpty(ticked.core)
        <5> DEFINE t2 == Schedule(after, slot)
        <5>1. next = t2
          BY <4>2
        <5> HIDE DEF next
        <5>2. Rescheduled(after, t2) /\ WillBeFound(after, t2, slot)
          BY <3>8, <3>9, ScheduleSound
        <5> HIDE DEF t2
        <5>3. Used(t2) = Used(after) /\ \A x \in Used(t2) \ {slot} : SameSlot(after, t2, x)
          BY <5>2 DEF Rescheduled, Alike, WillBeFound, SameSlot
        <5>4. t2.slab[slot].core = ticked.core
          BY <3>8, <3>9, <5>2 DEF Rescheduled
        <5>5. SlotInTime(t2, slot, I, anc, r2)
          BY <3>6, <3>8, <5>2, <5>4 DEF SlotInTime, InTime, WillBeFound, NotOver
        <5>6. AllInTime(t2, I, anc, r2)
          BY <3>3, <3>10, <5>3, <5>5, SlotStaysInTime DEF AllInTime
        <5>7. LessDue(t0, t2, top)
          BY <3>9, <5>2 DEF LessDue, WillBeFound
        <5> QED BY <5>1, <5>6, <5>7
      <4> QED BY <4>1, <4>2
    <3> HIDE DEF next
    <3> QED BY <1>3, <3>6, <3>11, <3>12 DEF OneLess, top, t0, r
  <2> QED BY <2>8, <2>9
<1> QED BY <1>6, <1>7

DueNow(t) == {a \in t.heap : a[1] <= now}

\* Once the earliest entry is in the future, all are.
LEMMA EarliestInFuture ==
  ASSUME now \in Instants, NEW I, NEW t \in Tables(I), \A a, b \in t.heap : a[2] = b[2] => a = b,
         ~(t.heap # {} /\ Peek(t)[1] <= now)
  PROVE  DueNow(t) = {}
<1>1. CASE t.heap = {}
  BY <1>1 DEF DueNow
<1>2. CASE t.heap # {}
  <2> DEFINE top == Peek(t)
  <2>1. top \in t.heap /\ \A b \in t.heap \ {top} : Before(top, b)
    BY <1>2, PeekProperties
  <2>2. ~(top[1] <= now)
    BY <1>2
  <2> HIDE DEF top
  <2>3. \A a \in t.heap : a[1] \in Nat
    <3>1. t.heap \in SUBSET (Instants \X Nat \X Nat)
      BY DEF Tables
    <3> QED BY <3>1, InstantNat
  <2>4. \A a \in t.heap : ~(a[1] <= now)
    BY <2>1, <2>2, <2>3, InstantNat DEF Before
  <2> QED BY <2>4 DEF DueNow
<1> QED BY <1>1, <1>2

\* What expire has done after n rounds.
ExpiredSoFar(acc, I, anc, k, n) ==
  /\ AllInTime(acc.table, I, anc, acc.out.refused)
  /\ DueNow(acc.table) = {} \/ Cardinality(DueNow(acc.table)) <= k - n

LEMMA RoundExpires ==
  ASSUME spec \in Policies, now \in Instants, NEW anc \in Instants,
         NEW I \in SUBSET Nat, NEW use, NEW limit \in Nat,
         NEW acc \in States(use, I, limit), NEW k \in Nat, NEW n \in 1..k,
         ExpiredSoFar(acc, I, anc, k, n - 1), NEW acc2, acc2 = Round(acc, anc)
  PROVE  ExpiredSoFar(acc2, I, anc, k, n) /\ (acc.out.refused => acc2.out.refused)
<1> DEFINE t == acc.table
           top == Peek(t)
           D == DueNow(t)
           D2 == DueNow(acc2.table)
<1>1. /\ t \in Tables(I) /\ Sound(t, use, I, limit) /\ \A a, b \in t.heap : a[2] = b[2] => a = b
      /\ IsFiniteSet(t.heap)
  BY DEF States, Sound, HeapOK
<1>2. IsFiniteSet(D) /\ Cardinality(D) \in Nat
  <2>1. D \subseteq t.heap
    BY DEF DueNow
  <2> QED BY <1>1, <2>1, FS_Subset, FS_CardinalityType
<1>3. AllInTime(t, I, anc, acc.out.refused) /\ (D = {} \/ Cardinality(D) <= k - (n - 1))
  BY DEF ExpiredSoFar
<1>4. CASE t.heap # {} /\ top[1] <= now
  <2>1. acc2 = ExpireOne(acc, anc)
    BY <1>4 DEF Round
  <2>2. OneLess(acc, acc2, I, anc)
    BY <1>3, <1>4, <2>1, ExpireOneLess
  <2>3. /\ AllInTime(acc2.table, I, anc, acc2.out.refused) /\ top \in t.heap
        /\ LessDue(t, acc2.table, top) /\ (acc.out.refused => acc2.out.refused)
    BY <2>2 DEF OneLess
  <2> HIDE DEF top
  <2>4. top \in D /\ D2 \subseteq D \ {top}
    BY <1>4, <2>3 DEF DueNow, LessDue
  <2> HIDE DEF D, D2
  <2>5. /\ IsFiniteSet(D \ {top}) /\ Cardinality(D \ {top}) = Cardinality(D) - 1
        /\ Cardinality(D2) <= Cardinality(D \ {top}) /\ Cardinality(D2) \in Nat
    BY <1>2, <2>4, FS_RemoveElement, FS_Subset, FS_CardinalityType
  <2>6. Cardinality(D2) <= k - n
    BY <1>2, <1>3, <2>4, <2>5
  <2> QED BY <2>3, <2>6 DEF ExpiredSoFar, D2
<1>5. CASE ~(t.heap # {} /\ top[1] <= now)
  <2>1. acc2 = acc
    BY <1>5 DEF Round
  <2>2. D = {}
    BY <1>1, <1>5, EarliestInFuture
  <2> QED BY <1>3, <2>1, <2>2 DEF ExpiredSoFar
<1> QED BY <1>4, <1>5

\* expire closes all that is due: afterwards no entry of the heap is, and every key that
\* has a window to close is scheduled in time.
LEMMA ExpireInTime ==
  ASSUME spec \in Policies, now \in Instants, NEW anc \in Instants,
         NEW I \in SUBSET Nat, NEW use, NEW limit \in Nat,
         NEW t, Sound(t, use, I, limit), NEW outlet \in Outlets,
         AllInTime(t, I, anc, outlet.refused), NEW e, e = Expire(t, anc, outlet)
  PROVE  AllInTime(e.table, I, anc, e.out.refused) /\ NoneDue(e.table)
<1> DEFINE k == Cardinality(t.heap)
           S == States(use, I, limit)
<1>1. PICK run \in [0..k -> S] : Expires(run, t, anc, outlet)
  BY ExpireRun
<1>2. /\ k \in Nat /\ run[0] = [table |-> t, out |-> outlet] /\ e = run[k]
      /\ \A n \in 1..k : run[n] = Round(run[n - 1], anc)
  BY <1>1 DEF Expires
<1> DEFINE V == {n \in 0..k : ExpiredSoFar(run[n], I, anc, k, n)}
<1>3. 0 \in V
  <2>1. IsFiniteSet(t.heap) /\ DueNow(t) \subseteq t.heap
    BY DEF Sound, HeapOK, DueNow
  <2>2. Cardinality(DueNow(t)) <= k
    BY <2>1, FS_Subset
  <2>3. Cardinality(DueNow(t)) \in Nat
    BY <2>1, FS_Subset, FS_CardinalityType
  <2> HIDE DEF k
  <2>4. Cardinality(DueNow(t)) <= k - 0
    BY <1>2, <2>2, <2>3
  <2>5. run[0].table = t /\ run[0].out = outlet
    BY <1>2
  <2> QED BY <1>2, <2>4, <2>5 DEF ExpiredSoFar
<1> HIDE DEF k, S
<1>4. ASSUME NEW n \in 0..(k - 1), n \in V PROVE n + 1 \in V
  <2> DEFINE m == n + 1
  <2>1. m \in 1..k /\ m - 1 = n /\ n \in 0..k
    BY <1>2
  <2>2. run[n] \in S /\ run[m] = Round(run[n], anc) /\ ExpiredSoFar(run[n], I, anc, k, m - 1)
    BY <1>1, <1>2, <1>4, <2>1
  <2> HIDE DEF m
  <2>3. ExpiredSoFar(run[m], I, anc, k, m)
    BY <1>2, <2>1, <2>2, RoundExpires DEF S
  <2> QED BY <2>1, <2>3 DEF m
<1> HIDE DEF V
<1>5. 0..k \subseteq V
  BY <1>2, <1>3, <1>4, Induction
<1>6. ExpiredSoFar(e, I, anc, k, k) /\ e \in S
  BY <1>1, <1>2, <1>5 DEF V
<1>7. /\ AllInTime(e.table, I, anc, e.out.refused)
      /\ DueNow(e.table) = {} \/ Cardinality(DueNow(e.table)) <= k - k
  BY <1>6 DEF ExpiredSoFar
<1>8. IsFiniteSet(e.table.heap) /\ e.table \in Tables(I) /\ DueNow(e.table) \subseteq e.table.heap
  BY <1>6 DEF S, States, Sound, HeapOK, DueNow
<1>9. DueNow(e.table) = {}
  <2>1. IsFiniteSet(DueNow(e.table)) /\ Cardinality(DueNow(e.table)) \in Nat
    BY <1>8, FS_Subset, FS_CardinalityType
  <2>2. CASE Cardinality(DueNow(e.table)) <= k - k
    <3>1. Cardinality(DueNow(e.table)) = 0
      BY <1>2, <2>1, <2>2
    <3> QED BY <2>1, <3>1, FS_EmptySet
  <2> QED BY <1>7, <2>2
<1>10. NoneDue(e.table)
  <2>1. \A a \in e.table.heap : a[1] \in Nat /\ ~(a[1] <= now)
    <3>1. e.table.heap \in SUBSET (Instants \X Nat \X Nat)
      BY <1>8 DEF Tables
    <3> QED BY <1>9, <3>1, InstantNat DEF DueNow
  <2> QED BY <2>1, InstantNat DEF NoneDue
<1> QED BY <1>7, <1>10

\* What is scheduled then is scheduled in the future.
LEMMA ScheduledLater ==
  ASSUME now \in Instants, NEW I, NEW t, NEW use, NEW limit, Sound(t, use, I, limit), NoneDue(t),
         NEW s \in Used(t), t.slab[s].scheduled # None
  PROVE  t.slab[s].scheduled > now
<1>1. <<t.slab[s].scheduled, t.slab[s].ticket, s>> \in t.heap
  BY DEF Sound, HeapOK
<1> QED BY <1>1 DEF NoneDue

\* A refusal is not forgotten by a flush.
LEMMA OnFlushRefuses ==
  ASSUME NEW I \in SUBSET Nat, NEW policy \in Policies, NEW core \in Cores(I),
         NEW now_ \in Instants, NEW out \in Outlets, out.refused,
         NEW r, r = OnFlush(policy, core, now_, out)
  PROVE  r.out.refused
<1> DEFINE k == Len(core.slots)
           V == {o \in Outlets : o.refused}
<1>1. core.slots \in Seq(OpenWindows(I)) /\ k \in Nat
  BY DEF Cores
<1>2. PICK run \in [0..k -> Outlets] : FlushesSlots(run, policy, core, now_, out)
  BY OnFlushRun
<1>3. /\ run[0] = out
      /\ \A n \in 1..k :
           run[n] = EmitSome(run[n - 1], core.slots[n].items, core.slots[n].start,
                             Or(core.slots[n].end, now_))
      /\ r = [core |-> EmptyCore, out |-> IF policy.kind = "sliding" THEN run[k]
                                          ELSE Close(policy, core, now_, out)]
  BY <1>2 DEF FlushesSlots
<1> HIDE DEF k
<1>4. ASSUME NEW n \in 1..k, run[n - 1] \in V PROVE run[n] \in V
  <2>1. run[n] \in Outlets
    BY <1>1, <1>2
  <2>2. Emitting(run[n - 1], run[n])
    BY <1>3, <1>4, EmitSomeEmits
  <2> QED BY <1>4, <2>1, <2>2 DEF Emitting
<1>5. \A n \in 0..k : run[n] \in V
  <2> HIDE DEF V
  <2>1. run[0] \in V
    BY <1>3 DEF V
  <2> QED BY <1>1, <1>4, <2>1, Invariance
<1>6. run[k].refused
  <2>1. k \in 0..k
    BY <1>1
  <2> QED BY <1>5, <2>1
<1>7. Close(policy, core, now_, out).refused
  <2>1. Emitting(out, Close(policy, core, now_, out))
    BY EmitSomeEmits DEF Close
  <2> QED BY <2>1 DEF Emitting
<1> QED BY <1>3, <1>6, <1>7

\* The same slots, or fewer.
LEMMA FewerInTime ==
  ASSUME NEW t, NEW t2, NEW I, NEW anc, NEW r \in BOOLEAN, NEW r2 \in BOOLEAN, r => r2,
         AllInTime(t, I, anc, r), Used(t2) \subseteq Used(t), \A x \in Used(t2) : SameSlot(t, t2, x)
  PROVE  AllInTime(t2, I, anc, r2)
<1> SUFFICES ASSUME NEW x \in Used(t2) PROVE SlotInTime(t2, x, I, anc, r2)
  BY DEF AllInTime
<1>1. SlotInTime(t, x, I, anc, r) /\ SameSlot(t, t2, x)
  BY DEF AllInTime
<1> QED BY <1>1, SlotStaysInTime

LEMMA EvictedInTime ==
  ASSUME spec \in Policies, now \in Instants, NEW anc \in Instants,
         NEW I \in SUBSET Nat, NEW use, NEW limit \in Nat,
         NEW acc \in States(use, I, limit), AllInTime(acc.table, I, anc, acc.out.refused),
         NoneDue(acc.table), NEW acc2, Evicted(acc, acc2), acc2 \in States(use, I, limit)
  PROVE  AllInTime(acc2.table, I, anc, acc2.out.refused) /\ NoneDue(acc2.table)
<1>1. CASE acc2 = acc
  BY <1>1
<1>2. ASSUME NEW s \in Used(acc.table), Removed(acc.table, acc2.table, s),
             acc2.out = OnFlush(spec, acc.table.slab[s].core, now,
                                [acc.out EXCEPT !.key = acc.table.slab[s].key]).out
      PROVE  AllInTime(acc2.table, I, anc, acc2.out.refused) /\ NoneDue(acc2.table)
  <2> DEFINE t == acc.table
             victim == t.slab[s]
             out == [acc.out EXCEPT !.key = victim.key]
  <2>1. t \in Tables(I) /\ acc.out \in Outlets /\ acc2.out \in Outlets
    BY DEF States
  <2>2. victim.core \in Cores(I) /\ victim.key \in Keys
    <3>1. victim \in Entries(I)
      BY <2>1, SlabDomain
    <3> QED BY <3>1 DEF Entries
  <2>3. out \in Outlets /\ out.refused = acc.out.refused
    <3> HIDE DEF victim
    <3> QED BY <2>1, <2>2 DEF Outlets
  <2>4. acc.out.refused => acc2.out.refused
    <3>1. acc2.out = OnFlush(spec, victim.core, now, out).out
      BY <1>2
    <3> HIDE DEF victim, out
    <3> QED BY <2>2, <2>3, <3>1, OnFlushRefuses
  <2>5. /\ Used(acc2.table) \subseteq Used(t) /\ acc2.table.heap = t.heap
        /\ \A x \in Used(acc2.table) : SameSlot(t, acc2.table, x)
    BY <1>2 DEF Removed, SameEntries, SameSlot
  <2>6. acc.out.refused \in BOOLEAN /\ acc2.out.refused \in BOOLEAN
    BY <2>1 DEF Outlets
  <2>7. AllInTime(acc2.table, I, anc, acc2.out.refused)
    BY <2>4, <2>5, <2>6, FewerInTime
  <2> QED BY <2>5, <2>7 DEF NoneDue
<1> QED BY <1>1, <1>2 DEF Evicted

LEMMA EmptyIsInTime ==
  ASSUME spec \in Policies, NEW I, NEW anc, NEW r, NEW scheduled
  PROVE  GridCore(I, spec, anc, EmptyCore) /\ InTime(EmptyCore, scheduled, r)
<1>1. GridCore(I, spec, anc, EmptyCore)
  BY DEF GridCore, EmptyCore
<1>2. Deadline(spec, EmptyCore) = None
  BY DEF Deadline, EmptyCore, CheckedAdd
<1> QED BY <1>1, <1>2 DEF InTime

\* touch schedules nothing, and what it leaves is in time.
LEMMA TouchInTime ==
  ASSUME spec \in Policies, now \in Instants, NEW anc \in Instants,
         NEW I \in SUBSET Nat, NEW use, NEW use2,
         NEW acc \in States(use, I, LimitOf(spec)), AllInTime(acc.table, I, anc, acc.out.refused),
         NoneDue(acc.table), NEW key \in Keys, NEW acc2, Touched(acc, acc2, key),
         acc2 \in States(use2, I, LimitOf(spec))
  PROVE  AllInTime(acc2.table, I, anc, acc2.out.refused) /\ NoneDue(acc2.table)
<1> DEFINE t2 == acc2.table
           r2 == acc2.out.refused
           limit == LimitOf(spec)
<1>1. r2 \in BOOLEAN /\ acc.out.refused \in BOOLEAN /\ limit \in Nat
  BY LimitType DEF States, Outlets
<1>2. CASE Relinked(acc.table, t2) /\ acc2.out = acc.out
  <2>1. /\ Used(t2) = Used(acc.table) /\ t2.heap = acc.table.heap
        /\ \A x \in Used(t2) : SameSlot(acc.table, t2, x)
    BY <1>2 DEF Relinked, Alike, SameTimes, SameSlot
  <2>2. AllInTime(t2, I, anc, r2)
    BY <1>1, <1>2, <2>1, FewerInTime
  <2> QED BY <2>1, <2>2 DEF NoneDue
<1>3. ASSUME NEW room \in {acc, EvictOne(acc)}, Inserted(room.table, t2, key), acc2.out = room.out
      PROVE  AllInTime(t2, I, anc, r2) /\ NoneDue(t2)
  <2> HIDE DEF limit
  <2>1. EvictOne(acc) \in States(use, I, limit) /\ Evicted(acc, EvictOne(acc))
    BY <1>1, EvictOneSound DEF limit
  <2>2. AllInTime(EvictOne(acc).table, I, anc, EvictOne(acc).out.refused) /\ NoneDue(EvictOne(acc).table)
    BY <1>1, <2>1, EvictedInTime DEF limit
  <2>3. AllInTime(room.table, I, anc, r2) /\ NoneDue(room.table)
    BY <1>3, <2>2
  <2> DEFINE s == t2.index[key]
  <2>4. /\ Used(t2) = Used(room.table) \cup {s} /\ t2.heap = room.table.heap
        /\ t2.slab[s].core = EmptyCore /\ \A x \in Used(room.table) : SameSlot(room.table, t2, x)
    BY <1>3 DEF Inserted, SameEntries, SameSlot
  <2> HIDE DEF s, r2, t2
  <2>5. SlotInTime(t2, s, I, anc, r2)
    BY <2>4, EmptyIsInTime DEF SlotInTime
  <2>6. ASSUME NEW x \in Used(room.table) PROVE SlotInTime(t2, x, I, anc, r2)
    <3>1. SlotInTime(room.table, x, I, anc, r2) /\ SameSlot(room.table, t2, x)
      BY <2>3, <2>4 DEF AllInTime
    <3> QED BY <1>1, <3>1, SlotStaysInTime
  <2>7. AllInTime(t2, I, anc, r2)
    BY <2>4, <2>5, <2>6 DEF AllInTime
  <2> QED BY <2>3, <2>4, <2>7 DEF NoneDue
<1> QED BY <1>2, <1>3 DEF Touched

\* What Timely says of a key, at the last time the stage read the clock.
Prompt(core, scheduled, at, refused) ==
  LET due == Deadline(spec, core)
  IN due # None =>
       IF refused THEN at < MaxInstant => scheduled # None /\ (scheduled <= due \/ scheduled <= at + 1)
       ELSE scheduled # None /\ scheduled <= due /\ due > at

\* The inductive invariant: besides, the open windows of every key lie on the grid.
TimelyInv ==
  /\ readAt \in Instants /\ (anchor = None => Used(table) = {})
  /\ \A s \in Used(table) : /\ GridCore(1..Len(taken), spec, anchor, table.slab[s].core)
                            /\ Prompt(table.slab[s].core, table.slab[s].scheduled, readAt, failed)

\* What a call leaves in time is prompt.
LEMMA InTimeIsPrompt ==
  ASSUME spec \in Policies, now \in Instants, NEW I, NEW anc, NEW t, NEW use, NEW limit,
         Sound(t, use, I, limit), NoneDue(t), NEW r \in BOOLEAN, AllInTime(t, I, anc, r),
         NEW s \in Used(t)
  PROVE  /\ GridCore(I, spec, anc, t.slab[s].core)
         /\ Prompt(t.slab[s].core, t.slab[s].scheduled, now, r)
<1> DEFINE core == t.slab[s].core
           scheduled == t.slab[s].scheduled
           due == Deadline(spec, core)
<1>1. GridCore(I, spec, anc, core) /\ InTime(core, scheduled, r)
  BY DEF AllInTime, SlotInTime
<1>2. scheduled # None => scheduled > now
  BY ScheduledLater
<1>3. scheduled \in Moments /\ core \in Cores(I)
  <2>1. t.slab[s] \in Entries(I)
    BY SlabDomain DEF Sound
  <2> QED BY <2>1 DEF Entries
<1> HIDE DEF core, scheduled
<1>4. due \in Moments
  BY <1>3, DeadlineType
<1>5. due # None => \/ scheduled # None /\ scheduled <= due
                    \/ r /\ (now < MaxInstant => scheduled # None /\ scheduled <= now + 1)
  BY <1>1 DEF InTime
<1> HIDE DEF due
<1>6. due # None =>
        IF r THEN now < MaxInstant => scheduled # None /\ (scheduled <= due \/ scheduled <= now + 1)
        ELSE scheduled # None /\ scheduled <= due /\ due > now
  <2>1. now \in Nat /\ (scheduled # None => scheduled \in Nat) /\ (due # None => due \in Nat)
    BY <1>3, <1>4, InstantNat DEF Moments
  <2> QED BY <1>2, <1>5, <2>1
<1>7. Prompt(core, scheduled, now, r)
  BY <1>6 DEF Prompt, due
<1> QED BY <1>1, <1>7 DEF core, scheduled

\* A call begins with every key scheduled in time.
LEMMA PromptIsInTime ==
  ASSUME TimelyInv, ~failed, NEW anc, anchor # None => anc = anchor
  PROVE  AllInTime(table, 1..Len(taken), anc, Outlet.refused)
<1>1. CASE anchor = None
  BY <1>1 DEF TimelyInv, AllInTime
<1>2. CASE anchor # None
  <2>1. \A s \in Used(table) : SlotInTime(table, s, 1..Len(taken), anchor, Outlet.refused)
    BY DEF TimelyInv, SlotInTime, Prompt, InTime
  <2> QED BY <1>2, <2>1 DEF AllInTime
<1> QED BY <1>1, <1>2

LEMMA GridCoreMore ==
  ASSUME NEW I, NEW J, I \subseteq J, NEW policy, NEW anc, NEW core, GridCore(I, policy, anc, core)
  PROVE  GridCore(J, policy, anc, core)
<1>1. Seq(I) \subseteq Seq(J)
  BY SeqMonotonic
<1>2. OpenWindows(I) \subseteq OpenWindows(J)
  BY <1>1 DEF OpenWindows
<1>3. WindowsFrom(I, policy, anc, 0) \subseteq WindowsFrom(J, policy, anc, 0)
  BY <1>2 DEF WindowsFrom
<1>4. Seq(WindowsFrom(I, policy, anc, 0)) \subseteq Seq(WindowsFrom(J, policy, anc, 0))
  BY <1>3, SeqMonotonic
<1> QED BY <1>4 DEF GridCore

\* A core is put into its slot, and scheduled.
LEMMA PutInTime ==
  ASSUME spec \in Policies, now \in Instants, NEW anc, NEW I, NEW use, NEW limit \in Nat,
         NEW t, Sound(t, use, I, limit), NEW s \in Used(t),
         NEW r \in BOOLEAN, NEW r2 \in BOOLEAN, r => r2, AllInTime(t, I, anc, r), NoneDue(t),
         NEW core \in Cores(I), GridCore(I, spec, anc, core),
         r2 \/ NotOver(Deadline(spec, core), now),
         NEW t1, CoreAssigned(t, t1, s, core), NEW t2, t2 = Schedule(t1, s)
  PROVE  AllInTime(t2, I, anc, r2) /\ NoneDue(t2)
<1>1. t \in Tables(I)
  BY DEF Sound
<1>2. /\ Sound(t1, use, I, limit) /\ Used(t1) = Used(t) /\ SameTimes(t, t1)
      /\ t1.slab[s].core = core /\ SameCores(t, t1, s)
  BY <1>1, CoreSet
<1>3. Rescheduled(t1, t2) /\ WillBeFound(t1, t2, s)
  BY <1>2, ScheduleSound
<1>4. /\ Used(t2) = Used(t) /\ t2.slab[s].core = core
      /\ \A x \in Used(t) \ {s} : SameSlot(t, t2, x)
      /\ \A a \in t2.heap : a[1] <= now => a \in t.heap
  BY <1>2, <1>3 DEF Rescheduled, Alike, WillBeFound, SameSlot, SameTimes, SameCores
<1>5. SlotInTime(t2, s, I, anc, r2)
  BY <1>2, <1>3, <1>4 DEF SlotInTime, InTime, WillBeFound, NotOver
<1>6. ASSUME NEW x \in Used(t) \ {s} PROVE SlotInTime(t2, x, I, anc, r2)
  <2>1. SlotInTime(t, x, I, anc, r) /\ SameSlot(t, t2, x)
    BY <1>4 DEF AllInTime
  <2> QED BY <2>1, SlotStaysInTime
<1>7. NoneDue(t2)
  <2>1. \A a \in t2.heap : a[1] \in Nat
    <3>1. t2.heap \in SUBSET (Instants \X Nat \X Nat)
      <4>1. t2 \in Tables(I)
        BY <1>2, ScheduleSound DEF Sound
      <4> QED BY <4>1 DEF Tables
    <3> QED BY <3>1, InstantNat
  <2> QED BY <1>4, <2>1, InstantNat DEF NoneDue
<1> QED BY <1>4, <1>5, <1>6, <1>7 DEF AllInTime

LEMMA TimelyInvTick ==
  ASSUME KeyedInv, TimelyInv, Tick PROVE TimelyInv'
<1> DEFINE I == 1..Len(taken)
           use == Uses(taken)
           limit == LimitOf(spec)
           expired == Expire(table, anchor, Outlet)
           r == expired.out.refused
<1>1. /\ spec \in Policies /\ now \in Instants /\ limit \in Nat /\ I \in SUBSET Nat
      /\ Outlet \in Outlets /\ anchor \in Instants /\ Sound(table, use, I, limit)
  <2>1. anchor # None
    BY DEF Tick
  <2> QED BY <2>1, KeyedInvFacts DEF KeyedInv
<1>2. /\ table' = expired.table /\ failed' = r /\ readAt' = now /\ ~failed /\ anchor # None
      /\ UNCHANGED <<spec, now, anchor, taken>>
  BY DEF Tick, Emitted
<1>3. expired \in States(use, I, limit)
  <2> HIDE DEF I, use, limit
  <2> QED BY <1>1, ExpireSound
<1>4. AllInTime(table, I, anchor, Outlet.refused)
  BY <1>2, PromptIsInTime
<1>5. AllInTime(expired.table, I, anchor, r) /\ NoneDue(expired.table)
  <2> HIDE DEF I, use, limit
  <2> QED BY <1>1, <1>4, ExpireInTime
<1> HIDE DEF expired
<1>6. Sound(expired.table, use, I, limit) /\ r \in BOOLEAN
  BY <1>3 DEF States, Outlets
<1> DEFINE t == expired.table
<1> HIDE DEF I, r, t
<1>7. \A s \in Used(t) : /\ GridCore(I, spec, anchor, t.slab[s].core)
                         /\ Prompt(t.slab[s].core, t.slab[s].scheduled, now, r)
  BY <1>1, <1>5, <1>6, InTimeIsPrompt DEF t
<1> QED BY <1>1, <1>2, <1>7 DEF TimelyInv, Prompt, t, I

LEMMA TimelyInvProcess ==
  ASSUME KeyedInv, TimelyInv, NEW key \in Keys, Process(key) PROVE TimelyInv'
<1> DEFINE I == 1..Len(taken)
           J == 1..(Len(taken) + 1)
           e == [key |-> key, at |-> now]
           use == Uses(taken)
           use2 == Uses(Append(taken, e))
           limit == LimitOf(spec)
           anc == Or(anchor, GridOrigin(spec, now))
           expired == Expire(table, anc, Outlet)
           touched == Touch(expired, key)
           slot == touched.table.index[key]
           out == [touched.out EXCEPT !.key = key]
           added == OnItem(spec, MaxItems, touched.table.slab[slot].core, anc, now,
                           Len(taken) + 1, out)
           t2 == [touched.table EXCEPT !.slab[slot].core = added.core]
           t3 == Schedule(t2, slot)
           r == touched.out.refused
           r2 == added.out.refused
<1>1. /\ spec \in Policies /\ now \in Instants /\ limit \in Nat /\ I \in SUBSET Nat
      /\ I \subseteq J /\ Len(taken) \in Nat
      /\ Outlet \in Outlets /\ Sound(table, use, I, limit) /\ taken \in Seq(Arrivals)
      /\ now \in 0..MaxTime /\ 0..MaxTime \subseteq Instants /\ MaxTime \in Nat
  BY KeyedInvFacts DEF KeyedInv
<1>2. J \in SUBSET Nat /\ Len(taken) + 1 \in J
  <2> DEFINE n == Len(taken)
  <2>1. n \in Nat
    BY <1>1
  <2> HIDE DEF n
  <2>2. 1..(n + 1) \in SUBSET Nat /\ n + 1 \in 1..(n + 1)
    BY <2>1
  <2> QED BY <2>2 DEF n
<1>3. anc \in Instants /\ anc # None /\ (anchor # None => anc = anchor)
  <2>1. anchor \in 0..MaxTime \cup {None} /\ now \in Nat
    BY <1>1 DEF KeyedInv
  <2>2. GridOrigin(spec, now) \in 0..now
    BY <1>1, <2>1, GridOriginType
  <2>3. anc \in 0..MaxTime
    BY <1>1, <2>1, <2>2 DEF Or
  <2> QED BY <1>1, <2>3 DEF Or, None
<1>4. e \in Arrivals /\ e.key = key
  BY <1>1 DEF Arrivals
<1>5. UsedNow(key, use, use2)
  BY <1>1, <1>4, UsesAppend
<1>6. expired \in States(use, I, limit)
  <2> HIDE DEF I, use, limit, anc
  <2> QED BY <1>1, <1>3, ExpireSound
<1>7. touched \in States(use2, I, limit) /\ slot # NIL /\ Touched(expired, touched, key)
  <2> HIDE DEF I, use, use2, expired
  <2> QED BY <1>1, <1>5, <1>6, TouchSound
<1>8. /\ table' = t3 /\ failed' = r2 /\ readAt' = now /\ ~failed
      /\ anchor' = anc /\ taken' = Append(taken, e) /\ UNCHANGED <<spec, now>>
  BY DEF Process, Emitted
<1>9. AllInTime(expired.table, I, anc, expired.out.refused) /\ NoneDue(expired.table)
  <2>1. AllInTime(table, I, anc, Outlet.refused)
    <3> HIDE DEF anc
    <3> QED BY <1>3, <1>8, PromptIsInTime
  <2> HIDE DEF I, use, limit, anc
  <2> QED BY <1>1, <1>3, <2>1, ExpireInTime
<1> HIDE DEF expired, touched
<1>10. AllInTime(touched.table, I, anc, r) /\ NoneDue(touched.table)
  <2> HIDE DEF I, use, use2, anc
  <2> QED BY <1>1, <1>3, <1>6, <1>7, <1>9, TouchInTime
<1> DEFINE t == touched.table
<1>11. Sound(t, use2, I, limit) /\ touched.out \in Outlets /\ r \in BOOLEAN
  BY <1>7 DEF States, Outlets
<1>12. Sound(t, use2, J, limit)
  <2> HIDE DEF t, use2, limit, I, J
  <2> QED BY <1>1, <1>11, MoreItems
<1>13. AllInTime(t, J, anc, r)
  <2> HIDE DEF t, I, J, r, anc
  <2> QED BY <1>1, <1>10, GridCoreMore DEF AllInTime, SlotInTime, t, r
<1>14. slot \in Used(t) /\ t \in Tables(J)
  BY <1>7, <1>12 DEF Sound, SlotsOK
<1>15. out \in Outlets /\ out.refused = r
  BY <1>11 DEF Outlets
<1> DEFINE core == t.slab[slot].core
<1>16. core \in Cores(J)
  <2> HIDE DEF t, slot, J
  <2> QED BY <1>14, SlabDomain DEF Entries
<1>17. GridCore(J, spec, anc, core)
  BY <1>13, <1>14 DEF AllInTime, SlotInTime
<1>18. added = OnItem(spec, MaxItems, core, anc, now, Len(taken) + 1, out)
  OBVIOUS
<1>19. added \in Results(J) /\ Settled(J, spec, anc, now, out, added)
  <2> DEFINE item == Len(taken) + 1
  <2>1. item \in J
    BY <1>2
  <2> HIDE DEF core, item, out, anc, J, added
  <2>2. added = OnItem(spec, MaxItems, core, anc, now, item, out)
    BY <1>18 DEF item
  <2>3. OnItem(spec, MaxItems, core, anc, now, item, out) \in Results(J)
    BY <1>1, <1>2, <1>3, <1>15, <1>16, <2>1, OnItemType
  <2>4. Settled(J, spec, anc, now, out, OnItem(spec, MaxItems, core, anc, now, item, out))
    BY <1>1, <1>2, <1>3, <1>15, <1>16, <1>17, <2>1, OnItemSettles
  <2> QED BY <2>2, <2>3, <2>4
<1> HIDE DEF added, out, core
<1>20. /\ added.core \in Cores(J) /\ r2 \in BOOLEAN /\ GridCore(J, spec, anc, added.core) /\ (r => r2)
       /\ r2 \/ NotOver(Deadline(spec, added.core), now)
  BY <1>15, <1>19 DEF Results, Outlets, Settled
<1>21. CoreAssigned(t, t2, slot, added.core)
  BY DEF CoreAssigned
<1> DEFINE put == added.core
<1> HIDE DEF t2, slot, t, J, use2, limit, r, r2, put, anc
<1>22. NoneDue(t)
  BY <1>10 DEF t
<1>23. put \in Cores(J) /\ GridCore(J, spec, anc, put) /\ (r2 \/ NotOver(Deadline(spec, put), now))
       /\ CoreAssigned(t, t2, slot, put)
  BY <1>20, <1>21 DEF put
<1>24. AllInTime(t3, J, anc, r2) /\ NoneDue(t3)
  BY <1>1, <1>11, <1>12, <1>13, <1>14, <1>20, <1>22, <1>23, PutInTime
<1>25. Sound(t3, use2, J, limit)
  <2>1. Sound(t2, use2, J, limit) /\ slot \in Used(t2)
    BY <1>12, <1>14, <1>23, CoreSet
  <2> QED BY <1>1, <2>1, ScheduleSound
<1> HIDE DEF t3
<1>26. \A s \in Used(t3) : /\ GridCore(J, spec, anc, t3.slab[s].core)
                           /\ Prompt(t3.slab[s].core, t3.slab[s].scheduled, now, r2)
  BY <1>1, <1>20, <1>24, <1>25, InTimeIsPrompt
<1> HIDE DEF e
<1>27. 1..Len(taken') = J
  <2>1. Len(taken') = Len(taken) + 1
    BY <1>1, <1>4, <1>8
  <2> QED BY <2>1 DEF J
<1>28. readAt' \in Instants /\ anchor' # None
  BY <1>1, <1>3, <1>8
<1> QED BY <1>8, <1>26, <1>27, <1>28 DEF TimelyInv, Prompt

LEMMA TimelyInvFlush ==
  ASSUME KeyedInv, TimelyInv, Flush PROVE TimelyInv'
<1>1. table' = [EmptyTable EXCEPT !.seq = table.seq, !.tickets = table.tickets]
  BY DEF Flush
<1>2. Used(table') = {}
  <2>1. table'.slab = <<>>
    BY <1>1 DEF EmptyTable
  <2> QED BY <2>1 DEF Used
<1>3. UNCHANGED readAt
  BY DEF Flush
<1> QED BY <1>2, <1>3 DEF TimelyInv

LEMMA TimelyInvInit ==
  ASSUME Init PROVE TimelyInv
<1>1. Starts \subseteq 0..MaxTime /\ MaxTime \in 0..MaxInstant /\ MaxInstant \in Nat
  BY KeyedWindowAssumption, MaxInstantType
<1>2. readAt \in Instants
  BY <1>1 DEF Init, Instants
<1>3. Used(table) = {}
  BY DEF Init, EmptyTable, Used
<1> QED BY <1>2, <1>3 DEF TimelyInv

LEMMA TimelyInvClock ==
  ASSUME TimelyInv, Clock PROVE TimelyInv'
BY DEF TimelyInv, Clock, emission, reference, Prompt

LEMMA TimelyInvDropped ==
  ASSUME TimelyInv, UNCHANGED vars PROVE TimelyInv'
BY DEF TimelyInv, vars, emission, reference, Prompt

LEMMA TimelyInvTimely ==
  ASSUME KeyedInv, TimelyInv PROVE Timely
<1> SUFFICES ASSUME NEW k \in Tracked(table)
             PROVE  LET entry == table.slab[table.index[k]]
                    IN Prompt(entry.core, entry.scheduled, readAt, failed)
  BY DEF Timely, Prompt
<1>1. table.index[k] \in Used(table)
  BY DEF KeyedInv, Sound, SlotsOK, Tracked
<1> QED BY <1>1 DEF TimelyInv

\* After each process and tick the windows of every key that have ended are closed, and
\* each key that has one open has an entry in the heap no later than its end, wherever the
\* clock was set back to; after a refusal the key is due again at once.
THEOREM KeyedTimely == Spec => []Timely
<1>1. Init => TimelyInv
  BY TimelyInvInit
<1>2. KeyedInv /\ TimelyInv /\ [Next]_vars => TimelyInv'
  <2> SUFFICES ASSUME KeyedInv, TimelyInv, [Next]_vars PROVE TimelyInv'
    OBVIOUS
  <2>1. CASE Clock
    BY <2>1, TimelyInvClock
  <2>2. ASSUME NEW key \in Keys, Process(key) PROVE TimelyInv'
    BY <2>2, TimelyInvProcess
  <2>3. CASE Tick
    BY <2>3, TimelyInvTick
  <2>4. CASE Flush
    BY <2>4, TimelyInvFlush
  <2>5. CASE UNCHANGED vars
    BY <2>5, TimelyInvDropped
  <2> QED BY <2>1, <2>2, <2>3, <2>4, <2>5 DEF Next, Dropped
<1>3. KeyedInv /\ TimelyInv => Timely
  BY TimelyInvTimely
<1> QED BY <1>1, <1>2, <1>3, KeyedInvariant, PTL DEF Spec
=============================================================================
