----------------------------- MODULE WindowCore -----------------------------
(***************************************************************************)
(* The window state machine of window.rs (Core), as operators: what        *)
(* on_item, on_tick and on_flush do to the windows open for one key.       *)
(*                                                                         *)
(* Instants are naturals, one nanosecond apart; those above MaxInstant     *)
(* cannot be represented, and checked arithmetic gives None.  A policy is  *)
(* a kind with its size and slide; the idle time of a session is its size. *)
(* A core has the fields of all three variants; a variant leaves those of  *)
(* the others alone.  Windows go to an outlet `out`: the key they are      *)
(* labelled with, the windows delivered, how many more the later stages    *)
(* take before they fail, whether the last one was taken (ok), and whether *)
(* any was refused.                                                        *)
(***************************************************************************)
EXTENDS Integers, Sequences, SequencesExt

CONSTANT MaxInstant

ASSUME WindowCoreAssumption == MaxInstant \in Nat

None == -1
Or(x, default) == IF x = None THEN default ELSE x

\* Variant: the sum is not checked.
UncheckedAdd(t, d) == IF t = None THEN None ELSE t + d
\* checked_add, also of an instant that may be missing.
CheckedAdd(t, d) == IF t = None \/ t + d > MaxInstant THEN None ELSE t + d
CheckedSub(t, d) == IF t < d THEN None ELSE t - d
\* saturating_duration_since
Since(later, earlier) == IF later >= earlier THEN later - earlier ELSE 0
CeilDiv(a, b) == (a + b - 1) \div b

EmptyCore == [start |-> None, last |-> None, items |-> <<>>, slots |-> <<>>]

IsEmpty(core) ==
  core.items = <<>> /\ \A i \in DOMAIN core.slots : core.slots[i].items = <<>>

\* Send a window unless it is empty; a refused window is lost.
EmitSome(out, items, start, end) ==
  IF items = <<>> THEN [out EXCEPT !.ok = TRUE]
  ELSE IF out.accepts = 0 THEN [out EXCEPT !.ok = FALSE, !.refused = TRUE]
  ELSE [out EXCEPT !.ok = TRUE, !.accepts = @ - 1,
          !.sent = Append(@, [key |-> out.key, items |-> items,
                              start |-> start, end |-> end])]

-----------------------------------------------------------------------------
\* The grid the windows are aligned to.

GridOrigin(policy, first) ==
  IF policy.kind = "sliding"
  THEN Or(CheckedSub(first, (CeilDiv(policy.size, policy.slide) - 1) * policy.slide), first)
  ELSE first

\* offset: a grid point, or the fallback if it cannot be represented.
Offset(origin, n, step, fallback) == Or(CheckedAdd(origin, n * step), fallback)

\* Variant: windows begin wherever the first item after a gap arrives.
AlignToItem(anchor, now, size) == now
Align(anchor, now, size) == Offset(anchor, Since(now, anchor) \div size, size, now)

\* Variant: a window whose end is now still counts.
FirstIndexLate(policy, anchor, now) ==
  LET e == Since(now, anchor)
  IN IF e > policy.size THEN (e - policy.size - 1) \div policy.slide + 1 ELSE 0
\* sliding_range: the first and the last window that contain `now`.
FirstIndex(policy, anchor, now) ==
  LET e == Since(now, anchor)
  IN IF e >= policy.size THEN (e - policy.size) \div policy.slide + 1 ELSE 0
LastIndex(policy, anchor, now) == Since(now, anchor) \div policy.slide

-----------------------------------------------------------------------------
\* Tumbling and session windows: one open window.

\* The open window has ended at `now`.
IsOver(policy, core, now) ==
  IF policy.kind = "tumbling"
  THEN LET end == CheckedAdd(core.start, policy.size) IN end # None /\ now >= end
  ELSE core.last # None /\ Since(now, core.last) > policy.size

\* The end it reports; a session's is its last item.
EndOf(policy, core, now) ==
  IF policy.kind = "tumbling"
  THEN Or(CheckedAdd(core.start, policy.size), now)
  ELSE Or(core.last, now)

\* Where the window of an item arriving now starts.
StartOf(policy, anchor, now) ==
  IF policy.kind = "tumbling" THEN Align(anchor, now, policy.size) ELSE now

Close(policy, core, now, out) ==
  EmitSome(out, core.items, Or(core.start, EndOf(policy, core, now)), EndOf(policy, core, now))

\* The tail of on_item: add the item, and emit the window if it is full.
Push(policy, maxItems, core, now, item, out) ==
  LET grown == [core EXCEPT !.items = Append(@, item)]
  IN IF Len(grown.items) < maxItems
     THEN [core |-> grown, out |-> out]
     ELSE [core |-> [core EXCEPT !.items = <<>>,
                       !.start = IF policy.kind = "session" THEN now ELSE @],
           out |-> Close(policy, grown, now, out)]

OnItemOne(policy, maxItems, core, anchor, now, item, out) ==
  LET begun == [core EXCEPT !.start = Or(@, StartOf(policy, anchor, now))]
      over == IsOver(policy, begun, now)
      after == IF over THEN Close(policy, begun, now, out) ELSE [out EXCEPT !.ok = TRUE]
      rest == IF over THEN [begun EXCEPT !.items = <<>>] ELSE begun
      start == IF over THEN StartOf(policy, anchor, now) ELSE begun.start
      last == IF policy.kind = "session" THEN now ELSE None
  IN IF after.ok
     THEN Push(policy, maxItems, [rest EXCEPT !.start = start, !.last = last], now, item, after)
     ELSE [core |-> rest, out |-> after]

OnTickOne(policy, core, anchor, now, out) ==
  IF ~IsOver(policy, core, now) THEN [core |-> core, out |-> out]
  ELSE [core |-> [core EXCEPT !.items = <<>>, !.last = None,
                    !.start = IF policy.kind = "tumbling"
                              THEN StartOf(policy, anchor, now) ELSE None],
        out |-> Close(policy, core, now, out)]

-----------------------------------------------------------------------------
\* Sliding windows: a queue of slots, sorted by index.

EmitSlot(acc, slot, first) ==
  IF slot.k >= first \/ ~acc.out.ok
  THEN [acc EXCEPT !.slots = Append(@, slot)]
  ELSE [acc EXCEPT !.out = EmitSome(@, slot.items, slot.start, Or(slot.end, slot.start))]

\* emit_slots_before: stops at the first window that is refused.
EmitSlotsBefore(slots, first, out) ==
  LET upTo[n \in 0..Len(slots)] ==
        IF n = 0 THEN [slots |-> <<>>, out |-> [out EXCEPT !.ok = TRUE]]
        ELSE EmitSlot(upTo[n - 1], slots[n], first)
  IN upTo[Len(slots)]

Slot(policy, anchor, now, k) ==
  LET start == Offset(anchor, k, policy.slide, now)
  IN [k |-> k, start |-> start, end |-> CheckedAdd(start, policy.size), items |-> <<>>]

\* How many of the slots, which are sorted, have an index below k.
Below(slots, k) == Cardinality({i \in DOMAIN slots : slots[i].k < k})

\* The open window with index k, or a new one.
SlotAt(policy, anchor, now, slots, k) ==
  IF \E slot \in ToSet(slots) : slot.k = k
  THEN CHOOSE slot \in ToSet(slots) : slot.k = k
  ELSE Slot(policy, anchor, now, k)

\* The item joins a window, which is emitted if it is full.
JoinSlot(acc, maxItems, now, item, slot) ==
  LET grown == Append(slot.items, item)
  IN IF Len(grown) < maxItems
     THEN [acc EXCEPT !.slots = Append(@, [slot EXCEPT !.items = grown])]
     ELSE [slots |-> Append(acc.slots, [slot EXCEPT !.items = <<>>]),
           out |-> EmitSome(acc.out, grown, slot.start, Or(slot.end, now))]

\* sliding_on_item: the item joins every window that contains `now`; the others stay
\* before and behind them.
OnItemSliding(policy, maxItems, core, anchor, now, item, out) ==
  LET first == FirstIndex(policy, anchor, now)
      last == LastIndex(policy, anchor, now)
      old == EmitSlotsBefore(core.slots, first, out)
      upTo[n \in 0 .. last - first + 1] ==
        IF n = 0 THEN [old EXCEPT !.slots = SubSeq(@, 1, Below(@, first))]
        ELSE JoinSlot(upTo[n - 1], maxItems, now, item,
                      SlotAt(policy, anchor, now, old.slots, first + n - 1))
      joined == upTo[last - first + 1]
      later == SubSeq(old.slots, Below(old.slots, last + 1) + 1, Len(old.slots))
  IN [core |-> [core EXCEPT !.slots = joined.slots \o later], out |-> joined.out]

-----------------------------------------------------------------------------
\* The operations of a core: its new state and the outlet after them.

OnItem(policy, maxItems, core, anchor, now, item, out) ==
  IF policy.kind = "sliding"
  THEN OnItemSliding(policy, maxItems, core, anchor, now, item, out)
  ELSE OnItemOne(policy, maxItems, core, anchor, now, item, out)

OnTick(policy, core, anchor, now, out) ==
  IF policy.kind = "sliding"
  THEN LET old == EmitSlotsBefore(core.slots, FirstIndex(policy, anchor, now), out)
       IN [core |-> [core EXCEPT !.slots = old.slots], out |-> old.out]
  ELSE OnTickOne(policy, core, anchor, now, out)

OnFlush(policy, core, now, out) ==
  LET upTo[n \in 0..Len(core.slots)] ==
        IF n = 0 THEN out
        ELSE LET slot == core.slots[n]
             IN EmitSome(upTo[n - 1], slot.items, slot.start, Or(slot.end, now))
  IN [core |-> EmptyCore,
      out |-> IF policy.kind = "sliding" THEN upTo[Len(core.slots)]
              ELSE Close(policy, core, now, out)]

\* Core::deadline: when on_tick next has something to do.
Deadline(policy, core) ==
  IF policy.kind = "tumbling" THEN CheckedAdd(core.start, policy.size)
  ELSE IF policy.kind = "session" THEN CheckedAdd(core.last, policy.size + 1)
  ELSE IF core.slots = <<>> THEN None ELSE core.slots[1].end
=============================================================================
