---------------------------- MODULE KeyedWindow ----------------------------
(***************************************************************************)
(* The window stages of window.rs.  KeyedWindowStage keeps one window core *)
(* per key in a slab with a list of free slots, an index from keys to      *)
(* slots, a doubly linked list of the slots by recency, and a heap of      *)
(* deadlines whose entries are told from stale ones by a ticket.  Beside   *)
(* it runs what it promises: for every key an unkeyed WindowStage that     *)
(* sees only that key's items and is ticked at every call.                 *)
(*                                                                         *)
(* process and tick read the clock, which advances in steps of any length, *)
(* and may be set back (ManualClock::set) as often as MaxSkews allows.     *)
(* Slots are 1, 2, ...; the end of a list (NIL) is 0.                      *)
(***************************************************************************)
EXTENDS WindowCore, FiniteSets, FiniteSetsExt

CONSTANTS
  Keys,
  Specs,      \* the WindowSpecs: see WindowSpecs
  Accepted,   \* how many windows the later stages may take before they fail
  Starts,     \* what the clock may show at first
  HeapSlack,  \* compact_heap's constant, 64 in the code
  MaxTaken, MaxTime, MaxSkews  \* bounds: items, the clock, its jumps back

NIL == 0

\* A policy with its limits; the idle time of a session is its size, and slide means
\* something for sliding windows only.
WindowSpecs ==
  [kind : {"tumbling", "session", "sliding"}, size : Nat, slide : Nat,
   maxItems : Nat \cup {None}, maxKeys : Nat \cup {None}]

ASSUME KeyedWindowAssumption ==
  /\ IsFiniteSet(Keys) /\ NIL \notin Keys
  /\ Specs \subseteq WindowSpecs
  /\ MaxTime \in 0..MaxInstant /\ Starts \subseteq 0..MaxTime
  /\ MaxTaken \in Nat /\ MaxSkews \in Nat /\ HeapSlack \in Nat
  /\ Accepted \subseteq Nat

VARIABLES
  spec,       \* the WindowSpec
  now,        \* what the clock shows
  anchor,     \* the origin of the window grid, None before the first item
  table,      \* index, slab, free, head, tail, heap, seq, tickets
  sent,       \* the windows delivered
  accepts,    \* windows the later stages still take
  failed,     \* a window was refused
  ended,      \* flush was called
  alone,      \* for each key, the core of an unkeyed stage
  aloneSent,  \* for each key, the windows that stage delivered
  taken,      \* history: the items processed, with key and time of arrival
  readAt,     \* history: what the clock showed to the last process or tick
  skews       \* history: how often the clock was set back

emission == <<sent, accepts, failed>>
reference == <<alone, aloneSent>>
vars == <<spec, now, anchor, table, emission, ended, reference, taken, readAt, skews>>

Vacant == [key |-> NIL]
Occupied(t, slot) == slot \in DOMAIN t.slab /\ t.slab[slot] # Vacant
Tracked(t) == {k \in Keys : t.index[k] # NIL}
Ids == 1..Len(taken)

\* new's limits, where None is no limit.
MaxItems == Or(spec.maxItems, MaxTaken + 1)
MaxKeys == Or(spec.maxKeys, Cardinality(Keys) + 1)

\* WindowPolicy::check and WindowSpec::check: what the builder lets through.
MaxSlidingOverlap == 1024
Check(s) ==
  /\ s.size # 0 /\ s.slide # 0 /\ s.slide <= s.size
  /\ CeilDiv(s.size, s.slide) <= MaxSlidingOverlap
  /\ s.maxItems # 0 /\ s.maxKeys # 0

EmptyTable ==
  [index |-> [k \in Keys |-> NIL], slab |-> <<>>, free |-> <<>>, head |-> NIL,
   tail |-> NIL, heap |-> {}, seq |-> 0, tickets |-> 0]

-----------------------------------------------------------------------------
\* The list of slots by recency.

SetNext(t, slot, next) ==
  IF Occupied(t, slot) THEN [t EXCEPT !.slab[slot].next = next] ELSE [t EXCEPT !.head = next]
SetPrev(t, slot, prev) ==
  IF Occupied(t, slot) THEN [t EXCEPT !.slab[slot].prev = prev] ELSE [t EXCEPT !.tail = prev]

\* Variant: the neighbour after the slot is not told.
UnlinkHalf(t, slot) == SetNext(t, t.slab[slot].prev, t.slab[slot].next)
Unlink(t, slot) ==
  LET entry == t.slab[slot]
  IN SetPrev(SetNext(t, entry.prev, entry.next), entry.next, entry.prev)

PushBack(t, slot) ==
  LET linked == [t EXCEPT !.slab[slot].prev = t.tail, !.slab[slot].next = NIL]
  IN [SetNext(linked, t.tail, slot) EXCEPT !.tail = slot]

\* Variant: a key that is already known keeps its place in the list.
KeepPlace(t, slot) == t
Refresh(t, slot) == IF slot = t.tail THEN t ELSE PushBack(Unlink(t, slot), slot)

RemoveKey(t, slot) ==
  [Unlink(t, slot) EXCEPT !.slab[slot] = Vacant, !.index[t.slab[slot].key] = NIL,
                          !.free = Append(@, slot)]

-----------------------------------------------------------------------------
\* The heap of deadlines: triples of deadline, ticket and slot.

Before(a, b) == a[1] < b[1] \/ (a[1] = b[1] /\ a[2] < b[2])
Peek(t) == CHOOSE a \in t.heap : \A b \in t.heap \ {a} : Before(a, b)

CompactHeap(t) ==
  IF Cardinality(t.heap) <= 2 * Cardinality(Tracked(t)) + HeapSlack THEN t
  ELSE [t EXCEPT !.heap =
          {<<t.slab[s].scheduled, t.slab[s].ticket, s>> :
             s \in {x \in DOMAIN t.slab : Occupied(t, x) /\ t.slab[x].scheduled # None}}]

\* schedule: an entry that is early enough is kept.
Schedule(t, slot) ==
  LET entry == t.slab[slot]
      due == Deadline(spec, entry.core)
      deadline == IF due > now THEN due ELSE CheckedAdd(now, 1)
      ticket == t.tickets + 1
  IN IF due = None \/ deadline = None \/ (entry.scheduled # None /\ entry.scheduled <= deadline)
     THEN t
     ELSE CompactHeap([t EXCEPT !.slab[slot].ticket = ticket,
                                !.slab[slot].scheduled = deadline,
                                !.tickets = ticket,
                                !.heap = @ \cup {<<deadline, ticket, slot>>}])

\* An entry of the heap belongs to the key that now has its slot.
Live(t, top) == Occupied(t, top[3]) /\ t.slab[top[3]].ticket = top[2]

\* One round of expire: take the earliest entry and close what its key has due.
ExpireOne(acc, anc) ==
  LET top == Peek(acc.table)
      slot == top[3]
      popped == [acc.table EXCEPT !.heap = @ \ {top}]
      t == [popped EXCEPT !.slab[slot].scheduled = None]
      entry == t.slab[slot]
      due == Deadline(spec, entry.core)
      ticked == OnTick(spec, entry.core, anc, now, [acc.out EXCEPT !.key = entry.key])
      after == [t EXCEPT !.slab[slot].core = ticked.core]
  IN IF ~Live(popped, top) THEN [acc EXCEPT !.table = popped]
     ELSE IF due > now THEN [acc EXCEPT !.table = Schedule(t, slot)]
     ELSE [out |-> ticked.out,
           table |-> IF IsEmpty(ticked.core) THEN RemoveKey(after, slot) ELSE Schedule(after, slot)]

\* A round does nothing once the earliest entry is in the future.
Round(acc, anc) ==
  IF acc.table.heap # {} /\ Peek(acc.table)[1] <= now THEN ExpireOne(acc, anc) ELSE acc

\* Variant: a call closes the windows of one key only.
ExpireFirst(t, anc, outlet) == Round([table |-> t, out |-> outlet], anc)
\* expire: a round schedules nothing at or before now, so the entries there are
\* bound the rounds.
Expire(t, anc, outlet) ==
  LET upTo[n \in 0..Cardinality(t.heap)] ==
        IF n = 0 THEN [table |-> t, out |-> outlet] ELSE Round(upTo[n - 1], anc)
  IN upTo[Cardinality(t.heap)]

-----------------------------------------------------------------------------
\* evict_one: flush and remove the key at the head of the list.
EvictOne(acc) ==
  LET t == acc.table
      victim == t.slab[t.head]
  IN IF ~Occupied(t, t.head) THEN acc
     ELSE [table |-> RemoveKey(t, t.head),
           out |-> OnFlush(spec, victim.core, now, [acc.out EXCEPT !.key = victim.key]).out]

\* A key is given a slot: the last one freed, or a new one.
Insert(t, key) ==
  LET entry == [key |-> key, core |-> EmptyCore, created |-> t.seq + 1, prev |-> NIL,
                next |-> NIL, ticket |-> 0, scheduled |-> None]
      slot == IF t.free = <<>> THEN Len(t.slab) + 1 ELSE Last(t.free)
      placed == IF t.free = <<>>
                THEN [t EXCEPT !.slab = Append(@, entry)]
                ELSE [t EXCEPT !.slab[slot] = entry, !.free = Front(@)]
  IN PushBack([placed EXCEPT !.seq = @ + 1, !.index[key] = slot], slot)

\* touch
Touch(acc, key) ==
  LET full == Cardinality(Tracked(acc.table)) >= MaxKeys
      room == IF full THEN EvictOne(acc) ELSE acc
  IN IF key \in Tracked(acc.table)
     THEN [acc EXCEPT !.table = Refresh(@, @.index[key])]
     ELSE [room EXCEPT !.table = Insert(@, key)]

\* The outlet a call starts with, and what is left of it.
Outlet == [key |-> NIL, sent |-> sent, accepts |-> accepts, ok |-> TRUE, refused |-> FALSE]
Emitted(out) == sent' = out.sent /\ accepts' = out.accepts /\ failed' = out.refused

-----------------------------------------------------------------------------
\* The unkeyed stages (WindowStage), one per key.

AloneOutlet(k) ==
  [key |-> k, sent |-> aloneSent[k], accepts |-> MaxTaken * (MaxInstant + 1),
   ok |-> TRUE, refused |-> FALSE]
AloneDone(result) ==
  /\ alone' = [k \in Keys |-> result[k].core]
  /\ aloneSent' = [k \in Keys |-> result[k].out.sent]

LastUse(k) == Max({0} \cup {i \in Ids : taken[i].key = k})

\* The key that has been idle longest.
Idlest(keys) == CHOOSE k \in keys : \A j \in keys : LastUse(k) <= LastUse(j)

\* WindowStage::process for the item's key, WindowStage::tick for the others, and
\* the flush of a key that is evicted.
AloneProcess(key, anc, evicted) ==
  LET ticked == [k \in Keys |-> OnTick(spec, alone[k], anc, now, AloneOutlet(k))]
  IN AloneDone([k \in Keys |->
       IF k = key
       THEN OnItem(spec, MaxItems, alone[k], anc, now, Len(taken) + 1, AloneOutlet(k))
       ELSE IF k \in evicted THEN OnFlush(spec, ticked[k].core, now, ticked[k].out)
       ELSE ticked[k]])
AloneTick ==
  AloneDone([k \in Keys |-> OnTick(spec, alone[k], anchor, now, AloneOutlet(k))])
AloneFlush ==
  AloneDone([k \in Keys |-> OnFlush(spec, alone[k], now, AloneOutlet(k))])

-----------------------------------------------------------------------------
Init ==
  /\ spec \in Specs /\ Check(spec)
  /\ now \in Starts /\ anchor = None
  /\ table = EmptyTable
  /\ sent = <<>> /\ accepts \in Accepted /\ failed = FALSE /\ ended = FALSE
  /\ alone = [k \in Keys |-> EmptyCore] /\ aloneSent = [k \in Keys |-> <<>>]
  /\ taken = <<>> /\ readAt = now /\ skews = 0

\* Time passes, or the clock is set back.  Moves that no call sees in between
\* are one move.
Clock ==
  /\ ~ended /\ ~failed /\ now = readAt
  /\ \E t \in 0..MaxTime :
       /\ t # now /\ (t < now => skews < MaxSkews)
       /\ now' = t /\ skews' = IF t < now THEN skews + 1 ELSE skews
  /\ UNCHANGED <<spec, anchor, table, emission, ended, reference, taken, readAt>>

\* KeyedWindowStage::process: expire, touch, on_item, schedule.
Process(key) ==
  /\ ~ended /\ ~failed /\ Len(taken) < MaxTaken
  /\ LET anc == Or(anchor, GridOrigin(spec, now))
         expired == Expire(table, anc, Outlet)
         tracked == Tracked(expired.table)
         evicted == IF key \in tracked \/ Cardinality(tracked) < MaxKeys
                    THEN {} ELSE {Idlest(tracked)}
         touched == Touch(expired, key)
         slot == touched.table.index[key]
         added == OnItem(spec, MaxItems, touched.table.slab[slot].core, anc, now,
                         Len(taken) + 1, [touched.out EXCEPT !.key = key])
     IN /\ anchor' = anc
        /\ table' = Schedule([touched.table EXCEPT !.slab[slot].core = added.core], slot)
        /\ Emitted(added.out)
        /\ AloneProcess(key, anc, evicted)
  /\ taken' = Append(taken, [key |-> key, at |-> now])
  /\ readAt' = now
  /\ UNCHANGED <<spec, now, ended, skews>>

\* KeyedWindowStage::tick.
Tick ==
  /\ ~ended /\ ~failed /\ anchor # None
  /\ LET expired == Expire(table, anchor, Outlet)
     IN table' = expired.table /\ Emitted(expired.out)
  /\ AloneTick
  /\ readAt' = now
  /\ UNCHANGED <<spec, now, anchor, ended, taken, skews>>

\* Flush the key that was the n-th to be given a slot, if it is still there.
FlushCreated(out, n) ==
  LET those == {s \in DOMAIN table.slab : Occupied(table, s) /\ table.slab[s].created = n}
      entry == table.slab[CHOOSE s \in those : TRUE]
  IN IF those = {} THEN out
     ELSE OnFlush(spec, entry.core, now, [out EXCEPT !.key = entry.key]).out

\* KeyedWindowStage::flush: every key in the order of its first appearance.
Flush ==
  /\ ~ended /\ ~failed
  /\ LET upTo[n \in 0..table.seq] ==
           IF n = 0 THEN Outlet ELSE FlushCreated(upTo[n - 1], n)
     IN Emitted(upTo[table.seq])
  /\ table' = [EmptyTable EXCEPT !.seq = table.seq, !.tickets = table.tickets]
  /\ AloneFlush
  /\ ended' = TRUE
  /\ UNCHANGED <<spec, now, anchor, taken, readAt, skews>>

\* The stage is dropped after the flush or after a failure.
Dropped == (ended \/ failed) /\ UNCHANGED vars

Next == Clock \/ (\E key \in Keys : Process(key)) \/ Tick \/ Flush \/ Dropped

Spec == Init /\ [][Next]_vars

-----------------------------------------------------------------------------
CoreOf(k) == IF k \in Tracked(table) THEN table.slab[table.index[k]].core ELSE EmptyCore

TypeOK ==
  /\ spec \in Specs /\ now \in 0..MaxTime /\ anchor \in 0..MaxTime \cup {None}
  /\ \A k \in Keys : table.index[k] \in 0..Len(table.slab)
  /\ \A s \in DOMAIN table.slab : Occupied(table, s) =>
       LET e == table.slab[s]
       IN /\ e.key \in Keys /\ e.created \in 1..table.seq
          /\ e.prev \in 0..Len(table.slab) /\ e.next \in 0..Len(table.slab)
          /\ e.ticket \in 0..table.tickets /\ e.scheduled \in 0..MaxInstant \cup {None}
          /\ ToSet(e.core.items) \subseteq Ids
          /\ \A i \in DOMAIN e.core.slots : ToSet(e.core.slots[i].items) \subseteq Ids
  /\ ToSet(table.free) \subseteq DOMAIN table.slab
  /\ table.heap \subseteq (0..MaxInstant) \X (1..table.tickets) \X (DOMAIN table.slab)
  /\ \A i \in DOMAIN sent : sent[i].start \in 0..MaxInstant /\ sent[i].end \in 0..MaxInstant

\* Every window there is or was: those delivered, and those still open.
Pieces ==
  {[id |-> <<NIL, n>>, key |-> sent[n].key, start |-> sent[n].start, items |-> sent[n].items] :
     n \in DOMAIN sent}
  \cup UNION {LET core == CoreOf(k)
                  slots == core.slots
              IN {[id |-> <<k, 0>>, key |-> k, start |-> core.start, items |-> core.items]}
                 \cup {[id |-> <<k, n>>, key |-> k, start |-> slots[n].start, items |-> slots[n].items] :
                         n \in DOMAIN slots} : k \in Keys}

\* The grid windows that contain an arrival.
Homes(at) ==
  LET e == Since(at, anchor)
  IN {anchor + n * spec.slide :
        n \in {m \in 0..MaxInstant : m * spec.slide <= e /\ e < m * spec.slide + spec.size}}

\* No item is lost, duplicated or given to another key: a tumbling or session
\* window takes each item once, and a sliding stage puts it once into each window
\* of the grid that contains its arrival and into no other.  Inside a window items
\* are in order of arrival.  Whatever is evicted, split, expired or flushed.
EachItemInItsWindows ==
  ~failed => LET pieces == Pieces IN
    /\ \A p \in pieces : \A i \in DOMAIN p.items :
         taken[p.items[i]].key = p.key /\ (i > 1 => p.items[i - 1] < p.items[i])
    /\ \A i \in Ids :
         LET holding == {p \in pieces : i \in ToSet(p.items)}
             homes == Homes(taken[i].at)
         IN IF spec.kind = "sliding"
            THEN /\ {p.start : p \in holding} = homes
                 /\ Cardinality(holding) = Cardinality(homes)
            ELSE Cardinality(holding) = 1

Delivered(k) == SelectSeq(sent, LAMBDA w : w.key = k)

\* What a window says of itself is true while the clock does not run backwards:
\* its items arrived inside the interval it reports, on the grid or, for a session,
\* no more than the idle time apart; and no window is cut in two: a key's
\* next window lies in another interval, or is a session's length of silence later, unless
\* the window before was full.
WindowsAsReported ==
  skews = 0 /\ ~failed =>
    \A k \in Keys : LET windows == Delivered(k) IN \A n \in DOMAIN windows :
      LET w == windows[n]
          at(i) == taken[w.items[i]].at
          bounded == w.start + spec.size <= MaxInstant
          before == windows[n - 1]
          unforced == n > 1 /\ Len(before.items) < MaxItems /\ spec.maxKeys = None
      IN IF spec.kind = "session"
         THEN /\ w.end = at(Len(w.items)) /\ w.start <= at(1)
              /\ \A i \in 2..Len(w.items) : at(i) - at(i - 1) <= spec.size
              /\ unforced => at(1) - before.end > spec.size
         ELSE /\ bounded => w.end = w.start + spec.size
              /\ \A i \in DOMAIN w.items : w.start <= at(i) /\ (bounded => at(i) < w.end)
              /\ spec.kind = "tumbling" => (w.start - anchor) % spec.size = 0
              /\ unforced => before.start < w.start

\* The keyed stage is one unkeyed stage per key: while the clock does not run
\* backwards, each key's windows are those its own stage delivers, in the same
\* calls, whatever the heap, the slab and the other keys do; the key flushed for want of
\* room is the one idle longest.
AsUnkeyed ==
  skews = 0 /\ ~failed =>
    \A k \in Keys :
      /\ Delivered(k) = aloneSent[k]
      /\ CoreOf(k).items = alone[k].items
      /\ SelectSeq(CoreOf(k).slots, LAMBDA s : s.items # <<>>)
           = SelectSeq(alone[k].slots, LAMBDA s : s.items # <<>>)

\* Every process and tick closes the windows of all keys that have ended, not only
\* of the item's own, even after the clock ran backwards; and what is still open has
\* an entry in the heap that finds it when it ends.  When a window was refused, a key
\* that could not be closed is due again at once, unless time has no next instant.
Timely ==
  \A k \in Tracked(table) :
    LET entry == table.slab[table.index[k]]
        due == Deadline(spec, entry.core)
    IN due # None =>
         IF failed
         THEN readAt < MaxInstant =>
                /\ entry.scheduled # None
                /\ entry.scheduled <= due \/ entry.scheduled <= readAt + 1
         ELSE entry.scheduled # None /\ entry.scheduled <= due /\ due > readAt

\* Each tracked key has the slot that names it; free are the other slots, once each,
\* and no more slots exist than keys were tracked at once.
SlotsAgree ==
  LET vacant == {s \in DOMAIN table.slab : ~Occupied(table, s)}
  IN /\ \A k \in Tracked(table) :
          Occupied(table, table.index[k]) /\ table.slab[table.index[k]].key = k
     /\ ToSet(table.free) = vacant /\ Len(table.free) = Cardinality(vacant)
     /\ Cardinality(Tracked(table)) = Len(table.slab) - Cardinality(vacant)
     /\ Len(table.slab) <= MaxKeys

\* A key that is scheduled has a heap entry of its own, and the heap stays within
\* a constant factor of the keys tracked at once, however many are evicted.
HeapAgrees ==
  /\ \A a, b \in table.heap : a[2] = b[2] => a = b
  /\ \A k \in Tracked(table) :
       LET e == table.slab[table.index[k]]
       IN e.scheduled # None => <<e.scheduled, e.ticket, table.index[k]>> \in table.heap
  /\ Cardinality(table.heap) <= 2 * Min({MaxKeys, Cardinality(Keys)}) + HeapSlack

\* The linked list is the tracked keys in the order of their last item.
ListAgrees ==
  LET first(keys) == IF keys = {} THEN NIL ELSE table.index[Idlest(keys)]
      last(keys) == IF keys = {} THEN NIL
                    ELSE table.index[CHOOSE k \in keys : \A j \in keys : LastUse(j) <= LastUse(k)]
  IN /\ table.head = first(Tracked(table)) /\ table.tail = last(Tracked(table))
     /\ \A k \in Tracked(table) :
          LET entry == table.slab[table.index[k]]
          IN /\ entry.next = first({j \in Tracked(table) : LastUse(j) > LastUse(k)})
             /\ entry.prev = last({j \in Tracked(table) : LastUse(j) < LastUse(k)})

\* Index, slab, free list, heap and recency list agree after any calls.
TableSound == SlotsAgree /\ HeapAgrees /\ ListAgrees

\* An item or a tick emits the expired windows of all keys in the order of their
\* end: what the documentation of the module and of expire says (window.rs:25, 977).
\* A session that kept receiving items is found by the heap entry of its first
\* item, ahead of sessions that ended before it.
InOrderOfEnd ==
  [][ ~ended' => \A i, j \in Len(sent) + 1 .. Len(sent') :
                   i < j => sent'[i].end <= sent'[j].end ]_vars
=============================================================================
