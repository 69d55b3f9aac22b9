-------------------------- MODULE KeyedWindowItems --------------------------
(***************************************************************************)
(* EachItemInItsWindows of KeyedWindow holds in every state.               *)
(*                                                                         *)
(* An item demands places: a key, the item, and the mark of a window,      *)
(* which is the start of a grid window and otherwise the same for all.  A  *)
(* window fills the places of its items.  The parts on the window core     *)
(* show that each of its operations delivers or keeps exactly the places   *)
(* it held and those of a new item (Accounted); the next ones that expire, *)
(* touch, schedule and flush lose and repeat none over all keys            *)
(* (AllAccounted).  AccountInv is the invariant: the places demanded by    *)
(* the items taken are filled once each, by the windows delivered and      *)
(* those still open.  At the end the marks of an arrival are found to be   *)
(* the grid windows that contain it (HomesOf), and the pieces of the       *)
(* property to be those windows (PiecesFill).                              *)
(***************************************************************************)
EXTENDS KeyedWindowProofs

-----------------------------------------------------------------------------
(* What the windows hold.  Windows that overlap are told apart by their    *)
(* start; of the others each item is in one, whatever its start.           *)

Mark(policy, start) == IF policy.kind = "sliding" THEN start ELSE 0

\* The places a window fills: a key, one of its items, and the mark of the window.
Holds(policy, key, start, items) == {<<key, i, Mark(policy, start)>> : i \in ToSet(items)}
Delivers(policy, w) == Holds(policy, w.key, w.start, w.items)

\* Items in order of arrival.
Rising(items) == \A i \in DOMAIN items : i > 1 => items[i - 1] < items[i]

\* The windows delivered fill the places in A, each once, and no others.
Account(policy, seq, A) ==
  /\ \A n \in DOMAIN seq : Rising(seq[n].items) /\ Delivers(policy, seq[n]) \subseteq A
  /\ \A m, n \in DOMAIN seq : m # n => Delivers(policy, seq[m]) \cap Delivers(policy, seq[n]) = {}
  /\ \A c \in A : \E n \in DOMAIN seq : c \in Delivers(policy, seq[n])

\* So they do unless one was refused.
Accounts(policy, out, A) == ~out.refused => Account(policy, out.sent, A)

\* A window that is sent fills its places.
LEMMA EmitSomeAccounts ==
  ASSUME NEW policy, NEW out \in Outlets, NEW items, NEW start, NEW end, Rising(items),
         NEW A, Accounts(policy, out, A), Holds(policy, out.key, start, items) \cap A = {},
         NEW o, o = EmitSome(out, items, start, end)
  PROVE  /\ Accounts(policy, o, A \cup Holds(policy, out.key, start, items))
         /\ o.key = out.key /\ (~o.refused => ~out.refused /\ o.ok)
<1> DEFINE C == Holds(policy, out.key, start, items)
<1>1. CASE items = <<>>
  <2>1. C = {}
    BY <1>1 DEF Holds, ToSet
  <2>2. o.sent = out.sent /\ o.key = out.key /\ o.refused = out.refused /\ o.ok
    BY <1>1 DEF EmitSome, Outlets
  <2>3. A \cup C = A
    BY <2>1
  <2> QED BY <2>2, <2>3 DEF Accounts
<1>2. CASE items # <<>> /\ out.accepts = 0
  <2>1. o.key = out.key /\ o.refused
    BY <1>2 DEF EmitSome, Outlets
  <2> QED BY <2>1 DEF Accounts
<1>3. CASE items # <<>> /\ out.accepts # 0
  <2> DEFINE w == [key |-> out.key, items |-> items, start |-> start, end |-> end]
             more == Append(out.sent, w)
  <2>1. o = [out EXCEPT !.ok = TRUE, !.accepts = out.accepts - 1, !.sent = more]
    BY <1>3 DEF EmitSome
  <2>2. out.sent \in Seq(Windows)
    BY DEF Outlets
  <2>3. Delivers(policy, w) = C /\ w.items = items
    BY DEF Delivers
  <2> HIDE DEF w, C
  <2> DEFINE n == Len(out.sent)
  <2>4. /\ n \in Nat /\ DOMAIN out.sent = 1..n /\ DOMAIN more = 1..(n + 1)
        /\ more[n + 1] = w /\ \A i \in 1..n : more[i] = out.sent[i]
    BY <2>2
  <2> HIDE DEF more, n
  <2>5. o.sent = more /\ o.key = out.key /\ o.refused = out.refused /\ o.ok
    BY <2>1 DEF Outlets
  <2>6. ASSUME Account(policy, out.sent, A) PROVE Account(policy, more, A \cup C)
    <3>1. /\ \A i \in 1..n : /\ Rising(more[i].items) /\ Delivers(policy, more[i]) \subseteq A
          /\ \A i, j \in 1..n : i # j => Delivers(policy, more[i]) \cap Delivers(policy, more[j]) = {}
          /\ \A c \in A : \E i \in 1..n : c \in Delivers(policy, more[i])
      BY <2>4, <2>6 DEF Account
    <3>2. Rising(more[n + 1].items) /\ Delivers(policy, more[n + 1]) = C
      BY <2>3, <2>4
    <3>3. C \cap A = {}
      BY DEF C
    <3>4. \A i \in DOMAIN more : i \in 1..n \/ i = n + 1
      BY <2>4
    <3>5. \A i \in 1..n : i \in DOMAIN more /\ n + 1 \in DOMAIN more
      BY <2>4
    <3>6. n + 1 \in DOMAIN more
      BY <2>4
    <3>7. \A i \in DOMAIN more : Rising(more[i].items) /\ Delivers(policy, more[i]) \subseteq A \cup C
      BY <3>1, <3>2, <3>4
    <3>8. \A i, j \in DOMAIN more : i # j => Delivers(policy, more[i]) \cap Delivers(policy, more[j]) = {}
      <4> SUFFICES ASSUME NEW i \in DOMAIN more, NEW j \in DOMAIN more, i # j
                   PROVE  Delivers(policy, more[i]) \cap Delivers(policy, more[j]) = {}
        OBVIOUS
      <4>1. CASE i \in 1..n /\ j \in 1..n
        BY <3>1, <4>1
      <4>2. CASE i \in 1..n /\ j = n + 1
        BY <3>1, <3>2, <3>3, <4>2
      <4>3. CASE i = n + 1 /\ j \in 1..n
        BY <3>1, <3>2, <3>3, <4>3
      <4> QED BY <3>4, <4>1, <4>2, <4>3
    <3>9. \A c \in A \cup C : \E i \in DOMAIN more : c \in Delivers(policy, more[i])
      BY <3>1, <3>2, <3>5, <3>6
    <3> QED BY <3>7, <3>8, <3>9 DEF Account
  <2> QED BY <2>5, <2>6 DEF Accounts, C
<1> QED BY <1>1, <1>2, <1>3

\* Part of a rising sequence and one more item.
LEMMA RisingAppend ==
  ASSUME NEW items \in Seq(Nat), Rising(items), NEW item, \A i \in ToSet(items) : i < item
  PROVE  Rising(Append(items, item))
<1> DEFINE n == Len(items)
           more == Append(items, item)
<1>1. /\ n \in Nat /\ DOMAIN items = 1..n /\ DOMAIN more = 1..(n + 1)
      /\ more[n + 1] = item /\ \A i \in 1..n : more[i] = items[i]
  OBVIOUS
<1> HIDE DEF more, n
<1>2. ASSUME NEW i \in DOMAIN more, i > 1 PROVE more[i - 1] < more[i]
  <2>1. CASE i = n + 1
    <3>1. i - 1 \in 1..n /\ i - 1 \in DOMAIN items
      BY <1>1, <1>2, <2>1
    <3>2. items[i - 1] \in ToSet(items)
      BY <3>1 DEF ToSet
    <3> QED BY <1>1, <2>1, <3>1, <3>2
  <2>2. CASE i # n + 1
    <3>1. i \in 1..n /\ i - 1 \in 1..n
      BY <1>1, <1>2, <2>2
    <3> QED BY <1>1, <1>2, <3>1 DEF Rising
  <2> QED BY <2>1, <2>2
<1> QED BY <1>2 DEF Rising, more

LEMMA ToSetAppend ==
  ASSUME NEW S, NEW s \in Seq(S), NEW e
  PROVE  ToSet(Append(s, e)) = ToSet(s) \cup {e}
<1> DEFINE n == Len(s)
           more == Append(s, e)
<1>1. /\ n \in Nat /\ DOMAIN s = 1..n /\ DOMAIN more = 1..(n + 1)
      /\ more[n + 1] = e /\ \A i \in 1..n : more[i] = s[i]
  OBVIOUS
<1> HIDE DEF more, n
<1>2. ToSet(more) = {more[i] : i \in 1..(n + 1)} /\ ToSet(s) = {s[i] : i \in 1..n}
  BY <1>1 DEF ToSet
<1>3. \A i \in 1..(n + 1) : i \in 1..n \/ i = n + 1
  BY <1>1
<1>4. n + 1 \in 1..(n + 1) /\ \A i \in 1..n : i \in 1..(n + 1)
  BY <1>1
<1> QED BY <1>1, <1>2, <1>3, <1>4 DEF more

LEMMA RisingEmpty == Rising(<<>>) /\ ToSet(<<>>) = {}
BY DEF Rising, ToSet

LEMMA HoldsAppend ==
  ASSUME NEW policy, NEW key, NEW start, NEW items \in Seq(Nat), NEW item
  PROVE  Holds(policy, key, start, Append(items, item))
           = Holds(policy, key, start, items) \cup {<<key, item, Mark(policy, start)>>}
<1>1. ToSet(Append(items, item)) = ToSet(items) \cup {item}
  BY ToSetAppend
<1> QED BY <1>1 DEF Holds

\* Slots in order of their index.
Sorted(slots) == \A i, j \in DOMAIN slots : i < j => slots[i].k < slots[j].k

\* The open windows of a core have their items in order; a queue is sorted and on the grid.
Tidy(I, policy, anchor_, core) ==
  /\ Rising(core.items)
  /\ IF policy.kind = "sliding"
     THEN /\ core.items = <<>> /\ GridCore(I, policy, anchor_, core) /\ Sorted(core.slots)
          /\ \A w \in ToSet(core.slots) : Rising(w.items)
     ELSE core.slots = <<>>

\* The places its open windows fill.
SlotsHold(policy, key, W) == UNION {Holds(policy, key, w.start, w.items) : w \in W}
CoreHolds(policy, key, core) ==
  Holds(policy, key, core.start, core.items) \cup SlotsHold(policy, key, ToSet(core.slots))

\* What a core held, and the places of a new item, are filled by windows it delivered or
\* still has open.
Accounted(I, policy, anchor_, key, core, new, A, r) ==
  ~r.out.refused =>
    LET held == CoreHolds(policy, key, r.core)
        all == CoreHolds(policy, key, core) \cup new
    IN /\ Tidy(I, policy, anchor_, r.core) /\ held \subseteq all
       /\ Account(policy, r.out.sent, (A \cup all) \ held)

\* The item is later than all that is open.
Above(item, core) ==
  /\ \A i \in ToSet(core.items) : i < item
  /\ \A w \in ToSet(core.slots) : \A i \in ToSet(w.items) : i < item

LEMMA OneHolds ==
  ASSUME NEW policy, policy.kind # "sliding", NEW key, NEW core, core.slots = <<>>, NEW start
  PROVE  CoreHolds(policy, key, core) = Holds(policy, key, start, core.items)
<1>1. ToSet(core.slots) = {}
  BY DEF ToSet
<1>2. SlotsHold(policy, key, ToSet(core.slots)) = {}
  BY <1>1 DEF SlotsHold
<1>3. Mark(policy, core.start) = Mark(policy, start)
  BY DEF Mark
<1> QED BY <1>2, <1>3 DEF CoreHolds, Holds

LEMMA EmptyHolds ==
  ASSUME NEW policy, NEW key, NEW start
  PROVE  Holds(policy, key, start, <<>>) = {}
BY RisingEmpty DEF Holds

\* The only window of a core is closed.
LEMMA CloseAccounts ==
  ASSUME NEW I \in SUBSET Nat, NEW policy \in Policies, policy.kind # "sliding",
         NEW core \in Cores(I), core.slots = <<>>, Rising(core.items), NEW now_ \in Instants,
         NEW out \in Outlets, NEW A, Accounts(policy, out, A),
         CoreHolds(policy, out.key, core) \cap A = {}, NEW o, o = Close(policy, core, now_, out)
  PROVE  /\ Accounts(policy, o, A \cup CoreHolds(policy, out.key, core))
         /\ o.key = out.key /\ (~o.refused => ~out.refused /\ o.ok) /\ o \in Outlets
<1> DEFINE end == EndOf(policy, core, now_)
           start == Or(core.start, end)
<1>1. o = EmitSome(out, core.items, start, end)
  BY DEF Close
<1>2. CoreHolds(policy, out.key, core) = Holds(policy, out.key, start, core.items)
  BY OneHolds
<1>3. o \in Outlets
  BY CloseType
<1> HIDE DEF start, end
<1> QED BY <1>1, <1>2, <1>3, EmitSomeAccounts

\* An item is put into the only window of a core.
LEMMA PushAccounts ==
  ASSUME NEW I \in SUBSET Nat, NEW policy \in Policies, policy.kind # "sliding",
         NEW core \in Cores(I), core.slots = <<>>, Rising(core.items), NEW maxItems,
         NEW anchor_, NEW now_ \in Instants, NEW item \in I, \A i \in ToSet(core.items) : i < item,
         NEW out \in Outlets, NEW A, Accounts(policy, out, A),
         NEW new, new = {<<out.key, item, 0>>},
         (CoreHolds(policy, out.key, core) \cup new) \cap A = {},
         NEW r, r = Push(policy, maxItems, core, now_, item, out)
  PROVE  /\ Accounted(I, policy, anchor_, out.key, core, new, A, r)
         /\ ~r.out.refused => ~out.refused
<1> DEFINE items == Append(core.items, item)
           grown == [core EXCEPT !.items = items]
           rest == [core EXCEPT !.items = <<>>,
                      !.start = IF policy.kind = "session" THEN now_ ELSE core.start]
           closed == Close(policy, grown, now_, out)
           all == CoreHolds(policy, out.key, core) \cup new
<1>1. core.items \in Seq(I) /\ core.items \in Seq(Nat) /\ <<>> \in Seq(I)
  <2>1. core.items \in Seq(I)
    BY DEF Cores
  <2>2. Seq(I) \subseteq Seq(Nat)
    BY SeqMonotonic
  <2>3. <<>> \in Seq(I)
    OBVIOUS
  <2> QED BY <2>1, <2>2, <2>3
<1>2. items \in Seq(I) /\ Rising(items)
  BY <1>1, RisingAppend
<1>3. Holds(policy, out.key, core.start, items) = all
  <2>1. Mark(policy, core.start) = 0
    BY DEF Mark
  <2>2. CoreHolds(policy, out.key, core) = Holds(policy, out.key, core.start, core.items)
    BY OneHolds
  <2> QED BY <1>1, <2>1, <2>2, HoldsAppend
<1> HIDE DEF items
<1>4. grown \in Cores(I) /\ grown.items = items /\ grown.slots = <<>> /\ grown.start = core.start
  BY <1>2 DEF Cores
<1>5. rest \in Cores(I) /\ rest.items = <<>> /\ rest.slots = <<>>
  BY <1>1, InstantNat DEF Cores
<1>6. r = IF Len(grown.items) < maxItems THEN [core |-> grown, out |-> out]
          ELSE [core |-> rest, out |-> closed]
  BY DEF Push, items
<1> HIDE DEF grown, rest
<1>7. CoreHolds(policy, out.key, grown) = all
  BY <1>3, <1>4, OneHolds
<1>8. CASE Len(grown.items) < maxItems
  <2>1. r.core = grown /\ r.out = out
    BY <1>6, <1>8
  <2>2. (A \cup all) \ all = A
    OBVIOUS
  <2>3. Tidy(I, policy, anchor_, grown)
    BY <1>2, <1>4 DEF Tidy
  <2> QED BY <1>7, <2>1, <2>2, <2>3 DEF Accounted, Accounts
<1>9. CASE ~(Len(grown.items) < maxItems)
  <2>1. r.core = rest /\ r.out = closed
    BY <1>6, <1>9
  <2>2. Accounts(policy, closed, A \cup all) /\ (~closed.refused => ~out.refused)
    <3> HIDE DEF all, closed
    <3>1. all \cap A = {}
      BY DEF all
    <3>2. grown \in Cores(I) /\ grown.slots = <<>> /\ Rising(grown.items)
      BY <1>2, <1>4
    <3>3. closed = Close(policy, grown, now_, out)
      BY DEF closed
    <3>4. CoreHolds(policy, out.key, grown) \cap A = {}
      BY <1>7, <3>1
    <3>5. /\ Accounts(policy, closed, A \cup CoreHolds(policy, out.key, grown))
          /\ ~closed.refused => ~out.refused
      BY <3>2, <3>3, <3>4, CloseAccounts
    <3> QED BY <1>7, <3>5
  <2>3. CoreHolds(policy, out.key, rest) = {}
    BY <1>5, OneHolds, EmptyHolds
  <2>4. Tidy(I, policy, anchor_, rest)
    BY <1>5, RisingEmpty DEF Tidy
  <2>5. (A \cup all) \ {} = A \cup all
    OBVIOUS
  <2> HIDE DEF all, closed
  <2>6. Accounted(I, policy, anchor_, out.key, core, new, A, r)
    BY <2>1, <2>2, <2>3, <2>4, <2>5 DEF Accounted, Accounts, all
  <2> QED BY <2>1, <2>2, <2>6
<1> QED BY <1>8, <1>9

LEMMA OnItemOneAccounts ==
  ASSUME NEW I \in SUBSET Nat, NEW policy \in Policies, policy.kind # "sliding",
         NEW core \in Cores(I), NEW maxItems, NEW anchor_ \in Instants, NEW now_ \in Instants,
         Tidy(I, policy, anchor_, core), NEW item \in I, Above(item, core),
         NEW out \in Outlets, NEW A, Accounts(policy, out, A),
         NEW new, new = {<<out.key, item, 0>>},
         (CoreHolds(policy, out.key, core) \cup new) \cap A = {},
         new \cap CoreHolds(policy, out.key, core) = {},
         NEW r, r = OnItemOne(policy, maxItems, core, anchor_, now_, item, out)
  PROVE  Accounted(I, policy, anchor_, out.key, core, new, A, r)
<1> DEFINE begun == [core EXCEPT !.start = Or(core.start, StartOf(policy, anchor_, now_))]
           over == IsOver(policy, begun, now_)
           after == IF over THEN Close(policy, begun, now_, out) ELSE [out EXCEPT !.ok = TRUE]
           rest == IF over THEN [begun EXCEPT !.items = <<>>] ELSE begun
           start == IF over THEN StartOf(policy, anchor_, now_) ELSE begun.start
           last == IF policy.kind = "session" THEN now_ ELSE None
           next == [rest EXCEPT !.start = start, !.last = last]
           pushed == Push(policy, maxItems, next, now_, item, after)
           held == CoreHolds(policy, out.key, core)
           left == CoreHolds(policy, out.key, next)
           B == IF over THEN A \cup held ELSE A
<1>1. StartOf(policy, anchor_, now_) \in Instants
  BY StartOfType
<1>2. begun \in Cores(I) /\ begun.items = core.items /\ begun.slots = core.slots
  <2>1. Or(core.start, StartOf(policy, anchor_, now_)) \in Moments
    BY <1>1, InstantNat, OrTypeAny DEF Cores
  <2> QED BY <2>1 DEF Cores
<1>3. core.slots = <<>> /\ Rising(core.items) /\ \A i \in ToSet(core.items) : i < item
  BY DEF Tidy, Above
<1>4. CoreHolds(policy, out.key, begun) = held
  <2> HIDE DEF begun
  <2> QED BY <1>2, <1>3, OneHolds
<1>5. r = IF after.ok THEN pushed ELSE [core |-> rest, out |-> after]
  BY DEF OnItemOne
<1> HIDE DEF begun
<1>6. /\ after \in Outlets /\ after.key = out.key /\ Accounts(policy, after, B)
      /\ ~after.refused => after.ok
  <2>1. CASE over
    BY <1>2, <1>3, <1>4, <2>1, CloseAccounts
  <2>2. CASE ~over
    <3>1. /\ after \in Outlets /\ after.key = out.key /\ after.sent = out.sent
          /\ after.refused = out.refused /\ after.ok
      BY <2>2 DEF Outlets
    <3> QED BY <2>2, <3>1 DEF Accounts
  <2> QED BY <2>1, <2>2
<1> HIDE DEF after, over
<1>7. /\ rest \in Cores(I) /\ rest.slots = <<>> /\ rest.items = IF over THEN <<>> ELSE core.items
  <2>1. <<>> \in Seq(I)
    OBVIOUS
  <2> QED BY <1>2, <1>3, <2>1 DEF Cores
<1>8. start \in Moments /\ last \in Moments
  BY <1>1, <1>2, InstantNat DEF Cores, Moments
<1> HIDE DEF rest, start, last
<1>9. next \in Cores(I) /\ next.slots = <<>> /\ next.items = IF over THEN <<>> ELSE core.items
  BY <1>7, <1>8 DEF Cores
<1> HIDE DEF next
<1>10. left = IF over THEN {} ELSE held
  <2>1. left = Holds(policy, out.key, core.start, next.items)
    BY <1>9, OneHolds
  <2>2. held = Holds(policy, out.key, core.start, core.items)
    BY <1>3, OneHolds
  <2> QED BY <1>9, <2>1, <2>2, EmptyHolds
<1>11. Rising(next.items) /\ \A i \in ToSet(next.items) : i < item
  BY <1>3, <1>9, RisingEmpty
<1>12. /\ (left \cup new) \cap B = {} /\ left \subseteq held /\ B \cup left \cup new = A \cup held \cup new
  <2> HIDE DEF left, held
  <2>1. (held \cup new) \cap A = {} /\ new \cap held = {}
    BY DEF held
  <2>2. CASE over
    BY <1>10, <2>1, <2>2
  <2>3. CASE ~over
    BY <1>10, <2>1, <2>3
  <2> QED BY <2>2, <2>3
<1> HIDE DEF B
<1>13. /\ Accounted(I, policy, anchor_, out.key, next, new, B, pushed)
       /\ ~pushed.out.refused => ~after.refused
  <2>1. new = {<<after.key, item, 0>>}
    BY <1>6
  <2>2. (CoreHolds(policy, after.key, next) \cup new) \cap B = {}
    BY <1>6, <1>12
  <2>3. /\ Accounted(I, policy, anchor_, after.key, next, new, B, pushed)
        /\ ~pushed.out.refused => ~after.refused
    <3>1. pushed = Push(policy, maxItems, next, now_, item, after)
      OBVIOUS
    <3>2. after \in Outlets /\ Accounts(policy, after, B)
      BY <1>6
    <3>3. next \in Cores(I) /\ next.slots = <<>>
      BY <1>9
    <3> HIDE DEF pushed, left, held
    <3> QED BY <1>11, <2>1, <2>2, <3>1, <3>2, <3>3, PushAccounts
  <2> QED BY <1>6, <2>3
<1> HIDE DEF pushed
<1>14. CASE ~after.ok
  <2>1. r.out.refused
    BY <1>5, <1>6, <1>14
  <2> QED BY <2>1 DEF Accounted
<1>15. CASE after.ok
  <2>1. r = pushed
    BY <1>5, <1>15
  <2> DEFINE h == CoreHolds(policy, out.key, r.core)
  <2>2. ASSUME ~r.out.refused
        PROVE  /\ Tidy(I, policy, anchor_, r.core) /\ h \subseteq left \cup new
               /\ Account(policy, r.out.sent, (B \cup (left \cup new)) \ h)
    BY <1>13, <2>1, <2>2 DEF Accounted
  <2>3. (B \cup (left \cup new)) \ h = (A \cup (held \cup new)) \ h
    <3> HIDE DEF h, left, held
    <3> QED BY <1>12
  <2>4. ASSUME ~r.out.refused
        PROVE  /\ Tidy(I, policy, anchor_, r.core) /\ h \subseteq held \cup new
               /\ Account(policy, r.out.sent, (A \cup (held \cup new)) \ h)
    <3> HIDE DEF h, left, held
    <3> QED BY <1>12, <2>2, <2>3, <2>4
  <2> QED BY <2>4 DEF Accounted
<1> QED BY <1>14, <1>15

LEMMA OnTickOneAccounts ==
  ASSUME NEW I \in SUBSET Nat, NEW policy \in Policies, policy.kind # "sliding",
         NEW core \in Cores(I), NEW anchor_ \in Instants, NEW now_ \in Instants,
         Tidy(I, policy, anchor_, core),
         NEW out \in Outlets, NEW A, Accounts(policy, out, A),
         CoreHolds(policy, out.key, core) \cap A = {},
         NEW r, r = OnTickOne(policy, core, anchor_, now_, out)
  PROVE  Accounted(I, policy, anchor_, out.key, core, {}, A, r)
<1> DEFINE start == IF policy.kind = "tumbling" THEN StartOf(policy, anchor_, now_) ELSE None
           closed == [core EXCEPT !.items = <<>>, !.last = None, !.start = start]
           o == Close(policy, core, now_, out)
           held == CoreHolds(policy, out.key, core)
<1>1. r = IF ~IsOver(policy, core, now_) THEN [core |-> core, out |-> out]
          ELSE [core |-> closed, out |-> o]
  BY DEF OnTickOne
<1>2. core.slots = <<>> /\ Rising(core.items)
  BY DEF Tidy
<1>3. CASE ~IsOver(policy, core, now_)
  <2>1. r.core = core /\ r.out = out
    BY <1>1, <1>3
  <2>2. (A \cup (held \cup {})) \ held = A
    OBVIOUS
  <2> QED BY <2>1, <2>2 DEF Accounted, Accounts
<1>4. CASE IsOver(policy, core, now_)
  <2>1. r.core = closed /\ r.out = o
    BY <1>1, <1>4
  <2>2. closed.items = <<>> /\ closed.slots = <<>>
    BY <1>2 DEF Cores
  <2>3. Accounts(policy, o, A \cup held)
    BY <1>2, CloseAccounts
  <2> HIDE DEF closed, o
  <2>4. CoreHolds(policy, out.key, closed) = {} /\ Tidy(I, policy, anchor_, closed)
    BY <2>2, OneHolds, EmptyHolds, RisingEmpty DEF Tidy
  <2>5. (A \cup (held \cup {})) \ {} = A \cup held
    OBVIOUS
  <2> HIDE DEF held
  <2> QED BY <2>1, <2>3, <2>4, <2>5 DEF Accounted, Accounts, held
<1> QED BY <1>3, <1>4

-----------------------------------------------------------------------------
(* Grid windows: different indexes, different places.  emit_slots_before delivers   *)
(* what it takes off the queue.                                                      *)

\* Different indices have different places on the grid.
LEMMA ProductApart ==
  ASSUME NEW m \in Nat, NEW n \in Nat, NEW d \in Nat \ {0}, m # n
  PROVE  m * d # n * d
<1>1. ASSUME NEW a \in Nat, NEW b \in Nat, a < b PROVE a * d < b * d
  <2>1. a + 1 \in Nat /\ a + 1 <= b /\ d \in Nat
    BY <1>1
  <2>2. (a + 1) * d <= b * d /\ (a + 1) * d = a * d + d /\ a * d \in Nat /\ b * d \in Nat
    BY <2>1, ProductMonotonic, ProductNext, ProductType
  <2> DEFINE x == a * d
             y == b * d
             z == (a + 1) * d
  <2>3. z <= y /\ z = x + d /\ x \in Nat /\ y \in Nat
    BY <2>2
  <2> HIDE DEF x, y, z
  <2>4. x < y
    BY <2>3
  <2> QED BY <2>4 DEF x, y
<1>2. m * d \in Nat /\ n * d \in Nat
  BY ProductType
<1>3. m < n \/ n < m
  OBVIOUS
<1>4. CASE m < n
  <2>1. m * d < n * d
    BY <1>1, <1>4
  <2> QED BY <1>2, <2>1
<1>5. CASE n < m
  <2>1. n * d < m * d
    BY <1>1, <1>5
  <2> QED BY <1>2, <2>1
<1> QED BY <1>3, <1>4, <1>5

LEMMA GridApart ==
  ASSUME NEW policy \in Policies, NEW anchor_ \in Instants,
         NEW v, NEW w, v.k \in Nat, w.k \in Nat, v.k # w.k,
         OnGrid(policy, anchor_, v), OnGrid(policy, anchor_, w)
  PROVE  v.start # w.start
<1>1. policy.slide \in Nat \ {0} /\ anchor_ \in Nat
  BY PolicyType, InstantNat
<1> DEFINE x == v.k * policy.slide
           y == w.k * policy.slide
<1>2. x \in Nat /\ y \in Nat /\ x # y
  BY <1>1, ProductApart, ProductType
<1>3. v.start = anchor_ + x /\ w.start = anchor_ + y
  BY DEF OnGrid
<1> HIDE DEF x, y
<1> QED BY <1>1, <1>2, <1>3

\* Windows of a sliding policy with different starts fill different places.
LEMMA HoldsApart ==
  ASSUME NEW policy, policy.kind = "sliding", NEW key, NEW s, NEW t, s # t, NEW a, NEW b
  PROVE  Holds(policy, key, s, a) \cap Holds(policy, key, t, b) = {}
BY DEF Holds, Mark

LEMMA SlotsHoldMore ==
  ASSUME NEW policy, NEW key, NEW W, NEW w
  PROVE  SlotsHold(policy, key, W \cup {w})
           = SlotsHold(policy, key, W) \cup Holds(policy, key, w.start, w.items)
BY DEF SlotsHold

LEMMA SlotsHoldNone ==
  ASSUME NEW policy, NEW key
  PROVE  SlotsHold(policy, key, {}) = {}
BY DEF SlotsHold

\* Windows on the grid apart from a set of others fill other places.
LEMMA SlotsApart ==
  ASSUME NEW policy \in Policies, policy.kind = "sliding", NEW anchor_ \in Instants, NEW key,
         NEW I, NEW W, W \subseteq WindowsFrom(I, policy, anchor_, 0),
         NEW w, w.k \in Nat, OnGrid(policy, anchor_, w), NEW items, \A v \in W : v.k # w.k
  PROVE  Holds(policy, key, w.start, items) \cap SlotsHold(policy, key, W) = {}
<1> SUFFICES ASSUME NEW v \in W
             PROVE  Holds(policy, key, w.start, items) \cap Holds(policy, key, v.start, v.items) = {}
  BY DEF SlotsHold
<1>1. v.k \in Nat /\ OnGrid(policy, anchor_, v) /\ v.k # w.k
  BY DEF WindowsFrom, OpenWindows
<1>2. w.start # v.start
  BY <1>1, GridApart
<1> QED BY <1>2, HoldsApart

LEMMA SortedAppend ==
  ASSUME NEW S, NEW slots \in Seq(S), Sorted(slots), NEW slot, \A w \in ToSet(slots) : w.k < slot.k
  PROVE  Sorted(Append(slots, slot))
<1> DEFINE n == Len(slots)
           more == Append(slots, slot)
<1>1. /\ n \in Nat /\ DOMAIN slots = 1..n /\ DOMAIN more = 1..(n + 1)
      /\ more[n + 1] = slot /\ \A i \in 1..n : more[i] = slots[i]
  OBVIOUS
<1> HIDE DEF more, n
<1>2. ASSUME NEW i \in DOMAIN more, NEW j \in DOMAIN more, i < j PROVE more[i].k < more[j].k
  <2>1. i \in 1..n
    BY <1>1, <1>2
  <2>2. CASE j = n + 1
    <3>1. slots[i] \in ToSet(slots)
      BY <1>1, <2>1 DEF ToSet
    <3> QED BY <1>1, <2>1, <2>2, <3>1
  <2>3. CASE j # n + 1
    <3>1. j \in 1..n
      BY <1>1, <2>3
    <3> QED BY <1>1, <1>2, <2>1, <3>1 DEF Sorted
  <2> QED BY <2>2, <2>3
<1> QED BY <1>2 DEF Sorted, more

\* emit_slots_before has gone through the windows W.
EmittedOf(policy, key, first, A, W, p) ==
  /\ p.out.key = key
  /\ ~p.out.refused =>
       /\ p.out.ok /\ Sorted(p.slots) /\ ToSet(p.slots) = {w \in W : w.k >= first}
       /\ Account(policy, p.out.sent, A \cup SlotsHold(policy, key, {w \in W : w.k < first}))

LEMMA EmitSlotAccounts ==
  ASSUME NEW I \in SUBSET Nat, NEW policy \in Policies, policy.kind = "sliding",
         NEW anchor_ \in Instants, NEW key, NEW first \in Nat, NEW A,
         NEW W, W \subseteq WindowsFrom(I, policy, anchor_, 0),
         NEW slot \in WindowsFrom(I, policy, anchor_, 0), \A w \in W : w.k < slot.k,
         Rising(slot.items), Holds(policy, key, slot.start, slot.items) \cap A = {},
         NEW p \in Passes(I), EmittedOf(policy, key, first, A, W, p),
         NEW q, q = EmitSlot(p, slot, first)
  PROVE  EmittedOf(policy, key, first, A, W \cup {slot}, q)
<1> DEFINE o == EmitSome(p.out, slot.items, slot.start, Or(slot.end, slot.start))
           more == Append(p.slots, slot)
           W2 == W \cup {slot}
           kept == {w \in W : w.k >= first}
           gone == {w \in W : w.k < first}
           kept2 == {w \in W2 : w.k >= first}
           gone2 == {w \in W2 : w.k < first}
           C == Holds(policy, key, slot.start, slot.items)
           B == A \cup SlotsHold(policy, key, gone)
<1>1. p.slots \in Seq(OpenWindows(I)) /\ p.out \in Outlets
  BY DEF Passes
<1>2. slot.k \in Nat /\ OnGrid(policy, anchor_, slot) /\ \A w \in W : w.k \in Nat
  BY DEF WindowsFrom, OpenWindows
<1>3. q = IF slot.k >= first \/ ~p.out.ok THEN [p EXCEPT !.slots = more] ELSE [p EXCEPT !.out = o]
  BY DEF EmitSlot
<1>4. CASE ~p.out.refused /\ slot.k >= first
  <2>1. q.slots = more /\ q.out = p.out
    BY <1>3, <1>4 DEF Passes
  <2>2. /\ Sorted(p.slots) /\ ToSet(p.slots) = kept /\ p.out.ok /\ p.out.key = key
        /\ Account(policy, p.out.sent, B)
    BY <1>4 DEF EmittedOf
  <2>3. Sorted(more)
    BY <1>1, <2>2, SortedAppend
  <2>4. ToSet(more) = ToSet(p.slots) \cup {slot}
    BY <1>1, ToSetAppend
  <2>5. kept2 = kept \cup {slot} /\ gone2 = gone
    <3>1. ~(slot.k < first)
      BY <1>2, <1>4
    <3> QED BY <1>4, <3>1
  <2> HIDE DEF more, kept, gone, kept2, gone2
  <2>6. ToSet(more) = kept2
    BY <2>2, <2>4, <2>5
  <2>7. Account(policy, p.out.sent, A \cup SlotsHold(policy, key, gone2))
    BY <2>2, <2>5
  <2> QED BY <2>1, <2>2, <2>3, <2>6, <2>7 DEF EmittedOf, kept2, gone2
<1>5. CASE ~p.out.refused /\ ~(slot.k >= first)
  <2>1. /\ Sorted(p.slots) /\ ToSet(p.slots) = kept /\ p.out.ok /\ p.out.key = key
        /\ Account(policy, p.out.sent, B)
    BY <1>5 DEF EmittedOf
  <2>2. q.slots = p.slots /\ q.out = o
    BY <1>3, <1>5, <2>1 DEF Passes
  <2>3. kept2 = kept /\ gone2 = gone \cup {slot} /\ gone \subseteq W
    <3>1. slot.k < first
      BY <1>2, <1>5
    <3> QED BY <1>5, <3>1
  <2> HIDE DEF kept, gone, kept2, gone2
  <2>4. C \cap SlotsHold(policy, key, gone) = {}
    <3>1. \A v \in gone : v.k # slot.k
      BY <1>2, <2>3
    <3>2. gone \subseteq WindowsFrom(I, policy, anchor_, 0)
      BY <2>3
    <3> QED BY <1>2, <3>1, <3>2, SlotsApart
  <2>5. C \cap B = {}
    BY <2>4
  <2>6. Accounts(policy, p.out, B)
    BY <2>1 DEF Accounts
  <2>7. Accounts(policy, o, B \cup C) /\ o.key = key /\ (~o.refused => o.ok)
    <3> HIDE DEF B, o
    <3>1. Holds(policy, p.out.key, slot.start, slot.items) = C
      BY <2>1
    <3>2. o = EmitSome(p.out, slot.items, slot.start, Or(slot.end, slot.start))
      BY DEF o
    <3> HIDE DEF C
    <3>3. Holds(policy, p.out.key, slot.start, slot.items) \cap B = {}
      BY <2>5, <3>1
    <3>4. /\ Accounts(policy, o, B \cup Holds(policy, p.out.key, slot.start, slot.items))
          /\ o.key = p.out.key /\ (~o.refused => o.ok)
      <4>1. p.out \in Outlets
        BY <1>1
      <4> DEFINE po == p.out
                 items == slot.items
                 start == slot.start
                 end == Or(slot.end, slot.start)
      <4>2. /\ po \in Outlets /\ Rising(items) /\ Accounts(policy, po, B)
            /\ Holds(policy, po.key, start, items) \cap B = {} /\ o = EmitSome(po, items, start, end)
        BY <2>6, <3>2, <3>3, <4>1
      <4> HIDE DEF po, items, start, end
      <4>3. /\ Accounts(policy, o, B \cup Holds(policy, po.key, start, items))
            /\ o.key = po.key /\ (~o.refused => o.ok)
        BY <4>2, EmitSomeAccounts
      <4> QED BY <4>3 DEF po, items, start
    <3> QED BY <2>1, <3>1, <3>4
  <2>8. B \cup C = A \cup SlotsHold(policy, key, gone2)
    <3>1. SlotsHold(policy, key, gone2) = SlotsHold(policy, key, gone) \cup C
      <4>1. gone2 = gone \cup {slot}
        BY <2>3
      <4> HIDE DEF W2
      <4> QED BY <4>1, SlotsHoldMore
    <3> HIDE DEF C, W2
    <3> QED BY <3>1
  <2>9. ToSet(p.slots) = kept2
    BY <2>1, <2>3
  <2> HIDE DEF o, B, C
  <2>10. ~o.refused => Account(policy, o.sent, A \cup SlotsHold(policy, key, gone2))
    BY <2>7, <2>8 DEF Accounts
  <2> QED BY <2>1, <2>2, <2>7, <2>9, <2>10 DEF EmittedOf, kept2, gone2
<1>6. CASE p.out.refused
  <2>1. q.out = p.out \/ q.out = o
    BY <1>3 DEF Passes
  <2>2. o.refused /\ o.key = p.out.key
    <3>1. Accounts(policy, p.out, {}) /\ C \cap {} = {}
      BY <1>6 DEF Accounts
    <3> HIDE DEF C
    <3>2. o.refused
      BY <1>1, <1>6, EmitSomeEmits DEF Emitting
    <3>3. o.key = p.out.key
      BY <1>1 DEF EmitSome, Outlets
    <3> QED BY <3>2, <3>3
  <2>3. p.out.key = key
    BY DEF EmittedOf
  <2> QED BY <1>6, <2>1, <2>2, <2>3 DEF EmittedOf
<1> QED BY <1>4, <1>5, <1>6

LEMMA EmitSlotsBeforeAccounts ==
  ASSUME NEW I \in SUBSET Nat, NEW policy \in Policies, policy.kind = "sliding",
         NEW anchor_ \in Instants, NEW slots \in Seq(WindowsFrom(I, policy, anchor_, 0)),
         Sorted(slots), \A w \in ToSet(slots) : Rising(w.items), NEW first \in Nat,
         NEW out \in Outlets, NEW A, Accounts(policy, out, A),
         SlotsHold(policy, out.key, ToSet(slots)) \cap A = {},
         NEW r, r = EmitSlotsBefore(slots, first, out)
  PROVE  EmittedOf(policy, out.key, first, A, ToSet(slots), r)
<1> DEFINE k == Len(slots)
           G == WindowsFrom(I, policy, anchor_, 0)
           key == out.key
           W(n) == {slots[m] : m \in 1..n}
<1>1. k \in Nat /\ DOMAIN slots = 1..k /\ \A n \in 1..k : slots[n] \in G
  OBVIOUS
<1>2. slots \in Seq(OpenWindows(I))
  <2>1. G \subseteq OpenWindows(I)
    BY DEF WindowsFrom
  <2> HIDE DEF G
  <2> QED BY <2>1, SeqMonotonic DEF G
<1>3. PICK run \in [0..k -> Passes(I)] : EmitsSlots(run, slots, first, out)
  BY <1>2, EmitSlotsRun
<1>4. /\ run[0] = [slots |-> <<>>, out |-> [out EXCEPT !.ok = TRUE]]
      /\ \A n \in 1..k : run[n] = EmitSlot(run[n - 1], slots[n], first)
      /\ r = run[k]
  BY <1>3 DEF EmitsSlots
<1> HIDE DEF k, G
<1> DEFINE V == {n \in 0..k : EmittedOf(policy, key, first, A, W(n), run[n])}
<1>5. 0 \in V
  <2>1. 1..0 = {}
    OBVIOUS
  <2>2. W(0) = {}
    BY <2>1
  <2>3. /\ run[0].slots = <<>> /\ run[0].out.key = out.key /\ run[0].out.sent = out.sent
        /\ run[0].out.ok /\ run[0].out.refused = out.refused
    BY <1>4 DEF Outlets
  <2>4. {w \in W(0) : w.k >= first} = {} /\ {w \in W(0) : w.k < first} = {}
    BY <2>2
  <2>5. Sorted(<<>>) /\ ToSet(<<>>) = {}
    BY RisingEmpty DEF Sorted
  <2>6. A \cup SlotsHold(policy, key, {}) = A
    BY SlotsHoldNone
  <2>7. EmittedOf(policy, key, first, A, W(0), run[0])
    <3> HIDE DEF W
    <3> QED BY <2>3, <2>4, <2>5, <2>6 DEF EmittedOf, Accounts
  <2> QED BY <1>1, <2>7
<1>6. ASSUME NEW n \in 0..(k - 1), n \in V PROVE n + 1 \in V
  <2> DEFINE m == n + 1
             slot == slots[m]
  <2>1. m \in 1..k /\ m - 1 = n /\ n \in 0..k /\ m \in 0..k
    BY <1>1
  <2>0. k \in Nat /\ n \in Nat /\ n + 1 <= k
    BY <1>1
  <2>2. run[m] = EmitSlot(run[n], slot, first) /\ run[n] \in Passes(I)
    BY <1>3, <1>4, <2>1
  <2>3. W(n) \subseteq G /\ W(m) = W(n) \cup {slot}
    <3>1. \A j \in 1..n : j \in 1..k /\ j \in 1..m
      BY <2>0
    <3>2. \A j \in 1..m : j \in 1..n \/ j = m
      BY <2>1
    <3>3. m \in 1..m
      BY <2>1
    <3> HIDE DEF m
    <3> QED BY <1>1, <3>1, <3>2, <3>3
  <2>4. \A w \in W(n) : w.k < slot.k
    <3>1. \A j \in 1..n : j \in 1..k /\ j < m
      BY <2>0
    <3> HIDE DEF m
    <3> QED BY <1>1, <2>1, <3>1 DEF Sorted
  <2>5. slot \in G /\ slot \in ToSet(slots)
    BY <1>1, <2>1 DEF ToSet
  <2>6. EmittedOf(policy, key, first, A, W(n), run[n])
    BY <1>6
  <2>7. Holds(policy, key, slot.start, slot.items) \cap A = {}
    <3> HIDE DEF slot
    <3>1. Holds(policy, key, slot.start, slot.items) \subseteq SlotsHold(policy, key, ToSet(slots))
      BY <2>5 DEF SlotsHold
    <3> QED BY <3>1
  <2> HIDE DEF m, slot, W
  <2>8. EmittedOf(policy, key, first, A, W(m), run[m])
    <3> DEFINE U == W(n)
    <3>1. U \subseteq G /\ (\A w \in U : w.k < slot.k) /\ W(m) = U \cup {slot}
          /\ EmittedOf(policy, key, first, A, U, run[n])
      BY <2>3, <2>4, <2>6
    <3> HIDE DEF U
    <3>2. EmittedOf(policy, key, first, A, U \cup {slot}, run[m])
      BY <2>2, <2>5, <2>7, <3>1, EmitSlotAccounts DEF G
    <3> QED BY <3>1, <3>2
  <2> QED BY <2>1, <2>8 DEF m
<1>7. 0..k \subseteq V
  <2> HIDE DEF V
  <2> QED BY <1>1, <1>5, <1>6, Induction
<1>8. k \in 0..k
  BY <1>1
<1>9. EmittedOf(policy, key, first, A, W(k), r)
  BY <1>4, <1>7, <1>8
<1>10. W(k) = ToSet(slots)
  BY <1>1 DEF ToSet
<1> QED BY <1>9, <1>10

LEMMA SlidingHolds ==
  ASSUME NEW policy, NEW key, NEW core, core.items = <<>>
  PROVE  CoreHolds(policy, key, core) = SlotsHold(policy, key, ToSet(core.slots))
BY EmptyHolds DEF CoreHolds

\* Sets of windows with different indices fill different places.
LEMMA SlotsDisjoint ==
  ASSUME NEW policy \in Policies, policy.kind = "sliding", NEW anchor_ \in Instants, NEW key,
         NEW I, NEW W, W \subseteq WindowsFrom(I, policy, anchor_, 0),
         NEW V, V \subseteq WindowsFrom(I, policy, anchor_, 0), \A v \in V, w \in W : v.k # w.k
  PROVE  SlotsHold(policy, key, V) \cap SlotsHold(policy, key, W) = {}
<1> SUFFICES ASSUME NEW w \in W
             PROVE  Holds(policy, key, w.start, w.items) \cap SlotsHold(policy, key, V) = {}
  BY DEF SlotsHold
<1>1. w.k \in Nat /\ OnGrid(policy, anchor_, w)
  BY DEF WindowsFrom, OpenWindows
<1> QED BY <1>1, SlotsApart

LEMMA SlotsHoldUnion ==
  ASSUME NEW policy, NEW key, NEW V, NEW W
  PROVE  SlotsHold(policy, key, V \cup W) = SlotsHold(policy, key, V) \cup SlotsHold(policy, key, W)
BY DEF SlotsHold

LEMMA OnTickAccounts ==
  ASSUME NEW I \in SUBSET Nat, NEW policy \in Policies, NEW core \in Cores(I),
         NEW anchor_ \in Instants, NEW now_ \in Instants, Tidy(I, policy, anchor_, core),
         NEW out \in Outlets, NEW A, Accounts(policy, out, A),
         CoreHolds(policy, out.key, core) \cap A = {},
         NEW r, r = OnTick(policy, core, anchor_, now_, out)
  PROVE  Accounted(I, policy, anchor_, out.key, core, {}, A, r)
<1>1. CASE policy.kind = "sliding"
  <2> DEFINE first == FirstIndex(policy, anchor_, now_)
             old == EmitSlotsBefore(core.slots, first, out)
             next == [core EXCEPT !.slots = old.slots]
             G == WindowsFrom(I, policy, anchor_, 0)
             W == ToSet(core.slots)
             kept == {w \in W : w.k >= first}
             gone == {w \in W : w.k < first}
             all == CoreHolds(policy, out.key, core)
             held == CoreHolds(policy, out.key, next)
  <2>1. first \in Nat
    BY IndexTypes
  <2>2. /\ core.items = <<>> /\ core.slots \in Seq(G) /\ Sorted(core.slots)
        /\ GridCore(I, policy, anchor_, core)
        /\ \A w \in W : Rising(w.items)
    BY <1>1 DEF Tidy, GridCore
  <2>3. r = [core |-> next, out |-> old.out]
    BY <1>1 DEF OnTick
  <2> HIDE DEF first
  <2>4. all = SlotsHold(policy, out.key, W)
    BY <2>2, SlidingHolds
  <2>5. EmittedOf(policy, out.key, first, A, W, old)
    BY <1>1, <2>1, <2>2, <2>4, EmitSlotsBeforeAccounts
  <2> HIDE DEF old
  <2>6. next.slots = old.slots /\ next.items = <<>>
    BY <2>2 DEF Cores
  <2>7. r.core = next /\ r.out = old.out
    BY <2>3
  <2> HIDE DEF next
  <2>8. GridCore(I, policy, anchor_, next)
    BY <2>2, <2>7, OnTickSettles DEF Settled
  <2>9. ASSUME ~old.out.refused
        PROVE  /\ Tidy(I, policy, anchor_, next) /\ held \subseteq all \cup {}
               /\ Account(policy, old.out.sent, (A \cup (all \cup {})) \ held)
    <3>1. /\ Sorted(next.slots) /\ ToSet(next.slots) = kept
          /\ Account(policy, old.out.sent, A \cup SlotsHold(policy, out.key, gone))
      BY <2>5, <2>6, <2>9 DEF EmittedOf
    <3>2. Tidy(I, policy, anchor_, next)
      BY <1>1, <2>2, <2>6, <2>8, <3>1, RisingEmpty DEF Tidy
    <3>3. held = SlotsHold(policy, out.key, kept)
      BY <2>6, <3>1, SlidingHolds
    <3>4. W \subseteq G
      <4> HIDE DEF G
      <4> QED BY <2>2 DEF ToSet
    <3>5. \A w \in W : w.k \in Nat
      BY <3>4 DEF WindowsFrom, OpenWindows
    <3>6. W = gone \cup kept
      <4> HIDE DEF W
      <4> QED BY <2>1, <3>5
    <3>7. \A v \in gone, w \in kept : v.k # w.k
      <4> HIDE DEF W
      <4> QED BY <2>1, <3>5
    <3>8. gone \subseteq G /\ kept \subseteq G
      BY <3>4
    <3> DEFINE X == SlotsHold(policy, out.key, gone)
               Y == SlotsHold(policy, out.key, kept)
    <3> HIDE DEF gone, kept, G, W
    <3>9. X \cap Y = {}
      BY <1>1, <3>7, <3>8, SlotsDisjoint DEF G
    <3>10. all = X \cup Y
      BY <2>4, <3>6, SlotsHoldUnion
    <3> HIDE DEF X, Y, all
    <3>11. held = Y /\ Account(policy, old.out.sent, A \cup X) /\ all \cap A = {}
      BY <3>1, <3>3 DEF X, Y, all
    <3> HIDE DEF held
    <3>12. (A \cup (all \cup {})) \ held = A \cup X
      BY <3>9, <3>10, <3>11
    <3> QED BY <3>2, <3>10, <3>11, <3>12
  <2> HIDE DEF all, held
  <2> QED BY <2>7, <2>9 DEF Accounted, all, held
<1>2. CASE policy.kind # "sliding"
  <2>1. r = OnTickOne(policy, core, anchor_, now_, out)
    BY <1>2 DEF OnTick
  <2> QED BY <1>2, <2>1, OnTickOneAccounts
<1> QED BY <1>1, <1>2

\* An item has joined the windows with an index below k.  D are the places filled by those
\* windows, A those filled before.
Joined(I, policy, anchor_, key, k, A, D, p) ==
  /\ p.out.key = key
  /\ ~p.out.refused =>
       LET H == SlotsHold(policy, key, ToSet(p.slots))
       IN /\ Sorted(p.slots) /\ H \subseteq D /\ Account(policy, p.out.sent, (A \cup D) \ H)
          /\ \A w \in ToSet(p.slots) :
               w \in WindowsFrom(I, policy, anchor_, 0) /\ w.k < k /\ Rising(w.items)

LEMMA JoinSlotAccounts ==
  ASSUME NEW I \in SUBSET Nat, NEW policy \in Policies, policy.kind = "sliding",
         NEW anchor_ \in Instants, NEW now_ \in Instants, NEW maxItems, NEW item \in I,
         NEW key, NEW k \in Nat, NEW A, NEW D, NEW p \in Passes(I),
         Joined(I, policy, anchor_, key, k, A, D, p),
         NEW slot \in WindowsFrom(I, policy, anchor_, 0), slot.k = k, Rising(slot.items),
         \A i \in ToSet(slot.items) : i < item,
         NEW C, C = Holds(policy, key, slot.start, slot.items) \cup {<<key, item, slot.start>>},
         C \cap (A \cup D) = {}, NEW q, q = JoinSlot(p, maxItems, now_, item, slot)
  PROVE  Joined(I, policy, anchor_, key, k + 1, A, D \cup C, q)
<1> DEFINE items == Append(slot.items, item)
           kept == [slot EXCEPT !.items = items]
           emptied == [slot EXCEPT !.items = <<>>]
           start == slot.start
           end == Or(slot.end, now_)
           o == EmitSome(p.out, items, start, end)
           H == SlotsHold(policy, key, ToSet(p.slots))
           T == A \cup D
           G == WindowsFrom(I, policy, anchor_, 0)
<1>1. /\ slot \in OpenWindows(I) /\ slot.items \in Seq(I) /\ OnGrid(policy, anchor_, slot) /\ slot.k \in Nat
  BY DEF WindowsFrom, OpenWindows
<1>2. p.slots \in Seq(OpenWindows(I)) /\ p.out \in Outlets
  BY DEF Passes
<1>3. slot.items \in Seq(Nat)
  <2>1. Seq(I) \subseteq Seq(Nat)
    BY SeqMonotonic
  <2> QED BY <1>1, <2>1
<1>4. items \in Seq(I) /\ Rising(items) /\ Holds(policy, key, start, items) = C /\ <<>> \in Seq(I)
  <2>1. Mark(policy, start) = start
    BY DEF Mark
  <2> QED BY <1>1, <1>3, <2>1, RisingAppend, HoldsAppend
<1> HIDE DEF items
<1>5. /\ kept \in G /\ kept.items = items /\ kept.start = start /\ kept.k = k
  <2>1. /\ kept \in OpenWindows(I) /\ kept.k = slot.k /\ kept.start = slot.start
        /\ kept.end = slot.end /\ kept.items = items
    BY <1>1, <1>4 DEF OpenWindows
  <2> HIDE DEF kept
  <2> QED BY <1>1, <2>1 DEF WindowsFrom, OnGrid
<1>6. /\ emptied \in G /\ emptied.items = <<>> /\ emptied.start = start /\ emptied.k = k
  <2>1. /\ emptied \in OpenWindows(I) /\ emptied.k = slot.k /\ emptied.start = slot.start
        /\ emptied.end = slot.end /\ emptied.items = <<>>
    BY <1>1, <1>4 DEF OpenWindows
  <2> HIDE DEF emptied
  <2> QED BY <1>1, <2>1 DEF WindowsFrom, OnGrid
<1>7. q = IF Len(items) < maxItems THEN [p EXCEPT !.slots = Append(p.slots, kept)]
          ELSE [slots |-> Append(p.slots, emptied), out |-> o]
  BY DEF JoinSlot, items
<1> HIDE DEF kept, emptied, start, end
<1>8. p.out.key = key
  BY DEF Joined
\* What a window put behind the others makes of Joined.
<1>9. ASSUME ~p.out.refused, NEW w \in G, w.k = k, Rising(w.items), NEW more, more = Append(p.slots, w)
      PROVE  /\ Sorted(more)
             /\ SlotsHold(policy, key, ToSet(more)) = H \cup Holds(policy, key, w.start, w.items)
             /\ \A x \in ToSet(more) : x \in G /\ x.k < k + 1 /\ Rising(x.items)
  <2>1. Sorted(p.slots) /\ \A x \in ToSet(p.slots) : x \in G /\ x.k < k /\ Rising(x.items)
    BY <1>9 DEF Joined
  <2> HIDE DEF G
  <2>2. Sorted(more)
    BY <1>2, <1>9, <2>1, SortedAppend
  <2>3. ToSet(more) = ToSet(p.slots) \cup {w}
    BY <1>2, <1>9, ToSetAppend
  <2>4. \A x \in ToSet(p.slots) : x.k \in Nat
    BY <2>1 DEF G, WindowsFrom, OpenWindows
  <2>5. SlotsHold(policy, key, ToSet(more)) = H \cup Holds(policy, key, w.start, w.items)
    <3> DEFINE U == ToSet(p.slots)
    <3>1. ToSet(more) = U \cup {w} /\ H = SlotsHold(policy, key, U)
      BY <2>3
    <3> HIDE DEF U, H
    <3>2. SlotsHold(policy, key, U \cup {w})
            = SlotsHold(policy, key, U) \cup Holds(policy, key, w.start, w.items)
      BY SlotsHoldMore
    <3> QED BY <3>1, <3>2
  <2>6. \A x \in ToSet(more) : x \in G /\ x.k < k + 1 /\ Rising(x.items)
    BY <1>9, <2>1, <2>3, <2>4
  <2> QED BY <2>2, <2>5, <2>6
<1>10. ASSUME ~p.out.refused PROVE H \subseteq D /\ Account(policy, p.out.sent, T \ H)
  BY <1>10 DEF Joined
<1> HIDE DEF G
<1>11. CASE Len(items) < maxItems
  <2> DEFINE more == Append(p.slots, kept)
  <2>1. q.slots = more /\ q.out = p.out
    BY <1>7, <1>11 DEF Passes
  <2> DEFINE H2 == SlotsHold(policy, key, ToSet(more))
  <2>2. ASSUME ~p.out.refused
        PROVE  /\ Sorted(more) /\ H2 = H \cup C
               /\ \A x \in ToSet(more) : x \in G /\ x.k < k + 1 /\ Rising(x.items)
    BY <1>4, <1>5, <1>9, <2>2
  <2> HIDE DEF more, H, H2
  <2>3. ASSUME ~p.out.refused
        PROVE  H2 \subseteq D \cup C /\ Account(policy, p.out.sent, (A \cup (D \cup C)) \ H2)
    <3>1. (A \cup (D \cup C)) \ H2 = T \ H /\ H2 \subseteq D \cup C
      BY <1>10, <2>2, <2>3
    <3> QED BY <1>10, <2>3, <3>1
  <2> QED BY <1>8, <2>1, <2>2, <2>3 DEF Joined, H2, G
<1>12. CASE ~(Len(items) < maxItems)
  <2> DEFINE more == Append(p.slots, emptied)
  <2>1. q.slots = more /\ q.out = o
    BY <1>7, <1>12
  <2>2. o.key = key /\ (p.out.refused => o.refused)
    <3>1. p.out.refused => o.refused
      BY <1>2, EmitSomeEmits DEF Emitting
    <3>2. o.key = p.out.key
      BY <1>2 DEF EmitSome, Outlets
    <3> QED BY <1>8, <3>1, <3>2
  <2> DEFINE H2 == SlotsHold(policy, key, ToSet(more))
  <2>3. ASSUME ~p.out.refused
        PROVE  /\ Sorted(more) /\ H2 = H
               /\ \A x \in ToSet(more) : x \in G /\ x.k < k + 1 /\ Rising(x.items)
    <3>1. H \cup Holds(policy, key, emptied.start, emptied.items) = H
      BY <1>6, EmptyHolds
    <3> HIDE DEF H
    <3>2. Rising(emptied.items)
      BY <1>6, RisingEmpty
    <3> QED BY <1>6, <1>9, <2>3, <3>1, <3>2 DEF H
  <2>4. ASSUME ~p.out.refused PROVE Accounts(policy, o, (T \ H) \cup C)
    <3> DEFINE po == p.out
               B == T \ H
    <3>1. /\ po \in Outlets /\ Rising(items) /\ Accounts(policy, po, B)
          /\ Holds(policy, po.key, start, items) = C /\ C \cap B = {}
          /\ o = EmitSome(po, items, start, end)
      BY <1>2, <1>4, <1>8, <1>10, <2>4 DEF Accounts
    <3> HIDE DEF po, B, o
    <3>2. Holds(policy, po.key, start, items) \cap B = {}
      BY <3>1
    <3>3. Accounts(policy, o, B \cup Holds(policy, po.key, start, items))
      BY <3>1, <3>2, EmitSomeAccounts
    <3> QED BY <3>1, <3>3 DEF B
  <2> HIDE DEF more, H, H2, o
  <2>5. ASSUME ~o.refused
        PROVE  H2 \subseteq D \cup C /\ Account(policy, o.sent, (A \cup (D \cup C)) \ H2)
    <3>1. ~p.out.refused
      BY <2>2, <2>5
    <3>2. (A \cup (D \cup C)) \ H2 = (T \ H) \cup C /\ H2 \subseteq D \cup C
      BY <1>10, <2>3, <3>1
    <3> QED BY <2>4, <2>5, <3>1, <3>2 DEF Accounts
  <2> QED BY <2>1, <2>2, <2>3, <2>5 DEF Joined, H2, G
<1> QED BY <1>11, <1>12

-----------------------------------------------------------------------------
(* An item joins the windows that contain it, each once. *)

\* The slots with an index from k on are the last ones.
LEMMA LaterSlots ==
  ASSUME NEW I, NEW slots \in Seq(OpenWindows(I)), Sorted(slots), NEW k \in Nat,
         NEW L, L = SubSeq(slots, Below(slots, k) + 1, Len(slots))
  PROVE  Sorted(L) /\ ToSet(L) = {w \in ToSet(slots) : w.k >= k}
<1> DEFINE n == Len(slots)
           S == {i \in DOMAIN slots : slots[i].k < k}
           j == Below(slots, k)
<1>1. n \in Nat /\ DOMAIN slots = 1..n /\ \A i \in 1..n : slots[i] \in OpenWindows(I)
  OBVIOUS
<1>2. \A i \in 1..n : slots[i].k \in Nat
  BY <1>1 DEF OpenWindows
<1>3. \E c \in 0..n : S = 1..c
  <2> DEFINE D == {i \in 1..n : ~(slots[i].k < k)}
  <2>1. CASE D = {}
    <3>1. S = 1..n
      BY <1>1, <2>1
    <3> QED BY <1>1, <3>1
  <2>2. CASE D # {}
    <3>1. D \in SUBSET Nat
      OBVIOUS
    <3> HIDE DEF D
    <3>2. PICK d \in D : \A m \in D : d <= m
      BY <2>2, <3>1, LeastMember
    <3>3. d \in 1..n /\ ~(slots[d].k < k)
      BY <3>2 DEF D
    <3>4. \A i \in 1..n : i < d => slots[i].k < k
      BY <3>2, <3>3 DEF D
    <3>5. \A i \in 1..n : ~(i < d) => ~(slots[i].k < k)
      <4> TAKE i \in 1..n
      <4>1. i = d \/ d < i \/ i < d
        BY <3>3
      <4>2. d < i => slots[d].k < slots[i].k
        BY <1>1, <3>3 DEF Sorted
      <4> QED BY <1>2, <3>3, <4>1, <4>2
    <3>6. S = 1..(d - 1)
      BY <1>1, <3>3, <3>4, <3>5
    <3>7. d - 1 \in 0..n
      BY <1>1, <3>3
    <3> QED BY <3>6, <3>7
  <2> QED BY <2>1, <2>2
<1>4. PICK c \in 0..n : S = 1..c
  BY <1>3
<1>5. j = c
  <2>1. c \in Nat
    BY <1>1
  <2>2. Cardinality(1..c) = c
    BY <2>1, FS_Interval
  <2> QED BY <1>4, <2>2 DEF Below
<1>6. \A i \in 1..n : i <= c <=> slots[i].k < k
  BY <1>1, <1>4
<1>7. c \in Nat /\ c + 1 \in 1..(n + 1)
  BY <1>1
<1> HIDE DEF n, S, j
<1>8. L = SubSeq(slots, c + 1, n)
  BY <1>5 DEF j, n
<1>9. /\ Len(L) = n - c /\ DOMAIN L = 1..(n - c)
      /\ \A i \in 1..(n - c) : L[i] = slots[c + i]
  <2>1. \A i \in (c + 1)..n : slots[i] \in OpenWindows(I)
    BY <1>1, <1>7
  <2>2. n - (c + 1) + 1 = n - c /\ n - c \in Nat
    BY <1>1, <1>7
  <2>3. /\ L \in Seq(OpenWindows(I)) /\ Len(L) = IF c + 1 <= n THEN n - (c + 1) + 1 ELSE 0
        /\ \A i \in 1..(n - (c + 1) + 1) : L[i] = slots[(c + 1) + i - 1]
    <3>1. c + 1 \in Int /\ n \in Int
      BY <1>1, <1>7
    <3> DEFINE a == c + 1
    <3> HIDE DEF a
    <3>2. /\ SubSeq(slots, a, n) \in Seq(OpenWindows(I))
          /\ Len(SubSeq(slots, a, n)) = IF a <= n THEN n - a + 1 ELSE 0
          /\ \A i \in 1..(n - a + 1) : SubSeq(slots, a, n)[i] = slots[a + i - 1]
      <4>1. a \in Int /\ \A i \in a..n : slots[i] \in OpenWindows(I)
        BY <2>1, <3>1 DEF a
      <4> QED BY <3>1, <4>1, SubSeqProperties
    <3> QED BY <1>8, <3>2 DEF a
  <2>4. Len(L) = n - c
    BY <1>1, <1>7, <2>3
  <2>5. DOMAIN L = 1..Len(L)
    BY <2>3
  <2>6. \A i \in 1..(n - c) : L[i] = slots[c + i]
    <3> TAKE i \in 1..(n - c)
    <3>1. (c + 1) + i - 1 = c + i /\ i \in 1..(n - (c + 1) + 1)
      BY <1>1, <1>7
    <3>2. L[i] = slots[(c + 1) + i - 1]
      BY <2>3, <3>1
    <3> QED BY <3>1, <3>2
  <2> QED BY <2>4, <2>5, <2>6
<1>10. Sorted(L)
  <2> SUFFICES ASSUME NEW a \in 1..(n - c), NEW b \in 1..(n - c), a < b PROVE L[a].k < L[b].k
    BY <1>9 DEF Sorted
  <2>1. c + a \in 1..n /\ c + b \in 1..n /\ c + a < c + b
    BY <1>1, <1>7
  <2> QED BY <1>1, <1>9, <2>1 DEF Sorted
<1>11. ToSet(L) \subseteq {w \in ToSet(slots) : w.k >= k}
  <2> SUFFICES ASSUME NEW i \in 1..(n - c) PROVE L[i] \in ToSet(slots) /\ L[i].k >= k
    BY <1>9 DEF ToSet
  <2>1. c + i \in 1..n /\ ~(c + i <= c)
    BY <1>1, <1>7
  <2>2. ~(slots[c + i].k < k) /\ slots[c + i].k \in Nat
    BY <1>2, <1>6, <2>1 DEF n
  <2>3. slots[c + i].k >= k
    BY <2>2
  <2>4. slots[c + i] \in ToSet(slots)
    BY <1>1, <2>1 DEF ToSet
  <2>5. L[i] = slots[c + i]
    BY <1>9
  <2> QED BY <2>3, <2>4, <2>5
<1>12. {w \in ToSet(slots) : w.k >= k} \subseteq ToSet(L)
  <2> SUFFICES ASSUME NEW m \in 1..n, slots[m].k >= k PROVE slots[m] \in ToSet(L)
    BY <1>1 DEF ToSet
  <2>1. ~(slots[m].k < k)
    BY <1>2 DEF n
  <2>2. m - c \in 1..(n - c) /\ c + (m - c) = m
    BY <1>1, <1>6, <1>7, <2>1
  <2>3. L[m - c] = slots[m]
    BY <1>9, <2>2
  <2> QED BY <1>9, <2>2, <2>3 DEF ToSet
<1> QED BY <1>10, <1>11, <1>12

LEMMA ConcatSorted ==
  ASSUME NEW S, NEW a \in Seq(S), NEW b \in Seq(S), Sorted(a), Sorted(b),
         \A v \in ToSet(a), w \in ToSet(b) : v.k < w.k
  PROVE  Sorted(a \o b) /\ ToSet(a \o b) = ToSet(a) \cup ToSet(b)
<1> DEFINE m == Len(a)
           n == Len(b)
           s == a \o b
<1>1. /\ m \in Nat /\ n \in Nat /\ DOMAIN a = 1..m /\ DOMAIN b = 1..n /\ DOMAIN s = 1..(m + n)
      /\ \A i \in 1..m : s[i] = a[i]
      /\ \A i \in 1..n : s[m + i] = b[i]
  OBVIOUS
<1> HIDE DEF m, n, s
<1>2. \A i \in 1..(m + n) : i \in 1..m \/ (i - m \in 1..n /\ m + (i - m) = i /\ ~(i \in 1..m))
  BY <1>1
<1>3. \A i \in 1..n : m + i \in 1..(m + n)
  BY <1>1
<1>4. \A i \in 1..m : i \in 1..(m + n)
  BY <1>1
<1>5. ToSet(s) = ToSet(a) \cup ToSet(b)
  <2>1. /\ ToSet(s) = {s[i] : i \in 1..(m + n)} /\ ToSet(a) = {a[i] : i \in 1..m}
        /\ ToSet(b) = {b[i] : i \in 1..n}
    BY <1>1 DEF ToSet
  <2>2. \A i \in 1..(m + n) : s[i] \in ToSet(a) \cup ToSet(b)
    BY <1>1, <1>2, <2>1
  <2>3. \A i \in 1..m : a[i] \in ToSet(s)
    BY <1>1, <1>4, <2>1
  <2>4. \A i \in 1..n : b[i] \in ToSet(s)
    BY <1>1, <1>3, <2>1
  <2> QED BY <2>1, <2>2, <2>3, <2>4
<1>6. ASSUME NEW i \in 1..(m + n), NEW j \in 1..(m + n), i < j PROVE s[i].k < s[j].k
  <2>1. CASE i \in 1..m /\ j \in 1..m
    BY <1>1, <1>6, <2>1 DEF Sorted
  <2>2. CASE i \in 1..m /\ j \notin 1..m
    <3>1. a[i] \in ToSet(a) /\ s[i] = a[i]
      BY <1>1, <2>2 DEF ToSet
    <3>2. b[j - m] \in ToSet(b) /\ s[j] = b[j - m]
      <4>1. j - m \in 1..n /\ m + (j - m) = j
        BY <1>2, <2>2
      <4>2. s[m + (j - m)] = b[j - m]
        BY <1>1, <4>1
      <4> QED BY <1>1, <4>1, <4>2 DEF ToSet
    <3> QED BY <3>1, <3>2
  <2>3. CASE i \notin 1..m
    <3>1. j \notin 1..m
      BY <1>1, <1>6, <2>3
    <3>2. /\ i - m \in 1..n /\ j - m \in 1..n /\ m + (i - m) = i /\ m + (j - m) = j
      BY <1>2, <2>3, <3>1
    <3>3. i - m < j - m
      BY <1>1, <1>6
    <3>4. s[m + (i - m)] = b[i - m] /\ s[m + (j - m)] = b[j - m]
      BY <1>1, <3>2
    <3>5. b[i - m].k < b[j - m].k
      BY <1>1, <3>2, <3>3 DEF Sorted
    <3> QED BY <3>2, <3>4, <3>5
  <2> QED BY <2>1, <2>2, <2>3
<1> QED BY <1>1, <1>5, <1>6 DEF Sorted, s

\* The slots an item finds, and the one it finds at an index.
Ready(I, policy, anchor_, slots, item) ==
  /\ slots \in Seq(WindowsFrom(I, policy, anchor_, 0)) /\ Sorted(slots)
  /\ \A w \in ToSet(slots) : Rising(w.items) /\ \A i \in ToSet(w.items) : i < item
Found(I, policy, anchor_, key, slots, item, k, w) ==
  /\ w \in WindowsFrom(I, policy, anchor_, 0) /\ w.k = k
  /\ w.start = anchor_ + k * policy.slide
  /\ Rising(w.items) /\ \A i \in ToSet(w.items) : i < item
  /\ Holds(policy, key, w.start, w.items)
       = SlotsHold(policy, key, {v \in ToSet(slots) : v.k = k})

LEMMA SlotFound ==
  ASSUME NEW I \in SUBSET Nat, NEW policy \in Policies, policy.kind = "sliding",
         NEW anchor_ \in Instants, NEW now_ \in Instants, NEW slots, NEW item,
         Ready(I, policy, anchor_, slots, item),
         NEW k \in Nat, k <= LastIndex(policy, anchor_, now_), NEW key
  PROVE  Found(I, policy, anchor_, key, slots, item, k, SlotAt(policy, anchor_, now_, slots, k))
<1> DEFINE w == SlotAt(policy, anchor_, now_, slots, k)
           those == {v \in ToSet(slots) : v.k = k}
<1>1. /\ slots \in Seq(WindowsFrom(I, policy, anchor_, 0)) /\ Sorted(slots)
      /\ \A v \in ToSet(slots) : Rising(v.items) /\ \A i \in ToSet(v.items) : i < item
  BY DEF Ready
<1>2. w = SlotAt(policy, anchor_, now_, slots, k) /\ those = {v \in ToSet(slots) : v.k = k}
  OBVIOUS
<1> SUFFICES /\ w \in WindowsFrom(I, policy, anchor_, 0) /\ w.k = k
             /\ w.start = anchor_ + k * policy.slide
             /\ Rising(w.items) /\ \A i \in ToSet(w.items) : i < item
             /\ Holds(policy, key, w.start, w.items) = SlotsHold(policy, key, those)
  BY DEF Found
<1> HIDE DEF w, those
<1>3. w \in WindowsFrom(I, policy, anchor_, 0)
  <2>1. 0 \in Nat /\ 0 <= k
    OBVIOUS
  <2> QED BY <1>1, <1>2, <2>1, SlotAtOpen
<1>4. CASE \E v \in ToSet(slots) : v.k = k
  <2>1. w \in ToSet(slots) /\ w.k = k
    <3> DEFINE found == CHOOSE v \in ToSet(slots) : v.k = k
    <3>1. found \in ToSet(slots) /\ found.k = k
      BY <1>4
    <3>2. w = found
      BY <1>2, <1>4 DEF SlotAt
    <3> QED BY <3>1, <3>2
  <2>2. those = {w}
    <3>1. ASSUME NEW v \in ToSet(slots), v.k = k PROVE v = w
      <4>1. PICK i \in DOMAIN slots : v = slots[i]
        BY DEF ToSet
      <4>2. PICK j \in DOMAIN slots : w = slots[j]
        BY <2>1 DEF ToSet
      <4>3. DOMAIN slots = 1..Len(slots) /\ Len(slots) \in Nat
        BY <1>1
      <4>4. i = j
        <5>1. ~(i < j) /\ ~(j < i)
          BY <1>1, <1>2, <2>1, <3>1, <4>1, <4>2 DEF Sorted
        <5> QED BY <4>3, <5>1
      <4> QED BY <4>1, <4>2, <4>4
    <3> QED BY <1>2, <2>1, <3>1
  <2>3. SlotsHold(policy, key, {w}) = Holds(policy, key, w.start, w.items)
    BY DEF SlotsHold
  <2>4. w.start = anchor_ + k * policy.slide
    BY <1>3, <2>1 DEF WindowsFrom, OnGrid
  <2> QED BY <1>1, <1>3, <2>1, <2>2, <2>3, <2>4
<1>5. CASE ~ \E v \in ToSet(slots) : v.k = k
  <2>1. w.k = k /\ w.items = <<>>
    BY <1>2, <1>5 DEF SlotAt, Slot
  <2>2. those = {}
    BY <1>2, <1>5
  <2>3. Holds(policy, key, w.start, w.items) = {} /\ Rising(w.items) /\ ToSet(w.items) = {}
    BY <2>1, RisingEmpty, EmptyHolds
  <2>4. w.start = anchor_ + k * policy.slide
    BY <1>3, <2>1 DEF WindowsFrom, OnGrid
  <2>5. SlotsHold(policy, key, those) = {}
    BY <2>2, SlotsHoldNone
  <2> QED BY <1>3, <2>1, <2>3, <2>4, <2>5
<1> QED BY <1>4, <1>5

\* The places of an item in the windows from one index to another.
Joins(policy, anchor_, key, item, from, to) ==
  {<<key, item, anchor_ + j * policy.slide>> : j \in from..to}

LEMMA JoinsNext ==
  ASSUME NEW policy \in Policies, NEW anchor_ \in Instants, NEW key, NEW item,
         NEW from \in Nat, NEW k \in Nat, from <= k
  PROVE  /\ Joins(policy, anchor_, key, item, from, k)
              = Joins(policy, anchor_, key, item, from, k - 1)
                  \cup {<<key, item, anchor_ + k * policy.slide>>}
         /\ <<key, item, anchor_ + k * policy.slide>> \notin Joins(policy, anchor_, key, item, from, k - 1)
<1>1. from..k = from..(k - 1) \cup {k}
  OBVIOUS
<1>2. ASSUME NEW j \in from..(k - 1) PROVE anchor_ + j * policy.slide # anchor_ + k * policy.slide
  <2>1. j \in Nat /\ j # k /\ policy.slide \in Nat \ {0} /\ anchor_ \in Nat
    BY PolicyType, InstantNat
  <2> DEFINE x == j * policy.slide
             y == k * policy.slide
  <2>2. x \in Nat /\ y \in Nat /\ x # y
    BY <2>1, ProductApart, ProductType
  <2> HIDE DEF x, y
  <2>3. anchor_ + x # anchor_ + y
    BY <2>1, <2>2
  <2> QED BY <2>3 DEF x, y
<1>3. <<key, item, anchor_ + k * policy.slide>> \notin Joins(policy, anchor_, key, item, from, k - 1)
  BY <1>2 DEF Joins
<1>4. Joins(policy, anchor_, key, item, from, k)
        = Joins(policy, anchor_, key, item, from, k - 1) \cup {<<key, item, anchor_ + k * policy.slide>>}
  BY <1>1 DEF Joins
<1> QED BY <1>3, <1>4

LEMMA OnItemSlidingAccounts ==
  ASSUME NEW I \in SUBSET Nat, NEW policy \in Policies, policy.kind = "sliding",
         NEW core \in Cores(I), NEW maxItems, NEW anchor_ \in Instants, NEW now_ \in Instants,
         Tidy(I, policy, anchor_, core), NEW item \in I, Above(item, core),
         NEW out \in Outlets, NEW A, Accounts(policy, out, A),
         NEW new, new = Joins(policy, anchor_, out.key, item, FirstIndex(policy, anchor_, now_),
                              LastIndex(policy, anchor_, now_)),
         (CoreHolds(policy, out.key, core) \cup new) \cap A = {},
         new \cap CoreHolds(policy, out.key, core) = {},
         NEW r, r = OnItemSliding(policy, maxItems, core, anchor_, now_, item, out)
  PROVE  Accounted(I, policy, anchor_, out.key, core, new, A, r)
<1> DEFINE first == FirstIndex(policy, anchor_, now_)
           last == LastIndex(policy, anchor_, now_)
           key == out.key
           old == EmitSlotsBefore(core.slots, first, out)
           k == Joining(policy, anchor_, now_)
           later == Later(policy, core, anchor_, now_, out)
           G == WindowsFrom(I, policy, anchor_, 0)
           W == ToSet(core.slots)
           O == ToSet(old.slots)
           gone == {w \in W : w.k < first}
           X == SlotsHold(policy, key, gone)
           below(n) == {w \in O : w.k < n}
           Y(n) == SlotsHold(policy, key, below(n))
           N(n) == Joins(policy, anchor_, key, item, first, n - 1)
           B == A \cup X
           D(n) == Y(n) \cup N(n)
           all == CoreHolds(policy, key, core)
           at(n) == SlotAt(policy, anchor_, now_, old.slots, n)
<1> SUFFICES ASSUME ~r.out.refused
             PROVE  LET held == CoreHolds(policy, key, r.core)
                    IN /\ Tidy(I, policy, anchor_, r.core) /\ held \subseteq all \cup new
                       /\ Account(policy, r.out.sent, (A \cup (all \cup new)) \ held)
  BY DEF Accounted
<1>1. /\ first \in Nat /\ last \in Nat /\ k \in Nat /\ k = last - first + 1
  BY IndexTypes DEF Joining
<1>2. PICK run \in [0..k -> Passes(I)] :
        /\ JoinsSlots(run, policy, maxItems, core, anchor_, now_, item, out)
        /\ later \in Seq(OpenWindows(I))
  BY OnItemSlidingRun
<1>3. /\ run[0] = [old EXCEPT !.slots = Earlier(policy, core, anchor_, now_, out)]
      /\ \A n \in 1..k : run[n] = JoinSlot(run[n - 1], maxItems, now_, item, at(first + n - 1))
      /\ r = [core |-> [core EXCEPT !.slots = run[k].slots \o later], out |-> run[k].out]
  BY <1>2 DEF JoinsSlots
<1>4. /\ core.items = <<>> /\ core.slots \in Seq(G) /\ Sorted(core.slots) /\ \A w \in W : Rising(w.items)
      /\ GridCore(I, policy, anchor_, core)
      /\ \A w \in W : \A i \in ToSet(w.items) : i < item
  BY DEF Tidy, GridCore, Above
<1>5. all = SlotsHold(policy, key, W)
  BY <1>4, SlidingHolds
<1>6. new = Joins(policy, anchor_, key, item, first, last)
  OBVIOUS
<1>7. Settled(I, policy, anchor_, now_, out, r)
  BY <1>4, OnItemSlidingSettles
<1>8. Earlier(policy, core, anchor_, now_, out) = SubSeq(old.slots, 1, Below(old.slots, first))
  BY DEF Earlier
<1>9. later = SubSeq(old.slots, Below(old.slots, last + 1) + 1, Len(old.slots))
  BY DEF Later
<1> HIDE DEF first, last
<1>10. EmittedOf(policy, key, first, A, W, old)
  BY <1>1, <1>4, <1>5, EmitSlotsBeforeAccounts
<1>11. old \in Passes(I) /\ old.slots \in Seq(G)
  <2>1. /\ old \in Passes(I)
        /\ old.slots \in Seq(WindowsFrom(I, policy, anchor_, IF old.out.refused THEN 0 ELSE first))
    BY <1>1, <1>4, EmitSlotsLeaves
  <2>2. WindowsFrom(I, policy, anchor_, IF old.out.refused THEN 0 ELSE first) \subseteq G
    BY <1>1 DEF WindowsFrom, OpenWindows
  <2> HIDE DEF old, G
  <2> QED BY <2>1, <2>2, SeqMonotonic
<1> HIDE DEF old, k, later
<1>12. old.out \in Outlets /\ old.slots \in Seq(OpenWindows(I)) /\ Len(old.slots) \in Nat
  BY <1>11 DEF Passes
<1>13. ~old.out.refused
  <2> DEFINE V == {p \in Passes(I) : old.out.refused => p.out.refused}
  <2>1. run[0] \in V
    <3>1. 0 \in 0..k
      BY <1>1
    <3>2. run[0].out = old.out /\ run[0] \in Passes(I)
      BY <1>2, <1>3, <1>11, <3>1 DEF Passes
    <3> QED BY <3>2
  <2>2. ASSUME NEW n \in 1..k, run[n - 1] \in V PROVE run[n] \in V
    <3> DEFINE p == run[n - 1]
               w == at(first + n - 1)
               items == Append(w.items, item)
               o == EmitSome(p.out, items, w.start, Or(w.end, now_))
    <3>1. run[n] = JoinSlot(p, maxItems, now_, item, w) /\ n \in 0..k
      BY <1>1, <1>3
    <3>2. run[n] \in Passes(I) /\ p \in Passes(I) /\ (old.out.refused => p.out.refused)
      BY <1>2, <2>2, <3>1
    <3> HIDE DEF p, w
    <3>3. run[n].out = p.out \/ run[n].out = o
      BY <3>1, <3>2 DEF JoinSlot, Passes
    <3>4. p.out.refused => o.refused
      <4>1. p.out \in Outlets
        BY <3>2 DEF Passes
      <4> QED BY <4>1, EmitSomeEmits DEF Emitting
    <3> QED BY <3>2, <3>3, <3>4
  <2> HIDE DEF V
  <2>3. \A n \in 0..k : run[n] \in V
    BY <1>1, <2>1, <2>2, Invariance
  <2>4. run[k] \in V /\ r.out = run[k].out
    BY <1>1, <1>3, <2>3
  <2> QED BY <2>4 DEF V
<1>14. /\ Sorted(old.slots) /\ O = {w \in W : w.k >= first} /\ old.out.key = key
       /\ Account(policy, old.out.sent, A \cup X)
  BY <1>10, <1>13 DEF EmittedOf
<1>15. W \subseteq G /\ O \subseteq W /\ O \subseteq G /\ gone \subseteq G
  <2> HIDE DEF G, O
  <2>1. W \subseteq G
    BY <1>4 DEF ToSet
  <2> QED BY <1>14, <2>1
<1>16. \A w \in W : w.k \in Nat
  BY <1>15 DEF WindowsFrom, OpenWindows
<1>17. \A w \in O : w.k >= first /\ w.k \in Nat
  BY <1>14, <1>16
<1> HIDE DEF W, O
<1>18. W = gone \cup O
  <2>1. \A w \in W : w.k < first \/ w.k >= first
    BY <1>1, <1>16
  <2> QED BY <1>14, <2>1
<1>19. \A v \in gone : v.k \in Nat /\ v.k < first
  BY <1>15, <1>16
<1> HIDE DEF gone
<1>20. all = X \cup SlotsHold(policy, key, O)
  BY <1>5, <1>18, SlotsHoldUnion
<1>21. (all \cup new) \cap A = {} /\ new \cap all = {}
  OBVIOUS
<1> HIDE DEF all, key, G
<1>22. \A V \in SUBSET O : SlotsHold(policy, key, V) \subseteq all /\ SlotsHold(policy, key, V) \cap X = {}
  <2> TAKE V \in SUBSET O
  <2>1. SlotsHold(policy, key, V) \subseteq SlotsHold(policy, key, O)
    BY DEF SlotsHold
  <2>2. \A v \in gone, w \in V : v.k # w.k
    BY <1>1, <1>17, <1>19
  <2>3. V \subseteq WindowsFrom(I, policy, anchor_, 0) /\ gone \subseteq WindowsFrom(I, policy, anchor_, 0)
    BY <1>15 DEF G
  <2>4. X \cap SlotsHold(policy, key, V) = {}
    BY <2>2, <2>3, SlotsDisjoint
  <2> QED BY <1>20, <2>1, <2>4
<1>23. X \subseteq all
  BY <1>20
<1> HIDE DEF X
\* Before the first window is joined.
<1>24. Joined(I, policy, anchor_, key, first, B, D(first), run[0])
  <2>1. Below(old.slots, first) = 0
    <3>1. {i \in DOMAIN old.slots : old.slots[i].k < first} = {}
      <4> SUFFICES ASSUME NEW i \in DOMAIN old.slots PROVE ~(old.slots[i].k < first)
        OBVIOUS
      <4>1. old.slots[i] \in O
        BY DEF O, ToSet
      <4> QED BY <1>1, <1>17, <4>1
    <3>2. Cardinality({}) = 0
      BY FS_EmptySet
    <3> QED BY <3>1, <3>2 DEF Below
  <2>2. SubSeq(old.slots, 1, 0) = <<>>
    BY <1>12
  <2>3. run[0].slots = <<>> /\ run[0].out = old.out
    BY <1>3, <1>8, <1>11, <2>1, <2>2 DEF Passes
  <2>4. Sorted(<<>>) /\ ToSet(<<>>) = {}
    BY RisingEmpty DEF Sorted
  <2>5. SlotsHold(policy, key, {}) = {}
    BY SlotsHoldNone
  <2>6. B \cup D(first) = A \cup X /\ D(first) = {}
    <3>1. below(first) = {}
      BY <1>1, <1>17
    <3>2. first..(first - 1) = {}
      BY <1>1
    <3>3. N(first) = {}
      BY <3>2 DEF Joins
    <3> HIDE DEF N, below
    <3> QED BY <2>5, <3>1, <3>3
  <2> HIDE DEF D, B
  <2>7. (A \cup X) \ {} = A \cup X
    OBVIOUS
  <2> QED BY <1>14, <2>3, <2>4, <2>5, <2>6, <2>7 DEF Joined
\* It joins the next window.
<1>25. ASSUME NEW n \in Nat, first <= n, n <= last, NEW p \in Passes(I),
              Joined(I, policy, anchor_, key, n, B, D(n), p),
              NEW q, q = JoinSlot(p, maxItems, now_, item, at(n))
       PROVE  Joined(I, policy, anchor_, key, n + 1, B, D(n + 1), q)
  <2> DEFINE w == at(n)
             c == <<key, item, anchor_ + n * policy.slide>>
             same == {v \in O : v.k = n}
             Z == SlotsHold(policy, key, same)
             C == Holds(policy, key, w.start, w.items) \cup {<<key, item, w.start>>}
  <2>1. /\ w \in G /\ w.k = n /\ w.start = anchor_ + n * policy.slide
        /\ Rising(w.items) /\ \A i \in ToSet(w.items) : i < item
        /\ Holds(policy, key, w.start, w.items) = Z
    <3>1. \A v \in ToSet(old.slots) : Rising(v.items) /\ \A i \in ToSet(v.items) : i < item
      <4>1. \A v \in W : Rising(v.items) /\ \A i \in ToSet(v.items) : i < item
        BY <1>4 DEF W
      <4> QED BY <1>15, <4>1 DEF O
    <3> DEFINE sl == old.slots
    <3>2. /\ sl \in Seq(G) /\ Sorted(sl) /\ w = SlotAt(policy, anchor_, now_, sl, n)
          /\ same = {v \in ToSet(sl) : v.k = n}
          /\ \A v \in ToSet(sl) : Rising(v.items) /\ \A i \in ToSet(v.items) : i < item
      BY <1>11, <1>14, <3>1 DEF O
    <3>3. n \in Nat /\ n <= LastIndex(policy, anchor_, now_)
      BY <1>25 DEF last
    <3>4. Ready(I, policy, anchor_, sl, item)
      BY <3>2 DEF G, Ready
    <3>5. w = SlotAt(policy, anchor_, now_, sl, n) /\ same = {v \in ToSet(sl) : v.k = n}
      BY <3>2
    <3> HIDE DEF sl, w, same, c, Z, C, D, Y, N, B, at, below
    <3>6. Found(I, policy, anchor_, key, sl, item, n, SlotAt(policy, anchor_, now_, sl, n))
      BY <3>3, <3>4, SlotFound
    <3>7. Found(I, policy, anchor_, key, sl, item, n, w)
      BY <3>5, <3>6
    <3> QED BY <3>5, <3>7 DEF Found, G, Z
  <2>2. C = Z \cup {c}
    BY <2>1
  <2> HIDE DEF w
  <2>3. below(n + 1) = below(n) \cup same
    BY <1>17, <1>25
  <2>4. Y(n + 1) = Y(n) \cup Z
    <3> HIDE DEF below, same
    <3> QED BY <2>3, SlotsHoldUnion
  <2>5. N(n + 1) = N(n) \cup {c} /\ c \notin N(n)
    <3>1. (n + 1) - 1 = n
      BY <1>25
    <3>2. /\ Joins(policy, anchor_, key, item, first, n)
               = Joins(policy, anchor_, key, item, first, n - 1) \cup {c}
          /\ c \notin Joins(policy, anchor_, key, item, first, n - 1)
      <4>1. first \in Nat /\ first <= n /\ n \in Nat
        BY <1>1, <1>25
      <4> QED BY <4>1, JoinsNext
    <3> HIDE DEF c
    <3> QED BY <3>1, <3>2
  <2>6. N(n) \cup {c} \subseteq new
    <3>1. \A j \in first..(n - 1) : j \in first..last
      BY <1>1, <1>25
    <3>2. n \in first..last
      BY <1>1, <1>25
    <3> QED BY <1>6, <3>1, <3>2 DEF Joins, key, first, last
  <2>7. Z \cap Y(n) = {}
    <3>1. \A v \in same, x \in below(n) : v.k # x.k
      BY <1>17, <1>25
    <3>2. same \subseteq WindowsFrom(I, policy, anchor_, 0) /\ below(n) \subseteq WindowsFrom(I, policy, anchor_, 0)
      BY <1>15 DEF G
    <3> HIDE DEF below, same
    <3> QED BY <3>1, <3>2, SlotsDisjoint
  <2>8. Y(n) \subseteq all /\ Z \subseteq all /\ Z \cap X = {}
    <3>1. below(n) \in SUBSET O /\ same \in SUBSET O
      OBVIOUS
    <3> HIDE DEF below, same
    <3> QED BY <1>22, <3>1
  <2> DEFINE Yn == Y(n)
             Ym == Y(n + 1)
             Nn == N(n)
             Nm == N(n + 1)
  <2>10. Ym = Yn \cup Z /\ Nm = Nn \cup {c} /\ c \notin Nn /\ Nn \cup {c} \subseteq new
         /\ Z \cap Yn = {} /\ Yn \subseteq all /\ Z \subseteq all /\ Z \cap X = {}
    BY <2>4, <2>5, <2>6, <2>7, <2>8
  <2> DEFINE Dn == D(n)
             Dm == D(n + 1)
  <2>11. Dn = Yn \cup Nn /\ Dm = Ym \cup Nm
    OBVIOUS
  <2> HIDE DEF Dn, Dm, Yn, Ym, Nn, Nm, Z, c, C
  <2>12. C \cap (B \cup Dn) = {} /\ Dm = Dn \cup C
    BY <1>21, <1>23, <2>2, <2>10, <2>11
  <2>13. /\ Joined(I, policy, anchor_, key, n, B, Dn, p) /\ q = JoinSlot(p, maxItems, now_, item, w)
         /\ C = Holds(policy, key, w.start, w.items) \cup {<<key, item, w.start>>}
    BY <1>25 DEF Dn, w, C
  <2>14. Joined(I, policy, anchor_, key, n + 1, B, Dn \cup C, q)
    BY <1>25, <2>1, <2>12, <2>13, JoinSlotAccounts DEF G
  <2> QED BY <2>12, <2>14 DEF Dm
<1>26. Joined(I, policy, anchor_, key, last + 1, B, D(last + 1), run[k]) /\ run[k] \in Passes(I)
  <2> DEFINE V == {n \in 0..k : Joined(I, policy, anchor_, key, first + n, B, D(first + n), run[n])}
  <2>1. 0 \in V
    <3>1. first + 0 = first /\ 0 \in 0..k
      BY <1>1
    <3> HIDE DEF D
    <3> QED BY <1>24, <3>1
  <2>2. ASSUME NEW n \in 0..(k - 1), n \in V PROVE n + 1 \in V
    <3> DEFINE m == n + 1
               j == first + n
    <3>1. /\ m \in 1..k /\ m - 1 = n /\ n \in 0..k /\ m \in 0..k
          /\ j \in Nat /\ first <= j /\ j <= last /\ first + m = j + 1 /\ first + m - 1 = j
      BY <1>1
    <3>2. run[n] \in Passes(I) /\ run[m] = JoinSlot(run[n], maxItems, now_, item, at(j))
      BY <1>2, <1>3, <3>1
    <3>3. Joined(I, policy, anchor_, key, j, B, D(j), run[n])
      BY <2>2
    <3> HIDE DEF m, j, D, at
    <3>4. Joined(I, policy, anchor_, key, j + 1, B, D(j + 1), run[m])
      BY <1>25, <3>1, <3>2, <3>3
    <3>5. Joined(I, policy, anchor_, key, first + m, B, D(first + m), run[m])
      BY <3>1, <3>4
    <3> QED BY <3>1, <3>5 DEF m
  <2> HIDE DEF V
  <2>3. 0..k \subseteq V
    BY <1>1, <2>1, <2>2, Induction
  <2>4. k \in 0..k /\ first + k = last + 1
    BY <1>1
  <2> HIDE DEF D
  <2>5. Joined(I, policy, anchor_, key, first + k, B, D(first + k), run[k])
    BY <2>3, <2>4 DEF V
  <2> QED BY <1>2, <2>4, <2>5
<1> DEFINE p == run[k]
           slots == p.slots \o later
           next == [core EXCEPT !.slots = slots]
           U == ToSet(p.slots)
           L == {w \in O : w.k >= last + 1}
           H1 == SlotsHold(policy, key, U)
           H2 == SlotsHold(policy, key, L)
           Yl == Y(last + 1)
           Dl == D(last + 1)
           Tl == B \cup Dl
<1>27. r.core = next /\ r.out = p.out
  BY <1>3
<1>28. /\ Sorted(p.slots) /\ H1 \subseteq Dl /\ Account(policy, p.out.sent, Tl \ H1)
       /\ \A w \in U : w \in G /\ w.k < last + 1 /\ Rising(w.items)
       /\ p.slots \in Seq(OpenWindows(I))
  <2> HIDE DEF D
  <2>1. ~p.out.refused
    BY <1>27
  <2> QED BY <1>26, <2>1 DEF Joined, G, Passes
<1>29. Dl = Yl \cup new /\ Tl = B \cup Dl
  <2>1. (last + 1) - 1 = last
    BY <1>1
  <2>2. N(last + 1) = new
    BY <1>6, <2>1
  <2> HIDE DEF N, Y
  <2> QED BY <2>2
<1> HIDE DEF p, Tl, Dl
<1>30. Sorted(later) /\ ToSet(later) = L
  <2>1. last + 1 \in Nat
    BY <1>1
  <2> DEFINE sl == old.slots
             j == last + 1
  <2>2. /\ sl \in Seq(OpenWindows(I)) /\ Sorted(sl) /\ L = {w \in ToSet(sl) : w.k >= j}
        /\ j \in Nat /\ later = SubSeq(sl, Below(sl, j) + 1, Len(sl))
    BY <1>9, <1>12, <1>14, <2>1 DEF O
  <2> HIDE DEF sl, j, L
  <2> QED BY <2>2, LaterSlots
<1>31. Sorted(slots) /\ ToSet(slots) = U \cup L
  <2>1. \A v \in U, w \in L : v.k < w.k
    <3>1. \A v \in U : v.k \in Nat /\ v.k < last + 1
      BY <1>28 DEF G, WindowsFrom, OpenWindows
    <3> HIDE DEF U
    <3> QED BY <1>1, <1>17, <3>1
  <2>2. later \in Seq(OpenWindows(I))
    BY <1>2
  <2> HIDE DEF L
  <2> QED BY <1>28, <1>30, <2>1, <2>2, ConcatSorted
<1> HIDE DEF slots
<1>32. next.slots = slots /\ next.items = <<>>
  BY <1>4 DEF Cores
<1> HIDE DEF next
<1>33. Tidy(I, policy, anchor_, next)
  <2>1. GridCore(I, policy, anchor_, next)
    BY <1>7, <1>27 DEF Settled
  <2>2. \A w \in U \cup L : Rising(w.items)
    <3>1. \A w \in L : Rising(w.items)
      BY <1>4, <1>15 DEF W
    <3> QED BY <1>28, <3>1
  <2> HIDE DEF U, L
  <2> QED BY <1>31, <1>32, <2>1, <2>2, RisingEmpty DEF Tidy
<1>34. CoreHolds(policy, key, next) = H1 \cup H2
  <2> HIDE DEF U, L
  <2> QED BY <1>31, <1>32, SlidingHolds, SlotsHoldUnion
<1>35. /\ all = X \cup Yl \cup H2 /\ Yl \cap H2 = {} /\ H2 \subseteq all /\ H2 \cap X = {}
  <2> DEFINE Low == below(last + 1)
  <2>1. O = Low \cup L
    <3>1. \A w \in O : w.k < last + 1 \/ w.k >= last + 1
      BY <1>1, <1>17
    <3> QED BY <3>1
  <2>2. \A v \in Low, w \in L : v.k # w.k
    BY <1>1, <1>17
  <2>3. Low \subseteq WindowsFrom(I, policy, anchor_, 0) /\ L \subseteq WindowsFrom(I, policy, anchor_, 0)
    BY <1>15 DEF G
  <2>4. L \in SUBSET O /\ Yl = SlotsHold(policy, key, Low)
    OBVIOUS
  <2> HIDE DEF Low, L, Yl
  <2>5. Yl \cap H2 = {}
    BY <2>2, <2>3, <2>4, SlotsDisjoint
  <2>6. SlotsHold(policy, key, O) = Yl \cup H2
    BY <2>1, <2>4, SlotsHoldUnion
  <2>7. H2 \subseteq all /\ H2 \cap X = {}
    BY <1>22, <2>4
  <2> HIDE DEF H2
  <2> QED BY <1>20, <2>5, <2>6, <2>7
<1> DEFINE held == CoreHolds(policy, key, next)
<1> HIDE DEF Yl, H1, H2, held
<1>36. held = H1 \cup H2
  BY <1>34 DEF held
<1>37. H1 \subseteq Dl /\ Account(policy, p.out.sent, Tl \ H1)
  BY <1>28 DEF H1
<1>38. H2 \cap Tl = {} /\ A \cup (all \cup new) = Tl \cup H2
  BY <1>21, <1>29, <1>35
<1>39. (A \cup (all \cup new)) \ held = Tl \ H1 /\ held \subseteq all \cup new
  BY <1>29, <1>35, <1>36, <1>37, <1>38
<1> QED BY <1>27, <1>33, <1>37, <1>39 DEF held

-----------------------------------------------------------------------------
(* on_flush, and on_item of any policy. *)

\* What on_flush emits after some slots.
FlushedOf(policy, key, A, W, o) ==
  o.key = key /\ Accounts(policy, o, A \cup SlotsHold(policy, key, W))

LEMMA FlushSlotAccounts ==
  ASSUME NEW I \in SUBSET Nat, NEW policy \in Policies, policy.kind = "sliding",
         NEW anchor_ \in Instants, NEW key, NEW A,
         NEW W, W \subseteq WindowsFrom(I, policy, anchor_, 0),
         NEW slot \in WindowsFrom(I, policy, anchor_, 0), \A w \in W : w.k < slot.k,
         Rising(slot.items), Holds(policy, key, slot.start, slot.items) \cap A = {},
         NEW o \in Outlets, FlushedOf(policy, key, A, W, o), NEW end,
         NEW q, q = EmitSome(o, slot.items, slot.start, end)
  PROVE  FlushedOf(policy, key, A, W \cup {slot}, q)
<1> DEFINE C == Holds(policy, key, slot.start, slot.items)
           B == A \cup SlotsHold(policy, key, W)
<1>1. \A w \in W : w.k # slot.k
  BY DEF WindowsFrom, OpenWindows
<1>2. slot.k \in Nat /\ OnGrid(policy, anchor_, slot)
  BY DEF WindowsFrom, OpenWindows
<1>3. C \cap SlotsHold(policy, key, W) = {}
  BY <1>1, <1>2, SlotsApart
<1>4. C \cap B = {} /\ o.key = key /\ Accounts(policy, o, B)
  BY <1>3 DEF FlushedOf
<1>5. A \cup SlotsHold(policy, key, W \cup {slot}) = B \cup C
  BY SlotsHoldMore
<1> HIDE DEF B
<1>6. Holds(policy, o.key, slot.start, slot.items) = C
  BY <1>4
<1> DEFINE items == slot.items
           start == slot.start
<1>7. /\ Rising(items) /\ Holds(policy, o.key, start, items) \cap B = {}
      /\ q = EmitSome(o, items, start, end) /\ Accounts(policy, o, B)
  BY <1>4, <1>6
<1> HIDE DEF items, start, C
<1>8. Accounts(policy, q, B \cup Holds(policy, o.key, start, items)) /\ q.key = o.key
  BY <1>7, EmitSomeAccounts
<1> QED BY <1>4, <1>5, <1>6, <1>8 DEF FlushedOf, items, start

LEMMA OnFlushAccounts ==
  ASSUME NEW I \in SUBSET Nat, NEW policy \in Policies, NEW core \in Cores(I),
         NEW anchor_ \in Instants, NEW now_ \in Instants, Tidy(I, policy, anchor_, core),
         NEW out \in Outlets, NEW A, Accounts(policy, out, A),
         CoreHolds(policy, out.key, core) \cap A = {},
         NEW r, r = OnFlush(policy, core, now_, out)
  PROVE  r.core = EmptyCore /\ Accounts(policy, r.out, A \cup CoreHolds(policy, out.key, core))
<1> DEFINE slots == core.slots
           k == Len(slots)
           G == WindowsFrom(I, policy, anchor_, 0)
           key == out.key
           W(n) == {slots[m] : m \in 1..n}
           all == CoreHolds(policy, key, core)
<1>1. PICK run \in [0..k -> Outlets] : FlushesSlots(run, policy, core, now_, out)
  BY OnFlushRun
<1>2. /\ run[0] = out
      /\ \A n \in 1..k : run[n] = EmitSome(run[n - 1], slots[n].items, slots[n].start, Or(slots[n].end, now_))
      /\ r.core = EmptyCore
      /\ r.out = IF policy.kind = "sliding" THEN run[k] ELSE Close(policy, core, now_, out)
  BY <1>1 DEF FlushesSlots
<1>3. CASE policy.kind # "sliding"
  <2>1. core.slots = <<>> /\ Rising(core.items)
    BY <1>3 DEF Tidy
  <2>2. Accounts(policy, Close(policy, core, now_, out), A \cup CoreHolds(policy, out.key, core))
    BY <1>3, <2>1, CloseAccounts
  <2> QED BY <1>2, <1>3, <2>2
<1>4. CASE policy.kind = "sliding"
  <2>1. /\ core.items = <<>> /\ slots \in Seq(G) /\ Sorted(slots)
        /\ \A w \in ToSet(slots) : Rising(w.items)
    BY <1>4 DEF Tidy, GridCore
  <2>2. all = SlotsHold(policy, key, ToSet(slots))
    BY <2>1, SlidingHolds
  <2>3. all \cap A = {}
    OBVIOUS
  <2> HIDE DEF slots, all
  <2>4. k \in Nat /\ DOMAIN slots = 1..k /\ \A n \in 1..k : slots[n] \in G
    BY <2>1
  <2> HIDE DEF k, G
  <2> DEFINE V == {n \in 0..k : FlushedOf(policy, key, A, W(n), run[n])}
  <2>5. 0 \in V
    <3>1. 1..0 = {}
      OBVIOUS
    <3>2. W(0) = {}
      BY <3>1
    <3>3. A \cup SlotsHold(policy, key, {}) = A
      BY SlotsHoldNone
    <3>4. FlushedOf(policy, key, A, W(0), run[0])
      <4> HIDE DEF W
      <4> QED BY <1>2, <3>2, <3>3 DEF FlushedOf
    <3> QED BY <2>4, <3>4
  <2>6. ASSUME NEW n \in 0..(k - 1), n \in V PROVE n + 1 \in V
    <3> DEFINE m == n + 1
               slot == slots[m]
    <3>1. m \in 1..k /\ m - 1 = n /\ n \in 0..k /\ m \in 0..k
      BY <2>4
    <3>0. k \in Nat /\ n \in Nat /\ n + 1 <= k
      BY <2>4
    <3>2. run[m] = EmitSome(run[n], slot.items, slot.start, Or(slot.end, now_)) /\ run[n] \in Outlets
      BY <1>1, <1>2, <3>1
    <3>3. W(n) \subseteq G /\ W(m) = W(n) \cup {slot}
      <4>1. \A j \in 1..n : j \in 1..k /\ j \in 1..m
        BY <3>0
      <4>2. \A j \in 1..m : j \in 1..n \/ j = m
        BY <3>1
      <4>3. m \in 1..m
        BY <3>1
      <4> HIDE DEF m
      <4> QED BY <2>4, <4>1, <4>2, <4>3
    <3>4. \A w \in W(n) : w.k < slot.k
      <4>1. \A j \in 1..n : j \in 1..k /\ j < m
        BY <3>0
      <4> HIDE DEF m
      <4> QED BY <2>1, <2>4, <3>1, <4>1 DEF Sorted
    <3>5. slot \in G /\ slot \in ToSet(slots)
      BY <2>4, <3>1 DEF ToSet
    <3>6. FlushedOf(policy, key, A, W(n), run[n])
      BY <2>6
    <3>7. Holds(policy, key, slot.start, slot.items) \cap A = {} /\ Rising(slot.items)
      <4> HIDE DEF slot
      <4>1. Holds(policy, key, slot.start, slot.items) \subseteq SlotsHold(policy, key, ToSet(slots))
        BY <3>5 DEF SlotsHold
      <4> QED BY <2>1, <2>2, <2>3, <3>5, <4>1
    <3> DEFINE end == Or(slot.end, now_)
    <3> HIDE DEF m, slot, W, end
    <3>8. FlushedOf(policy, key, A, W(m), run[m])
      <4> DEFINE U == W(n)
                 o == run[n]
      <4>1. U \subseteq G /\ (\A w \in U : w.k < slot.k) /\ W(m) = U \cup {slot}
            /\ FlushedOf(policy, key, A, U, o) /\ o \in Outlets
            /\ run[m] = EmitSome(o, slot.items, slot.start, end)
        BY <3>2, <3>3, <3>4, <3>6 DEF end
      <4> HIDE DEF U, o, key
      <4>2. FlushedOf(policy, key, A, U \cup {slot}, run[m])
        BY <1>4, <3>5, <3>7, <4>1, FlushSlotAccounts DEF G
      <4> QED BY <4>1, <4>2
    <3> QED BY <3>1, <3>8 DEF m
  <2>7. 0..k \subseteq V
    <3> HIDE DEF V
    <3> QED BY <2>4, <2>5, <2>6, Induction
  <2>8. k \in 0..k
    BY <2>4
  <2>9. FlushedOf(policy, key, A, W(k), run[k])
    BY <2>7, <2>8
  <2>10. W(k) = ToSet(slots)
    BY <2>4 DEF ToSet
  <2> HIDE DEF W
  <2> QED BY <1>2, <1>4, <2>2, <2>9, <2>10 DEF FlushedOf, all
<1> QED BY <1>3, <1>4

\* The marks of the windows an item that arrives now is put in.
Marks(policy, anchor_, now_) ==
  IF policy.kind = "sliding"
  THEN {anchor_ + j * policy.slide : j \in FirstIndex(policy, anchor_, now_)..LastIndex(policy, anchor_, now_)}
  ELSE {0}
Places(policy, key, item, anchor_, now_) ==
  {<<key, item, m>> : m \in Marks(policy, anchor_, now_)}

LEMMA OnItemAccounts ==
  ASSUME NEW I \in SUBSET Nat, NEW policy \in Policies,
         NEW core \in Cores(I), NEW maxItems, NEW anchor_ \in Instants, NEW now_ \in Instants,
         Tidy(I, policy, anchor_, core), NEW item \in I, Above(item, core),
         NEW out \in Outlets, NEW A, Accounts(policy, out, A),
         NEW new, new = Places(policy, out.key, item, anchor_, now_),
         (CoreHolds(policy, out.key, core) \cup new) \cap A = {},
         new \cap CoreHolds(policy, out.key, core) = {},
         NEW r, r = OnItem(policy, maxItems, core, anchor_, now_, item, out)
  PROVE  Accounted(I, policy, anchor_, out.key, core, new, A, r)
<1>1. CASE policy.kind = "sliding"
  <2>1. new = Joins(policy, anchor_, out.key, item, FirstIndex(policy, anchor_, now_),
                    LastIndex(policy, anchor_, now_))
    BY <1>1 DEF Places, Marks, Joins
  <2>2. r = OnItemSliding(policy, maxItems, core, anchor_, now_, item, out)
    BY <1>1 DEF OnItem
  <2> QED BY <1>1, <2>1, <2>2, OnItemSlidingAccounts
<1>2. CASE policy.kind # "sliding"
  <2>1. new = {<<out.key, item, 0>>}
    BY <1>2 DEF Places, Marks
  <2>2. r = OnItemOne(policy, maxItems, core, anchor_, now_, item, out)
    BY <1>2 DEF OnItem
  <2> QED BY <1>2, <2>1, <2>2, OnItemOneAccounts
<1> QED BY <1>1, <1>2

-----------------------------------------------------------------------------
(* What the table holds. *)

SlotHolds(t, x) == CoreHolds(spec, t.slab[x].key, t.slab[x].core)
HeldBy(t, S) == UNION {SlotHolds(t, x) : x \in S}
AllHeld(t) == HeldBy(t, Used(t))

\* Of the places in T the open windows fill some, and those delivered the others.
AllAccounted(t, out, I, anc, T) ==
  ~out.refused =>
    /\ \A s \in Used(t) : Tidy(I, spec, anc, t.slab[s].core)
    /\ AllHeld(t) \subseteq T /\ Account(spec, out.sent, T \ AllHeld(t))

LEMMA HoldsOfKey ==
  ASSUME NEW policy, NEW key, NEW core, NEW c \in CoreHolds(policy, key, core)
  PROVE  c[1] = key
BY DEF CoreHolds, SlotsHold, Holds

\* The slots belong to different keys, so they hold different places.
LEMMA HeldApart ==
  ASSUME NEW t, NEW limit, SlotsOK(t, limit), NEW s \in Used(t), NEW S, S \subseteq Used(t) \ {s}
  PROVE  SlotHolds(t, s) \cap HeldBy(t, S) = {}
<1> SUFFICES ASSUME NEW x \in S, NEW c, c \in SlotHolds(t, s), c \in SlotHolds(t, x) PROVE FALSE
  BY DEF HeldBy
<1>1. c[1] = t.slab[s].key /\ c[1] = t.slab[x].key
  BY HoldsOfKey DEF SlotHolds
<1>2. x \in Used(t) /\ x # s
  OBVIOUS
<1>3. t.index[t.slab[s].key] = s /\ t.index[t.slab[x].key] = x
  BY <1>2 DEF SlotsOK
<1> QED BY <1>1, <1>2, <1>3

\* The slots of S have the same keys and cores.
SameHeld(t, t2, S) ==
  \A x \in S : t2.slab[x].key = t.slab[x].key /\ t2.slab[x].core = t.slab[x].core

LEMMA HeldBySame ==
  ASSUME NEW t, NEW t2, NEW S, SameHeld(t, t2, S)
  PROVE  HeldBy(t2, S) = HeldBy(t, S)
BY DEF SameHeld, HeldBy, SlotHolds

LEMMA HeldByUnion ==
  ASSUME NEW t, NEW S, NEW s
  PROVE  HeldBy(t, S \cup {s}) = HeldBy(t, S) \cup SlotHolds(t, s)
BY DEF HeldBy

LEMMA SameAccounted ==
  ASSUME NEW t, NEW t2, NEW out, NEW out2, NEW I, NEW anc, NEW T, AllAccounted(t, out, I, anc, T),
         Used(t2) = Used(t), SameHeld(t, t2, Used(t)),
         ~out2.refused => ~out.refused /\ out2.sent = out.sent
  PROVE  AllAccounted(t2, out2, I, anc, T)
<1>1. AllHeld(t2) = AllHeld(t)
  BY HeldBySame DEF AllHeld
<1> QED BY <1>1 DEF AllAccounted, SameHeld

\* Slot s has another core, or its key was removed with nothing open.
Swapped(t, t2, s, held, I, anc) ==
  /\ Used(t2) \ {s} = Used(t) \ {s} /\ SameHeld(t, t2, Used(t) \ {s})
  /\ IF s \in Used(t2) THEN SlotHolds(t2, s) = held /\ Tidy(I, spec, anc, t2.slab[s].core)
     ELSE held = {}

LEMMA SwapAccounts ==
  ASSUME NEW I, NEW anc, NEW limit, NEW t, SlotsOK(t, limit), NEW s \in Used(t), NEW out, NEW T,
         AllAccounted(t, out, I, anc, T), NEW new, new \cap T = {}, NEW r,
         Accounted(I, spec, anc, t.slab[s].key, t.slab[s].core, new, T \ AllHeld(t), r),
         ~r.out.refused => ~out.refused, NEW t2,
         ~r.out.refused => Swapped(t, t2, s, CoreHolds(spec, t.slab[s].key, r.core), I, anc)
  PROVE  AllAccounted(t2, r.out, I, anc, T \cup new)
<1> SUFFICES ASSUME ~r.out.refused
             PROVE  /\ \A x \in Used(t2) : Tidy(I, spec, anc, t2.slab[x].core)
                    /\ AllHeld(t2) \subseteq T \cup new
                    /\ Account(spec, r.out.sent, (T \cup new) \ AllHeld(t2))
  BY DEF AllAccounted
<1> DEFINE h == SlotHolds(t, s)
           held == CoreHolds(spec, t.slab[s].key, r.core)
           O == Used(t) \ {s}
           R == HeldBy(t, O)
           all == h \cup new
           A == T \ AllHeld(t)
<1>1. /\ \A x \in Used(t) : Tidy(I, spec, anc, t.slab[x].core)
      /\ AllHeld(t) \subseteq T
  BY DEF AllAccounted
<1>2. /\ held \subseteq all /\ Account(spec, r.out.sent, (A \cup all) \ held)
  BY DEF Accounted, SlotHolds
<1>3. /\ Used(t2) \ {s} = O /\ SameHeld(t, t2, O)
      /\ IF s \in Used(t2) THEN SlotHolds(t2, s) = held /\ Tidy(I, spec, anc, t2.slab[s].core)
         ELSE held = {}
  BY DEF Swapped
<1>4. Used(t) = O \cup {s}
  OBVIOUS
<1>5. AllHeld(t) = R \cup h
  BY <1>4, HeldByUnion DEF AllHeld
<1>6. h \cap R = {}
  BY HeldApart
<1> HIDE DEF h, held, R
<1>7. AllHeld(t2) = R \cup held
  <2>1. HeldBy(t2, O) = R
    BY <1>3, HeldBySame DEF R
  <2> HIDE DEF O
  <2>2. CASE s \in Used(t2)
    <3>1. Used(t2) = O \cup {s}
      BY <1>3, <2>2
    <3> QED BY <1>3, <2>1, <2>2, <3>1, HeldByUnion DEF AllHeld
  <2>3. CASE s \notin Used(t2)
    <3>1. Used(t2) = O
      BY <1>3, <2>3
    <3> QED BY <1>3, <2>1, <2>3, <3>1 DEF AllHeld
  <2> QED BY <2>2, <2>3
<1>8. \A x \in Used(t2) : Tidy(I, spec, anc, t2.slab[x].core)
  <2> TAKE x \in Used(t2)
  <2>1. CASE x = s
    BY <1>3, <2>1
  <2>2. CASE x # s
    <3>1. x \in O /\ t2.slab[x].core = t.slab[x].core
      BY <1>3, <2>2 DEF SameHeld
    <3> QED BY <1>1, <3>1
  <2> QED BY <2>1, <2>2
<1> DEFINE X == AllHeld(t)
           Y == AllHeld(t2)
<1>9. X = R \cup h /\ Y = R \cup held /\ X \subseteq T /\ A = T \ X
  BY <1>1, <1>5, <1>7
<1> HIDE DEF X, Y, A
<1>10. (A \cup all) \ held = (T \cup new) \ Y /\ Y \subseteq T \cup new
  BY <1>2, <1>6, <1>9
<1> QED BY <1>2, <1>8, <1>10 DEF Y

\* What is empty holds nothing.
LEMMA IsEmptyHolds ==
  ASSUME NEW I, NEW core \in Cores(I), IsEmpty(core), NEW policy, NEW key
  PROVE  CoreHolds(policy, key, core) = {}
<1>1. core.items = <<>> /\ \A i \in DOMAIN core.slots : core.slots[i].items = <<>>
  BY DEF IsEmpty
<1>2. \A w \in ToSet(core.slots) : Holds(policy, key, w.start, w.items) = {}
  BY <1>1, EmptyHolds DEF ToSet
<1>3. SlotsHold(policy, key, ToSet(core.slots)) = {}
  BY <1>2 DEF SlotsHold
<1> QED BY <1>1, <1>3, EmptyHolds DEF CoreHolds

LEMMA EmptyCoreHolds ==
  ASSUME NEW policy, NEW key, NEW I, NEW anc
  PROVE  CoreHolds(policy, key, EmptyCore) = {} /\ Tidy(I, policy, anc, EmptyCore)
<1>1. EmptyCore.items = <<>> /\ EmptyCore.slots = <<>>
  BY DEF EmptyCore
<1>2. ToSet(<<>>) = {} /\ Rising(<<>>)
  BY RisingEmpty
<1>3. CoreHolds(policy, key, EmptyCore) = {}
  BY <1>1, <1>2, EmptyHolds, SlotsHoldNone DEF CoreHolds
<1>4. GridCore(I, policy, anc, EmptyCore)
  BY <1>1 DEF GridCore
<1>5. Sorted(<<>>)
  BY DEF Sorted
<1> HIDE DEF EmptyCore
<1> QED BY <1>1, <1>2, <1>3, <1>4, <1>5 DEF Tidy

\* The tick of the key in a slot.
LEMMA TickAccounts ==
  ASSUME spec \in Policies, now \in Instants, NEW anc \in Instants,
         NEW I \in SUBSET Nat, NEW limit, NEW t \in Tables(I), SlotsOK(t, limit),
         NEW s \in Used(t), NEW out \in Outlets, out.key = t.slab[s].key, NEW T,
         AllAccounted(t, out, I, anc, T), GridCore(I, spec, anc, t.slab[s].core),
         NEW r, r = OnTick(spec, t.slab[s].core, anc, now, out)
  PROVE  /\ Accounted(I, spec, anc, t.slab[s].key, t.slab[s].core, {}, T \ AllHeld(t), r)
         /\ ~r.out.refused => ~out.refused
<1> DEFINE core == t.slab[s].core
           key == t.slab[s].key
           A == T \ AllHeld(t)
<1>1. core \in Cores(I)
  BY SlabDomain DEF Entries
<1>2. CoreHolds(spec, key, core) \subseteq AllHeld(t)
  BY DEF AllHeld, HeldBy, SlotHolds
<1>3. CoreHolds(spec, out.key, core) \cap A = {}
  BY <1>2
<1>4. Accounts(spec, out, A)
  BY DEF AllAccounted, Accounts
<1> HIDE DEF A
<1>5. ASSUME ~out.refused PROVE Accounted(I, spec, anc, key, core, {}, A, r)
  <2>1. Tidy(I, spec, anc, core)
    BY <1>5 DEF AllAccounted
  <2>2. r = OnTick(spec, core, anc, now, out) /\ out.key = key
    OBVIOUS
  <2> HIDE DEF core, key
  <2>3. Accounted(I, spec, anc, out.key, core, {}, A, r)
    BY <1>1, <1>3, <1>4, <2>1, <2>2, OnTickAccounts
  <2> QED BY <2>2, <2>3
<1>6. ASSUME out.refused PROVE r.out.refused
  <2>1. r = OnTick(spec, core, anc, now, out) /\ GridCore(I, spec, anc, core)
    OBVIOUS
  <2> HIDE DEF core
  <2>2. Settled(I, spec, anc, now, out, r)
    BY <1>1, <2>1, OnTickSettles
  <2> QED BY <1>6, <2>2 DEF Settled
<1>7. ASSUME out.refused PROVE Accounted(I, spec, anc, key, core, {}, A, r)
  BY <1>6, <1>7 DEF Accounted
<1> QED BY <1>5, <1>6, <1>7 DEF A

\* A state of a call whose places are accounted for.
Carried(acc, I, anc, T) ==
  /\ AllInTime(acc.table, I, anc, acc.out.refused)
  /\ AllAccounted(acc.table, acc.out, I, anc, T)

LEMMA ExpireOneAccounts ==
  ASSUME spec \in Policies, now \in Instants, NEW anc \in Instants,
         NEW I \in SUBSET Nat, NEW use, NEW limit \in Nat,
         NEW acc \in States(use, I, limit), acc.table.heap # {}, NEW T, Carried(acc, I, anc, T),
         NEW acc2, acc2 = ExpireOne(acc, anc)
  PROVE  Carried(acc2, I, anc, T)
<1> DEFINE t0 == acc.table
           top == Peek(t0)
           slot == top[3]
           popped == [t0 EXCEPT !.heap = t0.heap \ {top}]
           t == [popped EXCEPT !.slab[slot].scheduled = None]
           entry == t.slab[slot]
           due == Deadline(spec, entry.core)
           out == [acc.out EXCEPT !.key = entry.key]
           ticked == OnTick(spec, entry.core, anc, now, out)
           after == [t EXCEPT !.slab[slot].core = ticked.core]
           next == IF IsEmpty(ticked.core) THEN RemoveKey(after, slot) ELSE Schedule(after, slot)
<1>0. AllInTime(acc2.table, I, anc, acc2.out.refused)
  BY ExpireOneLess DEF Carried, OneLess
<1> SUFFICES AllAccounted(acc2.table, acc2.out, I, anc, T)
  BY <1>0 DEF Carried
<1>1. t0 \in Tables(I) /\ Sound(t0, use, I, limit) /\ acc.out \in Outlets
      /\ AllAccounted(t0, acc.out, I, anc, T) /\ AllInTime(t0, I, anc, acc.out.refused)
  BY DEF States, Carried
<1>2. acc2
        = IF ~Live(popped, top) THEN [acc EXCEPT !.table = popped]
          ELSE IF due > now THEN [acc EXCEPT !.table = Schedule(t, slot)]
          ELSE [out |-> ticked.out, table |-> next]
  BY DEF ExpireOne
<1>3. top \in t0.heap
  <2>1. \A a, b \in t0.heap : a[2] = b[2] => a = b
    BY <1>1 DEF Sound, HeapOK
  <2> HIDE DEF t0
  <2> QED BY <1>1, <2>1, PeekProperties DEF t0
<1>4. popped.slab = t0.slab /\ (Live(popped, top) <=> Live(t0, top))
  <2>1. popped.slab = t0.slab
    BY <1>1 DEF Tables
  <2> HIDE DEF popped, top, t0
  <2> QED BY <2>1 DEF Live, Occupied
<1> HIDE DEF top
<1>5. CASE ~Live(t0, top)
  <2>1. acc2 = [acc EXCEPT !.table = popped]
    BY <1>2, <1>4, <1>5
  <2>2. acc2.table = popped /\ acc2.out = acc.out
    BY <2>1 DEF States
  <2> HIDE DEF popped, t0
  <2>3. Used(popped) = Used(t0) /\ SameHeld(t0, popped, Used(t0))
    BY <1>4 DEF Used, SameHeld
  <2> QED BY <1>1, <2>2, <2>3, SameAccounted
<1>6. CASE Live(t0, top)
  <2>1. Sound(t, use, I, limit) /\ Rescheduled(t0, t)
    <3>1. t = [[t0 EXCEPT !.heap = t0.heap \ {top}] EXCEPT !.slab[top[3]].scheduled = None]
      OBVIOUS
    <3> HIDE DEF t, t0
    <3> QED BY <1>1, <1>3, <1>6, <3>1, UnscheduledSound
  <2>2. slot \in Used(t0)
    BY <1>6 DEF Live, Occupied, Used
  <2>3. acc2 = IF due > now THEN [acc EXCEPT !.table = Schedule(t, slot)]
               ELSE [out |-> ticked.out, table |-> next]
    BY <1>2, <1>4, <1>6
  <2> HIDE DEF t, t0, popped, slot
  <2>4. Used(t) = Used(t0) /\ SameHeld(t0, t, Used(t0))
    BY <2>1 DEF Rescheduled, Alike, SameKeys, SameHeld
  <2>5. slot \in Used(t) /\ t \in Tables(I) /\ SlotsOK(t, limit) /\ entry \in Entries(I)
    BY <2>1, <2>2, <2>4, SlabDomain DEF Sound
  <2>6. CASE due > now
    <3> DEFINE t2 == Schedule(t, slot)
    <3>1. Rescheduled(t, t2)
      BY <2>1, <2>5, ScheduleSound
    <3>2. acc2 = [acc EXCEPT !.table = t2]
      BY <2>3, <2>6
    <3> HIDE DEF t2
    <3>3. acc2.table = t2 /\ acc2.out = acc.out
      BY <3>2 DEF States
    <3>4. Used(t2) = Used(t0) /\ SameHeld(t0, t2, Used(t0))
      BY <2>4, <3>1 DEF Rescheduled, Alike, SameKeys, SameHeld
    <3> QED BY <1>1, <3>3, <3>4, SameAccounted
  <2>7. CASE ~(due > now)
    <3>1. entry.core \in Cores(I) /\ entry.key \in Keys
      BY <2>5 DEF Entries
    <3>2. out \in Outlets /\ out.refused = acc.out.refused /\ out.sent = acc.out.sent /\ out.key = entry.key
      BY <1>1, <3>1 DEF Outlets
    <3>3. GridCore(I, spec, anc, entry.core)
      BY <1>1, <2>2, <2>4 DEF AllInTime, SlotInTime, SameHeld
    <3>4. AllAccounted(t, out, I, anc, T)
      <4> HIDE DEF out, entry
      <4> QED BY <1>1, <2>4, <3>2, SameAccounted
    <3>5. ticked = OnTick(spec, t.slab[slot].core, anc, now, out) /\ out.key = t.slab[slot].key
      BY <3>2
    <3> HIDE DEF out, ticked
    <3>6. /\ Accounted(I, spec, anc, entry.key, entry.core, {}, T \ AllHeld(t), ticked)
          /\ ~ticked.out.refused => ~out.refused
      <4>1. /\ t \in Tables(I) /\ SlotsOK(t, limit) /\ slot \in Used(t) /\ out \in Outlets
            /\ GridCore(I, spec, anc, t.slab[slot].core)
        BY <2>5, <3>2, <3>3
      <4> HIDE DEF entry, due, after, next
      <4>2. /\ Accounted(I, spec, anc, t.slab[slot].key, t.slab[slot].core, {}, T \ AllHeld(t), ticked)
            /\ ~ticked.out.refused => ~out.refused
        <5>1. /\ t \in Tables(I) /\ SlotsOK(t, limit) /\ slot \in Used(t) /\ out \in Outlets
              /\ out.key = t.slab[slot].key /\ AllAccounted(t, out, I, anc, T)
              /\ GridCore(I, spec, anc, t.slab[slot].core)
              /\ ticked = OnTick(spec, t.slab[slot].core, anc, now, out)
          BY <3>4, <3>5, <4>1
        <5> QED BY <5>1, TickAccounts, SMTT(60)
      <4> QED BY <4>2 DEF entry
    <3>7. ticked.core \in Cores(I)
      <4>1. ticked \in Results(I)
        <5> HIDE DEF entry
        <5> QED BY <3>1, <3>2, OnTickType DEF ticked
      <4> QED BY <4>1 DEF Results
    <3> HIDE DEF due
    <3>8. CoreAssigned(t, after, slot, ticked.core)
      BY DEF CoreAssigned
    <3> HIDE DEF after
    <3>9. /\ Sound(after, use, I, limit) /\ Used(after) = Used(t) /\ SameKeys(t, after)
          /\ after.slab[slot].core = ticked.core /\ SameCores(t, after, slot)
      <4> DEFINE core == ticked.core
      <4>1. core \in Cores(I) /\ CoreAssigned(t, after, slot, core)
        BY <3>7, <3>8
      <4> HIDE DEF core, entry
      <4>2. /\ Sound(after, use, I, limit) /\ Used(after) = Used(t) /\ SameKeys(t, after)
            /\ after.slab[slot].core = core /\ SameCores(t, after, slot)
        BY <2>1, <2>5, <4>1, CoreSet
      <4> QED BY <4>2 DEF core
    <3>10. acc2.table = next /\ acc2.out = ticked.out
      BY <2>3, <2>7 DEF due
    <3> DEFINE held == CoreHolds(spec, entry.key, ticked.core)
    <3>11. slot \in Used(after) /\ SameHeld(t, after, Used(t) \ {slot}) /\ after.slab[slot].key = entry.key
      BY <2>5, <3>9 DEF SameKeys, SameCores, SameHeld
    <3>12. ASSUME ~ticked.out.refused PROVE Swapped(t, next, slot, held, I, anc)
      <4>1. Tidy(I, spec, anc, ticked.core)
        BY <3>6, <3>12 DEF Accounted
      <4>2. CASE IsEmpty(ticked.core)
        <5> DEFINE t2 == RemoveKey(after, slot)
        <5>1. Removed(after, t2, slot) /\ next = t2
          BY <3>9, <3>11, <4>2, RemoveKeySound
        <5> HIDE DEF t2, next
        <5>2. Used(t2) = Used(t) \ {slot} /\ SameHeld(t, t2, Used(t) \ {slot})
          BY <3>9, <3>11, <5>1 DEF Removed, SameEntries, SameHeld
        <5>3. held = {}
          <6> DEFINE core == ticked.core
          <6>1. core \in Cores(I) /\ IsEmpty(core)
            BY <3>7, <4>2
          <6> HIDE DEF core
          <6> QED BY <6>1, IsEmptyHolds DEF core
        <5> QED BY <5>1, <5>2, <5>3 DEF Swapped
      <4>3. CASE ~IsEmpty(ticked.core)
        <5> DEFINE t2 == Schedule(after, slot)
        <5>1. next = t2
          BY <4>3
        <5> HIDE DEF next
        <5>2. Rescheduled(after, t2)
          BY <3>9, <3>11, ScheduleSound
        <5> HIDE DEF t2
        <5>3. /\ Used(t2) = Used(t) /\ SameHeld(t, t2, Used(t) \ {slot})
              /\ t2.slab[slot].key = entry.key /\ t2.slab[slot].core = ticked.core
          <6> HIDE DEF entry
          <6> QED BY <3>9, <3>11, <5>2 DEF Rescheduled, Alike, SameKeys, SameHeld
        <5>4. SlotHolds(t2, slot) = held
          BY <5>3 DEF SlotHolds
        <5> QED BY <2>5, <4>1, <5>1, <5>3, <5>4 DEF Swapped
      <4> QED BY <4>2, <4>3
    <3> HIDE DEF next
    <3>13. AllAccounted(next, ticked.out, I, anc, T \cup {})
      BY <2>5, <3>4, <3>6, <3>12, SwapAccounts
    <3>14. T \cup {} = T
      OBVIOUS
    <3> QED BY <3>10, <3>13, <3>14
  <2> QED BY <2>6, <2>7
<1> QED BY <1>5, <1>6

LEMMA RoundAccounts ==
  ASSUME spec \in Policies, now \in Instants, NEW anc \in Instants,
         NEW I \in SUBSET Nat, NEW use, NEW limit \in Nat,
         NEW acc \in States(use, I, limit), NEW T, Carried(acc, I, anc, T),
         NEW acc2, acc2 = Round(acc, anc)
  PROVE  Carried(acc2, I, anc, T)
<1>1. CASE acc2 = ExpireOne(acc, anc) /\ acc.table.heap # {}
  BY <1>1, ExpireOneAccounts
<1>2. CASE acc2 = acc
  BY <1>2
<1> QED BY <1>1, <1>2 DEF Round

LEMMA ExpireAccounts ==
  ASSUME spec \in Policies, now \in Instants, NEW anc \in Instants,
         NEW I \in SUBSET Nat, NEW use, NEW limit \in Nat,
         NEW t, Sound(t, use, I, limit), NEW outlet \in Outlets,
         AllInTime(t, I, anc, outlet.refused), NEW T, AllAccounted(t, outlet, I, anc, T),
         NEW e, e = Expire(t, anc, outlet)
  PROVE  AllAccounted(e.table, e.out, I, anc, T)
<1> DEFINE k == Cardinality(t.heap)
           S == States(use, I, limit)
<1>1. PICK run \in [0..k -> S] : Expires(run, t, anc, outlet)
  BY ExpireRun
<1>2. /\ k \in Nat /\ run[0] = [table |-> t, out |-> outlet] /\ e = run[k]
      /\ \A n \in 1..k : run[n] = Round(run[n - 1], anc)
  BY <1>1 DEF Expires
<1> HIDE DEF k, S
<1> DEFINE V == {n \in 0..k : Carried(run[n], I, anc, T)}
<1>3. 0 \in V
  <2>1. run[0].table = t /\ run[0].out = outlet
    BY <1>2
  <2>2. Carried(run[0], I, anc, T)
    BY <2>1 DEF Carried
  <2> QED BY <1>2, <2>2
<1>4. ASSUME NEW n \in 0..(k - 1), n \in V PROVE n + 1 \in V
  <2> DEFINE m == n + 1
  <2>1. m \in 1..k /\ m - 1 = n /\ n \in 0..k /\ m \in 0..k
    BY <1>2
  <2>2. run[n] \in S /\ run[m] = Round(run[n], anc) /\ Carried(run[n], I, anc, T)
    BY <1>1, <1>2, <1>4, <2>1
  <2> HIDE DEF m
  <2>3. Carried(run[m], I, anc, T)
    BY <2>2, RoundAccounts DEF S
  <2> QED BY <2>1, <2>3 DEF m
<1>5. 0..k \subseteq V
  <2> HIDE DEF V
  <2> QED BY <1>2, <1>3, <1>4, Induction
<1>6. Carried(e, I, anc, T)
  BY <1>2, <1>5
<1> QED BY <1>6 DEF Carried

LEMMA TidyMore ==
  ASSUME NEW I, NEW J, I \subseteq J, NEW policy, NEW anc, NEW core, Tidy(I, policy, anc, core)
  PROVE  Tidy(J, policy, anc, core)
BY GridCoreMore DEF Tidy

\* The flush of the key in a slot.
LEMMA FlushAccounts ==
  ASSUME spec \in Policies, now \in Instants, NEW anc \in Instants,
         NEW I \in SUBSET Nat, NEW t \in Tables(I), NEW s \in Used(t),
         NEW out \in Outlets, out.key = t.slab[s].key, NEW A, Accounts(spec, out, A),
         ~out.refused => Tidy(I, spec, anc, t.slab[s].core), SlotHolds(t, s) \cap A = {},
         NEW r, r = OnFlush(spec, t.slab[s].core, now, out)
  PROVE  /\ Accounts(spec, r.out, A \cup SlotHolds(t, s)) /\ r.core = EmptyCore
         /\ ~r.out.refused => ~out.refused
<1> DEFINE core == t.slab[s].core
           key == t.slab[s].key
<1>1. core \in Cores(I)
  BY SlabDomain DEF Entries
<1>2. /\ SlotHolds(t, s) = CoreHolds(spec, out.key, core) /\ r = OnFlush(spec, core, now, out)
      /\ CoreHolds(spec, out.key, core) \cap A = {}
  BY DEF SlotHolds
<1>3. r.core = EmptyCore
  <2>1. PICK run \in [0..Len(core.slots) -> Outlets] : FlushesSlots(run, spec, core, now, out)
    <3> HIDE DEF core
    <3> QED BY <1>1, OnFlushRun
  <2> QED BY <2>1 DEF FlushesSlots
<1>4. ASSUME ~out.refused PROVE Accounts(spec, r.out, A \cup CoreHolds(spec, out.key, core))
  <2>1. Tidy(I, spec, anc, core)
    BY <1>4
  <2> HIDE DEF core
  <2> QED BY <1>1, <1>2, <2>1, OnFlushAccounts
<1>5. ASSUME out.refused PROVE r.out.refused
  <2> HIDE DEF core
  <2> QED BY <1>1, <1>2, <1>5, OnFlushRefuses
<1>6. ASSUME out.refused PROVE Accounts(spec, r.out, A \cup CoreHolds(spec, out.key, core))
  BY <1>5, <1>6 DEF Accounts
<1> HIDE DEF core
<1> QED BY <1>2, <1>3, <1>4, <1>5, <1>6

LEMMA EvictedAccounts ==
  ASSUME spec \in Policies, now \in Instants, NEW anc \in Instants,
         NEW I \in SUBSET Nat, NEW use, NEW limit \in Nat,
         NEW acc \in States(use, I, limit), NEW T, AllAccounted(acc.table, acc.out, I, anc, T),
         NEW acc2, Evicted(acc, acc2)
  PROVE  AllAccounted(acc2.table, acc2.out, I, anc, T)
<1>1. CASE acc2 = acc
  BY <1>1
<1>2. ASSUME NEW s \in Used(acc.table), Removed(acc.table, acc2.table, s),
             acc2.out = OnFlush(spec, acc.table.slab[s].core, now,
                                [acc.out EXCEPT !.key = acc.table.slab[s].key]).out
      PROVE  AllAccounted(acc2.table, acc2.out, I, anc, T)
  <2> DEFINE t == acc.table
             t2 == acc2.table
             key == t.slab[s].key
             core == t.slab[s].core
             out == [acc.out EXCEPT !.key = key]
             r == OnFlush(spec, core, now, out)
             A == T \ AllHeld(t)
             h == SlotHolds(t, s)
  <2>1. t \in Tables(I) /\ SlotsOK(t, limit) /\ acc.out \in Outlets /\ AllAccounted(t, acc.out, I, anc, T)
    BY DEF States, Sound
  <2>2. key \in Keys
    BY <2>1, SlabDomain DEF Entries
  <2>3. out \in Outlets /\ out.refused = acc.out.refused /\ out.sent = acc.out.sent /\ out.key = key
    <3> HIDE DEF key
    <3> QED BY <2>1, <2>2 DEF Outlets
  <2>4. h \subseteq AllHeld(t)
    BY <1>2 DEF AllHeld, HeldBy
  <2>5. Accounts(spec, out, A) /\ (~out.refused => Tidy(I, spec, anc, core))
    BY <1>2, <2>1, <2>3 DEF AllAccounted, Accounts
  <2>6. h \cap A = {}
    BY <2>4
  <2>7. Removed(t, t2, s) /\ acc2.out = r.out
    BY <1>2
  <2> HIDE DEF out
  <2>8. r = OnFlush(spec, core, now, out)
    OBVIOUS
  <2> HIDE DEF r, A, t2, h
  <2>9. Accounts(spec, r.out, A \cup h) /\ r.core = EmptyCore /\ (~r.out.refused => ~out.refused)
    <3>1. h = SlotHolds(t, s)
      BY DEF h
    <3>2. /\ t \in Tables(I) /\ s \in Used(t) /\ out \in Outlets /\ out.key = t.slab[s].key
          /\ Accounts(spec, out, A) /\ (~out.refused => Tidy(I, spec, anc, t.slab[s].core))
          /\ SlotHolds(t, s) \cap A = {} /\ r = OnFlush(spec, t.slab[s].core, now, out)
      BY <1>2, <2>1, <2>3, <2>5, <2>6, <2>8, <3>1
    <3> HIDE DEF t, key, core
    <3>3. /\ Accounts(spec, r.out, A \cup SlotHolds(t, s)) /\ r.core = EmptyCore
          /\ ~r.out.refused => ~out.refused
      BY <3>2, FlushAccounts, SMTT(60)
    <3> QED BY <3>1, <3>3
  <2>10. CoreHolds(spec, key, r.core) = {} /\ Tidy(I, spec, anc, r.core)
    BY <2>9, EmptyCoreHolds
  <2>11. Accounted(I, spec, anc, key, core, {}, A, r)
    <3>1. (A \cup (h \cup {})) \ {} = A \cup h /\ h = CoreHolds(spec, key, core)
      BY DEF h, SlotHolds
    <3> HIDE DEF key, core
    <3> QED BY <2>9, <2>10, <3>1 DEF Accounted, Accounts
  <2>12. Swapped(t, t2, s, {}, I, anc)
    BY <2>7 DEF Removed, SameEntries, Swapped, SameHeld
  <2>13. AllAccounted(t, out, I, anc, T)
    <3> HIDE DEF key
    <3> QED BY <2>1, <2>3 DEF AllAccounted
  <2>14. AllAccounted(t2, r.out, I, anc, T \cup {})
    <3>1. CoreHolds(spec, t.slab[s].key, r.core) = {}
      BY <2>10
    <3>2. Accounted(I, spec, anc, t.slab[s].key, t.slab[s].core, {}, T \ AllHeld(t), r)
      BY <2>11 DEF A
    <3> HIDE DEF t, key, core
    <3> QED BY <1>2, <2>1, <2>9, <2>12, <2>13, <3>1, <3>2, SwapAccounts DEF t
  <2>15. T \cup {} = T
    OBVIOUS
  <2> QED BY <2>7, <2>14, <2>15 DEF t2
<1> QED BY <1>1, <1>2 DEF Evicted

\* A slot is inserted with nothing open.
LEMMA InsertedAccounts ==
  ASSUME NEW t, NEW t2, NEW key, Inserted(t, t2, key), NEW out, NEW I, NEW anc, NEW T,
         AllAccounted(t, out, I, anc, T)
  PROVE  AllAccounted(t2, out, I, anc, T)
<1> DEFINE s == t2.index[key]
<1>1. /\ Used(t2) = Used(t) \cup {s} /\ t2.slab[s].core = EmptyCore /\ SameHeld(t, t2, Used(t))
  BY DEF Inserted, SameEntries, SameHeld
<1> HIDE DEF s
<1>2. SlotHolds(t2, s) = {} /\ Tidy(I, spec, anc, t2.slab[s].core)
  BY <1>1, EmptyCoreHolds DEF SlotHolds
<1>3. AllHeld(t2) = AllHeld(t)
  <2>1. HeldBy(t2, Used(t)) = AllHeld(t)
    BY <1>1, HeldBySame DEF AllHeld
  <2> QED BY <1>1, <1>2, <2>1, HeldByUnion DEF AllHeld
<1>4. ASSUME ~out.refused PROVE \A x \in Used(t2) : Tidy(I, spec, anc, t2.slab[x].core)
  BY <1>1, <1>2, <1>4 DEF AllAccounted, SameHeld
<1> QED BY <1>3, <1>4 DEF AllAccounted

LEMMA TouchAccounts ==
  ASSUME spec \in Policies, now \in Instants, NEW anc \in Instants,
         NEW I \in SUBSET Nat, NEW use,
         NEW acc \in States(use, I, LimitOf(spec)), NEW T, AllAccounted(acc.table, acc.out, I, anc, T),
         NEW key, NEW acc2, Touched(acc, acc2, key)
  PROVE  AllAccounted(acc2.table, acc2.out, I, anc, T)
<1>1. CASE Relinked(acc.table, acc2.table) /\ acc2.out = acc.out
  <2>1. Used(acc2.table) = Used(acc.table) /\ SameHeld(acc.table, acc2.table, Used(acc.table))
    BY <1>1 DEF Relinked, Alike, SameKeys, SameTimes, SameHeld
  <2> QED BY <1>1, <2>1, SameAccounted
<1>2. ASSUME NEW room \in {acc, EvictOne(acc)}, Inserted(room.table, acc2.table, key),
             acc2.out = room.out
      PROVE  AllAccounted(acc2.table, acc2.out, I, anc, T)
  <2>1. LimitOf(spec) \in Nat
    BY LimitType
  <2>2. Evicted(acc, EvictOne(acc))
    BY <2>1, EvictOneSound
  <2>3. AllAccounted(EvictOne(acc).table, EvictOne(acc).out, I, anc, T)
    BY <2>1, <2>2, EvictedAccounts
  <2>4. AllAccounted(room.table, room.out, I, anc, T)
    BY <1>2, <2>3
  <2> QED BY <1>2, <2>4, InsertedAccounts
<1> QED BY <1>1, <1>2 DEF Touched

\* The item's core is put back, and scheduled.
LEMMA PutAccounts ==
  ASSUME spec \in Policies, now \in Instants, NEW anc \in Instants,
         NEW I \in SUBSET Nat, NEW use, NEW limit \in Nat, NEW t, Sound(t, use, I, limit),
         NEW s \in Used(t), NEW out \in Outlets, out.key = t.slab[s].key, NEW T,
         AllAccounted(t, out, I, anc, T), GridCore(I, spec, anc, t.slab[s].core),
         NEW maxItems, NEW item \in I, Above(item, t.slab[s].core),
         NEW new, new = Places(spec, out.key, item, anc, now), new \cap T = {},
         NEW r \in Results(I), r = OnItem(spec, maxItems, t.slab[s].core, anc, now, item, out),
         NEW t1, CoreAssigned(t, t1, s, r.core), NEW t2, t2 = Schedule(t1, s)
  PROVE  AllAccounted(t2, r.out, I, anc, T \cup new)
<1> DEFINE core == t.slab[s].core
           key == t.slab[s].key
           A == T \ AllHeld(t)
           h == CoreHolds(spec, key, core)
<1>1. t \in Tables(I) /\ SlotsOK(t, limit)
  BY DEF Sound
<1>2. core \in Cores(I)
  BY <1>1, SlabDomain DEF Entries
<1>3. /\ Sound(t1, use, I, limit) /\ Used(t1) = Used(t) /\ SameKeys(t, t1)
      /\ t1.slab[s].core = r.core /\ SameCores(t, t1, s)
  <2> DEFINE c == r.core
  <2>1. c \in Cores(I) /\ CoreAssigned(t, t1, s, c)
    BY DEF Results
  <2> HIDE DEF c
  <2>2. /\ Sound(t1, use, I, limit) /\ Used(t1) = Used(t) /\ SameKeys(t, t1)
        /\ t1.slab[s].core = c /\ SameCores(t, t1, s)
    BY <1>1, <2>1, CoreSet
  <2> QED BY <2>2 DEF c
<1>4. Rescheduled(t1, t2)
  BY <1>3, ScheduleSound
<1>5. /\ Used(t2) = Used(t) /\ SameHeld(t, t2, Used(t) \ {s})
      /\ t2.slab[s].key = key /\ t2.slab[s].core = r.core
  BY <1>3, <1>4 DEF Rescheduled, Alike, SameKeys, SameCores, SameHeld
<1>6. ~r.out.refused => ~out.refused
  <2>1. r = OnItem(spec, maxItems, core, anc, now, item, out) /\ GridCore(I, spec, anc, core)
    OBVIOUS
  <2> HIDE DEF core
  <2>2. Settled(I, spec, anc, now, out, r)
    BY <1>2, <2>1, OnItemSettles
  <2> QED BY <2>2 DEF Settled
<1>7. CASE r.out.refused
  BY <1>7 DEF AllAccounted
<1>8. CASE ~r.out.refused
  <2>1. /\ Tidy(I, spec, anc, core) /\ AllHeld(t) \subseteq T
        /\ Account(spec, out.sent, A)
    BY <1>6, <1>8 DEF AllAccounted
  <2>2. h \subseteq AllHeld(t)
    BY DEF AllHeld, HeldBy, SlotHolds
  <2>3. (h \cup new) \cap A = {} /\ new \cap h = {}
    <3> HIDE DEF h
    <3> QED BY <2>1, <2>2
  <2>4. Accounted(I, spec, anc, key, core, new, A, r)
    <3>1. /\ out.key = key /\ Accounts(spec, out, A) /\ Above(item, core)
          /\ r = OnItem(spec, maxItems, core, anc, now, item, out)
      BY <2>1 DEF Accounts
    <3>2. (CoreHolds(spec, out.key, core) \cup new) \cap A = {} /\ new \cap CoreHolds(spec, out.key, core) = {}
      BY <2>3
    <3> HIDE DEF core, key, A, h
    <3>3. Accounted(I, spec, anc, out.key, core, new, A, r)
      BY <1>2, <2>1, <3>1, <3>2, OnItemAccounts
    <3> QED BY <3>1, <3>3
  <2>5. Swapped(t, t2, s, CoreHolds(spec, key, r.core), I, anc)
    <3>1. Tidy(I, spec, anc, r.core)
      BY <1>8, <2>4 DEF Accounted
    <3>2. SlotHolds(t2, s) = CoreHolds(spec, key, r.core)
      BY <1>5 DEF SlotHolds
    <3> QED BY <1>5, <3>1, <3>2 DEF Swapped
  <2>6. Accounted(I, spec, anc, t.slab[s].key, t.slab[s].core, new, T \ AllHeld(t), r)
    BY <2>4
  <2>7. Swapped(t, t2, s, CoreHolds(spec, t.slab[s].key, r.core), I, anc)
    BY <2>5
  <2> HIDE DEF core, key, A, h
  <2> QED BY <1>1, <1>6, <2>6, <2>7, SwapAccounts
<1> QED BY <1>7, <1>8

\* What the keys hold that were given a slot after the n-th.
After(n) == {s \in Used(table) : table.slab[s].created > n}

LEMMA FlushCreatedAccounts ==
  ASSUME spec \in Policies, now \in Instants, NEW anc \in Instants,
         NEW I \in SUBSET Nat, NEW use, NEW limit, Sound(table, use, I, limit),
         \A s \in Used(table) : Tidy(I, spec, anc, table.slab[s].core),
         NEW T, AllHeld(table) \subseteq T, NEW n \in Nat, NEW out \in Outlets,
         Accounts(spec, out, T \ HeldBy(table, After(n))),
         NEW o, o = FlushCreated(out, n + 1)
  PROVE  Accounts(spec, o, T \ HeldBy(table, After(n + 1)))
<1> DEFINE those == {s \in DOMAIN table.slab : Occupied(table, s) /\ table.slab[s].created = n + 1}
           s == CHOOSE s \in those : TRUE
           key == table.slab[s].key
           core == table.slab[s].core
           labelled == [out EXCEPT !.key = key]
           r == OnFlush(spec, core, now, labelled)
<1>1. o = IF those = {} THEN out ELSE r.out
  BY DEF FlushCreated
<1>2. those = {x \in Used(table) : table.slab[x].created = n + 1}
  BY DEF Used, Occupied
<1>3. /\ table \in Tables(I) /\ SlotsOK(table, limit)
      /\ \A a, b \in Used(table) : table.slab[a].created = table.slab[b].created => a = b
      /\ \A x \in Used(table) : table.slab[x].created \in Nat
  <2>1. table \in Tables(I) /\ SlotsOK(table, limit) /\ CreatedOK(table)
    BY DEF Sound
  <2>2. \A x \in Used(table) : table.slab[x].created \in Nat
    BY <2>1, SlabDomain DEF Entries
  <2> QED BY <2>1, <2>2 DEF CreatedOK
<1> HIDE DEF those
<1>4. After(n) = After(n + 1) \cup those
  BY <1>2, <1>3 DEF After
<1>5. CASE those = {}
  <2>1. After(n) = After(n + 1)
    BY <1>4, <1>5
  <2> QED BY <1>1, <1>5, <2>1
<1>6. CASE those # {}
  <2>1. s \in those
    BY <1>6
  <2> HIDE DEF s
  <2>2. s \in Used(table) /\ table.slab[s].created = n + 1
    BY <1>2, <2>1
  <2>3. those = {s}
    <3>1. \A x \in those : x = s
      BY <1>2, <1>3, <2>2
    <3> QED BY <2>1, <3>1
  <2>4. key \in Keys
    BY <1>3, <2>2, SlabDomain DEF Entries
  <2>5. /\ labelled \in Outlets /\ labelled.refused = out.refused /\ labelled.sent = out.sent
        /\ labelled.key = key
    <3> HIDE DEF key
    <3> QED BY <2>4 DEF Outlets
  <2> DEFINE h == SlotHolds(table, s)
             R == HeldBy(table, After(n + 1))
             X == HeldBy(table, After(n))
             A == T \ X
  <2>6. X = R \cup h
    BY <1>4, <2>3, HeldByUnion
  <2>7. h \cap R = {}
    <3>1. After(n + 1) \subseteq Used(table) \ {s}
      <4>1. \A x \in After(n + 1) : x \in Used(table) /\ x # s
        BY <1>3, <2>2 DEF After
      <4> QED BY <4>1
    <3> QED BY <1>3, <2>2, <3>1, HeldApart
  <2>8. h \subseteq T
    BY <2>2 DEF AllHeld, HeldBy
  <2>9. Accounts(spec, labelled, A)
    BY <2>5 DEF Accounts
  <2> HIDE DEF labelled, X, R, h
  <2>10. h \cap A = {} /\ A \cup h = T \ R
    BY <2>6, <2>7, <2>8
  <2>11. Tidy(I, spec, anc, core)
    BY <2>2
  <2> DEFINE AA == A
  <2>12. /\ labelled.key = table.slab[s].key /\ Accounts(spec, labelled, AA)
         /\ SlotHolds(table, s) \cap AA = {} /\ r = OnFlush(spec, table.slab[s].core, now, labelled)
         /\ Tidy(I, spec, anc, table.slab[s].core) /\ AA \cup h = T \ R
    BY <2>5, <2>9, <2>10, <2>11 DEF h
  <2> HIDE DEF AA, r, key, core, A
  <2>13. Accounts(spec, r.out, AA \cup SlotHolds(table, s))
    <3> DEFINE t == table
    <3>1. /\ t \in Tables(I) /\ s \in Used(t) /\ labelled \in Outlets /\ labelled.key = t.slab[s].key
          /\ Accounts(spec, labelled, AA) /\ (~labelled.refused => Tidy(I, spec, anc, t.slab[s].core))
          /\ SlotHolds(t, s) \cap AA = {} /\ r = OnFlush(spec, t.slab[s].core, now, labelled)
      BY <1>3, <2>2, <2>5, <2>12
    <3> HIDE DEF t
    <3>2. Accounts(spec, r.out, AA \cup SlotHolds(t, s))
      BY <3>1, FlushAccounts, SMTT(60)
    <3> QED BY <3>2 DEF t
  <2>14. Accounts(spec, r.out, T \ R)
    BY <2>12, <2>13 DEF h
  <2> QED BY <1>1, <1>6, <2>14 DEF R
<1> QED BY <1>5, <1>6

\* flush delivers all that is open.
LEMMA FlushedAccounts ==
  ASSUME spec \in Policies, now \in Instants, NEW anc \in Instants,
         NEW I \in SUBSET Nat, NEW use, NEW limit, Sound(table, use, I, limit), Outlet \in Outlets,
         NEW T, AllAccounted(table, Outlet, I, anc, T)
  PROVE  Accounts(spec, Flushed, T)
<1> DEFINE k == table.seq
<1>1. PICK run \in [0..k -> Outlets] : Flushes(run)
  BY FlushedRun
<1>2. /\ k \in Nat /\ run[0] = Outlet /\ \A n \in 1..k : run[n] = FlushCreated(run[n - 1], n)
      /\ Flushed = run[k]
  BY <1>1 DEF Flushes
<1>3. /\ \A s \in Used(table) : Tidy(I, spec, anc, table.slab[s].core)
      /\ AllHeld(table) \subseteq T /\ Account(spec, Outlet.sent, T \ AllHeld(table))
  BY DEF AllAccounted, Outlet
<1>4. \A s \in Used(table) : table.slab[s].created \in 1..k
  BY DEF Sound, CreatedOK
<1> HIDE DEF k
<1> DEFINE V == {n \in 0..k : Accounts(spec, run[n], T \ HeldBy(table, After(n)))}
<1>5. 0 \in V
  <2>1. After(0) = Used(table)
    BY <1>2, <1>4 DEF After
  <2>2. Accounts(spec, run[0], T \ HeldBy(table, After(0)))
    BY <1>2, <1>3, <2>1 DEF Accounts, AllHeld
  <2> QED BY <1>2, <2>2
<1>6. ASSUME NEW n \in 0..(k - 1), n \in V PROVE n + 1 \in V
  <2> DEFINE m == n + 1
  <2>1. m \in 1..k /\ m - 1 = n /\ n \in 0..k /\ m \in 0..k /\ n \in Nat
    BY <1>2
  <2> DEFINE out == run[n]
  <2>2. out \in Outlets /\ run[m] = FlushCreated(out, m) /\ Accounts(spec, out, T \ HeldBy(table, After(n)))
    BY <1>1, <1>2, <1>6, <2>1
  <2> HIDE DEF out
  <2>3. Accounts(spec, run[n + 1], T \ HeldBy(table, After(n + 1)))
    BY <1>3, <2>1, <2>2, FlushCreatedAccounts
  <2> QED BY <2>1, <2>3
<1>7. 0..k \subseteq V
  <2> HIDE DEF V
  <2> QED BY <1>2, <1>5, <1>6, Induction
<1>8. Accounts(spec, Flushed, T \ HeldBy(table, After(k)))
  BY <1>2, <1>7
<1>9. HeldBy(table, After(k)) = {}
  <2>1. After(k) = {}
    BY <1>2, <1>4 DEF After
  <2> QED BY <2>1 DEF HeldBy
<1>10. T \ {} = T
  OBVIOUS
<1> QED BY <1>8, <1>9, <1>10

-----------------------------------------------------------------------------
(* The inductive invariant: every place that the items taken so far demand is filled *)
(* once, by a window delivered or by one that is open.                               *)

DemandOf(policy, seq, anc) ==
  UNION {Places(policy, seq[i].key, i, anc, seq[i].at) : i \in 1..Len(seq)}

AccountInv ==
  /\ anchor = None => taken = <<>>
  /\ ~failed => AllAccounted(table, Outlet, 1..Len(taken), anchor, DemandOf(spec, taken, anchor))

LEMMA DemandMore ==
  ASSUME NEW policy, NEW seq \in Seq(Arrivals), NEW e \in Arrivals, NEW anc
  PROVE  DemandOf(policy, Append(seq, e), anc)
           = DemandOf(policy, seq, anc) \cup Places(policy, e.key, Len(seq) + 1, anc, e.at)
<1> DEFINE n == Len(seq)
           more == Append(seq, e)
<1>1. /\ n \in Nat /\ Len(more) = n + 1 /\ more[n + 1] = e /\ \A i \in 1..n : more[i] = seq[i]
  OBVIOUS
<1> HIDE DEF more, n
<1>2. 1..(n + 1) = 1..n \cup {n + 1}
  BY <1>1
<1> DEFINE held == DemandOf(policy, seq, anc)
           added == Places(policy, e.key, n + 1, anc, e.at)
           whole == DemandOf(policy, more, anc)
<1>3. \A x : x \in whole <=> \E i \in 1..(n + 1) : x \in Places(policy, more[i].key, i, anc, more[i].at)
  BY <1>1 DEF DemandOf
<1>4. \A x : x \in held <=> \E i \in 1..n : x \in Places(policy, seq[i].key, i, anc, seq[i].at)
  BY DEF DemandOf, n
<1> HIDE DEF whole, held
<1>5. \A x : x \in held => x \in whole
  BY <1>1, <1>2, <1>3, <1>4
<1>6. \A x : x \in added => x \in whole
  BY <1>1, <1>2, <1>3
<1>7. ASSUME NEW x \in whole PROVE x \in held \cup added
  <2>1. PICK i \in 1..(n + 1) : x \in Places(policy, more[i].key, i, anc, more[i].at)
    BY <1>3
  <2>2. CASE i = n + 1
    BY <1>1, <2>1, <2>2
  <2>3. CASE i \in 1..n
    BY <1>1, <1>4, <2>1, <2>3
  <2> QED BY <1>2, <2>2, <2>3
<1>8. whole = held \cup added
  <2> HIDE DEF added
  <2> QED BY <1>5, <1>6, <1>7
<1> QED BY <1>8 DEF whole, held, more, n

LEMMA DemandItems ==
  ASSUME NEW policy, NEW seq, NEW anc, NEW c \in DemandOf(policy, seq, anc)
  PROVE  c[2] \in 1..Len(seq)
BY DEF DemandOf, Places

\* A call begins with everything accounted for.
LEMMA AccountInvFacts ==
  ASSUME TimelyInv, AccountInv, ~failed, NEW anc, anchor # None => anc = anchor
  PROVE  AllAccounted(table, Outlet, 1..Len(taken), anc, DemandOf(spec, taken, anc))
<1>1. CASE anchor = None
  <2>1. Used(table) = {} /\ taken = <<>>
    BY <1>1 DEF TimelyInv, AccountInv
  <2>2. Len(taken) = 0
    BY <2>1
  <2>3. 1..0 = {}
    OBVIOUS
  <2>4. DemandOf(spec, taken, anc) = {} /\ DemandOf(spec, taken, anchor) = {}
    BY <2>2, <2>3 DEF DemandOf
  <2> QED BY <2>1, <2>4 DEF AccountInv, AllAccounted
<1>2. CASE anchor # None
  BY <1>2 DEF AccountInv
<1> QED BY <1>1, <1>2

\* An invariant of another table and another outlet.
LEMMA AccountInvKept ==
  ASSUME NEW t, NEW out, NEW J, J = 1..Len(taken'), NEW T, T = DemandOf(spec, taken', anchor'),
         AllAccounted(t, out, J, anchor', T), t = table', out.sent = sent', out.refused = failed',
         UNCHANGED spec, anchor' = None => taken' = <<>>
  PROVE  AccountInv'
<1>1. AllAccounted(table', [key |-> NIL, sent |-> sent', accepts |-> accepts', ok |-> TRUE, refused |-> FALSE],
                   J, anchor', T) \/ failed'
  BY DEF AllAccounted
<1>2. ~failed' => AllAccounted(table, Outlet, 1..Len(taken), anchor, DemandOf(spec, taken, anchor))'
  BY <1>1 DEF AllAccounted, AllHeld, HeldBy, SlotHolds, Outlet, DemandOf
<1> QED BY <1>2 DEF AccountInv

LEMMA AccountInvInit ==
  ASSUME Init PROVE AccountInv
<1>1. taken = <<>> /\ sent = <<>> /\ Used(table) = {}
  BY DEF Init, EmptyTable, Used
<1>2. DemandOf(spec, taken, anchor) = {}
  <2>1. 1..Len(taken) = {}
    <3>1. Len(<<>>) = 0 /\ 1..0 = {}
      OBVIOUS
    <3> QED BY <1>1, <3>1
  <2> QED BY <2>1 DEF DemandOf
<1>3. AllHeld(table) = {}
  BY <1>1 DEF AllHeld, HeldBy
<1>4. Account(spec, Outlet.sent, {} \ {})
  BY <1>1 DEF Account, Outlet
<1> QED BY <1>1, <1>2, <1>3, <1>4 DEF AccountInv, AllAccounted

LEMMA AccountInvSame ==
  ASSUME AccountInv, UNCHANGED <<spec, anchor, table, sent, failed, taken>> PROVE AccountInv'
<1>1. ~failed => AllAccounted(table, Outlet, 1..Len(taken), anchor, DemandOf(spec, taken, anchor))
  BY DEF AccountInv
<1>2. CASE failed
  BY <1>2 DEF AccountInv
<1>3. CASE ~failed
  <2> DEFINE t == table
             out == [Outlet EXCEPT !.refused = failed]
             J == 1..Len(taken)
             T == DemandOf(spec, taken, anchor)
  <2>1. AllAccounted(t, out, J, anchor, T)
    BY <1>1, <1>3 DEF AllAccounted, Outlet
  <2>2. t = table' /\ out.sent = sent' /\ out.refused = failed' /\ J = 1..Len(taken')
        /\ T = DemandOf(spec, taken', anchor') /\ anchor' = anchor
    BY DEF Outlet
  <2>3. anchor' = None => taken' = <<>>
    BY DEF AccountInv
  <2> HIDE DEF t, out, J, T
  <2> QED BY <2>1, <2>2, <2>3, AccountInvKept
<1> QED BY <1>2, <1>3

LEMMA AccountInvClock ==
  ASSUME AccountInv, Clock PROVE AccountInv'
BY AccountInvSame DEF Clock, emission

LEMMA AccountInvDropped ==
  ASSUME AccountInv, UNCHANGED vars PROVE AccountInv'
BY AccountInvSame DEF vars, emission

LEMMA AccountInvTick ==
  ASSUME KeyedInv, TimelyInv, AccountInv, Tick PROVE AccountInv'
<1> DEFINE I == 1..Len(taken)
           use == Uses(taken)
           limit == LimitOf(spec)
           expired == Expire(table, anchor, Outlet)
           t == expired.table
           out == expired.out
           T == DemandOf(spec, taken, anchor)
<1>1. /\ spec \in Policies /\ now \in Instants /\ limit \in Nat /\ I \in SUBSET Nat
      /\ Outlet \in Outlets /\ anchor \in Instants /\ Sound(table, use, I, limit)
  <2>1. anchor # None
    BY DEF Tick
  <2> QED BY <2>1, KeyedInvFacts DEF KeyedInv
<1>2. /\ table' = t /\ failed' = out.refused /\ sent' = out.sent /\ ~failed /\ anchor # None
      /\ UNCHANGED <<spec, now, anchor, taken>>
  BY DEF Tick, Emitted
<1>3. AllInTime(table, I, anchor, Outlet.refused)
  BY <1>2, PromptIsInTime
<1>4. AllAccounted(table, Outlet, I, anchor, T)
  BY <1>2, AccountInvFacts
<1>5. expired = Expire(table, anchor, Outlet)
  OBVIOUS
<1>6. I = 1..Len(taken') /\ T = DemandOf(spec, taken', anchor') /\ anchor' = anchor
  BY <1>2
<1> HIDE DEF I, use, limit, T, expired
<1>7. AllAccounted(expired.table, expired.out, I, anchor, T)
  BY <1>1, <1>3, <1>4, <1>5, ExpireAccounts
<1> HIDE DEF t, out
<1>8. AllAccounted(t, out, I, anchor', T)
  BY <1>6, <1>7 DEF t, out
<1> QED BY <1>2, <1>6, <1>8, AccountInvKept

LEMMA AccountInvFlush ==
  ASSUME KeyedInv, TimelyInv, AccountInv, Flush PROVE AccountInv'
<1> DEFINE I == 1..Len(taken)
           use == Uses(taken)
           limit == LimitOf(spec)
           anc == Or(anchor, now)
           T == DemandOf(spec, taken, anc)
           t == table'
           out == Flushed
<1>1. /\ spec \in Policies /\ now \in Instants /\ limit \in Nat /\ I \in SUBSET Nat
      /\ Outlet \in Outlets /\ Sound(table, use, I, limit)
  BY KeyedInvFacts DEF KeyedInv
<1>2. /\ t = [EmptyTable EXCEPT !.seq = table.seq, !.tickets = table.tickets]
      /\ failed' = out.refused /\ sent' = out.sent /\ ~failed /\ UNCHANGED <<spec, anchor, taken>>
  BY DEF Flush, Emitted, Flushed
<1>3. anc \in Instants /\ (anchor # None => anc = anchor)
  <2>1. anchor \in Instants \/ anchor = None
    BY KeyedInvFacts DEF KeyedInv
  <2> QED BY <1>1, <2>1 DEF Or
<1>4. AllAccounted(table, Outlet, I, anc, T)
  <2> HIDE DEF anc
  <2> QED BY <1>2, <1>3, AccountInvFacts
<1>5. T = DemandOf(spec, taken', anchor') /\ I = 1..Len(taken') /\ (anchor' = None => taken' = <<>>)
  <2>1. CASE anchor = None
    <3>1. taken = <<>>
      BY <2>1 DEF AccountInv
    <3>2. 1..Len(taken) = {}
      <4>1. Len(<<>>) = 0 /\ 1..0 = {}
        OBVIOUS
      <4> QED BY <3>1, <4>1
    <3>3. T = {} /\ DemandOf(spec, taken, anchor) = {}
      BY <3>2 DEF DemandOf
    <3> QED BY <1>2, <3>1, <3>3
  <2>2. CASE anchor # None
    BY <1>2, <1>3, <2>2
  <2> QED BY <2>1, <2>2
<1>6. Used(t) = {}
  <2>1. t.slab = <<>>
    BY <1>2 DEF EmptyTable
  <2> QED BY <2>1 DEF Used
<1> HIDE DEF I, use, limit, anc, T
<1>7. Accounts(spec, Flushed, T)
  BY <1>1, <1>3, <1>4, FlushedAccounts
<1> HIDE DEF t, out
<1>8. AllAccounted(t, out, I, anchor', T)
  <2>1. AllHeld(t) = {}
    BY <1>6 DEF AllHeld, HeldBy
  <2>2. T \ {} = T
    OBVIOUS
  <2> QED BY <1>6, <1>7, <2>1, <2>2 DEF AllAccounted, Accounts, out
<1> QED BY <1>2, <1>5, <1>8, AccountInvKept DEF t

\* The item just taken is above all that is open.
LEMMA ItemAbove ==
  ASSUME NEW n \in Nat, NEW I, I = 1..n, NEW core \in Cores(I)
  PROVE  Above(n + 1, core)
<1>1. \A items \in Seq(I) : \A i \in ToSet(items) : i < n + 1
  <2> SUFFICES ASSUME NEW items \in Seq(I), NEW d \in DOMAIN items PROVE items[d] < n + 1
    BY DEF ToSet
  <2>1. items[d] \in I
    OBVIOUS
  <2> QED BY <2>1
<1>2. core.items \in Seq(I) /\ \A w \in ToSet(core.slots) : w \in OpenWindows(I)
  BY DEF Cores, ToSet
<1>3. \A w \in ToSet(core.slots) : w.items \in Seq(I)
  BY <1>2 DEF OpenWindows
<1> QED BY <1>1, <1>2, <1>3 DEF Above

LEMMA MoreAccounted ==
  ASSUME NEW I, NEW J, I \subseteq J, NEW t, NEW out, NEW anc, NEW T, AllAccounted(t, out, I, anc, T)
  PROVE  AllAccounted(t, out, J, anc, T)
BY TidyMore DEF AllAccounted

LEMMA AccountInvProcess ==
  ASSUME KeyedInv, TimelyInv, AccountInv, NEW key \in Keys, Process(key) PROVE AccountInv'
<1> DEFINE n == Len(taken)
           I == 1..n
           J == 1..(n + 1)
           item == n + 1
           e == [key |-> key, at |-> now]
           use == Uses(taken)
           use2 == Uses(Append(taken, e))
           limit == LimitOf(spec)
           anc == Or(anchor, GridOrigin(spec, now))
           T == DemandOf(spec, taken, anc)
           expired == Expire(table, anc, Outlet)
           touched == Touch(expired, key)
           slot == touched.table.index[key]
           out == [touched.out EXCEPT !.key = key]
           added == OnItem(spec, MaxItems, touched.table.slab[slot].core, anc, now, n + 1, out)
           t2 == [touched.table EXCEPT !.slab[slot].core = added.core]
           t3 == Schedule(t2, slot)
<1>1. /\ spec \in Policies /\ now \in Instants /\ limit \in Nat /\ I \in SUBSET Nat
      /\ Outlet \in Outlets /\ Sound(table, use, I, limit) /\ taken \in Seq(Arrivals)
      /\ now \in 0..MaxTime /\ MaxTime \in Nat
  BY KeyedInvFacts DEF KeyedInv
<1>2. n \in Nat /\ J \in SUBSET Nat /\ item \in J /\ I \subseteq J /\ item \notin I
  <2>1. n \in Nat
    BY <1>1
  <2> HIDE DEF n
  <2> QED BY <2>1
<1>3. anc \in Instants /\ anc # None /\ (anchor # None => anc = anchor)
  <2>1. anchor \in 0..MaxTime \cup {None} /\ now \in Nat
    BY <1>1 DEF KeyedInv
  <2>2. GridOrigin(spec, now) \in 0..now
    BY <1>1, <2>1, GridOriginType
  <2>3. anc \in 0..MaxTime
    BY <1>1, <2>1, <2>2 DEF Or
  <2>4. 0..MaxTime \subseteq Instants
    BY KeyedInvFacts
  <2> QED BY <2>1, <2>3, <2>4 DEF Or, None
<1>4. e \in Arrivals /\ e.key = key /\ e.at = now
  BY <1>1 DEF Arrivals
<1>5. UsedNow(key, use, use2)
  BY <1>1, <1>4, UsesAppend
<1>6. expired \in States(use, I, limit)
  <2> HIDE DEF I, use, limit, anc
  <2> QED BY <1>1, <1>3, ExpireSound
<1>7. touched \in States(use2, I, limit) /\ slot # NIL /\ Touched(expired, touched, key)
  <2> HIDE DEF I, use, use2, expired
  <2> QED BY <1>1, <1>5, <1>6, TouchSound
<1>8. /\ table' = t3 /\ failed' = added.out.refused /\ sent' = added.out.sent /\ ~failed
      /\ anchor' = anc /\ taken' = Append(taken, e) /\ UNCHANGED <<spec, now>>
  BY DEF Process, Emitted
<1>9. expired = Expire(table, anc, Outlet)
  OBVIOUS
<1>10. AllInTime(table, I, anc, Outlet.refused)
  <2> HIDE DEF anc
  <2> QED BY <1>3, <1>8, PromptIsInTime
<1>11. AllAccounted(table, Outlet, I, anc, T)
  <2> HIDE DEF anc
  <2> QED BY <1>3, <1>8, AccountInvFacts
<1> HIDE DEF expired, touched
<1>12. AllAccounted(expired.table, expired.out, I, anc, T)
  <2> HIDE DEF I, use, limit, anc, T
  <2> QED BY <1>1, <1>3, <1>9, <1>10, <1>11, ExpireAccounts
<1>13. AllAccounted(touched.table, touched.out, I, anc, T)
  <2>1. expired \in States(use, I, LimitOf(spec))
    BY <1>6
  <2> HIDE DEF I, use, anc, T
  <2> QED BY <1>1, <1>3, <1>7, <1>12, <2>1, TouchAccounts
<1> DEFINE t == touched.table
<1>14. Sound(t, use2, J, limit) /\ touched.out \in Outlets
  <2>1. Sound(t, use2, I, limit) /\ touched.out \in Outlets
    BY <1>7 DEF States
  <2> HIDE DEF t, use2, limit, I, J
  <2> QED BY <1>2, <2>1, MoreItems
<1>15. slot \in Used(t) /\ t \in Tables(J) /\ t.slab[slot].key = key
  BY <1>7, <1>14 DEF Sound, SlotsOK
<1>16. out \in Outlets /\ out.refused = touched.out.refused /\ out.sent = touched.out.sent /\ out.key = key
  BY <1>14 DEF Outlets
<1> DEFINE core == t.slab[slot].core
<1>17. core \in Cores(I) /\ core \in Cores(J)
  <2>1. t \in Tables(I)
    BY <1>7 DEF States, Sound
  <2> HIDE DEF t, slot, J, I
  <2> QED BY <1>15, <2>1, SlabDomain DEF Entries
<1>18. added = OnItem(spec, MaxItems, core, anc, now, item, out)
  OBVIOUS
<1>19. Above(item, core)
  <2> HIDE DEF core, n
  <2> QED BY <1>2, <1>17, ItemAbove
<1>20. AllAccounted(t, out, J, anc, T)
  <2>1. AllAccounted(t, touched.out, J, anc, T)
    <3> HIDE DEF T, anc, I, J
    <3> QED BY <1>2, <1>13, MoreAccounted
  <2> QED BY <1>16, <2>1 DEF AllAccounted
<1> DEFINE new == Places(spec, key, item, anc, now)
<1>21. new \cap T = {}
  <2>1. \A c \in T : c[2] \in I
    BY DemandItems
  <2>2. \A c \in new : c[2] = item
    BY DEF Places
  <2> HIDE DEF T, new, I, item
  <2> QED BY <1>2, <2>1, <2>2
<1>22. T \cup new = DemandOf(spec, taken', anchor')
  <2> HIDE DEF anc, e
  <2> QED BY <1>1, <1>4, <1>8, DemandMore
<1>23. J = 1..Len(taken')
  <2> HIDE DEF e
  <2>1. Len(Append(taken, e)) = Len(taken) + 1
    BY <1>1, <1>4
  <2> QED BY <1>8, <2>1
<1> HIDE DEF new, T
<1>24. new = Places(spec, out.key, item, anc, now)
  BY <1>16 DEF new
<1>25. CoreAssigned(t, t2, slot, added.core)
  BY DEF CoreAssigned
<1>26. t3 = Schedule(t2, slot)
  OBVIOUS
<1> HIDE DEF added, out, t2, t3
<1>27. AllInTime(expired.table, I, anc, expired.out.refused) /\ NoneDue(expired.table)
  <2> HIDE DEF I, use, limit, anc
  <2> QED BY <1>1, <1>3, <1>9, <1>10, ExpireInTime
<1>28. GridCore(J, spec, anc, core)
  <2>1. AllInTime(touched.table, I, anc, touched.out.refused)
    <3> HIDE DEF I, use, use2, anc
    <3> QED BY <1>1, <1>3, <1>6, <1>7, <1>27, TouchInTime
  <2>2. GridCore(I, spec, anc, core)
    BY <1>15, <2>1 DEF AllInTime, SlotInTime
  <2> HIDE DEF I, J, core, anc
  <2> QED BY <1>2, <2>2, GridCoreMore
<1>29. added \in Results(J)
  <2> HIDE DEF core, item, anc, J
  <2> QED BY <1>1, <1>2, <1>3, <1>16, <1>17, <1>18, OnItemType
<1>30. added = OnItem(spec, MaxItems, t.slab[slot].core, anc, now, item, out)
       /\ Above(item, t.slab[slot].core) /\ GridCore(J, spec, anc, t.slab[slot].core)
       /\ out.key = t.slab[slot].key
  BY <1>15, <1>16, <1>18, <1>19, <1>28
<1> HIDE DEF core, item, slot, t, J, I, use2, limit, anc, n
<1>31. AllAccounted(t3, added.out, J, anc, T \cup new)
  <2> DEFINE max == MaxItems
  <2>1. /\ Sound(t, use2, J, limit) /\ slot \in Used(t) /\ out \in Outlets /\ out.key = t.slab[slot].key
        /\ AllAccounted(t, out, J, anc, T) /\ GridCore(J, spec, anc, t.slab[slot].core)
        /\ item \in J /\ Above(item, t.slab[slot].core)
        /\ new = Places(spec, out.key, item, anc, now) /\ new \cap T = {} /\ added \in Results(J)
        /\ added = OnItem(spec, max, t.slab[slot].core, anc, now, item, out)
        /\ CoreAssigned(t, t2, slot, added.core) /\ t3 = Schedule(t2, slot)
    BY <1>2, <1>14, <1>15, <1>16, <1>20, <1>21, <1>24, <1>25, <1>26, <1>29, <1>30
  <2>2. spec \in Policies /\ now \in Instants /\ anc \in Instants /\ J \in SUBSET Nat /\ limit \in Nat
    BY <1>1, <1>2, <1>3
  <2> HIDE DEF max
  <2> QED BY <2>1, <2>2, PutAccounts, ZenonT(60)
<1> DEFINE whole == T \cup new
           o == added.out
<1>32. /\ J = 1..Len(taken') /\ whole = DemandOf(spec, taken', anchor')
       /\ AllAccounted(t3, o, J, anchor', whole) /\ t3 = table' /\ o.sent = sent'
       /\ o.refused = failed' /\ UNCHANGED spec /\ anchor' # None
  BY <1>3, <1>8, <1>22, <1>23, <1>31
<1> HIDE DEF whole, o
<1> QED BY <1>32, AccountInvKept

\* The windows delivered and those open are all there is of the items taken, and no more,
\* through any sequence of process, tick, flush and movements of the clock.
THEOREM AccountInvariant == Spec => [](TimelyInv /\ AccountInv)
<1>1. Init => TimelyInv /\ AccountInv
  BY TimelyInvInit, AccountInvInit
<1>2. KeyedInv /\ TimelyInv /\ AccountInv /\ [Next]_vars => TimelyInv' /\ AccountInv'
  <2> SUFFICES ASSUME KeyedInv, TimelyInv, AccountInv, [Next]_vars PROVE TimelyInv' /\ AccountInv'
    OBVIOUS
  <2>1. CASE Clock
    BY <2>1, TimelyInvClock, AccountInvClock
  <2>2. ASSUME NEW key \in Keys, Process(key) PROVE TimelyInv' /\ AccountInv'
    BY <2>2, TimelyInvProcess, AccountInvProcess
  <2>3. CASE Tick
    BY <2>3, TimelyInvTick, AccountInvTick
  <2>4. CASE Flush
    BY <2>4, TimelyInvFlush, AccountInvFlush
  <2>5. CASE UNCHANGED vars
    BY <2>5, TimelyInvDropped, AccountInvDropped
  <2> QED BY <2>1, <2>2, <2>3, <2>4, <2>5 DEF Next, Dropped
<1> QED BY <1>1, <1>2, KeyedInvariant, PTL DEF Spec

-----------------------------------------------------------------------------
(* The grid windows that contain an arrival are those from FirstIndex to LastIndex. *)

\* n-th multiples around an instant.
LEMMA MultipleBelow ==
  ASSUME NEW n \in Nat, NEW d \in Nat \ {0}, NEW e \in Nat
  PROVE  n * d <= e <=> n <= e \div d
<1> DEFINE q == e \div d
<1>1. q \in Nat /\ q * d <= e /\ e < q * d + d
  BY DivType, DivBounds
<1> HIDE DEF q
<1>2. n <= q => n * d <= q * d
  BY <1>1, ProductMonotonic
<1>3. n > q => (q + 1) * d <= n * d
  BY <1>1, ProductMonotonic
<1>4. (q + 1) * d = q * d + d
  BY <1>1, ProductNext
<1> DEFINE x == n * d
           y == q * d
           z == (q + 1) * d
<1>5. x \in Nat /\ y \in Nat /\ z \in Nat
  BY <1>1, ProductType
<1>6. y <= e /\ e < y + d /\ (n <= q => x <= y) /\ (n > q => z <= x) /\ z = y + d
  BY <1>1, <1>2, <1>3, <1>4
<1> HIDE DEF x, y, z
<1>7. x <= e <=> n <= q
  BY <1>1, <1>5, <1>6
<1> QED BY <1>7 DEF x, q

LEMMA HomesAreMarks ==
  ASSUME NEW policy \in Policies, NEW anc \in Instants, NEW at \in Instants, NEW n \in Nat
  PROVE  n \in FirstIndex(policy, anc, at)..LastIndex(policy, anc, at) <=>
           /\ n \in 0..MaxInstant /\ n * policy.slide <= Since(at, anc)
           /\ Since(at, anc) < n * policy.slide + policy.size
<1> DEFINE e == Since(at, anc)
           size == policy.size
           slide == policy.slide
           x == n * slide
           first == FirstIndex(policy, anc, at)
           last == LastIndex(policy, anc, at)
<1>1. size \in Nat \ {0} /\ slide \in Nat \ {0} /\ e \in Nat /\ anc \in Nat /\ at \in Nat
      /\ MaxInstant \in Nat /\ at <= MaxInstant
  BY PolicyType, InstantNat, SinceType, MaxInstantType DEF Instants
<1>2. e <= MaxInstant
  BY <1>1 DEF Since
<1>3. last = e \div slide /\ first = IF e >= size THEN (e - size) \div slide + 1 ELSE 0
  BY DEF LastIndex, FirstIndex
<1> HIDE DEF e, size, slide, first, last
<1>4. x \in Nat /\ n <= x
  <2>1. 1 * n <= slide * n
    BY <1>1, ProductMonotonic
  <2>2. slide * n = n * slide /\ n * slide \in Nat /\ 1 * n = n
    BY <1>1
  <2> QED BY <2>1, <2>2
<1>5. x <= e <=> n <= last
  BY <1>1, <1>3, MultipleBelow
<1>6. last \in Nat
  BY <1>1, <1>3, DivType
<1>7. first \in Nat /\ (e < x + size <=> first <= n)
  <2>1. CASE e < size
    <3> HIDE DEF x
    <3> QED BY <1>1, <1>3, <1>4, <2>1
  <2>2. CASE e >= size
    <3> DEFINE a == e - size
               q == a \div slide
    <3>1. a \in Nat /\ first = q + 1
      BY <1>1, <1>3, <2>2
    <3>2. x <= a <=> n <= q
      <4> HIDE DEF a
      <4> QED BY <1>1, <3>1, MultipleBelow
    <3>3. q \in Nat
      <4> HIDE DEF a
      <4> QED BY <1>1, <3>1, DivType
    <3> HIDE DEF x, q
    <3> QED BY <1>1, <1>4, <2>2, <3>1, <3>2, <3>3
  <2> QED BY <1>1, <2>1, <2>2
<1> HIDE DEF x
<1>8. n \in first..last <=> n \in 0..MaxInstant /\ x <= e /\ e < x + size
  BY <1>1, <1>2, <1>4, <1>5, <1>6, <1>7
<1> QED BY <1>8 DEF x, e, size, slide, first, last

LEMMA HomesOf ==
  ASSUME spec \in Policies, spec.kind = "sliding", anchor \in Instants, NEW at \in Instants
  PROVE  Homes(at) = Marks(spec, anchor, at) /\ IsFiniteSet(Homes(at))
<1> DEFINE e == Since(at, anchor)
           first == FirstIndex(spec, anchor, at)
           last == LastIndex(spec, anchor, at)
           N == {m \in 0..MaxInstant : m * spec.slide <= e /\ e < m * spec.slide + spec.size}
<1>1. first \in Nat /\ last \in Nat
  BY IndexTypes
<1>2. N = first..last
  <2>1. \A n \in Nat : n \in first..last <=> n \in N
    BY HomesAreMarks
  <2>2. N \subseteq Nat
    BY MaxInstantType
  <2> HIDE DEF N, first, last
  <2>3. \A n \in first..last : n \in Nat
    BY <1>1
  <2>4. \A n : n \in first..last <=> n \in N
    BY <2>1, <2>2, <2>3
  <2> QED BY <2>4
<1>3. Homes(at) = {anchor + n * spec.slide : n \in N} /\ Marks(spec, anchor, at) = {anchor + n * spec.slide : n \in first..last}
  BY DEF Homes, Marks
<1>4. IsFiniteSet(N)
  <2> HIDE DEF N, first, last
  <2> QED BY <1>1, <1>2, FS_Interval
<1>5. IsFiniteSet({anchor + n * spec.slide : n \in N})
  <2> DEFINE f == [n \in N |-> anchor + n * spec.slide]
             M == {anchor + n * spec.slide : n \in N}
  <2>1. f \in Surjection(N, M)
    <3> HIDE DEF N
    <3> QED BY DEF Surjection
  <2> HIDE DEF N, f, M
  <2>2. IsFiniteSet(M)
    BY <1>4, <2>1, FS_Surjection
  <2> QED BY <2>2 DEF M
<1> HIDE DEF N
<1> QED BY <1>2, <1>3, <1>5

-----------------------------------------------------------------------------
(* The windows there are or were fill every place that is demanded, each once. *)

Filled(p) == Holds(spec, p.key, p.start, p.items)
SentPiece(n) == [id |-> <<NIL, n>>, key |-> sent[n].key, start |-> sent[n].start, items |-> sent[n].items]
FirstPiece(k) == [id |-> <<k, 0>>, key |-> k, start |-> CoreOf(k).start, items |-> CoreOf(k).items]
SlotPiece(k, n) ==
  [id |-> <<k, n>>, key |-> k, start |-> CoreOf(k).slots[n].start, items |-> CoreOf(k).slots[n].items]
OpenPieces(k) == {FirstPiece(k)} \cup {SlotPiece(k, n) : n \in DOMAIN CoreOf(k).slots}

LEMMA PiecesAre ==
  Pieces = {SentPiece(n) : n \in DOMAIN sent} \cup UNION {OpenPieces(k) : k \in Keys}
BY DEF Pieces, SentPiece, OpenPieces, FirstPiece, SlotPiece

\* Grid windows of different indexes have different marks.
LEMMA MarksApart ==
  ASSUME spec \in Policies, spec.kind = "sliding", NEW anc \in Instants, NEW I \in SUBSET Nat,
         NEW core, GridCore(I, spec, anc, core), Sorted(core.slots),
         NEW i \in DOMAIN core.slots, NEW j \in DOMAIN core.slots, i < j
  PROVE  core.slots[i].start # core.slots[j].start
<1> DEFINE a == core.slots[i]
           b == core.slots[j]
           slide == spec.slide
<1>1. core.slots \in Seq(WindowsFrom(I, spec, anc, 0))
  BY DEF GridCore
<1>2. a \in WindowsFrom(I, spec, anc, 0) /\ b \in WindowsFrom(I, spec, anc, 0)
  BY <1>1
<1>3. a.k < b.k
  BY DEF Sorted
<1> HIDE DEF a, b
<1>4. /\ a.k \in Nat /\ b.k \in Nat /\ a.start = anc + a.k * slide /\ b.start = anc + b.k * slide
      /\ slide \in Nat \ {0} /\ anc \in Nat
  BY <1>2, PolicyType, InstantNat DEF WindowsFrom, OpenWindows, OnGrid
<1> HIDE DEF slide
<1> DEFINE m == a.k
           n == b.k
<1>5. m \in Nat /\ n \in Nat /\ m + 1 <= n
  BY <1>3, <1>4
<1> HIDE DEF m, n
<1>6. (m + 1) * slide <= n * slide /\ (m + 1) * slide = m * slide + slide
  BY <1>4, <1>5, ProductMonotonic, ProductNext
<1> DEFINE x == m * slide
           y == n * slide
           z == (m + 1) * slide
<1>7. x \in Nat /\ y \in Nat /\ z \in Nat /\ z <= y /\ z = x + slide
  BY <1>4, <1>5, <1>6, ProductType
<1>8. a.start = anc + x /\ b.start = anc + y
  BY <1>4 DEF m, n
<1> HIDE DEF x, y, z
<1>9. a.start # b.start
  BY <1>4, <1>7, <1>8
<1>10. core.slots[i].start # core.slots[j].start
  BY <1>9 DEF a, b
<1> QED BY <1>10

LEMMA OpenPiecesFill ==
  ASSUME spec \in Policies, NEW anc \in Instants, NEW I \in SUBSET Nat, NEW k \in Keys,
         Tidy(I, spec, anc, CoreOf(k))
  PROVE  /\ \A p \in OpenPieces(k) :
              Rising(p.items) /\ p.key = k /\ Filled(p) \subseteq CoreHolds(spec, k, CoreOf(k))
         /\ \A p, q \in OpenPieces(k) : p # q => Filled(p) \cap Filled(q) = {}
         /\ \A c \in CoreHolds(spec, k, CoreOf(k)) : \E p \in OpenPieces(k) : c \in Filled(p)
<1> DEFINE core == CoreOf(k)
           D == DOMAIN core.slots
           first == FirstPiece(k)
           slot(n) == SlotPiece(k, n)
<1>1. Filled(first) = Holds(spec, k, core.start, core.items) /\ first.items = core.items /\ first.key = k
  BY DEF Filled, FirstPiece
<1>2. \A n \in D : /\ Filled(slot(n)) = Holds(spec, k, core.slots[n].start, core.slots[n].items)
                   /\ slot(n).items = core.slots[n].items /\ slot(n).key = k
                   /\ slot(n).start = core.slots[n].start
  BY DEF Filled, SlotPiece
<1>3. /\ Rising(core.items) /\ (spec.kind # "sliding" => core.slots = <<>>)
      /\ spec.kind = "sliding" =>
           /\ core.items = <<>> /\ GridCore(I, spec, anc, core) /\ Sorted(core.slots)
           /\ \A w \in ToSet(core.slots) : Rising(w.items)
  BY DEF Tidy
<1>4. \A n \in D : core.slots[n] \in ToSet(core.slots)
  BY DEF ToSet
<1>5. spec.kind # "sliding" => D = {}
  BY <1>3
<1>6. \A p \in OpenPieces(k) : p = first \/ \E n \in D : p = slot(n)
  BY DEF OpenPieces
<1>7. first \in OpenPieces(k) /\ \A n \in D : slot(n) \in OpenPieces(k)
  BY DEF OpenPieces
<1>8. spec.kind = "sliding" => Filled(first) = {}
  BY <1>1, <1>3, EmptyHolds
<1>9. \A c : c \in CoreHolds(spec, k, core) <=> c \in Filled(first) \/ \E n \in D : c \in Filled(slot(n))
  <2>1. \A c : c \in SlotsHold(spec, k, ToSet(core.slots))
                <=> \E n \in D : c \in Holds(spec, k, core.slots[n].start, core.slots[n].items)
    BY DEF SlotsHold, ToSet
  <2> HIDE DEF slot, first, D
  <2> QED BY <1>1, <1>2, <2>1 DEF CoreHolds
<1>10. \A m, n \in D : slot(m) # slot(n) => Filled(slot(m)) \cap Filled(slot(n)) = {}
  <2> SUFFICES ASSUME NEW m \in D, NEW n \in D, m # n
               PROVE  Filled(slot(m)) \cap Filled(slot(n)) = {}
    OBVIOUS
  <2>1. spec.kind = "sliding"
    BY <1>5
  <2>2. core.slots[m].start # core.slots[n].start
    <3>1. m \in Nat /\ n \in Nat
      <4>1. core.slots \in Seq(WindowsFrom(I, spec, anc, 0))
        BY <1>3, <2>1 DEF GridCore
      <4> QED BY <4>1
    <3>2. /\ GridCore(I, spec, anc, core) /\ Sorted(core.slots)
          /\ m \in DOMAIN core.slots /\ n \in DOMAIN core.slots
      BY <1>3, <2>1
    <3> HIDE DEF core, D
    <3>3. CASE m < n
      BY <2>1, <3>2, <3>3, MarksApart
    <3>4. CASE n < m
      BY <2>1, <3>2, <3>4, MarksApart
    <3> QED BY <3>1, <3>3, <3>4
  <2>3. \A c \in Filled(slot(m)) : c[3] = core.slots[m].start
    BY <1>2, <2>1 DEF Holds, Mark
  <2>4. \A c \in Filled(slot(n)) : c[3] = core.slots[n].start
    BY <1>2, <2>1 DEF Holds, Mark
  <2> QED BY <2>2, <2>3, <2>4
<1> HIDE DEF first, slot, D
<1>11. \A p \in OpenPieces(k) : Rising(p.items) /\ p.key = k /\ Filled(p) \subseteq CoreHolds(spec, k, core)
  <2> TAKE p \in OpenPieces(k)
  <2>1. CASE p = first
    BY <1>1, <1>3, <1>9, <2>1
  <2>2. ASSUME NEW n \in D, p = slot(n)
        PROVE  Rising(p.items) /\ p.key = k /\ Filled(p) \subseteq CoreHolds(spec, k, core)
    BY <1>2, <1>3, <1>4, <1>5, <1>9, <2>2
  <2> QED BY <1>6, <2>1, <2>2
<1>12. \A p, q \in OpenPieces(k) : p # q => Filled(p) \cap Filled(q) = {}
  BY <1>5, <1>6, <1>8, <1>10
<1>13. \A c \in CoreHolds(spec, k, core) : \E p \in OpenPieces(k) : c \in Filled(p)
  BY <1>7, <1>9
<1> QED BY <1>11, <1>12, <1>13

\* What the keys hold is what the table holds.
LEMMA KeysHold ==
  ASSUME KeyedInv, NEW I, NEW anc, \A s \in Used(table) : Tidy(I, spec, anc, table.slab[s].core)
  PROVE  /\ \A k \in Keys : /\ Tidy(I, spec, anc, CoreOf(k))
                            /\ CoreHolds(spec, k, CoreOf(k)) \subseteq AllHeld(table)
         /\ \A c \in AllHeld(table) : \E k \in Keys : c \in CoreHolds(spec, k, CoreOf(k))
<1>1. /\ SlotsOK(table, LimitOf(spec)) /\ \E J : table \in Tables(J)
  BY DEF KeyedInv, Sound
<1>2. ASSUME NEW k \in Keys
      PROVE  Tidy(I, spec, anc, CoreOf(k)) /\ CoreHolds(spec, k, CoreOf(k)) \subseteq AllHeld(table)
  <2>1. CASE k \in Tracked(table)
    <3> DEFINE s == table.index[k]
    <3>1. CoreOf(k) = table.slab[s].core /\ s \in Used(table) /\ table.slab[s].key = k
      BY <1>1, <2>1 DEF CoreOf, Tracked, SlotsOK
    <3>2. CoreHolds(spec, k, CoreOf(k)) = SlotHolds(table, s)
      BY <3>1 DEF SlotHolds
    <3> HIDE DEF s
    <3>3. SlotHolds(table, s) \subseteq AllHeld(table)
      BY <3>1 DEF AllHeld, HeldBy
    <3> QED BY <3>1, <3>2, <3>3
  <2>2. CASE k \notin Tracked(table)
    BY <2>2, EmptyCoreHolds DEF CoreOf
  <2> QED BY <2>1, <2>2
<1>3. ASSUME NEW c \in AllHeld(table) PROVE \E k \in Keys : c \in CoreHolds(spec, k, CoreOf(k))
  <2>1. PICK s \in Used(table) : c \in SlotHolds(table, s)
    BY <1>3 DEF AllHeld, HeldBy
  <2> DEFINE k == table.slab[s].key
  <2>2. k \in Keys /\ s # NIL
    <3>1. PICK J : table \in Tables(J)
      BY <1>1
    <3>2. table.slab[s] \in Entries(J)
      BY <3>1, SlabDomain
    <3>3. s \in DOMAIN table.slab /\ table.slab \in Seq(Entries(J) \cup {Vacant})
      BY <3>1 DEF Tables, Used
    <3>4. s # 0
      BY <3>3
    <3> QED BY <3>2, <3>4 DEF Entries, NIL
  <2>3. table.index[k] = s
    BY <1>1 DEF SlotsOK
  <2>4. CoreOf(k) = table.slab[s].core
    BY <2>2, <2>3 DEF CoreOf, Tracked
  <2>5. c \in CoreHolds(spec, k, CoreOf(k))
    BY <2>1, <2>4 DEF SlotHolds
  <2> HIDE DEF k
  <2> QED BY <2>2, <2>5
<1> QED BY <1>2, <1>3

LEMMA PiecesFill ==
  ASSUME KeyedInv, NEW anc \in Instants, NEW I \in SUBSET Nat, NEW D,
         AllAccounted(table, Outlet, I, anc, D)
  PROVE  /\ \A p \in Pieces : Rising(p.items) /\ Filled(p) \subseteq D
         /\ \A p, q \in Pieces : p # q => Filled(p) \cap Filled(q) = {}
         /\ \A c \in D : \E p \in Pieces : c \in Filled(p)
<1> DEFINE N == DOMAIN sent
           held(k) == CoreHolds(spec, k, CoreOf(k))
           H == AllHeld(table)
<1>1. /\ \A s \in Used(table) : Tidy(I, spec, anc, table.slab[s].core)
      /\ H \subseteq D /\ Account(spec, sent, D \ H)
  BY DEF AllAccounted, Outlet
<1>2. /\ \A k \in Keys : Tidy(I, spec, anc, CoreOf(k)) /\ held(k) \subseteq H
      /\ \A c \in H : \E k \in Keys : c \in held(k)
  <2> HIDE DEF H
  <2>1. \A s \in Used(table) : Tidy(I, spec, anc, table.slab[s].core)
    BY <1>1
  <2> QED BY <2>1, KeysHold DEF H
<1>3. /\ \A n \in N : Rising(SentPiece(n).items) /\ Filled(SentPiece(n)) \subseteq D \ H
      /\ \A m, n \in N : m # n => Filled(SentPiece(m)) \cap Filled(SentPiece(n)) = {}
      /\ \A c \in D \ H : \E n \in N : c \in Filled(SentPiece(n))
  <2> HIDE DEF H
  <2>1. \A n \in N : Filled(SentPiece(n)) = Delivers(spec, sent[n]) /\ SentPiece(n).items = sent[n].items
    BY DEF Filled, SentPiece, Delivers
  <2> QED BY <1>1, <2>1 DEF Account
<1>4. \A k \in Keys :
        /\ \A p \in OpenPieces(k) : Rising(p.items) /\ p.key = k /\ Filled(p) \subseteq held(k)
        /\ \A p, q \in OpenPieces(k) : p # q => Filled(p) \cap Filled(q) = {}
        /\ \A c \in held(k) : \E p \in OpenPieces(k) : c \in Filled(p)
  <2>1. spec \in Policies
    BY KeyedInvFacts
  <2> QED BY <1>2, <2>1, OpenPiecesFill
<1> HIDE DEF H, N
<1>5. \A p \in Pieces : \/ \E n \in N : p = SentPiece(n)
                       \/ \E k \in Keys : p \in OpenPieces(k)
  BY PiecesAre DEF N
<1>6. /\ \A n \in N : SentPiece(n) \in Pieces
      /\ \A k \in Keys : \A p \in OpenPieces(k) : p \in Pieces
  BY PiecesAre DEF N
<1>7. \A k \in Keys : \A c \in held(k) : c[1] = k
  BY HoldsOfKey
<1> HIDE DEF held
<1>8. \A p \in Pieces : Rising(p.items) /\ Filled(p) \subseteq D
  <2> TAKE p \in Pieces
  <2>1. ASSUME NEW n \in N, p = SentPiece(n) PROVE Rising(p.items) /\ Filled(p) \subseteq D
    BY <1>3, <2>1
  <2>2. ASSUME NEW k \in Keys, p \in OpenPieces(k) PROVE Rising(p.items) /\ Filled(p) \subseteq D
    <3>1. Rising(p.items) /\ Filled(p) \subseteq held(k) /\ held(k) \subseteq H
      BY <1>2, <1>4, <2>2
    <3> QED BY <1>1, <3>1
  <2> QED BY <1>5, <2>1, <2>2
<1>9. ASSUME NEW n \in N, NEW k \in Keys, NEW p \in OpenPieces(k)
      PROVE  Filled(SentPiece(n)) \cap Filled(p) = {}
  <2>1. Filled(p) \subseteq held(k) /\ held(k) \subseteq H /\ Filled(SentPiece(n)) \subseteq D \ H
    BY <1>2, <1>3, <1>4
  <2> QED BY <2>1
<1>10. ASSUME NEW j \in Keys, NEW k \in Keys, NEW p \in OpenPieces(j), NEW q \in OpenPieces(k), p # q
       PROVE  Filled(p) \cap Filled(q) = {}
  <2>1. Filled(p) \subseteq held(j) /\ Filled(q) \subseteq held(k)
    BY <1>4
  <2>2. CASE j = k
    BY <1>4, <1>10, <2>2
  <2>3. CASE j # k
    BY <1>7, <2>1, <2>3
  <2> QED BY <2>2, <2>3
<1>11. \A p, q \in Pieces : p # q => Filled(p) \cap Filled(q) = {}
  <2> SUFFICES ASSUME NEW p \in Pieces, NEW q \in Pieces, p # q PROVE Filled(p) \cap Filled(q) = {}
    OBVIOUS
  <2>1. CASE \E m \in N : p = SentPiece(m)
    <3>1. PICK m \in N : p = SentPiece(m)
      BY <2>1
    <3>2. CASE \E n \in N : q = SentPiece(n)
      BY <1>3, <3>1, <3>2
    <3>3. CASE \E k \in Keys : q \in OpenPieces(k)
      BY <1>9, <3>1, <3>3
    <3> QED BY <1>5, <3>2, <3>3
  <2>2. CASE \E j \in Keys : p \in OpenPieces(j)
    <3>1. PICK j \in Keys : p \in OpenPieces(j)
      BY <2>2
    <3>2. CASE \E n \in N : q = SentPiece(n)
      <4>1. PICK n \in N : q = SentPiece(n)
        BY <3>2
      <4>2. Filled(SentPiece(n)) \cap Filled(p) = {}
        BY <1>9, <3>1
      <4> QED BY <4>1, <4>2
    <3>3. CASE \E k \in Keys : q \in OpenPieces(k)
      BY <1>10, <3>1, <3>3
    <3> QED BY <1>5, <3>2, <3>3
  <2> QED BY <1>5, <2>1, <2>2
<1>12. ASSUME NEW c \in D PROVE \E p \in Pieces : c \in Filled(p)
  <2>1. CASE c \in H
    <3>1. PICK k \in Keys : c \in held(k)
      BY <1>2, <2>1 DEF held
    <3> QED BY <1>4, <1>6, <3>1 DEF held
  <2>2. CASE c \notin H
    BY <1>3, <1>6, <2>2
  <2> QED BY <2>1, <2>2
<1> QED BY <1>8, <1>11, <1>12

-----------------------------------------------------------------------------
(* The property. *)

\* The items arrived at instants the clock can show.
ArrivalsInTime == \A i \in DOMAIN taken : taken[i].at \in Instants

LEMMA ArrivalsStep ==
  ASSUME KeyedInv, ArrivalsInTime, [Next]_vars PROVE ArrivalsInTime'
<1>1. CASE UNCHANGED taken
  BY <1>1 DEF ArrivalsInTime
<1>2. ASSUME NEW key \in Keys, Process(key) PROVE ArrivalsInTime'
  <2> DEFINE e == [key |-> key, at |-> now]
             n == Len(taken)
             more == Append(taken, e)
  <2>1. taken' = more /\ now \in Instants /\ taken \in Seq(Arrivals) /\ e.at = now
    BY <1>2, KeyedInvFacts DEF KeyedInv, Process
  <2> HIDE DEF e
  <2>2. n \in Nat /\ DOMAIN more = 1..(n + 1) /\ more[n + 1] = e /\ DOMAIN taken = 1..n
        /\ \A i \in 1..n : more[i] = taken[i]
    BY <2>1
  <2> HIDE DEF more, n
  <2>3. ASSUME NEW i \in DOMAIN more PROVE more[i].at \in Instants
    <3>1. i = n + 1 \/ i \in 1..n
      BY <2>2, <2>3
    <3> QED BY <2>1, <2>2, <3>1 DEF ArrivalsInTime
  <2> QED BY <2>1, <2>3 DEF ArrivalsInTime
<1> QED BY <1>1, <1>2 DEF Next, Clock, Tick, Flush, Dropped, vars

\* What is demanded for an item, and nothing else, names it.
LEMMA DemandOfItem ==
  ASSUME NEW policy, NEW seq, NEW anc, NEW i \in 1..Len(seq)
  PROVE  /\ \A c \in DemandOf(policy, seq, anc) :
              c[2] = i => c[1] = seq[i].key /\ c[3] \in Marks(policy, anc, seq[i].at)
         /\ \A m \in Marks(policy, anc, seq[i].at) : <<seq[i].key, i, m>> \in DemandOf(policy, seq, anc)
BY DEF DemandOf, Places

LEMMA EachItemHolds ==
  ASSUME KeyedInv, TimelyInv, AccountInv, ArrivalsInTime PROVE EachItemInItsWindows
<1> SUFFICES ASSUME ~failed
             PROVE  /\ \A p \in Pieces : \A i \in DOMAIN p.items :
                         taken[p.items[i]].key = p.key /\ (i > 1 => p.items[i - 1] < p.items[i])
                    /\ \A i \in Ids :
                         LET holding == {p \in Pieces : i \in ToSet(p.items)}
                             homes == Homes(taken[i].at)
                         IN IF spec.kind = "sliding"
                            THEN /\ {p.start : p \in holding} = homes
                                 /\ Cardinality(holding) = Cardinality(homes)
                            ELSE Cardinality(holding) = 1
  BY DEF EachItemInItsWindows
<1> DEFINE anc == Or(anchor, now)
           D == DemandOf(spec, taken, anc)
           P == Pieces
<1>1. /\ spec \in Policies /\ Ids \in SUBSET Nat /\ anc \in Instants
      /\ (anchor # None => anc = anchor /\ anchor \in Instants)
  <2>1. (anchor \in Instants \/ anchor = None) /\ now \in Instants
    BY KeyedInvFacts DEF KeyedInv
  <2> QED BY <2>1, KeyedInvFacts DEF Or, Ids
<1>2. AllAccounted(table, Outlet, Ids, anc, D)
  <2> HIDE DEF anc
  <2> QED BY <1>1, AccountInvFacts DEF Ids
<1> HIDE DEF D, anc
<1>3. /\ \A p \in P : Rising(p.items) /\ Filled(p) \subseteq D
      /\ \A p, q \in P : p # q => Filled(p) \cap Filled(q) = {}
      /\ \A c \in D : \E p \in P : c \in Filled(p)
  BY <1>1, <1>2, PiecesFill
<1>4. \A p \in P : \A i \in ToSet(p.items) : <<p.key, i, Mark(spec, p.start)>> \in Filled(p)
  BY DEF Filled, Holds
<1> HIDE DEF P
<1>5. \A p \in P : \A i \in DOMAIN p.items :
        taken[p.items[i]].key = p.key /\ (i > 1 => p.items[i - 1] < p.items[i])
  <2> SUFFICES ASSUME NEW p \in P, NEW i \in DOMAIN p.items
               PROVE  taken[p.items[i]].key = p.key /\ (i > 1 => p.items[i - 1] < p.items[i])
    OBVIOUS
  <2> DEFINE item == p.items[i]
             c == <<p.key, item, Mark(spec, p.start)>>
  <2>1. c \in D /\ c[1] = p.key /\ c[2] = item
    <3>1. item \in ToSet(p.items)
      BY DEF ToSet
    <3> QED BY <1>3, <1>4, <3>1
  <2> HIDE DEF c
  <2>2. item \in 1..Len(taken)
    BY <2>1, DemandItems DEF D
  <2>3. taken[item].key = p.key
    <3> HIDE DEF item
    <3> QED BY <2>1, <2>2, DemandOfItem DEF D
  <2> QED BY <1>3, <2>3 DEF Rising
<1>6. ASSUME NEW i \in Ids
      PROVE  LET holding == {p \in P : i \in ToSet(p.items)}
                 homes == Homes(taken[i].at)
             IN IF spec.kind = "sliding"
                THEN /\ {p.start : p \in holding} = homes
                     /\ Cardinality(holding) = Cardinality(homes)
                ELSE Cardinality(holding) = 1
  <2> DEFINE at == taken[i].at
             key == taken[i].key
             M == Marks(spec, anchor, at)
             holding == {p \in P : i \in ToSet(p.items)}
  <2>1. anchor \in Instants /\ anc = anchor /\ at \in Instants
    <3>1. taken # <<>>
      <4>1. Len(<<>>) = 0 /\ 1..0 = {}
        OBVIOUS
      <4> QED BY <1>6, <4>1 DEF Ids
    <3>2. anchor # None
      BY <3>1 DEF AccountInv
    <3>3. i \in DOMAIN taken
      <4>1. taken \in Seq(Arrivals)
        BY DEF KeyedInv
      <4> QED BY <4>1 DEF Ids
    <3> QED BY <1>1, <3>2, <3>3 DEF ArrivalsInTime
  <2>2. /\ \A c \in D : c[2] = i => c[1] = key /\ c[3] \in M
        /\ \A m \in M : <<key, i, m>> \in D
    BY <2>1, DemandOfItem DEF D, Ids
  <2> HIDE DEF M
  <2>3. \A p \in holding : /\ <<key, i, Mark(spec, p.start)>> \in Filled(p)
                           /\ Mark(spec, p.start) \in M
    <3> TAKE p \in holding
    <3> DEFINE c == <<p.key, i, Mark(spec, p.start)>>
    <3>1. c \in Filled(p) /\ c \in D /\ c[1] = p.key /\ c[2] = i /\ c[3] = Mark(spec, p.start)
      BY <1>3, <1>4
    <3>2. p.key = key /\ Mark(spec, p.start) \in M
      <4> HIDE DEF c
      <4> QED BY <2>2, <3>1
    <3> QED BY <3>1, <3>2
  <2>4. \A m \in M : \E p \in holding : Mark(spec, p.start) = m
    <3> TAKE m \in M
    <3>1. PICK p \in P : <<key, i, m>> \in Filled(p)
      BY <1>3, <2>2
    <3>2. i \in ToSet(p.items) /\ m = Mark(spec, p.start)
      BY <3>1 DEF Filled, Holds
    <3> QED BY <3>2
  <2>5. \A p, q \in holding : Mark(spec, p.start) = Mark(spec, q.start) => p = q
    <3> SUFFICES ASSUME NEW p \in holding, NEW q \in holding,
                        Mark(spec, p.start) = Mark(spec, q.start), p # q
                 PROVE  FALSE
      OBVIOUS
    <3>1. <<key, i, Mark(spec, p.start)>> \in Filled(p) \cap Filled(q)
      BY <2>3
    <3>2. p \in P /\ q \in P
      OBVIOUS
    <3> QED BY <1>3, <3>1, <3>2
  <2> HIDE DEF holding, at
  <2>6. CASE spec.kind = "sliding"
    <3> DEFINE homes == Homes(at)
               f == [p \in holding |-> p.start]
    <3>1. homes = M /\ IsFiniteSet(homes)
      BY <1>1, <2>1, <2>6, HomesOf DEF M
    <3> HIDE DEF homes
    <3>2. \A x : Mark(spec, x) = x
      BY <2>6 DEF Mark
    <3>3. /\ \A p \in holding : p.start \in homes
          /\ \A m \in homes : \E p \in holding : p.start = m
          /\ \A p, q \in holding : p.start = q.start => p = q
      <4>1. \A p \in holding : Mark(spec, p.start) = p.start
        BY <3>2
      <4>2. \A p \in holding : p.start \in homes
        BY <2>3, <3>1, <4>1
      <4>3. \A m \in homes : \E p \in holding : p.start = m
        BY <2>4, <3>1, <4>1
      <4>4. \A p, q \in holding : p.start = q.start => p = q
        BY <2>5, <4>1
      <4> QED BY <4>2, <4>3, <4>4
    <3>4. {p.start : p \in holding} = homes
      BY <3>3
    <3>5. f \in Injection(holding, homes) /\ f \in Surjection(holding, homes)
      BY <3>3 DEF Injection, Surjection, IsInjective
    <3> HIDE DEF f
    <3>6. Cardinality(holding) = Cardinality(homes)
      BY <3>1, <3>5, FS_Injection
    <3> QED BY <2>6, <3>4, <3>6 DEF homes, holding, at
  <2>7. CASE spec.kind # "sliding"
    <3>1. M = {0} /\ \A x : Mark(spec, x) = 0
      BY <2>7 DEF M, Marks, Mark
    <3>2. PICK p \in holding : TRUE
      BY <2>4, <3>1
    <3>3. holding = {p}
      BY <2>5, <3>1, <3>2
    <3>4. Cardinality(holding) = 1
      BY <3>3, FS_Singleton
    <3> QED BY <2>7, <3>4 DEF holding, at
  <2> QED BY <2>6, <2>7
<1> QED BY <1>5, <1>6 DEF P

\* No item is lost, duplicated or given to another key by joining, splitting, evicting,
\* expiring and flushing windows: each is once in every window that it belongs to, in
\* order of arrival.
THEOREM KeyedEachItem == Spec => []EachItemInItsWindows
<1>1. Init => ArrivalsInTime
  BY DEF Init, ArrivalsInTime
<1>2. KeyedInv /\ ArrivalsInTime /\ [Next]_vars => ArrivalsInTime'
  BY ArrivalsStep
<1>3. KeyedInv /\ TimelyInv /\ AccountInv /\ ArrivalsInTime => EachItemInItsWindows
  BY EachItemHolds
<1> QED BY <1>1, <1>2, <1>3, KeyedInvariant, AccountInvariant, PTL DEF Spec
=============================================================================
