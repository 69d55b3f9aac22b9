-------------------------- MODULE LineReaderProofs --------------------------
(***************************************************************************)
(* The line sources' memory is bounded by their limits, for every input,   *)
(* every limit and every capacity.  TypeOK is inductive as it stands: what *)
(* is added to a line fits the room that the line leaves of the limit.     *)
(* And the lines do not depend on where the reader cuts its bytes: see     *)
(* Split below.                                                            *)
(***************************************************************************)
EXTENDS LineReader, Integers, FiniteSetTheorems, SequenceTheorems,
        WellFoundedInduction, TLAPS

\* A configuration's limits are numbers, at least one.
LEMMA ConfigurationLimits ==
    ASSUME NEW c \in Configurations
    PROVE  c.capacity \in Nat \ {0} /\ c.max_len \in Nat \ {0}
  BY LineReaderAssumption DEF Configurations, AtLeastOne

\* The result for a line is a well-formed result.
LEMMA DecodedType ==
    ASSUME NEW s \in Seq(Bytes), NEW n \in Nat
    PROVE  Decoded(s, n) \in Results
  <1>1. s \in Seq(Bytes \cup {"U+FFFD"})
    OBVIOUS
  <1>2. [i \in DOMAIN s |-> IF Encoded(s, i) THEN s[i] ELSE "U+FFFD"]
            \in Seq(Bytes \cup {"U+FFFD"})
    <2>1. \A i \in DOMAIN s : (IF Encoded(s, i) THEN s[i] ELSE "U+FFFD")
                                  \in Bytes \cup {"U+FFFD"}
      OBVIOUS
    <2>2. DOMAIN s = 1..Len(s) /\ Len(s) \in Nat
      OBVIOUS
    <2> QED BY <2>1, <2>2
  <1>3. <<>> \in Seq(Bytes \cup {"U+FFFD"})
    OBVIOUS
  <1> QED BY <1>1, <1>2, <1>3 DEF Decoded, Results, Item, Failure

\* Taking the terminator's "cr" off leaves a sequence of bytes.
LEMMA WithoutCrType ==
    ASSUME NEW s \in Seq(Bytes)
    PROVE  WithoutCr(s) \in Seq(Bytes)
  BY DEF WithoutCr

\* What read_one keeps of a chunk fits the limit: the heart of the bound.
LEMMA KeptFits ==
    ASSUME TypeOK, NEW n \in 0..Len(buf)
    PROVE  Kept(n) \in Seq(Bytes) /\ Len(Kept(n)) <= conf.max_len
  <1>0. conf.max_len \in Nat
    BY ConfigurationLimits DEF TypeOK
  <1>1. CASE overflowed
    BY <1>1 DEF Kept, TypeOK
  <1>2. CASE ~overflowed /\ n <= Room
    <2>1. SubSeq(buf, 1, n) \in Seq(Bytes) /\ Len(SubSeq(buf, 1, n)) = n
      BY DEF TypeOK
    <2>2. Len(line) + n <= conf.max_len
      BY <1>0, <1>2 DEF Room, TypeOK
    <2>3. Kept(n) = line \o SubSeq(buf, 1, n)
      BY <1>2 DEF Kept
    <2>4. line \in Seq(Bytes)
      BY DEF TypeOK
    <2> QED BY <2>1, <2>2, <2>3, <2>4
  <1>3. CASE ~overflowed /\ n > Room /\ conf.overflow = "Truncate"
    <2>1. Room \in 0..Len(buf)
      BY <1>0, <1>3 DEF Room, TypeOK
    <2>2. SubSeq(buf, 1, Room) \in Seq(Bytes) /\ Len(SubSeq(buf, 1, Room)) = Room
      BY <2>1 DEF TypeOK
    <2>3. Kept(n) = line \o SubSeq(buf, 1, Room)
      BY <1>3, <2>1 DEF Kept
    <2>4. Len(line) + Room = conf.max_len /\ line \in Seq(Bytes)
      BY <1>0 DEF Room, TypeOK
    <2> QED BY <2>2, <2>3, <2>4
  <1>4. CASE ~overflowed /\ n > Room /\ conf.overflow # "Truncate"
    <2>1. Room \in Int
      BY <1>0 DEF Room, TypeOK
    <2>2. Kept(n) = <<>>
      BY <1>4, <2>1 DEF Kept
    <2> QED BY <2>2, <1>0
  <1>5. Room \in Int
    BY <1>0 DEF Room, TypeOK
  <1> QED BY <1>1, <1>2, <1>3, <1>4, <1>5

\* The end of a line keeps the types of what it writes.
LEMMA EndLineType ==
    ASSUME TypeOK, NEW s \in Seq(Bytes), NEW over \in BOOLEAN, EndLine(s, over)
    PROVE  /\ line_no' \in Nat
           /\ pulled' \in Seq(Results) /\ open' \in BOOLEAN
           /\ line' = <<>> /\ saw_bytes' \in BOOLEAN /\ overflowed' \in BOOLEAN
  <1>1. line_no' = line_no + 1 /\ line_no + 1 \in Nat
    BY DEF EndLine, TypeOK
  <1>2. line' = <<>> /\ saw_bytes' \in BOOLEAN /\ overflowed' \in BOOLEAN
    BY DEF EndLine
  <1>3. pulled' \in Seq(Results) /\ open' \in BOOLEAN
    <2>1. CASE over /\ conf.overflow = "Skip"
      BY <2>1 DEF EndLine, TypeOK
    <2>2. CASE ~(over /\ conf.overflow = "Skip")
      <3> DEFINE bytes == IF over THEN s ELSE WithoutCr(s)
      <3>1. bytes \in Seq(Bytes)
        BY WithoutCrType
      <3>2. Decoded(bytes, line_no + 1) \in Results
        BY <1>1, <3>1, DecodedType
      <3>3. Yield(Decoded(bytes, line_no + 1))
        BY <2>2 DEF EndLine
      <3> QED BY <3>2, <3>3 DEF Yield, TypeOK
    <2> QED BY <2>1, <2>2
  <1> QED BY <1>1, <1>2, <1>3

LEMMA InitType == Init => TypeOK
  <1> SUFFICES ASSUME Init PROVE TypeOK
    OBVIOUS
  <1>1. conf.capacity \in Nat /\ conf.max_len \in Nat
    BY ConfigurationLimits DEF Init
  <1>2. input \in Seq(Bytes)
    BY LineReaderAssumption DEF Init, Inputs
  <1>3. buf = <<>> /\ line = <<>> /\ pulled = <<>> /\ unread = input
    BY DEF Init
  <1>4. buf \in Seq(Bytes) /\ Len(buf) <= conf.capacity
    BY <1>1, <1>3
  <1>5. line \in Seq(Bytes) /\ Len(line) <= conf.max_len
    BY <1>1, <1>3
  <1>6. pulled \in Seq(Results)
    BY <1>3
  <1> QED BY <1>2, <1>3, <1>4, <1>5, <1>6 DEF Init, TypeOK

LEMMA StepType == TypeOK /\ [Next]_vars => TypeOK'
  <1> SUFFICES ASSUME TypeOK, [Next]_vars PROVE TypeOK'
    OBVIOUS
  <1>0. conf.capacity \in Nat \ {0} /\ conf.max_len \in Nat \ {0}
    BY ConfigurationLimits DEF TypeOK
  <1>1. CASE Fill
    <2>1. PICK n \in 1..conf.capacity :
              /\ n <= Len(unread)
              /\ buf' = SubSeq(unread, 1, n)
              /\ unread' = SubSeq(unread, n + 1, Len(unread))
      BY <1>1 DEF Fill
    <2>2. unread \in Seq(Bytes) /\ n \in 1..Len(unread)
      BY <1>0, <2>1 DEF TypeOK
    <2>3. buf' \in Seq(Bytes) /\ Len(buf') = n
      BY <2>1, <2>2
    <2>4. unread' \in Seq(Bytes)
      BY <2>1, <2>2
    <2> QED BY <1>0, <1>1, <2>3, <2>4 DEF Fill, TypeOK
  <1>2. CASE Interrupted
    BY <1>2 DEF Interrupted, vars, TypeOK
  <1>3. CASE ReadFails
    <2>1. Failure("io", 0) \in Results
      BY DEF Failure, Results
    <2>2. pulled' \in Seq(Results) /\ open' \in BOOLEAN
      BY <1>3, <2>1 DEF ReadFails, Yield, TypeOK
    <2> QED BY <1>3, <2>2 DEF ReadFails, TypeOK
  <1>4. CASE EndOfInput
    <2>1. CASE saw_bytes
      <3>1. EndLine(line, overflowed)
        BY <1>4, <2>1 DEF EndOfInput
      <3>2. /\ line_no' \in Nat /\ pulled' \in Seq(Results)
            /\ open' \in BOOLEAN /\ line' = <<>>
            /\ saw_bytes' \in BOOLEAN /\ overflowed' \in BOOLEAN
        BY <3>1, EndLineType DEF TypeOK
      <3> QED BY <1>0, <1>4, <3>2 DEF EndOfInput, TypeOK
    <2>2. CASE ~saw_bytes
      BY <1>4, <2>2 DEF EndOfInput, TypeOK
    <2> QED BY <2>1, <2>2
  <1>5. CASE Reject
    <2>1. line_no' = line_no + 1 /\ line_no + 1 \in Nat
      BY <1>5 DEF Reject, TypeOK
    <2>2. Failure("LineTooLong", line_no + 1) \in Results
      BY <2>1 DEF Failure, Results
    <2>3. pulled' \in Seq(Results) /\ open' \in BOOLEAN
      BY <1>5, <2>2 DEF Reject, Yield, TypeOK
    <2> QED BY <1>5, <2>1, <2>3 DEF Reject, TypeOK
  <1>6. CASE Consume
    <2>0. PICK n \in 0..Len(buf) :
              /\ buf' = SubSeq(buf, n + 2, Len(buf))
              /\ IF n < Len(buf)
                 THEN EndLine(Kept(n), overflowed \/ n > Room)
                 ELSE /\ line' = Kept(n)
                      /\ saw_bytes' = TRUE
                      /\ overflowed' = (overflowed \/ n > Room)
                      /\ UNCHANGED <<line_no, pulled, open>>
      BY <1>6 DEF Consume
    <2>1. buf' \in Seq(Bytes) /\ Len(buf') <= conf.capacity
      BY <1>0, <2>0 DEF TypeOK
    <2>2. Kept(n) \in Seq(Bytes) /\ Len(Kept(n)) <= conf.max_len
      BY KeptFits
    <2>3. (overflowed \/ n > Room) \in BOOLEAN
      OBVIOUS
    <2>4. CASE n < Len(buf)
      <3>1. EndLine(Kept(n), overflowed \/ n > Room)
        BY <2>0, <2>4
      <3>2. /\ line_no' \in Nat /\ pulled' \in Seq(Results)
            /\ open' \in BOOLEAN /\ line' = <<>>
            /\ saw_bytes' \in BOOLEAN /\ overflowed' \in BOOLEAN
        BY <2>2, <2>3, <3>1, EndLineType
      <3> QED BY <1>0, <1>6, <2>1, <3>2 DEF Consume, TypeOK
    <2>5. CASE ~(n < Len(buf))
      BY <1>6, <2>0, <2>1, <2>2, <2>5 DEF Consume, TypeOK
    <2> QED BY <2>4, <2>5
  <1>7. CASE UNCHANGED vars
    BY <1>7 DEF vars, TypeOK
  <1> QED BY <1>1, <1>2, <1>3, <1>4, <1>5, <1>6, <1>7 DEF Next

\* The line under construction never holds more than max_line_len bytes and
\* the read buffer never more than its capacity, for every input and every
\* limit (LineReader::read_one).
THEOREM LineReaderTypeOK == Spec => []TypeOK
  BY InitType, StepType, PTL DEF Spec

-----------------------------------------------------------------------------
(***************************************************************************)
(* The pulls return what splitting the whole input returns.  Split says    *)
(* where the reader stands in the input: p bytes were consumed, and the    *)
(* line under construction began at some b, which is where the splitting   *)
(* begins that line as well; what read_one holds of the line and what was  *)
(* pulled before it are then functions of b and p alone, wherever the      *)
(* pieces were cut.                                                        *)
(***************************************************************************)

\* The buffer and the unread bytes are the input without its first p bytes.
Rest(p) ==
    /\ Len(input) = p + Len(buf) + Len(unread)
    /\ \A i \in 1..Len(buf) : buf[i] = input[p + i]
    /\ \A i \in 1..Len(unread) : unread[i] = input[p + Len(buf) + i]

\* What is kept of a line of which the bytes from b to p were seen.
KeptOf(b, p) ==
    IF p - b + 1 <= conf.max_len THEN SubSeq(input, b, p)
    ELSE IF conf.overflow = "Truncate" THEN SubSeq(input, b, b + conf.max_len - 1)
    ELSE <<>>

\* A line begins at b and none ends between b and p.
Within(b, p) ==
    /\ b - 1 \in {0} \cup Ends
    /\ \A x \in Ends : x >= b => x > p

\* The line under construction began at b and its bytes up to p were seen.
Begun(b, p) ==
    /\ b \in 1 .. p + 2 /\ (b = p + 2 => p = Len(input))
    /\ Within(b, p)
    /\ saw_bytes <=> p >= b
    /\ overflowed <=> p - b + 1 > conf.max_len
    /\ overflowed => conf.overflow # "Error"
    /\ line = KeptOf(b, p)
    /\ line_no = Cardinality({x \in Ends : x < b})
    /\ Len(pulled) = Cardinality({x \in Returned : x < b})

\* The pulls so far were items, each that of its line.
SoFar ==
    \A i \in DOMAIN pulled :
        /\ pulled[i].kind = "item"
        /\ \E e \in Returned : UpTo(Returned, e) = i /\ pulled[i] = Expected(e)

Standing ==
    \E p \in Nat : Rest(p) /\ (open => SoFar /\ \E b \in Nat : Begun(b, p))

Split == TypeOK /\ AsSplit /\ Standing

\* There are finitely many ends.
LEMMA EndsFinite ==
    ASSUME TypeOK
    PROVE  /\ Ends \subseteq 1 .. Len(input) + 1 /\ IsFiniteSet(Ends)
           /\ Returned \subseteq Ends /\ IsFiniteSet(Returned)
  <1>1. Len(input) \in Nat /\ DOMAIN input = 1..Len(input)
    BY DEF TypeOK
  <1>2. Ends \subseteq 1 .. Len(input) + 1
    <2>1. CASE input # <<>>
      BY <1>1, <2>1 DEF Ends
    <2>2. CASE input = <<>>
      BY <1>1, <2>2 DEF Ends
    <2> QED BY <2>1, <2>2
  <1>3. IsFiniteSet(Ends)
    <2>1. IsFiniteSet(1 .. Len(input) + 1)
      BY <1>1, FS_Interval
    <2> HIDE DEF Ends
    <2> QED BY <1>2, <2>1, FS_Subset
  <1>4. Returned \subseteq Ends
    BY DEF Returned
  <1> QED BY <1>2, <1>3, <1>4, FS_Subset

\* An end inside the input is an "lf".
LEMMA EndByte ==
    ASSUME TypeOK, NEW x \in Ends, x # Len(input) + 1
    PROVE  input[x] = "lf"
  BY DEF Ends

\* An end behind the input ends a line that no "lf" ended.
LEMMA UnendedInput ==
    ASSUME TypeOK, Len(input) + 1 \in Ends
    PROVE  input # <<>> /\ input[Len(input)] # "lf"
  <1>1. Len(input) + 1 \notin DOMAIN input
    BY DEF TypeOK
  <1> QED BY <1>1 DEF Ends

\* "Smaller" among the natural numbers is well-founded.
LEMMA SmallerWellFounded ==
    IsWellFoundedOn({p \in Nat \X Nat : p[1] < p[2]}, Nat)
  BY NatLessThanWellFounded DEF OpToRel

\* A set of natural numbers that is not empty has a least member.
LEMMA LeastMember ==
    ASSUME NEW S \in SUBSET Nat, S # {}
    PROVE  \E n \in S : \A m \in S : n <= m
  <1> DEFINE less == {p \in Nat \X Nat : p[1] < p[2]}
  <1>1. PICK n \in S : \A m \in S : <<m, n>> \notin less
    <2>1. IsWellFoundedOn(less, Nat)
      BY SmallerWellFounded
    <2> HIDE DEF less
    <2> QED BY <2>1, WFMin
  <1>2. ASSUME NEW m \in S PROVE n <= m
    <2>1. m \in Nat /\ n \in Nat
      OBVIOUS
    <2>2. m < n => <<m, n>> \in less
      BY <2>1
    <2> QED BY <1>1, <2>1, <2>2
  <1> QED BY <1>2

\* Every byte is in a line, which ends somewhere; the first end is its end.
LEMMA FirstEnd ==
    ASSUME TypeOK, NEW q \in 1..Len(input)
    PROVE  \E e \in Ends : e >= q /\ \A x \in Ends : x >= q => x >= e
  <1> DEFINE T == {x \in Ends : x >= q}
  <1>1. Len(input) \in Nat /\ DOMAIN input = 1..Len(input) /\ input # <<>>
    BY DEF TypeOK
  <1>2. T # {}
    <2>1. CASE input[Len(input)] = "lf"
      <3>1. Len(input) \in T
        BY <1>1, <2>1 DEF Ends
      <3> QED BY <3>1
    <2>2. CASE input[Len(input)] # "lf"
      <3>1. Len(input) + 1 \in T
        BY <1>1, <2>2 DEF Ends
      <3> QED BY <3>1
    <2> QED BY <2>1, <2>2
  <1>3. T \subseteq Nat
    BY <1>1, EndsFinite
  <1>4. PICK e \in T : \A y \in T : e <= y
    <2> HIDE DEF T
    <2> QED BY <1>2, <1>3, LeastMember
  <1> QED BY <1>4

\* The line that began at b ends at the first end from b on.
LEMMA LineFrom ==
    ASSUME TypeOK, NEW b \in Nat \ {0}, NEW e \in Ends, b <= e, Within(b, e - 1)
    PROVE  LineTo(e) = SubSeq(input, b, e - 1) /\ Len(LineTo(e)) = e - b
  <1>1. e \in 1 .. Len(input) + 1 /\ Ends \subseteq Nat
    BY EndsFinite DEF TypeOK
  <1>2. b - 1 \in {0} \cup Ends /\ b - 1 < e /\ \A x \in Ends : x < e => x <= b - 1
    BY <1>1 DEF Within
  <1>3. \A p \in {0} \cup Ends : p < e /\ (\A x \in Ends : x < e => x <= p) => p = b - 1
    BY <1>1, <1>2
  <1>4. Before(e) = b - 1
    <2> HIDE DEF Ends
    <2> QED BY <1>2, <1>3 DEF Before
  <1>5. LineTo(e) = SubSeq(input, b, e - 1)
    BY <1>1, <1>4 DEF LineTo
  <1>6. Len(SubSeq(input, b, e - 1)) = e - b
    BY <1>1 DEF TypeOK
  <1> QED BY <1>5, <1>6

\* Counting the ends before the next line: one more if this one's is among them.
LEMMA OneMore ==
    ASSUME TypeOK, NEW b \in Nat \ {0}, NEW e \in Ends, b <= e, Within(b, e - 1),
           NEW S \in SUBSET Ends
    PROVE  /\ Cardinality({x \in S : x < b}) \in Nat
           /\ e \in S => /\ UpTo(S, e) = Cardinality({x \in S : x < b}) + 1
                         /\ Cardinality({x \in S : x < e + 1})
                              = Cardinality({x \in S : x < b}) + 1
           /\ e \notin S => {x \in S : x < e + 1} = {x \in S : x < b}
  <1> DEFINE low == {x \in S : x < b}
  <1>1. Ends \subseteq Nat /\ IsFiniteSet(Ends) /\ e \in Nat
    BY EndsFinite DEF TypeOK
  <1>2. IsFiniteSet(low)
    BY <1>1, FS_Subset
  <1>3. Cardinality(low) \in Nat
    BY <1>2, FS_CardinalityType
  <1>4. \A x \in S : x < e + 1 <=> (x < b \/ x = e)
    BY <1>1 DEF Within
  <1>5. {x \in S : x <= e} = {x \in S : x < e + 1}
    <2>1. \A x \in S : x \in Nat
      BY <1>1
    <2>2. \A x \in S : x <= e <=> x < e + 1
      BY <1>1, <2>1
    <2> QED BY <2>2
  <1>6. ASSUME e \in S
        PROVE  /\ UpTo(S, e) = Cardinality(low) + 1
               /\ Cardinality({x \in S : x < e + 1}) = Cardinality(low) + 1
    <2>1. {x \in S : x < e + 1} = low \cup {e}
      BY <1>4, <1>6
    <2>2. e \notin low
      BY <1>1
    <2>3. Cardinality(low \cup {e}) = Cardinality(low) + 1
      <3> HIDE DEF low
      <3> QED BY <1>2, <2>2, FS_AddElement
    <2> QED BY <1>5, <2>1, <2>3 DEF UpTo
  <1>7. e \notin S => {x \in S : x < e + 1} = low
    BY <1>4
  <1> QED BY <1>3, <1>6, <1>7

\* The pieces of a line join: the bytes kept so far and m more of the buffer.
LEMMA Joined ==
    ASSUME TypeOK, NEW p \in Nat, Rest(p), NEW b \in 1 .. p + 1, NEW m \in 0..Len(buf)
    PROVE  SubSeq(input, b, p) \o SubSeq(buf, 1, m) = SubSeq(input, b, p + m)
  <1>1. /\ input \in Seq(Bytes) /\ buf \in Seq(Bytes)
        /\ Len(input) \in Nat /\ Len(buf) \in Nat /\ Len(unread) \in Nat
        /\ p \in Nat /\ p + Len(buf) <= Len(input)
    BY DEF TypeOK, Rest
  <1> DEFINE head == SubSeq(input, b, p)
             tail == SubSeq(buf, 1, m)
             both == SubSeq(input, b, p + m)
  <1>2. head \in Seq(Bytes) /\ Len(head) = p - b + 1
        /\ \A i \in 1 .. p - b + 1 : head[i] = input[b + i - 1]
    BY <1>1
  <1>3. tail \in Seq(Bytes) /\ Len(tail) = m /\ \A i \in 1..m : tail[i] = buf[i]
    BY <1>1
  <1>4. both \in Seq(Bytes) /\ Len(both) = p + m - b + 1
        /\ \A i \in 1 .. p + m - b + 1 : both[i] = input[b + i - 1]
    BY <1>1
  <1>5. \A i \in 1..m : tail[i] = input[p + i]
    BY <1>1, <1>3 DEF Rest
  <1> HIDE DEF head, tail, both
  <1>6. Len(head \o tail) = Len(both) /\ head \o tail \in Seq(Bytes)
    <2>1. Len(head \o tail) = Len(head) + Len(tail) /\ head \o tail \in Seq(Bytes)
      BY <1>2, <1>3, ConcatProperties
    <2>2. Len(head) + Len(tail) = Len(both)
      BY <1>1, <1>2, <1>3, <1>4
    <2> QED BY <2>1, <2>2
  <1>7. ASSUME NEW i \in 1..Len(both) PROVE (head \o tail)[i] = both[i]
    <2>1. CASE i <= Len(head)
      <3>1. (head \o tail)[i] = head[i]
        BY <1>1, <1>2, <1>3, <2>1
      <3> QED BY <1>1, <1>2, <1>4, <2>1, <3>1
    <2>2. CASE i > Len(head)
      <3> DEFINE j == i - Len(head)
      <3>1. (head \o tail)[i] = tail[j]
        BY <1>1, <1>2, <1>3, <1>4, <2>2
      <3>2. j \in 1..m /\ p + j = b + i - 1
        BY <1>1, <1>2, <1>4, <2>2
      <3> HIDE DEF j
      <3>3. tail[j] = input[b + i - 1]
        BY <1>5, <3>2
      <3>4. i \in 1 .. p + m - b + 1
        BY <1>4
      <3> QED BY <1>4, <3>1, <3>3, <3>4
    <2>3. i <= Len(head) \/ i > Len(head)
      BY <1>1, <1>2, <1>4
    <2> QED BY <2>1, <2>2, <2>3
  <1>8. head \o tail = both
    <2>1. both \in Seq(Bytes)
      BY <1>4
    <2> QED BY <1>6, <1>7, <2>1, SeqEqual
  <1> QED BY <1>8 DEF head, tail, both

\* What read_one keeps after a chunk is what is to be kept of the bytes seen: the
\* limit is met at the same byte wherever the pieces were cut.
LEMMA KeptRight ==
    ASSUME TypeOK, NEW p \in Nat, Rest(p), NEW b \in 1 .. p + 1, Begun(b, p), NEW n \in 0..Len(buf), ~TooLong(n)
    PROVE  /\ Kept(n) = KeptOf(b, p + n)
           /\ (overflowed \/ n > Room) <=> (p + n - b + 1 > conf.max_len)
           /\ p + n - b + 1 > conf.max_len => conf.overflow # "Error"
  <1>0. /\ conf.max_len \in Nat \ {0} /\ p \in Nat /\ Len(buf) \in Nat /\ n \in Nat
        /\ input \in Seq(Bytes) /\ Len(unread) \in Nat /\ p + Len(buf) <= Len(input)
    BY ConfigurationLimits DEF TypeOK, Rest
  <1>1. (overflowed <=> p - b + 1 > conf.max_len) /\ line = KeptOf(b, p)
        /\ (overflowed => conf.overflow # "Error") /\ overflowed \in BOOLEAN
    BY DEF Begun, TypeOK
  <1>2. CASE overflowed
    <2>1. p - b + 1 > conf.max_len /\ p + n - b + 1 > conf.max_len
      BY <1>0, <1>1, <1>2
    <2>2. KeptOf(b, p) = KeptOf(b, p + n)
      BY <1>0, <2>1 DEF KeptOf
    <2>3. Kept(n) = line
      BY <1>2 DEF Kept
    <2> QED BY <1>1, <1>2, <2>1, <2>2, <2>3
  <1>3. CASE ~overflowed
    <2>1. p - b + 1 <= conf.max_len
      BY <1>0, <1>1, <1>3
    <2>2. line = SubSeq(input, b, p)
      BY <1>1, <2>1 DEF KeptOf
    <2>3. Len(line) = p - b + 1
      BY <1>0, <2>2
    <2>4. Room = conf.max_len - (p - b + 1) /\ Room \in Nat
      BY <1>0, <2>1, <2>3 DEF Room
    <2>5. CASE n <= Room
      <3>1. Kept(n) = SubSeq(input, b, p + n)
        BY <1>3, <2>2, <2>5, Joined DEF Kept
      <3>2. p + n - b + 1 <= conf.max_len
        BY <1>0, <2>4, <2>5
      <3> QED BY <1>0, <1>3, <2>4, <2>5, <3>1, <3>2 DEF KeptOf
    <2>6. CASE n > Room
      <3>1. p + n - b + 1 > conf.max_len
        BY <1>0, <2>4, <2>6
      <3>2. conf.overflow # "Error"
        BY <1>3, <2>6 DEF TooLong
      <3>3. Kept(n) = IF conf.overflow = "Truncate" THEN line \o SubSeq(buf, 1, Room) ELSE <<>>
        BY <1>0, <1>3, <2>4, <2>6 DEF Kept
      <3>4. line \o SubSeq(buf, 1, Room) = SubSeq(input, b, b + conf.max_len - 1)
        <4>1. Room \in 0..Len(buf) /\ p + Room = b + conf.max_len - 1
          BY <1>0, <2>4, <2>6
        <4>2. line \o SubSeq(buf, 1, Room) = SubSeq(input, b, p + Room)
          BY <2>2, <4>1, Joined
        <4> QED BY <4>1, <4>2
      <3>5. ~(p + n - b + 1 <= conf.max_len)
        BY <1>0, <3>1
      <3>6. Kept(n) = KeptOf(b, p + n)
        <4>1. KeptOf(b, p + n) = IF conf.overflow = "Truncate"
                                   THEN SubSeq(input, b, b + conf.max_len - 1) ELSE <<>>
          BY <1>0, <3>5 DEF KeptOf
        <4>2. CASE conf.overflow = "Truncate"
          BY <3>3, <3>4, <4>1, <4>2
        <4>3. CASE conf.overflow # "Truncate"
          BY <3>3, <4>1, <4>3
        <4> QED BY <4>2, <4>3
      <3> QED BY <2>6, <3>1, <3>2, <3>6
    <2> QED BY <1>0, <2>4, <2>5, <2>6
  <1> QED BY <1>1, <1>2, <1>3

\* The first bytes of a piece of a sequence.
LEMMA Front ==
    ASSUME NEW S, NEW s \in Seq(S), NEW b \in Nat \ {0}, NEW c \in Nat, NEW m \in Nat,
           c <= Len(s), m <= c - b + 1
    PROVE  SubSeq(SubSeq(s, b, c), 1, m) = SubSeq(s, b, b + m - 1)
  <1> DEFINE whole == SubSeq(s, b, c)
             piece == SubSeq(whole, 1, m)
             same == SubSeq(s, b, b + m - 1)
  <1>1. whole \in Seq(S) /\ Len(whole) = c - b + 1
        /\ \A i \in 1 .. c - b + 1 : whole[i] = s[b + i - 1]
    OBVIOUS
  <1>2. same \in Seq(S) /\ Len(same) = m /\ \A i \in 1..m : same[i] = s[b + i - 1]
    OBVIOUS
  <1> HIDE DEF whole, same
  <1>3. piece \in Seq(S) /\ Len(piece) = m /\ \A i \in 1..m : piece[i] = whole[i]
    BY <1>1
  <1> HIDE DEF piece
  <1>4. piece = same
    BY <1>1, <1>2, <1>3
  <1> QED BY <1>4 DEF piece, same, whole

\* The splitting does not change while the source is pulled.
LEMMA SameSplitting ==
    ASSUME UNCHANGED <<conf, input>>
    PROVE  /\ Ends' = Ends /\ Returned' = Returned
           /\ \A e : Expected(e)' = Expected(e)
           /\ \A b, p : KeptOf(b, p)' = KeptOf(b, p) /\ (Within(b, p)' <=> Within(b, p))
  <1>1. Ends' = Ends
    BY DEF Ends
  <1>2. \A e : LineTo(e)' = LineTo(e)
    BY <1>1 DEF LineTo, Before
  <1>3. Returned' = Returned
    BY <1>1, <1>2 DEF Returned
  <1>4. \A e : Expected(e)' = Expected(e)
    BY <1>1, <1>2 DEF Expected, Decoded, UpTo
  <1>5. \A b, p : KeptOf(b, p)' = KeptOf(b, p) /\ (Within(b, p)' <=> Within(b, p))
    BY <1>1 DEF KeptOf, Within
  <1> QED BY <1>1, <1>3, <1>4, <1>5

\* No line is the failure of a read.
LEMMA ExpectedKind ==
    ASSUME NEW e PROVE Expected(e).kind # "io"
  BY DEF Expected, Decoded, Item, Failure

\* The pulls of an open source, if they are so far as the splitting says.
LEMMA OpenAsSplit ==
    ASSUME TypeOK, open, SoFar
    PROVE  AsSplit
  <1>1. ~IoFailed
    BY DEF IoFailed, SoFar, TypeOK
  <1> QED BY <1>1 DEF AsSplit, SoFar

\* A pull that returns the next line to return.
LEMMA PullsNext ==
    ASSUME TypeOK, SoFar, UNCHANGED <<conf, input>>,
           NEW e \in Returned, UpTo(Returned, e) = Len(pulled) + 1, Yield(Expected(e))
    PROVE  /\ AsSplit'
           /\ Len(pulled') = Len(pulled) + 1
           /\ open' => SoFar'
  <1>1. pulled \in Seq(Results) /\ Len(pulled) \in Nat
    BY DEF TypeOK
  <1>2. /\ Len(pulled') = Len(pulled) + 1 /\ DOMAIN pulled' = 1 .. Len(pulled) + 1
        /\ \A i \in DOMAIN pulled : pulled'[i] = pulled[i]
        /\ pulled'[Len(pulled) + 1] = Expected(e)
        /\ pulled' # <<>>
    BY <1>1 DEF Yield
  <1>10. open' <=> Expected(e).kind = "item"
    BY Zenon DEF Yield
  <1>3. \A i \in DOMAIN pulled' : \E f \in Returned :
            UpTo(Returned, f) = i /\ pulled'[i] = Expected(f)
    <2> SUFFICES ASSUME NEW i \in DOMAIN pulled'
                 PROVE  \E f \in Returned : UpTo(Returned, f) = i /\ pulled'[i] = Expected(f)
      OBVIOUS
    <2>1. CASE i \in DOMAIN pulled
      BY <1>2, <2>1 DEF SoFar
    <2>2. CASE i = Len(pulled) + 1
      BY <1>2, <2>2
    <2> QED BY <1>1, <1>2, <2>1, <2>2
  <1>4. \A i \in DOMAIN pulled' : pulled'[i].kind # "item" => i = Len(pulled')
    BY <1>1, <1>2 DEF SoFar
  <1>5. ~IoFailed'
    BY <1>2, ExpectedKind DEF IoFailed
  <1>6. ~open' => ~(\A i \in DOMAIN pulled' : pulled'[i].kind = "item")
    BY <1>1, <1>2, <1>10
  <1>7. \A f : UpTo(Returned, f)' = UpTo(Returned, f) /\ Expected(f)' = Expected(f)
    BY SameSplitting DEF UpTo
  <1>8. AsSplit'
    BY <1>3, <1>4, <1>5, <1>6, <1>7, SameSplitting DEF AsSplit
  <1>9. open' => SoFar'
    <2> SUFFICES ASSUME open' PROVE SoFar'
      OBVIOUS
    <2>1. \A i \in DOMAIN pulled' : pulled'[i].kind = "item"
      BY <1>1, <1>2, <1>10 DEF SoFar
    <2> QED BY <1>3, <1>7, <2>1, SameSplitting DEF SoFar
  <1> QED BY <1>2, <1>8, <1>9

\* The end of the line that began at b, which ends at e.
LEMMA LineEnded ==
    ASSUME TypeOK, SoFar, open, UNCHANGED <<conf, input>>,
           NEW b \in Nat \ {0}, NEW e \in Ends, b <= e, Within(b, e - 1),
           line_no = Cardinality({x \in Ends : x < b}),
           Len(pulled) = Cardinality({x \in Returned : x < b}),
           NEW over \in BOOLEAN, over <=> e - b > conf.max_len,
           over => conf.overflow # "Error",
           EndLine(KeptOf(b, e - 1), over)
    PROVE  /\ AsSplit' /\ (open' => SoFar')
           /\ line_no' = Cardinality({x \in Ends : x < e + 1})
           /\ Len(pulled') = Cardinality({x \in Returned : x < e + 1})
  <1>0. /\ conf.max_len \in Nat \ {0} /\ conf.overflow \in Overflows
        /\ input \in Seq(Bytes) /\ e \in 1 .. Len(input) + 1 /\ Len(input) \in Nat
        /\ Returned \subseteq Ends
    <2>1. conf.max_len \in Nat \ {0}
      BY ConfigurationLimits DEF TypeOK
    <2>2. conf.overflow \in Overflows
      BY DEF TypeOK, Configurations
    <2>3. Ends \subseteq 1 .. Len(input) + 1 /\ Returned \subseteq Ends
      BY EndsFinite
    <2> QED BY <2>1, <2>2, <2>3 DEF TypeOK
  <1>1. LineTo(e) = SubSeq(input, b, e - 1) /\ Len(LineTo(e)) = e - b
    BY LineFrom
  <1>2. /\ UpTo(Ends, e) = line_no + 1
        /\ Cardinality({x \in Ends : x < e + 1}) = line_no + 1
    <2>1. Ends \in SUBSET Ends
      OBVIOUS
    <2>2. \A S \in SUBSET Ends : e \in S =>
              /\ UpTo(S, e) = Cardinality({x \in S : x < b}) + 1
              /\ Cardinality({x \in S : x < e + 1}) = Cardinality({x \in S : x < b}) + 1
      BY OneMore
    <2> QED BY <2>1, <2>2
  <1>3. line_no' = Cardinality({x \in Ends : x < e + 1})
    BY <1>2 DEF EndLine
  <1>4. CASE over /\ conf.overflow = "Skip"
    <2>1. e \notin Returned
      BY <1>1, <1>4 DEF Returned
    <2>2. {x \in Returned : x < e + 1} = {x \in Returned : x < b}
      BY <1>0, <2>1, OneMore
    <2>3. UNCHANGED <<pulled, open>>
      BY <1>4 DEF EndLine
    <2>4. SoFar'
      BY <2>3, SameSplitting DEF SoFar, UpTo
    <2>5. AsSplit'
      <3>1. ~IoFailed'
        BY <2>3 DEF IoFailed, SoFar, TypeOK
      <3> QED BY <2>3, <2>4, <3>1 DEF AsSplit, SoFar
    <2> QED BY <1>3, <2>2, <2>3, <2>4, <2>5
  <1>5. CASE ~(over /\ conf.overflow = "Skip")
    <2>1. e \in Returned
      BY <1>0, <1>1, <1>5 DEF Returned
    <2>2. /\ UpTo(Returned, e) = Len(pulled) + 1
          /\ Cardinality({x \in Returned : x < e + 1}) = Len(pulled) + 1
      BY <1>0, <2>1, OneMore
    <2>3. Yield(Expected(e))
      <3> DEFINE s == KeptOf(b, e - 1)
      <3>1. Yield(Decoded(IF over THEN s ELSE WithoutCr(s), line_no + 1))
        BY <1>5 DEF EndLine
      <3>2. CASE ~over
        <4>1. e - b <= conf.max_len
          BY <1>0, <3>2
        <4>2. s = LineTo(e)
          <5>1. e - 1 - b + 1 <= conf.max_len
            BY <1>0, <4>1
          <5> QED BY <1>1, <5>1 DEF KeptOf
        <4>3. Expected(e) = Decoded(WithoutCr(s), line_no + 1)
          BY <1>1, <1>2, <4>1, <4>2 DEF Expected
        <4> QED BY <3>1, <3>2, <4>3
      <3>3. CASE over
        <4>1. ~(e - b <= conf.max_len) /\ conf.overflow = "Truncate"
          BY <1>0, <1>5, <3>3 DEF Overflows
        <4>2. s = SubSeq(input, b, b + conf.max_len - 1)
          <5>1. ~(e - 1 - b + 1 <= conf.max_len)
            BY <1>0, <4>1
          <5> QED BY <4>1, <5>1 DEF KeptOf
        <4>3. SubSeq(LineTo(e), 1, conf.max_len) = s
          BY <1>0, <1>1, <4>1, <4>2, Front
        <4>4. Expected(e) = Decoded(s, line_no + 1)
          BY <1>1, <1>2, <4>1, <4>3 DEF Expected
        <4> QED BY <3>1, <3>3, <4>4
      <3> QED BY <3>2, <3>3
    <2> QED BY <1>3, <2>1, <2>2, <2>3, PullsNext
  <1> QED BY <1>4, <1>5


\* For every input, capacity and limit, in every mode and wherever the reader cuts its
\* bytes, the pulls return what splitting the whole input at once returns, up to the first
\* error (LineReader::next_line, read_one; ReaderSource and ByteLinesSource).

\* A new line begins behind the end e of the last one.
LEMMA NewLine ==
    ASSUME NEW e \in Nat, NEW p \in Nat, UNCHANGED <<conf, input>>,
           conf.max_len \in Nat \ {0}, input \in Seq(Bytes),
           p = e \/ (p = e - 1 /\ p = Len(input)),
           Within(e + 1, p),
           line' = <<>>, saw_bytes' = FALSE, overflowed' = FALSE,
           line_no' = Cardinality({x \in Ends : x < e + 1}),
           Len(pulled') = Cardinality({x \in Returned : x < e + 1})
    PROVE  Begun(e + 1, p)'
  <1>1. /\ e + 1 \in 1 .. p + 2 /\ (e + 1 = p + 2 => p = Len(input))
        /\ ~(p >= e + 1) /\ p - (e + 1) + 1 <= 0 /\ p - (e + 1) + 1 \in Int
    OBVIOUS
  <1>2. p - (e + 1) + 1 <= conf.max_len /\ ~(p - (e + 1) + 1 > conf.max_len)
    BY <1>1
  <1>3. SubSeq(input, e + 1, p) = <<>>
    BY <1>1
  <1>4. KeptOf(e + 1, p) = <<>>
    BY <1>2, <1>3 DEF KeptOf
  <1> QED BY <1>1, <1>2, <1>4, SameSplitting DEF Begun

\* Before the first pull nothing was seen of the first line.
LEMMA InitSplit == Init => Split
  <1> SUFFICES ASSUME Init PROVE Split
    OBVIOUS
  <1>1. TypeOK
    BY InitType
  <1>2. input \in Seq(Bytes) /\ Len(input) \in Nat /\ conf.max_len \in Nat \ {0}
    BY <1>1, ConfigurationLimits DEF TypeOK
  <1>3. Rest(0)
    <2>1. Len(buf) = 0 /\ unread = input
      BY DEF Init
    <2> QED BY <1>2, <2>1 DEF Rest
  <1>4. SoFar
    BY DEF Init, SoFar
  <1>5. AsSplit
    BY <1>1, <1>4, OpenAsSplit DEF Init
  <1>6. Begun(1, 0)
    <2>1. Within(1, 0)
      BY <1>1, EndsFinite DEF Within
    <2>2. KeptOf(1, 0) = <<>>
      BY <1>2 DEF KeptOf
    <2>3. {x \in Ends : x < 1} = {} /\ {x \in Returned : x < 1} = {}
      BY <1>1, EndsFinite
    <2>4. Cardinality({}) = 0
      BY FS_EmptySet
    <2>5. saw_bytes = FALSE /\ overflowed = FALSE /\ line = <<>> /\ line_no = 0 /\ Len(pulled) = 0
      BY DEF Init
    <2>6. ~(0 - 1 + 1 > conf.max_len) /\ ~(0 >= 1) /\ 1 \in 1 .. 0 + 2 /\ ~(1 = 0 + 2)
      BY <1>2
    <2> QED BY <2>1, <2>2, <2>3, <2>4, <2>5, <2>6 DEF Begun
  <1> QED BY <1>1, <1>3, <1>4, <1>5, <1>6 DEF Split, Standing

\* A read into the buffer changes nothing of the line.
LEMMA FillSplit ==
    ASSUME Split, Fill
    PROVE  AsSplit' /\ Standing'
  <1>0. TypeOK /\ AsSplit
    BY DEF Split
  <1>1. PICK p \in Nat : Rest(p) /\ SoFar /\ \E b \in Nat : Begun(b, p)
    BY DEF Split, Standing, Fill
  <1>2. PICK n \in 1..conf.capacity :
            /\ n <= Len(unread)
            /\ buf' = SubSeq(unread, 1, n)
            /\ unread' = SubSeq(unread, n + 1, Len(unread))
    BY DEF Fill
  <1>3. UNCHANGED <<conf, input, line, saw_bytes, overflowed, line_no, pulled, open>>
    BY DEF Fill
  <1>4. /\ unread \in Seq(Bytes) /\ Len(unread) \in Nat /\ n \in 1..Len(unread)
        /\ Len(input) \in Nat /\ Len(buf) = 0
    BY <1>0, <1>2, ConfigurationLimits DEF TypeOK, Fill
  <1>5. /\ Len(buf') = n /\ \A i \in 1..n : buf'[i] = unread[i]
        /\ Len(unread') = Len(unread) - n
        /\ \A i \in 1 .. Len(unread) - n : unread'[i] = unread[n + i]
    BY <1>2, <1>4
  <1>6. Rest(p)'
    <2>1. Len(input) = p + Len(unread) /\ \A i \in 1..Len(unread) : unread[i] = input[p + i]
      <3>1. p + Len(buf) = p /\ p + Len(buf) + Len(unread) = p + Len(unread)
        BY <1>4
      <3> QED BY <1>1, <3>1 DEF Rest
    <2>2. Len(input) = p + n + (Len(unread) - n)
      BY <1>4, <2>1
    <2>3. \A i \in 1..n : buf'[i] = input[p + i]
      BY <1>4, <1>5, <2>1
    <2>4. ASSUME NEW i \in 1 .. Len(unread) - n PROVE unread'[i] = input[p + n + i]
      <3>1. n + i \in 1..Len(unread) /\ p + (n + i) = p + n + i
        BY <1>4
      <3>2. unread[n + i] = input[p + (n + i)]
        BY <2>1, <3>1
      <3> QED BY <1>5, <3>1, <3>2
    <2> QED BY <1>3, <1>5, <2>2, <2>3, <2>4 DEF Rest
  <1>7. AsSplit' /\ SoFar'
    BY <1>0, <1>1, <1>3, SameSplitting DEF AsSplit, SoFar, IoFailed, UpTo
  <1>8. ASSUME NEW b \in Nat, Begun(b, p) PROVE Begun(b, p)'
    BY <1>3, <1>8, SameSplitting DEF Begun
  <1> QED BY <1>1, <1>6, <1>7, <1>8 DEF Standing

\* A read that fails ends the pulls, which are the splitting's until then.
LEMMA ReadFailsSplit ==
    ASSUME Split, ReadFails
    PROVE  AsSplit' /\ Standing'
  <1>0. TypeOK
    BY DEF Split
  <1>1. UNCHANGED <<conf, input, unread, buf>>
    BY DEF ReadFails
  <1>2. PICK p \in Nat : Rest(p) /\ SoFar
    BY DEF Split, Standing, ReadFails
  <1> DEFINE failure == Failure("io", 0)
  <1>3. failure.kind = "io" /\ failure.kind # "item" /\ failure \in Results
    BY DEF Failure, Results
  <1>4. pulled' = Append(pulled, failure) /\ (open' <=> failure.kind = "item")
    BY Zenon DEF ReadFails, Yield
  <1> HIDE DEF failure
  <1>5. pulled \in Seq(Results) /\ Len(pulled) \in Nat
    BY <1>0 DEF TypeOK
  <1>6. Standing'
    <2>1. ~open'
      BY <1>3, <1>4
    <2>2. Rest(p)'
      BY <1>1, <1>2 DEF Rest
    <2> QED BY <2>1, <2>2 DEF Standing
  <1>7. /\ pulled' # <<>> /\ Len(pulled') \in DOMAIN pulled'
        /\ pulled'[Len(pulled')] = failure
        /\ SubSeq(pulled', 1, Len(pulled') - 1) = pulled
    <2>1. /\ pulled' \in Seq(Results) /\ Len(pulled') = Len(pulled) + 1
          /\ \A i \in 1..Len(pulled) : pulled'[i] = pulled[i]
          /\ pulled'[Len(pulled) + 1] = failure
      BY <1>3, <1>4, <1>5
    <2> DEFINE front == SubSeq(pulled', 1, Len(pulled') - 1)
    <2>2. front \in Seq(Results) /\ Len(front) = Len(pulled)
          /\ \A i \in 1..Len(pulled) : front[i] = pulled[i]
      BY <1>5, <2>1
    <2> HIDE DEF front
    <2>3. front = pulled
      BY <1>5, <2>2
    <2>4. pulled' # <<>> /\ Len(pulled') \in DOMAIN pulled'
      BY <1>5, <2>1
    <2> QED BY <2>1, <2>3, <2>4 DEF front
  <1>8. IoFailed'
    BY <1>3, <1>7 DEF IoFailed
  <1>9. ~(\A i \in DOMAIN pulled' : pulled'[i].kind = "item")
    BY <1>3, <1>7
  <1>10. AsSplit'
    BY <1>1, <1>2, <1>7, <1>8, <1>9, SameSplitting DEF AsSplit, SoFar, UpTo
  <1> QED BY <1>6, <1>10

\* A line is rejected once more of it was seen than the limit; that its end may be
\* far off does not matter, since the line's number is known.
LEMMA RejectSplit ==
    ASSUME Split, Reject
    PROVE  AsSplit' /\ Standing'
  <1>0. TypeOK
    BY DEF Split
  <1>1. UNCHANGED <<conf, input, unread, buf>>
    BY DEF Reject
  <1>2. PICK p \in Nat : Rest(p) /\ SoFar /\ \E b \in Nat : Begun(b, p)
    BY DEF Split, Standing, Reject
  <1>3. PICK b \in Nat : Begun(b, p)
    BY <1>2
  <1>4. PICK n \in 0..Len(buf) : Chunk(n) /\ TooLong(n)
    BY DEF Reject
  <1>5. /\ conf.max_len \in Nat \ {0} /\ Len(buf) \in Nat \ {0} /\ n \in Nat
        /\ Len(input) \in Nat /\ p + Len(buf) <= Len(input)
    <2>1. conf.max_len \in Nat \ {0}
      BY <1>0, ConfigurationLimits DEF TypeOK
    <2>2. Len(buf) \in Nat \ {0} /\ Len(unread) \in Nat /\ Len(input) \in Nat
      BY <1>0 DEF TypeOK, Reject
    <2>3. Len(input) = p + Len(buf) + Len(unread)
      BY <1>2 DEF Rest
    <2> QED BY <2>1, <2>2, <2>3
  <1>6. b \in 1 .. p + 1 /\ Within(b, p)
    <2>1. b \in 1 .. p + 2 /\ (b = p + 2 => p = Len(input)) /\ Within(b, p)
      BY <1>3 DEF Begun
    <2> QED BY <1>5, <2>1
  <1>7. /\ n > Room /\ conf.overflow = "Error" /\ p - b + 1 <= conf.max_len
        /\ line = KeptOf(b, p)
    <2>1. ~overflowed /\ n > Room /\ conf.overflow = "Error"
      BY <1>4 DEF TooLong
    <2>2. (overflowed <=> p - b + 1 > conf.max_len) /\ line = KeptOf(b, p)
      BY <1>3 DEF Begun
    <2> QED BY <1>5, <1>6, <2>1, <2>2
  <1>8. Room = conf.max_len - (p - b + 1)
    <2>1. line = SubSeq(input, b, p)
      BY <1>7 DEF KeptOf
    <2>2. Len(line) = p - b + 1
      BY <1>0, <1>5, <1>6, <2>1 DEF TypeOK
    <2> QED BY <2>2 DEF Room
  <1>9. p + n - b + 1 > conf.max_len /\ b \in 1..Len(input)
    BY <1>5, <1>6, <1>7, <1>8
  <1>10. PICK e \in Ends : e >= b /\ \A x \in Ends : x >= b => x >= e
    BY <1>0, <1>9, FirstEnd
  <1>11. e \in Nat /\ \A x \in Ends : x \in Nat
    BY <1>0, EndsFinite DEF TypeOK
  <1>12. e > p + n
    <2>1. e > p
      BY <1>6, <1>10 DEF Within
    <2>2. ASSUME e <= p + n PROVE FALSE
      <3>1. e - p \in 1..n /\ e - p \in 1..Len(buf) /\ p + (e - p) = e /\ e # Len(input) + 1
        BY <1>4, <1>5, <1>11, <2>1, <2>2
      <3>2. buf[e - p] # "lf"
        BY <1>4, <3>1 DEF Chunk
      <3>3. buf[e - p] = input[e]
        BY <1>2, <3>1 DEF Rest
      <3> QED BY <1>0, <3>1, <3>2, <3>3, EndByte
    <2> QED BY <1>5, <1>11, <2>2
  <1>13. Within(b, e - 1) /\ b \in Nat \ {0} /\ b <= e
    <2>1. \A x \in Ends : x >= b => x > e - 1
      BY <1>10, <1>11
    <2> QED BY <1>6, <1>10, <1>11, <2>1 DEF Within
  <1>14. Len(LineTo(e)) = e - b /\ ~(e - b <= conf.max_len)
    <2>1. Len(LineTo(e)) = e - b
      BY <1>0, <1>13, LineFrom
    <2> QED BY <1>5, <1>6, <1>9, <1>11, <1>12, <2>1
  <1>15. e \in Returned
    BY <1>7 DEF Returned
  <1>16. UpTo(Ends, e) = line_no + 1 /\ UpTo(Returned, e) = Len(pulled) + 1
    <2>1. Ends \in SUBSET Ends /\ Returned \in SUBSET Ends
      BY <1>0, EndsFinite
    <2>2. \A S \in SUBSET Ends : e \in S => UpTo(S, e) = Cardinality({x \in S : x < b}) + 1
      BY <1>0, <1>13, OneMore
    <2> QED BY <1>3, <1>15, <2>1, <2>2 DEF Begun
  <1>17. Expected(e) = Failure("LineTooLong", line_no + 1)
    BY <1>7, <1>14, <1>16 DEF Expected
  <1>18. Yield(Expected(e))
    BY <1>17 DEF Reject
  <1>19. AsSplit'
    BY <1>0, <1>1, <1>2, <1>15, <1>16, <1>18, PullsNext
  <1>20. Standing'
    <2>1. Expected(e).kind # "item"
      BY <1>17 DEF Failure
    <2>2. open' <=> Expected(e).kind = "item"
      BY <1>18, Zenon DEF Yield
    <2>3. Rest(p)'
      BY <1>1, <1>2 DEF Rest
    <2> QED BY <2>1, <2>2, <2>3 DEF Standing
  <1> QED BY <1>19, <1>20

\* The end of the input ends a last line that no "lf" ended; without one it ends the
\* pulls, and all lines have been returned.
LEMMA EndOfInputSplit ==
    ASSUME Split, EndOfInput
    PROVE  AsSplit' /\ Standing'
  <1>0. TypeOK /\ open
    BY DEF Split, EndOfInput
  <1>1. UNCHANGED <<conf, input, unread, buf>> /\ Len(buf) = 0 /\ Len(unread) = 0
    BY DEF EndOfInput
  <1>2. PICK p \in Nat : Rest(p) /\ SoFar /\ \E b \in Nat : Begun(b, p)
    BY DEF Split, Standing, EndOfInput
  <1>3. PICK b \in Nat : Begun(b, p)
    BY <1>2
  <1>4. conf.max_len \in Nat \ {0} /\ p = Len(input) /\ Rest(p)'
    <2>1. conf.max_len \in Nat \ {0}
      BY <1>0, ConfigurationLimits DEF TypeOK
    <2>2. Len(input) = p + 0 + 0
      BY <1>1, <1>2 DEF Rest
    <2>3. Rest(p)'
      BY <1>1, <1>2 DEF Rest
    <2> QED BY <2>1, <2>2, <2>3
  <1>5. /\ b \in 1 .. p + 2 /\ b \in Nat \ {0}
        /\ b - 1 \in {0} \cup Ends /\ \A x \in Ends : x >= b => x > p
        /\ line = KeptOf(b, p)
        /\ overflowed => conf.overflow # "Error"
        /\ line_no = Cardinality({x \in Ends : x < b})
        /\ Len(pulled) = Cardinality({x \in Returned : x < b})
    BY <1>3 DEF Begun, Within
  <1>6. (saw_bytes <=> p >= b) /\ (overflowed <=> p - b + 1 > conf.max_len)
        /\ overflowed \in BOOLEAN
    BY <1>0, <1>3 DEF Begun, TypeOK
  <1>7. \A x \in Ends : x \in 1 .. p + 1
    BY <1>0, <1>4, EndsFinite
  <1>8. CASE saw_bytes
    <2>1. b <= p /\ p # 0
      BY <1>5, <1>6, <1>8
    <2>2. p \notin Ends
      BY <1>5, <2>1
    <2>3. p + 1 \in Ends
      <3>1. p \in DOMAIN input /\ input # <<>>
        BY <1>0, <1>4, <2>1 DEF TypeOK
      <3> QED BY <1>4, <2>2, <3>1 DEF Ends
    <2>4. PICK e \in Ends : e = p + 1
      BY <2>3
    <2>5. b <= e /\ e - 1 = p /\ e - b = p - b + 1 /\ e \in Nat
      BY <1>5, <2>1, <2>4
    <2>6. Within(b, e - 1)
      BY <1>5, <2>5 DEF Within
    <2>7. EndLine(KeptOf(b, e - 1), overflowed)
      <3>1. EndLine(line, overflowed)
        BY <1>8 DEF EndOfInput
      <3> QED BY <1>5, <2>5, <3>1
    <2>8. overflowed <=> e - b > conf.max_len
      BY <1>6, <2>5
    <2>9. /\ AsSplit' /\ (open' => SoFar')
          /\ line_no' = Cardinality({x \in Ends : x < e + 1})
          /\ Len(pulled') = Cardinality({x \in Returned : x < e + 1})
      BY <1>0, <1>1, <1>2, <1>5, <1>6, <2>5, <2>6, <2>7, <2>8, LineEnded
    <2>10. Begun(e + 1, p)'
      <3>1. line' = <<>> /\ saw_bytes' = FALSE /\ overflowed' = FALSE
        BY <2>7 DEF EndLine
      <3>2. Within(e + 1, p)
        <4>1. (e + 1) - 1 \in {0} \cup Ends
          BY <2>5
        <4>2. \A x \in Ends : ~(x >= e + 1)
          BY <1>7, <2>4
        <4> QED BY <4>1, <4>2 DEF Within
      <3>3. input \in Seq(Bytes)
        BY <1>0 DEF TypeOK
      <3>4. p = e - 1 /\ p = Len(input)
        BY <1>4, <2>5
      <3> QED BY <1>1, <1>4, <2>5, <2>9, <3>1, <3>2, <3>3, <3>4, NewLine
    <2>11. e + 1 \in Nat
      BY <2>5
    <2> QED BY <1>4, <2>9, <2>10, <2>11 DEF Standing
  <1>9. CASE ~saw_bytes
    <2>1. UNCHANGED <<line, saw_bytes, overflowed, line_no, pulled>> /\ ~open'
      BY <1>9 DEF EndOfInput
    <2>2. b > p
      BY <1>5, <1>6, <1>9
    <2>3. ASSUME NEW x \in Ends, ~(x < b) PROVE FALSE
      <3>1. b = p + 1 /\ x = p + 1
        BY <1>5, <1>7, <2>2, <2>3
      <3>2. input # <<>> /\ input[p] # "lf"
        BY <1>0, <1>4, <2>3, <3>1, UnendedInput
      <3>3. p # 0
        BY <1>0, <1>4, <3>2 DEF TypeOK
      <3>4. p \in Ends /\ p # p + 1
        BY <1>5, <3>1, <3>3
      <3> QED BY <1>0, <1>4, <3>2, <3>4, EndByte
    <2>4. {x \in Returned : x < b} = Returned
      BY <1>0, <2>3, EndsFinite
    <2>5. Len(pulled) = Cardinality(Returned)
      BY <1>5, <2>4
    <2>6. AsSplit'
      <3>1. ~IoFailed'
        BY <1>0, <1>2, <2>1 DEF IoFailed, SoFar, TypeOK
      <3> QED BY <1>1, <1>2, <2>1, <2>5, <3>1, SameSplitting DEF AsSplit, SoFar, UpTo
    <2> QED BY <1>4, <2>1, <2>6 DEF Standing
  <1> QED BY <1>8, <1>9

\* A chunk of the line under construction, or its rest and its end.
LEMMA ConsumeSplit ==
    ASSUME Split, Consume
    PROVE  AsSplit' /\ Standing'
  <1>0. TypeOK /\ open
    BY DEF Split, Consume
  <1>1. UNCHANGED <<conf, input, unread>> /\ buf # <<>>
    BY DEF Consume
  <1>2. PICK p \in Nat : Rest(p) /\ SoFar /\ \E b \in Nat : Begun(b, p)
    BY DEF Split, Standing, Consume
  <1>3. PICK b \in Nat : Begun(b, p)
    BY <1>2
  <1>4. PICK n \in 0..Len(buf) :
            /\ Chunk(n) /\ ~TooLong(n)
            /\ buf' = SubSeq(buf, n + 2, Len(buf))
            /\ IF n < Len(buf)
               THEN EndLine(Kept(n), overflowed \/ n > Room)
               ELSE /\ line' = Kept(n)
                    /\ saw_bytes' = TRUE
                    /\ overflowed' = (overflowed \/ n > Room)
                    /\ UNCHANGED <<line_no, pulled, open>>
    BY DEF Consume
  <1>5. /\ conf.max_len \in Nat \ {0} /\ Len(buf) \in Nat \ {0} /\ n \in Nat
        /\ Len(input) \in Nat /\ Len(unread) \in Nat
        /\ Len(input) = p + Len(buf) + Len(unread)
    <2>1. conf.max_len \in Nat \ {0}
      BY <1>0, ConfigurationLimits DEF TypeOK
    <2>2. Len(buf) \in Nat \ {0} /\ Len(unread) \in Nat /\ Len(input) \in Nat
      BY <1>0, <1>1 DEF TypeOK
    <2> QED BY <1>2, <2>1, <2>2 DEF Rest
  <1>6. b \in 1 .. p + 1 /\ Within(b, p)
    <2>1. b \in 1 .. p + 2 /\ (b = p + 2 => p = Len(input)) /\ Within(b, p)
      BY <1>3 DEF Begun
    <2> QED BY <1>5, <2>1
  <1>7. /\ Kept(n) = KeptOf(b, p + n)
        /\ (overflowed \/ n > Room) <=> (p + n - b + 1 > conf.max_len)
        /\ p + n - b + 1 > conf.max_len => conf.overflow # "Error"
    BY <1>0, <1>2, <1>3, <1>4, <1>6, KeptRight
  <1>8. \A x \in Ends : x \in Nat
    BY <1>0, EndsFinite DEF TypeOK
  <1>9. Within(b, p + n)
    <2>1. ASSUME NEW x \in Ends, x >= b, x <= p + n PROVE FALSE
      <3>1. x > p
        BY <1>6, <2>1 DEF Within
      <3>2. x - p \in 1..n /\ x - p \in 1..Len(buf) /\ p + (x - p) = x /\ x # Len(input) + 1
        BY <1>4, <1>5, <1>8, <2>1, <3>1
      <3>3. buf[x - p] # "lf"
        BY <1>4, <3>2 DEF Chunk
      <3>4. buf[x - p] = input[x]
        BY <1>2, <3>2 DEF Rest
      <3> QED BY <1>0, <3>2, <3>3, <3>4, EndByte
    <2>2. \A x \in Ends : x >= b => x > p + n
      BY <1>5, <1>8, <2>1
    <2> QED BY <1>6, <2>2 DEF Within
  <1>10. CASE n < Len(buf)
    <2>1. /\ Len(buf') = Len(buf) - n - 1
          /\ \A i \in 1 .. Len(buf) - n - 1 : buf'[i] = buf[n + 1 + i]
      BY <1>0, <1>4, <1>5, <1>10 DEF TypeOK
    <2>2. buf[n + 1] = "lf" /\ n + 1 \in 1..Len(buf)
      BY <1>4, <1>5, <1>10 DEF Chunk
    <2>3. p + (n + 1) \in Ends
      <3>1. input[p + (n + 1)] = "lf"
        BY <1>2, <2>2 DEF Rest
      <3>2. p + (n + 1) \in 1..Len(input)
        BY <1>5, <2>2
      <3>3. DOMAIN input = 1..Len(input)
        BY <1>0 DEF TypeOK
      <3> QED BY <3>1, <3>2, <3>3 DEF Ends
    <2>4. PICK e \in Ends : e = p + (n + 1)
      BY <2>3
    <2>5. e - 1 = p + n /\ e - b = p + n - b + 1 /\ b <= e /\ b \in Nat \ {0} /\ e \in Nat
      BY <1>5, <1>6, <2>4
    <2>6. Rest(e)'
      <3>1. Len(input) = e + Len(buf') + Len(unread) /\ e + Len(buf') = p + Len(buf)
        BY <1>5, <2>1, <2>4
      <3>2. ASSUME NEW i \in 1 .. Len(buf) - n - 1 PROVE buf'[i] = input[e + i]
        <4>1. n + 1 + i \in 1..Len(buf) /\ p + (n + 1 + i) = e + i
          BY <1>5, <1>10, <2>4
        <4>2. buf[n + 1 + i] = input[p + (n + 1 + i)]
          BY <1>2, <4>1 DEF Rest
        <4> QED BY <2>1, <4>1, <4>2
      <3>3. \A i \in 1..Len(unread) : unread[i] = input[e + Len(buf') + i]
        BY <1>2, <3>1 DEF Rest
      <3> QED BY <1>1, <2>1, <3>1, <3>2, <3>3 DEF Rest
    <2>7. PICK over \in BOOLEAN : over <=> overflowed \/ n > Room
      OBVIOUS
    <2>8. EndLine(KeptOf(b, e - 1), over)
      <3>1. EndLine(Kept(n), overflowed \/ n > Room)
        BY <1>4, <1>10
      <3>2. (overflowed \/ n > Room) = over
        BY <2>7
      <3>3. EndLine(Kept(n), over)
        BY <3>1, <3>2 DEF EndLine
      <3> QED BY <1>7, <2>5, <3>3
    <2>9. (over <=> e - b > conf.max_len) /\ (over => conf.overflow # "Error")
      BY <1>7, <2>5, <2>7
    <2>10. Within(b, e - 1)
      BY <1>9, <2>5
    <2>11. /\ line_no = Cardinality({x \in Ends : x < b})
           /\ Len(pulled) = Cardinality({x \in Returned : x < b})
      BY <1>3 DEF Begun
    <2>12. /\ AsSplit' /\ (open' => SoFar')
           /\ line_no' = Cardinality({x \in Ends : x < e + 1})
           /\ Len(pulled') = Cardinality({x \in Returned : x < e + 1})
      BY <1>0, <1>1, <1>2, <2>5, <2>8, <2>9, <2>10, <2>11, LineEnded
    <2>13. Begun(e + 1, e)'
      <3>1. line' = <<>> /\ saw_bytes' = FALSE /\ overflowed' = FALSE
        BY <2>8 DEF EndLine
      <3>2. Within(e + 1, e)
        <4>1. (e + 1) - 1 \in {0} \cup Ends
          BY <2>5
        <4>2. \A x \in Ends : x >= e + 1 => x > e
          BY <1>8, <2>5
        <4> QED BY <4>1, <4>2 DEF Within
      <3>3. input \in Seq(Bytes)
        BY <1>0 DEF TypeOK
      <3> QED BY <1>1, <1>5, <2>5, <2>12, <3>1, <3>2, <3>3, NewLine
    <2>14. e + 1 \in Nat
      BY <2>5
    <2> QED BY <2>5, <2>6, <2>12, <2>13, <2>14 DEF Standing
  <1>11. CASE n = Len(buf)
    <2>1. PICK q \in Nat : q = p + n
      BY <1>5
    <2>2. Rest(q)'
      <3>1. Len(buf') = 0
        BY <1>0, <1>4, <1>5, <1>11 DEF TypeOK
      <3>2. q + 0 = p + Len(buf) /\ Len(input) = q + 0 + Len(unread)
        BY <1>5, <1>11, <2>1
      <3>3. \A i \in 1..Len(unread) : unread[i] = input[q + 0 + i]
        BY <1>2, <3>2 DEF Rest
      <3> QED BY <1>1, <3>1, <3>2, <3>3 DEF Rest
    <2>3. /\ line' = KeptOf(b, q) /\ saw_bytes' = TRUE
          /\ overflowed' = (overflowed \/ n > Room)
          /\ UNCHANGED <<line_no, pulled, open>>
      BY <1>4, <1>5, <1>7, <1>11, <2>1
    <2>4. overflowed' <=> q - b + 1 > conf.max_len
      <3>1. overflowed' <=> (overflowed \/ n > Room)
        BY <2>3, Zenon
      <3> QED BY <1>7, <2>1, <3>1
    <2>5. SoFar' /\ AsSplit'
      <3>1. SoFar'
        BY <1>1, <1>2, <2>3, SameSplitting DEF SoFar, UpTo
      <3>2. ~IoFailed'
        BY <1>0, <1>2, <2>3 DEF IoFailed, SoFar, TypeOK
      <3>3. open'
        BY <1>0, <2>3
      <3> QED BY <3>1, <3>2, <3>3 DEF AsSplit, SoFar
    <2>6. b \in 1 .. q + 2 /\ b # q + 2 /\ q >= b
      BY <1>5, <1>6, <1>11, <2>1
    <2>7. Begun(b, q)'
      <3>1. Within(b, q) /\ (q - b + 1 > conf.max_len => conf.overflow # "Error")
        BY <1>7, <1>9, <2>1
      <3>2. /\ line_no' = Cardinality({x \in Ends : x < b})
            /\ Len(pulled') = Cardinality({x \in Returned : x < b})
        BY <1>3, <2>3 DEF Begun
      <3> QED BY <1>1, <2>3, <2>4, <2>6, <3>1, <3>2, SameSplitting DEF Begun
    <2> QED BY <2>1, <2>2, <2>5, <2>7 DEF Standing
  <1> QED BY <1>4, <1>5, <1>10, <1>11

\* Every step leaves what was pulled as the splitting says, and the rest to be split.
LEMMA StepSplit == Split /\ [Next]_vars => Split'
  <1> SUFFICES ASSUME Split, [Next]_vars PROVE Split'
    OBVIOUS
  <1>1. TypeOK'
    BY StepType DEF Split
  <1>2. CASE Fill
    BY <1>1, <1>2, FillSplit DEF Split
  <1>3. CASE Interrupted \/ UNCHANGED vars
    <2>1. UNCHANGED vars
      BY <1>3 DEF Interrupted
    <2>2. UNCHANGED <<conf, input, unread, buf, line, saw_bytes, overflowed, line_no, pulled, open>>
      BY <2>1 DEF vars
    <2>3. AsSplit'
      BY <2>2, SameSplitting DEF Split, AsSplit, IoFailed, UpTo
    <2>4. SoFar' <=> SoFar
      BY <2>2, SameSplitting DEF SoFar, UpTo
    <2>5. \A b, p : Begun(b, p) => Begun(b, p)'
      BY <2>2, SameSplitting DEF Begun
    <2>6. \A p : Rest(p) => Rest(p)'
      BY <2>2 DEF Rest
    <2> QED BY <1>1, <2>2, <2>3, <2>4, <2>5, <2>6 DEF Split, Standing
  <1>4. CASE ReadFails
    BY <1>1, <1>4, ReadFailsSplit DEF Split
  <1>5. CASE EndOfInput
    BY <1>1, <1>5, EndOfInputSplit DEF Split
  <1>6. CASE Reject
    BY <1>1, <1>6, RejectSplit DEF Split
  <1>7. CASE Consume
    BY <1>1, <1>7, ConsumeSplit DEF Split
  <1> QED BY <1>2, <1>3, <1>4, <1>5, <1>6, <1>7 DEF Next

\* For every input, capacity and limit, in every mode and wherever the reader cuts its
\* bytes, the pulls return what splitting the whole input at once returns, up to the first
\* error (LineReader::next_line, read_one; ReaderSource and ByteLinesSource).
THEOREM LineReaderAsSplit == Spec => []AsSplit
  <1>1. Split => AsSplit
    BY DEF Split
  <1> QED BY <1>1, InitSplit, StepSplit, PTL DEF Spec
=============================================================================
