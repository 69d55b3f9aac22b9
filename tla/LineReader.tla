----------------------------- MODULE LineReader -----------------------------
(***************************************************************************)
(* The line sources (src/source.rs): ReaderSource and ByteLinesSource      *)
(* split what an io::Read delivers into lines of bounded length.  The      *)
(* reader hands over any non-empty piece of its bytes at each read, may be *)
(* interrupted and may fail; what the source yields must not depend on     *)
(* where the pieces are cut.                                               *)
(*                                                                         *)
(* The model is the source as a run uses it: it is pulled until it ends or *)
(* fails, and never after that.  A pull is a loop over lines and each line *)
(* a loop over the reader's buffer; the actions are the turns of the inner *)
(* loop (LineReader::read_one).                                            *)
(***************************************************************************)
EXTENDS Naturals, Sequences, FiniteSets

CONSTANTS
    MaxInput,       \* the longest input considered, in bytes
    Capacities,     \* arguments of with_capacity
    MaxLineLens     \* arguments of max_line_len

ASSUME LineReaderAssumption ==
    /\ MaxInput \in Nat
    /\ Capacities \subseteq Nat
    /\ MaxLineLens \subseteq Nat

\* The bytes told apart: the two of a two-byte UTF-8 character (either is
\* invalid without the other), and the two that can end a line.
Bytes == {"head", "tail", "cr", "lf"}

Overflows == {"Error", "Skip", "Truncate"}

\* Raw lines (ByteLinesSource), or ReaderSource's strings without and with
\* `lossy`.
Decodings == {"bytes", "strict", "lossy"}

AtLeastOne(n) == IF n < 1 THEN 1 ELSE n

\* What the builder methods of the two sources leave: a zero is raised to 1.
Configurations ==
    [capacity : {AtLeastOne(n) : n \in Capacities},
     max_len : {AtLeastOne(n) : n \in MaxLineLens},
     overflow : Overflows,
     decoding : Decodings]

Inputs == UNION {[1..n -> Bytes] : n \in 0..MaxInput}

VARIABLES
    conf,           \* the configuration, chosen once
    input,          \* the whole input, chosen once
    unread,         \* the bytes the reader has not delivered yet
    buf,            \* BufReader's unconsumed bytes
    line,           \* read_one's `line`
    saw_bytes,      \* read_one's `saw_bytes`
    overflowed,     \* read_one's `overflowed`
    line_no,        \* the lines finished so far, skipped ones included
    pulled,         \* history: what the pulls returned
    open            \* FALSE once a pull returned None or an error

vars == <<conf, input, unread, buf, line, saw_bytes, overflowed, line_no,
          pulled, open>>

-----------------------------------------------------------------------------
(* Results of a pull. *)

Item(bytes) == [kind |-> "item", bytes |-> bytes, line |-> 0]
Failure(kind, n) == [kind |-> kind, bytes |-> <<>>, line |-> n]

Results ==
    [kind : {"item", "io", "LineTooLong", "InvalidUtf8"},
     bytes : Seq(Bytes \cup {"U+FFFD"}),
     line : Nat]

\* Whether byte i belongs to a complete character.
Encoded(s, i) ==
    CASE s[i] = "head" -> i < Len(s) /\ s[i + 1] = "tail"
      [] s[i] = "tail" -> i > 1 /\ s[i - 1] = "head"
      [] OTHER -> TRUE

\* The result for a line of bytes s that is the n-th of the input.
Decoded(s, n) ==
    IF conf.decoding = "bytes" \/ \A i \in DOMAIN s : Encoded(s, i) THEN Item(s)
    ELSE IF conf.decoding = "lossy"
         THEN Item([i \in DOMAIN s |-> IF Encoded(s, i) THEN s[i] ELSE "U+FFFD"])
         ELSE Failure("InvalidUtf8", n)

WithoutCr(s) ==
    IF s # <<>> /\ s[Len(s)] = "cr" THEN SubSeq(s, 1, Len(s) - 1) ELSE s

-----------------------------------------------------------------------------
Init ==
    /\ conf \in Configurations
    /\ input \in Inputs
    /\ unread = input
    /\ buf = <<>>
    /\ line = <<>>
    /\ saw_bytes = FALSE
    /\ overflowed = FALSE
    /\ line_no = 0
    /\ pulled = <<>>
    /\ open = TRUE

Yield(result) ==
    /\ pulled' = Append(pulled, result)
    /\ open' = (result.kind = "item")

\* fill_buf on an empty buffer: one read, of any number of bytes that fits.
Fill ==
    /\ open /\ buf = <<>>
    /\ \E n \in 1..conf.capacity :
        /\ n <= Len(unread)
        /\ buf' = SubSeq(unread, 1, n)
        /\ unread' = SubSeq(unread, n + 1, Len(unread))
    /\ UNCHANGED <<conf, input, line, saw_bytes, overflowed, line_no, pulled, open>>

\* A read that a signal interrupted is tried again.
Interrupted ==
    /\ open /\ buf = <<>>
    /\ UNCHANGED vars

ReadFails ==
    /\ open /\ buf = <<>>
    /\ Yield(Failure("io", 0))
    /\ UNCHANGED <<conf, input, unread, buf, line, saw_bytes, overflowed, line_no>>

\* A slip AsSplit must notice: the flag of an overlong line is kept.
EndLineStale(s, over) ==
    /\ line_no' = line_no + 1
    /\ IF over /\ conf.overflow = "Skip"
       THEN UNCHANGED <<pulled, open>>
       ELSE Yield(Decoded(IF over THEN s ELSE WithoutCr(s), line_no + 1))
    /\ line' = <<>>
    /\ saw_bytes' = FALSE
    /\ overflowed' = over

\* The end of read_one: the line is counted, and returned unless it is one
\* to skip (next_line then starts the next one in the same pull).
EndLine(s, over) ==
    /\ line_no' = line_no + 1
    /\ IF over /\ conf.overflow = "Skip"
       THEN UNCHANGED <<pulled, open>>
       ELSE Yield(Decoded(IF over THEN s ELSE WithoutCr(s), line_no + 1))
    /\ line' = <<>>
    /\ saw_bytes' = FALSE
    /\ overflowed' = FALSE

EndOfInput ==
    /\ open /\ buf = <<>> /\ unread = <<>>
    /\ IF saw_bytes
       THEN EndLine(line, overflowed)
       ELSE /\ open' = FALSE
            /\ UNCHANGED <<line, saw_bytes, overflowed, line_no, pulled>>
    /\ UNCHANGED <<conf, input, unread, buf>>

Room == conf.max_len - Len(line)

\* A slip TypeOK must notice: the room is the limit, not what the line leaves
\* of it.
KeptWhole(n) ==
    IF overflowed THEN line
    ELSE IF n <= conf.max_len THEN line \o SubSeq(buf, 1, n)
    ELSE IF conf.overflow = "Truncate" THEN line \o SubSeq(buf, 1, Room)
    ELSE <<>>

\* `line` once the first n bytes of the buffer were looked at.
Kept(n) ==
    IF overflowed THEN line
    ELSE IF n <= Room THEN line \o SubSeq(buf, 1, n)
    ELSE IF conf.overflow = "Truncate" THEN line \o SubSeq(buf, 1, Room)
    ELSE <<>>

TooLong(n) == ~overflowed /\ n > Room /\ conf.overflow = "Error"

\* The buffer holds n bytes of the line, and its end if there are more.
Chunk(n) ==
    /\ \A i \in 1..n : buf[i] # "lf"
    /\ n < Len(buf) => buf[n + 1] = "lf"

Reject ==
    /\ open /\ buf # <<>>
    /\ \E n \in 0..Len(buf) : Chunk(n) /\ TooLong(n)
    /\ line_no' = line_no + 1
    /\ Yield(Failure("LineTooLong", line_no + 1))
    /\ saw_bytes' = TRUE
    /\ overflowed' = TRUE
    /\ UNCHANGED <<conf, input, unread, buf, line>>

Consume ==
    /\ open /\ buf # <<>>
    /\ \E n \in 0..Len(buf) :
        /\ Chunk(n) /\ ~TooLong(n)
        /\ buf' = SubSeq(buf, n + 2, Len(buf))
        /\ LET over == overflowed \/ n > Room
           IN  IF n < Len(buf)
               THEN EndLine(Kept(n), over)
               ELSE /\ line' = Kept(n)
                    /\ saw_bytes' = TRUE
                    /\ overflowed' = over
                    /\ UNCHANGED <<line_no, pulled, open>>
    /\ UNCHANGED <<conf, input, unread>>

Next == Fill \/ Interrupted \/ ReadFails \/ EndOfInput \/ Reject \/ Consume

Spec == Init /\ [][Next]_vars

-----------------------------------------------------------------------------
(* What the sources promise. *)

\* Every field keeps its type, and memory is bounded: neither the line under
\* construction nor the read buffer outgrows its limit, however long the
\* input's lines are ("never buffers more than max_len bytes of one line",
\* src/source.rs:445).
TypeOK ==
    /\ conf \in Configurations
    /\ input \in Seq(Bytes) /\ unread \in Seq(Bytes)
    /\ buf \in Seq(Bytes) /\ Len(buf) <= conf.capacity
    /\ line \in Seq(Bytes) /\ Len(line) <= conf.max_len
    /\ saw_bytes \in BOOLEAN /\ overflowed \in BOOLEAN /\ open \in BOOLEAN
    /\ line_no \in Nat
    /\ pulled \in Seq(Results)

\* The reference: the input cut at every "lf"; a last line needs none.
Ends ==
    {i \in DOMAIN input : input[i] = "lf"} \cup
    (IF input # <<>> /\ input[Len(input)] # "lf" THEN {Len(input) + 1} ELSE {})

\* The end of the line before the one that ends at e; 0 for the first line.
Before(e) == CHOOSE p \in {0} \cup Ends : p < e /\ \A x \in Ends : x < e => x <= p

LineTo(e) == SubSeq(input, Before(e) + 1, e - 1)

\* How many of the ends are at e or before it.
UpTo(ends, e) == Cardinality({x \in ends : x <= e})

\* The ends of the lines to return.
Returned == {e \in Ends : Len(LineTo(e)) > conf.max_len => conf.overflow # "Skip"}

\* What becomes of a line to return, decided on the whole line at once.
Expected(e) ==
    LET s == LineTo(e)
        n == UpTo(Ends, e)
    IN  IF Len(s) <= conf.max_len THEN Decoded(WithoutCr(s), n)
        ELSE IF conf.overflow = "Error" THEN Failure("LineTooLong", n)
        ELSE Decoded(SubSeq(s, 1, conf.max_len), n)

IoFailed == pulled # <<>> /\ pulled[Len(pulled)].kind = "io"

\* Wherever the reader cuts its bytes - inside a line, a character, between
\* "cr" and "lf", at the limit - the pulls return what splitting the whole
\* input returns: the n-th pull its n-th line to return, with the line number of
\* an error, up to the first error, and all lines unless a line or a read failed.
AsSplit ==
    LET results == IF IoFailed THEN SubSeq(pulled, 1, Len(pulled) - 1) ELSE pulled
    IN  /\ \A i \in DOMAIN results :
              /\ \E e \in Returned : UpTo(Returned, e) = i /\ results[i] = Expected(e)
              /\ results[i].kind # "item" => i = Len(results)
        /\ ~open /\ (\A i \in DOMAIN pulled : pulled[i].kind = "item")
              => Len(pulled) = Cardinality(Returned)

=============================================================================
