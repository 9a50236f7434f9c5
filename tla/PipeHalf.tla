------------------------------ MODULE PipeHalf ------------------------------
(***************************************************************************)
(* struct Half of host/src/vsock_pipe.rs: the bounded buffer of one        *)
(* direction with its close flags and its two waker slots, and what the    *)
(* critical sections do to it. A waker slot is TRUE when it holds a waker. *)
(***************************************************************************)
EXTENDS Naturals, Sequences

CONSTANT Capacity   \* PIPE_CAPACITY, the bytes one direction can buffer

ASSUME CapacityAssumption == Capacity \in Nat \ {0}

NewHalf ==
  [buf           |-> <<>>,
   writer_closed |-> FALSE,
   reader_closed |-> FALSE,
   read_waker    |-> FALSE,
   write_waker   |-> FALSE]

HalfType ==
  [buf           : Seq(Nat),
   writer_closed : BOOLEAN,
   reader_closed : BOOLEAN,
   read_waker    : BOOLEAN,
   write_waker   : BOOLEAN]

IsFull(h)  == Len(h.buf) = Capacity
IsEmpty(h) == h.buf = <<>>

\* let n = space.min(buf.len()), for a caller that offers k bytes. Taking all
\* that is offered is the fault a bounded buffer must not have.
AcceptsAll(h, k) == k
Accepts(h, k) == IF k <= Capacity - Len(h.buf) THEN k ELSE Capacity - Len(h.buf)

Extend(h, bytes) == [h EXCEPT !.buf = @ \o bytes]

\* The n oldest bytes, and what stays; the faults take the newest bytes, or
\* leave one byte too many behind.
NewestOf(h, n) == SubSeq(h.buf, Len(h.buf) - n + 1, Len(h.buf))
FrontOf(h, n)  == SubSeq(h.buf, 1, n)
DrainTooLittle(h, n) == [h EXCEPT !.buf = SubSeq(@, n, Len(@))]
Drain(h, n) == [h EXCEPT !.buf = SubSeq(@, n + 1, Len(@))]

\* The reader is told of the end: closed by the writer, and drained. The
\* fault does not wait for the drain.
AtEofUndrained(h) == h.writer_closed
AtEof(h) == IsEmpty(h) /\ h.writer_closed

\* PipeDevEnd::is_readable
IsReadable(h) == ~IsEmpty(h) \/ h.writer_closed

=============================================================================
