--------------------------- MODULE VsockPipeProofs --------------------------
(***************************************************************************)
(* Theorems about VsockPipe, for every capacity and every bound.           *)
(***************************************************************************)
EXTENDS VsockPipe, SequenceTheorems, TLAPS

(* Lemmas about a Half and the histories.                                  *)

\* Draining n bytes keeps the rest: nothing is lost and nothing is repeated.
LEMMA DrainSplits ==
  ASSUME NEW h \in HalfType, NEW n \in 0..Len(h.buf)
  PROVE  /\ FrontOf(h, n) \in Seq(Nat)
         /\ Drain(h, n) \in HalfType
         /\ Len(Drain(h, n).buf) = Len(h.buf) - n
         /\ h.buf = FrontOf(h, n) \o Drain(h, n).buf
<1> DEFINE front == SubSeq(h.buf, 1, n)
           rest  == SubSeq(h.buf, n + 1, Len(h.buf))
<1>1. h.buf \in Seq(Nat) /\ Len(h.buf) \in Nat
  BY LenProperties DEF HalfType
<1>2. \A i \in 1..Len(h.buf) : h.buf[i] \in Nat
  BY <1>1, ElementOfSeq
<1>3. front \in Seq(Nat)
  BY <1>1, <1>2, SubSeqProperties
<1>4. rest \in Seq(Nat) /\ Len(rest) = Len(h.buf) - n
  BY <1>1, <1>2, SubSeqProperties
<1>5. front \o rest = h.buf
  <2> DEFINE b == h.buf
  <2>1. b \in Seq(Nat) /\ n \in 0..Len(b) /\ Len(b) \in Nat
    BY <1>1
  <2>2. 1 \in 1..(Len(b) + 1) /\ n \in (1 - 1)..Len(b) /\ Len(b) \in n..Len(b)
    BY <2>1
  <2> HIDE DEF b
  <2>3. SubSeq(b, 1, n) \o SubSeq(b, n + 1, Len(b)) = SubSeq(b, 1, Len(b))
    BY <2>1, <2>2, ConcatAdjacentSubSeq
  <2>4. SubSeq(b, 1, Len(b)) = b
    BY <2>1, SubSeqFull
  <2> QED
    BY <2>3, <2>4 DEF b
<1>6. Drain(h, n) = [h EXCEPT !.buf = rest] /\ FrontOf(h, n) = front
  BY DEF Drain, FrontOf
<1>7. [h EXCEPT !.buf = rest] \in HalfType
  BY <1>4 DEF HalfType
<1>8. Drain(h, n).buf = rest
  BY <1>6 DEF HalfType
<1> QED
  BY <1>3, <1>4, <1>5, <1>6, <1>7, <1>8

\* What is accepted of k bytes fits.
LEMMA AcceptsFits ==
  ASSUME NEW h \in HalfType, Len(h.buf) <= Capacity, NEW k \in Nat
  PROVE  /\ Accepts(h, k) \in 0..k
         /\ Len(h.buf) + Accepts(h, k) <= Capacity
<1> DEFINE len == Len(h.buf)
           n   == IF k <= Capacity - len THEN k ELSE Capacity - len
<1>1. len \in Nat /\ len <= Capacity
  BY LenProperties DEF HalfType
<1>2. Capacity \in Nat
  BY CapacityAssumption
<1> HIDE DEF len
<1>3. n \in 0..k /\ len + n <= Capacity
  BY <1>1, <1>2
<1> QED
  BY <1>3 DEF Accepts, len

\* Extending a Half appends to its buffer and leaves the rest of it alone.
LEMMA ExtendType ==
  ASSUME NEW h \in HalfType, NEW bytes \in Seq(Nat)
  PROVE  /\ Extend(h, bytes) \in HalfType
         /\ Extend(h, bytes).buf = h.buf \o bytes
         /\ Len(Extend(h, bytes).buf) = Len(h.buf) + Len(bytes)
<1>1. h.buf \in Seq(Nat)
  BY DEF HalfType
<1>2. h.buf \o bytes \in Seq(Nat) /\ Len(h.buf \o bytes) = Len(h.buf) + Len(bytes)
  BY <1>1, ConcatProperties
<1>3. Extend(h, bytes) = [h EXCEPT !.buf = h.buf \o bytes]
  BY DEF Extend
<1> QED
  BY <1>2, <1>3 DEF HalfType

\* Fresh bytes are a sequence of the length asked for.
LEMMA FreshType ==
  ASSUME NEW s \in Seq(Nat), NEW n \in Nat
  PROVE  Fresh(s, n) \in Seq(Nat) /\ Len(Fresh(s, n)) = n
<1>1. Len(s) \in Nat
  BY LenProperties
<1>2. Fresh(s, n) \in [1..n -> Nat]
  BY <1>1 DEF Fresh
<1>3. Fresh(s, n) \in Seq(Nat)
  BY <1>2, SeqDef
<1> QED
  BY <1>2, <1>3, LenProperties

-----------------------------------------------------------------------------
(* Type correctness.                                                       *)

\* The pipe starts within its type.
LEMMA InitType == Init => TypeOK
<1>1. NewHalf \in HalfType /\ NewHalf.buf = <<>>
  BY DEF NewHalf, HalfType
<1>2. <<>> \in Seq(Nat) /\ Len(<<>>) = 0
  BY EmptySeq
<1> SUFFICES ASSUME Init PROVE TypeOK
  OBVIOUS
<1>3. to_host \in HalfType /\ to_dev \in HalfType
  BY <1>1 DEF Init
<1>4. Len(to_host.buf) <= Capacity /\ Len(to_dev.buf) <= Capacity
  <2>1. to_host.buf = <<>> /\ to_dev.buf = <<>>
    BY <1>1 DEF Init
  <2> QED
    BY <2>1, <1>2, CapacityAssumption
<1>5. sentH \in Seq(Nat) /\ gotH \in Seq(Nat) /\ sentD \in Seq(Nat) /\ gotD \in Seq(Nat)
  BY <1>2 DEF Init
<1> QED
  BY <1>3, <1>4, <1>5 DEF Init, TypeOK

\* Every step keeps the type invariant: the buffers stay within the capacity.
LEMMA NextType == TypeOK /\ [Next]_vars => TypeOK'
<1> SUFFICES ASSUME TypeOK, [Next]_vars PROVE TypeOK'
  OBVIOUS
<1> USE DEF hostVars, devVars, histH, histD
<1>a. \A h \in HalfType : h.buf \in Seq(Nat) /\ Len(h.buf) \in Nat
  BY LenProperties DEF HalfType
<1>1. ASSUME NEW n \in 1..Capacity, PollReadData(n) PROVE TypeOK'
  <2>1. n \in 0..Len(to_host.buf)
    BY <1>1, <1>a DEF PollReadData, TypeOK
  <2>2. /\ FrontOf(to_host, n) \in Seq(Nat) /\ Drain(to_host, n) \in HalfType
        /\ Len(Drain(to_host, n).buf) <= Capacity
    BY <2>1, <1>a, DrainSplits, CapacityAssumption, SMTT(30) DEF TypeOK
  <2>3. gotH \o FrontOf(to_host, n) \in Seq(Nat)
    BY <2>2, ConcatProperties DEF TypeOK
  <2> QED
    BY <1>1, <2>2, <2>3 DEF PollReadData, Ping, TypeOK
<1>2. ASSUME NEW k \in 1..MaxBytes, PollWriteData(k) PROVE TypeOK'
  <2> DEFINE bytes == Fresh(sentD, Accepts(to_dev, k))
  <2>1. k \in Nat
    BY BoundsAssumption
  <2>2. Accepts(to_dev, k) \in 0..k /\ Len(to_dev.buf) + Accepts(to_dev, k) <= Capacity
    BY <2>1, AcceptsFits DEF TypeOK
  <2>3. bytes \in Seq(Nat) /\ Len(bytes) = Accepts(to_dev, k)
    BY <2>2, FreshType DEF TypeOK
  <2>4. sentD \o bytes \in Seq(Nat)
    BY <2>3, ConcatProperties DEF TypeOK
  <2>5. Extend(to_dev, bytes) \in HalfType /\ Len(Extend(to_dev, bytes).buf) <= Capacity
    BY <2>2, <2>3, ExtendType DEF TypeOK
  <2> QED
    BY <1>2, <2>4, <2>5 DEF PollWriteData, Ping, TypeOK
<1>3. CASE TryWrite
  <2> DEFINE n == Accepts(to_host, pending)
             bytes == Fresh(sentH, n)
  <2>1. n \in 0..pending /\ Len(to_host.buf) + n <= Capacity
    BY AcceptsFits DEF TypeOK
  <2>2. bytes \in Seq(Nat) /\ Len(bytes) = n
    BY <2>1, FreshType DEF TypeOK
  <2>3. sentH \o bytes \in Seq(Nat)
    BY <2>2, ConcatProperties DEF TypeOK
  <2>4. Extend(to_host, bytes) \in HalfType /\ Len(Extend(to_host, bytes).buf) <= Capacity
    BY <2>1, <2>2, ExtendType DEF TypeOK
  <2>5. /\ [Extend(to_host, bytes) EXCEPT !.read_waker = FALSE] \in HalfType
        /\ Len([Extend(to_host, bytes) EXCEPT !.read_waker = FALSE].buf) <= Capacity
    BY <2>4 DEF HalfType
  <2>6. pending - n \in Nat
    BY <2>1 DEF TypeOK
  <2> QED
    BY <1>3, <2>3, <2>5, <2>6 DEF TryWrite, Taken, TypeOK
<1>4. ASSUME NEW n \in 1..Capacity, ReadSlice(n) PROVE TypeOK'
  <2>1. n \in 0..Len(to_dev.buf)
    BY <1>4, <1>a DEF ReadSlice, CanTransfer, TypeOK
  <2>2. /\ FrontOf(to_dev, n) \in Seq(Nat) /\ Drain(to_dev, n) \in HalfType
        /\ Len(Drain(to_dev, n).buf) <= Capacity
    BY <2>1, <1>a, DrainSplits, CapacityAssumption, SMTT(30) DEF TypeOK
  <2>3. gotD \o FrontOf(to_dev, n) \in Seq(Nat)
    BY <2>2, ConcatProperties DEF TypeOK
  <2>4. /\ [Drain(to_dev, n) EXCEPT !.write_waker = FALSE] \in HalfType
        /\ Len([Drain(to_dev, n) EXCEPT !.write_waker = FALSE].buf) <= Capacity
    BY <2>2 DEF HalfType
  <2>5. rx' \in 0..RxBufs
    BY <1>4, BoundsAssumption DEF ReadSlice, CanTransfer, TypeOK
  <2> QED
    BY <1>4, <2>3, <2>4, <2>5 DEF ReadSlice, Taken, TypeOK
<1>5. CASE PollReadEof \/ PollReadPending \/ PollWriteBroken \/ PollWritePending
  BY <1>5, ZenonT(60) DEF PollReadEof, PollReadPending, PollWriteBroken, PollWritePending,
              ReadWakerLeft, HalfType, TypeOK
<1>6. CASE PollShutdown \/ DropStream \/ WakeDevice \/ Repoll
  BY <1>6, ZenonT(60) DEF PollShutdown, DropStream, WakeDevice, Repoll, Ping, HalfType, TypeOK
<1>7. CASE DevNotified \/ FlushDone \/ ReadStops \/ GuestReset
  BY <1>7 DEF DevNotified, FlushDone, ReadStops, GuestReset, TypeOK
<1>8. ASSUME NEW k \in 1..MaxBytes, GuestTx(k) PROVE TypeOK'
  BY <1>8, BoundsAssumption DEF GuestTx, TypeOK
<1>9. CASE GuestRx \/ ReadEof
  <2>1. rx' \in 0..RxBufs
    BY <1>9, BoundsAssumption DEF GuestRx, ReadEof, CanTransfer, TypeOK
  <2> QED
    BY <1>9, <2>1 DEF GuestRx, ReadEof, TypeOK
<1>10. CASE DropDevEndToHost \/ DropDevEndToDev
  <2>1. /\ to_host' \in HalfType /\ to_host'.buf = to_host.buf
        /\ to_dev' \in HalfType /\ to_dev'.buf = to_dev.buf
    BY <1>10 DEF DropDevEndToHost, DropDevEndToDev, HalfType, TypeOK
  <2>2. wakes' \in SUBSET {"read", "write"}
    BY <1>10 DEF DropDevEndToHost, DropDevEndToDev, Taken, TypeOK
  <2> QED
    BY <1>10, <2>1, <2>2 DEF DropDevEndToHost, DropDevEndToDev, TypeOK
<1>11. ASSUME NEW w \in {"read", "write"}, FireWake(w) PROVE TypeOK'
  BY <1>11 DEF FireWake, TypeOK
<1>12. ASSUME NEW flag \in Directions, GuestShutdown(flag) PROVE TypeOK'
  BY <1>12 DEF GuestShutdown, Directions, TypeOK
<1>13. CASE UNCHANGED vars
  BY <1>13 DEF vars, TypeOK
<1> QED
  BY <1>1, <1>2, <1>3, <1>4, <1>5, <1>6, <1>7, <1>8, <1>9, <1>10, <1>11, <1>12, <1>13
  DEF Next, Host, Device, PollRead, PollWrite, ServiceConnection

\* The pipe's halves stay within their capacity, and the wakers, tasks and
\* the worker in their states, in every run.
THEOREM TypeCorrect == SafeSpec => []TypeOK
BY InitType, NextType, PTL DEF SafeSpec

-----------------------------------------------------------------------------
(* Order.                                                                  *)

\* Appending sequences is associative.
LEMMA Associative ==
  ASSUME NEW s \in Seq(Nat), NEW t \in Seq(Nat), NEW u \in Seq(Nat)
  PROVE  (s \o t) \o u = s \o (t \o u)
BY SMT

\* Appending to what was accepted and to the buffer keeps the order.
LEMMA AcceptKeepsOrder ==
  ASSUME NEW got \in Seq(Nat), NEW h \in HalfType, NEW bytes \in Seq(Nat)
  PROVE  (got \o h.buf) \o bytes = got \o Extend(h, bytes).buf
<1>1. h.buf \in Seq(Nat)
  BY DEF HalfType
<1>2. (got \o h.buf) \o bytes = got \o (h.buf \o bytes)
  BY <1>1, Associative
<1> QED
  BY <1>2, ExtendType

\* Moving the oldest bytes to what was handed out keeps it as well.
LEMMA HandOutKeepsOrder ==
  ASSUME NEW got \in Seq(Nat), NEW h \in HalfType, NEW n \in 0..Len(h.buf)
  PROVE  got \o h.buf = (got \o FrontOf(h, n)) \o Drain(h, n).buf
<1>1. /\ FrontOf(h, n) \in Seq(Nat) /\ Drain(h, n).buf \in Seq(Nat)
      /\ h.buf = FrontOf(h, n) \o Drain(h, n).buf
  BY DrainSplits DEF HalfType
<1>2. (got \o FrontOf(h, n)) \o Drain(h, n).buf = got \o (FrontOf(h, n) \o Drain(h, n).buf)
  BY <1>1, Associative
<1> QED
  BY <1>1, <1>2

\* An empty pipe has handed out what it was given.
LEMMA InitOrder == Init => InOrder
<1>1. NewHalf.buf = <<>>
  BY DEF NewHalf
<1>2. <<>> \o <<>> = <<>>
  BY EmptySeq, ConcatEmptySeq
<1> QED
  BY <1>1, <1>2 DEF Init, InOrder

\* Every critical section keeps the order of the bytes, in both directions.
LEMMA NextOrder == TypeOK /\ InOrder /\ [Next]_vars => InOrder'
<1> SUFFICES ASSUME TypeOK, InOrder, [Next]_vars PROVE InOrder'
  OBVIOUS
<1> USE DEF hostVars, devVars, histH, histD
<1>a. \A h \in HalfType : h.buf \in Seq(Nat) /\ Len(h.buf) \in Nat
  BY LenProperties DEF HalfType
<1>b. /\ to_host \in HalfType /\ to_dev \in HalfType
      /\ Len(to_host.buf) <= Capacity /\ Len(to_dev.buf) <= Capacity
      /\ gotH \in Seq(Nat) /\ gotD \in Seq(Nat) /\ sentH \in Seq(Nat) /\ sentD \in Seq(Nat)
      /\ sentH = gotH \o to_host.buf /\ sentD = gotD \o to_dev.buf
  BY DEF TypeOK, InOrder
<1>1. ASSUME NEW n \in 1..Capacity, PollReadData(n) PROVE InOrder'
  <2>1. n \in 0..Len(to_host.buf)
    BY <1>1, <1>a DEF PollReadData, TypeOK
  <2>a. gotH \o to_host.buf = (gotH \o FrontOf(to_host, n)) \o Drain(to_host, n).buf
    BY <2>1, <1>b, HandOutKeepsOrder
  <2>2. sentH = (gotH \o FrontOf(to_host, n)) \o Drain(to_host, n).buf
    BY <2>a, <1>b
  <2> QED
    BY <1>1, <2>2 DEF PollReadData, InOrder
<1>2. ASSUME NEW k \in 1..MaxBytes, PollWriteData(k) PROVE InOrder'
  <2> DEFINE bytes == Fresh(sentD, Accepts(to_dev, k))
  <2>a. k \in Nat
    BY BoundsAssumption
  <2>1. Accepts(to_dev, k) \in 0..k
    BY <2>a, <1>b, AcceptsFits
  <2>2. bytes \in Seq(Nat)
    BY <2>1, BoundsAssumption, FreshType DEF TypeOK
  <2>3. sentD \o bytes = gotD \o Extend(to_dev, bytes).buf
    BY <2>2, <1>b, AcceptKeepsOrder
  <2> QED
    BY <1>2, <2>3 DEF PollWriteData, InOrder
<1>3. CASE TryWrite
  <2> DEFINE bytes == Fresh(sentH, Accepts(to_host, pending))
  <2>1. Accepts(to_host, pending) \in 0..pending
    BY AcceptsFits DEF TypeOK
  <2>2. bytes \in Seq(Nat)
    BY <2>1, FreshType DEF TypeOK
  <2>3. sentH \o bytes = gotH \o Extend(to_host, bytes).buf
    BY <2>2, <1>b, AcceptKeepsOrder
  <2>4. Extend(to_host, bytes) \in HalfType
    BY <2>2, ExtendType DEF TypeOK
  <2>5. [Extend(to_host, bytes) EXCEPT !.read_waker = FALSE].buf = Extend(to_host, bytes).buf
    BY <2>4 DEF HalfType
  <2> QED
    BY <1>3, <2>3, <2>5 DEF TryWrite, InOrder
<1>4. ASSUME NEW n \in 1..Capacity, ReadSlice(n) PROVE InOrder'
  <2>1. n \in 0..Len(to_dev.buf)
    BY <1>4, <1>a DEF ReadSlice, CanTransfer, TypeOK
  <2>a. gotD \o to_dev.buf = (gotD \o FrontOf(to_dev, n)) \o Drain(to_dev, n).buf
    BY <2>1, <1>b, HandOutKeepsOrder
  <2>2. sentD = (gotD \o FrontOf(to_dev, n)) \o Drain(to_dev, n).buf
    BY <2>a, <1>b
  <2>3. Drain(to_dev, n) \in HalfType
    BY <2>1, DrainSplits DEF TypeOK
  <2>4. [Drain(to_dev, n) EXCEPT !.write_waker = FALSE].buf = Drain(to_dev, n).buf
    BY <2>3 DEF HalfType
  <2> QED
    BY <1>4, <2>2, <2>4 DEF ReadSlice, InOrder
<1>5. CASE PollReadEof \/ PollReadPending \/ PollWriteBroken \/ PollWritePending
  BY <1>5 DEF PollReadEof, PollReadPending, PollWriteBroken, PollWritePending,
              ReadWakerLeft, HalfType, TypeOK, InOrder
<1>6. CASE PollShutdown \/ DropStream \/ WakeDevice \/ Repoll
  BY <1>6 DEF PollShutdown, DropStream, WakeDevice, Repoll, HalfType, TypeOK, InOrder
<1>7. CASE DevNotified \/ FlushDone \/ ReadStops \/ GuestReset \/ GuestRx \/ ReadEof
  BY <1>7 DEF DevNotified, FlushDone, ReadStops, GuestReset, GuestRx, ReadEof, InOrder
<1>8. ASSUME NEW k \in 1..MaxBytes, GuestTx(k) PROVE InOrder'
  BY <1>8 DEF GuestTx, InOrder
<1>9. CASE DropDevEndToHost \/ DropDevEndToDev
  BY <1>9 DEF DropDevEndToHost, DropDevEndToDev, HalfType, TypeOK, InOrder
<1>10. ASSUME NEW w \in {"read", "write"}, FireWake(w) PROVE InOrder'
  BY <1>10 DEF FireWake, InOrder
<1>11. ASSUME NEW flag \in Directions, GuestShutdown(flag) PROVE InOrder'
  BY <1>11 DEF GuestShutdown, InOrder
<1>12. CASE UNCHANGED vars
  BY <1>12 DEF vars, InOrder
<1> QED
  BY <1>1, <1>2, <1>3, <1>4, <1>5, <1>6, <1>7, <1>8, <1>9, <1>10, <1>11, <1>12
  DEF Next, Host, Device, PollRead, PollWrite, ServiceConnection

\* In both directions the reader is handed exactly the bytes the writer had
\* accepted, in their order, for every capacity of the pipe.
THEOREM OrderCorrect == SafeSpec => []InOrder
BY InitType, NextType, InitOrder, NextOrder, PTL DEF SafeSpec

-----------------------------------------------------------------------------
(* Wakeups.                                                                *)

\* No waker is left and no task is parked before the first poll.
LEMMA InitWakers == Init => HostWakers /\ DevicePings
<1>1. NewHalf = [buf |-> <<>>, writer_closed |-> FALSE, reader_closed |-> FALSE,
                 read_waker |-> FALSE, write_waker |-> FALSE]
  BY DEF NewHalf
<1> QED
  BY <1>1 DEF Init, HostWakers, DevicePings, CanFlush, CanRead, CanTransfer, IsReadable, IsEmpty

\* Every step leaves a parked task with its waker, and a waker only where its
\* task is blocked.
LEMMA NextWakers == TypeOK /\ HostWakers /\ [Next]_vars => HostWakers'
<1> SUFFICES ASSUME TypeOK, HostWakers, [Next]_vars PROVE HostWakers'
  OBVIOUS
<1> USE DEF hostVars, devVars, histH, histD, HostWakers
<1>1. ASSUME NEW n \in 1..Capacity, PollReadData(n) PROVE HostWakers'
  <2>1. ~to_host.read_waker
    BY <1>1, LenProperties DEF PollReadData, IsEmpty, TypeOK, HalfType
  <2>2. to_host'.read_waker = to_host.read_waker
    BY <1>1 DEF PollReadData, Drain, TypeOK, HalfType
  <2> QED
    BY <1>1, <2>1, <2>2 DEF PollReadData
<1>2. ASSUME NEW k \in 1..MaxBytes, PollWriteData(k) PROVE HostWakers'
  <2>1. ~to_dev.write_waker
    BY <1>2 DEF PollWriteData
  <2>2. to_dev'.write_waker = to_dev.write_waker
    BY <1>2 DEF PollWriteData, Extend, TypeOK, HalfType
  <2> QED
    BY <1>2, <2>1, <2>2 DEF PollWriteData
<1>3. CASE TryWrite
  <2>1. to_host'.read_waker = FALSE /\ wakes = {}
    BY <1>3 DEF TryWrite, Extend, DevAt, TypeOK, HalfType
  <2>2. to_host.read_waker => "read" \in wakes'
    BY <1>3 DEF TryWrite, Taken
  <2> QED
    BY <1>3, <2>1, <2>2 DEF TryWrite
<1>4. ASSUME NEW n \in 1..Capacity, ReadSlice(n) PROVE HostWakers'
  <2>1. to_dev'.write_waker = FALSE /\ wakes = {}
    BY <1>4 DEF ReadSlice, Drain, DevAt, TypeOK, HalfType
  <2>2. to_dev.write_waker => "write" \in wakes'
    BY <1>4 DEF ReadSlice, Taken
  <2> QED
    BY <1>4, <2>1, <2>2 DEF ReadSlice
<1>5. CASE PollReadEof \/ PollWriteBroken
  BY <1>5 DEF PollReadEof, PollWriteBroken
<1>6. CASE PollReadPending
  BY <1>6 DEF PollReadPending, ReadWakerLeft, IsEmpty, TypeOK, HalfType
<1>7. CASE PollWritePending
  BY <1>7 DEF PollWritePending, IsFull, TypeOK, HalfType
<1>8. CASE PollShutdown \/ DropStream
  <2>1. /\ to_host'.read_waker = to_host.read_waker /\ to_host'.buf = to_host.buf
        /\ to_host'.writer_closed = to_host.writer_closed
        /\ to_dev'.write_waker = to_dev.write_waker /\ to_dev'.buf = to_dev.buf
        /\ to_dev'.reader_closed = to_dev.reader_closed
    BY <1>8 DEF PollShutdown, DropStream, TypeOK, HalfType
  <2>2. /\ wakes' = wakes
        /\ rtask' = "parked" => rtask = "parked"
        /\ wtask' = "parked" => wtask = "parked"
    BY <1>8 DEF PollShutdown, DropStream
  <2> QED
    BY <2>1, <2>2 DEF IsEmpty, IsFull
<1>9. CASE WakeDevice \/ Repoll
  BY <1>9 DEF WakeDevice, Repoll
<1>10. CASE DevNotified \/ FlushDone \/ ReadStops \/ GuestReset \/ GuestRx \/ ReadEof
  BY <1>10 DEF DevNotified, FlushDone, ReadStops, GuestReset, GuestRx, ReadEof
<1>11. ASSUME NEW k \in 1..MaxBytes, GuestTx(k) PROVE HostWakers'
  BY <1>11 DEF GuestTx
<1>12. CASE DropDevEndToHost
  <2>1. to_host'.read_waker = FALSE /\ wakes = {}
    BY <1>12 DEF DropDevEndToHost, DevAt, TypeOK, HalfType
  <2>2. to_host.read_waker => "read" \in wakes'
    BY <1>12 DEF DropDevEndToHost, Taken
  <2> QED
    BY <1>12, <2>1, <2>2 DEF DropDevEndToHost
<1>13. CASE DropDevEndToDev
  <2>1. to_dev'.write_waker = FALSE /\ wakes \subseteq wakes'
    BY <1>13 DEF DropDevEndToDev, TypeOK, HalfType
  <2>2. to_dev.write_waker => "write" \in wakes'
    BY <1>13 DEF DropDevEndToDev, Taken
  <2> QED
    BY <1>13, <2>1, <2>2 DEF DropDevEndToDev
<1>14. ASSUME NEW w \in {"read", "write"}, FireWake(w) PROVE HostWakers'
  BY <1>14 DEF FireWake
<1>15. ASSUME NEW flag \in Directions, GuestShutdown(flag) PROVE HostWakers'
  BY <1>15 DEF GuestShutdown
<1>16. CASE UNCHANGED vars
  BY <1>16 DEF vars, IsEmpty, IsFull
<1> QED
  BY <1>1, <1>2, <1>3, <1>4, <1>5, <1>6, <1>7, <1>8, <1>9, <1>10, <1>11, <1>12,
     <1>13, <1>14, <1>15, <1>16
  DEF Next, Host, Device, PollRead, PollWrite, ServiceConnection

\* A parked host task that could go on has its wakeup on the way: there is no
\* lost wakeup in any interleaving of the two threads.
THEOREM HostWakeupCorrect == SafeSpec => []NoLostHostWakeup
<1>1. HostWakers => NoLostHostWakeup
  BY DEF HostWakers, NoLostHostWakeup, IsReadable, IsEmpty
<1> QED
  BY InitType, NextType, InitWakers, NextWakers, <1>1, PTL DEF SafeSpec

\* Every step that makes new work for the worker announces it, or is the
\* worker's own and comes before it examines that kind of work again.
LEMMA NextPings == TypeOK /\ DevicePings /\ [Next]_vars => DevicePings'
<1> SUFFICES ASSUME TypeOK, DevicePings, [Next]_vars PROVE DevicePings'
  OBVIOUS
<1> USE DEF hostVars, devVars, histH, histD, DevicePings
<1>1. ASSUME NEW n \in 1..Capacity, PollReadData(n) PROVE DevicePings'
  BY <1>1 DEF PollReadData, Ping
<1>2. ASSUME NEW k \in 1..MaxBytes, PollWriteData(k) PROVE DevicePings'
  BY <1>2 DEF PollWriteData, Ping
<1>3. CASE TryWrite
  <2>1. devPc \in {"tx", "flush"} /\ devPc' = devPc
    BY <1>3 DEF TryWrite, DevAt
  <2>2. CanRead' = CanRead /\ notified' = notified /\ hostPc' = hostPc
    BY <1>3 DEF TryWrite, CanRead, CanTransfer, IsReadable, IsEmpty
  <2> QED
    BY <2>1, <2>2
<1>4. ASSUME NEW n \in 1..Capacity, ReadSlice(n) PROVE DevicePings'
  <2>1. devPc = "read" /\ devPc' = devPc
    BY <1>4 DEF ReadSlice, DevAt
  <2>2. CanFlush' = CanFlush /\ notified' = notified /\ hostPc' = hostPc
    BY <1>4 DEF ReadSlice, CanFlush, IsFull
  <2> QED
    BY <2>1, <2>2
<1>5. CASE PollReadEof \/ PollWriteBroken
  BY <1>5 DEF PollReadEof, PollWriteBroken, CanFlush, CanRead, CanTransfer, IsReadable, IsEmpty, IsFull
<1>6. CASE PollReadPending \/ PollWritePending
  <2>1. /\ to_host'.buf = to_host.buf /\ to_host'.reader_closed = to_host.reader_closed
        /\ to_dev'.buf = to_dev.buf /\ to_dev'.writer_closed = to_dev.writer_closed
    BY <1>6 DEF PollReadPending, PollWritePending, ReadWakerLeft, TypeOK, HalfType
  <2>2. UNCHANGED <<pending, rx, shutdown, devPc, notified, hostPc>>
    BY <1>6 DEF PollReadPending, PollWritePending
  <2> QED
    BY <2>1, <2>2 DEF CanFlush, CanRead, CanTransfer, IsReadable, IsEmpty, IsFull
<1>7. CASE PollShutdown \/ DropStream
  BY <1>7 DEF PollShutdown, DropStream, Ping
<1>8. CASE WakeDevice
  BY <1>8 DEF WakeDevice
<1>9. CASE Repoll
  BY <1>9 DEF Repoll, CanFlush, CanRead, CanTransfer, IsReadable, IsEmpty, IsFull
<1>10. CASE DevNotified \/ GuestReset
  BY <1>10 DEF DevNotified, GuestReset
<1>11. CASE FlushDone
  <2>1. ~CanFlush /\ devPc \in {"tx", "flush"}
    BY <1>11 DEF FlushDone, CanFlush, DevAt
  <2>2. CanFlush' = CanFlush /\ CanRead' = CanRead
    BY <1>11 DEF FlushDone, CanFlush, CanRead, CanTransfer, IsFull, IsReadable, IsEmpty
  <2>3. (devPc = "tx" /\ devPc' = "poll") \/ devPc' = "read"
    BY <1>11 DEF FlushDone, DevAt
  <2>4. notified' = notified /\ hostPc' = hostPc
    BY <1>11 DEF FlushDone
  <2> QED
    BY <2>1, <2>2, <2>3, <2>4
<1>12. CASE ReadStops
  <2>1. ~CanRead /\ devPc = "read"
    BY <1>12 DEF ReadStops, CanRead, DevAt
  <2>2. CanFlush' = CanFlush /\ CanRead' = CanRead
    BY <1>12 DEF ReadStops, CanFlush, CanRead, CanTransfer, IsFull, IsReadable, IsEmpty
  <2>3. notified' = notified /\ hostPc' = hostPc
    BY <1>12 DEF ReadStops
  <2> QED
    BY <2>1, <2>2, <2>3
<1>13. ASSUME NEW k \in 1..MaxBytes, GuestTx(k) PROVE DevicePings'
  <2>1. devPc = "poll" /\ devPc' = "tx"
    BY <1>13 DEF GuestTx, DevAt
  <2>2. CanRead' = CanRead /\ notified' = notified /\ hostPc' = hostPc
    BY <1>13 DEF GuestTx, CanRead, CanTransfer, IsReadable, IsEmpty
  <2> QED
    BY <2>1, <2>2
<1>14. CASE GuestRx \/ ReadEof \/ DropDevEndToHost \/ DropDevEndToDev
  <2>1. devPc' \in {"flush", "drop", "drop2", "closed"}
    BY <1>14 DEF GuestRx, ReadEof, DropDevEndToHost, DropDevEndToDev
  <2> QED
    BY <2>1
<1>15. ASSUME NEW w \in {"read", "write"}, FireWake(w) PROVE DevicePings'
  BY <1>15 DEF FireWake, CanFlush, CanRead, CanTransfer, IsReadable, IsEmpty, IsFull
<1>16. ASSUME NEW flag \in Directions, GuestShutdown(flag) PROVE DevicePings'
  <2>1. devPc = "poll" /\ ~CanRead'
    BY <1>16 DEF GuestShutdown, DevAt, CanRead, CanTransfer
  <2>2. CanFlush' = CanFlush /\ notified' = notified /\ hostPc' = hostPc
    BY <1>16 DEF GuestShutdown, CanFlush, IsFull
  <2> QED
    BY <2>1, <2>2
<1>17. CASE UNCHANGED vars
  BY <1>17 DEF vars, CanFlush, CanRead, CanTransfer, IsReadable, IsEmpty, IsFull
<1> QED
  BY <1>1, <1>2, <1>3, <1>4, <1>5, <1>6, <1>7, <1>8, <1>9, <1>10, <1>11, <1>12,
     <1>13, <1>14, <1>15, <1>16, <1>17
  DEF Next, Host, Device, PollRead, PollWrite, ServiceConnection

\* The worker sleeps over no work it could do: every host-side transition it
\* cares about pings it, and it examines both directions after every wakeup.
THEOREM DeviceWakeupCorrect == SafeSpec => []NoLostDeviceWakeup
<1>1. DevicePings => NoLostDeviceWakeup
  BY DEF DevicePings, NoLostDeviceWakeup, DeviceHasWork
<1> QED
  BY InitType, NextType, InitWakers, NextPings, <1>1, PTL DEF SafeSpec

-----------------------------------------------------------------------------
(* Each direction implements ByteStream.                                   *)

\* No end is closed, and no end of a stream told, before somebody does it.
LEMMA InitEnds == Init => ClosedEnds
BY DEF Init, ClosedEnds, NewHalf

\* Only the drops close the ends of to_host and the device's end of to_dev, and
\* nothing but the drop follows the end of to_dev.
LEMMA NextEnds == TypeOK /\ ClosedEnds /\ [Next]_vars => ClosedEnds'
<1> SUFFICES ASSUME TypeOK, ClosedEnds, [Next]_vars PROVE ClosedEnds'
  OBVIOUS
<1> USE DEF hostVars, devVars, histH, histD, ClosedEnds
<1>1. ASSUME NEW n \in 1..Capacity, PollReadData(n) PROVE ClosedEnds'
  BY <1>1 DEF PollReadData, Drain, TypeOK, HalfType
<1>2. ASSUME NEW k \in 1..MaxBytes, PollWriteData(k) PROVE ClosedEnds'
  BY <1>2 DEF PollWriteData, Extend, TypeOK, HalfType
<1>3. CASE TryWrite
  BY <1>3 DEF TryWrite, Extend, TypeOK, HalfType
<1>4. ASSUME NEW n \in 1..Capacity, ReadSlice(n) PROVE ClosedEnds'
  BY <1>4 DEF ReadSlice, Drain, TypeOK, HalfType
<1>5. CASE PollReadEof \/ PollReadPending \/ PollWriteBroken \/ PollWritePending
  <2>1. /\ to_host'.reader_closed = to_host.reader_closed
        /\ to_host'.writer_closed = to_host.writer_closed
        /\ to_dev'.reader_closed = to_dev.reader_closed
    BY <1>5 DEF PollReadEof, PollReadPending, PollWriteBroken, PollWritePending,
                ReadWakerLeft, TypeOK, HalfType
  <2>2. UNCHANGED <<hostOpen, devPc, eofD>>
    BY <1>5 DEF PollReadEof, PollReadPending, PollWriteBroken, PollWritePending
  <2> QED
    BY <2>1, <2>2
<1>6. CASE PollShutdown \/ DropStream \/ WakeDevice \/ Repoll
  BY <1>6 DEF PollShutdown, DropStream, WakeDevice, Repoll, TypeOK, HalfType
<1>7. CASE DevNotified \/ FlushDone \/ ReadStops \/ GuestReset \/ GuestRx \/ ReadEof
  BY <1>7 DEF DevNotified, FlushDone, ReadStops, GuestReset, GuestRx, ReadEof, DevAt
<1>8. ASSUME NEW k \in 1..MaxBytes, GuestTx(k) PROVE ClosedEnds'
  BY <1>8 DEF GuestTx, DevAt
<1>9. CASE DropDevEndToHost
  BY <1>9 DEF DropDevEndToHost, DevAt, TypeOK, HalfType
<1>10. CASE DropDevEndToDev
  BY <1>10 DEF DropDevEndToDev, TypeOK, HalfType
<1>11. ASSUME NEW w \in {"read", "write"}, FireWake(w) PROVE ClosedEnds'
  BY <1>11 DEF FireWake
<1>12. ASSUME NEW flag \in Directions, GuestShutdown(flag) PROVE ClosedEnds'
  BY <1>12 DEF GuestShutdown, DevAt
<1>13. CASE UNCHANGED vars
  BY <1>13 DEF vars
<1> QED
  BY <1>1, <1>2, <1>3, <1>4, <1>5, <1>6, <1>7, <1>8, <1>9, <1>10, <1>11, <1>12, <1>13
  DEF Next, Host, Device, PollRead, PollWrite, ServiceConnection

\* A history that got bytes at its end is an extension of what it was.
LEMMA GrowsAtItsEnd ==
  ASSUME NEW s \in Seq(Nat), NEW t \in Seq(Nat), Len(t) > 0
  PROVE  /\ Len(s \o t) > Len(s)
         /\ SubSeq(s \o t, 1, Len(s)) = s
<1>1. Len(s) \in Nat /\ Len(t) \in Nat /\ Len(s \o t) = Len(s) + Len(t)
  BY LenProperties, ConcatProperties
<1>2. SubSeq(s \o t, 1, Len(s)) = s
  <2>1. CASE Len(s) = 0
    <3>1. s = <<>>
      BY <2>1, EmptySeq
    <3>2. SubSeq(s \o t, 1, 0) = <<>>
      BY SubSeqEmpty
    <3> QED
      BY <3>1, <3>2, <2>1
  <2>2. CASE Len(s) # 0
    <3>1. 1 \in 1..Len(s) /\ Len(s) \in 1..Len(s)
      BY <1>1, <2>2
    <3>2. SubSeq(s \o t, 1, Len(s)) = SubSeq(s, 1, Len(s))
      BY <3>1, SubSeqOfConcat1
    <3> QED
      BY <3>2, SubSeqFull
  <2> QED
    BY <2>1, <2>2
<1> QED
  BY <1>1, <1>2

\* What is handed out of a buffer that holds the rest of a history is the part
\* of it that follows.
LEMMA HandsOutTheNext ==
  ASSUME NEW got \in Seq(Nat), NEW h \in HalfType, NEW n \in 1..Len(h.buf)
  PROVE  /\ Len(got \o FrontOf(h, n)) > Len(got)
         /\ SubSeq(got \o FrontOf(h, n), 1, Len(got)) = got
         /\ Len(got \o FrontOf(h, n)) <= Len(got \o h.buf)
         /\ got \o FrontOf(h, n) = SubSeq(got \o h.buf, 1, Len(got \o FrontOf(h, n)))
<1> DEFINE front == FrontOf(h, n)
           rest  == Drain(h, n).buf
           more  == got \o front
<1>1. h.buf \in Seq(Nat) /\ Len(h.buf) \in Nat /\ n \in 0..Len(h.buf)
  BY LenProperties DEF HalfType
<1>2. /\ front \in Seq(Nat) /\ rest \in Seq(Nat)
      /\ Len(rest) = Len(h.buf) - n /\ h.buf = front \o rest
  BY <1>1, DrainSplits DEF HalfType
<1>3. Len(front) \in Nat /\ Len(rest) \in Nat /\ Len(front \o rest) = Len(front) + Len(rest)
  BY <1>2, LenProperties, ConcatProperties
<1>4. Len(front) > 0
  BY <1>1, <1>2, <1>3
<1>5. more \in Seq(Nat) /\ Len(more) > Len(got) /\ SubSeq(more, 1, Len(got)) = got
  BY <1>2, <1>4, GrowsAtItsEnd, ConcatProperties
<1>6. got \o h.buf = more \o rest
  BY <1>1, HandOutKeepsOrder
<1>7. Len(got) \in Nat /\ Len(more) \in Nat /\ Len(more \o rest) = Len(more) + Len(rest)
  BY <1>2, <1>5, LenProperties, ConcatProperties
<1>8. Len(more) \in 1..Len(more)
  BY <1>5, <1>7
<1>9. SubSeq(more \o rest, 1, Len(more)) = more
  <2>1. 1 \in 1..Len(more)
    BY <1>8, <1>7
  <2>2. SubSeq(more \o rest, 1, Len(more)) = SubSeq(more, 1, Len(more))
    BY <1>2, <1>5, <1>8, <2>1, SubSeqOfConcat1
  <2> QED
    BY <2>2, <1>5, SubSeqFull
<1>10. Len(more) <= Len(more \o rest)
  <2>1. \A i, j \in Nat : i <= i + j
    OBVIOUS
  <2> QED
    BY <1>3, <1>7, <2>1, Zenon
<1> QED
  BY <1>5, <1>6, <1>9, <1>10

\* Every step is one of ByteStream in the guest-to-host direction, or leaves it
\* alone: bytes only go in while both ends are open, the reader gets the next ones,
\* and is told of the end when the device dropped its end and it has them all.
LEMMA StepToHost ==
  TypeOK /\ InOrder /\ ClosedEnds /\ [Next]_vars => [ToHost!Next]_(ToHost!vars)
<1> SUFFICES ASSUME TypeOK, InOrder, ClosedEnds, [Next]_vars
             PROVE  [ToHost!Next]_(ToHost!vars)
  OBVIOUS
<1> USE DEF hostVars, devVars, histH, histD, ClosedEnds, HostIdle, DevAt
<1> DEFINE Same == UNCHANGED <<sentH, gotH>>
           SameEnds == /\ to_host'.writer_closed = to_host.writer_closed
                       /\ to_host'.reader_closed = to_host.reader_closed
           NoEnd == (rtask' = "eof") = (rtask = "eof")
<1>a. Same /\ SameEnds /\ NoEnd => UNCHANGED ToHost!vars
  BY DEF ToHost!vars
<1>b. /\ Same /\ NoEnd
      /\ to_host.writer_closed => to_host'.writer_closed
      /\ to_host.reader_closed => to_host'.reader_closed
      => ToHost!Close
  BY DEF ToHost!Close
<1>1. ASSUME NEW n \in 1..Capacity, PollReadData(n) PROVE ToHost!Read
  <2>1. n \in 1..Len(to_host.buf) /\ ~to_host.reader_closed /\ rtask = "run"
    BY <1>1 DEF PollReadData
  <2>2. gotH' = gotH \o FrontOf(to_host, n) /\ sentH = gotH \o to_host.buf
    BY <1>1 DEF PollReadData, InOrder
  <2>3. /\ Len(gotH') > Len(gotH) /\ SubSeq(gotH', 1, Len(gotH)) = gotH
        /\ Len(gotH') <= Len(sentH) /\ gotH' = SubSeq(sentH, 1, Len(gotH'))
    BY <2>1, <2>2, HandsOutTheNext, SMTT(30) DEF TypeOK
  <2>4. SameEnds /\ NoEnd /\ sentH' = sentH
    BY <1>1 DEF PollReadData, Drain, TypeOK, HalfType
  <2> QED
    BY <2>1, <2>3, <2>4 DEF ToHost!Read, ToHost!Extends
<1>2. CASE TryWrite
  <2> DEFINE n == Accepts(to_host, pending)
             bytes == Fresh(sentH, n)
  <2>1. /\ ~to_host.reader_closed /\ ~to_host.writer_closed /\ ~IsFull(to_host)
        /\ pending > 0 /\ sentH' = sentH \o bytes /\ gotH' = gotH
    BY <1>2 DEF TryWrite
  <2>2. n \in 0..pending /\ n # 0
    <3>1. Len(to_host.buf) \in Nat /\ Len(to_host.buf) < Capacity /\ Capacity \in Nat
      BY <2>1, LenProperties, CapacityAssumption DEF TypeOK, HalfType, IsFull
    <3>2. n \in 0..pending
      BY AcceptsFits DEF TypeOK
    <3> QED
      BY <2>1, <3>1, <3>2 DEF Accepts, TypeOK
  <2>3. bytes \in Seq(Nat) /\ Len(bytes) = n
    BY <2>2, FreshType DEF TypeOK
  <2>4. Len(sentH') > Len(sentH) /\ SubSeq(sentH', 1, Len(sentH)) = sentH
    BY <2>1, <2>2, <2>3, GrowsAtItsEnd DEF TypeOK
  <2>5. SameEnds /\ NoEnd
    BY <1>2 DEF TryWrite, Extend, TypeOK, HalfType
  <2> QED
    BY <2>1, <2>4, <2>5 DEF ToHost!Write, ToHost!Extends, ToHost!Next
<1>3. CASE PollReadEof
  <2>1. to_host.writer_closed /\ to_host.buf = <<>> /\ rtask' = "eof" /\ Same /\ SameEnds
    BY <1>3 DEF PollReadEof, AtEof, IsEmpty
  <2>2. gotH = sentH
    BY <2>1, ConcatEmptySeq DEF InOrder, TypeOK
  <2> QED
    BY <2>1, <2>2 DEF ToHost!End, ToHost!Next
<1>4. CASE PollReadPending
  BY <1>4, <1>a DEF PollReadPending, ReadWakerLeft, TypeOK, HalfType
<1>5. CASE DropStream
  BY <1>5, <1>b DEF DropStream, TypeOK, HalfType, ToHost!Next
<1>6. CASE DropDevEndToHost
  BY <1>6, <1>b DEF DropDevEndToHost, TypeOK, HalfType, ToHost!Next
<1>7. ASSUME NEW k \in 1..MaxBytes, PollWriteData(k) \/ GuestTx(k) PROVE UNCHANGED ToHost!vars
  BY <1>7, <1>a DEF PollWriteData, GuestTx
<1>8. CASE PollWriteBroken \/ PollWritePending \/ PollShutdown \/ WakeDevice
  BY <1>8, <1>a DEF PollWriteBroken, PollWritePending, PollShutdown, WakeDevice
<1>9. CASE Repoll
  BY <1>9, <1>a DEF Repoll
<1>10. CASE DevNotified \/ GuestRx \/ GuestReset \/ FlushDone \/ ReadStops \/ ReadEof
  BY <1>10, <1>a DEF DevNotified, GuestRx, GuestReset, FlushDone, ReadStops, ReadEof
<1>11. CASE DropDevEndToDev
  BY <1>11, <1>a DEF DropDevEndToDev
<1>12. ASSUME NEW n \in 1..Capacity, ReadSlice(n) PROVE UNCHANGED ToHost!vars
  BY <1>12, <1>a DEF ReadSlice
<1>13. ASSUME NEW w \in {"read", "write"}, FireWake(w) PROVE UNCHANGED ToHost!vars
  BY <1>13, <1>a DEF FireWake
<1>14. ASSUME NEW flag \in Directions, GuestShutdown(flag) PROVE UNCHANGED ToHost!vars
  BY <1>14, <1>a DEF GuestShutdown
<1>15. CASE UNCHANGED vars
  BY <1>15, <1>a DEF vars
<1> QED
  BY <1>1, <1>2, <1>3, <1>4, <1>5, <1>6, <1>7, <1>8, <1>9, <1>10, <1>11, <1>12,
     <1>13, <1>14, <1>15
  DEF Next, Host, Device, PollRead, PollWrite, ServiceConnection, ToHost!Next

\* The same of the host-to-guest direction, whose reader is the device: it reads
\* no more once it was told of the end, for it drops its end then.
LEMMA StepToDev ==
  TypeOK /\ InOrder /\ ClosedEnds /\ [Next]_vars => [ToDev!Next]_(ToDev!vars)
<1> SUFFICES ASSUME TypeOK, InOrder, ClosedEnds, [Next]_vars
             PROVE  [ToDev!Next]_(ToDev!vars)
  OBVIOUS
<1> USE DEF hostVars, devVars, histH, histD, ClosedEnds, HostIdle, DevAt
<1> DEFINE Same == UNCHANGED <<sentD, gotD, eofD>>
           SameEnds == /\ to_dev'.writer_closed = to_dev.writer_closed
                       /\ to_dev'.reader_closed = to_dev.reader_closed
<1>a. Same /\ SameEnds => UNCHANGED ToDev!vars
  BY DEF ToDev!vars
<1>b. /\ Same
      /\ to_dev.writer_closed => to_dev'.writer_closed
      /\ to_dev.reader_closed => to_dev'.reader_closed
      => ToDev!Close
  BY DEF ToDev!Close
<1>1. ASSUME NEW n \in 1..Capacity, ReadSlice(n) PROVE ToDev!Read
  <2>1. n \in 1..Len(to_dev.buf) /\ ~to_dev.reader_closed /\ ~eofD
    BY <1>1 DEF ReadSlice
  <2>2. gotD' = gotD \o FrontOf(to_dev, n) /\ sentD = gotD \o to_dev.buf
    BY <1>1 DEF ReadSlice, InOrder
  <2>3. /\ Len(gotD') > Len(gotD) /\ SubSeq(gotD', 1, Len(gotD)) = gotD
        /\ Len(gotD') <= Len(sentD) /\ gotD' = SubSeq(sentD, 1, Len(gotD'))
    BY <2>1, <2>2, HandsOutTheNext, SMTT(30) DEF TypeOK
  <2>4. SameEnds /\ sentD' = sentD /\ eofD' = eofD
    BY <1>1 DEF ReadSlice, Drain, TypeOK, HalfType
  <2> QED
    BY <2>1, <2>3, <2>4 DEF ToDev!Read, ToDev!Extends
<1>2. ASSUME NEW k \in 1..MaxBytes, PollWriteData(k) PROVE ToDev!Write
  <2> DEFINE n == Accepts(to_dev, k)
             bytes == Fresh(sentD, n)
  <2>1. /\ ~to_dev.reader_closed /\ ~to_dev.writer_closed /\ ~IsFull(to_dev)
        /\ sentD' = sentD \o bytes /\ gotD' = gotD /\ eofD' = eofD
    BY <1>2 DEF PollWriteData
  <2>2. n \in 0..k /\ n # 0
    <3>1. Len(to_dev.buf) \in Nat /\ Len(to_dev.buf) < Capacity /\ Capacity \in Nat
      BY <2>1, LenProperties, CapacityAssumption DEF TypeOK, HalfType, IsFull
    <3>2. n \in 0..k
      BY AcceptsFits DEF TypeOK
    <3> QED
      BY <2>1, <3>1, <3>2 DEF Accepts
  <2>3. bytes \in Seq(Nat) /\ Len(bytes) = n
    BY <2>2, FreshType DEF TypeOK
  <2>4. Len(sentD') > Len(sentD) /\ SubSeq(sentD', 1, Len(sentD)) = sentD
    BY <2>1, <2>2, <2>3, GrowsAtItsEnd DEF TypeOK
  <2>5. SameEnds
    BY <1>2 DEF PollWriteData, Extend, TypeOK, HalfType
  <2> QED
    BY <2>1, <2>4, <2>5 DEF ToDev!Write, ToDev!Extends
<1>3. CASE ReadEof
  <2>1. to_dev.writer_closed /\ to_dev.buf = <<>> /\ eofD' = TRUE /\ SameEnds
        /\ UNCHANGED <<sentD, gotD>>
    BY <1>3 DEF ReadEof, AtEof, IsEmpty
  <2>2. gotD = sentD
    BY <2>1, ConcatEmptySeq DEF InOrder, TypeOK
  <2> QED
    BY <2>1, <2>2 DEF ToDev!End, ToDev!Next
<1>4. CASE PollWritePending
  BY <1>4, <1>a DEF PollWritePending, TypeOK, HalfType
<1>5. CASE DropStream \/ PollShutdown
  BY <1>5, <1>b DEF DropStream, PollShutdown, TypeOK, HalfType, ToDev!Next
<1>6. CASE DropDevEndToDev
  BY <1>6, <1>b DEF DropDevEndToDev, TypeOK, HalfType, ToDev!Next
<1>7. ASSUME NEW n \in 1..Capacity, PollReadData(n) PROVE UNCHANGED ToDev!vars
  BY <1>7, <1>a DEF PollReadData
<1>8. CASE PollReadEof \/ PollReadPending \/ PollWriteBroken \/ WakeDevice \/ Repoll
  BY <1>8, <1>a DEF PollReadEof, PollReadPending, PollWriteBroken, WakeDevice, Repoll
<1>9. ASSUME NEW k \in 1..MaxBytes, GuestTx(k) PROVE UNCHANGED ToDev!vars
  BY <1>9, <1>a DEF GuestTx
<1>10. CASE DevNotified \/ GuestRx \/ GuestReset \/ FlushDone \/ ReadStops
  BY <1>10, <1>a DEF DevNotified, GuestRx, GuestReset, FlushDone, ReadStops
<1>11. CASE TryWrite
  BY <1>11, <1>a DEF TryWrite
<1>12. CASE DropDevEndToHost
  BY <1>12, <1>a DEF DropDevEndToHost
<1>13. ASSUME NEW w \in {"read", "write"}, FireWake(w) PROVE UNCHANGED ToDev!vars
  BY <1>13, <1>a DEF FireWake
<1>14. ASSUME NEW flag \in Directions, GuestShutdown(flag) PROVE UNCHANGED ToDev!vars
  BY <1>14, <1>a DEF GuestShutdown
<1>15. CASE UNCHANGED vars
  BY <1>15, <1>a DEF vars
<1> QED
  BY <1>1, <1>2, <1>3, <1>4, <1>5, <1>6, <1>7, <1>8, <1>9, <1>10, <1>11, <1>12,
     <1>13, <1>14, <1>15
  DEF Next, Host, Device, PollRead, PollWrite, ServiceConnection, ToDev!Next

\* Each direction of the pipe is a byte stream ("Two independent directions (like
\* a socketpair)", vsock_pipe.rs:9): accepted bytes only while both ends are open,
\* received in order, the end of the stream told after the last byte, an end
\* closed for good.
THEOREM EachDirectionIsAStream == SafeSpec => PipesAreStreams
<1>1. Init => ToHost!Init /\ ToDev!Init
  BY DEF Init, NewHalf, ToHost!Init, ToDev!Init
<1>2. Init => ClosedEnds
  BY InitEnds
<1>3. TypeOK /\ ClosedEnds /\ [Next]_vars => ClosedEnds'
  BY NextEnds
<1>4. SafeSpec => []TypeOK
  BY TypeCorrect
<1>5. SafeSpec => []InOrder
  BY OrderCorrect
<1> QED
  BY <1>1, <1>2, <1>3, <1>4, <1>5, StepToHost, StepToDev, PTL
  DEF SafeSpec, PipesAreStreams, ToHostIsAStream, ToDevIsAStream, ToHost!Spec, ToDev!Spec

=============================================================================
