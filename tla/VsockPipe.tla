----------------------------- MODULE VsockPipe ------------------------------
(***************************************************************************)
(* The in-memory byte pipe between the vsock device worker (a mio thread)  *)
(* and the host's async runtime (one tokio thread): host/src/vsock_pipe.rs.*)
(*                                                                         *)
(* Every critical section of a Half's mutex is one action. The calls made  *)
(* after the unlock are actions of their own: wake_device on the host's    *)
(* thread, Waker::wake on the device's. The device worker is the client    *)
(* the pipe has in the code: the loop of InProcessVsock::service_connec-   *)
(* tions over a single connection (VsockDevice models the device itself).  *)
(*                                                                         *)
(* A byte is its position in the stream, so that a byte lost, repeated or  *)
(* out of place shows. MaxBytes bounds what each side writes, RxBufs the   *)
(* receive buffers of the guest.                                           *)
(***************************************************************************)
EXTENDS PipeHalf, FiniteSets

CONSTANTS MaxBytes, RxBufs

ASSUME BoundsAssumption == MaxBytes \in Nat /\ RxBufs \in Nat \ {0}

VARIABLES
  to_host,   \* Half: guest -> host bytes
  to_dev,    \* Half: host -> guest bytes
  hostPc,    \* the host thread: "idle", or "wake" before its wake_device call
  hostOpen,  \* the VsockStream has not been dropped
  rtask,     \* the host's reader: about to poll, parked on Pending, or at EOF
  wtask,     \* the host's writer: same, or broken (BrokenPipe), or shut
  notified,  \* the device's Notifier has been pinged and not yet polled
  devPc,     \* where the device worker is
  wakes,     \* wakers the device took and has not called yet
  pending,   \* guest bytes the device holds because the pipe was full
  rx,        \* receive buffers the guest has posted
  shutdown,  \* ConnState::Shutdown's flags; {} while the connection is Established
  sentH, gotH,  \* history of to_host: bytes accepted, bytes handed out
  sentD, gotD,  \* history of to_dev
  eofD          \* history: the device's read_slice has returned Ok(0)

hostVars == <<hostPc, hostOpen, rtask, wtask>>
devVars  == <<devPc, wakes, pending, rx, shutdown>>
histH    == <<sentH, gotH>>
histD    == <<sentD, gotD, eofD>>
vars == <<to_host, to_dev, hostVars, notified, devVars, histH, histD>>

\* The directions a guest may shut down: SHUTDOWN_RECV and SHUTDOWN_SEND.
Directions == {"receive", "send"}

\* The n bytes that follow the history s.
Fresh(s, n) == [i \in 1..n |-> Len(s) + i]

Init ==
  /\ to_host = NewHalf
  /\ to_dev = NewHalf
  /\ hostPc = "idle"
  /\ hostOpen = TRUE
  /\ rtask = "run"
  /\ wtask = "run"
  /\ notified = FALSE
  /\ devPc = "poll"
  /\ wakes = {}
  /\ pending = 0
  /\ rx \in 0..RxBufs
  /\ shutdown = {}
  /\ sentH = <<>> /\ gotH = <<>>
  /\ sentD = <<>> /\ gotD = <<>> /\ eofD = FALSE

-----------------------------------------------------------------------------
(* The host's thread: the polls of VsockStream.                            *)

HostIdle == hostOpen /\ hostPc = "idle"

\* What follows a transition the device cares about: its wake_device call.
NoPing == hostPc' = hostPc
Ping == hostPc' = "wake"

\* "waker registered under the same lock the writer takes"
WakerForgotten(h) == h
ReadWakerLeft(h) == [h EXCEPT !.read_waker = TRUE]

\* poll_read on a non-empty buffer, for a ReadBuf with room for n bytes.
PollReadData(n) ==
  /\ HostIdle /\ rtask = "run"
  /\ n \in 1..Len(to_host.buf)
  /\ gotH' = gotH \o FrontOf(to_host, n)
  /\ to_host' = Drain(to_host, n)
  /\ Ping
  /\ UNCHANGED <<to_dev, hostOpen, rtask, wtask, notified, devVars, sentH, histD>>

PollReadEof ==
  /\ HostIdle /\ rtask = "run"
  /\ AtEof(to_host)
  /\ rtask' = "eof"
  /\ UNCHANGED <<to_host, to_dev, hostPc, hostOpen, wtask, notified, devVars, histH, histD>>

PollReadPending ==
  /\ HostIdle /\ rtask = "run"
  /\ IsEmpty(to_host) /\ ~to_host.writer_closed
  /\ to_host' = ReadWakerLeft(to_host)
  /\ rtask' = "parked"
  /\ UNCHANGED <<to_dev, hostPc, hostOpen, wtask, notified, devVars, histH, histD>>

\* poll_write of k bytes.
PollWriteData(k) ==
  /\ HostIdle /\ wtask = "run"
  /\ k \in 1..(MaxBytes - Len(sentD))
  /\ ~to_dev.reader_closed /\ ~to_dev.writer_closed /\ ~IsFull(to_dev)
  /\ LET bytes == Fresh(sentD, Accepts(to_dev, k))
     IN /\ to_dev' = Extend(to_dev, bytes)
        /\ sentD' = sentD \o bytes
  /\ Ping
  /\ UNCHANGED <<to_host, hostOpen, rtask, wtask, notified, devVars, gotD, eofD, histH>>

PollWriteBroken ==
  /\ HostIdle /\ wtask = "run"
  /\ to_dev.reader_closed \/ to_dev.writer_closed
  /\ wtask' = "broken"
  /\ UNCHANGED <<to_host, to_dev, hostPc, hostOpen, rtask, notified, devVars, histH, histD>>

PollWritePending ==
  /\ HostIdle /\ wtask = "run"
  /\ ~to_dev.reader_closed /\ ~to_dev.writer_closed /\ IsFull(to_dev)
  /\ to_dev' = [to_dev EXCEPT !.write_waker = TRUE]
  /\ wtask' = "parked"
  /\ UNCHANGED <<to_host, hostPc, hostOpen, rtask, notified, devVars, histH, histD>>

PollShutdown ==
  /\ HostIdle /\ wtask = "run"
  /\ to_dev' = [to_dev EXCEPT !.writer_closed = TRUE]
  /\ wtask' = "shut"
  /\ Ping
  /\ UNCHANGED <<to_host, hostOpen, rtask, notified, devVars, histH, histD>>

\* Drop of the VsockStream: both flags are set before either lock is released.
DropStream ==
  /\ HostIdle
  /\ to_host' = [to_host EXCEPT !.reader_closed = TRUE]
  /\ to_dev' = [to_dev EXCEPT !.writer_closed = TRUE]
  /\ hostOpen' = FALSE
  /\ Ping
  /\ UNCHANGED <<rtask, wtask, notified, devVars, histH, histD>>

\* (self.shared.wake_device)(), after the unlock.
WakeDevice ==
  /\ hostPc = "wake"
  /\ hostPc' = "idle"
  /\ notified' = TRUE
  /\ UNCHANGED <<to_host, to_dev, hostOpen, rtask, wtask, devVars, histH, histD>>

\* A task that awaits several things is polled again when another of them
\* is ready: its parked reads and writes are then polled without a wakeup.
Repoll ==
  /\ HostIdle
  /\ rtask = "parked" \/ wtask = "parked"
  /\ rtask' = IF rtask = "parked" THEN "run" ELSE rtask
  /\ wtask' = IF wtask = "parked" THEN "run" ELSE wtask
  /\ UNCHANGED <<to_host, to_dev, hostPc, hostOpen, notified, devVars, histH, histD>>

-----------------------------------------------------------------------------
(* The device worker's thread.                                             *)

DevAt(pc) == devPc = pc /\ wakes = {}

\* The worker's poll returns because of the Notifier.
DevNotified ==
  /\ DevAt("poll") /\ notified
  /\ notified' = FALSE
  /\ devPc' = "flush"
  /\ UNCHANGED <<to_host, to_dev, hostVars, wakes, pending, rx, shutdown, histH, histD>>

\* An OP_RW of the guest: its payload joins pending, then flush_pending runs.
\* That of a connection that is not Established is dropped.
GuestTx(k) ==
  /\ DevAt("poll") /\ shutdown = {}
  /\ k \in 1..(MaxBytes - Len(sentH) - pending)
  /\ pending' = pending + k
  /\ devPc' = "tx"
  /\ UNCHANGED <<to_host, to_dev, hostVars, notified, wakes, rx, shutdown, histH, histD>>

\* The guest posts receive buffers: every connection is serviced.
GuestRx ==
  /\ DevAt("poll")
  /\ rx < RxBufs
  /\ rx' = rx + 1
  /\ devPc' = "flush"
  /\ UNCHANGED <<to_host, to_dev, hostVars, notified, wakes, pending, shutdown, histH, histD>>

\* handle_tx_shutdown: flags |= hdr.flags. With one direction shut the pipe
\* is kept, in ConnState::Shutdown; with both the connection is removed.
GuestShutdown(flag) ==
  /\ DevAt("poll")
  /\ shutdown' = shutdown \cup {flag}
  /\ devPc' = IF shutdown' = Directions THEN "drop" ELSE "poll"
  /\ UNCHANGED <<to_host, to_dev, hostVars, notified, wakes, pending, rx, histH, histD>>

\* The guest resets the connection, or the device: the connection is removed.
GuestReset ==
  /\ DevAt("poll")
  /\ devPc' = "drop"
  /\ UNCHANGED <<to_host, to_dev, hostVars, notified, wakes, pending, rx, shutdown,
                 histH, histD>>

\* A waker taken out of its slot under the lock, to be called after it.
TakenNotCalled(slot, w) == {}
Taken(slot, w) == IF slot THEN {w} ELSE {}

\* try_write of the pending bytes, from flush_pending.
TryWrite ==
  /\ DevAt("tx") \/ DevAt("flush")
  /\ pending > 0
  /\ ~to_host.reader_closed /\ ~IsFull(to_host)
  /\ LET n == Accepts(to_host, pending)
         bytes == Fresh(sentH, n)
     IN /\ to_host' = [Extend(to_host, bytes) EXCEPT !.read_waker = FALSE]
        /\ sentH' = sentH \o bytes
        /\ pending' = pending - n
  /\ wakes' = Taken(to_host.read_waker, "read")
  /\ UNCHANGED <<to_dev, hostVars, notified, devPc, rx, shutdown, gotH, histD>>

\* flush_pending ends: nothing left, WouldBlock or BrokenPipe.
FlushDone ==
  /\ \/ DevAt("tx") /\ devPc' = "poll"
     \/ DevAt("flush") /\ devPc' = "read"
  /\ pending = 0 \/ to_host.reader_closed \/ IsFull(to_host)
  /\ UNCHANGED <<to_host, to_dev, hostVars, notified, wakes, pending, rx, shutdown, histH, histD>>

\* transfer_rx_data returns at once for a connection that is not Established:
\* its pipe is neither read nor dropped.
CanTransfer == shutdown = {} /\ rx > 0

\* read_slice of n bytes into one of the guest's receive buffers.
ReadSlice(n) ==
  /\ DevAt("read") /\ CanTransfer
  /\ n \in 1..Len(to_dev.buf)
  /\ gotD' = gotD \o FrontOf(to_dev, n)
  /\ to_dev' = [Drain(to_dev, n) EXCEPT !.write_waker = FALSE]
  /\ wakes' = Taken(to_dev.write_waker, "write")
  /\ rx' = rx - 1
  /\ UNCHANGED <<to_host, hostVars, notified, devPc, pending, shutdown, sentD, eofD, histH>>

\* Nothing to read (WouldBlock), or nowhere to read into.
ReadStops ==
  /\ DevAt("read")
  /\ ~IsReadable(to_dev) \/ ~CanTransfer
  /\ devPc' = "poll"
  /\ UNCHANGED <<to_host, to_dev, hostVars, notified, wakes, pending, rx, shutdown, histH, histD>>

\* read_slice returns Ok(0): the device tells the guest and drops its end.
ReadEof ==
  /\ DevAt("read") /\ CanTransfer
  /\ AtEof(to_dev)
  /\ rx' = rx - 1
  /\ devPc' = "drop"
  /\ eofD' = TRUE
  /\ UNCHANGED <<to_host, to_dev, hostVars, notified, wakes, pending, shutdown, sentD, gotD, histH>>

\* Drop of the PipeDevEnd, in its two critical sections.
DropDevEndToHost ==
  /\ DevAt("drop")
  /\ to_host' = [to_host EXCEPT !.writer_closed = TRUE, !.read_waker = FALSE]
  /\ wakes' = Taken(to_host.read_waker, "read")
  /\ pending' = 0
  /\ devPc' = "drop2"
  /\ UNCHANGED <<to_dev, hostVars, notified, rx, shutdown, histH, histD>>

DropDevEndToDev ==
  /\ devPc = "drop2"
  /\ to_dev' = [to_dev EXCEPT !.reader_closed = TRUE, !.write_waker = FALSE]
  /\ wakes' = wakes \cup Taken(to_dev.write_waker, "write")
  /\ devPc' = "closed"
  /\ UNCHANGED <<to_host, hostVars, notified, pending, rx, shutdown, histH, histD>>

\* w.wake(), after the unlock: the task is polled again.
FireWake(w) ==
  /\ devPc # "drop2" /\ w \in wakes
  /\ wakes' = wakes \ {w}
  /\ rtask' = IF w = "read" /\ rtask = "parked" THEN "run" ELSE rtask
  /\ wtask' = IF w = "write" /\ wtask = "parked" THEN "run" ELSE wtask
  /\ UNCHANGED <<to_host, to_dev, hostPc, hostOpen, notified, devPc, pending, rx, shutdown, histH, histD>>

-----------------------------------------------------------------------------

PollRead == (\E n \in 1..Capacity : PollReadData(n)) \/ PollReadEof \/ PollReadPending
PollWrite == (\E k \in 1..MaxBytes : PollWriteData(k)) \/ PollWriteBroken \/ PollWritePending

Host == PollRead \/ PollWrite \/ PollShutdown \/ DropStream \/ WakeDevice \/ Repoll

ServiceConnection ==
  \/ TryWrite \/ FlushDone
  \/ (\E n \in 1..Capacity : ReadSlice(n)) \/ ReadStops \/ ReadEof
  \/ DropDevEndToHost \/ DropDevEndToDev
  \/ \E w \in {"read", "write"} : FireWake(w)

Device ==
  \/ DevNotified \/ ServiceConnection
  \/ (\E k \in 1..MaxBytes : GuestTx(k)) \/ GuestRx \/ GuestReset
  \/ \E flag \in Directions : GuestShutdown(flag)

Next == Host \/ Device

\* The runtime polls a task that is ready, the worker's loop runs, and the
\* guest recycles its receive buffers. Nobody has to write, or to close.
Fairness ==
  /\ WF_vars(PollRead)
  /\ WF_vars(PollWriteBroken \/ PollWritePending)
  /\ WF_vars(WakeDevice)
  /\ WF_vars(DevNotified)
  /\ WF_vars(ServiceConnection)
  /\ WF_vars(GuestRx)

SafeSpec == Init /\ [][Next]_vars

Spec == SafeSpec /\ Fairness

-----------------------------------------------------------------------------

TypeOK ==
  /\ to_host \in HalfType /\ Len(to_host.buf) <= Capacity
  /\ to_dev \in HalfType /\ Len(to_dev.buf) <= Capacity
  /\ hostPc \in {"idle", "wake"}
  /\ hostOpen \in BOOLEAN
  /\ rtask \in {"run", "parked", "eof"}
  /\ wtask \in {"run", "parked", "broken", "shut"}
  /\ notified \in BOOLEAN
  /\ devPc \in {"poll", "tx", "flush", "read", "drop", "drop2", "closed"}
  /\ wakes \in SUBSET {"read", "write"}
  /\ pending \in Nat
  /\ rx \in 0..RxBufs
  /\ shutdown \in SUBSET Directions
  /\ sentH \in Seq(Nat) /\ gotH \in Seq(Nat)
  /\ sentD \in Seq(Nat) /\ gotD \in Seq(Nat)
  /\ eofD \in BOOLEAN

\* What was handed out, then what is buffered, is what was accepted: no byte
\* is lost, repeated or reordered inside the pipe in either direction
\* (read_slice, try_write, poll_read and poll_write, each under its lock).
InOrder ==
  /\ sentH = gotH \o to_host.buf
  /\ sentD = gotD \o to_dev.buf

\* "a write between the emptiness check and now cannot be lost"
\* (vsock_pipe.rs:207-208), and the same for the blocked writer: whenever a
\* parked host task could go on, its wakeup is already on its way.
NoLostHostWakeup ==
  /\ rtask = "parked" /\ IsReadable(to_host) => "read" \in wakes
  /\ wtask = "parked" /\ (~IsFull(to_dev) \/ to_dev.reader_closed) => "write" \in wakes

\* Bytes the device could move at once, if it were running.
CanFlush == pending > 0 /\ ~to_host.reader_closed /\ ~IsFull(to_host)
CanRead  == CanTransfer /\ IsReadable(to_dev)
DeviceHasWork == CanFlush \/ CanRead

\* The WakeFn is "fired on every host-side transition the device cares about"
\* (vsock_pipe.rs:4-7): the worker never sleeps over work it could do, unless
\* the ping is in the Notifier or the host is about to send it.
NoLostDeviceWakeup ==
  devPc = "poll" /\ DeviceHasWork => notified \/ hostPc = "wake"

\* Why no wakeup is lost, as inductive invariants (VsockPipeProofs). A parked
\* task has its waker in the slot, or taken and about to be called, and a slot
\* is occupied only while the task could not go on.
HostWakers ==
  /\ rtask = "parked" => to_host.read_waker \/ "read" \in wakes
  /\ to_host.read_waker => IsEmpty(to_host) /\ ~to_host.writer_closed
  /\ wtask = "parked" => to_dev.write_waker \/ "write" \in wakes
  /\ to_dev.write_waker => IsFull(to_dev) /\ ~to_dev.reader_closed

\* The worker examines flushing and reading in turn: past the one it examines,
\* new work of that kind is announced.
DevicePings ==
  /\ devPc \in {"poll", "read"} /\ CanFlush => notified \/ hostPc = "wake"
  /\ devPc \in {"poll", "tx"} /\ CanRead => notified \/ hostPc = "wake"

\* Who has closed which end: what makes an end of a ByteStream closed for good,
\* and nothing move after that.
ClosedEnds ==
  /\ to_host.reader_closed => ~hostOpen
  /\ to_host.writer_closed => devPc \in {"drop2", "closed"}
  /\ to_dev.reader_closed => devPc = "closed"
  /\ eofD => devPc \in {"drop", "drop2", "closed"}

\* Guest bytes held back by a full pipe all reach it, or the connection ends:
\* draining the pipe releases the backpressure.
PendingIsFlushed == pending > 0 ~> (pending = 0 \/ ~hostOpen)

\* A host writer that was refused for lack of room is resumed: the device
\* makes room or drops its end, and the waker is called. A writer whose guest
\* shuts down one direction is the exception (WriterOutlivesHalfClose).
WriterResumes ==
  wtask = "parked" ~> (wtask # "parked" \/ ~hostOpen \/ shutdown # {})

\* What "Two independent directions (like a socketpair)" (vsock_pipe.rs:9) says
\* of it: the guest's end of its own direction does not stop the other one, so
\* the writer is resumed as long as the guest still receives. transfer_rx_data
\* serves no connection in ConnState::Shutdown, whichever direction is shut.
WriterOutlivesHalfClose ==
  wtask = "parked" ~> (wtask # "parked" \/ ~hostOpen \/ "receive" \in shutdown)

\* The reader is handed every byte the pipe accepted from the guest, and the
\* end of the stream once the device dropped its end.
ReaderIsServed ==
  /\ \A i \in 1..MaxBytes :
        Len(sentH) >= i ~> (Len(gotH) >= i \/ ~hostOpen)
  /\ to_host.writer_closed ~> (rtask = "eof" \/ ~hostOpen)

\* Each direction is a byte stream.
ToHost == INSTANCE ByteStream WITH
  sent <- sentH, got <- gotH, ended <- rtask = "eof",
  wclosed <- to_host.writer_closed, rclosed <- to_host.reader_closed

ToDev == INSTANCE ByteStream WITH
  sent <- sentD, got <- gotD, ended <- eofD,
  wclosed <- to_dev.writer_closed, rclosed <- to_dev.reader_closed

ToHostIsAStream == ToHost!Spec
ToDevIsAStream == ToDev!Spec
PipesAreStreams == ToHostIsAStream /\ ToDevIsAStream

=============================================================================
