---------------------------- MODULE VsockDevice -----------------------------
(***************************************************************************)
(* The virtio vsock device of host/src/vsock_device.rs between a guest and *)
(* the host's async tasks: connections, credit, the RX and TX virtqueues,  *)
(* one host port with its accept queue and its listener.                   *)
(*                                                                         *)
(* The worker handles one event at a time, but the host's tasks run on     *)
(* another thread: each access to a pipe is a step of its own. A host poll *)
(* and its wake_device call are one step here; VsockPipe takes them apart. *)
(* The guest's driver and the virtqueues are not part of the repository:   *)
(* they are modelled from the virtio protocol the device speaks. A byte is *)
(* its position in its stream. A connection is opened at most once.        *)
(***************************************************************************)
EXTENDS PipeHalf, FiniteSets

CONSTANTS
  Conns, NoConn,
  BufAlloc,      \* BUF_ALLOC, the credit the device advertises
  CntMod,        \* the counters of the protocol are modulo this (2^32)
  RxBufs,        \* receive buffers of the guest
  MaxBytes,      \* bound on the bytes sent on a connection, in each direction
  Loads          \* what there may be to send: [tx, rx] of each connection opened

ASSUME DeviceAssumption ==
  /\ NoConn \notin Conns
  /\ BufAlloc \in Nat \ {0} /\ CntMod \in Nat /\ CntMod > BufAlloc
  /\ RxBufs \in Nat \ {0} /\ MaxBytes \in Nat
  /\ \A l \in Loads : DOMAIN l \subseteq Conns /\ \A c \in DOMAIN l :
       l[c].tx \in 0..MaxBytes /\ l[c].rx \in 0..MaxBytes

VARIABLES
  conns,     \* self.connections: state, flags, fwd_cnt and pending of each
  toHost, toDev,       \* the halves of each connection's pipe
  queue, listener,     \* PortState; the listener is "none", "waiting", or
                       \* "stale" when its receiver was dropped
  notified, rxKick,    \* the Notifier's event and the RX queue's
  at,        \* where the worker is: "idle", or in the "tx" flush, the
             \* "service" flush or the "read" loop, of a connection
  todo,      \* connections service_connections has yet to examine
  total,     \* bytes flushed by the flush_pending under way
  rxFree,    \* receive buffers the guest has posted
  toGuest, toDevice,   \* packets in the used RX ring, and in the TX ring
  guest,     \* the guest's socket of each connection
  host,      \* the host's VsockStream of each connection
  load       \* the member of Loads of this behaviour

pipes == <<toHost, toDev>>
port == <<queue, listener>>
worker == <<at, todo, total>>
rings == <<rxFree, toGuest, toDevice>>
vars == <<conns, pipes, port, notified, rxKick, worker, rings, guest, host>>
allVars == <<vars, load>>

Both == {"send", "receive"}
Packet(c, op, data, fwd, flags) ==
  [conn |-> c, op |-> op, data |-> data, fwd |-> fwd, flags |-> flags]

Idle == [pc |-> "idle", conn |-> NoConn]
At(pc, c) == [pc |-> pc, conn |-> c]
Gone == [state |-> "none", flags |-> {}, fwd |-> 0, pending |-> <<>>]
Established == [Gone EXCEPT !.state = "established"]

Fresh(n, k) == [i \in 1..k |-> n + i]

Init ==
  /\ conns = [c \in Conns |-> Gone]
  /\ toHost = [c \in Conns |-> NewHalf]
  /\ toDev = [c \in Conns |-> NewHalf]
  /\ queue = <<>> /\ listener = "none"
  /\ notified = FALSE /\ rxKick = FALSE
  /\ at = Idle /\ todo = {} /\ total = 0
  /\ rxFree = RxBufs /\ toGuest = <<>> /\ toDevice = <<>>
  /\ guest = [c \in Conns |-> [st |-> "closed", tx |-> 0, fwd |-> 0, got |-> <<>>,
                              asked |-> FALSE]]
  /\ host = [c \in Conns |-> [st |-> "none", got |-> <<>>, wrote |-> 0, eof |-> FALSE]]
  /\ load \in Loads

-----------------------------------------------------------------------------
(* The device.                                                             *)

\* respond: the packet is dropped when the guest has no buffer posted, which a
\* device must not forget to check.
RespondUnchecked(p) == rxFree' = rxFree - 1 /\ toGuest' = Append(toGuest, p)
Respond(p) ==
  IF rxFree > 0 THEN rxFree' = rxFree - 1 /\ toGuest' = Append(toGuest, p)
                ELSE UNCHANGED <<rxFree, toGuest>>

\* send_credit_update: only for a connection that is Established.
CreditUpdate(c) ==
  IF conns[c].state = "established"
  THEN Respond(Packet(c, "CREDIT_UPDATE", <<>>, conns[c].fwd, {}))
  ELSE UNCHANGED <<rxFree, toGuest>>

\* remove_conn: dropping the PipeDevEnd closes the device's two ends.
Remove(cs) ==
  /\ conns' = [c \in Conns |-> IF c \in cs THEN Gone ELSE conns[c]]
  /\ toHost' = [c \in Conns |-> IF c \in cs /\ conns[c].state # "none"
                 THEN [toHost[c] EXCEPT !.writer_closed = TRUE] ELSE toHost[c]]
  /\ toDev' = [c \in Conns |-> IF c \in cs /\ conns[c].state # "none"
                 THEN [toDev[c] EXCEPT !.reader_closed = TRUE] ELSE toDev[c]]

\* The worker takes the next descriptor of the TX queue.
TakeTx(op) ==
  /\ at = Idle /\ todo = {}
  /\ toDevice # <<>> /\ Head(toDevice).op = op
  /\ toDevice' = Tail(toDevice)

TxConn == Head(toDevice).conn

\* if let Some(sender) = state.listener.take() .. else queue.push_back(..).
\* Sending to a receiver that is gone drops the stream. The fault queues it
\* without looking for a listener.
QueueAlways(c) ==
  /\ queue' = Append(queue, c)
  /\ host' = [host EXCEPT ![c].st = "queued"]
  /\ UNCHANGED <<listener, notified, pipes>>
HandOver(c) ==
  /\ listener' = "none"
  /\ queue' = IF listener = "none" THEN Append(queue, c) ELSE queue
  /\ host' = [host EXCEPT ![c].st =
       CASE listener = "none"    -> "queued"
         [] listener = "waiting" -> "accepted"
         [] listener = "stale"   -> "dropped"]
  /\ IF listener = "stale"
     THEN /\ toHost' = [toHost EXCEPT ![c].reader_closed = TRUE]
          /\ toDev' = [toDev EXCEPT ![c].writer_closed = TRUE]
          /\ notified' = TRUE
     ELSE UNCHANGED <<toHost, toDev, notified>>

TxRequest ==
  /\ TakeTx("REQUEST")
  /\ Respond(Packet(TxConn, "RESPONSE", <<>>, 0, {}))
  /\ conns' = [conns EXCEPT ![TxConn] = Established]
  /\ HandOver(TxConn)
  /\ at' = At("read", TxConn)
  /\ UNCHANGED <<rxKick, todo, total, guest>>

TxRw ==
  /\ TakeTx("RW")
  /\ IF conns[TxConn].state = "established"
     THEN /\ conns' = [conns EXCEPT ![TxConn].pending = @ \o Head(toDevice).data]
          /\ at' = At("tx", TxConn)
     ELSE UNCHANGED <<conns, at>>
  /\ total' = 0
  /\ UNCHANGED <<pipes, port, notified, rxKick, todo, rxFree, toGuest, guest, host>>

TxRst ==
  /\ TakeTx("RST")
  /\ Remove({TxConn})
  /\ UNCHANGED <<port, notified, rxKick, worker, rxFree, toGuest, guest, host>>

TxShutdown ==
  /\ TakeTx("SHUTDOWN")
  /\ LET flags == conns[TxConn].flags \cup Head(toDevice).flags
     IN IF flags = Both \/ conns[TxConn].state = "none"
        THEN Remove({TxConn})
        ELSE /\ conns' = [conns EXCEPT ![TxConn].state = "shutdown",
                                       ![TxConn].flags = flags]
             /\ UNCHANGED pipes
  /\ UNCHANGED <<port, notified, rxKick, worker, rxFree, toGuest, guest, host>>

TxCreditRequest ==
  /\ TakeTx("CREDIT_REQUEST")
  /\ CreditUpdate(TxConn)
  /\ UNCHANGED <<conns, pipes, port, notified, rxKick, worker, guest, host>>

\* handle_event and handle_queue(QUEUE_RX): service_connections over the keys,
\* and not only those with something to flush, or something to read.
KeysBlocked == {c \in Conns : conns[c].pending # <<>>}
KeysReadable == {c \in Conns : conns[c].state # "none" /\ IsReadable(toDev[c])}
Keys == {c \in Conns : conns[c].state # "none"}

Event ==
  /\ at = Idle /\ todo = {}
  /\ \/ notified /\ notified' = FALSE /\ UNCHANGED rxKick
     \/ rxKick /\ rxKick' = FALSE /\ UNCHANGED notified
  /\ todo' = Keys
  /\ UNCHANGED <<conns, pipes, port, at, total, rings, guest, host>>

Service(c) ==
  /\ at = Idle /\ c \in todo
  /\ todo' = todo \ {c}
  /\ at' = At("service", c)
  /\ total' = 0
  /\ UNCHANGED <<conns, pipes, port, notified, rxKick, rings, guest, host>>

\* One turn of the loop of flush_pending.
Flush(c) ==
  /\ at \in {At("tx", c), At("service", c)}
  /\ conns[c].pending # <<>>
  /\ ~toHost[c].reader_closed /\ ~IsFull(toHost[c])
  /\ LET n == Accepts(toHost[c], Len(conns[c].pending))
     IN /\ toHost' = [toHost EXCEPT ![c] = Extend(@, SubSeq(conns[c].pending, 1, n))]
        /\ conns' = [conns EXCEPT ![c].pending = SubSeq(@, n + 1, Len(@))]
        /\ total' = total + n
  /\ UNCHANGED <<toDev, port, notified, rxKick, at, todo, rings, guest, host>>

FlushEnds(c) ==
  conns[c].pending = <<>> \/ toHost[c].reader_closed \/ IsFull(toHost[c])

\* fwd_cnt += flushed, and 0 when flush_pending failed; then the update. The
\* fault credits what was received instead of what the pipe took.
Broken(c) == conns[c].pending # <<>> /\ toHost[c].reader_closed
ForwardedAll(c) == (conns[c].fwd + total + Len(conns[c].pending)) % CntMod
Forwarded(c) == IF Broken(c) THEN conns[c].fwd ELSE (conns[c].fwd + total) % CntMod

TxFlushed(c) ==
  /\ at = At("tx", c) /\ FlushEnds(c)
  /\ conns' = [conns EXCEPT ![c].fwd = Forwarded(c)]
  /\ Respond(Packet(c, "CREDIT_UPDATE", <<>>, Forwarded(c), {}))
  /\ at' = Idle
  /\ UNCHANGED <<pipes, port, notified, rxKick, todo, total, toDevice, guest, host>>

\* The flush of service_connections leaves fwd_cnt alone.
ServiceFlushed(c) ==
  /\ at = At("service", c) /\ FlushEnds(c)
  /\ IF total > 0 /\ conns[c].pending = <<>> THEN CreditUpdate(c)
                                             ELSE UNCHANGED <<rxFree, toGuest>>
  /\ at' = IF IsReadable(toDev[c]) THEN At("read", c) ELSE Idle
  /\ UNCHANGED <<conns, pipes, port, notified, rxKick, todo, total, toDevice, guest, host>>

\* transfer_rx_data, one receive buffer: the bytes read, or the end.
Reading(c) == at = At("read", c) /\ conns[c].state = "established"

TransferRx(c, n) ==
  /\ Reading(c) /\ rxFree > 0
  /\ n \in 1..Len(toDev[c].buf)
  /\ Respond(Packet(c, "RW", FrontOf(toDev[c], n), conns[c].fwd, {}))
  /\ toDev' = [toDev EXCEPT ![c] = Drain(@, n)]
  /\ UNCHANGED <<conns, toHost, port, notified, rxKick, worker, toDevice, guest, host>>

TransferEof(c) ==
  /\ Reading(c) /\ rxFree > 0
  /\ AtEof(toDev[c])
  /\ Respond(Packet(c, "SHUTDOWN", <<>>, 0, Both))
  /\ Remove({c})
  /\ at' = Idle
  /\ UNCHANGED <<port, notified, rxKick, todo, total, toDevice, guest, host>>

TransferStops(c) ==
  /\ at = At("read", c)
  /\ ~Reading(c) \/ rxFree = 0 \/ ~IsReadable(toDev[c])
  /\ at' = Idle
  /\ UNCHANGED <<conns, pipes, port, notified, rxKick, todo, total, rings, guest, host>>

\* The guest resets the device: connections.clear(), and its rings are gone.
Reset ==
  /\ at = Idle /\ todo = {}
  /\ \E c \in Conns : conns[c].state # "none"
  /\ Remove(Conns)
  /\ rxFree' = RxBufs /\ toGuest' = <<>> /\ toDevice' = <<>>
  /\ rxKick' = FALSE
  /\ guest' = [c \in Conns |->
       IF guest[c].st = "closed" THEN guest[c] ELSE [guest[c] EXCEPT !.st = "gone"]]
  /\ UNCHANGED <<port, notified, worker, host>>

-----------------------------------------------------------------------------
(* The guest's driver (external).                                          *)

Transmit(p) == toDevice' = Append(toDevice, p)

GuestUnchanged == UNCHANGED <<conns, pipes, port, notified, worker, host>>

GuestConnect(c) ==
  /\ c \in DOMAIN load /\ guest[c].st = "closed"
  /\ guest' = [guest EXCEPT ![c].st = "connecting"]
  /\ Transmit(Packet(c, "REQUEST", <<>>, 0, {}))
  /\ GuestUnchanged /\ UNCHANGED <<rxKick, rxFree, toGuest>>

\* What the peer still accepts: its buf_alloc less what it has not forwarded.
Credit(c) == BufAlloc - ((guest[c].tx + CntMod - guest[c].fwd) % CntMod)

GuestSend(c, k) ==
  /\ guest[c].st = "open"
  /\ k \in 1..Credit(c) /\ guest[c].tx + k <= load[c].tx
  /\ guest' = [guest EXCEPT ![c].tx = @ + k]
  /\ Transmit(Packet(c, "RW", Fresh(guest[c].tx, k), 0, {}))
  /\ GuestUnchanged /\ UNCHANGED <<rxKick, rxFree, toGuest>>

\* shutdown(SHUT_WR), or close.
GuestShutdown(c, flags) ==
  /\ guest[c].st = "open" \/ (guest[c].st = "sendshut" /\ flags = Both)
  /\ guest' = [guest EXCEPT ![c].st = IF flags = Both THEN "gone" ELSE "sendshut"]
  /\ Transmit(Packet(c, "SHUTDOWN", <<>>, 0, flags))
  /\ GuestUnchanged /\ UNCHANGED <<rxKick, rxFree, toGuest>>

\* The guest's connect times out.
GuestGivesUp(c) ==
  /\ guest[c].st = "connecting"
  /\ guest' = [guest EXCEPT ![c].st = "gone"]
  /\ GuestUnchanged /\ UNCHANGED <<rxKick, rings>>

\* Once per connection, which bounds the packets.
GuestCreditRequest(c) ==
  /\ guest[c].st = "open" /\ Credit(c) = 0 /\ ~guest[c].asked
  /\ guest' = [guest EXCEPT ![c].asked = TRUE]
  /\ Transmit(Packet(c, "CREDIT_REQUEST", <<>>, 0, {}))
  /\ GuestUnchanged /\ UNCHANGED <<rxKick, rxFree, toGuest>>

\* The guest takes a packet and posts its buffer again. A packet for a socket
\* that is gone, and the end of a stream, are answered with RST.
GuestRecv ==
  /\ toGuest # <<>>
  /\ LET p == Head(toGuest)
         c == p.conn
         live == \/ guest[c].st \in {"open", "sendshut"}
                 \/ guest[c].st = "connecting" /\ p.op = "RESPONSE"
     IN /\ guest' = IF ~live THEN guest
             ELSE [guest EXCEPT ![c] =
                    [st  |-> CASE p.op = "RESPONSE" -> "open"
                               [] p.op = "SHUTDOWN" -> "ended"
                               [] OTHER -> @.st,
                     tx  |-> @.tx,
                     fwd |-> p.fwd,
                     got |-> @.got \o p.data,
                     asked |-> @.asked]]
        /\ IF ~live \/ p.op = "SHUTDOWN" THEN Transmit(Packet(c, "RST", <<>>, 0, {}))
                                         ELSE UNCHANGED toDevice
  /\ toGuest' = Tail(toGuest)
  /\ rxFree' = rxFree + 1
  /\ rxKick' = TRUE
  /\ GuestUnchanged

-----------------------------------------------------------------------------
(* The host's tasks. Every transition of a pipe ends with wake_device.     *)

HostUnchanged == UNCHANGED <<conns, rxKick, worker, rings, guest>>

\* VsockHost::accept: a queued stream, or a listener in the port's slot.
Accept ==
  /\ listener # "waiting"
  /\ IF queue # <<>>
     THEN /\ host' = [host EXCEPT ![Head(queue)].st = "accepted"]
          /\ queue' = Tail(queue)
          /\ UNCHANGED listener
     ELSE listener' = "waiting" /\ UNCHANGED <<queue, host>>
  /\ HostUnchanged /\ UNCHANGED <<pipes, notified>>

\* tokio::time::timeout drops the accept: its sender stays in the slot.
AcceptTimesOut ==
  /\ listener = "waiting"
  /\ listener' = "stale"
  /\ HostUnchanged /\ UNCHANGED <<pipes, notified, queue, host>>

Accepted(c) == host[c].st \in {"accepted", "shut"}

HostRead(c, n) ==
  /\ Accepted(c)
  /\ n \in 1..Len(toHost[c].buf)
  /\ host' = [host EXCEPT ![c].got = @ \o FrontOf(toHost[c], n)]
  /\ toHost' = [toHost EXCEPT ![c] = Drain(@, n)]
  /\ notified' = TRUE
  /\ HostUnchanged /\ UNCHANGED <<toDev, port>>

HostReadEof(c) ==
  /\ Accepted(c) /\ ~host[c].eof
  /\ AtEof(toHost[c])
  /\ host' = [host EXCEPT ![c].eof = TRUE]
  /\ HostUnchanged /\ UNCHANGED <<pipes, notified, port>>

HostWrite(c, k) ==
  /\ host[c].st = "accepted"
  /\ k \in 1..(load[c].rx - host[c].wrote)
  /\ ~toDev[c].reader_closed /\ ~IsFull(toDev[c])
  /\ LET n == Accepts(toDev[c], k)
     IN /\ toDev' = [toDev EXCEPT ![c] = Extend(@, Fresh(host[c].wrote, n))]
        /\ host' = [host EXCEPT ![c].wrote = @ + n]
  /\ notified' = TRUE
  /\ HostUnchanged /\ UNCHANGED <<toHost, port>>

\* poll_shutdown, and the drop of the stream.
HostShutdown(c) ==
  /\ host[c].st = "accepted"
  /\ host' = [host EXCEPT ![c].st = "shut"]
  /\ toDev' = [toDev EXCEPT ![c].writer_closed = TRUE]
  /\ notified' = TRUE
  /\ HostUnchanged /\ UNCHANGED <<toHost, port>>

HostDrop(c) ==
  /\ Accepted(c)
  /\ host' = [host EXCEPT ![c].st = "dropped"]
  /\ toHost' = [toHost EXCEPT ![c].reader_closed = TRUE]
  /\ toDev' = [toDev EXCEPT ![c].writer_closed = TRUE]
  /\ notified' = TRUE
  /\ HostUnchanged /\ UNCHANGED port

-----------------------------------------------------------------------------

Tx == TxRequest \/ TxRw \/ TxRst \/ TxShutdown \/ TxCreditRequest

Worker ==
  \/ Tx \/ Event
  \/ \E c \in Conns :
       \/ Service(c) \/ Flush(c) \/ TxFlushed(c) \/ ServiceFlushed(c)
       \/ (\E n \in 1..Capacity : TransferRx(c, n)) \/ TransferEof(c) \/ TransferStops(c)

Guest ==
  \/ GuestRecv \/ Reset
  \/ \E c \in Conns :
       \/ GuestConnect(c) \/ (\E k \in 1..BufAlloc : GuestSend(c, k))
       \/ GuestGivesUp(c) \/ GuestCreditRequest(c)
       \/ \E flags \in {{"send"}, Both} : GuestShutdown(c, flags)

HostReads(c) == (\E n \in 1..Capacity : HostRead(c, n)) \/ HostReadEof(c)

Host ==
  \/ Accept \/ AcceptTimesOut
  \/ \E c \in Conns :
       \/ HostReads(c) \/ (\E k \in 1..MaxBytes : HostWrite(c, k))
       \/ HostShutdown(c) \/ HostDrop(c)

Step == Worker \/ Guest \/ Host

Next == Step /\ UNCHANGED load

\* The worker's loop runs and serves every event its poll returns, the guest
\* takes its packets, and the host accepts and reads. Nobody has to connect,
\* send or close.
Fairness ==
  /\ WF_vars(Worker)
  /\ SF_vars(Event)
  /\ WF_vars(GuestRecv)
  /\ WF_vars(Accept /\ queue # <<>>)
  /\ \A c \in Conns : WF_vars(HostReads(c))

SafeSpec == Init /\ [][Next]_allVars
Spec == SafeSpec /\ Fairness

-----------------------------------------------------------------------------

Ops == {"REQUEST", "RESPONSE", "RW", "RST", "SHUTDOWN", "CREDIT_UPDATE", "CREDIT_REQUEST"}
Packets == [conn : Conns, op : Ops, data : Seq(Nat), fwd : 0..(CntMod - 1), flags : SUBSET Both]

TypeOK ==
  /\ \A c \in Conns :
       /\ conns[c].state \in {"none", "established", "shutdown"}
       /\ conns[c].flags \in SUBSET Both /\ conns[c].flags # Both
       /\ conns[c].fwd \in 0..(CntMod - 1) /\ conns[c].pending \in Seq(Nat)
       /\ toHost[c] \in HalfType /\ Len(toHost[c].buf) <= Capacity
       /\ toDev[c] \in HalfType /\ Len(toDev[c].buf) <= Capacity
       /\ guest[c].st \in {"closed", "connecting", "open", "sendshut", "ended", "gone"}
       /\ host[c].st \in {"none", "queued", "accepted", "shut", "dropped"}
  /\ listener \in {"none", "waiting", "stale"}
  /\ at.pc \in {"idle", "tx", "service", "read"} /\ at.conn \in Conns \cup {NoConn}
  /\ todo \subseteq Conns
  /\ rxFree \in 0..RxBufs /\ rxFree + Len(toGuest) = RxBufs
  /\ toGuest \in Seq(Packets) /\ toDevice \in Seq(Packets)

\* The bytes of c's data packets, in the order of the ring.
Carried(ring, c) ==
  LET f[i \in 0..Len(ring)] ==
        IF i = 0 THEN <<>>
        ELSE IF ring[i].conn = c THEN f[i - 1] \o ring[i].data ELSE f[i - 1]
  IN f[Len(ring)]

Alive(c) == conns[c].state = "established"

\* On a connection in use no byte is lost, repeated or reordered between the
\* two applications: the stages of each direction - ring, pending, pipe -
\* hold, in this order, exactly what was sent and not yet received.
EndToEndOrder ==
  \A c \in Conns : Alive(c) =>
    /\ ~toHost[c].reader_closed =>
         host[c].got \o toHost[c].buf \o conns[c].pending \o Carried(toDevice, c)
           = Fresh(0, guest[c].tx)
    /\ guest[c].st \in {"open", "sendshut"} =>
         guest[c].got \o Carried(toGuest, c) \o toDev[c].buf = Fresh(0, host[c].wrote)

\* The credit bounds what a guest that respects it can make the device hold:
\* pending and the packets still to come never exceed BUF_ALLOC, although
\* fwd_cnt is known to the guest late, and wraps.
PendingWithinCredit ==
  \A c \in Conns : Len(conns[c].pending) + Len(Carried(toDevice, c)) <= BufAlloc

\* An accept never waits while a connection of its port is in the queue, and
\* a connection is in the queue exactly once until it is accepted.
NoStrandedConnection ==
  /\ listener = "waiting" => queue = <<>>
  /\ \A c \in Conns :
       host[c].st = "queued" <=> \E i \in 1..Len(queue) : queue[i] = c

\* The worker goes to sleep only when there is nothing it could do: no bytes
\* to flush into a pipe with room, and none to carry to a guest with a buffer.
NoStalledWork ==
  at = Idle /\ todo = {} /\ ~notified /\ ~rxKick =>
    \A c \in Conns :
      /\ conns[c].pending # <<>> => toHost[c].reader_closed \/ IsFull(toHost[c])
      /\ Alive(c) /\ IsReadable(toDev[c]) => rxFree = 0

\* What a guest sent before a half-close, or while connected, reaches the host
\* application, however small the pipe, as long as the host reads.
GuestBytesArrive ==
  \A c \in Conns, i \in 1..MaxBytes :
    conns[c].state # "none" /\ guest[c].tx >= i ~>
      (Len(host[c].got) >= i \/ conns[c].state = "none" \/ toDev[c].writer_closed)

\* What the host wrote reaches the guest application, and the end as well, once
\* the guest's socket is open: a guest whose RESPONSE was dropped for want of a
\* buffer never opens it.
HostBytesArrive ==
  \A c \in Conns :
    /\ \A i \in 1..MaxBytes :
         guest[c].st = "open" /\ host[c].wrote >= i ~>
           (Len(guest[c].got) >= i \/ guest[c].st \in {"gone", "sendshut"})
    /\ guest[c].st = "open" /\ toDev[c].writer_closed ~>
         guest[c].st \in {"ended", "gone", "sendshut"}

\* "if the pipe filled up, the host read side will wake us when it drains"
\* (vsock_device.rs:497): a guest out of credit gets some again once the host
\* has read everything.
CreditReturns ==
  \A c \in Conns :
    guest[c].st = "open" /\ Credit(c) = 0 ~> (Credit(c) > 0 \/ guest[c].st # "open")

-----------------------------------------------------------------------------
(* Why the safety properties hold, as an inductive invariant               *)
(* (VsockDeviceProofs).                                                    *)

Of(ring, c) == {i \in 1..Len(ring) : ring[i].conn = c}
OfOp(ring, c, op) == {i \in Of(ring, c) : ring[i].op = op}

\* A connection that was removed left nothing behind, and the worker flushes
\* what it took from the TX ring into an established connection.
GoneIsGone ==
  \A c \in Conns :
    /\ conns[c].state = "none" => conns[c] = Gone
    /\ at = At("tx", c) => Alive(c)

\* Until the device takes a connection's REQUEST, which the guest sends once,
\* nothing of the connection exists but that REQUEST.
Unused(c) == guest[c].tx = 0 /\ guest[c].fwd = 0 /\ guest[c].got = <<>>
Untouched(c) ==
  /\ conns[c] = Gone
  /\ toHost[c].buf = <<>> /\ host[c].got = <<>>
  /\ toDev[c].buf = <<>> /\ host[c].wrote = 0
  /\ guest[c].st \in {"closed", "connecting", "gone"} /\ Unused(c)
  /\ Of(toGuest, c) = {} /\ Of(toDevice, c) = OfOp(toDevice, c, "REQUEST")
OpensOnce ==
  \A c \in Conns :
    /\ host[c].st = "none" => Untouched(c)
    /\ guest[c].st = "closed" \/ OfOp(toDevice, c, "REQUEST") # {} => host[c].st = "none"
    /\ guest[c].st = "closed" => Of(toDevice, c) = {}
    /\ guest[c].st = "connecting" => Unused(c)
    /\ \A i, j \in OfOp(toDevice, c, "REQUEST") : i = j

\* The accept queue holds a connection once.
QueuedOnce == \A i, j \in 1..Len(queue) : queue[i] = queue[j] => i = j

\* A connection whose work is not done is one the worker is at, or will be.
Unflushed(c) == conns[c].pending # <<>> /\ ~toHost[c].reader_closed /\ ~IsFull(toHost[c])
Unread(c) == Alive(c) /\ IsReadable(toDev[c]) /\ rxFree > 0
WorkIsSeen ==
  ~notified /\ ~rxKick =>
    \A c \in Conns \ todo :
      /\ Unflushed(c) => at \in {At("tx", c), At("service", c)}
      /\ Unread(c) => at \in {At("service", c), At("read", c)}

\* The guest joins a stream at its start: RESPONSE is a connection's first
\* packet, and a guest whose RESPONSE was dropped never opens its socket. The
\* driver's bytes travel in RW packets only.
ResponseIsFirst ==
  \A c \in Conns : \A i \in OfOp(toGuest, c, "RESPONSE"), j \in Of(toGuest, c) : i <= j
OnlyRwCarries ==
  \A i \in 1..Len(toDevice) : toDevice[i].op # "RW" => toDevice[i].data = <<>>
Joins(c) ==
  \/ guest[c].st \in {"open", "sendshut"}
  \/ guest[c].st = "connecting" /\ OfOp(toGuest, c, "RESPONSE") # {}
InOrder(c) ==
  /\ Alive(c) /\ ~toHost[c].reader_closed =>
       host[c].got \o toHost[c].buf \o conns[c].pending \o Carried(toDevice, c) = Fresh(0, guest[c].tx)
  /\ Alive(c) /\ Joins(c) =>
       guest[c].got \o Carried(toGuest, c) \o toDev[c].buf = Fresh(0, host[c].wrote)
Ordered == \A c \in Conns : InOrder(c)

\* What the device holds of a connection is covered by every value of fwd_cnt
\* the guest knows, is about to learn from the ring, or the device will send,
\* the older the value the more so. Owed is what a guest that has sent tx bytes
\* counts as not forwarded when it knows the value f.
Owed(tx, f) == (tx + CntMod - f) % CntMod
Held(c) == Len(conns[c].pending) + Len(Carried(toDevice, c))
             + (IF at = At("tx", c) THEN total ELSE 0)
Credits(ring, c) == Of(ring, c) \ OfOp(ring, c, "SHUTDOWN")
Covers(held, tx, known, ring, credits, sends, next) ==
  /\ held <= Owed(tx, known) /\ Owed(tx, known) <= BufAlloc
  /\ \A i \in credits : held <= Owed(tx, ring[i].fwd) /\ Owed(tx, ring[i].fwd) <= Owed(tx, known)
  /\ \A i, j \in credits : i < j => Owed(tx, ring[j].fwd) <= Owed(tx, ring[i].fwd)
  /\ sends => /\ held <= Owed(tx, next) /\ Owed(tx, next) <= Owed(tx, known)
              /\ \A i \in credits : Owed(tx, next) <= Owed(tx, ring[i].fwd)
Covered(c) ==
  /\ Held(c) <= BufAlloc
  /\ guest[c].st \in {"connecting", "open", "sendshut"} =>
       Covers(Held(c), guest[c].tx, guest[c].fwd, toGuest, Credits(toGuest, c),
              conns[c].state # "none", conns[c].fwd)
CreditIsCovered == \A c \in Conns : Covered(c)

=============================================================================
